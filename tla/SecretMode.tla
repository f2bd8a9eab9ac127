----------------------------- MODULE SecretMode -----------------------------
(***************************************************************************)
(* The control state as instructions see it: is secret mode on, is there a *)
(* contract, which format and signature does it select, and which key is   *)
(* in the cipher core.  MojoVControl implements this module; the modules   *)
(* about instructions extend it instead of carrying the KMSM along.        *)
(***************************************************************************)
CONSTANTS
  Loadable,    \* what mojov_dc may hold: records with fields key, csig, format_sel
  ZeroDc,      \* mojov_dc after memset
  Uninit,      \* cipher core never keyed
  DefaultKey   \* processor_t::simon_key

VARIABLES mojov_en, secreg_mode, mojov_dcvalid, mojov_dc, simon_state

smVars == <<mojov_en, secreg_mode, mojov_dcvalid, mojov_dc, simon_state>>

SMInit ==
  /\ mojov_en = FALSE
  /\ secreg_mode = FALSE
  /\ mojov_dcvalid = FALSE
  /\ mojov_dc = ZeroDc
  /\ simon_state = Uninit

\* A write to mojov_cfg: enables only with a valid contract, sets secret mode
\* to the result, and re-expands the key when enabling.
SetMode(req) ==
  /\ mojov_en' = (req /\ mojov_dcvalid)
  /\ secreg_mode' = mojov_en'
  /\ simon_state' = IF mojov_en' THEN mojov_dc.key ELSE simon_state
  /\ UNCHANGED <<mojov_dcvalid, mojov_dc>>

\* An open that got past the early returns.
OpenOk ==
  /\ ~mojov_en
  /\ mojov_dcvalid' = TRUE
  /\ mojov_dc' \in Loadable
  /\ simon_state' = mojov_dc'.key
  /\ UNCHANGED <<mojov_en, secreg_mode>>

OpenBad ==
  /\ ~mojov_en
  /\ mojov_dcvalid' = FALSE
  /\ mojov_dc' \in Loadable \cup {mojov_dc}
  /\ UNCHANGED <<mojov_en, secreg_mode, simon_state>>

\* Reset forgets the contract; secret mode and the cipher core stay.
ResetMode ==
  /\ mojov_en' = FALSE
  /\ mojov_dcvalid' = FALSE
  /\ mojov_dc' = ZeroDc
  /\ UNCHANGED <<secreg_mode, simon_state>>

SMNext ==
  \/ \E req \in BOOLEAN : SetMode(req)
  \/ OpenOk
  \/ OpenBad
  \/ ResetMode

SMSpec == SMInit /\ [][SMNext]_smVars
=============================================================================
