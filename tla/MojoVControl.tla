---------------------------- MODULE MojoVControl ----------------------------
(***************************************************************************)
(* The control state of one Mojo-V hart: the mojov_cfg CSR, secret mode,   *)
(* the key-management state machine (KMSM) through which software loads a  *)
(* data contract, the cipher core, and reset.                              *)
(*                                                                         *)
(* Software drives it with CSR writes; the debug module may reset the hart *)
(* between any two instructions (hartreset, ndmreset).  The KMSM opens a   *)
(* contract within one CSR write, so every action below is one whole       *)
(* handler.                                                                *)
(***************************************************************************)
EXTENDS ContractOpen

CONSTANTS
  PubWindows,    \* 8-byte windows of the read-only public key (100)
  AddrInputs,    \* values software writes to kmsm_addr
  HasSkPath,     \* was the simulator given a private key file?
  Uninit,        \* cipher core never keyed
  DefaultKey     \* processor_t::simon_key

kmsm_window_bytes == 8

ASSUME ControlAssumption ==
  /\ PubWindows \in Nat \ {0}
  /\ AddrInputs \subseteq Nat
  /\ HasSkPath \in BOOLEAN
  /\ Uninit \notin Origins
  /\ DefaultKey \notin Origins

pubkey_bytes == PubWindows * kmsm_window_bytes
enckey_bytes == KeyWindows * kmsm_window_bytes
encdc_bytes  == DcWindows * kmsm_window_bytes
kmsm_bytes_total == pubkey_bytes + enckey_bytes + encdc_bytes

VARIABLES
  mojov_en,          \* bit 0 of mojov_cfg
  secreg_mode,       \* what every instruction's checks look at
  mojov_dcvalid,     \* key_valid: bit 1 of mojov_cfg
  mojov_dc,          \* the data contract
  simon_state,       \* whose key the cipher core is expanded with
  kem, msg,          \* the writable KMSM bytes, one entry per window
  kmsm_addr,
  kmsm_enckey_bytes, \* high-water marks of the upload
  kmsm_encdc_bytes,
  kmsm_ctrl_status,
  kmsm_ctrl_busy

modeVars == <<mojov_en, secreg_mode>>
contractVars == <<mojov_dcvalid, mojov_dc, simon_state>>
uploadVars == <<kem, msg, kmsm_addr, kmsm_enckey_bytes, kmsm_encdc_bytes>>
ctrlVars == <<kmsm_ctrl_status, kmsm_ctrl_busy>>
controlVars == <<modeVars, contractVars, uploadVars, ctrlVars>>

Keys == Origins \cup {Uninit, DefaultKey}

TypeOK ==
  /\ mojov_en \in BOOLEAN
  /\ secreg_mode \in BOOLEAN
  /\ mojov_dcvalid \in BOOLEAN
  /\ mojov_dc \in DataContracts
  /\ simon_state \in Keys
  /\ kem \in [0 .. KeyWindows - 1 -> Words]
  /\ msg \in [0 .. DcWindows - 1 -> Words]
  /\ kmsm_addr \in Nat
  /\ kmsm_enckey_bytes \in 0 .. enckey_bytes
  /\ kmsm_encdc_bytes \in 0 .. encdc_bytes
  /\ kmsm_ctrl_status \in 0 .. 7
  /\ kmsm_ctrl_busy \in BOOLEAN

BlankKem == [w \in 0 .. KeyWindows - 1 |-> Blank]
BlankMsg == [w \in 0 .. DcWindows - 1 |-> Blank]

\* A processor_t just constructed.
Init ==
  /\ mojov_en = FALSE /\ secreg_mode = FALSE
  /\ mojov_dcvalid = FALSE /\ mojov_dc = ZeroContract /\ simon_state = Uninit
  /\ kem = BlankKem /\ msg = BlankMsg
  /\ kmsm_addr = 0 /\ kmsm_enckey_bytes = 0 /\ kmsm_encdc_bytes = 0
  /\ kmsm_ctrl_status = 0 /\ kmsm_ctrl_busy = FALSE

----------------------------------------------------------------------------
\* processor_t::reset -> state_t::reset: mojov_reset, then csr_init builds a
\* new mojov_cfg with mojov_en = 0.  secreg_mode is not written.
Reset ==
  /\ mojov_en' = FALSE
  /\ mojov_dcvalid' = FALSE /\ mojov_dc' = ZeroContract
  /\ kem' = BlankKem /\ msg' = BlankMsg
  /\ kmsm_addr' = 0 /\ kmsm_enckey_bytes' = 0 /\ kmsm_encdc_bytes' = 0
  /\ kmsm_ctrl_status' = 0 /\ kmsm_ctrl_busy' = FALSE
  /\ UNCHANGED <<secreg_mode, simon_state>>

\* Mutant: enabling without a valid contract.
CfgGrants_NoKeyCheck(req_enable) == req_enable

\* mojov_cfg_csr_t::unlogged_write followed by set_secreg_mode.
CfgGrants(req_enable) == req_enable /\ mojov_dcvalid

\* Mutant: the branches on key_valid swapped in set_secreg_mode.
WriteCfg_SwappedKeys(req_enable) ==
  /\ mojov_en' = CfgGrants(req_enable)
  /\ secreg_mode' = mojov_en'
  /\ simon_state' = IF mojov_en' THEN DefaultKey ELSE simon_state
  /\ UNCHANGED <<mojov_dcvalid, mojov_dc, uploadVars, ctrlVars>>

WriteCfg(req_enable) ==
  /\ mojov_en' = CfgGrants(req_enable)
  /\ secreg_mode' = mojov_en'
  /\ simon_state' = IF ~mojov_en' THEN simon_state
                    ELSE IF mojov_dcvalid THEN mojov_dc.key ELSE DefaultKey
  /\ UNCHANGED <<mojov_dcvalid, mojov_dc, uploadVars, ctrlVars>>

\* mojov_kmsm_set_addr
WriteKmsmAddr(addr) ==
  /\ kmsm_addr' = addr
  /\ UNCHANGED <<modeVars, contractVars, kem, msg,
                 kmsm_enckey_bytes, kmsm_encdc_bytes, ctrlVars>>

----------------------------------------------------------------------------
\* mojov_kmsm_write_data, by where kmsm_addr points.

Aligned == kmsm_addr % kmsm_window_bytes = 0
InRange == kmsm_addr < kmsm_bytes_total
Window == kmsm_addr \div kmsm_window_bytes

\* Out of range, or in the public key: the write is dropped.
WriteKmsmDropped ==
  /\ \/ ~InRange
     \/ Aligned /\ kmsm_addr < pubkey_bytes
  /\ UNCHANGED controlVars

WriteKmsmUnaligned ==
  /\ InRange
  /\ ~Aligned
  /\ kmsm_ctrl_status' = CtrlField("BAD_INPUT")
  /\ UNCHANGED <<modeVars, contractVars, uploadVars, kmsm_ctrl_busy>>

NextAddr == (kmsm_addr + kmsm_window_bytes) % kmsm_bytes_total

\* The high-water mark of an area of limit bytes, after a window at offset off.
RaisedMark(mark, off, limit) ==
  LET end == IF off + kmsm_window_bytes < limit THEN off + kmsm_window_bytes ELSE limit
  IN  IF end > mark THEN end ELSE mark

WriteKmsmKey(val) ==
  /\ Aligned
  /\ pubkey_bytes <= kmsm_addr
  /\ kmsm_addr < pubkey_bytes + enckey_bytes
  /\ kem' = [kem EXCEPT ![Window - PubWindows] = val]
  /\ kmsm_enckey_bytes' = RaisedMark(kmsm_enckey_bytes, kmsm_addr - pubkey_bytes, enckey_bytes)
  /\ kmsm_addr' = NextAddr
  /\ UNCHANGED <<modeVars, contractVars, msg, kmsm_encdc_bytes, ctrlVars>>

WriteKmsmDc(val) ==
  /\ Aligned
  /\ InRange
  /\ pubkey_bytes + enckey_bytes <= kmsm_addr
  /\ msg' = [msg EXCEPT ![Window - PubWindows - KeyWindows] = val]
  /\ kmsm_encdc_bytes' =
       RaisedMark(kmsm_encdc_bytes, kmsm_addr - (pubkey_bytes + enckey_bytes), encdc_bytes)
  /\ kmsm_addr' = NextAddr
  /\ UNCHANGED <<modeVars, contractVars, kem, kmsm_enckey_bytes, ctrlVars>>

WriteKmsmData(val) ==
  \/ WriteKmsmDropped
  \/ WriteKmsmUnaligned
  \/ WriteKmsmKey(val)
  \/ WriteKmsmDc(val)

----------------------------------------------------------------------------
\* mojov_kmsm_open_contract, by its exits.  Each leaves the controller idle.

\* Mutant: the length of the encrypted contract is not checked.
UploadIncomplete_KeyOnly == kmsm_enckey_bytes = 0
UploadIncomplete == kmsm_encdc_bytes # encdc_bytes \/ kmsm_enckey_bytes = 0

\* Mutant: opening is allowed in secret mode.
OpenAllowed_AnyMode == HasSkPath /\ ~UploadIncomplete

\* The early returns: secret computation active, no private key, incomplete.
OpenAllowed == ~mojov_en /\ HasSkPath /\ ~UploadIncomplete

\* Mutant: an early return that does not clear busy.
OpenRefused_StaysBusy ==
  /\ ~OpenAllowed
  /\ kmsm_ctrl_status' = CtrlField("BAD_INPUT")
  /\ kmsm_ctrl_busy' = TRUE
  /\ UNCHANGED <<modeVars, contractVars, uploadVars>>

OpenRefused ==
  /\ ~OpenAllowed
  /\ kmsm_ctrl_status' =
       CtrlField(IF ~mojov_en /\ ~HasSkPath THEN "BAD_SIGNATURE" ELSE "BAD_INPUT")
  /\ kmsm_ctrl_busy' = FALSE
  /\ UNCHANGED <<modeVars, contractVars, uploadVars>>

OpenAttempted(status) ==
  /\ OpenAllowed
  /\ \E fault \in HostFaults \cup {"none"} :
        status = OpenStatus(kem, kmsm_enckey_bytes \div kmsm_window_bytes, msg, fault)
  /\ IF OpenDecodes(status)
     THEN mojov_dc' \in Decodings(kem, msg)
     ELSE UNCHANGED mojov_dc
  /\ kmsm_ctrl_status' = CtrlField(status)
  /\ kmsm_ctrl_busy' = FALSE
  /\ UNCHANGED <<modeVars, uploadVars>>

\* Mutant: a failed open leaves key_valid as it was.
OpenFailed_KeepsValid ==
  \E status \in OpenStatuses \ {"OK"} :
    OpenAttempted(status) /\ UNCHANGED <<mojov_dcvalid, simon_state>>

OpenFailed ==
  \E status \in OpenStatuses \ {"OK"} :
    /\ OpenAttempted(status)
    /\ mojov_dcvalid' = FALSE
    /\ UNCHANGED simon_state

OpenSucceeded ==
  /\ OpenAttempted("OK")
  /\ mojov_dcvalid' = TRUE
  /\ simon_state' = mojov_dc'.key

OpenContract == OpenRefused \/ OpenFailed \/ OpenSucceeded

\* mojov_kmsm_write_ctrl: only bit 0 starts an open.
WriteKmsmCtrl(val) ==
  \/ val = 1 /\ OpenContract
  \/ val = 0 /\ UNCHANGED controlVars

SoftwareStep ==
  \/ \E req \in BOOLEAN : WriteCfg(req)
  \/ \E addr \in AddrInputs : WriteKmsmAddr(addr)
  \/ \E val \in Words : WriteKmsmData(val)
  \/ \E val \in {0, 1} : WriteKmsmCtrl(val)

Next == SoftwareStep \/ Reset

Spec == Init /\ [][Next]_controlVars

----------------------------------------------------------------------------
\* The lifecycle a contract's owner sees, read off the control state.
Phase == IF mojov_en THEN "running" ELSE IF mojov_dcvalid THEN "ready" ELSE "none"
KeyInUse == IF mojov_dcvalid THEN simon_state ELSE Uninit

Lifecycle == INSTANCE ContractLifecycle
  WITH LoadableKeys <- Origins, NoKey <- Uninit, phase <- Phase, key <- KeyInUse

\* The control state implements the contract lifecycle: every CSR write and
\* reset is a load, drop, start, stop or power cycle of it, or is invisible;
\* in particular the key changes only by an explicit load or reset, never by
\* entering, re-entering or leaving secret mode.
ImplementsLifecycle == Lifecycle!LSpec

\* What instructions see of the control state.
Visible(dc) == [key |-> dc.key, csig |-> dc.csig, format_sel |-> dc.format_sel]

View == INSTANCE SecretMode
  WITH Loadable <- [key : Origins, csig : Origins, format_sel : Formats],
       ZeroDc <- Visible(ZeroContract), mojov_dc <- Visible(mojov_dc)

\* The control state with all its KMSM handlers implements the interface that
\* the instruction-level modules build on: an upload is invisible, an open is
\* one step, and a default key is never expanded because a mode is never
\* enabled without a contract.
ImplementsView == View!SMSpec

\* Whenever mojov_cfg shows key_valid, the contract's header was a genuine
\* one's and the cipher core is expanded with that contract's key: a failed
\* or refused open (processor.cc:130), a mode change (processor.h:435) or a
\* reset never leaves a valid contract beside another contract's key.
ValidContractIsKeyed ==
  mojov_dcvalid => mojov_dc.sig \in Genuine /\ simon_state = mojov_dc.key

\* An enabled mojov_cfg means that instructions really run with the secret
\* register checks on and with a valid contract (csrs.cc:2307).
EnabledIsProtected == mojov_en => secreg_mode /\ mojov_dcvalid

\* The high-water marks guard the open: a valid contract came from an upload
\* that reached the last byte of both areas (processor.cc:150).
ValidNeedsUpload ==
  mojov_dcvalid => kmsm_enckey_bytes = enckey_bytes /\ kmsm_encdc_bytes = encdc_bytes

\* While secret mode stays enabled nothing replaces the contract, its key or
\* its validity: an open is refused, and re-enabling re-expands the same key.
ContractFrozenWhileEnabled ==
  [][mojov_en /\ mojov_en' => UNCHANGED contractVars]_controlVars

\* "Contracts must not be opened while secret computation is active."
\* (processor.cc:137).  Every mojov_cfg write sets secreg_mode to mojov_en and
\* a reset forgets the contract, so a valid contract beside secreg_mode set and
\* mojov_en clear was opened while instructions ran in secret mode.
NoContractOpenedInSecretMode == ~(secreg_mode /\ ~mojov_en /\ mojov_dcvalid)
=============================================================================
