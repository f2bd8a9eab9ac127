------------------------------ MODULE MojoVBoot ------------------------------
(***************************************************************************)
(* The target-side driver that every Mojo-V program starts with            *)
(* (bringup-bench/target/mojov-utils.c): upload a contract to the KMSM,    *)
(* open it, poll, check, then enable secret mode and verify it.  Each CSR  *)
(* access is one instruction; between two of them the debug module may     *)
(* reset the hart, which also restarts the program.                        *)
(*                                                                         *)
(* The hexadecimal text of a contract may have been cut short or may carry *)
(* trailing words: load_hex_words_to_kmsm streams whatever it is given.    *)
(***************************************************************************)
EXTENDS MojoVControl

CONSTANTS
  KemLens,     \* how many words the key text may have
  MsgLens,     \* how many words the contract text may have
  MaxResets,   \* bound on debug-module resets
  MaxRuns      \* bound on how often the program configures a contract

ASSUME BootAssumption ==
  /\ KemLens \subseteq Nat /\ MsgLens \subseteq Nat
  /\ MaxResets \in Nat /\ MaxRuns \in Nat

VARIABLES
  pc,        \* the driver statement to execute next
  text,      \* whose contract the texts hold, their complete words, and
             \* whether an incomplete one follows
  pos,       \* next word to load
  resets,
  runs

driverVars == <<pc, text, pos>>
bootVars == <<controlVars, driverVars, resets, runs>>

Texts == [c : Contracts, kem : KemLens, msg : MsgLens, odd : BOOLEAN]

Running == {"kem_addr", "kem_data", "msg_addr", "msg_data", "open", "poll", "status",
            "key_valid", "before", "probe", "blocked", "enable", "enabled"}
Outcomes == {"ready", "open_failed", "key_not_valid", "enabled_without_key", "not_enabled"}

BootTypeOK ==
  /\ TypeOK
  /\ pc \in Running \cup Outcomes
  /\ text \in Texts
  /\ pos \in Nat
  /\ resets \in 0 .. MaxResets
  /\ runs \in 0 .. MaxRuns

BootInit ==
  /\ Init
  /\ pc = "kem_addr"
  /\ text \in Texts
  /\ pos = 0
  /\ resets = 0
  /\ runs = 0

----------------------------------------------------------------------------
Goto(at, next) == pc = at /\ pc' = next /\ UNCHANGED text
Env == UNCHANGED <<resets, runs>>

\* load_hex_words_to_kmsm: set the address once ...
LoadAddr(at, start, next) ==
  /\ Goto(at, next)
  /\ WriteKmsmAddr(start)
  /\ pos' = 0
  /\ Env

\* ... then stream the complete words; a word beyond the contract's own is no part of it.
LoadWord(at, len, size) ==
  /\ pos < len
  /\ Goto(at, at)
  /\ WriteKmsmData(IF pos < size THEN text.c ELSE Blank)
  /\ pos' = pos + 1
  /\ Env

\* ... and flush what is left of an incomplete last word.
LoadDone(at, len, next) ==
  /\ pos = len
  /\ Goto(at, next)
  /\ IF text.odd THEN WriteKmsmData(Blank) ELSE UNCHANGED controlVars
  /\ UNCHANGED pos
  /\ Env

LoadKem ==
  \/ LoadAddr("kem_addr", pubkey_bytes, "kem_data")
  \/ LoadWord("kem_data", text.kem, KeyWindows)
  \/ LoadDone("kem_data", text.kem, "msg_addr")

LoadMsg ==
  \/ LoadAddr("msg_addr", pubkey_bytes + enckey_bytes, "msg_data")
  \/ LoadWord("msg_data", text.msg, DcWindows)
  \/ LoadDone("msg_data", text.msg, "open")

\* mojov_configure_kmsm_from_dc after the two loads.
WriteCtrl ==
  /\ Goto("open", "poll")
  /\ WriteKmsmCtrl(1)
  /\ UNCHANGED pos /\ Env

\* A CSR read and the branch on it.
Read(at, test, yes, no) ==
  /\ Goto(at, IF test THEN yes ELSE no)
  /\ UNCHANGED <<controlVars, pos>>
  /\ Env

Configure ==
  \/ WriteCtrl
  \/ Read("poll", kmsm_ctrl_busy, "poll", "status")
  \/ Read("status", kmsm_ctrl_status = 0, "key_valid", "open_failed")
  \/ Read("key_valid", mojov_dcvalid, "before", "key_not_valid")

\* mojov_enable_and_verify
SetEnable(at, next) ==
  /\ Goto(at, next)
  /\ WriteCfg(TRUE)
  /\ UNCHANGED pos /\ Env

EnableAndVerify ==
  \/ Read("before", mojov_dcvalid, "enable", "probe")
  \/ SetEnable("probe", "blocked")
  \/ Read("blocked", mojov_en, "enabled_without_key", "enable")
  \/ SetEnable("enable", "enabled")
  \/ Read("enabled", mojov_en, "ready", "not_enabled")

\* The program disables secret mode and configures another contract, or goes
\* straight on to enabling after a failed open.
Again ==
  /\ pc \in Outcomes
  /\ runs < MaxRuns
  /\ runs' = runs + 1
  /\ text' \in Texts
  /\ \/ /\ pc' = "kem_addr"
        /\ WriteCfg(FALSE)
     \/ /\ pc = "open_failed"
        /\ pc' = "before"
        /\ UNCHANGED controlVars
  /\ UNCHANGED <<pos, resets>>

DriverStep == LoadKem \/ LoadMsg \/ Configure \/ EnableAndVerify

\* The debug module resets the hart; the program starts over.
DebugReset ==
  /\ resets < MaxResets
  /\ resets' = resets + 1
  /\ Reset
  /\ pc' = "kem_addr"
  /\ pos' = 0
  /\ UNCHANGED <<text, runs>>

Finished == pc \in Outcomes /\ runs = MaxRuns /\ UNCHANGED bootVars

BootNext == DriverStep \/ Again \/ DebugReset \/ Finished

\* The hart keeps executing instructions; nobody has to reset it.
BootSpec == BootInit /\ [][BootNext]_bootVars /\ WF_bootVars(DriverStep)

----------------------------------------------------------------------------
\* The contract the KMSM holds is exactly contract c: no field of it is junk
\* or another contract's.
Exactly(c) ==
  mojov_dc = [sig |-> c, key |-> c, csig |-> c, format_sel |-> FormatOf[c]]

WholeText == text.kem >= KeyWindows /\ text.msg >= DcWindows

\* The driver's two "cannot happen" branches never do (mojov-utils.c:171, 66):
\* a status of success always comes with key_valid, and enabling without
\* key_valid is always blocked, in whatever state earlier runs and resets
\* left the KMSM.
DriverNeverSurprised == pc \notin {"key_not_valid", "enabled_without_key"}

\* A program that got through the driver with an untruncated contract computes
\* under exactly that contract, whatever was uploaded or opened before it:
\* residue of an earlier upload is never mixed into it.
ReadyMeansOwnContract ==
  (pc = "ready" /\ WholeText) =>
    /\ mojov_en
    /\ secreg_mode
    /\ Exactly(text.c)
    /\ simon_state = text.c

\* Polling ends: the driver reaches an outcome after every (re)start, because
\* every exit of an open clears busy (processor.cc:140).
DriverTerminates == []<>(pc \in Outcomes)
=============================================================================
