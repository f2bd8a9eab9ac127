------------------------------- MODULE DcTool -------------------------------
(***************************************************************************)
(* How keys and contracts get from the owner's tool to the simulator.      *)
(* dc-tool (dc-tool/dc-tool.c) writes a key pair to two files (keygen),    *)
(* encrypts a contract for a public key into a text file (dcgen) and checks*)
(* such a file (dcchk).  spike (spike_main/spike.cc) reads the same files  *)
(* at start-up, and every KMSM open re-reads the private key by its path.  *)
(*                                                                         *)
(* Tool runs interleave, die on a failed call or are killed, and stdio     *)
(* flushes a file when it is closed, without a check: a run leaves empty   *)
(* or shortened files behind, and a short file over a longer one.          *)
(* A text file is the sequence of its windows in file order, KEM_DC, then  *)
(* MSG_DC, then PT_SHA256, each named for the contract it belongs to.      *)
(***************************************************************************)
EXTENDS Naturals, Sequences, FiniteSetsExt

CONSTANTS
  Jobs,        \* dc-tool processes
  KeyPairs,    \* key pairs keygen may draw
  Contracts, FormatOf, Blank, Junk,
  KeyWindows, DcWindows, BlockWindows, SigBlocks, KeyBlocks, CsigBlocks, FmtBlocks,
  ArgInputs,   \* the sets of options spike may be started with
  Torn,        \* a PEM file that does not parse, or does not exist
  Nobody       \* the key pair of a contract that has not been made

\* The cipher blocks of a contract.
AllBlocks == 0 .. (DcWindows - 1) \div BlockWindows

ASSUME DcToolAssumption ==
  /\ Torn \notin KeyPairs /\ Nobody \notin KeyPairs
  /\ ArgInputs \subseteq SUBSET {"sk", "pk", "dc", "fast", "strong", "proofcarrying"}
  /\ Blank \notin Contracts /\ Junk \notin Contracts
  /\ FormatOf \in [Contracts -> 0 .. 3]

\* Every field of a contract lies in its blocks (data_contract_t).
ASSUME LayoutAssumption ==
  /\ KeyWindows \in Nat \ {0} /\ DcWindows \in Nat \ {0} /\ BlockWindows \in Nat \ {0}
  /\ {SigBlocks, KeyBlocks, CsigBlocks, FmtBlocks} \subseteq (SUBSET AllBlocks) \ {{}}

\* What a private key opens: the contracts encrypted for its pair.
Open(Genuine) == INSTANCE ContractOpen

VARIABLES
  pkFile, skFile,   \* the two PEM files
  ctFile,           \* the contract file
  madeFor,          \* the key pair each contract was encrypted for
  job,              \* what each dc-tool process is doing
  args,             \* spike's options
  spike,            \* how far spike is
  cfg,              \* the part of cfg_t that spike fills from the files
  hart              \* the contract a program opened through the KMSM, if any

files == <<pkFile, skFile, ctFile>>
simVars == <<args, spike, cfg, hart>>
toolVars == <<files, madeFor, job, simVars>>

FileWindows == KeyWindows + DcWindows + 1
Idle == [op |-> "idle"]
ZeroCfg == [pk |-> Torn, text |-> <<>>, dc |-> Open({})!ZeroContract, dcvalid |-> FALSE,
            fast |-> FALSE, strong |-> FALSE, proofcarrying |-> FALSE]
Steps == {"args", "pk", "text", "open", "mode", "run", "exit"}

ToolTypeOK ==
  /\ {pkFile, skFile} \subseteq KeyPairs \cup {Torn}
  /\ ctFile \in Seq(Contracts) /\ Len(ctFile) <= FileWindows
  /\ madeFor \in [Contracts -> KeyPairs \cup {Nobody}]
  /\ job \in [Jobs -> {Idle} \cup [op : {"pk_open", "pk_close", "sk_open", "sk_close"}, key : KeyPairs]
                           \cup [op : {"ct_open", "ct_close"}, c : Contracts]]
  /\ args \in ArgInputs
  /\ spike \in Steps
  /\ cfg \in [pk : KeyPairs \cup {Torn}, text : Seq(Contracts), dc : Open({})!DataContracts,
              dcvalid : BOOLEAN, fast : BOOLEAN, strong : BOOLEAN, proofcarrying : BOOLEAN]
  /\ hart \in Contracts \cup {Blank}

ToolInit ==
  /\ pkFile = Torn /\ skFile = Torn /\ ctFile = <<>>
  /\ madeFor = [c \in Contracts |-> Nobody]
  /\ job = [j \in Jobs |-> Idle]
  /\ args \in ArgInputs
  /\ spike = "args" /\ cfg = ZeroCfg /\ hart = Blank

----------------------------------------------------------------------------
(* dc-tool keygen: step_keygen. *)
At(j, op) == job[j].op = op
Becomes(j, step) == job' = [job EXCEPT ![j] = step]

Keygen(j, kp) ==
  /\ At(j, "idle")
  /\ Becomes(j, [op |-> "pk_open", key |-> kp])
  /\ UNCHANGED <<files, madeFor, simVars>>

\* write_pubkey_pem: opening truncates ...
KeygenOpenPk(j) ==
  /\ At(j, "pk_open")
  /\ pkFile' = Torn
  /\ Becomes(j, [job[j] EXCEPT !.op = "pk_close"])
  /\ UNCHANGED <<skFile, ctFile, madeFor, simVars>>

\* ... and BIO_free flushes, whether or not everything could be written.
KeygenClosePk(j) ==
  /\ At(j, "pk_close")
  /\ pkFile' \in {job[j].key, Torn}
  /\ Becomes(j, [job[j] EXCEPT !.op = "sk_open"])
  /\ UNCHANGED <<skFile, ctFile, madeFor, simVars>>

\* write_privkey_pem_unencrypted
KeygenOpenSk(j) ==
  /\ At(j, "sk_open")
  /\ skFile' = Torn
  /\ Becomes(j, [job[j] EXCEPT !.op = "sk_close"])
  /\ UNCHANGED <<pkFile, ctFile, madeFor, simVars>>

KeygenCloseSk(j) ==
  /\ At(j, "sk_close")
  /\ skFile' \in {job[j].key, Torn}
  /\ Becomes(j, Idle)
  /\ UNCHANGED <<pkFile, ctFile, madeFor, simVars>>

(* dc-tool dcgen: step_dcgen reads the public key and encrypts a new       *)
(* contract for it before it touches the contract file.                    *)
Dcgen(j, c) ==
  /\ At(j, "idle")
  /\ pkFile # Torn
  /\ madeFor[c] = Nobody
  /\ madeFor' = [madeFor EXCEPT ![c] = pkFile]
  /\ Becomes(j, [op |-> "ct_open", c |-> c])
  /\ UNCHANGED <<files, simVars>>

\* write_combined_file: fopen truncates ...
DcgenOpen(j) ==
  /\ At(j, "ct_open")
  /\ ctFile' = <<>>
  /\ Becomes(j, [job[j] EXCEPT !.op = "ct_close"])
  /\ UNCHANGED <<pkFile, skFile, madeFor, simVars>>

\* ... and fclose writes from the start as many windows as it can.
DcgenClose(j) ==
  /\ At(j, "ct_close")
  /\ \E n \in 0 .. FileWindows :
       ctFile' = [w \in 1 .. Max({n, Len(ctFile)}) |-> IF w <= n THEN job[j].c ELSE ctFile[w]]
  /\ Becomes(j, Idle)
  /\ UNCHANGED <<pkFile, skFile, madeFor, simVars>>

\* die_openssl, die_msg, or a signal: the process ends between two steps.
Die(j) ==
  /\ job[j] # Idle
  /\ Becomes(j, Idle)
  /\ UNCHANGED <<files, madeFor, simVars>>

----------------------------------------------------------------------------
(* Reading a contract file, which dcchk and spike do in the same steps.    *)
KemOf(text) == [w \in 0 .. KeyWindows - 1 |-> text[w + 1]]
MsgOf(text) == [w \in 0 .. DcWindows - 1 |-> text[KeyWindows + w + 1]]
HashOf(text) == text[FileWindows]

\* find_kv, hex_to_bytes and the length checks: all three fields, whole.
Parses(text) == Len(text) = FileWindows

MadeFor(kp) == {c \in Contracts : madeFor[c] = kp}

\* SHA-256 of the plaintext: the contract the whole plaintext is, or nobody's.
PlainOf(kp, text) == Open(MadeFor(kp))!FieldOf(KemOf(text), MsgOf(text), AllBlocks)

\* mojov_open_contract_from_components with the file's expected hash
ContractStatus(sk, text) ==
  LET status == Open(MadeFor(sk))!OpenStatus(KemOf(text), KeyWindows, MsgOf(text),
                                             IF sk = Torn THEN "SK_LOAD" ELSE "OK")
  IN  IF Open({})!OpenDecodes(status) /\ PlainOf(sk, text) # HashOf(text)
      THEN "PT_HASH_MISMATCH" ELSE status

\* Mutant: the tool trusts the header alone.
DcchkSucceeds_HeaderOnly(sk, text) ==
  /\ sk # Torn
  /\ Parses(text)
  /\ Open(MadeFor(sk))!FieldOf(KemOf(text), MsgOf(text), SigBlocks) # Junk

\* dc-tool dcchk: step_dcchk reports SUCCESS.  It reads only.
DcchkSucceeds(sk, text) ==
  /\ sk # Torn
  /\ Parses(text)
  /\ PlainOf(sk, text) = HashOf(text)
  /\ Open(MadeFor(sk))!FieldOf(KemOf(text), MsgOf(text), SigBlocks) # Junk

----------------------------------------------------------------------------
(* spike's start-up: main() after option parsing.                          *)
Option(o) == o \in args
Goto(next) == spike' = next /\ UNCHANGED <<files, madeFor, job, args, hart>>

\* Option consistency, and the options' own flags.
SpikeArgs ==
  /\ spike = "args"
  /\ IF (Option("sk") # Option("pk")) \/ (Option("dc") /\ ~(Option("sk") /\ Option("pk")))
     THEN Goto("exit") /\ UNCHANGED cfg
     ELSE /\ Goto("pk")
          /\ cfg' = [cfg EXCEPT !.fast = Option("fast"), !.strong = Option("strong"),
                                !.proofcarrying = Option("proofcarrying")]

SpikePk ==
  /\ spike = "pk"
  /\ IF Option("pk") /\ pkFile = Torn
     THEN Goto("exit") /\ UNCHANGED cfg
     ELSE /\ Goto(IF Option("dc") THEN "text" ELSE "run")
          /\ cfg' = [cfg EXCEPT !.pk = IF Option("pk") THEN pkFile ELSE @]

SpikeText ==
  /\ spike = "text"
  /\ IF Parses(ctFile)
     THEN Goto("open") /\ cfg' = [cfg EXCEPT !.text = ctFile]
     ELSE Goto("exit") /\ UNCHANGED cfg

\* Mutant: the expected hash is not passed on.
SpikeOpen_NoHash ==
  /\ spike = "open"
  /\ IF Open(MadeFor(skFile))!OpenStatus(KemOf(cfg.text), KeyWindows, MsgOf(cfg.text),
                                         IF skFile = Torn THEN "SK_LOAD" ELSE "OK") = "OK"
     THEN /\ Goto("mode")
          /\ \E d \in Open(MadeFor(skFile))!Decodings(KemOf(cfg.text), MsgOf(cfg.text)) :
               cfg' = [cfg EXCEPT !.dc = d]
     ELSE Goto("exit") /\ UNCHANGED cfg

SpikeOpen ==
  /\ spike = "open"
  /\ IF ContractStatus(skFile, cfg.text) = "OK"
     THEN /\ Goto("mode")
          /\ \E d \in Open(MadeFor(skFile))!Decodings(KemOf(cfg.text), MsgOf(cfg.text)) :
               cfg' = [cfg EXCEPT !.dc = d]
     ELSE Goto("exit") /\ UNCHANGED cfg

\* Mutant: the first option wins.
Overridden_FirstWins(f) ==
  IF cfg.fast THEN 0 ELSE IF cfg.strong THEN 1 ELSE IF cfg.proofcarrying THEN 2 ELSE f

\* The format the options force on a contract of format f: the last one
\* spike tests wins.
Overridden(f) ==
  IF cfg.proofcarrying THEN 2 ELSE IF cfg.strong THEN 1 ELSE IF cfg.fast THEN 0 ELSE f

SpikeMode ==
  /\ spike = "mode"
  /\ LET f == Overridden(cfg.dc.format_sel)
     IN  /\ cfg' = [cfg EXCEPT !.dc.format_sel = f, !.dcvalid = TRUE, !.text = <<>>,
                               !.fast = @ \/ f = 0, !.strong = @ \/ f = 1, !.proofcarrying = @ \/ f = 2]
         /\ Goto(IF f \in 0 .. 2 THEN "run" ELSE "exit")

\* A program in the running simulator uploads the contract of a whole file
\* and opens it: the private key is read from its path again.
KmsmOpen(c) ==
  /\ spike = "run"
  /\ Option("sk")
  /\ ctFile = [w \in 1 .. FileWindows |-> c]
  /\ hart' = IF madeFor[c] = skFile THEN c ELSE Blank
  /\ UNCHANGED <<files, madeFor, job, args, spike, cfg>>

----------------------------------------------------------------------------
ToolNext ==
  \/ \E j \in Jobs :
       \/ \E kp \in KeyPairs : Keygen(j, kp)
       \/ KeygenOpenPk(j) \/ KeygenClosePk(j) \/ KeygenOpenSk(j) \/ KeygenCloseSk(j)
       \/ \E c \in Contracts : Dcgen(j, c)
       \/ DcgenOpen(j) \/ DcgenClose(j)
       \/ Die(j)
  \/ SpikeArgs \/ SpikePk \/ SpikeText \/ SpikeOpen \/ SpikeMode
  \/ \E c \in Contracts : KmsmOpen(c)

ToolSpec == ToolInit /\ [][ToolNext]_toolVars

----------------------------------------------------------------------------
\* The contract spike accepts from --mojov-dc is one dcgen call's contract in
\* every field, whatever runs, deaths and partial writes produced the file:
\* the plaintext hash is what excludes a file patched from two runs.
InstalledIsWhole ==
  cfg.dcvalid => \E c \in Contracts :
    /\ madeFor[c] # Nobody
    /\ cfg.dc.sig = c /\ cfg.dc.key = c /\ cfg.dc.csig = c

\* dcchk and spike are two copies of the same checks: on the files as they
\* are, whichever private key is used, dcchk reports SUCCESS exactly when
\* spike would open the contract.
CheckAgreesWithSpike ==
  \A sk \in KeyPairs \cup {Torn} :
    DcchkSucceeds(sk, ctFile) <=> (Parses(ctFile) /\ ContractStatus(sk, ctFile) = "OK")

\* The format mojov_cfg_csr_t's constructor derives from the three flags.
CsrFormat ==
  IF cfg.proofcarrying THEN 2 ELSE IF cfg.strong THEN 1 ELSE 0

\* The two places that keep the memory format, the contract in the
\* configuration and the three option flags, agree once spike is running.
FormatsAgree == (spike = "run" /\ cfg.dcvalid) => CsrFormat = cfg.dc.format_sel

\* The option says "Use Mojo-V strong encryption format (otherwise using data
\* contract specified mode)": with it, secrets are stored in that format.
StrongOptionIsUsed ==
  (hart # Blank /\ Option("strong") /\ ~Option("proofcarrying")) => FormatOf[hart] = 1
=============================================================================
