----------------------------- MODULE ToolProofs -----------------------------
(***************************************************************************)
(* The two parts a developer works the machine with.                       *)
(*                                                                         *)
(* The contract tool, for every number of tool processes, key pairs and    *)
(* contracts, every file length and every layout of a contract.            *)
(*                                                                         *)
(* What a debugger may rely on, for every number of harts, every set of    *)
(* inputs and every interleaving of DMI accesses with the debug ROM.       *)
(***************************************************************************)
EXTENDS DcTool, DebugModule, Integers, TLAPS

----------------------------------------------------------------------------
(* The contract tool *)

\* What spike has in hand between opening the file's contract and installing
\* it, and ever after: one dcgen call's contract in every field but the format.
HeldIsWhole ==
  \E c \in Contracts :
    /\ madeFor[c] # Nobody
    /\ cfg.dc.sig = c /\ cfg.dc.key = c /\ cfg.dc.csig = c

\* The inductive invariant.  InstalledIsWhole needs the contract whole before
\* it is installed, which needs a file of full length when it is opened, which
\* needs the file to hold contracts' windows only.
ToolInv ==
  /\ ToolTypeOK
  /\ spike = "open" => Parses(cfg.text)
  /\ spike = "mode" \/ cfg.dcvalid => HeldIsWhole
  /\ spike \in {"args", "pk"} => ~cfg.dcvalid
  /\ FormatsAgree

----------------------------------------------------------------------------
\* Opening a file.

\* A field that decodes at all names a contract made for the key, and every
\* block it is spread over decrypts as that contract's.
LEMMA FieldMadeFor ==
  ASSUME NEW S, NEW k, NEW m, NEW blocks, Open(S)!FieldOf(k, m, blocks) # Junk
  PROVE  /\ Open(S)!FieldOf(k, m, blocks) \in S
         /\ \A b \in blocks : Open(S)!Decrypts(k, m, Open(S)!FieldOf(k, m, blocks), b)
  <1> DEFINE from == {d \in S : \A b \in blocks : Open(S)!Decrypts(k, m, d, b)}
  <1>1. Open(S)!FieldOf(k, m, blocks) = IF from = {} THEN Junk ELSE CHOOSE d \in from : TRUE
    BY DEF Open!FieldOf
  <1>2. from # {} /\ Open(S)!FieldOf(k, m, blocks) \in from
    <2> HIDE DEF from
    <2> QED BY <1>1
  <1> QED BY <1>2

\* A plaintext decrypted throughout as c's decodes to c in every field.
LEMMA WholeField ==
  ASSUME NEW S, NEW k, NEW m, NEW all, NEW blocks \in SUBSET all, blocks # {}, NEW c \in S,
         \A b \in all : Open(S)!Decrypts(k, m, c, b)
  PROVE  Open(S)!FieldOf(k, m, blocks) = c
  <1> DEFINE from == {d \in S : \A b \in blocks : Open(S)!Decrypts(k, m, d, b)}
  <1>1. Open(S)!FieldOf(k, m, blocks) = IF from = {} THEN Junk ELSE CHOOSE d \in from : TRUE
    BY DEF Open!FieldOf
  <1>2. ASSUME NEW d, NEW b \in blocks, Open(S)!Decrypts(k, m, d, b) PROVE d = c
    <2>1. 0 \in 0 .. KeyWindows - 1
      BY LayoutAssumption
    <2>2. k[0] = d /\ k[0] = c
      BY <1>2, <2>1 DEF Open!Decrypts, Open!Decapsulates
    <2> QED BY <2>2
  <1>3. from = {c}
    BY <1>2
  <1> HIDE DEF from
  <1>4. from # {} /\ (CHOOSE d \in from : TRUE) = c
    BY <1>3
  <1> QED BY <1>1, <1>4

\* Every field has blocks, among the contract's.
LEMMA BlocksType ==
  /\ AllBlocks # {}
  /\ \A bs \in {SigBlocks, KeyBlocks, CsigBlocks, FmtBlocks} : bs \in SUBSET AllBlocks /\ bs # {}
  BY LayoutAssumption

\* Both programs accept a file under the same four conditions.
LEMMA StatusOK ==
  ASSUME NEW sk, NEW t
  PROVE  ContractStatus(sk, t) = "OK" <=>
           /\ sk # Torn
           /\ Open(MadeFor(sk))!FieldOf(KemOf(t), MsgOf(t), SigBlocks) # Junk
           /\ PlainOf(sk, t) = HashOf(t)
  BY DEF ContractStatus, Open!OpenStatus, Open!OpenDecodes, Open!FaultsBeforeSizeQuery, Open!HostFaults

\* A whole file's hash names a contract; a file that opens against it holds
\* that contract, made for the key that opened it, in every field.
LEMMA OpenedIsWhole ==
  ASSUME NEW sk \in KeyPairs \cup {Torn}, NEW t \in Seq(Contracts), Parses(t),
         ContractStatus(sk, t) = "OK",
         NEW d \in Open(MadeFor(sk))!Decodings(KemOf(t), MsgOf(t))
  PROVE  /\ d \in Open({})!DataContracts
         /\ \E c \in Contracts : /\ madeFor[c] # Nobody
                                 /\ d.sig = c /\ d.key = c /\ d.csig = c
  <1> DEFINE c == HashOf(t)
             S == MadeFor(sk)
             k == KemOf(t)
             m == MsgOf(t)
  <1>1. sk \in KeyPairs /\ PlainOf(sk, t) = c
    BY StatusOK
  <1>2. c \in Contracts
    <2>1. FileWindows \in 1 .. Len(t)
      BY LayoutAssumption DEF Parses, FileWindows
    <2> QED BY <2>1 DEF HashOf
  <1>3. c # Junk
    BY <1>2, DcToolAssumption
  <1>4. c \in S /\ \A b \in AllBlocks : Open(S)!Decrypts(k, m, c, b)
    BY <1>1, <1>3, FieldMadeFor DEF PlainOf
  <1>5. /\ Open(S)!FieldOf(k, m, SigBlocks) = c /\ Open(S)!FieldOf(k, m, KeyBlocks) = c
        /\ Open(S)!FieldOf(k, m, CsigBlocks) = c /\ Open(S)!FieldOf(k, m, FmtBlocks) = c
    <2> HIDE DEF c, S, k, m
    <2> QED BY <1>4, BlocksType, WholeField
  <1>6. madeFor[c] # Nobody
    BY <1>1, <1>4, DcToolAssumption DEF MadeFor
  <1>7. d = [sig |-> c, key |-> c, csig |-> c, format_sel |-> FormatOf[c]]
    BY <1>3, <1>5 DEF Open!Decodings
  <1>8. FormatOf[c] \in 0 .. 3
    BY <1>2, DcToolAssumption
  <1> HIDE DEF c
  <1>9. d \in Open({})!DataContracts
    BY <1>2, <1>7, <1>8 DEF Open!DataContracts, Open!Origins, Open!Formats
  <1> QED BY <1>2, <1>6, <1>7, <1>9

----------------------------------------------------------------------------
\* The steps of the tool.

JobSteps == {Idle} \cup [op : {"pk_open", "pk_close", "sk_open", "sk_close"}, key : KeyPairs]
                   \cup [op : {"ct_open", "ct_close"}, c : Contracts]

\* What a process at a keygen or a dcgen statement carries.
LEMMA JobCarries ==
  ASSUME job \in [Jobs -> JobSteps], NEW j \in Jobs
  PROVE  /\ job[j].op \in {"pk_open", "pk_close", "sk_open", "sk_close"} =>
              job[j].key \in KeyPairs /\ \A o \in {"pk_open", "pk_close", "sk_open", "sk_close"} :
                                            [job[j] EXCEPT !.op = o] \in JobSteps
         /\ job[j].op \in {"ct_open", "ct_close"} =>
              job[j].c \in Contracts /\ \A o \in {"ct_open", "ct_close"} :
                                            [job[j] EXCEPT !.op = o] \in JobSteps
  <1>1. job[j] \in JobSteps
    OBVIOUS
  <1>2. CASE job[j] = Idle
    BY <1>2 DEF Idle
  <1>3. CASE job[j] \in [op : {"pk_open", "pk_close", "sk_open", "sk_close"}, key : KeyPairs]
    BY <1>3 DEF JobSteps
  <1>4. CASE job[j] \in [op : {"ct_open", "ct_close"}, c : Contracts]
    BY <1>4 DEF JobSteps
  <1> QED BY <1>1, <1>2, <1>3, <1>4 DEF JobSteps

\* Overwriting the start of a file with n windows of c leaves a file.
LEMMA OverwriteType ==
  ASSUME NEW f \in Seq(Contracts), Len(f) <= FileWindows, NEW n \in 0 .. FileWindows,
         NEW c \in Contracts
  PROVE  LET g == [w \in 1 .. Max({n, Len(f)}) |-> IF w <= n THEN c ELSE f[w]]
         IN  g \in Seq(Contracts) /\ Len(g) <= FileWindows
  <1> DEFINE top == Max({n, Len(f)})
             g == [w \in 1 .. top |-> IF w <= n THEN c ELSE f[w]]
  <1>1. FileWindows \in Nat /\ n \in Nat /\ Len(f) \in Nat
    BY LayoutAssumption DEF FileWindows
  <1>2. top \in {n, Len(f)} /\ top >= n /\ top >= Len(f)
    <2>1. \E x \in {n, Len(f)} : \A y \in {n, Len(f)} : x >= y
      <3>1. CASE n >= Len(f)
        BY <1>1, <3>1
      <3>2. CASE ~(n >= Len(f))
        BY <1>1, <3>2
      <3> QED BY <3>1, <3>2
    <2> QED BY <2>1 DEF Max
  <1> HIDE DEF top
  <1>3. top \in Nat /\ top <= FileWindows
    BY <1>1, <1>2
  <1>4. ASSUME NEW w \in 1 .. top PROVE g[w] \in Contracts
    <2>1. w \in Nat /\ (~(w <= n) => w \in 1 .. Len(f))
      BY <1>1, <1>2, <1>3
    <2> QED BY <2>1
  <1>5. g \in Seq(Contracts) /\ Len(g) = top
    BY <1>3, <1>4
  <1> QED BY <1>3, <1>5 DEF top

Files == /\ {pkFile, skFile} \subseteq KeyPairs \cup {Torn}
         /\ ctFile \in Seq(Contracts) /\ Len(ctFile) <= FileWindows

ToolOK == /\ Files
          /\ madeFor \in [Contracts -> KeyPairs \cup {Nobody}]
          /\ job \in [Jobs -> JobSteps]

ToolStep ==
  \E j \in Jobs :
       \/ \E kp \in KeyPairs : Keygen(j, kp)
       \/ KeygenOpenPk(j) \/ KeygenClosePk(j) \/ KeygenOpenSk(j) \/ KeygenCloseSk(j)
       \/ \E c \in Contracts : Dcgen(j, c)
       \/ DcgenOpen(j) \/ DcgenClose(j)
       \/ Die(j)

\* A step of a tool process leaves well-formed files and processes, touches
\* nothing of spike's, and never unmakes a contract.
LEMMA ToolStepKeeps ==
  ASSUME ToolOK, ToolStep
  PROVE  ToolOK' /\ UNCHANGED simVars /\ \A c \in Contracts : madeFor[c] # Nobody => madeFor'[c] = madeFor[c]
  <1>1. PICK j \in Jobs :
          \/ \E kp \in KeyPairs : Keygen(j, kp)
          \/ KeygenOpenPk(j) \/ KeygenClosePk(j) \/ KeygenOpenSk(j) \/ KeygenCloseSk(j)
          \/ \E c \in Contracts : Dcgen(j, c)
          \/ DcgenOpen(j) \/ DcgenClose(j)
          \/ Die(j)
    BY DEF ToolStep
  <1>2. Idle \in JobSteps
    BY DEF JobSteps
  <1>3. ASSUME NEW s \in JobSteps, Becomes(j, s) PROVE job' \in [Jobs -> JobSteps]
    BY <1>3 DEF Becomes, ToolOK
  <1> USE DEF At, files
  <1>4. CASE \E kp \in KeyPairs : Keygen(j, kp)
    <2>1. PICK kp \in KeyPairs : Keygen(j, kp)
      BY <1>4
    <2>2. [op |-> "pk_open", key |-> kp] \in JobSteps
      BY DEF JobSteps
    <2> QED BY <1>3, <2>1, <2>2 DEF Keygen, ToolOK, Files
  <1>5. CASE KeygenOpenPk(j)
    <2>1. [job[j] EXCEPT !.op = "pk_close"] \in JobSteps
      BY <1>5, JobCarries DEF KeygenOpenPk, ToolOK
    <2> QED BY <1>3, <1>5, <2>1 DEF KeygenOpenPk, ToolOK, Files
  <1>6. CASE KeygenClosePk(j)
    <2>1. [job[j] EXCEPT !.op = "sk_open"] \in JobSteps /\ job[j].key \in KeyPairs
      BY <1>6, JobCarries DEF KeygenClosePk, ToolOK
    <2> QED BY <1>3, <1>6, <2>1 DEF KeygenClosePk, ToolOK, Files
  <1>7. CASE KeygenOpenSk(j)
    <2>1. [job[j] EXCEPT !.op = "sk_close"] \in JobSteps
      BY <1>7, JobCarries DEF KeygenOpenSk, ToolOK
    <2> QED BY <1>3, <1>7, <2>1 DEF KeygenOpenSk, ToolOK, Files
  <1>8. CASE KeygenCloseSk(j)
    <2>1. job[j].key \in KeyPairs
      BY <1>8, JobCarries DEF KeygenCloseSk, ToolOK
    <2> QED BY <1>2, <1>3, <1>8, <2>1 DEF KeygenCloseSk, ToolOK, Files
  <1>9. CASE \E c \in Contracts : Dcgen(j, c)
    <2>1. PICK c \in Contracts : Dcgen(j, c)
      BY <1>9
    <2>2. [op |-> "ct_open", c |-> c] \in JobSteps
      BY DEF JobSteps
    <2>3. /\ madeFor' \in [Contracts -> KeyPairs \cup {Nobody}]
          /\ \A d \in Contracts : madeFor[d] # Nobody => madeFor'[d] = madeFor[d]
      BY <2>1 DEF Dcgen, ToolOK, Files
    <2> QED BY <1>3, <2>1, <2>2, <2>3 DEF Dcgen, ToolOK, Files
  <1>10. CASE DcgenOpen(j)
    <2>1. [job[j] EXCEPT !.op = "ct_close"] \in JobSteps
      BY <1>10, JobCarries DEF DcgenOpen, ToolOK
    <2>2. << >> \in Seq(Contracts) /\ Len(<< >>) <= FileWindows
      BY LayoutAssumption DEF FileWindows
    <2> QED BY <1>3, <1>10, <2>1, <2>2 DEF DcgenOpen, ToolOK, Files
  <1>11. CASE DcgenClose(j)
    <2>1. job[j].c \in Contracts
      BY <1>11, JobCarries DEF DcgenClose, ToolOK
    <2>2. ctFile' \in Seq(Contracts) /\ Len(ctFile') <= FileWindows
      BY <1>11, <2>1, OverwriteType DEF DcgenClose, ToolOK, Files
    <2> QED BY <1>2, <1>3, <1>11, <2>2 DEF DcgenClose, ToolOK, Files
  <1>12. CASE Die(j)
    BY <1>2, <1>3, <1>12 DEF Die, ToolOK, Files
  <1> QED BY <1>1, <1>4, <1>5, <1>6, <1>7, <1>8, <1>9, <1>10, <1>11, <1>12

----------------------------------------------------------------------------
\* The steps of spike.

Cfgs == [pk : KeyPairs \cup {Torn}, text : Seq(Contracts), dc : Open({})!DataContracts,
         dcvalid : BOOLEAN, fast : BOOLEAN, strong : BOOLEAN, proofcarrying : BOOLEAN]

SpikeOK == /\ args \in ArgInputs
           /\ spike \in Steps
           /\ cfg \in Cfgs
           /\ hart \in Contracts \cup {Blank}

\* The tool's half of the state and spike's.
LEMMA TypesSplit == ToolTypeOK <=> ToolOK /\ SpikeOK
  BY DEF ToolTypeOK, ToolOK, Files, JobSteps, SpikeOK, Cfgs

\* What is left to show of a spike step that changes only how far it is and
\* its configuration.
LEMMA SpikeStep ==
  ASSUME ToolInv, NEW next \in Steps, Goto(next), cfg' \in Cfgs,
         next = "open" => Parses(cfg'.text),
         next = "mode" \/ cfg'.dcvalid => HeldIsWhole',
         next \in {"args", "pk"} => ~cfg'.dcvalid,
         FormatsAgree'
  PROVE  ToolInv'
  <1>1. ToolOK'
    BY TypesSplit DEF Goto, ToolInv, ToolOK, Files, files
  <1>2. SpikeOK'
    BY TypesSplit DEF Goto, ToolInv, SpikeOK
  <1>3. ToolTypeOK'
    BY <1>1, <1>2 DEF ToolTypeOK, ToolOK, Files, JobSteps, SpikeOK, Cfgs
  <1> QED BY <1>3 DEF ToolInv, Goto, Parses

\* The options' flags and the public key: no contract is installed yet.
LEMMA ArgsPkKeep ==
  ASSUME ToolInv, SpikeArgs \/ SpikePk
  PROVE  ToolInv'
  <1>1. cfg \in Cfgs /\ ~cfg.dcvalid /\ {pkFile, skFile} \subseteq KeyPairs \cup {Torn}
    BY TypesSplit DEF ToolInv, SpikeOK, ToolOK, Files, SpikeArgs, SpikePk
  <1>2. cfg' \in Cfgs /\ ~cfg'.dcvalid
    <2>1. CASE cfg' = cfg
      BY <1>1, <2>1
    <2>2. CASE cfg' = [cfg EXCEPT !.fast = Option("fast"), !.strong = Option("strong"),
                                  !.proofcarrying = Option("proofcarrying")]
      <3>1. \A o : Option(o) \in BOOLEAN
        BY DEF Option
      <3> QED BY <1>1, <2>2, <3>1 DEF Cfgs
    <2>3. CASE cfg' = [cfg EXCEPT !.pk = IF Option("pk") THEN pkFile ELSE @]
      BY <1>1, <2>3 DEF Cfgs
    <2> QED BY <2>1, <2>2, <2>3 DEF SpikeArgs, SpikePk
  <1>3. \E next \in {"exit", "pk", "text", "run"} : Goto(next)
    BY DEF SpikeArgs, SpikePk
  <1>4. PICK next \in {"exit", "pk", "text", "run"} : Goto(next)
    BY <1>3
  <1>5. FormatsAgree' /\ next \in Steps
    BY <1>2 DEF FormatsAgree, Steps
  <1> QED BY <1>2, <1>4, <1>5, SpikeStep

\* The file is accepted at its full length only.
LEMMA TextKeeps ==
  ASSUME ToolInv, SpikeText
  PROVE  ToolInv'
  <1>1. cfg \in Cfgs /\ ctFile \in Seq(Contracts)
    BY TypesSplit DEF ToolInv, SpikeOK, ToolOK, Files
  <1>2. CASE Parses(ctFile)
    <2>1. Goto("open") /\ cfg' = [cfg EXCEPT !.text = ctFile]
      BY <1>2 DEF SpikeText
    <2>2. /\ cfg' \in Cfgs /\ cfg'.text = ctFile /\ cfg'.dc = cfg.dc
          /\ cfg'.dcvalid = cfg.dcvalid
      BY <1>1, <2>1 DEF Cfgs
    <2>3. cfg'.dcvalid => HeldIsWhole'
      BY <2>1, <2>2 DEF ToolInv, HeldIsWhole, Goto
    <2>4. FormatsAgree'
      BY <2>1 DEF FormatsAgree, Goto
    <2> QED BY <1>2, <2>1, <2>2, <2>3, <2>4, SpikeStep DEF Steps
  <1>3. CASE ~Parses(ctFile)
    <2>1. Goto("exit") /\ cfg' = cfg
      BY <1>3 DEF SpikeText
    <2>2. cfg'.dcvalid => HeldIsWhole'
      BY <2>1 DEF ToolInv, HeldIsWhole, Goto
    <2>3. FormatsAgree'
      BY <2>1 DEF FormatsAgree, Goto
    <2> QED BY <1>1, <2>1, <2>2, <2>3, SpikeStep DEF Steps
  <1> QED BY <1>2, <1>3

\* The contract is taken over only when hash and header agree with the file.
LEMMA OpenKeeps ==
  ASSUME ToolInv, SpikeOpen
  PROVE  ToolInv'
  <1>1. /\ cfg \in Cfgs /\ cfg.text \in Seq(Contracts) /\ skFile \in KeyPairs \cup {Torn}
        /\ Parses(cfg.text)
    BY TypesSplit DEF ToolInv, SpikeOK, ToolOK, Files, SpikeOpen, Cfgs
  <1>2. CASE ContractStatus(skFile, cfg.text) = "OK"
    <2>1. PICK d \in Open(MadeFor(skFile))!Decodings(KemOf(cfg.text), MsgOf(cfg.text)) :
            Goto("mode") /\ cfg' = [cfg EXCEPT !.dc = d]
      BY <1>2 DEF SpikeOpen
    <2>2. /\ d \in Open({})!DataContracts
          /\ \E c \in Contracts : madeFor[c] # Nobody /\ d.sig = c /\ d.key = c /\ d.csig = c
      BY <1>1, <1>2, OpenedIsWhole
    <2>3. cfg' \in Cfgs /\ cfg'.dc = d
      BY <1>1, <2>1, <2>2 DEF Cfgs
    <2>4. HeldIsWhole'
      BY <2>1, <2>2, <2>3 DEF HeldIsWhole, Goto
    <2>5. FormatsAgree'
      BY <2>1 DEF FormatsAgree, Goto
    <2> QED BY <2>1, <2>3, <2>4, <2>5, SpikeStep DEF Steps
  <1>3. CASE ContractStatus(skFile, cfg.text) # "OK"
    <2>1. Goto("exit") /\ cfg' = cfg
      BY <1>3 DEF SpikeOpen
    <2>2. cfg'.dcvalid => HeldIsWhole'
      BY <2>1 DEF ToolInv, HeldIsWhole, Goto
    <2>3. FormatsAgree'
      BY <2>1 DEF FormatsAgree, Goto
    <2> QED BY <1>1, <2>1, <2>2, <2>3, SpikeStep DEF Steps
  <1> QED BY <1>2, <1>3

\* The format that wins is recorded in the contract and in the flags alike.
LEMMA ModeKeeps ==
  ASSUME ToolInv, SpikeMode
  PROVE  ToolInv'
  <1> DEFINE f == Overridden(cfg.dc.format_sel)
  <1>1. cfg \in Cfgs /\ cfg.dc \in Open({})!DataContracts /\ HeldIsWhole
    BY TypesSplit DEF ToolInv, SpikeOK, SpikeMode, Cfgs
  <1>2. f \in 0 .. 3
    BY <1>1 DEF Overridden, Open!DataContracts, Open!Formats
  <1>3. /\ Goto(IF f \in 0 .. 2 THEN "run" ELSE "exit")
        /\ cfg' = [cfg EXCEPT !.dc.format_sel = f, !.dcvalid = TRUE, !.text = <<>>,
                              !.fast = @ \/ f = 0, !.strong = @ \/ f = 1,
                              !.proofcarrying = @ \/ f = 2]
    BY DEF SpikeMode
  <1>4. /\ (f = 2 <=> cfg.proofcarrying \/ f = 2)
        /\ ~(cfg.proofcarrying \/ f = 2) => (f = 1 <=> cfg.strong \/ f = 1)
    BY DEF Overridden
  <1> HIDE DEF f
  <1>5. [cfg.dc EXCEPT !.format_sel = f] \in Open({})!DataContracts
    BY <1>1, <1>2 DEF Open!DataContracts, Open!Formats
  <1>6. << >> \in Seq(Contracts)
    OBVIOUS
  <1>7. cfg' = [cfg EXCEPT !.dc = [cfg.dc EXCEPT !.format_sel = f], !.dcvalid = TRUE, !.text = <<>>,
                           !.fast = cfg.fast \/ f = 0, !.strong = cfg.strong \/ f = 1,
                           !.proofcarrying = cfg.proofcarrying \/ f = 2]
    BY <1>1, <1>3 DEF Cfgs
  <1>8. cfg' \in Cfgs
    BY <1>1, <1>5, <1>6, <1>7 DEF Cfgs
  <1>9. /\ cfg'.dc = [cfg.dc EXCEPT !.format_sel = f]
        /\ cfg'.strong = (cfg.strong \/ f = 1) /\ cfg'.proofcarrying = (cfg.proofcarrying \/ f = 2)
    BY <1>1, <1>7 DEF Cfgs
  <1>10. /\ cfg'.dc.sig = cfg.dc.sig /\ cfg'.dc.key = cfg.dc.key /\ cfg'.dc.csig = cfg.dc.csig
         /\ cfg'.dc.format_sel = f
    BY <1>1, <1>9 DEF Open!DataContracts
  <1>11. HeldIsWhole'
    BY <1>1, <1>3, <1>10 DEF HeldIsWhole, Goto
  <1>12. FormatsAgree'
    <2> SUFFICES ASSUME spike' = "run" PROVE CsrFormat' = f
      BY <1>10 DEF FormatsAgree
    <2>1. f \in 0 .. 2
      BY <1>3 DEF Goto
    <2>2. (cfg'.proofcarrying <=> f = 2) /\ (f # 2 => (cfg'.strong <=> f = 1))
      BY <1>4, <1>9, Zenon
    <2>3. CASE f = 2
      BY <2>2, <2>3 DEF CsrFormat
    <2>4. CASE f = 1
      BY <2>2, <2>4 DEF CsrFormat
    <2>5. CASE f = 0
      BY <2>2, <2>5 DEF CsrFormat
    <2> QED BY <2>1, <2>3, <2>4, <2>5
  <1> QED BY <1>3, <1>8, <1>11, <1>12, SpikeStep DEF Steps

\* A tool step leaves spike what it has, and an opened contract made.
LEMMA ToolKeeps ==
  ASSUME ToolInv, ToolStep
  PROVE  ToolInv'
  <1>1. ToolOK' /\ UNCHANGED simVars
    BY ToolStepKeeps, TypesSplit DEF ToolInv
  <1>2. args' = args /\ spike' = spike /\ cfg' = cfg /\ hart' = hart
    BY <1>1 DEF simVars
  <1>3. ToolTypeOK'
    <2>1. SpikeOK'
      BY <1>2, TypesSplit DEF ToolInv, SpikeOK
    <2> QED BY <1>1, <2>1 DEF ToolTypeOK, ToolOK, Files, JobSteps, SpikeOK, Cfgs
  <1>4. HeldIsWhole => HeldIsWhole'
    BY <1>2, ToolStepKeeps, TypesSplit DEF ToolInv, HeldIsWhole
  <1> QED BY <1>2, <1>3, <1>4 DEF ToolInv, Parses, FormatsAgree, CsrFormat

\* An open by a program touches only the hart.
LEMMA KmsmKeeps ==
  ASSUME ToolInv, NEW c \in Contracts, KmsmOpen(c)
  PROVE  ToolInv'
  <1>1. hart' \in Contracts \cup {Blank}
    BY DEF KmsmOpen
  <1>2. ToolTypeOK'
    BY <1>1 DEF KmsmOpen, ToolInv, ToolTypeOK, files
  <1> QED BY <1>2 DEF KmsmOpen, ToolInv, HeldIsWhole, Parses, FormatsAgree, CsrFormat

\* Every step of the tool, of spike and of the hart keeps the invariant.
LEMMA ToolNextKeeps == ToolInv /\ [ToolNext]_toolVars => ToolInv'
  <1> SUFFICES ASSUME ToolInv, [ToolNext]_toolVars PROVE ToolInv'
    OBVIOUS
  <1>1. CASE UNCHANGED toolVars
    BY <1>1, Zenon DEF toolVars, files, simVars, ToolInv, ToolTypeOK, HeldIsWhole, Parses,
       FormatsAgree, CsrFormat
  <1>2. CASE ToolNext
    BY <1>2, ToolKeeps, ArgsPkKeep, TextKeeps, OpenKeeps, ModeKeeps, KmsmKeeps
       DEF ToolNext, ToolStep
  <1> QED BY <1>1, <1>2

\* It holds before the first run.
LEMMA ToolInitInv == ToolInit => ToolInv
  <1> SUFFICES ASSUME ToolInit PROVE ToolInv
    OBVIOUS
  <1>1. ToolOK
    <2>1. << >> \in Seq(Contracts) /\ Len(<< >>) <= FileWindows
      BY LayoutAssumption DEF FileWindows
    <2> QED BY <2>1 DEF ToolInit, ToolOK, Files, JobSteps
  <1>2. ZeroCfg \in Cfgs /\ ZeroCfg.dcvalid = FALSE
    BY DEF ZeroCfg, Cfgs, Open!ZeroContract, Open!DataContracts, Open!Origins, Open!Formats,
       Open!FORMAT_SEL_FAST
  <1>3. ToolTypeOK
    BY <1>1, <1>2, TypesSplit DEF ToolInit, SpikeOK, Steps
  <1> QED BY <1>2, <1>3 DEF ToolInit, ToolInv, FormatsAgree

\* Whatever runs, deaths and partial writes produced the file, the contract
\* spike installs is one dcgen call's in every field (spike.cc:650-744).
THEOREM InstalledWhole == ToolSpec => []InstalledIsWhole
  <1>1. ToolInv => InstalledIsWhole
    BY DEF ToolInv, HeldIsWhole, InstalledIsWhole
  <1> QED BY ToolInitInv, ToolNextKeeps, <1>1, PTL DEF ToolSpec

\* Once spike runs, the contract and the option flags name the same format,
\* whatever options it was given (spike.cc:749-777, csrs.cc:2234).
THEOREM FormatsSafe == ToolSpec => []FormatsAgree
  <1>1. ToolInv => FormatsAgree
    BY DEF ToolInv
  <1> QED BY ToolInitInv, ToolNextKeeps, <1>1, PTL DEF ToolSpec

\* dcchk and spike accept the same files with the same keys
\* (dc-tool.c:480-593, spike.cc:650-744).
THEOREM CheckersAgree == ToolSpec => []CheckAgreesWithSpike
  <1>1. CheckAgreesWithSpike
    BY StatusOK DEF CheckAgreesWithSpike, DcchkSucceeds
  <1> QED BY <1>1, PTL

----------------------------------------------------------------------------
(* The debug module *)

HartState == [halted : BOOLEAN, resumeack : BOOLEAN, havereset : BOOLEAN, haltgroup : Groups]

\* A hart that was told to execute a command and has not finished it.
Active(h) == "go" \in flags[h] \/ rom[h] \in {"going", "abstract", "exception"}

\* Only the selected hart can be active, while busy is set and the command is
\* not marked as completed; a hart on its way to a command still has its flag.
CommandInv ==
  /\ \A h \in Harts : Active(h) =>
       abstractcs.busy /\ ~abstract_command_completed /\ h = dmcontrol.hartsel
  /\ \A h \in Harts : rom[h] = "going" => "go" \in flags[h]

----------------------------------------------------------------------------
\* The type invariant, by variable, so that a step proves only what it changes.
HartsOK ==
  /\ hart_state \in [Harts -> HartState]
  /\ flags \in [Harts -> SUBSET {"go", "resume"}]
  /\ halt_request \in [Harts -> {"HR_NONE", "HR_REGULAR", "HR_GROUP"}]
  /\ rom \in [Harts -> RomSteps \cup {"running"}]
CommandOK ==
  /\ abstractcs \in [busy : BOOLEAN, cmderr : SUBSET {0, 1, 2}]
  /\ abstract_command_completed \in BOOLEAN
  /\ rti_remaining \in 0 .. AbstractRti
  /\ abstractauto \in SUBSET {"data", "progbuf"}
SelectOK ==
  /\ dmcontrol \in [dmactive : BOOLEAN, hasel : BOOLEAN, hartsel : Harts]
  /\ hart_array_mask \in SUBSET Harts
  /\ available \in SUBSET Harts
  /\ authenticated \in BOOLEAN

LEMMA TypeParts == DebugTypeOK <=> HartsOK /\ CommandOK /\ SelectOK /\ resets \in 0 .. MaxResets
BY DEF DebugTypeOK, HartsOK, HartState, CommandOK, SelectOK

LEMMA TypePartsNext ==
  HartsOK' /\ CommandOK' /\ SelectOK' /\ resets' \in 0 .. MaxResets => DebugTypeOK'
BY DEF DebugTypeOK, HartsOK, HartState, CommandOK, SelectOK

LEMMA HartsKept == HartsOK /\ UNCHANGED hartVars => HartsOK'
BY DEF HartsOK, hartVars

LEMMA CommandKept == CommandOK /\ UNCHANGED commandVars => CommandOK'
BY DEF CommandOK, commandVars

LEMMA SelectKept == SelectOK /\ UNCHANGED selectVars => SelectOK'
BY DEF SelectOK, selectVars

LEMMA InitTypes == DebugInit => DebugTypeOK
<1> SUFFICES ASSUME DebugInit PROVE DebugTypeOK
  OBVIOUS
<1>1. 0 \in Harts
  BY DebugAssumption DEF Harts
<1>2. HartsOK
  BY DebugAssumption DEF DebugInit, HartsOK, HartState
<1>3. CommandOK
  BY DebugAssumption DEF DebugInit, CommandOK, CMDERR_NONE
<1>4. authenticated \in BOOLEAN
  BY DebugAssumption DEF DebugInit
<1>5. SelectOK
  BY <1>1, <1>4 DEF DebugInit, SelectOK, NoControl
<1> QED BY <1>2, <1>3, <1>5, TypeParts, DebugAssumption DEF DebugInit

\* The records a dmcontrol write makes of a hart's state.
LEMMA AcknowledgedType ==
  ASSUME NEW s \in HartState, NEW a \in BOOLEAN, NEW b \in BOOLEAN
  PROVE  [s EXCEPT !.havereset = a, !.resumeack = b] \in HartState
BY DEF HartState

LEMMA ReportedType ==
  ASSUME hart_state \in [Harts -> HartState], NEW h \in Harts, NEW a \in BOOLEAN, NEW b \in BOOLEAN
  PROVE  /\ [hart_state EXCEPT ![h].halted = a] \in [Harts -> HartState]
         /\ [hart_state EXCEPT ![h].halted = a, ![h].resumeack = b] \in [Harts -> HartState]
BY DEF HartState

LEMMA AfterResetType ==
  ASSUME NEW s \in HartState
  PROVE  AfterReset(s) \in HartState /\ ~AfterReset(s).halted
<1>1. 0 \in Groups
  BY DebugAssumption
<1>2. ASSUME NEW a \in BOOLEAN, NEW b \in BOOLEAN, NEW g \in Groups
      PROVE  /\ [s EXCEPT !.havereset = a, !.halted = b, !.haltgroup = g] \in HartState
             /\ [s EXCEPT !.havereset = a, !.halted = b, !.haltgroup = g].halted = b
  BY DEF HartState
<1> QED BY <1>1, <1>2 DEF AfterReset

\* Writes of dmcontrol.
LEMMA DmcontrolTypes ==
  ASSUME DebugTypeOK, NEW v \in ControlInputs, WriteDmcontrol(v)
  PROVE  DebugTypeOK'
<1> USE DebugAssumption
<1>1. HartsOK /\ CommandOK /\ SelectOK /\ resets \in 0 .. MaxResets
  BY TypeParts
<1>2. v \in Controls
  OBVIOUS
<1>3. CommandOK'
  <2>1. CASE ~dmcontrol.dmactive /\ v.dmactive
    <3>1. abstractcs' = [busy |-> FALSE, cmderr |-> {}] /\ abstractauto' = {}
      BY <2>1 DEF WriteDmcontrol, CMDERR_NONE
    <3>2. UNCHANGED <<abstract_command_completed, rti_remaining>>
      BY DEF WriteDmcontrol
    <3> QED BY <1>1, <3>1, <3>2 DEF CommandOK
  <2>2. CASE ~(~dmcontrol.dmactive /\ v.dmactive)
    <3>1. UNCHANGED commandVars
      BY <2>2 DEF WriteDmcontrol, commandVars
    <3> QED BY <1>1, <3>1, CommandKept
  <2> QED BY <2>1, <2>2
<1>4. authenticated' \in BOOLEAN
  BY <1>1 DEF WriteDmcontrol, SelectOK
<1>5. SelectedHart(v) \in Harts /\ 0 \in Harts
  BY <1>2 DEF SelectedHart, Harts, Controls
<1>6. CASE authenticated' /\ v.dmactive
  <2> DEFINE activates == ~dmcontrol.dmactive /\ v.dmactive
             requests == IF activates THEN [h \in Harts |-> "HR_NONE"] ELSE halt_request
  <2>1. SelectHarts(v, requests)
    BY <1>6 DEF WriteDmcontrol
  <2>2. requests \in [Harts -> {"HR_NONE", "HR_REGULAR", "HR_GROUP"}]
    BY <1>1 DEF HartsOK
  <2> HIDE DEF requests
  <2>3. SelectOK'
    BY <1>1, <1>2, <1>4, <1>5, <2>1 DEF SelectHarts, SelectOK, Controls, WriteDmcontrol
  <2>4. halt_request' \in [Harts -> {"HR_NONE", "HR_REGULAR", "HR_GROUP"}]
    BY <2>1, <2>2 DEF SelectHarts
  <2>5. flags' \in [Harts -> SUBSET {"go", "resume"}]
    BY <2>1, <1>1 DEF SelectHarts, HartsOK
  <2>6. rom' \in [Harts -> RomSteps \cup {"running"}]
    BY <2>1, <1>1 DEF SelectHarts, HartsOK
  <2>7. hart_state' \in [Harts -> HartState]
    <3> DEFINE sel == SelectedHart(v)
               Acts(h) == (h = sel \/ (v.hasel /\ h \in hart_array_mask)) /\ h \in available
               Noted(h) == [hart_state[h] EXCEPT
                              !.havereset = @ /\ ~(v.ackhavereset /\
                                 (h = sel \/ (v.hasel /\ h \in hart_array_mask))),
                              !.resumeack = @ /\ ~(v.resumereq /\ Acts(h))]
               Resets(h) == v.ndmreset \/ (v.hartreset /\ Acts(h))
    <3>1. hart_state' = [h \in Harts |-> IF Resets(h) THEN AfterReset(Noted(h)) ELSE Noted(h)]
      BY <2>1 DEF SelectHarts
    <3>2. ASSUME NEW h \in Harts PROVE Noted(h) \in HartState
      <4> DEFINE a == hart_state[h].havereset /\ ~(v.ackhavereset /\
                        (h = sel \/ (v.hasel /\ h \in hart_array_mask)))
                 b == hart_state[h].resumeack /\ ~(v.resumereq /\ Acts(h))
      <4>1. a \in BOOLEAN /\ b \in BOOLEAN /\ hart_state[h] \in HartState
        BY <1>1 DEF HartsOK
      <4>2. Noted(h) = [hart_state[h] EXCEPT !.havereset = a, !.resumeack = b]
        OBVIOUS
      <4> HIDE DEF a, b
      <4> QED BY <4>1, <4>2, AcknowledgedType
    <3> HIDE DEF Noted, Resets
    <3>3. ASSUME NEW h \in Harts PROVE AfterReset(Noted(h)) \in HartState
      BY <3>2, AfterResetType
    <3> QED BY <3>1, <3>2, <3>3
  <2>8. resets' \in 0 .. MaxResets
    <3>1. (v.hartreset \/ v.ndmreset) => resets < MaxResets
      BY DEF WriteDmcontrol
    <3>2. resets' = resets \/ (resets' = resets + 1 /\ (v.hartreset \/ v.ndmreset))
      BY <2>1 DEF SelectHarts
    <3> QED BY <3>1, <3>2, <1>1
  <2> QED BY <1>3, <2>3, <2>4, <2>5, <2>6, <2>7, <2>8, TypePartsNext DEF HartsOK
<1>7. CASE ~(authenticated' /\ v.dmactive)
  <2>1. SelectOK'
    <3> DEFINE base == IF ~dmcontrol.dmactive /\ v.dmactive THEN NoControl ELSE dmcontrol
    <3>1. dmcontrol' = [base EXCEPT !.dmactive = v.dmactive]
      BY <1>7 DEF WriteDmcontrol
    <3>2. base \in [dmactive : BOOLEAN, hasel : BOOLEAN, hartsel : Harts]
      BY <1>1, <1>5 DEF SelectOK, NoControl
    <3>3. v.dmactive \in BOOLEAN
      BY <1>2 DEF Controls
    <3> HIDE DEF base
    <3>4. dmcontrol' \in [dmactive : BOOLEAN, hasel : BOOLEAN, hartsel : Harts]
      BY <3>1, <3>2, <3>3
    <3> QED BY <1>1, <1>4, <3>4 DEF WriteDmcontrol, SelectOK
  <2>2. HartsOK'
    BY <1>1, <1>7 DEF WriteDmcontrol, HartsOK
  <2> QED BY <1>1, <1>3, <1>7, <2>1, <2>2, TypePartsNext DEF WriteDmcontrol
<1> QED BY <1>6, <1>7

\* An abstract command, started or refused.
LEMMA CommandTypes ==
  ASSUME DebugTypeOK, NEW kind, PerformAbstractCommand(kind)
  PROVE  /\ flags' \in [Harts -> SUBSET {"go", "resume"}]
         /\ abstractcs' \in [busy : BOOLEAN, cmderr : SUBSET {0, 1, 2}]
         /\ abstract_command_completed' \in BOOLEAN
         /\ rti_remaining' \in 0 .. AbstractRti
<1> USE DebugAssumption
<1>1. CASE UNCHANGED <<flags, abstractcs, abstract_command_completed, rti_remaining>>
  BY <1>1 DEF DebugTypeOK
<1>2. ASSUME NEW err \in SUBSET {0, 1, 2}, Refused(err)
      PROVE  /\ flags' \in [Harts -> SUBSET {"go", "resume"}]
             /\ abstractcs' \in [busy : BOOLEAN, cmderr : SUBSET {0, 1, 2}]
             /\ abstract_command_completed' \in BOOLEAN
             /\ rti_remaining' \in 0 .. AbstractRti
  BY <1>2 DEF Refused, DebugTypeOK
<1>3. CASE Started(dmcontrol.hartsel)
  <2>1. abstractcs' \in [busy : BOOLEAN, cmderr : SUBSET {0, 1, 2}]
    <3>1. ASSUME NEW b \in BOOLEAN
          PROVE  [abstractcs EXCEPT !.busy = b] \in [busy : BOOLEAN, cmderr : SUBSET {0, 1, 2}]
      BY DEF DebugTypeOK
    <3> QED BY <1>3, <3>1 DEF Started
  <2>2. abstract_command_completed' \in BOOLEAN
    BY <1>3 DEF Started
  <2>3. flags' \in [Harts -> SUBSET {"go", "resume"}] /\ rti_remaining' \in 0 .. AbstractRti
    BY <1>3 DEF Started, DebugTypeOK
  <2> QED BY <2>1, <2>2, <2>3
<1>4. \/ UNCHANGED <<flags, abstractcs, abstract_command_completed, rti_remaining>>
      \/ \E err \in SUBSET {0, 1, 2} : Refused(err)
      \/ Started(dmcontrol.hartsel)
  BY DEF PerformAbstractCommand, CMDERR_NONE, CMDERR_BUSY, CMDERR_HALTRESUME, CMDERR_NOTSUP
<1> QED BY <1>1, <1>2, <1>3, <1>4

\* The other accesses of the debugger.
LEMMA DmiTypes ==
  ASSUME DebugTypeOK, DmiStep
  PROVE  DebugTypeOK'
<1> USE DebugAssumption
<1>1. ASSUME NEW v \in ControlInputs, WriteDmcontrol(v) PROVE DebugTypeOK'
  BY <1>1, DmcontrolTypes
<1>2. ASSUME NEW mask \in MaskInputs, WriteHawindow(mask) PROVE DebugTypeOK'
  BY <1>2 DEF WriteHawindow, DebugTypeOK, hartVars, commandVars
<1>3. ASSUME NEW harts \in AvailInputs, WriteCustom(harts) PROVE DebugTypeOK'
  BY <1>3 DEF WriteCustom, DebugTypeOK, hartVars, commandVars
<1>4. ASSUME NEW group \in Groups, WriteDmcs2(group) PROVE DebugTypeOK'
  BY <1>4 DEF WriteDmcs2, DebugTypeOK, commandVars, selectVars
<1>5. ASSUME NEW right \in BOOLEAN, WriteAuthdata(right) PROVE DebugTypeOK'
  BY <1>5 DEF WriteAuthdata, DebugTypeOK, hartVars, commandVars
<1>6. ASSUME WriteAbstractcs({0, 1, 2}) PROVE DebugTypeOK'
  BY <1>6 DEF WriteAbstractcs, DebugTypeOK, hartVars, selectVars
<1>7. ASSUME NEW auto \in AutoInputs, WriteAbstractauto(auto) PROVE DebugTypeOK'
  BY <1>7 DEF WriteAbstractauto, DebugTypeOK, hartVars, selectVars
<1>8. ASSUME NEW kind \in Kinds, WriteCommand(kind) \/ AccessProgbuf(kind) PROVE DebugTypeOK'
  <2>1. PerformAbstractCommand(kind)
    BY <1>8 DEF WriteCommand, AccessProgbuf
  <2>2. UNCHANGED <<hart_state, halt_request, rom, abstractauto, selectVars, resets>>
    BY <1>8 DEF WriteCommand, AccessProgbuf
  <2> QED BY <2>1, <2>2, CommandTypes DEF DebugTypeOK, selectVars
<1>9. ASSUME NEW kind \in Kinds, AccessData(kind) PROVE DebugTypeOK'
  <2>1. UNCHANGED <<hart_state, halt_request, rom, abstractauto, selectVars, resets>>
    BY <1>9 DEF AccessData
  <2>2. CASE abstractcs.busy
    BY <1>9, <2>1, <2>2 DEF AccessData, DebugTypeOK, selectVars, CMDERR_BUSY, CMDERR_NONE
  <2>3. CASE ~abstractcs.busy
    <3>1. PerformAbstractCommand(kind)
      BY <1>9, <2>3 DEF AccessData
    <3> QED BY <2>1, <3>1, CommandTypes DEF DebugTypeOK, selectVars
  <2> QED BY <2>2, <2>3
<1> QED BY <1>1, <1>2, <1>3, <1>4, <1>5, <1>6, <1>7, <1>8, <1>9 DEF DmiStep

\* The cycles of Run-Test/Idle and the steps of a hart.
LEMMA HartTypes ==
  ASSUME DebugTypeOK, RunTestIdle \/ \E h \in Harts : Breakpoint(h) \/ RomStep(h)
  PROVE  DebugTypeOK'
<1> USE DebugAssumption
<1>1. CASE RunTestIdle
  <2>1. abstractcs' \in [busy : BOOLEAN, cmderr : SUBSET {0, 1, 2}]
    <3>1. ASSUME NEW b \in BOOLEAN
          PROVE  [abstractcs EXCEPT !.busy = b] \in [busy : BOOLEAN, cmderr : SUBSET {0, 1, 2}]
      BY DEF DebugTypeOK
    <3>2. \E b \in BOOLEAN : abstractcs' = [abstractcs EXCEPT !.busy = b]
      <4>1. abstractcs' = [abstractcs EXCEPT !.busy = abstractcs.busy /\
                             ~(rti_remaining' = 0 /\ abstract_command_completed)]
        BY <1>1 DEF RunTestIdle
      <4> QED BY <4>1
    <3> QED BY <3>1, <3>2
  <2>2. rti_remaining' \in 0 .. AbstractRti
    BY <1>1 DEF RunTestIdle, DebugTypeOK
  <2> QED BY <1>1, <2>1, <2>2 DEF RunTestIdle, DebugTypeOK, hartVars, selectVars
<1>2. ASSUME NEW h \in Harts, Breakpoint(h) \/ RomStep(h) PROVE DebugTypeOK'
  <2>1. ASSUME Quiet, \E to \in RomSteps \cup {"running"} : rom' = [rom EXCEPT ![h] = to]
        PROVE  DebugTypeOK'
    BY <2>1 DEF Quiet, DebugTypeOK, commandVars, selectVars
  <2>2. CASE Breakpoint(h) \/ TakeHaltRequest(h) \/ PollGo(h) \/ PollResume(h) \/ Execute(h) \/ Dret(h)
    BY <2>1, <2>2 DEF Breakpoint, TakeHaltRequest, PollGo, PollResume, Execute, Dret, Moves, RomSteps
  <2>3. CASE StoreHalted(h)
    <3>1. hart_state' \in [Harts -> HartState]
      BY <2>3, ReportedType DEF StoreHalted, DebugTypeOK, HartState
    <3>2. halt_request' \in [Harts -> {"HR_NONE", "HR_REGULAR", "HR_GROUP"}]
      BY <2>3 DEF StoreHalted, DebugTypeOK
    <3>3. abstract_command_completed' \in BOOLEAN
      BY <2>3 DEF StoreHalted
    <3>4. rom' \in [Harts -> RomSteps \cup {"running"}]
      BY <2>3 DEF StoreHalted, Moves, DebugTypeOK, RomSteps
    <3> QED BY <2>3, <3>1, <3>2, <3>3, <3>4 DEF StoreHalted, DebugTypeOK, HartState, selectVars
  <2>4. CASE StoreGoing(h)
    BY <2>4 DEF StoreGoing, Moves, DebugTypeOK, RomSteps, commandVars, selectVars
  <2>5. CASE StoreException(h)
    BY <2>5 DEF StoreException, Moves, DebugTypeOK, RomSteps, selectVars, CMDERR_EXCEPTION
  <2>6. CASE StoreResuming(h)
    <3>1. hart_state' \in [Harts -> HartState]
      BY <2>6, ReportedType DEF StoreResuming, DebugTypeOK, HartState
    <3> QED BY <2>6, <3>1 DEF StoreResuming, Moves, DebugTypeOK, HartState, RomSteps, commandVars,
           selectVars
  <2> QED BY <1>2, <2>2, <2>3, <2>4, <2>5, <2>6 DEF RomStep
<1> QED BY <1>1, <1>2

LEMMA DebugTypesStep == DebugTypeOK /\ [DebugNext]_debugVars => DebugTypeOK'
<1>1. CASE UNCHANGED debugVars
  BY <1>1 DEF debugVars, hartVars, commandVars, selectVars, DebugTypeOK
<1> QED BY <1>1, DmiTypes, HartTypes DEF DebugNext

----------------------------------------------------------------------------
\* A hart shown as halted is parked: the ROM's reports and the resets move both.
LEMMA ParkedStep ==
  ASSUME DebugTypeOK, HaltedMeansParked, [DebugNext]_debugVars
  PROVE  HaltedMeansParked'
<1> USE DEF HaltedMeansParked
<1>1. ASSUME UNCHANGED rom, \A h \in Harts : hart_state'[h].halted => hart_state[h].halted
      PROVE  HaltedMeansParked'
  BY <1>1
<1>2. ASSUME NEW v \in ControlInputs, WriteDmcontrol(v) PROVE HaltedMeansParked'
  <2>1. ASSUME NEW requests, SelectHarts(v, requests) PROVE HaltedMeansParked'
    <3> SUFFICES ASSUME NEW h \in Harts, hart_state'[h].halted
                 PROVE  rom'[h] \in RomSteps \ {"dret"}
      OBVIOUS
    <3> DEFINE sel == SelectedHart(v)
               Selected == h = sel \/ (v.hasel /\ h \in hart_array_mask)
               Acts == Selected /\ h \in available
               Noted == [hart_state[h] EXCEPT
                           !.havereset = @ /\ ~(v.ackhavereset /\ Selected),
                           !.resumeack = @ /\ ~(v.resumereq /\ Acts)]
               Resets == v.ndmreset \/ (v.hartreset /\ Acts)
    <3>1. /\ hart_state'[h] = IF Resets THEN AfterReset(Noted) ELSE Noted
          /\ rom'[h] = IF Resets THEN "running" ELSE rom[h]
      BY <2>1 DEF SelectHarts
    <3>2. Noted.halted = hart_state[h].halted
      BY DEF DebugTypeOK
    <3>3. ~AfterReset(Noted).halted
      <4>1. hart_state[h] \in HartState
        BY DEF DebugTypeOK, HartState
      <4> DEFINE a == hart_state[h].havereset /\ ~(v.ackhavereset /\ Selected)
                 b == hart_state[h].resumeack /\ ~(v.resumereq /\ Acts)
      <4>2. a \in BOOLEAN /\ b \in BOOLEAN
        OBVIOUS
      <4>3. Noted = [hart_state[h] EXCEPT !.havereset = a, !.resumeack = b]
        OBVIOUS
      <4> HIDE DEF a, b, Noted
      <4>4. Noted \in HartState
        BY <4>1, <4>2, <4>3, AcknowledgedType
      <4> QED BY <4>4, AfterResetType
    <3> HIDE DEF Noted, Resets
    <3> QED BY <3>1, <3>2, <3>3
  <2> QED BY <1>1, <1>2, <2>1 DEF WriteDmcontrol
<1>3. ASSUME NEW group \in Groups, WriteDmcs2(group) PROVE HaltedMeansParked'
  BY <1>1, <1>3 DEF WriteDmcs2, DebugTypeOK
<1>4. CASE DmiStep
  <2>1. CASE UNCHANGED <<rom, hart_state>>
    BY <1>1, <2>1
  <2> QED BY <1>4, <1>2, <1>3, <2>1 DEF DmiStep, WriteHawindow, WriteCustom, WriteAuthdata, WriteAbstractcs,
         WriteAbstractauto, WriteCommand, AccessData, AccessProgbuf, hartVars
<1>5. CASE RunTestIdle \/ UNCHANGED debugVars
  BY <1>1, <1>5 DEF RunTestIdle, debugVars, hartVars
<1>6. ASSUME NEW h \in Harts, Breakpoint(h) \/ RomStep(h) PROVE HaltedMeansParked'
  <2>1. CASE Breakpoint(h) \/ TakeHaltRequest(h) \/ PollGo(h) \/ PollResume(h) \/ Execute(h) \/ Dret(h)
    <3>1. UNCHANGED hart_state
      BY <2>1 DEF Breakpoint, TakeHaltRequest, PollGo, PollResume, Execute, Dret, Quiet
    <3>2. \/ rom'[h] \in RomSteps \ {"dret"}
          \/ rom[h] \notin RomSteps \ {"dret"}
      BY <2>1 DEF Breakpoint, TakeHaltRequest, PollGo, PollResume, Execute, Dret, Moves, RomSteps,
         DebugTypeOK
    <3>3. \A o \in Harts \ {h} : rom'[o] = rom[o]
      BY <2>1 DEF Breakpoint, TakeHaltRequest, PollGo, PollResume, Execute, Dret, Moves, DebugTypeOK
    <3> QED BY <3>1, <3>2, <3>3
  <2>2. CASE StoreHalted(h) \/ StoreGoing(h) \/ StoreException(h)
    <3>1. /\ rom'[h] \in RomSteps \ {"dret"}
          /\ \A o \in Harts \ {h} : rom'[o] = rom[o] /\ hart_state'[o] = hart_state[o]
      BY <2>2 DEF StoreHalted, StoreGoing, StoreException, Moves, RomSteps, DebugTypeOK
    <3> QED BY <3>1
  <2>3. CASE StoreResuming(h)
    <3>1. /\ ~hart_state'[h].halted
          /\ \A o \in Harts \ {h} : rom'[o] = rom[o] /\ hart_state'[o] = hart_state[o]
      BY <2>3 DEF StoreResuming, Moves, DebugTypeOK
    <3> QED BY <3>1
  <2> QED BY <1>6, <2>1, <2>2, <2>3 DEF RomStep
<1> QED BY <1>4, <1>5, <1>6 DEF DebugNext

\* What is known of harts makes the status bits true.
LEMMA StatusFollows == HaltedMeansParked => StatusIsTrue
BY DEF HaltedMeansParked, StatusIsTrue, Dmstatus

\* For every debugger, polite or not: a hart shown as halted is parked in the
\* debug ROM (debug_module.cc:202-240), and allhalted is true of every selected hart.
THEOREM DebugSafety == DebugSpec => [](DebugTypeOK /\ HaltedMeansParked /\ StatusIsTrue)
<1>1. DebugInit => HaltedMeansParked
  BY DEF DebugInit, HaltedMeansParked
<1> QED BY <1>1, InitTypes, DebugTypesStep, ParkedStep, StatusFollows, PTL DEF DebugSpec

----------------------------------------------------------------------------
\* With a debugger that leaves a running command alone, a command is active on
\* the selected hart only, until that hart's own report.
LEMMA CommandStep ==
  ASSUME Polite, DebugTypeOK, CommandInv, [DebugNext]_debugVars
  PROVE  CommandInv'
<1> USE DEF CommandInv, Active
<1>1. ASSUME UNCHANGED <<flags, rom, abstract_command_completed, dmcontrol>>,
             abstractcs'.busy = abstractcs.busy
      PROVE  CommandInv'
  BY <1>1
<1>2. ASSUME ~abstractcs.busy, \A h \in Harts : "go" \in flags'[h] => "go" \in flags[h],
             \A h \in Harts : rom'[h] \in {rom[h], "running"}
      PROVE  CommandInv'
  BY <1>2
<1>3. ASSUME NEW v \in ControlInputs, WriteDmcontrol(v) PROVE CommandInv'
  <2>1. ~abstractcs.busy
    BY <1>3 DEF WriteDmcontrol, MayReconfigure
  <2>2. ASSUME NEW requests, SelectHarts(v, requests) PROVE CommandInv'
    <3>1. \A h \in Harts : "go" \in flags'[h] => "go" \in flags[h]
      BY <2>2 DEF SelectHarts
    <3>2. \A h \in Harts : rom'[h] \in {rom[h], "running"}
      BY <2>2 DEF SelectHarts
    <3> QED BY <2>1, <3>1, <3>2, <1>2
  <2> QED BY <1>2, <1>3, <2>1, <2>2 DEF WriteDmcontrol
<1>4. ASSUME NEW kind, PerformAbstractCommand(kind), UNCHANGED <<rom, dmcontrol>>
      PROVE  CommandInv'
  <2>1. CASE ~abstractcs.busy /\ Started(dmcontrol.hartsel)
    <3>1. ~abstractcs.busy
      BY <2>1
    <3>2. /\ abstractcs'.busy /\ ~abstract_command_completed'
          /\ \A h \in Harts \ {dmcontrol.hartsel} : flags'[h] = flags[h]
      BY <2>1 DEF Started, DebugTypeOK
    <3> QED BY <1>4, <3>1, <3>2
  <2>2. ASSUME NEW err, Refused(err) PROVE CommandInv'
    <3>1. abstractcs'.busy = abstractcs.busy
      BY <2>2 DEF Refused, DebugTypeOK
    <3> QED BY <1>1, <1>4, <2>2, <3>1 DEF Refused
  <2>3. CASE UNCHANGED <<flags, abstractcs, abstract_command_completed, rti_remaining>>
    BY <1>1, <1>4, <2>3
  <2> QED BY <1>4, <2>1, <2>2, <2>3 DEF PerformAbstractCommand
<1>5. ASSUME NEW kind \in Kinds, AccessData(kind) PROVE CommandInv'
  <2>1. CASE abstractcs.busy
    <3>1. abstractcs'.busy = abstractcs.busy
      BY <1>5, <2>1 DEF AccessData, DebugTypeOK
    <3> QED BY <1>1, <1>5, <2>1, <3>1 DEF AccessData, selectVars
  <2>2. CASE ~abstractcs.busy
    BY <1>4, <1>5, <2>2 DEF AccessData, selectVars
  <2> QED BY <2>1, <2>2
<1>6. CASE DmiStep
  <2>1. ASSUME NEW kind \in Kinds, WriteCommand(kind) \/ AccessProgbuf(kind) PROVE CommandInv'
    BY <1>4, <2>1 DEF WriteCommand, AccessProgbuf, selectVars
  <2>2. ASSUME WriteAbstractcs({0, 1, 2}) PROVE CommandInv'
    <3>1. abstractcs'.busy = abstractcs.busy
      BY <2>2 DEF WriteAbstractcs, DebugTypeOK
    <3> QED BY <1>1, <2>2, <3>1 DEF WriteAbstractcs, hartVars, selectVars
  <2>3. CASE UNCHANGED <<flags, rom, abstract_command_completed, dmcontrol, abstractcs>>
    BY <1>1, <2>3
  <2> QED BY <1>6, <1>3, <1>5, <2>1, <2>2, <2>3 DEF DmiStep, WriteHawindow, WriteCustom, WriteDmcs2,
         WriteAuthdata, WriteAbstractauto, hartVars, commandVars, selectVars
<1>7. CASE RunTestIdle
  <2>1. abstractcs'.busy \/ ~abstractcs.busy \/ abstract_command_completed
    BY <1>7 DEF RunTestIdle, DebugTypeOK
  <2> QED BY <1>7, <2>1 DEF RunTestIdle, hartVars, selectVars
<1>8. CASE UNCHANGED debugVars
  BY <1>1, <1>8 DEF debugVars, hartVars, commandVars, selectVars
<1>9. ASSUME NEW h \in Harts, Breakpoint(h) \/ RomStep(h) PROVE CommandInv'
  <2>1. \A o \in Harts \ {h} : rom'[o] = rom[o] /\ flags'[o] = flags[o]
    BY <1>9 DEF Breakpoint, RomStep, TakeHaltRequest, StoreHalted, PollGo, PollResume, StoreGoing,
       Execute, StoreException, StoreResuming, Dret, Moves, Quiet, DebugTypeOK
  <2>2. UNCHANGED dmcontrol
    BY <1>9 DEF Breakpoint, RomStep, TakeHaltRequest, StoreHalted, PollGo, PollResume, StoreGoing,
       Execute, StoreException, StoreResuming, Dret, Quiet, selectVars
  <2>3. CASE Breakpoint(h) \/ TakeHaltRequest(h) \/ PollGo(h) \/ PollResume(h) \/ Dret(h)
    <3>1. rom'[h] = "going" => "go" \in flags[h]
      BY <2>3 DEF Breakpoint, TakeHaltRequest, PollGo, PollResume, Dret, Moves, DebugTypeOK
    <3>2. rom'[h] \notin {"abstract", "exception"}
      BY <2>3 DEF Breakpoint, TakeHaltRequest, PollGo, PollResume, Dret, Moves, DebugTypeOK
    <3>3. UNCHANGED <<flags, abstractcs, abstract_command_completed>>
      BY <2>3 DEF Breakpoint, TakeHaltRequest, PollGo, PollResume, Dret, Quiet, commandVars
    <3> QED BY <2>1, <2>2, <3>1, <3>2, <3>3
  <2>4. CASE Execute(h)
    <3>1. rom[h] = "abstract" /\ rom'[h] \in {"entry", "exception"}
      BY <2>4 DEF Execute, Moves, DebugTypeOK
    <3>2. UNCHANGED <<flags, abstractcs, abstract_command_completed>>
      BY <2>4 DEF Execute, Quiet, commandVars
    <3> QED BY <2>1, <2>2, <3>1, <3>2
  <2>5. CASE StoreHalted(h)
    <3>1. rom[h] = "entry" /\ rom'[h] = "check_go" /\ UNCHANGED <<flags, abstractcs>>
      BY <2>5 DEF StoreHalted, Moves, DebugTypeOK
    <3>2. \/ ~abstract_command_completed' \/ abstract_command_completed
          \/ dmcontrol.hartsel = h /\ "go" \notin flags[h]
      BY <2>5 DEF StoreHalted, ReportCompletes
    <3> QED BY <2>1, <2>2, <3>1, <3>2
  <2>6. CASE StoreGoing(h)
    <3>1. rom[h] = "going" /\ rom'[h] = "abstract"
      BY <2>6 DEF StoreGoing, Moves, DebugTypeOK
    <3>2. UNCHANGED <<abstractcs, abstract_command_completed>>
      BY <2>6 DEF StoreGoing, commandVars
    <3> QED BY <2>1, <2>2, <3>1, <3>2
  <2>7. CASE StoreException(h)
    <3>1. rom[h] = "exception" /\ rom'[h] = "entry" /\ UNCHANGED <<flags, abstract_command_completed>>
      BY <2>7 DEF StoreException, Moves, DebugTypeOK
    <3>2. abstractcs'.busy = abstractcs.busy
      BY <2>7 DEF StoreException, DebugTypeOK
    <3> QED BY <2>1, <2>2, <3>1, <3>2
  <2>8. CASE StoreResuming(h)
    <3>1. rom[h] = "resuming" /\ rom'[h] = "dret" /\ ("go" \in flags'[h] => "go" \in flags[h])
      BY <2>8 DEF StoreResuming, Moves, DebugTypeOK
    <3>2. UNCHANGED <<abstractcs, abstract_command_completed>>
      BY <2>8 DEF StoreResuming, commandVars
    <3> QED BY <2>1, <2>2, <3>1, <3>2
  <2> QED BY <1>9, <2>3, <2>4, <2>5, <2>6, <2>7, <2>8 DEF RomStep
<1> QED BY <1>6, <1>7, <1>8, <1>9 DEF DebugNext

\* A debugger that waits for its commands may trust busy (debug_module.cc:202-240,
\* run_test_idle): when it reads 0 no hart executes, or will execute, a command.
THEOREM CommandSafety ==
  ASSUME Polite
  PROVE  DebugSpec => []IdleMeansDone
<1>1. DebugInit => CommandInv
  BY DEF DebugInit, CommandInv, Active
<1>2. CommandInv => IdleMeansDone
  BY DEF CommandInv, Active, IdleMeansDone
<1>3. DebugTypeOK /\ CommandInv /\ [DebugNext]_debugVars => CommandInv'
  BY CommandStep
<1> QED BY <1>1, <1>2, <1>3, InitTypes, DebugTypesStep, PTL DEF DebugSpec

\* allhalted and its companions are true of the harts, whatever the debugger does
\* (the DM_DMSTATUS read of debug_module.cc).
THEOREM StatusSafety == DebugSpec => []StatusIsTrue
BY DebugSafety, PTL
=============================================================================
