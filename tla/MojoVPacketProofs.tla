------------------------- MODULE MojoVPacketProofs --------------------------
(***************************************************************************)
(* Proofs about MojoVPacket for every set of contracts, registers and      *)
(* memory locations.                                                       *)
(***************************************************************************)
EXTENDS MojoVPacket, TLAPS

\* What loads and stores rely on about the mode.  The cipher core's key is a
\* contract's in secret mode, and is the contract's of mojov_dc while that
\* one is valid.
KeyInv ==
  /\ mojov_en \in BOOLEAN /\ secreg_mode \in BOOLEAN /\ mojov_dcvalid \in BOOLEAN
  /\ mojov_dc \in Loadable \cup {ZeroDc}
  /\ mojov_dcvalid => mojov_dc \in Loadable /\ simon_state = mojov_dc.key
  /\ mojov_en => mojov_dcvalid
  /\ secreg_mode => simon_state \in Keys

\* A packet made under an enabled contract has all its fields from one contract.
MadeUnder(packet, dc) ==
  packet.key = dc.key /\ packet.auth_sig = dc.csig /\ packet.format = dc.format_sel

PacketsGenuine ==
  \A n \in DOMAIN packets :
    packets[n].enabled => \E dc \in Loadable : MadeUnder(packets[n], dc)

PacketInv == PacketTypeOK /\ KeyInv /\ LabelsDescribeValues /\ PacketsGenuine

----------------------------------------------------------------------------
\* Appending a packet to the history.
LEMMA AppendFacts ==
  ASSUME packets \in Seq(Packets), NEW p \in Packets, packets' = Append(packets, p)
  PROVE  /\ packets' \in Seq(Packets)
         /\ Len(packets') = Len(packets) + 1
         /\ DOMAIN packets' = DOMAIN packets \cup {Len(packets) + 1}
         /\ \A n \in DOMAIN packets : packets'[n] = packets[n]
         /\ packets'[Len(packets) + 1] = p
OBVIOUS

\* What zeroed registers and edited blocks hold are values of no owner.
LEMMA ZeroValueType ==
  /\ ZeroValue \in Values /\ ZeroValue.owners = {}
  /\ JunkValue \in Values /\ JunkValue.owners = {} /\ JunkValue.id = Junk
BY DEF ZeroValue, JunkValue, Values

\* The first state: no packets, no contract, zeroed registers.
LEMMA PacketInvInit == PacketInit => PacketInv
<1> SUFFICES ASSUME PacketInit PROVE PacketInv
  OBVIOUS
<1>1. packets \in Seq(Packets) /\ Len(packets) = 0 /\ DOMAIN packets = {}
  BY DEF PacketInit
<1>2. xpr \in [Sec -> Values] /\ dfhash_xpr \in [Sec -> Labels]
  BY ZeroValueType DEF PacketInit, Labels
<1>3. mem \in [Locs -> Blocks \cup {Plaintext}] /\ \A a \in Locs : mem[a] = Plaintext
  BY DEF PacketInit
<1>0. was_reset \in BOOLEAN
  BY DEF PacketInit
<1>4. PacketTypeOK
  BY <1>0, <1>1, <1>2, <1>3, PacketAssumption DEF PacketTypeOK
<1>5. LabelsDescribeValues /\ PacketsGenuine
  BY <1>1 DEF PacketInit, LabelsDescribeValues, PacketsGenuine
<1>6. KeyInv
  BY DEF PacketInit, SMInit, KeyInv
<1> QED
  BY <1>4, <1>5, <1>6 DEF PacketInv

\* No instruction changes what is known of the mode.
LEMMA KeyKept == KeyInv /\ UNCHANGED smVars => KeyInv'
BY DEF KeyInv, smVars

\* A write to mojov_cfg, an open or a reset keeps it too.
LEMMA KeyStep == KeyInv /\ SMNext => KeyInv'
<1> SUFFICES ASSUME KeyInv, SMNext PROVE KeyInv'
  OBVIOUS
<1>1. ASSUME NEW req \in BOOLEAN, SetMode(req) PROVE KeyInv'
  <2>1. mojov_en' = (req /\ mojov_dcvalid) /\ secreg_mode' = (req /\ mojov_dcvalid)
    BY <1>1 DEF SetMode
  <2> QED BY <1>1, <2>1 DEF SetMode, KeyInv, Keys
<1>2. CASE OpenOk
  <2>1. mojov_dc' \in Loadable /\ simon_state' = (mojov_dc').key
    BY <1>2 DEF OpenOk
  <2>2. simon_state' \in Keys
    BY <2>1 DEF Keys
  <2> QED BY <1>2, <2>1, <2>2 DEF OpenOk, KeyInv
<1>3. CASE OpenBad
  BY <1>3 DEF OpenBad, KeyInv
<1>4. CASE ResetMode
  BY <1>4 DEF ResetMode, KeyInv
<1> QED
  BY <1>1, <1>2, <1>3, <1>4 DEF SMNext

----------------------------------------------------------------------------
\* A load that is let through finds both its blocks to be of the same packet.
LEMMA OnePacket ==
  ASSUME NEW a \in Locs, Fits(a, Format), Authentic(a), PacketTypeOK
  PROVE  mem[a].n \in DOMAIN packets /\ SignedBy(a) = mem[a].n
<1>1. CASE Format = FORMAT_SEL_FAST
  BY <1>1 DEF Authentic, Clear, Holds, SignedBy, PacketTypeOK
<1>2. CASE Format # FORMAT_SEL_FAST
  BY <1>2 DEF Authentic, Chained, Clear, Holds, SignedBy, PacketTypeOK
<1> QED BY <1>1, <1>2

\* An lde that is let through writes a register with a packet's own value and
\* hash, or with a value nobody encrypted.
LEMMA LoadKeeps ==
  ASSUME PacketInv, NEW rd \in Sec, NEW a \in Locs, LDE(rd, a)
  PROVE  PacketInv'
<1> USE DEF PacketInv
<1>1. mem[a].n \in DOMAIN packets /\ SignedBy(a) = mem[a].n
  BY OnePacket DEF LDE
<1> DEFINE p == packets[mem[a].n]
           v == LoadedValue(a)
<1>2. p \in Packets /\ (p.val.id = Junk \/ p.metadata \in {p.val.id, NoLabel, OpLabel})
  BY <1>1 DEF PacketTypeOK, LabelsDescribeValues
<1>3. p.val \in Values /\ p.metadata \in Labels
  BY <1>2 DEF Packets
<1>4. PICK label \in Labels :
        /\ dfhash_xpr' = [dfhash_xpr EXCEPT ![rd] = label]
        /\ label = OpLabel \/ label \in LoadedLabels(a)
  BY <1>1, <1>3 DEF LDE, LoadedLabels, Labels
<1>5. v \in Values /\ xpr' = [xpr EXCEPT ![rd] = v]
  BY <1>3, ZeroValueType DEF LDE, LoadedValue
<1>6. v.id = Junk \/ label \in {v.id, NoLabel, OpLabel}
  BY <1>1, <1>2, <1>4, ZeroValueType DEF LoadedValue, LoadedLabels
<1> HIDE DEF v
<1>7. PacketTypeOK'
  BY <1>4, <1>5 DEF LDE, PacketTypeOK
<1>8. LabelsDescribeValues'
  BY <1>4, <1>5, <1>6 DEF LDE, PacketTypeOK, LabelsDescribeValues
<1>9. KeyInv' /\ PacketsGenuine'
  BY KeyKept DEF LDE, PacketsGenuine
<1> QED BY <1>7, <1>8, <1>9

\* Adding a packet, and some of its blocks, keeps the invariant.
LEMMA EncryptKeeps ==
  ASSUME PacketInv, NEW p \in Packets, NEW a \in Locs, NEW format, NEW written,
         p.val.id = Junk \/ p.metadata \in {p.val.id, NoLabel, OpLabel},
         p.enabled => \E dc \in Loadable : MadeUnder(p, dc),
         Len(packets) < MaxPackets,
         packets' = Append(packets, p),
         mem' = Stored(Len(packets) + 1, a, format, written),
         UNCHANGED <<smVars, xpr, dfhash_xpr, was_reset>>
  PROVE  PacketInv'
<1> USE DEF PacketInv
<1>1. /\ packets' \in Seq(Packets)
      /\ Len(packets') = Len(packets) + 1
      /\ DOMAIN packets' = DOMAIN packets \cup {Len(packets) + 1}
      /\ \A n \in DOMAIN packets : packets'[n] = packets[n]
      /\ packets'[Len(packets) + 1] = p
  BY AppendFacts DEF PacketTypeOK
<1>2. Len(packets) \in Nat /\ Len(packets) + 1 \in 1 .. MaxPackets
  BY PacketAssumption DEF PacketTypeOK
<1>3. \A b \in Locs : BlockAt(Len(packets) + 1, a, b, format) \in Blocks
                     /\ BlockAt(Len(packets) + 1, a, b, format).n = Len(packets) + 1
  BY <1>2 DEF BlockAt, Blocks
<1>4. mem' \in [Locs -> Blocks \cup {Plaintext}]
  BY <1>3 DEF Stored, PacketTypeOK
<1>5. ASSUME NEW b \in Locs, mem'[b] # Plaintext PROVE mem'[b].n \in DOMAIN packets'
  BY <1>1, <1>3, <1>5 DEF Stored, PacketTypeOK
<1>6. PacketTypeOK'
  BY <1>1, <1>2, <1>4, <1>5 DEF PacketTypeOK
<1>7. LabelsDescribeValues'
  BY <1>1 DEF LabelsDescribeValues
<1>8. PacketsGenuine'
  BY <1>1 DEF PacketsGenuine, MadeUnder
<1> QED BY <1>6, <1>7, <1>8, KeyKept

\* What sde encrypts is a packet; under an enabled contract, that contract's.
LEMMA StoreKeeps ==
  ASSUME PacketInv, NEW rs2 \in Sec, NEW a \in Locs, NEW faults \in BOOLEAN, SDE(rs2, a, faults)
  PROVE  PacketInv'
<1> DEFINE p == Packet(rs2)
<1>1. Format \in 0 .. 2
  BY DEF SDE, Fits, FORMAT_SEL_FAST, FORMAT_SEL_STRONG, FORMAT_SEL_PROOFCARRYING
<1>2. /\ p.metadata \in Labels
      /\ p.val.id = Junk \/ p.metadata \in {p.val.id, NoLabel, OpLabel}
  BY DEF Packet, PacketInv, PacketTypeOK, LabelsDescribeValues, Labels
<1>3. simon_state \in Keys /\ mojov_dc.csig \in Sigs /\ mojov_en \in BOOLEAN
  BY DEF SDE, PacketInv, KeyInv, Sigs
<1>4. p \in Packets
  BY <1>1, <1>2, <1>3 DEF Packet, Packets, PacketInv, PacketTypeOK
<1>5. p.enabled => \E dc \in Loadable : MadeUnder(p, dc)
  BY DEF Packet, MadeUnder, Format, PacketInv, KeyInv
<1> HIDE DEF p
<1> QED
  BY <1>2, <1>4, <1>5, EncryptKeeps DEF SDE, p

\* What a contract's owner encrypts is a packet of the contract.
LEMMA ProvideKeeps ==
  ASSUME PacketInv, NEW dc \in Loadable, NEW id \in Ids, NEW a \in Locs, Provide(dc, id, a)
  PROVE  PacketInv'
<1> DEFINE p == [key |-> dc.key, auth_sig |-> dc.csig, format |-> dc.format_sel,
                 val |-> [id |-> id, owners |-> {dc.key}], metadata |-> id, enabled |-> TRUE]
<1>1. dc.format_sel \in 0 .. 2
  BY DEF Provide, Fits, FORMAT_SEL_FAST, FORMAT_SEL_STRONG, FORMAT_SEL_PROOFCARRYING
<1>2. p \in Packets
  BY <1>1 DEF Packets, Keys, Sigs, Values, Labels
<1>3. p.metadata = p.val.id /\ MadeUnder(p, dc)
  BY DEF MadeUnder
<1>4. packets' = Append(packets, p)
  BY DEF Provide
<1> HIDE DEF p
<1> QED
  BY <1>2, <1>3, <1>4, EncryptKeeps DEF Provide

\* A computed value gets the hash of its computation.
LEMMA ComputeKeeps ==
  ASSUME PacketInv, NEW rd \in Sec, NEW srcs \in SUBSET Sec, NEW id \in Ids,
         Compute(rd, srcs, id)
  PROVE  PacketInv'
<1> DEFINE o == UNION {xpr[r].owners : r \in srcs}
<1>1. o \in SUBSET Keys
  BY DEF PacketInv, PacketTypeOK, Values
<1>2. xpr' = [xpr EXCEPT ![rd] = [id |-> id, owners |-> o]]
  BY DEF Compute
<1>3. [id |-> id, owners |-> o] \in Values
  BY <1>1 DEF Values
<1> HIDE DEF o
<1>4. PacketTypeOK'
  BY <1>2, <1>3 DEF Compute, PacketInv, PacketTypeOK, Labels
<1>5. LabelsDescribeValues'
  BY <1>2 DEF Compute, PacketInv, PacketTypeOK, LabelsDescribeValues
<1>6. KeyInv' /\ PacketsGenuine'
  BY KeyKept DEF Compute, PacketInv, PacketsGenuine
<1> QED
  BY <1>4, <1>5, <1>6 DEF PacketInv

\* Moving ciphertext about changes no packet.
LEMMA MoveKeeps ==
  ASSUME PacketInv, NEW a \in Locs, NEW b \in Locs, Move(a, b)
  PROVE  PacketInv'
<1>1. PacketTypeOK'
  BY DEF Move, PacketInv, PacketTypeOK
<1>2. LabelsDescribeValues' /\ PacketsGenuine' /\ KeyInv'
  BY KeyKept DEF Move, PacketInv, LabelsDescribeValues, PacketsGenuine
<1> QED
  BY <1>1, <1>2 DEF PacketInv

\* Nor does editing it.
LEMMA EditKeeps ==
  ASSUME PacketInv, NEW a \in Locs, NEW halves \in SUBSET Halves, Edit(a, halves)
  PROVE  PacketInv'
<1> DEFINE b == IF mem[a].part = "lo" THEN [mem[a] EXCEPT !.edited = halves] ELSE Plaintext
<1>1. mem' = [mem EXCEPT ![a] = b]
  BY DEF Edit
<1>2. b \in Blocks \cup {Plaintext} /\ (b # Plaintext => b.n \in DOMAIN packets)
  <2>1. mem[a] \in Blocks /\ mem[a].n \in DOMAIN packets
    BY DEF Edit, PacketInv, PacketTypeOK
  <2>2. [mem[a] EXCEPT !.edited = halves] \in Blocks
        /\ [mem[a] EXCEPT !.edited = halves].n = mem[a].n
    BY <2>1 DEF Blocks
  <2> QED BY <2>1, <2>2
<1> HIDE DEF b
<1>3. PacketTypeOK'
  BY <1>1, <1>2 DEF Edit, PacketInv, PacketTypeOK
<1>4. LabelsDescribeValues' /\ PacketsGenuine' /\ KeyInv'
  BY KeyKept DEF Edit, PacketInv, LabelsDescribeValues, PacketsGenuine
<1> QED
  BY <1>3, <1>4 DEF PacketInv

\* Mode changes and resets: registers keep their value or are zeroed, and all
\* hashes go.
LEMMA ModeKeeps ==
  ASSUME PacketInv, KeyInv',
         \A r \in Sec : xpr'[r] \in {xpr[r], ZeroValue},
         xpr' \in [Sec -> Values],
         dfhash_xpr' = [r \in Sec |-> NoLabel],
         UNCHANGED <<mem, packets>>,
         was_reset' \in BOOLEAN
  PROVE  PacketInv'
<1>1. PacketTypeOK'
  BY DEF PacketInv, PacketTypeOK, Labels
<1>2. LabelsDescribeValues' /\ PacketsGenuine'
  BY DEF PacketInv, LabelsDescribeValues, PacketsGenuine
<1> QED
  BY <1>1, <1>2 DEF PacketInv

\* So every step keeps the invariant.
LEMMA PacketInvStep == PacketInv /\ [PacketNext]_vars => PacketInv'
<1> SUFFICES ASSUME PacketInv, [PacketNext]_vars PROVE PacketInv'
  OBVIOUS
<1>1. ASSUME NEW req \in BOOLEAN, WriteCfg(req) PROVE PacketInv'
  <2>1. KeyInv'
    BY <1>1, KeyStep DEF WriteCfg, SMNext, PacketInv
  <2>2. xpr' \in [Sec -> Values] /\ \A r \in Sec : xpr'[r] \in {xpr[r], ZeroValue}
    BY <1>1, ZeroValueType DEF WriteCfg, PacketInv, PacketTypeOK
  <2> QED
    BY <1>1, <2>1, <2>2, ModeKeeps DEF WriteCfg, PacketInv, PacketTypeOK
<1>2. CASE PacketReset
  <2>1. KeyInv'
    BY <1>2, KeyStep DEF PacketReset, SMNext, PacketInv
  <2> QED
    BY <1>2, <2>1, ModeKeeps, ZeroValueType DEF PacketReset
<1>3. CASE Open
  <2>1. KeyInv'
    BY <1>3, KeyStep DEF Open, SMNext, PacketInv
  <2> QED
    BY <1>3, <2>1
    DEF Open, packetVars, PacketInv, PacketTypeOK, LabelsDescribeValues, PacketsGenuine
<1>4. CASE UNCHANGED vars
  BY <1>4, KeyKept
  DEF vars, packetVars, PacketInv, PacketTypeOK, LabelsDescribeValues, PacketsGenuine
<1> QED
  BY <1>1, <1>2, <1>3, <1>4, LoadKeeps, StoreKeeps, ProvideKeeps, ComputeKeeps, MoveKeeps,
     EditKeeps
  DEF PacketNext

\* Packets of the contract in use are readable: two contracts with one key are
\* the same contract.
LEMMA GenuineReadable == PacketInv => PacketsStayReadable
<1> SUFFICES ASSUME PacketInv, NEW n \in DOMAIN packets, mojov_en,
                    packets[n].key = simon_state, packets[n].enabled
             PROVE  packets[n].auth_sig = mojov_dc.csig /\ packets[n].format = Format
  BY DEF PacketsStayReadable
<1>1. PICK dc \in Loadable : MadeUnder(packets[n], dc)
  BY DEF PacketInv, PacketsGenuine
<1>2. dc = mojov_dc
  BY <1>1, PacketAssumption DEF MadeUnder, PacketInv, KeyInv
<1> QED
  BY <1>1, <1>2 DEF MadeUnder, Format

\* For every set of contracts, registers and locations, with faults between
\* the two stores of a packet, resets, and ciphertext moved about and edited by
\* halves of a block: a value keeps the hash it was computed with or is one that
\* nobody encrypted, and what was encrypted under an enabled contract is what
\* its loads expect.
THEOREM PacketSafety ==
  PacketSpec => [](PacketTypeOK /\ LabelsDescribeValues /\ PacketsStayReadable)
<1>1. PacketInv => PacketTypeOK /\ LabelsDescribeValues /\ PacketsStayReadable
  BY GenuineReadable DEF PacketInv
<1> QED
  BY <1>1, PacketInvInit, PacketInvStep, PTL DEF PacketSpec

----------------------------------------------------------------------------
\* Whose secrets the registers hold: nobody's in public mode, and in secret
\* mode only the owner's of the key in the cipher core.  Until a reset the
\* mode the instructions see is the one opens are refused by.
Separated ==
  /\ secreg_mode = mojov_en
  /\ \A r \in Sec : xpr[r].owners \subseteq (IF secreg_mode THEN {simon_state} ELSE {})
  /\ \A n \in DOMAIN packets : packets[n].val.owners \subseteq {packets[n].key}

OwnersInv == ~was_reset => Separated

\* The invariant the separation of owners rests on is kept by every step.
LEMMA OwnersStep ==
  ASSUME Zeroed = Sec
  PROVE  PacketInv /\ PacketInv' /\ OwnersInv /\ [PacketNext]_vars => OwnersInv'
<1> SUFFICES ASSUME PacketInv, PacketInv', Separated, [PacketNext]_vars, ~was_reset'
             PROVE  Separated'
  BY DEF OwnersInv, PacketNext, LDE, SDE, Provide, Move, Edit, Compute, WriteCfg, Open, PacketReset,
         packetVars, vars
<1>1. ASSUME NEW rd \in Sec, NEW a \in Locs, LDE(rd, a) PROVE Separated'
  <2> DEFINE p == packets[mem[a].n]
  <2>1. p.key = simon_state /\ mem[a].n \in DOMAIN packets
    BY <1>1, OnePacket DEF LDE, Authentic, Chained, Clear, PacketInv
  <2>2. LoadedValue(a).owners \subseteq {simon_state}
    BY <2>1, ZeroValueType DEF Separated, LoadedValue
  <2> QED
    BY <1>1, <2>2 DEF LDE, Separated, PacketInv, PacketTypeOK, smVars
<1>2. ASSUME NEW rs2 \in Sec, NEW a \in Locs, NEW faults \in BOOLEAN, SDE(rs2, a, faults)
      PROVE  Separated'
  <2>1. packets' = Append(packets, Packet(rs2)) /\ packets \in Seq(Packets)
    BY <1>2 DEF SDE, PacketInv, PacketTypeOK
  <2>2. Packet(rs2).val.owners \subseteq {Packet(rs2).key}
    BY <1>2 DEF SDE, Packet, Separated
  <2>3. (\A n \in DOMAIN packets : packets[n].val.owners \subseteq {packets[n].key})'
    BY <2>1, <2>2 DEF Separated
  <2> QED
    BY <1>2, <2>3 DEF SDE, Separated, smVars
<1>3. ASSUME NEW dc \in Loadable, NEW id \in Ids, NEW a \in Locs, Provide(dc, id, a)
      PROVE  Separated'
  <2>1. PICK p : packets' = Append(packets, p) /\ p.val.owners = {p.key}
    BY <1>3 DEF Provide
  <2>2. packets \in Seq(Packets)
    BY DEF PacketInv, PacketTypeOK
  <2>3. (\A n \in DOMAIN packets : packets[n].val.owners \subseteq {packets[n].key})'
    BY <2>1, <2>2 DEF Separated
  <2> QED
    BY <1>3, <2>3 DEF Provide, Separated, smVars
<1>4. ASSUME NEW a \in Locs, NEW b \in Locs, Move(a, b) PROVE Separated'
  BY <1>4 DEF Move, Separated, smVars
<1>5. ASSUME NEW rd \in Sec, NEW srcs \in SUBSET Sec, NEW id \in Ids, Compute(rd, srcs, id)
      PROVE  Separated'
  <2> DEFINE o == UNION {xpr[r].owners : r \in srcs}
  <2>1. o \subseteq (IF secreg_mode THEN {simon_state} ELSE {})
    BY DEF Separated
  <2>2. xpr' = [xpr EXCEPT ![rd] = [id |-> id, owners |-> o]]
    BY <1>5 DEF Compute
  <2> HIDE DEF o
  <2>3. \A r \in Sec : xpr'[r].owners \subseteq (IF secreg_mode THEN {simon_state} ELSE {})
    BY <2>1, <2>2 DEF Separated, PacketInv, PacketTypeOK
  <2> QED
    BY <1>5, <2>3 DEF Compute, Separated, smVars
<1>6. ASSUME NEW req \in BOOLEAN, WriteCfg(req) PROVE Separated'
  <2>1. secreg_mode' = mojov_en' /\ (\A n \in DOMAIN packets : packets[n].val.owners \subseteq {packets[n].key})'
    BY <1>6 DEF WriteCfg, SetMode, Separated
  <2>2. CASE ~secreg_mode'
    BY <1>6, <2>1, <2>2, ZeroValueType DEF WriteCfg, Separated
  <2>3. CASE secreg_mode'
    <3>1. xpr' = [r \in Sec |-> xpr[r]]
      BY <1>6, <2>3 DEF WriteCfg
    <3>2. secreg_mode => simon_state' = simon_state
      BY <1>6, <2>1, <2>3 DEF WriteCfg, SetMode, Separated, PacketInv, KeyInv
    <3> QED
      BY <2>1, <2>3, <3>1, <3>2 DEF Separated
  <2> QED
    BY <2>2, <2>3
<1>7. CASE Open
  BY <1>7 DEF Open, OpenOk, OpenBad, packetVars, Separated
<1>8. CASE UNCHANGED vars
  BY <1>8 DEF vars, packetVars, smVars, Separated
<1>9. ASSUME NEW a \in Locs, NEW halves \in SUBSET Halves, Edit(a, halves) PROVE Separated'
  BY <1>9 DEF Edit, Separated, smVars
<1> QED
  BY <1>1, <1>2, <1>3, <1>4, <1>5, <1>6, <1>7, <1>8, <1>9 DEF PacketNext, PacketReset

\* Until a debugger resets the running hart, and for a register file that is
\* zeroed completely (the integer file), no sequence of loads, computation,
\* stores, opens and mode changes encrypts one contract's secrets under
\* another contract's key.
THEOREM OwnersSeparated ==
  ASSUME Zeroed = Sec
  PROVE  PacketSpec => []SecretsStayWithOwner
<1>1. PacketInit => OwnersInv
  <2> SUFFICES ASSUME PacketInit PROVE OwnersInv
    OBVIOUS
  <2>1. DOMAIN packets = {}
    BY DEF PacketInit
  <2>2. \A r \in Sec : xpr[r].owners = {}
    BY ZeroValueType DEF PacketInit
  <2> QED
    BY <2>1, <2>2 DEF PacketInit, SMInit, OwnersInv, Separated
<1>2. PacketInv /\ PacketInv' /\ OwnersInv /\ [PacketNext]_vars => OwnersInv'
  BY OwnersStep
<1>3. PacketSpec => []PacketInv
  BY PacketInvInit, PacketInvStep, PTL DEF PacketSpec
<1>4. OwnersInv => SecretsStayWithOwner
  BY DEF OwnersInv, Separated, SecretsStayWithOwner
<1> QED
  BY <1>1, <1>2, <1>3, <1>4, PTL DEF PacketSpec

\* What was encrypted under a contract can be read back under it, whatever was
\* stored, restored or faulted in between.
THEOREM PacketsReadable == PacketSpec => []PacketsStayReadable
BY PacketSafety, PTL
=============================================================================
