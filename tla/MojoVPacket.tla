---------------------------- MODULE MojoVPacket -----------------------------
(***************************************************************************)
(* Encrypted memory: the packets lde/sde (and, with the same code, flde    *)
(* and fsde) read and write in the fast, strong and proof-carrying         *)
(* formats, while contracts are opened, modes change, software moves       *)
(* ciphertext about, stores fault half-way and the hart is reset.          *)
(*                                                                         *)
(* Ciphertext is abstracted to who made it: a 16-byte location holds one   *)
(* block of the n-th packet ever encrypted, or what is left of it after    *)
(* stores to its 8-byte halves.  A packet's salt makes its blocks unlike   *)
(* any other's: decrypting a block with another key, in another place of a *)
(* packet or next to another packet's block never yields the signature of  *)
(* a contract.  The halves of the first block are xored in the clear to    *)
(* the signature and to the hash of the second: an edited half changes     *)
(* them by an amount software chooses, and is a choice over the outcomes.  *)
(***************************************************************************)
EXTENDS Integers, Sequences, SecretMode

CONSTANTS
  Sec,          \* the secret registers of one file
  Zeroed,       \* the ones a switch to public mode zeroes
  Locs,         \* 16-byte memory locations, consecutive naturals
  Ids,          \* dataflow hashes of computations; a value is known by the one
                \* it was computed with
  Zero, Junk,   \* the value of a zeroed register; what an edited block decrypts to
  Plaintext,    \* content of a location that is no packet block
  NoLabel,      \* a dataflow hash of zero
  OpLabel,      \* the hash of a load instruction itself
  MaxPackets    \* bound on the packets encrypted in a behaviour

FORMAT_SEL_FAST == 0
FORMAT_SEL_STRONG == 1
FORMAT_SEL_PROOFCARRYING == 2

ASSUME PacketAssumption ==
  /\ Zeroed \subseteq Sec
  /\ Locs \subseteq Nat
  /\ NoLabel \notin Ids /\ OpLabel \notin Ids
  /\ Zero \notin Ids /\ Junk \notin Ids /\ Zero # Junk
  /\ MaxPackets \in Nat
  /\ \A dc \in Loadable : dc.key # Uninit
  /\ \A dc, other \in Loadable : dc.key = other.key => dc = other

Keys == {dc.key : dc \in Loadable}
Values == [id : Ids \cup {Zero, Junk}, owners : SUBSET Keys]
Labels == Ids \cup {NoLabel, OpLabel}

VARIABLES
  xpr,          \* the secret registers: a value, and whose secrets are in it
  dfhash_xpr,   \* their dataflow hashes
  mem,          \* a packet's block and which halves of it were edited, or Plaintext
  packets,      \* history: everything ever encrypted
  was_reset     \* history: a debugger has reset the hart while it ran

packetVars == <<xpr, dfhash_xpr, mem, packets, was_reset>>
vars == <<smVars, packetVars>>

Sigs == {dc.csig : dc \in Loadable \cup {ZeroDc}}
Packets == [key : Keys, auth_sig : Sigs, format : 0 .. 2, val : Values, metadata : Labels,
            enabled : BOOLEAN]
\* The low half is xored to the signature, the high half to the hash.
Halves == {"sig", "hash"}
Blocks == [n : 1 .. MaxPackets, part : {"fast", "lo", "hi"}, edited : SUBSET Halves]

PacketTypeOK ==
  /\ xpr \in [Sec -> Values]
  /\ dfhash_xpr \in [Sec -> Labels]
  /\ mem \in [Locs -> Blocks \cup {Plaintext}]
  /\ packets \in Seq(Packets) /\ Len(packets) <= MaxPackets
  /\ \A a \in Locs : mem[a] # Plaintext => mem[a].n \in DOMAIN packets
  /\ was_reset \in BOOLEAN

ZeroValue == [id |-> Zero, owners |-> {}]
JunkValue == [id |-> Junk, owners |-> {}]

PacketInit ==
  /\ SMInit
  /\ xpr = [r \in Sec |-> ZeroValue]
  /\ dfhash_xpr = [r \in Sec |-> NoLabel]
  /\ mem = [a \in Locs |-> Plaintext]
  /\ packets = << >> /\ was_reset = FALSE

----------------------------------------------------------------------------
\* Mutant: the format bits of the CSR itself, which are the command line's.
Format_CommandLine == FORMAT_SEL_FAST

\* SECREG_CSR_FIELD(MSECREGCFG_FORMAT_SEL): the contract's, whatever the CSR holds.
Format == mojov_dc.format_sel

\* The locations a packet at a takes.
Extent(a, format) == IF format = FORMAT_SEL_FAST THEN {a} ELSE {a, a + 1}

Fits(a, format) ==
  /\ format \in {FORMAT_SEL_FAST, FORMAT_SEL_STRONG, FORMAT_SEL_PROOFCARRYING}
  /\ Extent(a, format) \subseteq Locs

\* The block a store of packet n at a puts in location b.
BlockAt(n, a, b, format) ==
  [n |-> n, part |-> IF format = FORMAT_SEL_FAST THEN "fast" ELSE IF b = a THEN "lo" ELSE "hi",
   edited |-> {}]

\* Memory after the locations in written, of packet n at a, have been stored.
Stored(n, a, format, written) ==
  [b \in Locs |-> IF b \in written THEN BlockAt(n, a, b, format) ELSE mem[b]]

----------------------------------------------------------------------------
Holds(a, part) == mem[a] # Plaintext /\ mem[a].part = part

\* Decrypted with the right key, the block at a is in clear.
Clear(a, part) == Holds(a, part) /\ packets[mem[a].n].key = simon_state

\* Mutant: the blocks encrypted independently of each other.
Chained_Ecb(a) == Holds(a, "lo") /\ Clear(a + 1, "hi")

\* simon_128_128_decrypt of ct_hi, xored with ct_lo: in clear, but for the edited
\* halves of ct_lo, iff this is the ct_lo it was chained to.
Chained(a) == Holds(a, "lo") /\ Clear(a + 1, "hi") /\ mem[a + 1].n = mem[a].n

\* The packet whose signature, and the one whose value, lde finds at a.
SignedBy(a) == IF Format = FORMAT_SEL_FAST THEN mem[a].n ELSE mem[a + 1].n

\* The comparison of auth_sig, 64 bits in the two-block formats: an edit of the
\* half xored to it may make it any other signature.
Authentic(a) ==
  /\ IF Format = FORMAT_SEL_FAST THEN Clear(a, "fast") ELSE Chained(a)
  /\ (packets[SignedBy(a)].auth_sig = mojov_dc.csig) <=> "sig" \notin mem[a].edited

\* pt.val: a block with an edited half decrypts to what nobody encrypted.
LoadedValue(a) == IF mem[a].edited = {} THEN packets[mem[a].n].val ELSE JunkValue

\* pt.metadata: an edit of the half xored to it makes it any other hash.
LoadedLabels(a) ==
  LET metadata == packets[SignedBy(a)].metadata
  IN  IF "hash" \in mem[a].edited THEN Labels \ {metadata} ELSE {metadata}

\* Datagrants, which only the proof-carrying format has, are in MojoVDisclose.
LDE(rd, a) ==
  /\ secreg_mode
  /\ Fits(a, Format)
  /\ Authentic(a)
  /\ xpr' = [xpr EXCEPT ![rd] = LoadedValue(a)]
  /\ \E label \in IF Format = FORMAT_SEL_PROOFCARRYING THEN LoadedLabels(a) ELSE {OpLabel} :
       dfhash_xpr' = [dfhash_xpr EXCEPT ![rd] = label]
  /\ UNCHANGED <<smVars, mem, packets, was_reset>>

\* The packet sde encrypts.
Packet(rs2) ==
  [key |-> simon_state, auth_sig |-> mojov_dc.csig, format |-> Format, val |-> xpr[rs2],
   metadata |-> IF Format = FORMAT_SEL_PROOFCARRYING THEN dfhash_xpr[rs2] ELSE NoLabel,
   enabled |-> mojov_en]

\* Stores the blocks in order; a page fault on the second leaves the first.
SDE(rs2, a, faults) ==
  /\ secreg_mode
  /\ Fits(a, Format)
  /\ Len(packets) < MaxPackets
  /\ faults => Format # FORMAT_SEL_FAST
  /\ packets' = Append(packets, Packet(rs2))
  /\ mem' = Stored(Len(packets) + 1, a, Format, IF faults THEN {a} ELSE Extent(a, Format))
  /\ UNCHANGED <<smVars, xpr, dfhash_xpr, was_reset>>

----------------------------------------------------------------------------
\* The rest of the machine.

\* A contract's owner encrypts a value and the program is given the packet.
Provide(dc, id, a) ==
  LET packet == [key |-> dc.key, auth_sig |-> dc.csig, format |-> dc.format_sel,
                 val |-> [id |-> id, owners |-> {dc.key}], metadata |-> id,
                 enabled |-> TRUE] IN
  /\ Fits(a, dc.format_sel)
  /\ Len(packets) < MaxPackets
  /\ packets' = Append(packets, packet)
  /\ mem' = Stored(Len(packets) + 1, a, dc.format_sel, Extent(a, dc.format_sel))
  /\ UNCHANGED <<smVars, xpr, dfhash_xpr, was_reset>>

\* Software may move a packet's blocks about, or overwrite them.
Move(a, b) ==
  /\ mem' = [mem EXCEPT ![b] = mem[a]]
  /\ UNCHANGED <<smVars, xpr, dfhash_xpr, packets, was_reset>>

\* A store to some halves of a block, or one that puts the old words back.  A
\* fast or second block with an edited half is no better than plaintext.
Edit(a, halves) ==
  /\ mem[a] # Plaintext
  /\ mem' = [mem EXCEPT ![a] =
       IF @.part = "lo" THEN [@ EXCEPT !.edited = halves] ELSE Plaintext]
  /\ UNCHANGED <<smVars, xpr, dfhash_xpr, packets, was_reset>>

\* An instruction computes a value from secret registers and public operands,
\* with a dataflow hash that the choice of the public ones may make any.
Compute(rd, srcs, id) ==
  /\ xpr' = [xpr EXCEPT ![rd] = [id |-> id, owners |-> UNION {xpr[r].owners : r \in srcs}]]
  /\ dfhash_xpr' = [dfhash_xpr EXCEPT ![rd] = id]
  /\ UNCHANGED <<smVars, mem, packets, was_reset>>

\* Mutant: SECREG_RESET dropped.
WriteCfg_NoClear(req) ==
  /\ SetMode(req)
  /\ dfhash_xpr' = [r \in Sec |-> NoLabel]
  /\ UNCHANGED <<xpr, mem, packets, was_reset>>

\* A write to mojov_cfg: the mode, mojov_destroy_metadata and SECREG_RESET.
WriteCfg(req) ==
  /\ SetMode(req)
  /\ xpr' = [r \in Sec |-> IF ~secreg_mode' /\ r \in Zeroed THEN ZeroValue ELSE xpr[r]]
  /\ dfhash_xpr' = [r \in Sec |-> NoLabel]
  /\ UNCHANGED <<mem, packets, was_reset>>

Open == (OpenOk \/ OpenBad) /\ UNCHANGED packetVars

PacketReset ==
  /\ ResetMode
  /\ was_reset' = TRUE
  /\ xpr' = [r \in Sec |-> ZeroValue]
  /\ dfhash_xpr' = [r \in Sec |-> NoLabel]
  /\ UNCHANGED <<mem, packets>>

PacketNext ==
  \/ \E r \in Sec, a \in Locs : LDE(r, a)
  \/ \E r \in Sec, a \in Locs, faults \in BOOLEAN : SDE(r, a, faults)
  \/ \E dc \in Loadable, id \in Ids, a \in Locs : Provide(dc, id, a)
  \/ \E a, b \in Locs : Move(a, b)
  \/ \E a \in Locs, halves \in SUBSET Halves : Edit(a, halves)
  \/ \E rd \in Sec, srcs \in SUBSET Sec, id \in Ids : Compute(rd, srcs, id)
  \/ \E req \in BOOLEAN : WriteCfg(req)
  \/ Open
  \/ PacketReset

PacketSpec == PacketInit /\ [][PacketNext]_vars

----------------------------------------------------------------------------
\* On its way through memory a value keeps the hash it was computed with, or has
\* none: neither a store that faulted between its two blocks, nor blocks that
\* software puts side by side, nor edits of half a block give a value the hash
\* of another.  The check of lde lets an edited hash through, but never with a
\* value somebody encrypted: the edit that changes the one spoils the other.
LabelsDescribeValues ==
  /\ \A r \in Sec : xpr[r].id = Junk \/ dfhash_xpr[r] \in {xpr[r].id, NoLabel, OpLabel}
  /\ \A n \in DOMAIN packets :
       packets[n].val.id = Junk \/ packets[n].metadata \in {packets[n].val.id, NoLabel, OpLabel}

\* What was computed from one contract's secrets is only ever encrypted under
\* that contract's key, through any sequence of opens and mode changes:
\* nobody's secrets are handed to the owner of another contract.  This is
\* what zeroing the registers, and refusing an open in secret mode, are for;
\* it holds until a debugger resets the running hart.
SecretsStayWithOwner ==
  ~was_reset => \A n \in DOMAIN packets : packets[n].val.owners \subseteq {packets[n].key}

\* What a contract's owner encrypts, or the hart while mojov_cfg shows secret
\* mode enabled, can be read back whenever the contract is in use again: the
\* format and the signature are the ones loads expect, although the hart may
\* have been reset, run in secret mode without a contract, and had other
\* contracts opened, or fail to open, in between.
PacketsStayReadable ==
  \A n \in DOMAIN packets :
    mojov_en /\ packets[n].key = simon_state /\ packets[n].enabled
      => packets[n].auth_sig = mojov_dc.csig /\ packets[n].format = Format
=============================================================================
