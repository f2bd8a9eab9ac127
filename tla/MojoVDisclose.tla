--------------------------- MODULE MojoVDisclose ----------------------------
(***************************************************************************)
(* Proof-carrying computation and safe disclosure: dataflow hashes,        *)
(* datagrants, certified random numbers, and disc/fdisc.                   *)
(*                                                                         *)
(* A value is the term that computed it: a leaf an owner branded, a random *)
(* number drawn at a site, a public word, or an instruction applied to two *)
(* terms.  The 64-bit hash xors the mixed hashes of the instruction and of *)
(* its inputs; it is abstracted to the set of things xored an odd number   *)
(* of times, so that what cancels in the code cancels here and distinct    *)
(* things never collide.                                                   *)
(*                                                                         *)
(* A public operand enters the hash as its own value, and the mixing can   *)
(* be inverted: a word computed from the hashes of the other operands      *)
(* makes the result's any.  So does an edit of the packet that lde reads.  *)
(* Values with such a word in their computation are Fitted: their hash is  *)
(* software's choice.                                                      *)
(***************************************************************************)
EXTENDS Integers, SecretMode

CONSTANTS
  Sec,            \* secret integer registers
  Pub,            \* public integer registers
  Words,          \* public words that were not computed from hashes
  Brands,         \* metadata the owner gives the inputs
  Sites,          \* site_ids of certrng
  Ops,            \* two-operand instructions
  GrantedTerms,   \* the computations whose result the owner grants
  OwnerTerms,     \* those and every computation their operands are results of
  MaxOps          \* bound on the instructions computed in a behaviour

FORMAT_SEL_PROOFCARRYING == 2

VARIABLES
  xpr,            \* the secret registers' values
  dfhash_xpr,
  datagrant_xpr,  \* as a set of registers
  disclosed,      \* the values disc has made public
  ops             \* instructions computed so far

discVars == <<xpr, dfhash_xpr, datagrant_xpr, disclosed, ops>>
vars == <<smVars, discVars>>

----------------------------------------------------------------------------
\* Hashes.
Xor(g, h) == (g \ h) \cup (h \ g)
ZeroHash == {}
Mixed(h) == {<<"mixed", h>>}
Branded(brand) == {<<"brand", brand>>}
InsnHash(insn) == {<<"insn", insn>>}

\* dfhash_gen: the instruction's hash with its inputs' folded in by sm64_hash64.
dfhash_gen(insn, folded) == Xor(InsnHash(insn), folded)
NoInputs == ZeroHash
Inputs(h1, h2) == Xor(Mixed(h1), Mixed(h2))

\* Values.  The instruction word names the operation and its registers.  Each
\* carries the hash an owner computes for it, to grant its disclosure.
Value(kind, of, hash) == [kind |-> kind, of |-> of, hash |-> hash]
HashOf(t) == t.hash

Leaf(brand) == Value("leaf", <<brand>>, Branded(brand))
Drawn(insn) == Value("drawn", <<insn>>, InsnHash(insn))
Applied(insn, s, t) ==
  Value("applied", <<insn, s, t>>,
        Xor(InsnHash(insn), Xor(Mixed(HashOf(s)), Mixed(HashOf(t)))))
Grant(hash) == Value("grant", <<hash>>, ZeroHash)    \* a datagrant, as data
Word(w) == Value("word", <<w>>, {<<"word", w>>})     \* its hash is the word itself
Loaded(insn, w) ==                                   \* whatever is at address w
  Value("loaded", <<insn, w>>, Xor(InsnHash(insn), Mixed(HashOf(Word(w)))))
Zero == Value("zero", << >>, ZeroHash)
Fitted == Value("fitted", << >>, ZeroHash)

GrantedHashes == {HashOf(t) : t \in GrantedTerms}
OwnerHashes == {HashOf(t) : t \in OwnerTerms}

\* What an owner grants is computed from branded inputs, certified random numbers
\* and constants.  Operands of equal hashes cancel, so that their hash says
\* nothing of them: they are one register, or their hashes differ.
IsInput(t) == \E brand \in Brands : t = Leaf(brand)

IsDrawn(t) == \E rd \in Sec, site \in Sites : t = Drawn(<<"certrng", rd, site>>)

IsConstant(t) == \E w \in Words : t = Word(w)

IsComputed(t) ==
  \E op \in Ops, rd \in Sec, rs1, rs2 \in Sec \cup Pub, s, u \in OwnerTerms :
     /\ t = Applied(<<op, rd, rs1, rs2>>, s, u)
     /\ rs1 = rs2 \/ HashOf(s) # HashOf(u)

ASSUME OwnerAssumption ==
  /\ GrantedTerms \subseteq OwnerTerms
  /\ \A t \in OwnerTerms : IsInput(t) \/ IsDrawn(t) \/ IsConstant(t) \/ IsComputed(t)
  /\ Ops \cap {"certrng", "disc", "ld"} = {}
  /\ Sec \cap Pub = {}

DiscInit ==
  /\ SMInit
  /\ xpr = [r \in Sec |-> Zero]
  /\ dfhash_xpr = [r \in Sec |-> ZeroHash]
  /\ datagrant_xpr = {}
  /\ disclosed = {}
  /\ ops = 0

----------------------------------------------------------------------------
\* Mutant: an ordinary write leaves the mark of a datagrant it overwrites.
Write_KeepsGrant(rd, value, hash, is_datagrant) ==
  /\ xpr' = [xpr EXCEPT ![rd] = value]
  /\ dfhash_xpr' = [dfhash_xpr EXCEPT ![rd] = hash]
  /\ datagrant_xpr' = IF is_datagrant THEN datagrant_xpr \cup {rd} ELSE datagrant_xpr

\* WRITE_RD to a secret register; the hash is the one given.
Write(rd, value, hash, is_datagrant) ==
  /\ xpr' = [xpr EXCEPT ![rd] = value]
  /\ dfhash_xpr' = [dfhash_xpr EXCEPT ![rd] = hash]
  /\ datagrant_xpr' = IF is_datagrant THEN datagrant_xpr \cup {rd} ELSE datagrant_xpr \ {rd}

ProofCarrying == secreg_mode /\ mojov_dc.format_sel = FORMAT_SEL_PROOFCARRYING

\* lde of an owner's value, and of an owner's datagrant (signature plus one).
LoadValue(rd, brand) ==
  /\ ProofCarrying
  /\ Write(rd, Leaf(brand), Branded(brand), FALSE)
  /\ UNCHANGED <<smVars, disclosed, ops>>

LoadGrant(rd, hash) ==
  /\ ProofCarrying
  /\ Write(rd, Grant(hash), ZeroHash, TRUE)
  /\ UNCHANGED <<smVars, disclosed, ops>>

\* lde of a packet with an edited first block: a value nobody encrypted, with a
\* hash or the mark of a datagrant as software chose the edit.
LoadEdited(rd, hash, is_datagrant) ==
  /\ ProofCarrying
  /\ Write(rd, Fitted, IF is_datagrant THEN ZeroHash ELSE hash, is_datagrant)
  /\ UNCHANGED <<smVars, disclosed, ops>>

\* A plain load into a secret register: the address is hashed, not the data.
LoadPublic(rd, rs1, w) ==
  LET insn == <<"ld", rd, rs1>> IN
  /\ secreg_mode
  /\ Write(rd, Loaded(insn, w), dfhash_gen(insn, Mixed(HashOf(Word(w)))), FALSE)
  /\ UNCHANGED <<smVars, disclosed, ops>>

Certrng(rd, site) ==
  LET insn == <<"certrng", rd, site>> IN
  /\ secreg_mode /\ mojov_dcvalid
  /\ Write(rd, Drawn(insn), dfhash_gen(insn, NoInputs), FALSE)
  /\ UNCHANGED <<smVars, disclosed, ops>>

\* CHECK_DATAGRANT_R
Readable(r) == ~(secreg_mode /\ r \in datagrant_xpr)

\* DFHASH_REG_R: the operand an instruction reads from register r, and its hash.
Operands(r) ==
  IF r \in Sec THEN {[value |-> xpr[r], hash |-> dfhash_xpr[r]]}
  ELSE {[value |-> Word(w), hash |-> HashOf(Word(w))] : w \in Words}

Result(insn, s, t) == IF Fitted \in {s, t} THEN Fitted ELSE Applied(insn, s, t)

\* An instruction on secret and public registers.
Compute(op, rd, rs1, rs2) ==
  LET insn == <<op, rd, rs1, rs2>> IN
  /\ secreg_mode
  /\ ops < MaxOps
  /\ Readable(rs1) /\ Readable(rs2)
  /\ \E o1 \in Operands(rs1), o2 \in Operands(rs2) :
       /\ rs1 = rs2 => o1 = o2
       /\ Write(rd, Result(insn, o1.value, o2.value),
                dfhash_gen(insn, Inputs(o1.hash, o2.hash)), FALSE)
  /\ ops' = ops + 1
  /\ UNCHANGED <<smVars, disclosed>>

\* The same with a public word fitted to the hash wanted, by sm64_hash64 backwards.
ComputeFitted(rd, rs1, rs2, hash) ==
  /\ secreg_mode
  /\ ops < MaxOps
  /\ rs1 # rs2 /\ {rs1, rs2} \cap Pub # {}
  /\ Readable(rs1) /\ Readable(rs2)
  /\ Write(rd, Fitted, hash, FALSE)
  /\ ops' = ops + 1
  /\ UNCHANGED <<smVars, disclosed>>

\* The hash the datagrant carries is the value's.
Matches(rs1, rs2) == xpr[rs2] = Grant(dfhash_xpr[rs1])

\* disc into a public register, by its own reads of the register file.
DiscPublic(rs1, rs2) ==
  /\ ProofCarrying
  /\ rs2 \in datagrant_xpr
  /\ Matches(rs1, rs2)
  /\ disclosed' = disclosed \cup {xpr[rs1]}
  /\ UNCHANGED <<smVars, xpr, dfhash_xpr, datagrant_xpr, ops>>

\* disc into a secret register: a move, whose hash has no inputs.
DiscSecret(rd, rs1, rs2) ==
  LET insn == <<"disc", rd, rs1, rs2>> IN
  /\ ProofCarrying
  /\ rs2 \in datagrant_xpr
  /\ Write(rd, xpr[rs1], dfhash_gen(insn, NoInputs), FALSE)
  /\ UNCHANGED <<smVars, disclosed, ops>>

\* Mutant: mode changes do not destroy the hashes.
DestroyMetadata_GrantsOnly == UNCHANGED dfhash_xpr /\ datagrant_xpr' = {}

\* mojov_destroy_metadata
DestroyMetadata ==
  /\ dfhash_xpr' = [r \in Sec |-> ZeroHash]
  /\ datagrant_xpr' = {}

WriteCfg(req) ==
  /\ SetMode(req)
  /\ xpr' = IF secreg_mode' THEN xpr ELSE [r \in Sec |-> Zero]
  /\ DestroyMetadata
  /\ UNCHANGED <<disclosed, ops>>

Open == (OpenOk \/ OpenBad) /\ UNCHANGED discVars

DiscReset ==
  /\ ResetMode
  /\ xpr' = [r \in Sec |-> Zero]
  /\ DestroyMetadata
  /\ UNCHANGED <<disclosed, ops>>

DiscNext ==
  \/ \E r \in Sec, brand \in Brands : LoadValue(r, brand)
  \/ \E r \in Sec, hash \in GrantedHashes : LoadGrant(r, hash)
  \/ \E r \in Sec, site \in Sites : Certrng(r, site)
  \/ \E r \in Sec, hash \in OwnerHashes, is_datagrant \in BOOLEAN : LoadEdited(r, hash, is_datagrant)
  \/ \E r \in Sec, rs1 \in Pub, w \in Words : LoadPublic(r, rs1, w)
  \/ \E op \in Ops, rd \in Sec, rs1, rs2 \in Sec \cup Pub : Compute(op, rd, rs1, rs2)
  \/ \E rd \in Sec, rs1, rs2 \in Sec \cup Pub, hash \in OwnerHashes : ComputeFitted(rd, rs1, rs2, hash)
  \/ \E rs1, rs2 \in Sec : DiscPublic(rs1, rs2)
  \/ \E rd, rs1, rs2 \in Sec : DiscSecret(rd, rs1, rs2)
  \/ \E req \in BOOLEAN : WriteCfg(req)
  \/ Open
  \/ DiscReset

DiscSpec == DiscInit /\ [][DiscNext]_vars

----------------------------------------------------------------------------
\* Whatever disc has made public is a value whose computation, from branded
\* inputs on, hashes to what the owner granted: no sequence of moves, plain
\* loads, mode changes, opens and resets lends a value the hash of another
\* computation.  The exception is what software fitted a word to: the hash of
\* such a value says nothing of it, however the rest was computed.
DisclosuresAreGranted == \A t \in disclosed \ {Fitted} : HashOf(t) \in GrantedHashes

\* Only secret mode has marks, and a mark is on a register that holds a hash, or
\* noise that an edited packet decrypts to: overwriting, mode changes and reset
\* take both away together.
GrantsAreMarked ==
  \A r \in datagrant_xpr : secreg_mode /\ (xpr[r].kind = "grant" \/ xpr[r] = Fitted)

\* "a datagrant whose `dfhash` names the exact expected computation"
\* (blind-audit/README.md:6): what is disclosed was computed as granted.
DisclosuresAreExact == disclosed \subseteq GrantedTerms
=============================================================================
