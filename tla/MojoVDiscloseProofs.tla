------------------------ MODULE MojoVDiscloseProofs -------------------------
(***************************************************************************)
(* Proofs about MojoVDisclose for every register file, every set of inputs *)
(* and instructions, and every set of grants of any depth.                 *)
(***************************************************************************)
EXTENDS MojoVDisclose, TLAPS

\* A register whose hash an owner could have computed, for a grant or for a
\* step towards one, holds a value of that hash, or a fitted one.  Other hashes
\* may be wrong: a mode change zeroes them and disc into a secret register
\* replaces them.
Honest(value, hash) == value = Fitted \/ (hash \in OwnerHashes => HashOf(value) = hash)
HashesAreHonest == \A r \in Sec : Honest(xpr[r], dfhash_xpr[r])

\* A marked register holds a hash some owner granted, or what an edited packet
\* decrypts to.
Granted(value) == value = Fitted \/ \E hash \in GrantedHashes : value = Grant(hash)
MarksAreGrants == \A r \in datagrant_xpr : secreg_mode /\ Granted(xpr[r])

\* The inductive invariant: DisclosuresAreGranted compares a value's own hash
\* with the grant's, and disc the register's, so the two must be tied.
DiscInv ==
  /\ DOMAIN xpr = Sec /\ DOMAIN dfhash_xpr = Sec /\ datagrant_xpr \subseteq Sec
  /\ HashesAreHonest
  /\ MarksAreGrants
  /\ DisclosuresAreGranted

----------------------------------------------------------------------------
\* Hashes.

\* What a two-operand instruction's hash consists of.
LEMMA GenElements ==
  ASSUME NEW insn, NEW h1, NEW h2, NEW x
  PROVE  x \in dfhash_gen(insn, Inputs(h1, h2)) <=>
           \/ x = <<"insn", insn>>
           \/ h1 # h2 /\ (x = <<"mixed", h1>> \/ x = <<"mixed", h2>>)
  <1>1. \A h : <<"mixed", h>> # <<"insn", insn>>
    OBVIOUS
  <1>2. <<"mixed", h1>> = <<"mixed", h2>> <=> h1 = h2
    OBVIOUS
  <1> QED BY <1>1, <1>2 DEF dfhash_gen, Inputs, Xor, Mixed, InsnHash

\* The instruction never cancels against its inputs.
LEMMA GenHasInsn ==
  ASSUME NEW insn, NEW h1, NEW h2
  PROVE  <<"insn", insn>> \in dfhash_gen(insn, Inputs(h1, h2))
  BY GenElements

\* The hash of an instruction whose operands' hashes differ determines them,
\* up to their order.
LEMMA GenInjective ==
  ASSUME NEW i, NEW h1, NEW h2, NEW j, NEW g1, NEW g2,
         dfhash_gen(i, Inputs(h1, h2)) = dfhash_gen(j, Inputs(g1, g2))
  PROVE  /\ i = j
         /\ g1 # g2 => h1 \in {g1, g2} /\ h2 \in {g1, g2}
  <1> DEFINE H == dfhash_gen(i, Inputs(h1, h2))
             G == dfhash_gen(j, Inputs(g1, g2))
  <1>1. \A x : x \in H <=> x = <<"insn", i>> \/ (h1 # h2 /\ (x = <<"mixed", h1>> \/ x = <<"mixed", h2>>))
    BY GenElements
  <1>2. \A x : x \in G <=> x = <<"insn", j>> \/ (g1 # g2 /\ (x = <<"mixed", g1>> \/ x = <<"mixed", g2>>))
    BY GenElements
  <1>3. H = G
    OBVIOUS
  <1> HIDE DEF H, G
  <1>4. /\ \A a, b : <<"mixed", a>> # <<"insn", b>>
        /\ \A a, b : <<"mixed", a>> = <<"mixed", b>> => a = b
        /\ \A a, b : <<"insn", a>> = <<"insn", b>> => a = b
    OBVIOUS
  <1>5. i = j
    BY <1>1, <1>2, <1>3, <1>4
  <1>6. ASSUME g1 # g2 PROVE h1 \in {g1, g2} /\ h2 \in {g1, g2}
    <2>1. <<"mixed", g1>> \in H /\ <<"mixed", g2>> \in H
      BY <1>2, <1>3, <1>6
    <2>2. h1 # h2
      BY <1>1, <1>4, <2>1
    <2>3. <<"mixed", h1>> \in G /\ <<"mixed", h2>> \in G
      BY <1>1, <1>3, <2>2
    <2> QED BY <1>2, <1>4, <2>3
  <1> QED BY <1>5, <1>6

\* The hash an owner computes for an instruction is the one the code computes
\* from operands with the owner's hashes.
LEMMA AppliedHash ==
  ASSUME NEW insn, NEW s, NEW t
  PROVE  HashOf(Applied(insn, s, t)) = dfhash_gen(insn, Inputs(HashOf(s), HashOf(t)))
  BY DEF HashOf, Applied, Value, dfhash_gen, Inputs

\* Those of the owner's inputs and random numbers.
LEMMA LeafHash ==
  ASSUME NEW brand PROVE HashOf(Leaf(brand)) = {<<"brand", brand>>}
  BY DEF HashOf, Leaf, Value, Branded

\* A certified random number has the hash of the instruction that drew it.
LEMMA DrawnHash ==
  ASSUME NEW insn PROVE HashOf(Drawn(insn)) = {<<"insn", insn>>}
  BY DEF HashOf, Drawn, Value, InsnHash

\* A public word enters a hash as itself.
LEMMA WordHash ==
  ASSUME NEW w PROVE HashOf(Word(w)) = {<<"word", w>>}
  BY DEF HashOf, Word, Value

\* No owner computes the zero hash.
LEMMA ZeroIsNobodys == ZeroHash \notin OwnerHashes
  <1> SUFFICES ASSUME NEW t \in OwnerTerms, HashOf(t) = {} PROVE FALSE
    BY DEF OwnerHashes, ZeroHash
  <1>1. CASE IsInput(t)
    <2>1. PICK brand \in Brands : t = Leaf(brand)
      BY <1>1 DEF IsInput
    <2>2. HashOf(t) = {<<"brand", brand>>}
      BY <2>1, LeafHash
    <2> QED BY <2>2
  <1>2. CASE IsDrawn(t)
    <2>1. PICK insn : t = Drawn(insn)
      BY <1>2 DEF IsDrawn
    <2>2. HashOf(t) = {<<"insn", insn>>}
      BY <2>1, DrawnHash
    <2> QED BY <2>2
  <1>3. CASE IsComputed(t)
    <2>1. PICK insn, s, u : t = Applied(insn, s, u)
      BY <1>3 DEF IsComputed
    <2>2. HashOf(t) = dfhash_gen(insn, Inputs(HashOf(s), HashOf(u)))
      BY <2>1, AppliedHash
    <2>3. <<"insn", insn>> \in HashOf(t)
      BY <2>2, GenHasInsn, Zenon
    <2> QED BY <2>3
  <1>4. CASE IsConstant(t)
    <2>1. PICK w \in Words : t = Word(w)
      BY <1>4 DEF IsConstant
    <2>2. HashOf(t) = {<<"word", w>>}
      BY <2>1, WordHash
    <2> QED BY <2>2
  <1> QED BY <1>1, <1>2, <1>3, <1>4, OwnerAssumption

\* Nor that of a move by disc, which names no computation.
LEMMA MoveIsNobodys ==
  ASSUME NEW rd \in Sec, NEW rs1 \in Sec, NEW rs2 \in Sec
  PROVE  dfhash_gen(<<"disc", rd, rs1, rs2>>, NoInputs) \notin OwnerHashes
  <1> DEFINE insn == <<"disc", rd, rs1, rs2>>
  <1>1. dfhash_gen(insn, NoInputs) = {<<"insn", insn>>}
    BY DEF dfhash_gen, NoInputs, ZeroHash, Xor, InsnHash
  <1> SUFFICES ASSUME NEW t \in OwnerTerms, HashOf(t) = {<<"insn", insn>>} PROVE FALSE
    BY <1>1 DEF OwnerHashes
  <1>2. \A x : <<"insn", insn>> = <<"insn", x>> => insn = x
    OBVIOUS
  <1>3. CASE IsInput(t)
    <2>1. PICK brand \in Brands : t = Leaf(brand)
      BY <1>3 DEF IsInput
    <2>2. HashOf(t) = {<<"brand", brand>>} /\ <<"insn", insn>> # <<"brand", brand>>
      BY <2>1, LeafHash
    <2> QED BY <2>2
  <1>4. CASE IsDrawn(t)
    <2>1. PICK r \in Sec, site \in Sites : t = Drawn(<<"certrng", r, site>>)
      BY <1>4 DEF IsDrawn
    <2>2. HashOf(t) = {<<"insn", <<"certrng", r, site>> >>}
      BY <2>1, DrawnHash
    <2>3. <<"insn", insn>> = <<"insn", <<"certrng", r, site>> >>
      BY <1>2, <2>2
    <2>4. insn = <<"certrng", r, site>>
      BY <1>2, <2>3
    <2> QED BY <2>4
  <1>5. CASE IsComputed(t)
    <2>1. PICK op \in Ops, r \in Sec, r1, r2 \in Sec \cup Pub, s, u \in OwnerTerms :
             t = Applied(<<op, r, r1, r2>>, s, u)
      BY <1>5 DEF IsComputed
    <2>2. HashOf(t) = dfhash_gen(<<op, r, r1, r2>>, Inputs(HashOf(s), HashOf(u)))
      BY <2>1, AppliedHash
    <2>3. <<"insn", <<op, r, r1, r2>> >> \in HashOf(t)
      <3> DEFINE j == <<op, r, r1, r2>>
      <3>1. <<"insn", j>> \in dfhash_gen(j, Inputs(HashOf(s), HashOf(u)))
        <4> HIDE DEF j
        <4> QED BY GenHasInsn, Zenon
      <3> QED BY <2>2, <3>1
    <2>4. insn = <<op, r, r1, r2>>
      BY <1>2, <2>3
    <2> QED BY <2>4, OwnerAssumption
  <1>6. CASE IsConstant(t)
    <2>1. PICK w \in Words : t = Word(w)
      BY <1>6 DEF IsConstant
    <2>2. HashOf(t) = {<<"word", w>>} /\ <<"insn", insn>> # <<"word", w>>
      BY <2>1, WordHash
    <2> QED BY <2>2
  <1> QED BY <1>3, <1>4, <1>5, <1>6, OwnerAssumption

\* Nor that of a plain load.
LEMMA LoadIsNobodys ==
  ASSUME NEW rd \in Sec, NEW rs1 \in Pub, NEW w
  PROVE  dfhash_gen(<<"ld", rd, rs1>>, Mixed(HashOf(Word(w)))) \notin OwnerHashes
  <1> DEFINE insn == <<"ld", rd, rs1>>
             h == dfhash_gen(insn, Mixed(HashOf(Word(w))))
  <1>1. <<"insn", insn>> \in h
    BY DEF dfhash_gen, Mixed, Xor, InsnHash
  <1> HIDE DEF h
  <1> SUFFICES ASSUME NEW t \in OwnerTerms, <<"insn", insn>> \in HashOf(t) PROVE FALSE
    BY <1>1 DEF OwnerHashes, h
  <1>2. \A x : <<"insn", insn>> = <<"insn", x>> => insn = x
    OBVIOUS
  <1>3. CASE IsInput(t)
    <2>1. PICK brand \in Brands : t = Leaf(brand)
      BY <1>3 DEF IsInput
    <2>2. HashOf(t) = {<<"brand", brand>>} /\ <<"insn", insn>> # <<"brand", brand>>
      BY <2>1, LeafHash
    <2> QED BY <2>2
  <1>4. CASE IsDrawn(t)
    <2>1. PICK r \in Sec, site \in Sites : t = Drawn(<<"certrng", r, site>>)
      BY <1>4 DEF IsDrawn
    <2>2. HashOf(t) = {<<"insn", <<"certrng", r, site>> >>}
      BY <2>1, DrawnHash
    <2>3. <<"insn", insn>> = <<"insn", <<"certrng", r, site>> >>
      BY <2>2
    <2>4. insn = <<"certrng", r, site>>
      BY <1>2, <2>3
    <2> QED BY <2>4
  <1>5. CASE IsComputed(t)
    <2>1. PICK op \in Ops, r \in Sec, r1, r2 \in Sec \cup Pub, s, u \in OwnerTerms :
             t = Applied(<<op, r, r1, r2>>, s, u)
      BY <1>5 DEF IsComputed
    <2> DEFINE j == <<op, r, r1, r2>>
    <2>2. HashOf(t) = dfhash_gen(j, Inputs(HashOf(s), HashOf(u)))
      BY <2>1, AppliedHash
    <2>3. insn # j
      OBVIOUS
    <2>4. \A a, b : <<"mixed", a>> # <<"insn", b>>
      OBVIOUS
    <2> HIDE DEF insn, j
    <2>5. <<"insn", insn>> = <<"insn", j>>
      <3> DEFINE h1 == HashOf(s)
                 h2 == HashOf(u)
      <3>1. HashOf(t) = dfhash_gen(j, Inputs(h1, h2))
        BY <2>2
      <3> HIDE DEF h1, h2
      <3> QED BY <2>4, <3>1, GenElements
    <2> QED BY <1>2, <2>3, <2>5
  <1>6. CASE IsConstant(t)
    <2>1. PICK w2 \in Words : t = Word(w2)
      BY <1>6 DEF IsConstant
    <2>2. HashOf(t) = {<<"word", w2>>} /\ <<"insn", insn>> # <<"word", w2>>
      BY <2>1, WordHash
    <2> QED BY <2>2
  <1> QED BY <1>3, <1>4, <1>5, <1>6, OwnerAssumption

\* An instruction whose result has an owner's hash had operands of owner's
\* hashes, unless it read one register twice.
LEMMA OperandsAreOwners ==
  ASSUME NEW op \in Ops, NEW rd \in Sec, NEW rs1, NEW rs2, NEW h1, NEW h2,
         dfhash_gen(<<op, rd, rs1, rs2>>, Inputs(h1, h2)) \in OwnerHashes
  PROVE  rs1 = rs2 \/ (h1 \in OwnerHashes /\ h2 \in OwnerHashes)
  <1> DEFINE insn == <<op, rd, rs1, rs2>>
  <1>1. PICK t \in OwnerTerms : HashOf(t) = dfhash_gen(insn, Inputs(h1, h2))
    BY DEF OwnerHashes
  <1>2. <<"insn", insn>> \in HashOf(t)
    BY <1>1, GenElements
  <1>3. \A x : <<"insn", insn>> = <<"insn", x>> => insn = x
    OBVIOUS
  <1>4. CASE IsInput(t)
    <2>1. PICK brand \in Brands : t = Leaf(brand)
      BY <1>4 DEF IsInput
    <2>2. HashOf(t) = {<<"brand", brand>>} /\ <<"insn", insn>> # <<"brand", brand>>
      BY <2>1, LeafHash
    <2> QED BY <1>2, <2>2
  <1>5. CASE IsDrawn(t)
    <2>1. PICK r \in Sec, site \in Sites : t = Drawn(<<"certrng", r, site>>)
      BY <1>5 DEF IsDrawn
    <2>2. HashOf(t) = {<<"insn", <<"certrng", r, site>> >>}
      BY <2>1, DrawnHash
    <2>3. <<"insn", insn>> = <<"insn", <<"certrng", r, site>> >>
      BY <1>2, <2>2
    <2>4. insn = <<"certrng", r, site>>
      BY <1>2, <1>3, <2>3
    <2> QED BY <2>4, OwnerAssumption
  <1>6. CASE IsComputed(t)
    <2>1. PICK op2 \in Ops, r \in Sec, r1, r2 \in Sec \cup Pub, s, u \in OwnerTerms :
             t = Applied(<<op2, r, r1, r2>>, s, u) /\ (r1 = r2 \/ HashOf(s) # HashOf(u))
      BY <1>6 DEF IsComputed
    <2>2. HashOf(t) = dfhash_gen(<<op2, r, r1, r2>>, Inputs(HashOf(s), HashOf(u)))
      BY <2>1, AppliedHash
    <2>3. /\ insn = <<op2, r, r1, r2>>
          /\ HashOf(s) # HashOf(u) => h1 \in {HashOf(s), HashOf(u)} /\ h2 \in {HashOf(s), HashOf(u)}
      <3>1. dfhash_gen(insn, Inputs(h1, h2))
              = dfhash_gen(<<op2, r, r1, r2>>, Inputs(HashOf(s), HashOf(u)))
        BY <1>1, <2>2, Zenon
      <3> DEFINE j == <<op2, r, r1, r2>>
                 g1 == HashOf(s)
                 g2 == HashOf(u)
      <3>2. dfhash_gen(insn, Inputs(h1, h2)) = dfhash_gen(j, Inputs(g1, g2))
        BY <3>1
      <3> HIDE DEF insn, j, g1, g2
      <3>3. insn = j /\ (g1 # g2 => h1 \in {g1, g2} /\ h2 \in {g1, g2})
        BY <3>2, GenInjective
      <3> QED BY <3>3 DEF j, g1, g2
    <2>4. HashOf(s) \in OwnerHashes /\ HashOf(u) \in OwnerHashes
      BY DEF OwnerHashes
    <2> QED BY <2>1, <2>3, <2>4
  <1>7. CASE IsConstant(t)
    <2>1. PICK w \in Words : t = Word(w)
      BY <1>7 DEF IsConstant
    <2>2. HashOf(t) = {<<"word", w>>} /\ <<"insn", insn>> # <<"word", w>>
      BY <2>1, WordHash
    <2> QED BY <1>2, <2>2
  <1> QED BY <1>4, <1>5, <1>6, <1>7, OwnerAssumption

----------------------------------------------------------------------------
\* A write to a secret register keeps the invariant if its hash is honest and
\* its mark is on a granted hash.
LEMMA WriteKeeps ==
  ASSUME DiscInv, NEW rd \in Sec, NEW value, NEW hash, NEW mark \in BOOLEAN,
         Write(rd, value, hash, mark),
         Honest(value, hash),
         mark => secreg_mode /\ Granted(value),
         secreg_mode' = secreg_mode, disclosed' = disclosed
  PROVE  DiscInv'
  <1>1. /\ DOMAIN xpr' = Sec /\ DOMAIN dfhash_xpr' = Sec /\ datagrant_xpr' \subseteq Sec
        /\ xpr'[rd] = value /\ dfhash_xpr'[rd] = hash
        /\ \A r \in Sec \ {rd} : xpr'[r] = xpr[r] /\ dfhash_xpr'[r] = dfhash_xpr[r]
        /\ rd \in datagrant_xpr' => mark
        /\ \A r \in datagrant_xpr' : r # rd => r \in datagrant_xpr
    BY DEF Write, DiscInv
  <1>2. HashesAreHonest'
    <2> SUFFICES ASSUME NEW r \in Sec PROVE Honest(xpr'[r], dfhash_xpr'[r])
      BY DEF HashesAreHonest, Honest, OwnerHashes, HashOf, Fitted, Value
    <2>1. CASE r = rd
      BY <1>1, <2>1
    <2>2. CASE r # rd
      BY <1>1, <2>2 DEF DiscInv, HashesAreHonest
    <2> QED BY <2>1, <2>2
  <1>3. MarksAreGrants'
    BY <1>1 DEF DiscInv, MarksAreGrants, Granted, GrantedHashes
  <1>4. DisclosuresAreGranted'
    BY DEF DiscInv, DisclosuresAreGranted, GrantedHashes
  <1> QED BY <1>1, <1>2, <1>3, <1>4 DEF DiscInv

\* Destroying the metadata keeps it, whatever happens to the values.
LEMMA DestroyKeeps ==
  ASSUME DiscInv, DestroyMetadata, DOMAIN xpr' = Sec, disclosed' = disclosed
  PROVE  DiscInv'
  <1>1. /\ DOMAIN dfhash_xpr' = Sec /\ datagrant_xpr' = {}
        /\ \A r \in Sec : dfhash_xpr'[r] = ZeroHash
    BY DEF DestroyMetadata
  <1>2. HashesAreHonest'
    BY <1>1, ZeroIsNobodys DEF HashesAreHonest, Honest, OwnerHashes
  <1>3. MarksAreGrants'
    BY <1>1 DEF MarksAreGrants
  <1>4. DisclosuresAreGranted'
    BY DEF DiscInv, DisclosuresAreGranted, GrantedHashes
  <1> QED BY <1>1, <1>2, <1>3, <1>4 DEF DiscInv

\* What an instruction reads is honest: a register's by the invariant, and a
\* public word is its own hash.
LEMMA OperandsHonest ==
  ASSUME DiscInv, NEW r \in Sec \cup Pub, NEW o \in Operands(r)
  PROVE  Honest(o.value, o.hash)
  <1>1. CASE r \in Sec
    <2>1. o = [value |-> xpr[r], hash |-> dfhash_xpr[r]]
      BY <1>1 DEF Operands
    <2> QED BY <1>1, <2>1 DEF DiscInv, HashesAreHonest
  <1>2. CASE r \notin Sec
    <2>1. PICK w \in Words : o = [value |-> Word(w), hash |-> HashOf(Word(w))]
      BY <1>2 DEF Operands
    <2> QED BY <2>1 DEF Honest
  <1> QED BY <1>1, <1>2

\* A computed result has an owner's hash only if its operands were honest.
LEMMA ComputeKeeps ==
  ASSUME DiscInv, NEW op \in Ops, NEW rd \in Sec,
         NEW rs1 \in Sec \cup Pub, NEW rs2 \in Sec \cup Pub, Compute(op, rd, rs1, rs2)
  PROVE  DiscInv'
  <1> DEFINE insn == <<op, rd, rs1, rs2>>
  <1>1. PICK o1 \in Operands(rs1), o2 \in Operands(rs2) :
           /\ rs1 = rs2 => o1 = o2
           /\ Write(rd, Result(insn, o1.value, o2.value),
                    dfhash_gen(insn, Inputs(o1.hash, o2.hash)), FALSE)
    BY DEF Compute
  <1>2. secreg_mode' = secreg_mode /\ disclosed' = disclosed
    BY DEF Compute, smVars
  <1> DEFINE value == Result(insn, o1.value, o2.value)
             hash == dfhash_gen(insn, Inputs(o1.hash, o2.hash))
  <1>3. ASSUME value # Fitted, hash \in OwnerHashes PROVE HashOf(value) = hash
    <2>1. value = Applied(insn, o1.value, o2.value) /\ o1.value # Fitted /\ o2.value # Fitted
      BY <1>3 DEF Result
    <2>2. HashOf(value) = dfhash_gen(insn, Inputs(HashOf(o1.value), HashOf(o2.value)))
      <3> HIDE DEF insn
      <3> QED BY <2>1, AppliedHash
    <2>3. CASE rs1 = rs2
      <3>1. ASSUME NEW h PROVE Inputs(h, h) = {}
        BY DEF Inputs, Xor, Mixed
      <3> QED BY <1>1, <2>2, <2>3, <3>1
    <2>4. CASE rs1 # rs2
      <3>1. o1.hash \in OwnerHashes /\ o2.hash \in OwnerHashes
        <4> DEFINE h1 == o1.hash
                   h2 == o2.hash
        <4>1. dfhash_gen(<<op, rd, rs1, rs2>>, Inputs(h1, h2)) \in OwnerHashes
          BY <1>3
        <4> HIDE DEF h1, h2
        <4>2. h1 \in OwnerHashes /\ h2 \in OwnerHashes
          BY <2>4, <4>1, OperandsAreOwners
        <4> QED BY <4>2 DEF h1, h2
      <3>2. HashOf(o1.value) = o1.hash /\ HashOf(o2.value) = o2.hash
        BY <2>1, <3>1, OperandsHonest DEF Honest
      <3> QED BY <2>2, <3>2
    <2> QED BY <2>3, <2>4
  <1>4. Write(rd, value, hash, FALSE)
    BY <1>1
  <1>5. Honest(value, hash)
    BY <1>3 DEF Honest
  <1> HIDE DEF value, hash
  <1> QED BY <1>2, <1>4, <1>5, WriteKeeps

\* What disc makes public carried a granted hash, and honestly.
LEMMA DiscPublicKeeps ==
  ASSUME DiscInv, NEW rs1 \in Sec, NEW rs2 \in Sec, DiscPublic(rs1, rs2)
  PROVE  DiscInv'
  <1>2. xpr[rs2] = Grant(dfhash_xpr[rs1])
    BY DEF DiscPublic, Matches
  <1>1. PICK hash \in GrantedHashes : xpr[rs2] = Grant(hash)
    <2>1. Fitted.kind = "fitted" /\ Grant(dfhash_xpr[rs1]).kind = "grant"
      BY DEF Fitted, Grant, Value
    <2>2. xpr[rs2] # Fitted
      BY <1>2, <2>1
    <2> QED BY <2>2 DEF DiscPublic, DiscInv, MarksAreGrants, Granted
  <1>3. dfhash_xpr[rs1] \in GrantedHashes
    <2>1. Grant(hash).of = <<hash>> /\ Grant(dfhash_xpr[rs1]).of = <<dfhash_xpr[rs1]>>
      BY DEF Grant, Value
    <2>2. <<hash>> = <<dfhash_xpr[rs1]>>
      BY <1>1, <1>2, <2>1
    <2> QED BY <2>2
  <1>4. GrantedHashes \subseteq OwnerHashes
    BY OwnerAssumption DEF GrantedHashes, OwnerHashes
  <1>5. xpr[rs1] = Fitted \/ HashOf(xpr[rs1]) \in GrantedHashes
    BY <1>3, <1>4 DEF DiscInv, HashesAreHonest, Honest
  <1>6. /\ disclosed' = disclosed \cup {xpr[rs1]} /\ xpr' = xpr /\ dfhash_xpr' = dfhash_xpr
        /\ datagrant_xpr' = datagrant_xpr /\ secreg_mode' = secreg_mode
    BY DEF DiscPublic, smVars
  <1>7. DisclosuresAreGranted'
    BY <1>5, <1>6 DEF DiscInv, DisclosuresAreGranted, GrantedHashes
  <1> QED BY <1>6, <1>7 DEF DiscInv, HashesAreHonest, Honest, MarksAreGrants, Granted,
     OwnerHashes, GrantedHashes

\* Every instruction, mode change, open and reset keeps the invariant.
LEMMA DiscStep == DiscInv /\ [DiscNext]_vars => DiscInv'
  <1> SUFFICES ASSUME DiscInv, [DiscNext]_vars PROVE DiscInv'
    OBVIOUS
  <1>1. ASSUME NEW r \in Sec, NEW brand \in Brands, LoadValue(r, brand) PROVE DiscInv'
    <2>1. HashOf(Leaf(brand)) = Branded(brand)
      BY LeafHash DEF Branded
    <2>2. /\ Write(r, Leaf(brand), Branded(brand), FALSE)
          /\ secreg_mode' = secreg_mode /\ disclosed' = disclosed
      BY <1>1 DEF LoadValue, smVars
    <2> QED BY <2>1, <2>2, WriteKeeps DEF Honest
  <1>2. ASSUME NEW r \in Sec, NEW hash \in GrantedHashes, LoadGrant(r, hash) PROVE DiscInv'
    <2>1. /\ Write(r, Grant(hash), ZeroHash, TRUE) /\ secreg_mode
          /\ secreg_mode' = secreg_mode /\ disclosed' = disclosed
      BY <1>2 DEF LoadGrant, ProofCarrying, smVars
    <2> QED BY <2>1, ZeroIsNobodys, WriteKeeps DEF Honest, Granted
  <1>3. ASSUME NEW r \in Sec, NEW site \in Sites, Certrng(r, site) PROVE DiscInv'
    <2> DEFINE insn == <<"certrng", r, site>>
    <2>1. HashOf(Drawn(insn)) = dfhash_gen(insn, NoInputs)
      <3>1. dfhash_gen(insn, NoInputs) = {<<"insn", insn>>}
        BY DEF dfhash_gen, NoInputs, ZeroHash, Xor, InsnHash
      <3> HIDE DEF insn
      <3> QED BY <3>1, DrawnHash
    <2>2. /\ Write(r, Drawn(insn), dfhash_gen(insn, NoInputs), FALSE)
          /\ secreg_mode' = secreg_mode /\ disclosed' = disclosed
      BY <1>3 DEF Certrng, smVars
    <2> HIDE DEF insn
    <2> QED BY <2>1, <2>2, WriteKeeps DEF Honest
  <1>4. ASSUME NEW rd \in Sec, NEW rs1 \in Sec, NEW rs2 \in Sec, DiscSecret(rd, rs1, rs2)
        PROVE  DiscInv'
    <2>1. /\ Write(rd, xpr[rs1], dfhash_gen(<<"disc", rd, rs1, rs2>>, NoInputs), FALSE)
          /\ secreg_mode' = secreg_mode /\ disclosed' = disclosed
      BY <1>4 DEF DiscSecret, smVars
    <2> QED BY <2>1, MoveIsNobodys, WriteKeeps DEF Honest
  <1>5. ASSUME NEW req \in BOOLEAN, WriteCfg(req) PROVE DiscInv'
    <2>1. DestroyMetadata /\ DOMAIN xpr' = Sec /\ disclosed' = disclosed
      BY <1>5 DEF WriteCfg, DiscInv
    <2> QED BY <2>1, DestroyKeeps
  <1>6. CASE DiscReset
    <2>1. DestroyMetadata /\ DOMAIN xpr' = Sec /\ disclosed' = disclosed
      BY <1>6 DEF DiscReset
    <2> QED BY <2>1, DestroyKeeps
  <1>7. CASE UNCHANGED discVars /\ secreg_mode' = secreg_mode
    BY <1>7 DEF discVars, DiscInv, HashesAreHonest, Honest, MarksAreGrants, Granted,
       DisclosuresAreGranted, OwnerHashes, GrantedHashes
  <1>8. ASSUME Open \/ UNCHANGED vars PROVE UNCHANGED discVars /\ secreg_mode' = secreg_mode
    BY <1>8 DEF Open, OpenOk, OpenBad, vars, smVars
  <1>9. ASSUME NEW r \in Sec, NEW hash \in OwnerHashes, NEW mark \in BOOLEAN,
               LoadEdited(r, hash, mark)
        PROVE  DiscInv'
    <2> DEFINE h == IF mark THEN ZeroHash ELSE hash
    <2>1. /\ Write(r, Fitted, h, mark) /\ secreg_mode
          /\ secreg_mode' = secreg_mode /\ disclosed' = disclosed
      BY <1>9 DEF LoadEdited, ProofCarrying, smVars
    <2> HIDE DEF h
    <2> QED BY <2>1, WriteKeeps DEF Honest, Granted
  <1>10. ASSUME NEW r \in Sec, NEW rs1 \in Pub, NEW w \in Words, LoadPublic(r, rs1, w)
         PROVE  DiscInv'
    <2> DEFINE value == Loaded(<<"ld", r, rs1>>, w)
               hash == dfhash_gen(<<"ld", r, rs1>>, Mixed(HashOf(Word(w))))
    <2>1. /\ Write(r, value, hash, FALSE)
          /\ secreg_mode' = secreg_mode /\ disclosed' = disclosed
      BY <1>10 DEF LoadPublic, smVars
    <2>2. Honest(value, hash)
      BY LoadIsNobodys DEF Honest
    <2> HIDE DEF value, hash
    <2> QED BY <2>1, <2>2, WriteKeeps
  <1>11. ASSUME NEW rd \in Sec, NEW rs1, NEW rs2, NEW hash \in OwnerHashes,
                ComputeFitted(rd, rs1, rs2, hash)
         PROVE  DiscInv'
    <2>1. /\ Write(rd, Fitted, hash, FALSE)
          /\ secreg_mode' = secreg_mode /\ disclosed' = disclosed
      BY <1>11 DEF ComputeFitted, smVars
    <2> QED BY <2>1, WriteKeeps DEF Honest
  <1> QED
    BY <1>1, <1>2, <1>3, <1>4, <1>5, <1>6, <1>7, <1>8, <1>9, <1>10, <1>11,
       ComputeKeeps, DiscPublicKeeps DEF DiscNext

\* It holds after reset.
LEMMA DiscInitInv == DiscInit => DiscInv
  <1> SUFFICES ASSUME DiscInit PROVE DiscInv
    OBVIOUS
  <1>1. /\ DOMAIN xpr = Sec /\ DOMAIN dfhash_xpr = Sec /\ datagrant_xpr = {} /\ disclosed = {}
        /\ \A r \in Sec : dfhash_xpr[r] = ZeroHash
    BY DEF DiscInit
  <1> QED
    BY <1>1, ZeroIsNobodys DEF DiscInv, HashesAreHonest, Honest, MarksAreGrants, DisclosuresAreGranted

\* Whatever disc has made public was computed as its grant says, as far as the
\* hash tells, or had a word or a packet fitted to the grant in its computation:
\* for every depth of the granted computations and every order of instructions
\* on secret and public registers, loads, moves, mode changes, opens and resets
\* (disc.h:6-20, decode_macros.h:58-103, processor.h:521-538).
THEOREM DisclosuresSafe == DiscSpec => []DisclosuresAreGranted
  <1>1. DiscInv => DisclosuresAreGranted
    BY DEF DiscInv
  <1> QED BY DiscInitInv, DiscStep, <1>1, PTL DEF DiscSpec

\* A mark is on a register that holds a datagrant, or what an edited packet was
\* decrypted to, and only in secret mode
\* (lde.h:72-87, decode_macros.h:96-103, processor.h:521-538).
THEOREM MarksSafe == DiscSpec => []GrantsAreMarked
  <1>1. DiscInv => GrantsAreMarked
    <2>1. \A hash : Grant(hash).kind = "grant"
      BY DEF Grant, Value
    <2> QED BY <2>1 DEF DiscInv, MarksAreGrants, Granted, GrantsAreMarked
  <1> QED BY DiscInitInv, DiscStep, <1>1, PTL DEF DiscSpec
=============================================================================
