---------------------------- MODULE KernelProofs ----------------------------
(***************************************************************************)
(* The sequence kernels, for inputs of every length.  A loop is a          *)
(* recursive function, of which TLA+ only says that it is chosen.  Each    *)
(* proof names the states a loop may be in before each turn (LoopRuns,     *)
(* StagedLoopRuns: such a loop has a value after every turn), and shows by *)
(* induction over the turns (TurnInduction) that what the table, the       *)
(* record or the row holds is the optimum of what was read so far.         *)
(***************************************************************************)
EXTENDS Kernels, SequenceTheorems, FiniteSetTheorems, WellFoundedInduction, TLAPS

\* A non-empty set of natural numbers has a least element.
LEMMA LeastElement ==
  ASSUME NEW T \in SUBSET Nat, T # {}
  PROVE  \E x \in T : \A y \in T : x <= y
  <1>1. PICK x \in T : \A y \in T : ~(<<y, x>> \in OpToRel(<, Nat))
    BY NatLessThanWellFounded, WFMin
  <1>2. \A y \in T : ~(y < x)
    BY <1>1 DEF OpToRel
  <1> QED BY <1>2

----------------------------------------------------------------------------
(* Loops *)

\* What holds before the first turn and survives every turn holds at the end.
LEMMA TurnInduction ==
  ASSUME NEW n \in Nat, NEW T, 0 \in T, \A i \in 0 .. n - 1 : i \in T => i + 1 \in T
  PROVE  \A i \in 0 .. n : i \in T
  <1> DEFINE Bad == {i \in 0 .. n : i \notin T}
  <1>1. ASSUME Bad # {} PROVE FALSE
    <2>1. Bad \in SUBSET Nat
      OBVIOUS
    <2>2. PICK i \in Bad : \A j \in Bad : i <= j
      <3> HIDE DEF Bad
      <3> QED BY <1>1, <2>1, LeastElement
    <2>3. i \in 1 .. n /\ i \notin T
      BY <2>2
    <2>4. i - 1 \in 0 .. n - 1 /\ (i - 1) + 1 = i /\ ~(i <= i - 1)
      BY <2>3
    <2>5. i - 1 \notin T
      BY <2>3, <2>4
    <2>6. i - 1 \in Bad
      BY <2>4, <2>5
    <2> QED BY <2>2, <2>4, <2>6
  <1> QED BY <1>1

\* f is what a loop of n turns computes, turn by turn, and stays in S.
IsRun(f, n, S, start, turn) ==
  /\ f \in [0 .. n -> S]
  /\ f = [i \in 0 .. n |-> IF i <= 0 THEN start ELSE turn[<<f[i - 1], i - 1>>]]

\* A loop whose turns stay in a set of states has a value after every turn.
LEMMA LoopRuns ==
  ASSUME NEW n \in Nat, NEW S, NEW start \in S, NEW turn \in [S \X (0 .. n - 1) -> S]
  PROVE  \E f : IsRun(f, n, S, start, turn)
  <1> DEFINE Runs(m) == {g \in [0 .. m -> S] :
                           g[0] = start /\ \A i \in 0 .. m - 1 : g[i + 1] = turn[<<g[i], i>>]}
             T == {m \in Nat : Runs(m) # {}}
  <1>1. 0 \in T
    <2>1. [i \in 0 .. 0 |-> start] \in Runs(0)
      OBVIOUS
    <2> QED BY <2>1
  <1>2. ASSUME NEW m \in 0 .. n - 1, m \in T PROVE m + 1 \in T
    <2>1. PICK g \in Runs(m) : TRUE
      BY <1>2
    <2> DEFINE h == [i \in 0 .. m + 1 |-> IF i <= m THEN g[i] ELSE turn[<<g[m], m>>]]
    <2>2. g \in [0 .. m -> S] /\ g[0] = start /\ \A i \in 0 .. m - 1 : g[i + 1] = turn[<<g[i], i>>]
      BY <2>1
    <2>3. m \in 0 .. m /\ g[m] \in S
      BY <2>2
    <2>4. turn[<<g[m], m>>] \in S
      BY <2>3
    <2>5. h \in [0 .. m + 1 -> S]
      BY <2>2, <2>4
    <2>6. h[0] = start
      BY <2>2
    <2>7. ASSUME NEW i \in 0 .. (m + 1) - 1 PROVE h[i + 1] = turn[<<h[i], i>>]
      <3>1. i \in 0 .. m /\ i \in 0 .. m + 1 /\ i + 1 \in 0 .. m + 1 /\ h[i] = g[i]
        OBVIOUS
      <3>2. CASE i = m
        BY <3>1, <3>2
      <3>3. CASE i # m
        <4>1. i \in 0 .. m - 1 /\ i + 1 <= m
          BY <3>1, <3>3
        <4>2. h[i + 1] = g[i + 1]
          BY <3>1, <4>1
        <4> QED BY <2>2, <3>1, <4>1, <4>2
      <3> QED BY <3>2, <3>3
    <2>8. h \in Runs(m + 1)
      <3> HIDE DEF h
      <3> QED BY <2>5, <2>6, <2>7
    <2>9. m + 1 \in Nat
      OBVIOUS
    <2> HIDE DEF h, Runs
    <2> QED BY <2>8, <2>9
  <1>3. n \in T
    <2> HIDE DEF T
    <2>1. \A i \in 0 .. n : i \in T
      BY <1>1, <1>2, TurnInduction
    <2> QED BY <2>1
  <1>4. PICK g \in Runs(n) : TRUE
    BY <1>3
  <1>5. g \in [0 .. n -> S] /\ g[0] = start /\ \A i \in 0 .. n - 1 : g[i + 1] = turn[<<g[i], i>>]
    BY <1>4
  <1> DEFINE h == [i \in 0 .. n |-> IF i <= 0 THEN start ELSE turn[<<g[i - 1], i - 1>>]]
  <1>6. ASSUME NEW i \in 0 .. n PROVE g[i] = h[i]
    <2>1. CASE i = 0
      BY <1>5, <2>1
    <2>2. CASE i # 0
      <3>1. i - 1 \in 0 .. n - 1 /\ (i - 1) + 1 = i /\ ~(i <= 0)
        BY <2>2
      <3>2. g[i] = turn[<<g[i - 1], i - 1>>]
        BY <1>5, <3>1
      <3> QED BY <3>1, <3>2
    <2> QED BY <2>1, <2>2
  <1>7. g = h
    BY <1>5, <1>6
  <1>8. IsRun(g, n, S, start, turn)
    BY <1>5, <1>7 DEF IsRun
  <1> QED BY <1>8

----------------------------------------------------------------------------
(* Pattern matching *)

\* Two loops that start alike and stay alike from turn to turn end alike.
LEMMA LoopsEndAlike ==
  ASSUME NEW n \in Nat, NEW f, NEW g, f[0] = g[0],
         \A i \in 0 .. n - 1 : f[i] = g[i] => f[i + 1] = g[i + 1]
  PROVE  f[n] = g[n]
  <1> DEFINE T == {i \in 0 .. n : f[i] = g[i]}
  <1>1. 0 \in T /\ \A i \in 0 .. n - 1 : i \in T => i + 1 \in T
    OBVIOUS
  <1>2. \A i \in 0 .. n : i \in T
    <2> HIDE DEF T
    <2> QED BY <1>1, TurnInduction
  <1> QED BY <1>2

\* A scan of n cells finds the one at k, if there is one and the mask is on.
LEMMA ScanIs ==
  ASSUME NEW a, NEW n \in Nat, NEW k, NEW mask, NEW fallback
  PROVE  Scan(a, n, k, mask, fallback) = IF mask /\ k \in 0 .. n - 1 THEN a[k + 1] ELSE fallback
  <1> DEFINE Turn(x, j) == IF mask /\ j = k THEN a[j + 1] ELSE x
             IsLoop(f) == f = [i \in 0 .. n |-> IF i <= 0 THEN fallback ELSE Turn(f[i - 1], i - 1)]
             loop == CHOOSE f : IsLoop(f)
             z == [i \in 0 .. n |-> IF mask /\ k \in 0 .. i - 1 THEN a[k + 1] ELSE fallback]
  <1>1. Scan(a, n, k, mask, fallback) = loop[n]
    BY DEF Scan, For
  <1>2. z[0] = fallback /\ z[n] = IF mask /\ k \in 0 .. n - 1 THEN a[k + 1] ELSE fallback
    OBVIOUS
  <1>3. ASSUME NEW i \in 0 .. n - 1 PROVE z[i + 1] = Turn(z[i], i)
    <2>1. /\ i \in 0 .. n /\ i + 1 \in 0 .. n
          /\ k \in 0 .. (i + 1) - 1 <=> k \in 0 .. i - 1 \/ k = i
          /\ ~(i \in 0 .. i - 1)
      OBVIOUS
    <2>2. /\ z[i] = IF mask /\ k \in 0 .. i - 1 THEN a[k + 1] ELSE fallback
          /\ z[i + 1] = IF mask /\ k \in 0 .. (i + 1) - 1 THEN a[k + 1] ELSE fallback
      BY <2>1
    <2> HIDE DEF z
    <2> QED BY <2>1, <2>2
  <1>4. z = [i \in 0 .. n |-> z[i]]
    OBVIOUS
  <1> HIDE DEF Turn, z
  <1>5. IsLoop(z)
    <2> DEFINE d == [i \in 0 .. n |-> IF i <= 0 THEN fallback ELSE Turn(z[i - 1], i - 1)]
    <2>1. ASSUME NEW i \in 0 .. n PROVE z[i] = d[i]
      <3>1. CASE i = 0
        BY <1>2, <3>1
      <3>2. CASE i # 0
        <4>1. i - 1 \in 0 .. n - 1 /\ (i - 1) + 1 = i /\ ~(i <= 0)
          BY <3>2
        <4>2. z[i] = Turn(z[i - 1], i - 1)
          BY <1>3, <4>1
        <4> QED BY <4>1, <4>2
      <3> QED BY <3>1, <3>2
    <2> QED BY <1>4, <2>1
  <1>6. IsLoop(loop)
    <2> HIDE DEF IsLoop
    <2> QED BY <1>5
  <1> HIDE DEF loop
  <1>7. loop[0] = fallback /\ \A i \in 0 .. n - 1 : loop[i + 1] = Turn(loop[i], i)
    BY <1>6
  <1>8. loop[n] = z[n]
    <2>1. \A i \in 0 .. n - 1 : loop[i] = z[i] => loop[i + 1] = z[i + 1]
      BY <1>3, <1>7
    <2>2. loop[0] = z[0]
      BY <1>2, <1>7
    <2> HIDE DEF IsLoop
    <2> QED BY <2>1, <2>2, LoopsEndAlike
  <1> QED BY <1>1, <1>2, <1>8

\* q[i] is the state an automaton is in after i characters.
Reads(q, pattern, text) ==
  /\ q \in [0 .. Len(text) -> 0 .. 4] /\ q[0] = 0
  /\ \A i \in 0 .. Len(text) - 1 : q[i + 1] = Automaton(pattern)[q[i] + 1][text[i + 1] + 1]

\* The set of active states of an automaton is the one state it has reached, and
\* stays so beyond the end of the text.
LEMMA SecretMatchIs ==
  ASSUME NEW pattern, NEW text \in Seq(0 .. 3), Len(text) <= kMaxTextLen,
         NEW q, Reads(q, pattern, text)
  PROVE  secret_match(pattern, text) <=> q[Len(text)] = 3
  <1> DEFINE trans == Automaton(pattern)
             m == Len(text)
             n == kMaxTextLen
             Turn(active, i) ==
               LET process == i < Len(text)
                   ch == Scan(text, kMaxTextLen, i, process, 3)
                   next_active == {trans[t + 1][ch + 1] : t \in active}
               IN  IF process THEN next_active ELSE active
             start == {0}
             IsLoop(f) == f = [i \in 0 .. n |-> IF i <= 0 THEN start ELSE Turn(f[i - 1], i - 1)]
             loop == CHOOSE f : IsLoop(f)
             c == [i \in 0 .. n |-> {q[IF i <= m THEN i ELSE m]}]
  <1>0. n \in Nat /\ m \in Nat /\ m <= n
    BY LenProperties, KernelAssumption
  <1>1. secret_match(pattern, text) <=> 3 \in loop[n]
    BY DEF secret_match, For
  <1>2. \A i \in 0 .. n - 1 : c[i + 1] = Turn(c[i], i)
    <2> SUFFICES ASSUME NEW i \in 0 .. n - 1 PROVE c[i + 1] = Turn(c[i], i)
      OBVIOUS
    <2>1. i \in 0 .. n /\ i + 1 \in 0 .. n
      BY <1>0
    <2>2. CASE i < m
      <3>1. c[i] = {q[i]} /\ c[i + 1] = {q[i + 1]}
        BY <1>0, <2>1, <2>2
      <3>2. q[i + 1] = trans[q[i] + 1][text[i + 1] + 1]
        BY <1>0, <2>2 DEF Reads
      <3>3. Scan(text, n, i, i < m, 3) = text[i + 1]
        BY <1>0, <2>2, ScanIs
      <3>4. Turn(c[i], i) = {trans[t + 1][text[i + 1] + 1] : t \in c[i]}
        <4> HIDE DEF c, trans
        <4> QED BY <2>2, <3>3
      <3> HIDE DEF c, n, trans, Turn
      <3> QED BY <3>1, <3>2, <3>4
    <2>3. CASE ~(i < m)
      <3>1. c[i] = {q[m]} /\ c[i + 1] = {q[m]}
        BY <1>0, <2>1, <2>3
      <3>2. Turn(c[i], i) = c[i]
        <4> HIDE DEF c, trans
        <4> QED BY <2>3
      <3> HIDE DEF c, Turn
      <3> QED BY <3>1, <3>2
    <2> QED BY <2>2, <2>3
  <1>3. c[0] = start
    BY <1>0 DEF Reads
  <1>4. c = [i \in 0 .. n |-> c[i]]
    OBVIOUS
  <1>5. c[n] = {q[m]}
    BY <1>0
  <1> HIDE DEF n, Turn, start, c
  <1>6. IsLoop(c)
    <2> DEFINE d == [i \in 0 .. n |-> IF i <= 0 THEN start ELSE Turn(c[i - 1], i - 1)]
    <2>1. ASSUME NEW i \in 0 .. n PROVE c[i] = d[i]
      <3>1. CASE i = 0
        BY <1>3, <3>1
      <3>2. CASE i # 0
        <4>1. i - 1 \in 0 .. n - 1 /\ (i - 1) + 1 = i /\ ~(i <= 0)
          BY <1>0, <3>2
        <4>2. c[i] = Turn(c[i - 1], i - 1)
          BY <1>2, <4>1
        <4> QED BY <4>1, <4>2
      <3> QED BY <3>1, <3>2
    <2> QED BY <1>4, <2>1
  <1>7. IsLoop(loop)
    <2> HIDE DEF IsLoop
    <2> QED BY <1>6
  <1> HIDE DEF loop
  <1>8. loop[0] = start /\ \A i \in 0 .. n - 1 : loop[i + 1] = Turn(loop[i], i)
    BY <1>0, <1>7
  <1>9. loop[n] = c[n]
    <2>1. \A i \in 0 .. n - 1 : loop[i] = c[i] => loop[i + 1] = c[i + 1]
      BY <1>2, <1>8
    <2> QED BY <1>0, <1>3, <1>8, <2>1, LoopsEndAlike
  <1> QED BY <1>1, <1>5, <1>9

\* The rows of the four automata.
LEMMA Automata ==
  /\ Automaton("ab*c") = <<<<1, 2, 2, 2>>, <<2, 1, 3, 2>>, <<2, 2, 2, 2>>, <<2, 2, 2, 2>>>>
  /\ Automaton("a.c") = <<<<1, 4, 4, 4>>, <<2, 2, 2, 2>>, <<4, 4, 3, 4>>, <<4, 4, 4, 4>>, <<4, 4, 4, 4>>>>
  /\ Automaton("ab+c") = <<<<1, 4, 4, 4>>, <<4, 2, 4, 4>>, <<4, 2, 3, 4>>, <<4, 4, 4, 4>>, <<4, 4, 4, 4>>>>
  /\ Automaton("a[^abc]*c") = <<<<1, 2, 2, 2>>, <<2, 2, 3, 1>>, <<2, 2, 2, 2>>, <<2, 2, 2, 2>>>>
  BY DEF Automaton

\* The first i characters are an a and then only one other character.
Begun(text, i, middle) ==
  i >= 1 /\ text[1] = 0 /\ \A j \in 2 .. i : text[j] = middle
\* ... and a c.
Ended(text, i, middle) ==
  i >= 2 /\ Begun(text, i - 1, middle) /\ text[i] = 2

\* One more character.
LEMMA BegunNext ==
  ASSUME NEW text, NEW i \in Nat, NEW middle
  PROVE  Begun(text, i + 1, middle) <=> (i = 0 /\ text[1] = 0) \/ (Begun(text, i, middle) /\ text[i + 1] = middle)
  <1>1. CASE i = 0
    BY <1>1 DEF Begun
  <1>2. CASE i # 0
    <2>1. i + 1 >= 1 /\ i >= 1 /\ 2 .. i + 1 = (2 .. i) \cup {i + 1}
      BY <1>2
    <2> QED BY <1>2, <2>1 DEF Begun
  <1> QED BY <1>1, <1>2

\* ab*c
LEMMA ReadsABStarC ==
  ASSUME NEW text \in Seq(0 .. 3)
  PROVE  Reads([i \in 0 .. Len(text) |->
                  IF i = 0 THEN 0 ELSE IF Begun(text, i, 1) THEN 1
                  ELSE IF Ended(text, i, 1) THEN 3 ELSE 2], "ab*c", text)
  <1> DEFINE n == Len(text)
             State(i) == IF i = 0 THEN 0 ELSE IF Begun(text, i, 1) THEN 1
                         ELSE IF Ended(text, i, 1) THEN 3 ELSE 2
             q == [i \in 0 .. n |-> State(i)]
             A == Automaton("ab*c")
  <1>1. n \in Nat /\ \A i \in 1 .. n : text[i] \in 0 .. 3
    BY LenProperties
  <1>2. q \in [0 .. n -> 0 .. 4] /\ q[0] = 0
    BY <1>1
  <1>3. ASSUME NEW i \in 0 .. n - 1 PROVE q[i + 1] = A[q[i] + 1][text[i + 1] + 1]
    <2> DEFINE ch == text[i + 1]
    <2>1. i \in 0 .. n /\ i + 1 \in 0 .. n /\ i \in Nat /\ ch \in 0 .. 3 /\ i + 1 # 0
      BY <1>1
    <2>2. q[i] = State(i) /\ q[i + 1] = State(i + 1)
      BY <2>1
    <2>3. /\ A[1] = <<1, 2, 2, 2>> /\ A[2] = <<2, 1, 3, 2>> /\ A[3] = <<2, 2, 2, 2>> /\ A[4] = <<2, 2, 2, 2>>
      BY Automata
    <2>4. Begun(text, i + 1, 1) <=> (i = 0 /\ ch = 0) \/ (Begun(text, i, 1) /\ ch = 1)
      <3>1. i = 0 => ch = text[1]
        OBVIOUS
      <3> QED BY <2>1, <3>1, BegunNext
    <2>5. Ended(text, i + 1, 1) <=> Begun(text, i, 1) /\ ch = 2
      BY <2>1 DEF Ended, Begun
    <2>6. Begun(text, i, 1) => i # 0
      BY <2>1 DEF Begun
    <2> HIDE DEF q, n, A, ch
    <2>7. CASE i = 0
      <3>1. State(i) = 0 /\ State(i + 1) = IF ch = 0 THEN 1 ELSE 2
        BY <2>1, <2>4, <2>5, <2>6, <2>7
      <3> HIDE DEF State
      <3> QED BY <2>1, <2>2, <2>3, <3>1 DEF ch
    <2>8. CASE i # 0 /\ Begun(text, i, 1)
      <3>1. State(i) = 1 /\ State(i + 1) = IF ch = 1 THEN 1 ELSE IF ch = 2 THEN 3 ELSE 2
        BY <2>1, <2>4, <2>5, <2>8
      <3> HIDE DEF State
      <3> QED BY <2>1, <2>2, <2>3, <3>1 DEF ch
    <2>9. CASE i # 0 /\ ~Begun(text, i, 1)
      <3>1. State(i) \in {2, 3} /\ State(i + 1) = 2
        BY <2>1, <2>4, <2>5, <2>9
      <3> HIDE DEF State
      <3> QED BY <2>1, <2>2, <2>3, <3>1 DEF ch
    <2> QED BY <2>7, <2>8, <2>9
  <1> QED BY <1>1, <1>2, <1>3 DEF Reads

\* a[^abc]*c
LEMMA ReadsANotAbcStarC ==
  ASSUME NEW text \in Seq(0 .. 3)
  PROVE  Reads([i \in 0 .. Len(text) |->
                  IF i = 0 THEN 0 ELSE IF Begun(text, i, 3) THEN 1
                  ELSE IF Ended(text, i, 3) THEN 3 ELSE 2], "a[^abc]*c", text)
  <1> DEFINE n == Len(text)
             State(i) == IF i = 0 THEN 0 ELSE IF Begun(text, i, 3) THEN 1
                         ELSE IF Ended(text, i, 3) THEN 3 ELSE 2
             q == [i \in 0 .. n |-> State(i)]
             A == Automaton("a[^abc]*c")
  <1>1. n \in Nat /\ \A i \in 1 .. n : text[i] \in 0 .. 3
    BY LenProperties
  <1>2. q \in [0 .. n -> 0 .. 4] /\ q[0] = 0
    BY <1>1
  <1>3. ASSUME NEW i \in 0 .. n - 1 PROVE q[i + 1] = A[q[i] + 1][text[i + 1] + 1]
    <2> DEFINE ch == text[i + 1]
    <2>1. i \in 0 .. n /\ i + 1 \in 0 .. n /\ i \in Nat /\ ch \in 0 .. 3 /\ i + 1 # 0
      BY <1>1
    <2>2. q[i] = State(i) /\ q[i + 1] = State(i + 1)
      BY <2>1
    <2>3. /\ A[1] = <<1, 2, 2, 2>> /\ A[2] = <<2, 2, 3, 1>> /\ A[3] = <<2, 2, 2, 2>> /\ A[4] = <<2, 2, 2, 2>>
      BY Automata
    <2>4. Begun(text, i + 1, 3) <=> (i = 0 /\ ch = 0) \/ (Begun(text, i, 3) /\ ch = 3)
      <3>1. i = 0 => ch = text[1]
        OBVIOUS
      <3> QED BY <2>1, <3>1, BegunNext
    <2>5. Ended(text, i + 1, 3) <=> Begun(text, i, 3) /\ ch = 2
      BY <2>1 DEF Ended, Begun
    <2>6. Begun(text, i, 3) => i # 0
      BY <2>1 DEF Begun
    <2> HIDE DEF q, n, A, ch
    <2>7. CASE i = 0
      <3>1. State(i) = 0 /\ State(i + 1) = IF ch = 0 THEN 1 ELSE 2
        BY <2>1, <2>4, <2>5, <2>6, <2>7
      <3> HIDE DEF State
      <3> QED BY <2>1, <2>2, <2>3, <3>1 DEF ch
    <2>8. CASE i # 0 /\ Begun(text, i, 3)
      <3>1. State(i) = 1 /\ State(i + 1) = IF ch = 3 THEN 1 ELSE IF ch = 2 THEN 3 ELSE 2
        BY <2>1, <2>4, <2>5, <2>8
      <3> HIDE DEF State
      <3> QED BY <2>1, <2>2, <2>3, <3>1 DEF ch
    <2>9. CASE i # 0 /\ ~Begun(text, i, 3)
      <3>1. State(i) \in {2, 3} /\ State(i + 1) = 2
        BY <2>1, <2>4, <2>5, <2>9
      <3> HIDE DEF State
      <3> QED BY <2>1, <2>2, <2>3, <3>1 DEF ch
    <2> QED BY <2>7, <2>8, <2>9
  <1> QED BY <1>1, <1>2, <1>3 DEF Reads

\* a.c
LEMMA ReadsADotC ==
  ASSUME NEW text \in Seq(0 .. 3)
  PROVE  Reads([i \in 0 .. Len(text) |-> IF i = 0 THEN 0
                  ELSE IF text[1] = 0 /\ i <= 2 THEN i
                  ELSE IF text[1] = 0 /\ i = 3 /\ text[3] = 2 THEN 3 ELSE 4], "a.c", text)
  <1> DEFINE n == Len(text)
             State(i) == IF i = 0 THEN 0
                  ELSE IF text[1] = 0 /\ i <= 2 THEN i
                  ELSE IF text[1] = 0 /\ i = 3 /\ text[3] = 2 THEN 3 ELSE 4
             q == [i \in 0 .. n |-> State(i)]
             A == Automaton("a.c")
  <1>1. n \in Nat /\ \A i \in 1 .. n : text[i] \in 0 .. 3
    BY LenProperties
  <1>2. q \in [0 .. n -> 0 .. 4] /\ q[0] = 0
    BY <1>1
  <1>3. ASSUME NEW i \in 0 .. n - 1 PROVE q[i + 1] = A[q[i] + 1][text[i + 1] + 1]
    <2> DEFINE ch == text[i + 1]
    <2>1. i \in 0 .. n /\ i + 1 \in 0 .. n /\ i \in Nat /\ ch \in 0 .. 3 /\ i + 1 # 0
      BY <1>1
    <2>2. q[i] = State(i) /\ q[i + 1] = State(i + 1)
      BY <2>1
    <2>3. /\ A[1] = <<1, 4, 4, 4>> /\ A[2] = <<2, 2, 2, 2>> /\ A[3] = <<4, 4, 3, 4>> /\ A[4] = <<4, 4, 4, 4>> /\ A[5] = <<4, 4, 4, 4>>
      BY Automata
    <2> DEFINE first == text[1]
    <2>4. i = 0 => ch = first
      OBVIOUS
    <2>5. i = 2 => ch = text[3]
      OBVIOUS
    <2> HIDE DEF q, n, A, ch, first
    <2>6. CASE i = 0
      <3>1. State(i) = 0 /\ State(i + 1) = IF ch = 0 THEN 1 ELSE 4
        BY <2>1, <2>4, <2>6 DEF first
      <3> HIDE DEF State
      <3> QED BY <2>1, <2>2, <2>3, <3>1 DEF ch
    <2>7. CASE i = 1 /\ first = 0
      <3>1. State(i) = 1 /\ State(i + 1) = 2
        BY <2>1, <2>7 DEF first
      <3> HIDE DEF State
      <3> QED BY <2>1, <2>2, <2>3, <3>1 DEF ch
    <2>8. CASE i = 2 /\ first = 0
      <3>1. State(i) = 2 /\ State(i + 1) = IF ch = 2 THEN 3 ELSE 4
        BY <2>1, <2>5, <2>8 DEF first
      <3> HIDE DEF State
      <3> QED BY <2>1, <2>2, <2>3, <3>1 DEF ch
    <2>9. CASE i > 2 \/ (i # 0 /\ first # 0)
      <3>1. State(i) \in {3, 4} /\ State(i + 1) = 4
        BY <2>1, <2>9 DEF first
      <3> HIDE DEF State
      <3> QED BY <2>1, <2>2, <2>3, <3>1 DEF ch
    <2>10. i = 0 \/ i = 1 \/ i = 2 \/ i > 2
      BY <2>1
    <2> QED BY <2>6, <2>7, <2>8, <2>9, <2>10
  <1> QED BY <1>1, <1>2, <1>3 DEF Reads

\* ab+c
LEMMA ReadsABPlusC ==
  ASSUME NEW text \in Seq(0 .. 3)
  PROVE  Reads([i \in 0 .. Len(text) |-> IF i = 0 THEN 0
                  ELSE IF Begun(text, i, 1) THEN (IF i = 1 THEN 1 ELSE 2)
                  ELSE IF Ended(text, i, 1) /\ i >= 3 THEN 3 ELSE 4], "ab+c", text)
  <1> DEFINE n == Len(text)
             State(i) == IF i = 0 THEN 0
                  ELSE IF Begun(text, i, 1) THEN (IF i = 1 THEN 1 ELSE 2)
                  ELSE IF Ended(text, i, 1) /\ i >= 3 THEN 3 ELSE 4
             q == [i \in 0 .. n |-> State(i)]
             A == Automaton("ab+c")
  <1>1. n \in Nat /\ \A i \in 1 .. n : text[i] \in 0 .. 3
    BY LenProperties
  <1>2. q \in [0 .. n -> 0 .. 4] /\ q[0] = 0
    BY <1>1
  <1>3. ASSUME NEW i \in 0 .. n - 1 PROVE q[i + 1] = A[q[i] + 1][text[i + 1] + 1]
    <2> DEFINE ch == text[i + 1]
    <2>1. i \in 0 .. n /\ i + 1 \in 0 .. n /\ i \in Nat /\ ch \in 0 .. 3 /\ i + 1 # 0
      BY <1>1
    <2>2. q[i] = State(i) /\ q[i + 1] = State(i + 1)
      BY <2>1
    <2>3. /\ A[1] = <<1, 4, 4, 4>> /\ A[2] = <<4, 2, 4, 4>> /\ A[3] = <<4, 2, 3, 4>> /\ A[4] = <<4, 4, 4, 4>> /\ A[5] = <<4, 4, 4, 4>>
      BY Automata
    <2>4. Begun(text, i + 1, 1) <=> (i = 0 /\ ch = 0) \/ (Begun(text, i, 1) /\ ch = 1)
      <3>1. i = 0 => ch = text[1]
        OBVIOUS
      <3> QED BY <2>1, <3>1, BegunNext
    <2>5. Ended(text, i + 1, 1) <=> Begun(text, i, 1) /\ ch = 2
      BY <2>1 DEF Ended, Begun
    <2>6. Begun(text, i, 1) => i # 0
      BY <2>1 DEF Begun
    <2> HIDE DEF q, n, A, ch
    <2>7. CASE i = 0
      <3>1. State(i) = 0 /\ State(i + 1) = IF ch = 0 THEN 1 ELSE 4
        BY <2>1, <2>4, <2>5, <2>6, <2>7
      <3> HIDE DEF State
      <3> QED BY <2>1, <2>2, <2>3, <3>1 DEF ch
    <2>8. CASE i = 1 /\ Begun(text, i, 1)
      <3>1. State(i) = 1 /\ State(i + 1) = IF ch = 1 THEN 2 ELSE 4
        BY <2>1, <2>4, <2>5, <2>8
      <3> HIDE DEF State
      <3> QED BY <2>1, <2>2, <2>3, <3>1 DEF ch
    <2>9. CASE i >= 2 /\ Begun(text, i, 1)
      <3>1. State(i) = 2 /\ State(i + 1) = IF ch = 1 THEN 2 ELSE IF ch = 2 THEN 3 ELSE 4
        BY <2>1, <2>4, <2>5, <2>9
      <3> HIDE DEF State
      <3> QED BY <2>1, <2>2, <2>3, <3>1 DEF ch
    <2>10. CASE i # 0 /\ ~Begun(text, i, 1)
      <3>1. State(i) \in {3, 4} /\ State(i + 1) = 4
        BY <2>1, <2>4, <2>5, <2>10
      <3> HIDE DEF State
      <3> QED BY <2>1, <2>2, <2>3, <3>1 DEF ch
    <2> QED BY <2>1, <2>7, <2>8, <2>9, <2>10
  <1> QED BY <1>1, <1>2, <1>3 DEF Reads

\* The four oblivious automata accept exactly the texts of their patterns, of
\* every length there is room for, however much room there is.
THEOREM PatternsMatch ==
  ASSUME NEW text \in Seq(0 .. 3), Len(text) <= kMaxTextLen
  PROVE  MatchesAgree(text)
  <1> DEFINE n == Len(text)
             Framed(middle) == n >= 2 /\ text[1] = 0 /\ text[n] = 2 /\ \A i \in 2 .. n - 1 : text[i] \in middle
  <1>1. n \in Nat /\ n \in 0 .. n /\ \A i \in 1 .. n : text[i] \in 0 .. 3
    BY LenProperties
  <1>2. ASSUME NEW m, m # 2 PROVE Ended(text, n, m) <=> Framed({m})
    BY <1>1 DEF Ended, Begun
  <1>3. ASSUME NEW m, m # 2 PROVE ~(Begun(text, n, m) /\ Ended(text, n, m))
    BY <1>1, <1>3 DEF Ended, Begun
  <1>4. secret_match("ab*c", text) <=> Framed({1})
    <2> DEFINE q == [i \in 0 .. Len(text) |->
                  IF i = 0 THEN 0 ELSE IF Begun(text, i, 1) THEN 1
                  ELSE IF Ended(text, i, 1) THEN 3 ELSE 2]
    <2>1. secret_match("ab*c", text) <=> q[n] = 3
      <3>1. Reads(q, "ab*c", text)
        BY ReadsABStarC
      <3> HIDE DEF q
      <3> QED BY <3>1, SecretMatchIs
    <2>2. q[n] = 3 <=> n # 0 /\ ~Begun(text, n, 1) /\ Ended(text, n, 1)
      BY <1>1
    <2>3. Ended(text, n, 1) => n # 0
      BY <1>1 DEF Ended
    <2>4. (Ended(text, n, 1) <=> Framed({1})) /\ ~(Begun(text, n, 1) /\ Ended(text, n, 1))
      BY <1>2, <1>3
    <2> QED BY <2>1, <2>2, <2>3, <2>4
  <1>5. secret_match("a[^abc]*c", text) <=> Framed({3})
    <2> DEFINE q == [i \in 0 .. Len(text) |->
                  IF i = 0 THEN 0 ELSE IF Begun(text, i, 3) THEN 1
                  ELSE IF Ended(text, i, 3) THEN 3 ELSE 2]
    <2>1. secret_match("a[^abc]*c", text) <=> q[n] = 3
      <3>1. Reads(q, "a[^abc]*c", text)
        BY ReadsANotAbcStarC
      <3> HIDE DEF q
      <3> QED BY <3>1, SecretMatchIs
    <2>2. q[n] = 3 <=> n # 0 /\ ~Begun(text, n, 3) /\ Ended(text, n, 3)
      BY <1>1
    <2>3. Ended(text, n, 3) => n # 0
      BY <1>1 DEF Ended
    <2>4. (Ended(text, n, 3) <=> Framed({3})) /\ ~(Begun(text, n, 3) /\ Ended(text, n, 3))
      BY <1>2, <1>3
    <2> QED BY <2>1, <2>2, <2>3, <2>4
  <1>6. secret_match("ab+c", text) <=> Framed({1}) /\ n >= 3
    <2> DEFINE q == [i \in 0 .. Len(text) |-> IF i = 0 THEN 0
                  ELSE IF Begun(text, i, 1) THEN (IF i = 1 THEN 1 ELSE 2)
                  ELSE IF Ended(text, i, 1) /\ i >= 3 THEN 3 ELSE 4]
    <2>1. secret_match("ab+c", text) <=> q[n] = 3
      <3>1. Reads(q, "ab+c", text)
        BY ReadsABPlusC
      <3> HIDE DEF q
      <3> QED BY <3>1, SecretMatchIs
    <2>2. q[n] = 3 <=> n # 0 /\ ~Begun(text, n, 1) /\ Ended(text, n, 1) /\ n >= 3
      BY <1>1
    <2>3. n >= 3 => n # 0
      BY <1>1
    <2>4. (Ended(text, n, 1) <=> Framed({1})) /\ ~(Begun(text, n, 1) /\ Ended(text, n, 1))
      BY <1>2, <1>3
    <2> QED BY <2>1, <2>2, <2>3, <2>4
  <1>7. secret_match("a.c", text) <=> Framed(0 .. 3) /\ n = 3
    <2> DEFINE q == [i \in 0 .. Len(text) |-> IF i = 0 THEN 0
                  ELSE IF text[1] = 0 /\ i <= 2 THEN i
                  ELSE IF text[1] = 0 /\ i = 3 /\ text[3] = 2 THEN 3 ELSE 4]
    <2>1. secret_match("a.c", text) <=> q[n] = 3
      <3>1. Reads(q, "a.c", text)
        BY ReadsADotC
      <3> HIDE DEF q
      <3> QED BY <3>1, SecretMatchIs
    <2>2. q[n] = 3 <=> text[1] = 0 /\ n = 3 /\ text[3] = 2
      BY <1>1
    <2>3. Framed(0 .. 3) /\ n = 3 <=> text[1] = 0 /\ n = 3 /\ text[3] = 2
      BY <1>1
    <2> QED BY <2>1, <2>2, <2>3
  <1> QED BY <1>4, <1>5, <1>6, <1>7 DEF MatchesAgree

----------------------------------------------------------------------------
(* The longest palindrome *)

\* What is_better_choice compares.
Offers == [len : Nat, start : Nat]
\* x is better than all others of S.
IsBest(x, S) == x \in S /\ \A y \in S : y = x \/ Better(x, y)

\* Only one choice is best.
LEMMA BestIs ==
  ASSUME NEW S \in SUBSET Offers, NEW x, IsBest(x, S)
  PROVE  Best(S) = x
  <1> DEFINE b == CHOOSE z \in S : \A y \in S : y = z \/ Better(z, y)
  <1>1. b \in S /\ \A y \in S : y = b \/ Better(b, y)
    BY DEF IsBest
  <1>2. b = x
    <2> HIDE DEF b
    <2>1. x \in S /\ (b = x \/ Better(x, b)) /\ (x = b \/ Better(b, x))
      BY <1>1 DEF IsBest
    <2>2. x.len \in Nat /\ x.start \in Nat /\ b.len \in Nat /\ b.start \in Nat
      BY <1>1, <2>1 DEF Offers
    <2> QED BY <2>1, <2>2 DEF Better
  <1> QED BY <1>2 DEF Best

\* Offering one more choice keeps the best.
LEMMA BestGrows ==
  ASSUME NEW S \in SUBSET Offers, NEW x, IsBest(x, S), NEW c \in Offers
  PROVE  IsBest(BetterOf(c, x), S \cup {c})
  <1>1. x \in Offers /\ x \in S
    BY DEF IsBest
  <1>2. x.len \in Nat /\ x.start \in Nat /\ c.len \in Nat /\ c.start \in Nat
    BY <1>1 DEF Offers
  <1>3. CASE Better(c, x)
    <2>1. ASSUME NEW y \in S PROVE Better(c, y)
      <3>1. y.len \in Nat /\ y.start \in Nat
        BY DEF Offers
      <3>2. y = x \/ Better(x, y)
        BY DEF IsBest
      <3> QED BY <1>2, <1>3, <3>1, <3>2 DEF Better
    <2> QED BY <1>3, <2>1 DEF IsBest, BetterOf
  <1>4. CASE ~Better(c, x)
    <2>1. c = x \/ Better(x, c)
      <3>1. c = [len |-> c.len, start |-> c.start] /\ x = [len |-> x.len, start |-> x.start]
        BY <1>1 DEF Offers
      <3>2. CASE c.len = x.len /\ c.start = x.start
        BY <3>1, <3>2
      <3>3. CASE ~(c.len = x.len /\ c.start = x.start)
        BY <1>2, <1>4, <3>3 DEF Better
      <3> QED BY <3>2, <3>3
    <2> QED BY <1>1, <1>4, <2>1 DEF IsBest, BetterOf
  <1> QED BY <1>3, <1>4

\* The len characters after the first a read the same backwards.
IsPal(s, a, len) == \A h \in 0 .. (len \div 2) - 1 : s[a + h + 1] = s[a + len - h]

\* It is enough to compare the first half with the second.
LEMMA PalIs ==
  ASSUME NEW s, NEW a \in Nat, NEW len \in Nat
  PROVE  IsPal(s, a, len) <=> \A i \in a + 1 .. a + len : s[i] = s[a + (a + len) + 1 - i]
  <1> DEFINE half == len \div 2
  <1>1. half \in Nat /\ 2 * half <= len /\ len <= 2 * half + 1
    OBVIOUS
  <1> HIDE DEF half
  <1>2. ASSUME IsPal(s, a, len), NEW i \in a + 1 .. a + len PROVE s[i] = s[a + (a + len) + 1 - i]
    <2> DEFINE h == i - a - 1
               k == len - 1 - h
    <2>0. \A j \in 0 .. half - 1 : s[a + j + 1] = s[a + len - j]
      BY <1>2 DEF IsPal, half
    <2>1. h \in 0 .. len - 1 /\ k \in 0 .. len - 1 /\ i = a + h + 1 /\ i = a + len - k
          /\ a + (a + len) + 1 - i = a + len - h /\ a + len - h = a + k + 1
      OBVIOUS
    <2>2. h \in 0 .. half - 1 \/ k \in 0 .. half - 1 \/ h = k
      BY <1>1, <2>1
    <2> HIDE DEF h, k
    <2>3. CASE h \in 0 .. half - 1
      BY <2>0, <2>1, <2>3
    <2>4. CASE k \in 0 .. half - 1
      BY <2>0, <2>1, <2>4
    <2>5. CASE h = k
      BY <2>1, <2>5
    <2> QED BY <2>2, <2>3, <2>4, <2>5
  <1>3. ASSUME \A i \in a + 1 .. a + len : s[i] = s[a + (a + len) + 1 - i] PROVE IsPal(s, a, len)
    <2> SUFFICES ASSUME NEW h \in 0 .. half - 1 PROVE s[a + h + 1] = s[a + len - h]
      BY DEF IsPal, half
    <2>1. a + h + 1 \in a + 1 .. a + len /\ a + (a + len) + 1 - (a + h + 1) = a + len - h
      BY <1>1
    <2> QED BY <1>3, <2>1
  <1> QED BY <1>2, <1>3

\* The palindromes of s among the pairs of a start and a length in D, or none
Palindromes(s, D) ==
  {[len |-> p[2], start |-> p[1]] : p \in {p \in D : IsPal(s, p[1], p[2])}} \cup {[len |-> 0, start |-> Len(s)]}
\* The pairs the outer loop has tried before turn a, and k more
Tried(n, a, k) ==
  {p \in (0 .. n) \X (1 .. n) : (p[1] < a /\ p[1] + p[2] <= n) \/ (p[1] = a /\ p[2] <= k)}

\* What the loops over the pairs offer are choices.
LEMMA PalindromeOffers ==
  ASSUME NEW s, Len(s) \in Nat, NEW D \in SUBSET (Nat \X Nat)
  PROVE  Palindromes(s, D) \in SUBSET Offers
  BY DEF Palindromes, Offers

\* One more pair tried
LEMMA PalindromesMore ==
  ASSUME NEW s, NEW D, NEW a, NEW l
  PROVE  /\ IsPal(s, a, l) => Palindromes(s, D \cup {<<a, l>>}) = Palindromes(s, D) \cup {[len |-> l, start |-> a]}
         /\ ~IsPal(s, a, l) => Palindromes(s, D \cup {<<a, l>>}) = Palindromes(s, D)
  <1> DEFINE Q(E) == {p \in E : IsPal(s, p[1], p[2])}
             Offer(p) == [len |-> p[2], start |-> p[1]]
             none == {[len |-> 0, start |-> Len(s)]}
             F(E) == {Offer(p) : p \in E}
  <1>1. IsPal(s, a, l) => Q(D \cup {<<a, l>>}) = Q(D) \cup {<<a, l>>}
    OBVIOUS
  <1>2. ~IsPal(s, a, l) => Q(D \cup {<<a, l>>}) = Q(D)
    OBVIOUS
  <1>3. Offer(<<a, l>>) = [len |-> l, start |-> a]
    OBVIOUS
  <1>4. \A E : Palindromes(s, E) = F(Q(E)) \cup none
    BY DEF Palindromes
  <1> HIDE DEF Q, Offer, none
  <1>5. F(Q(D) \cup {<<a, l>>}) = F(Q(D)) \cup {Offer(<<a, l>>)}
    OBVIOUS
  <1> HIDE DEF F
  <1> QED BY <1>1, <1>2, <1>3, <1>4, <1>5

\* The row of longest_palindrome that starts at a
PalRow(s, a, t) ==
  For(Len(s) - a, t, LAMBDA u, k :
      LET len == k + 1
          is_pal == \A h \in 0 .. (len \div 2) - 1 : s[a + h + 1] = s[a + len - h]
      IN  IF is_pal THEN BetterOf([len |-> len, start |-> a], u) ELSE u)

\* A row keeps the best of the palindromes tried, its own included.
LEMMA PalRowIs ==
  ASSUME NEW s, NEW n \in Nat, n = Len(s), NEW a \in 0 .. n - 1,
         NEW t, IsBest(t, Palindromes(s, Tried(n, a, 0)))
  PROVE  IsBest(PalRow(s, a, t), Palindromes(s, Tried(n, a + 1, 0)))
  <1> DEFINE count == Len(s) - a
             S == Offers
             start == t
             Turn(u, k) == IF IsPal(s, a, k + 1) THEN BetterOf([len |-> k + 1, start |-> a], u) ELSE u
             IsLoop(f) == f = [i \in 0 .. count |-> IF i <= 0 THEN start ELSE Turn(f[i - 1], i - 1)]
             loop == CHOOSE f : IsLoop(f)
             turn == [p \in S \X (0 .. count - 1) |-> Turn(p[1], p[2])]
             P(k) == Palindromes(s, Tried(n, a, k))
  <1>1. PalRow(s, a, t) = loop[count]
    BY DEF PalRow, For, IsPal
  <1>2. count \in Nat /\ count = n - a /\ a \in Nat
    OBVIOUS
  <1>3. \A k \in 0 .. count : P(k) \in SUBSET Offers
    <2>1. \A k \in 0 .. count : Tried(n, a, k) \in SUBSET (Nat \X Nat)
      BY DEF Tried
    <2> QED BY <2>1, PalindromeOffers
  <1>4. start \in S
    BY <1>2, <1>3 DEF IsBest
  <1>5. \A u \in S, k \in 0 .. count - 1 : Turn(u, k) \in S
    BY <1>2 DEF BetterOf, Offers
  <1>6. \A k \in 0 .. count - 1 : Tried(n, a, k + 1) = Tried(n, a, k) \cup {<<a, k + 1>>}
    BY <1>2 DEF Tried
  <1>7. ASSUME NEW k \in 0 .. count - 1, NEW u, IsBest(u, P(k)) PROVE IsBest(Turn(u, k), P(k + 1))
    <2> DEFINE c == [len |-> k + 1, start |-> a]
    <2>1. Tried(n, a, k + 1) = Tried(n, a, k) \cup {<<a, k + 1>>}
      BY <1>6
    <2>2. CASE IsPal(s, a, k + 1)
      <3> HIDE DEF P, c, Turn
      <3>1. P(k + 1) = P(k) \cup {c}
        BY <2>1, <2>2, PalindromesMore DEF P, c
      <3>2. c \in Offers /\ P(k) \in SUBSET Offers
        BY <1>2, <1>3 DEF Offers, c
      <3>3. Turn(u, k) = BetterOf(c, u)
        BY <2>2 DEF Turn, c
      <3> QED BY <1>7, <3>1, <3>2, <3>3, BestGrows
    <2>3. CASE ~IsPal(s, a, k + 1)
      <3> HIDE DEF P, Turn
      <3>1. P(k + 1) = P(k)
        BY <2>1, <2>3, PalindromesMore DEF P
      <3>2. Turn(u, k) = u
        BY <2>3 DEF Turn
      <3> QED BY <1>7, <3>1, <3>2
    <2> QED BY <2>2, <2>3
  <1>8. P(0) = Palindromes(s, Tried(n, a, 0)) /\ IsBest(start, P(0))
    OBVIOUS
  <1>9. Tried(n, a, count) = Tried(n, a + 1, 0)
    BY <1>2 DEF Tried
  <1>10. P(count) = Palindromes(s, Tried(n, a + 1, 0))
    BY <1>9
  <1> HIDE DEF P
  <1> HIDE DEF Turn, S, start, count
  <1>11. PICK g : IsRun(g, count, S, start, turn)
    <2>1. turn \in [S \X (0 .. count - 1) -> S]
      BY <1>5
    <2> HIDE DEF turn
    <2> QED BY <1>2, <1>4, <2>1, LoopRuns
  <1>12. IsLoop(g)
    <2> DEFINE turned == [i \in 0 .. count |-> IF i <= 0 THEN start ELSE Turn(g[i - 1], i - 1)]
    <2>1. g \in [0 .. count -> S]
      BY <1>11 DEF IsRun
    <2>2. g = [i \in 0 .. count |-> IF i <= 0 THEN start ELSE turn[<<g[i - 1], i - 1>>]]
      <3> HIDE DEF turn
      <3> QED BY <1>11 DEF IsRun
    <2>3. ASSUME NEW i \in 0 .. count PROVE g[i] = turned[i]
      <3>1. CASE i = 0
        BY <2>2, <3>1
      <3>2. CASE i # 0
        <4>1. i - 1 \in 0 .. count - 1 /\ i - 1 \in 0 .. count /\ ~(i <= 0)
          BY <1>2, <3>2
        <4>2. g[i] = turn[<<g[i - 1], i - 1>>]
          <5> HIDE DEF turn
          <5> QED BY <2>2, <4>1
        <4>3. g[i - 1] \in S
          BY <2>1, <4>1
        <4> QED BY <4>1, <4>2, <4>3
      <3> QED BY <3>1, <3>2
    <2> HIDE DEF turn
    <2> QED BY <2>1, <2>3
  <1>13. IsLoop(loop)
    <2> HIDE DEF IsLoop
    <2> QED BY <1>12
  <1> HIDE DEF loop, turn
  <1>14. loop[0] = start /\ \A i \in 0 .. count - 1 : loop[i + 1] = Turn(loop[i], i)
    BY <1>2, <1>13
  <1>15. \A k \in 0 .. count : IsBest(loop[k], P(k))
    <2> DEFINE T == {k \in 0 .. count : IsBest(loop[k], P(k))}
    <2>1. 0 \in T
      BY <1>2, <1>8, <1>14
    <2>2. \A k \in 0 .. count - 1 : k \in T => k + 1 \in T
      BY <1>2, <1>7, <1>14
    <2>3. \A k \in 0 .. count : k \in T
      <3> HIDE DEF T
      <3> QED BY <1>2, <2>1, <2>2, TurnInduction
    <2> QED BY <2>3
  <1>16. IsBest(loop[count], P(count))
    BY <1>2, <1>15
  <1> QED BY <1>1, <1>10, <1>16

\* A row turns an offer into an offer.
LEMMA PalRowStays ==
  ASSUME NEW s, Len(s) \in Nat, NEW a \in 0 .. Len(s) - 1, NEW t \in Offers
  PROVE  PalRow(s, a, t) \in Offers
  <1> DEFINE count == Len(s) - a
             S == Offers
             start == t
             Turn(u, k) == IF IsPal(s, a, k + 1) THEN BetterOf([len |-> k + 1, start |-> a], u) ELSE u
             IsLoop(f) == f = [i \in 0 .. count |-> IF i <= 0 THEN start ELSE Turn(f[i - 1], i - 1)]
             loop == CHOOSE f : IsLoop(f)
             turn == [p \in S \X (0 .. count - 1) |-> Turn(p[1], p[2])]
  <1>1. PalRow(s, a, t) = loop[count]
    BY DEF PalRow, For, IsPal
  <1>2. count \in Nat /\ a \in Nat
    OBVIOUS
  <1>3. start \in S
    OBVIOUS
  <1>4. \A u \in S, k \in 0 .. count - 1 : Turn(u, k) \in S
    BY <1>2 DEF BetterOf, Offers
  <1> HIDE DEF Turn, S, start, count
  <1>5. PICK g : IsRun(g, count, S, start, turn)
    <2>1. turn \in [S \X (0 .. count - 1) -> S]
      BY <1>4
    <2> HIDE DEF turn
    <2> QED BY <1>2, <1>3, <2>1, LoopRuns
  <1>6. IsLoop(g)
    <2> DEFINE turned == [i \in 0 .. count |-> IF i <= 0 THEN start ELSE Turn(g[i - 1], i - 1)]
    <2>1. g \in [0 .. count -> S]
      BY <1>5 DEF IsRun
    <2>2. g = [i \in 0 .. count |-> IF i <= 0 THEN start ELSE turn[<<g[i - 1], i - 1>>]]
      <3> HIDE DEF turn
      <3> QED BY <1>5 DEF IsRun
    <2>3. ASSUME NEW i \in 0 .. count PROVE g[i] = turned[i]
      <3>1. CASE i = 0
        BY <2>2, <3>1
      <3>2. CASE i # 0
        <4>1. i - 1 \in 0 .. count - 1 /\ i - 1 \in 0 .. count /\ ~(i <= 0)
          BY <1>2, <3>2
        <4>2. g[i] = turn[<<g[i - 1], i - 1>>]
          <5> HIDE DEF turn
          <5> QED BY <2>2, <4>1
        <4>3. g[i - 1] \in S
          BY <2>1, <4>1
        <4> QED BY <4>1, <4>2, <4>3
      <3> QED BY <3>1, <3>2
    <2> HIDE DEF turn
    <2> QED BY <2>1, <2>3
  <1>7. IsLoop(loop)
    <2> HIDE DEF IsLoop
    <2> QED BY <1>6
  <1> HIDE DEF loop, turn
  <1>8. loop[0] = start /\ \A i \in 0 .. count - 1 : loop[i + 1] = Turn(loop[i], i)
    BY <1>2, <1>7
  <1>9. \A k \in 0 .. count : loop[k] \in S
    <2> DEFINE T == {k \in 0 .. count : loop[k] \in S}
    <2>1. 0 \in T
      BY <1>2, <1>3, <1>8
    <2>2. \A k \in 0 .. count - 1 : k \in T => k + 1 \in T
      BY <1>2, <1>4, <1>8
    <2>3. \A k \in 0 .. count : k \in T
      <3> HIDE DEF T
      <3> QED BY <1>2, <2>1, <2>2, TurnInduction
    <2> QED BY <2>3
  <1> QED BY <1>1, <1>2, <1>9 DEF S

\* longest_palindrome finds the longest, and the first of these.
THEOREM LongestPalindrome ==
  ASSUME NEW s, Len(s) \in Nat
  PROVE  PalindromeAgrees(s)
  <1> DEFINE n == Len(s)
  <1> DEFINE count == Len(s)
             S == Offers
             start == [len |-> 0, start |-> Len(s)]
             Turn(t, a) == PalRow(s, a, t)
             IsLoop(f) == f = [i \in 0 .. count |-> IF i <= 0 THEN start ELSE Turn(f[i - 1], i - 1)]
             loop == CHOOSE f : IsLoop(f)
             turn == [p \in S \X (0 .. count - 1) |-> Turn(p[1], p[2])]
             P(a) == Palindromes(s, Tried(n, a, 0))
             found == {[len |-> p[2] - p[1], start |-> p[1]] : p \in {p \in (0 .. Len(s)) \X (0 .. Len(s)) :
                         p[1] < p[2] /\ \A i \in p[1] + 1 .. p[2] : s[i] = s[p[1] + p[2] + 1 - i]}}
  <1>1. longest_palindrome(s) = loop[count]
    BY DEF longest_palindrome, PalRow, For
  <1>2. count \in Nat /\ n \in Nat /\ count = n
    OBVIOUS
  <1>3. \A a \in 0 .. n : P(a) \in SUBSET Offers
    <2>1. \A a \in 0 .. n : Tried(n, a, 0) \in SUBSET (Nat \X Nat)
      BY DEF Tried
    <2> QED BY <2>1, PalindromeOffers
  <1>4. start \in S
    BY DEF Offers
  <1>5. \A u \in S, a \in 0 .. count - 1 : Turn(u, a) \in S
    <2> SUFFICES ASSUME NEW u \in S, NEW a \in 0 .. count - 1 PROVE Turn(u, a) \in S
      OBVIOUS
    <2> QED BY PalRowStays
  <1>6. ASSUME NEW a \in 0 .. count - 1, NEW u, IsBest(u, P(a)) PROVE IsBest(Turn(u, a), P(a + 1))
    BY <1>2, <1>6, PalRowIs
  <1>7. IsBest(start, P(0))
    <2>1. Tried(n, 0, 0) = {}
      BY <1>2 DEF Tried
    <2>2. P(0) = {start}
      BY <2>1 DEF Palindromes
    <2> HIDE DEF P, start
    <2> QED BY <2>2 DEF IsBest
  <1>8. P(n) = found \cup {start}
    <2> DEFINE pal == {[len |-> p[2], start |-> p[1]] : p \in {p \in Tried(n, n, 0) : IsPal(s, p[1], p[2])}}
    <2>1. ASSUME NEW x \in pal PROVE x \in found
      <3>1. PICK p \in Tried(n, n, 0) : IsPal(s, p[1], p[2]) /\ x = [len |-> p[2], start |-> p[1]]
        OBVIOUS
      <3>2. p[1] \in Nat /\ p[2] \in Nat /\ p[2] >= 1 /\ p[1] + p[2] <= n
        BY <1>2, <3>1 DEF Tried
      <3> DEFINE q == <<p[1], p[1] + p[2]>>
      <3>3. q \in (0 .. n) \X (0 .. n) /\ q[1] < q[2] /\ q[2] - q[1] = p[2] /\ q[1] = p[1]
        BY <1>2, <3>2
      <3>4. \A i \in p[1] + 1 .. p[1] + p[2] : s[i] = s[p[1] + (p[1] + p[2]) + 1 - i]
        BY <3>1, <3>2, PalIs
      <3>5. \A i \in q[1] + 1 .. q[2] : s[i] = s[q[1] + q[2] + 1 - i]
        BY <3>4
      <3> HIDE DEF q
      <3> QED BY <3>1, <3>3, <3>5
    <2>2. ASSUME NEW x \in found PROVE x \in pal
      <3>1. PICK p \in (0 .. n) \X (0 .. n) :
              /\ p[1] < p[2] /\ x = [len |-> p[2] - p[1], start |-> p[1]]
              /\ \A i \in p[1] + 1 .. p[2] : s[i] = s[p[1] + p[2] + 1 - i]
        OBVIOUS
      <3> DEFINE q == <<p[1], p[2] - p[1]>>
      <3>2. p[1] \in Nat /\ p[2] - p[1] \in Nat /\ p[1] + (p[2] - p[1]) = p[2]
        BY <1>2, <3>1
      <3>3. q \in Tried(n, n, 0) /\ q[1] = p[1] /\ q[2] = p[2] - p[1]
        BY <1>2, <3>1 DEF Tried
      <3>4. IsPal(s, p[1], p[2] - p[1])
        <4> DEFINE a == p[1]
                   len == p[2] - p[1]
        <4>1. \A i \in a + 1 .. a + len : s[i] = s[a + (a + len) + 1 - i]
          BY <3>1, <3>2
        <4> HIDE DEF a, len
        <4>2. a \in Nat /\ len \in Nat
          BY <3>2 DEF a, len
        <4>3. IsPal(s, a, len)
          BY <4>1, <4>2, PalIs
        <4> QED BY <4>3 DEF a, len
      <3>5. x = [len |-> q[2], start |-> q[1]] /\ IsPal(s, q[1], q[2])
        BY <3>1, <3>3, <3>4
      <3> HIDE DEF q
      <3> QED BY <3>3, <3>5
    <2> HIDE DEF found
    <2> QED BY <2>1, <2>2 DEF Palindromes
  <1> HIDE DEF P
  <1> HIDE DEF Turn, S, start, count
  <1>9. PICK g : IsRun(g, count, S, start, turn)
    <2>1. turn \in [S \X (0 .. count - 1) -> S]
      BY <1>5
    <2> HIDE DEF turn
    <2> QED BY <1>2, <1>4, <2>1, LoopRuns
  <1>10. IsLoop(g)
    <2> DEFINE turned == [i \in 0 .. count |-> IF i <= 0 THEN start ELSE Turn(g[i - 1], i - 1)]
    <2>1. g \in [0 .. count -> S]
      BY <1>9 DEF IsRun
    <2>2. g = [i \in 0 .. count |-> IF i <= 0 THEN start ELSE turn[<<g[i - 1], i - 1>>]]
      <3> HIDE DEF turn
      <3> QED BY <1>9 DEF IsRun
    <2>3. ASSUME NEW i \in 0 .. count PROVE g[i] = turned[i]
      <3>1. CASE i = 0
        BY <2>2, <3>1
      <3>2. CASE i # 0
        <4>1. i - 1 \in 0 .. count - 1 /\ i - 1 \in 0 .. count /\ ~(i <= 0)
          BY <1>2, <3>2
        <4>2. g[i] = turn[<<g[i - 1], i - 1>>]
          <5> HIDE DEF turn
          <5> QED BY <2>2, <4>1
        <4>3. g[i - 1] \in S
          BY <2>1, <4>1
        <4> QED BY <4>1, <4>2, <4>3
      <3> QED BY <3>1, <3>2
    <2> HIDE DEF turn
    <2> QED BY <2>1, <2>3
  <1>11. IsLoop(loop)
    <2> HIDE DEF IsLoop
    <2> QED BY <1>10
  <1> HIDE DEF loop, turn
  <1>12. loop[0] = start /\ \A i \in 0 .. count - 1 : loop[i + 1] = Turn(loop[i], i)
    BY <1>2, <1>11
  <1>13. \A a \in 0 .. count : IsBest(loop[a], P(a))
    <2> DEFINE T == {a \in 0 .. count : IsBest(loop[a], P(a))}
    <2>1. 0 \in T
      BY <1>2, <1>7, <1>12
    <2>2. \A a \in 0 .. count - 1 : a \in T => a + 1 \in T
      BY <1>2, <1>6, <1>12
    <2>3. \A a \in 0 .. count : a \in T
      <3> HIDE DEF T
      <3> QED BY <1>2, <2>1, <2>2, TurnInduction
    <2> QED BY <2>3
  <1>14. IsBest(loop[count], found \cup {start}) /\ found \cup {start} \in SUBSET Offers
    <2> HIDE DEF found, n
    <2>1. n \in 0 .. n /\ n \in 0 .. count
      BY <1>2
    <2>2. P(n) \in SUBSET Offers /\ IsBest(loop[n], P(n))
      BY <1>3, <1>13, <2>1
    <2> QED BY <1>2, <1>8, <2>2
  <1>15. Best(found \cup {start}) = loop[count]
    <2> HIDE DEF found
    <2> QED BY <1>14, BestIs
  <1> QED BY <1>1, <1>15 DEF PalindromeAgrees, start

----------------------------------------------------------------------------
(* Sums *)

\* P[i] is the sum of the first i values.
IsSums(P, s) ==
  /\ P \in [0 .. Len(s) -> Int] /\ P[0] = 0
  /\ \A i \in 0 .. Len(s) - 1 : P[i + 1] = P[i] + s[i + 1]

\* Every sequence of integers has its partial sums.
LEMMA SumsExist ==
  ASSUME NEW s \in Seq(Int)
  PROVE  \E P : IsSums(P, s)
  <1> DEFINE n == Len(s)
             turn == [p \in Int \X (0 .. n - 1) |-> p[1] + s[p[2] + 1]]
  <1>1. n \in Nat /\ \A i \in 0 .. n - 1 : s[i + 1] \in Int
    BY LenProperties
  <1>2. turn \in [Int \X (0 .. n - 1) -> Int]
    <2> HIDE DEF n
    <2> QED BY <1>1
  <1>3. PICK P : IsRun(P, n, Int, 0, turn)
    <2> HIDE DEF n, turn
    <2>1. 0 \in Int
      OBVIOUS
    <2> QED BY <1>1, <1>2, <2>1, LoopRuns
  <1>4. P \in [0 .. n -> Int] /\ P = [i \in 0 .. n |-> IF i <= 0 THEN 0 ELSE turn[<<P[i - 1], i - 1>>]]
    <2> HIDE DEF turn, n
    <2> QED BY <1>3 DEF IsRun
  <1>5. P[0] = 0
    BY <1>1, <1>4
  <1>6. ASSUME NEW i \in 0 .. n - 1 PROVE P[i + 1] = P[i] + s[i + 1]
    <2>1. i + 1 \in 0 .. n /\ i \in 0 .. n /\ ~(i + 1 <= 0) /\ (i + 1) - 1 = i
      BY <1>1
    <2>2. P[i + 1] = turn[<<P[i], i>>]
      <3> HIDE DEF turn, n
      <3> QED BY <1>4, <2>1
    <2>3. P[i] \in Int
      BY <1>4, <2>1
    <2> QED BY <2>2, <2>3
  <1>7. IsSums(P, s)
    BY <1>4, <1>5, <1>6 DEF IsSums
  <1> QED BY <1>7

\* Total is the last of them.
LEMMA TotalIs ==
  ASSUME NEW s, Len(s) \in Nat, NEW P, IsSums(P, s)
  PROVE  Total(s) = P[Len(s)]
  <1> DEFINE count == Len(s)
             start == 0
             Turn(t, i) == t + s[i + 1]
             IsLoop(f) == f = [i \in 0 .. count |-> IF i <= 0 THEN start ELSE Turn(f[i - 1], i - 1)]
             loop == CHOOSE f : IsLoop(f)
  <1>1. Total(s) = loop[count]
    BY DEF Total, For
  <1>2. count \in Nat
    OBVIOUS
  <1>3. P[0] = start
    BY DEF IsSums
  <1>4. \A i \in 0 .. count - 1 : P[i + 1] = Turn(P[i], i)
    BY DEF IsSums
  <1>5. P = [i \in 0 .. count |-> P[i]]
    BY DEF IsSums
  <1> HIDE DEF Turn, start, count
  <1>6. IsLoop(P)
    <2> DEFINE turned == [i \in 0 .. count |-> IF i <= 0 THEN start ELSE Turn(P[i - 1], i - 1)]
    <2>1. ASSUME NEW i \in 0 .. count PROVE P[i] = turned[i]
      <3>1. CASE i = 0
        BY <1>3, <3>1
      <3>2. CASE i # 0
        <4>1. i - 1 \in 0 .. count - 1 /\ (i - 1) + 1 = i /\ ~(i <= 0)
          BY <1>2, <3>2
        <4>2. P[i] = Turn(P[i - 1], i - 1)
          BY <1>4, <4>1
        <4> QED BY <4>1, <4>2
      <3> QED BY <3>1, <3>2
    <2> QED BY <1>5, <2>1
  <1>7. IsLoop(loop)
    <2> HIDE DEF IsLoop
    <2> QED BY <1>6
  <1> HIDE DEF loop
  <1>8. loop[count] = P[count]
    <2>1. loop[0] = start
      BY <1>2, <1>7
    <2>2. \A i \in 0 .. count - 1 : loop[i + 1] = Turn(loop[i], i)
      BY <1>2, <1>7
    <2>3. \A i \in 0 .. count - 1 : loop[i] = P[i] => loop[i + 1] = P[i + 1]
      BY <1>4, <2>2
    <2>4. loop[0] = P[0]
      BY <1>3, <2>1
    <2> HIDE DEF IsLoop
    <2> QED BY <1>2, <2>3, <2>4, LoopsEndAlike
  <1> QED BY <1>1, <1>8 DEF count

\* The total of a part is a difference of sums.
LEMMA PartTotal ==
  ASSUME NEW s \in Seq(Int), NEW P, IsSums(P, s), NEW b \in 1 .. Len(s), NEW a \in 1 .. b
  PROVE  Total(SubSeq(s, a, b)) = P[b] - P[a - 1]
  <1> DEFINE t == SubSeq(s, a, b)
             m == b - a + 1
             At(i) == P[a - 1 + i]
             base == P[a - 1]
             Q == [i \in 0 .. m |-> At(i) - base]
  <1>1. Len(s) \in Nat
    BY LenProperties
  <1>2. Len(t) = m /\ m \in Nat /\ \A i \in 1 .. m : t[i] = s[a + i - 1]
    BY <1>1
  <1>3. \A i \in 0 .. m : At(i) \in Int /\ base \in Int
    <2>1. P \in [0 .. Len(s) -> Int]
      BY DEF IsSums
    <2>2. ASSUME NEW i \in 0 .. m PROVE a - 1 + i \in 0 .. Len(s) /\ a - 1 \in 0 .. Len(s)
      BY <1>1
    <2> QED BY <2>1, <2>2
  <1>4. Q \in [0 .. m -> Int]
    <2> HIDE DEF m, At, base
    <2> QED BY <1>3
  <1>5. Q[0] = 0
    <2>1. 0 \in 0 .. m /\ a - 1 + 0 = a - 1
      BY <1>2
    <2>2. At(0) = base
      BY <2>1
    <2> HIDE DEF At, base
    <2> QED BY <1>3, <2>1, <2>2
  <1>6. ASSUME NEW i \in 0 .. m - 1 PROVE Q[i + 1] = Q[i] + t[i + 1]
    <2>1. i \in 0 .. m /\ i + 1 \in 0 .. m /\ i + 1 \in 1 .. m
      BY <1>2
    <2>2. Q[i] = P[a - 1 + i] - P[a - 1] /\ Q[i + 1] = P[a - 1 + (i + 1)] - P[a - 1]
      BY <2>1 DEF At, base
    <2>3. t[i + 1] = s[a + (i + 1) - 1] /\ a + (i + 1) - 1 = (a - 1 + i) + 1 /\ a - 1 + (i + 1) = (a - 1 + i) + 1
      BY <1>2, <2>1
    <2>4. a - 1 + i \in 0 .. Len(s) - 1
      BY <1>1, <2>1
    <2>5. P[(a - 1 + i) + 1] = P[a - 1 + i] + s[(a - 1 + i) + 1] /\ s[(a - 1 + i) + 1] \in Int
      BY <1>1, <2>4 DEF IsSums
    <2>6. P[a - 1 + i] \in Int /\ P[a - 1] \in Int
      BY <1>3, <2>1 DEF At, base
    <2> HIDE DEF Q, t, m
    <2> QED BY <2>2, <2>3, <2>5, <2>6
  <1>7. IsSums(Q, t)
    <2> HIDE DEF Q, t, m
    <2> QED BY <1>2, <1>4, <1>5, <1>6 DEF IsSums
  <1>8. Total(t) = Q[m]
    <2> HIDE DEF Q, t, m
    <2> QED BY <1>2, <1>7, TotalIs
  <1>9. Q[m] = P[b] - P[a - 1]
    <2>1. m \in 0 .. m /\ a - 1 + m = b
      BY <1>2
    <2> QED BY <2>1
  <1> QED BY <1>8, <1>9

----------------------------------------------------------------------------
(* The greatest sum of a run *)

\* The sums of the runs that end at b, and of the empty one
Ends(P, b) == {P[b] - P[a - 1] : a \in 1 .. b} \cup {0}

\* A run that ends one later has one value more.
LEMMA EndsNext ==
  ASSUME NEW arr \in Seq(Int), NEW P, IsSums(P, arr), NEW i \in 0 .. Len(arr) - 1
  PROVE  /\ Ends(P, i + 1) = {x + arr[i + 1] : x \in Ends(P, i)} \cup {0}
         /\ Ends(P, i) \in SUBSET Int /\ Ends(P, i + 1) \in SUBSET Int /\ arr[i + 1] \in Int
  <1> DEFINE v == arr[i + 1]
  <1>1. Len(arr) \in Nat /\ v \in Int
    BY LenProperties
  <1>2. \A k \in 0 .. i + 1 : P[k] \in Int
    <2>1. P \in [0 .. Len(arr) -> Int]
      BY DEF IsSums
    <2>2. 0 .. i + 1 \subseteq 0 .. Len(arr)
      BY <1>1
    <2> QED BY <2>1, <2>2
  <1>3. P[i + 1] = P[i] + v
    BY DEF IsSums
  <1>4. i \in Nat /\ P[i] \in Int /\ \A a \in 1 .. i + 1 : P[a - 1] \in Int
    <2>1. \A a \in 1 .. i + 1 : a - 1 \in 0 .. i + 1
      OBVIOUS
    <2> QED BY <1>2, <2>1
  <1> DEFINE Down(a) == P[a - 1]
             E == {P[i] - Down(a) : a \in 1 .. i} \cup {0}
             F == {P[i + 1] - Down(a) : a \in 1 .. i + 1} \cup {0}
  <1>5. Down(i + 1) = P[i] /\ \A a \in 1 .. i + 1 : Down(a) \in Int
    <2>1. (i + 1) - 1 = i
      BY <1>4
    <2> QED BY <1>4, <2>1
  <1>6. E = Ends(P, i) /\ F = Ends(P, i + 1)
    BY DEF Ends
  <1> HIDE DEF v, Down
  <1>7. E \in SUBSET Int /\ F \in SUBSET Int
    <2>1. P[i + 1] \in Int /\ P[i] \in Int
      BY <1>1, <1>3, <1>4
    <2>2. \A a \in 1 .. i : Down(a) \in Int
      BY <1>4, <1>5
    <2>3. \A a \in 1 .. i : P[i] - Down(a) \in Int
      BY <2>1, <2>2
    <2>4. \A a \in 1 .. i + 1 : P[i + 1] - Down(a) \in Int
      BY <1>5, <2>1
    <2> QED BY <2>3, <2>4
  <1>8. ASSUME NEW y \in F PROVE y \in {x + v : x \in E} \cup {0}
    <2>1. CASE y = 0
      BY <2>1
    <2>2. CASE y # 0
      <3>1. PICK a \in 1 .. i + 1 : y = P[i + 1] - Down(a)
        BY <2>2
      <3>2. CASE a = i + 1
        <4>1. y = 0 + v /\ 0 \in E
          BY <1>1, <1>3, <1>4, <1>5, <3>1, <3>2
        <4> HIDE DEF E
        <4> QED BY <4>1
      <3>3. CASE a # i + 1
        <4>1. a \in 1 .. i
          BY <1>4, <3>3
        <4>2. P[i] - Down(a) \in E
          BY <4>1
        <4>3. y = (P[i] - Down(a)) + v
          BY <1>1, <1>3, <1>4, <1>5, <3>1
        <4> HIDE DEF E
        <4> QED BY <4>2, <4>3
      <3> QED BY <3>2, <3>3
    <2> QED BY <2>1, <2>2
  <1>9. ASSUME NEW x \in E PROVE x + v \in F
    <2>1. CASE x = 0
      <3>1. i + 1 \in 1 .. i + 1 /\ x + v = P[i + 1] - Down(i + 1)
        BY <1>1, <1>3, <1>4, <1>5, <2>1
      <3> QED BY <3>1
    <2>2. CASE x # 0
      <3>1. PICK a \in 1 .. i : x = P[i] - Down(a)
        BY <2>2
      <3>2. a \in 1 .. i + 1
        BY <1>4
      <3>3. x + v = P[i + 1] - Down(a)
        <4>1. Down(a) \in Int
          BY <1>5, <3>2
        <4> QED BY <1>1, <1>3, <1>4, <3>1, <4>1, SMTT(30)
      <3> QED BY <3>2, <3>3
    <2> QED BY <2>1, <2>2
  <1>10. F = {x + v : x \in E} \cup {0}
    <2>1. 0 \in F
      OBVIOUS
    <2> HIDE DEF E, F
    <2> QED BY <1>8, <1>9, <2>1
  <1> QED BY <1>1, <1>6, <1>7, <1>10 DEF v

\* kadane's variables after i turns: the greatest sum of a run that ends here,
\* the greatest of all, and where it was first met.
KadaneInv(t, i, P) ==
  /\ t \in [max_so_far : Int, ends_at : Int, here : Int]
  /\ t.here \in Ends(P, i) /\ \A x \in Ends(P, i) : x <= t.here
  /\ t.max_so_far >= 0 /\ \A b \in 0 .. i : \A x \in Ends(P, b) : x <= t.max_so_far
  /\ t.max_so_far = 0 => t.ends_at = -1
  /\ t.max_so_far > 0 => /\ t.ends_at \in 0 .. i - 1 /\ t.max_so_far \in Ends(P, t.ends_at + 1)
                         /\ \A b \in 0 .. t.ends_at : t.max_so_far \notin Ends(P, b)

\* One turn of kadane
KadaneTurn(arr, t, i) ==
    LET sum == t.here + arr[i + 1]
        here == IF sum > 0 THEN sum ELSE 0
    IN  IF t.max_so_far < here THEN [max_so_far |-> here, ends_at |-> i, here |-> here]
        ELSE [t EXCEPT !.here = here]

\* Every turn keeps them.
LEMMA KadaneTurnKeeps ==
  ASSUME NEW arr \in Seq(Int), NEW P, IsSums(P, arr), NEW i \in 0 .. Len(arr) - 1,
         NEW t, KadaneInv(t, i, P)
  PROVE  KadaneInv(KadaneTurn(arr, t, i), i + 1, P)
  <1> DEFINE v == arr[i + 1]
             sum == t.here + v
             here == IF sum > 0 THEN sum ELSE 0
             u == KadaneTurn(arr, t, i)
  <1>0. \A b \in 0 .. i : Ends(P, b) \in SUBSET Int
    <2> SUFFICES ASSUME NEW b \in 0 .. i PROVE Ends(P, b) \in SUBSET Int
      OBVIOUS
    <2>1. b \in 0 .. Len(arr) - 1
      BY LenProperties
    <2> QED BY <2>1, EndsNext
  <1>1. i \in Nat /\ 0 .. i + 1 = (0 .. i) \cup {i + 1}
    BY LenProperties
  <1>2. /\ Ends(P, i + 1) = {x + v : x \in Ends(P, i)} \cup {0}
        /\ Ends(P, i) \in SUBSET Int /\ Ends(P, i + 1) \in SUBSET Int /\ v \in Int
    BY EndsNext
  <1>3. t \in [max_so_far : Int, ends_at : Int, here : Int]
    BY DEF KadaneInv
  <1>4. /\ t.here \in Ends(P, i) /\ \A x \in Ends(P, i) : x <= t.here
        /\ t.max_so_far >= 0 /\ \A b \in 0 .. i : \A x \in Ends(P, b) : x <= t.max_so_far
    BY DEF KadaneInv
  <1>5. /\ t.max_so_far = 0 => t.ends_at = -1
        /\ t.max_so_far > 0 => /\ t.ends_at \in 0 .. i - 1 /\ t.max_so_far \in Ends(P, t.ends_at + 1)
                               /\ \A b \in 0 .. t.ends_at : t.max_so_far \notin Ends(P, b)
    BY DEF KadaneInv
  <1>6. u = IF t.max_so_far < here THEN [max_so_far |-> here, ends_at |-> i, here |-> here]
            ELSE [t EXCEPT !.here = here]
    BY DEF KadaneTurn
  <1> HIDE DEF v, u
  <1>7. t.here \in Int /\ t.max_so_far \in Int /\ t.ends_at \in Int /\ sum \in Int /\ here \in Int /\ here >= 0
    BY <1>2, <1>3
  <1>8. here \in Ends(P, i + 1) /\ \A x \in Ends(P, i + 1) : x <= here
    <2>1. sum \in Ends(P, i + 1) /\ 0 \in Ends(P, i + 1)
      BY <1>2, <1>4
    <2>2. ASSUME NEW x \in Ends(P, i + 1) PROVE x <= here
      <3>1. CASE x = 0
        BY <1>7, <3>1
      <3>2. CASE x # 0
        <4>1. PICK y \in Ends(P, i) : x = y + v
          BY <1>2, <3>2
        <4>2. y \in Int /\ y <= t.here
          BY <1>2, <1>4
        <4> QED BY <1>2, <1>7, <4>1, <4>2
      <3> QED BY <3>1, <3>2
    <2> QED BY <2>1, <2>2
  <1> HIDE DEF here
  <1>9. CASE t.max_so_far < here
    <2>1. u = [max_so_far |-> here, ends_at |-> i, here |-> here]
      BY <1>6, <1>9
    <2>2. u.max_so_far = here /\ u.ends_at = i /\ u.here = here
          /\ u \in [max_so_far : Int, ends_at : Int, here : Int]
      BY <1>1, <1>7, <2>1
    <2>3. here > 0 /\ here # 0
      BY <1>4, <1>7, <1>9
    <2>4. ASSUME NEW b \in 0 .. i + 1, NEW x \in Ends(P, b) PROVE x <= here
      <3>1. CASE b \in 0 .. i
        <4>1. x <= t.max_so_far
          BY <1>4, <3>1
        <4>2. x \in Int
          BY <1>0, <3>1
        <4> QED BY <1>7, <1>9, <4>1, <4>2
      <3>2. CASE b = i + 1
        BY <1>8, <3>2
      <3> QED BY <1>1, <3>1, <3>2
    <2>5. ASSUME NEW b \in 0 .. i PROVE here \notin Ends(P, b)
      <3>1. ASSUME here \in Ends(P, b) PROVE FALSE
        <4>1. here <= t.max_so_far
          BY <1>4, <3>1
        <4> QED BY <1>7, <1>9, <4>1
      <3> QED BY <3>1
    <2>6. i \in 0 .. (i + 1) - 1 /\ here >= 0
      BY <1>1, <1>7
    <2>7. KadaneInv(u, i + 1, P)
      BY <1>8, <2>2, <2>3, <2>4, <2>5, <2>6 DEF KadaneInv
    <2> QED BY <2>7 DEF u
  <1>10. CASE ~(t.max_so_far < here)
    <2>1. u = [t EXCEPT !.here = here]
      BY <1>6, <1>10
    <2>2. u.max_so_far = t.max_so_far /\ u.ends_at = t.ends_at /\ u.here = here
          /\ u \in [max_so_far : Int, ends_at : Int, here : Int]
      BY <1>3, <1>7, <2>1
    <2>3. ASSUME NEW b \in 0 .. i + 1, NEW x \in Ends(P, b) PROVE x <= t.max_so_far
      <3>1. CASE b \in 0 .. i
        BY <1>4, <3>1
      <3>2. CASE b = i + 1
        <4>1. x <= here /\ x \in Int
          BY <1>2, <1>8, <3>2
        <4> QED BY <1>7, <1>10, <4>1
      <3> QED BY <1>1, <3>1, <3>2
    <2>4. t.ends_at \in 0 .. i - 1 => t.ends_at \in 0 .. (i + 1) - 1
      BY <1>1
    <2>5. KadaneInv(u, i + 1, P)
      BY <1>4, <1>5, <1>8, <2>2, <2>3, <2>4 DEF KadaneInv
    <2> QED BY <2>5 DEF u
  <1> QED BY <1>9, <1>10 DEF u

\* A greatest element is the maximum, a least one the minimum.
LEMMA MaxIs ==
  ASSUME NEW S \in SUBSET Int, NEW x \in S, \A y \in S : y <= x
  PROVE  Max(S) = x
  <1> DEFINE m == CHOOSE z \in S : \A y \in S : z >= y
  <1>1. m \in S /\ \A y \in S : m >= y
    OBVIOUS
  <1>2. m = x
    <2> HIDE DEF m
    <2> QED BY <1>1
  <1> QED BY <1>2 DEF Max

\* A least element is the minimum.
LEMMA MinIs ==
  ASSUME NEW S \in SUBSET Int, NEW x \in S, \A y \in S : x <= y
  PROVE  Min(S) = x
  <1> DEFINE m == CHOOSE z \in S : \A y \in S : z <= y
  <1>1. m \in S /\ \A y \in S : m <= y
    OBVIOUS
  <1>2. m = x
    <2> HIDE DEF m
    <2> QED BY <1>1
  <1> QED BY <1>2 DEF Min

\* kadane ends with the greatest sum of all runs.
LEMMA KadaneIs ==
  ASSUME NEW arr \in Seq(Int), NEW P, IsSums(P, arr)
  PROVE  KadaneInv(kadane(arr), Len(arr), P)
  <1> DEFINE count == Len(arr)
             S == [max_so_far : Int, ends_at : Int, here : Int]
             start == [max_so_far |-> 0, ends_at |-> -1, here |-> 0]
             Turn(t, i) == KadaneTurn(arr, t, i)
             IsLoop(f) == f = [i \in 0 .. count |-> IF i <= 0 THEN start ELSE Turn(f[i - 1], i - 1)]
             loop == CHOOSE f : IsLoop(f)
             turn == [p \in S \X (0 .. count - 1) |-> Turn(p[1], p[2])]
  <1>1. kadane(arr) = loop[count]
    BY DEF kadane, KadaneTurn, For
  <1>2. count \in Nat
    BY LenProperties
  <1>3. start \in S
    OBVIOUS
  <1>4. \A u \in S, i \in 0 .. count - 1 : Turn(u, i) \in S
    <2> SUFFICES ASSUME NEW u \in S, NEW i \in 0 .. count - 1 PROVE Turn(u, i) \in S
      OBVIOUS
    <2>1. arr[i + 1] \in Int /\ i \in Int
      BY <1>2
    <2> DEFINE sum == u.here + arr[i + 1]
               here == IF sum > 0 THEN sum ELSE 0
    <2>2. here \in Int
      BY <2>1
    <2>3. Turn(u, i) = IF u.max_so_far < here THEN [max_so_far |-> here, ends_at |-> i, here |-> here]
                       ELSE [u EXCEPT !.here = here]
      BY DEF KadaneTurn
    <2> HIDE DEF here, Turn
    <2> QED BY <2>1, <2>2, <2>3
  <1>5. KadaneInv(start, 0, P)
    <2>1. Ends(P, 0) = {0}
      BY DEF Ends
    <2>2. start.max_so_far = 0 /\ start.ends_at = -1 /\ start.here = 0 /\ 0 .. 0 = {0}
      OBVIOUS
    <2> HIDE DEF start
    <2> QED BY <1>3, <2>1, <2>2 DEF KadaneInv
  <1>6. \A u, i : i \in 0 .. count - 1 /\ KadaneInv(u, i, P) => KadaneInv(Turn(u, i), i + 1, P)
    BY KadaneTurnKeeps
  <1> HIDE DEF Turn, S, start, count
  <1>7. PICK g : IsRun(g, count, S, start, turn)
    <2>1. turn \in [S \X (0 .. count - 1) -> S]
      BY <1>4
    <2> HIDE DEF turn
    <2> QED BY <1>2, <1>3, <2>1, LoopRuns
  <1>8. IsLoop(g)
    <2> DEFINE turned == [i \in 0 .. count |-> IF i <= 0 THEN start ELSE Turn(g[i - 1], i - 1)]
    <2>1. g \in [0 .. count -> S]
      BY <1>7 DEF IsRun
    <2>2. g = [i \in 0 .. count |-> IF i <= 0 THEN start ELSE turn[<<g[i - 1], i - 1>>]]
      <3> HIDE DEF turn
      <3> QED BY <1>7 DEF IsRun
    <2>3. ASSUME NEW i \in 0 .. count PROVE g[i] = turned[i]
      <3>1. CASE i = 0
        BY <2>2, <3>1
      <3>2. CASE i # 0
        <4>1. i - 1 \in 0 .. count - 1 /\ i - 1 \in 0 .. count /\ ~(i <= 0)
          BY <1>2, <3>2
        <4>2. g[i] = turn[<<g[i - 1], i - 1>>]
          <5> HIDE DEF turn
          <5> QED BY <2>2, <4>1
        <4>3. g[i - 1] \in S
          BY <2>1, <4>1
        <4> QED BY <4>1, <4>2, <4>3
      <3> QED BY <3>1, <3>2
    <2> HIDE DEF turn
    <2> QED BY <2>1, <2>3
  <1>9. IsLoop(loop)
    <2> HIDE DEF IsLoop
    <2> QED BY <1>8
  <1> HIDE DEF loop, turn
  <1>10. loop[0] = start /\ \A i \in 0 .. count - 1 : loop[i + 1] = Turn(loop[i], i)
    BY <1>2, <1>9
  <1>11. \A i \in 0 .. count : KadaneInv(loop[i], i, P)
    <2> DEFINE T == {i \in 0 .. count : KadaneInv(loop[i], i, P)}
    <2>1. 0 \in T
      BY <1>2, <1>5, <1>10
    <2>2. \A i \in 0 .. count - 1 : i \in T => i + 1 \in T
      BY <1>2, <1>6, <1>10, SMTT(30)
    <2>3. \A i \in 0 .. count : i \in T
      <3> HIDE DEF T
      <3> QED BY <1>2, <2>1, <2>2, TurnInduction
    <2> QED BY <2>3
  <1>12. count \in 0 .. count
    BY <1>2
  <1> QED BY <1>1, <1>11, <1>12 DEF count

\* kadane finds the greatest sum of a run and where the first such run ends.
THEOREM GreatestRun ==
  ASSUME input \in Seq(Int)
  PROVE  KadaneAgrees
  <1> DEFINE arr == [i \in DOMAIN input |-> input[i] - 1]
             n == Len(arr)
             run == [b \in 0 .. n |-> {Total(SubSeq(arr, a, b)) : a \in 1 .. b} \cup {0}]
             All == UNION {run[b] : b \in DOMAIN run}
             best == Max(All)
             k == kadane(arr)
  <1>1. arr \in Seq(Int) /\ n \in Nat
    <2>1. DOMAIN input = 1 .. Len(input) /\ Len(input) \in Nat /\ \A i \in DOMAIN input : input[i] \in Int
      BY LenProperties, ElementOfSeq
    <2>2. arr \in [1 .. Len(input) -> Int]
      BY <2>1
    <2> HIDE DEF arr
    <2>3. arr \in Seq(Int)
      BY <2>1, <2>2, SeqDef
    <2> QED BY <2>3, LenProperties
  <1> HIDE DEF arr
  <1>2. PICK P : IsSums(P, arr)
    BY <1>1, SumsExist
  <1>3. ASSUME NEW b \in 0 .. n PROVE run[b] = Ends(P, b)
    <2>1. \A a \in 1 .. b : Total(SubSeq(arr, a, b)) = P[b] - P[a - 1]
      <3> SUFFICES ASSUME NEW a \in 1 .. b PROVE Total(SubSeq(arr, a, b)) = P[b] - P[a - 1]
        OBVIOUS
      <3>1. b \in 1 .. Len(arr)
        BY <1>1
      <3> QED BY <1>1, <1>2, <3>1, PartTotal
    <2>2. run[b] = {Total(SubSeq(arr, a, b)) : a \in 1 .. b} \cup {0}
      OBVIOUS
    <2> QED BY <2>1, <2>2 DEF Ends
  <1>4. DOMAIN run = 0 .. n
    OBVIOUS
  <1>5. KadaneInv(k, n, P)
    BY <1>1, <1>2, KadaneIs
  <1>6. \A b \in 0 .. n : run[b] \in SUBSET Int /\ 0 \in run[b]
    <2> SUFFICES ASSUME NEW b \in 0 .. n PROVE Ends(P, b) \in SUBSET Int /\ 0 \in Ends(P, b)
      BY <1>3
    <2>1. P \in [0 .. n -> Int]
      BY <1>2 DEF IsSums
    <2>2. P[b] \in Int /\ \A a \in 1 .. b : P[a - 1] \in Int
      <3>1. \A a \in 1 .. b : a - 1 \in 0 .. n
        BY <1>1
      <3> QED BY <2>1, <3>1
    <2> QED BY <2>2 DEF Ends
  <1>7. All \in SUBSET Int
    BY <1>4, <1>6
  <1> HIDE DEF run, n, k
  <1>8. k.max_so_far \in Int /\ k.ends_at \in Int /\ k.max_so_far >= 0
    BY <1>5 DEF KadaneInv
  <1>9. k.max_so_far \in All
    <2>1. CASE k.max_so_far = 0
      <3>1. 0 \in 0 .. n /\ 0 \in run[0]
        BY <1>1, <1>6
      <3> QED BY <1>4, <2>1, <3>1
    <2>2. CASE k.max_so_far > 0
      <3>1. k.ends_at + 1 \in 0 .. n /\ k.max_so_far \in Ends(P, k.ends_at + 1)
        BY <1>1, <1>5, <2>2 DEF KadaneInv
      <3> QED BY <1>3, <1>4, <3>1
    <2> QED BY <1>8, <2>1, <2>2
  <1>10. \A x \in All : x <= k.max_so_far
    <2> SUFFICES ASSUME NEW b \in 0 .. n, NEW x \in Ends(P, b) PROVE x <= k.max_so_far
      BY <1>3, <1>4
    <2> QED BY <1>5 DEF KadaneInv
  <1>11. best = k.max_so_far
    <2> HIDE DEF All
    <2> QED BY <1>7, <1>9, <1>10, MaxIs
  <1>12. best # 0 => Min({b \in DOMAIN run : best \in run[b]}) = k.ends_at + 1
    <2> HAVE best # 0
    <2> DEFINE B == {b \in DOMAIN run : best \in run[b]}
    <2>1. /\ k.ends_at \in 0 .. n - 1 /\ k.max_so_far \in Ends(P, k.ends_at + 1)
          /\ \A b \in 0 .. k.ends_at : k.max_so_far \notin Ends(P, b)
      BY <1>5, <1>8, <1>11 DEF KadaneInv
    <2>2. k.ends_at + 1 \in 0 .. n
      BY <1>1, <2>1
    <2> HIDE DEF best
    <2>3. k.ends_at + 1 \in B
      BY <1>3, <1>4, <1>11, <2>1, <2>2
    <2>4. B \in SUBSET Int
      BY <1>1, <1>4
    <2>5. ASSUME NEW b \in B PROVE k.ends_at + 1 <= b
      <3>1. b \in 0 .. n /\ k.max_so_far \in Ends(P, b)
        BY <1>3, <1>4, <1>11
      <3>2. b \notin 0 .. k.ends_at
        BY <2>1, <3>1
      <3> QED BY <1>1, <1>8, <2>1, <3>1, <3>2
    <2> HIDE DEF B
    <2>6. Min(B) = k.ends_at + 1
      BY <2>3, <2>4, <2>5, MinIs
    <2> QED BY <2>6 DEF B
  <1>13. best = 0 => k.ends_at = -1
    BY <1>5, <1>11 DEF KadaneInv
  <1>14. /\ k.max_so_far = best
         /\ k.ends_at = IF best = 0 THEN -1 ELSE Min({b \in DOMAIN run : best \in run[b]}) - 1
    <2> HIDE DEF best
    <2> QED BY <1>8, <1>11, <1>12, <1>13
  <1> QED BY <1>14 DEF KadaneAgrees, arr, n, run, k

----------------------------------------------------------------------------
(* Bubble sort *)

\* Sets whose elements a function pairs off have the same size.
LEMMA SameSize ==
  ASSUME NEW S, NEW T, IsFiniteSet(S), NEW f \in [S -> T],
         \A x, y \in S : f[x] = f[y] => x = y, \A y \in T : \E x \in S : f[x] = y
  PROVE  IsFiniteSet(T) /\ Cardinality(T) = Cardinality(S)
  <1>1. f \in Bijection(S, T)
    BY DEF Bijection, Injection, Surjection, IsInjective
  <1>2. ExistsBijection(S, T)
    BY <1>1 DEF ExistsBijection
  <1> QED BY <1>2, FS_Bijection

\* Where the element at i goes when those at j and j + 1 change places.
Turned(j, i) == IF i = j THEN j + 1 ELSE IF i = j + 1 THEN j ELSE i

\* Turning two neighbours is a permutation that undoes itself, and keeps the
\* order of every two positions but the neighbours.
LEMMA TurnedIs ==
  ASSUME NEW n \in Nat, NEW j \in 1 .. n - 1
  PROVE  /\ \A i \in 1 .. n : Turned(j, i) \in 1 .. n /\ Turned(j, Turned(j, i)) = i
         /\ \A a, b \in 1 .. n : a < b /\ <<a, b>> # <<j, j + 1>> => Turned(j, a) < Turned(j, b)
         /\ \A i \in 1 .. n : i > j + 1 \/ i < j => Turned(j, i) = i
         /\ Turned(j, j) = j + 1 /\ Turned(j, j + 1) = j
  BY DEF Turned

\* Exchange of neighbours reads the old sequence in the turned places.
LEMMA ExchangeIs ==
  ASSUME NEW n \in Nat, NEW j \in 1 .. n - 1, NEW d \in [1 .. n -> Int]
  PROVE  /\ Exchange(d, j, j + 1) \in [1 .. n -> Int]
         /\ \A i \in 1 .. n : Exchange(d, j, j + 1)[i] = d[Turned(j, i)]
  <1>1. j \in 1 .. n /\ j + 1 \in 1 .. n /\ j # j + 1
    OBVIOUS
  <1> QED BY <1>1 DEF Exchange, Turned

\* Where the element at i goes when those at a and b change places.
Swapped(a, b, i) == IF i = a THEN b ELSE IF i = b THEN a ELSE i

\* The number of places that hold a value stays when two change places.
LEMMA CountsStay ==
  ASSUME NEW n \in Nat, NEW a \in 1 .. n, NEW b \in 1 .. n, NEW d \in [1 .. n -> Int], NEW v
  PROVE  Cardinality({i \in 1 .. n : Exchange(d, a, b)[i] = v}) = Cardinality({i \in 1 .. n : d[i] = v})
  <1> DEFINE e == Exchange(d, a, b)
             A == {i \in 1 .. n : d[i] = v}
             B == {i \in 1 .. n : e[i] = v}
             f == [i \in A |-> Swapped(a, b, i)]
  <1>1. \A i \in 1 .. n : e[i] = d[Swapped(a, b, i)]
    BY DEF Exchange, Swapped
  <1>2. \A i \in 1 .. n : Swapped(a, b, i) \in 1 .. n /\ Swapped(a, b, Swapped(a, b, i)) = i
    BY DEF Swapped
  <1> HIDE DEF e
  <1>3. f \in [A -> B]
    BY <1>1, <1>2
  <1>4. \A x, y \in A : f[x] = f[y] => x = y
    BY <1>2
  <1>5. ASSUME NEW y \in B PROVE \E x \in A : f[x] = y
    <2>1. Swapped(a, b, y) \in A
      BY <1>1, <1>2
    <2>2. f[Swapped(a, b, y)] = y
      BY <1>2, <2>1
    <2> QED BY <2>1, <2>2
  <1>6. IsFiniteSet(A)
    BY FS_Interval, FS_Subset
  <1> HIDE DEF A, B, f
  <1>7. Cardinality(B) = Cardinality(A)
    BY <1>3, <1>4, <1>5, <1>6, SameSize
  <1> QED BY <1>7 DEF A, B, e

\* The inversions of a sequence are finitely many.
LEMMA InversionsFinite ==
  ASSUME NEW n \in Nat, NEW d \in [1 .. n -> Int]
  PROVE  IsFiniteSet(Inversions(d)) /\ Cardinality(Inversions(d)) \in Nat
  <1>1. IsFiniteSet(1 .. n)
    BY FS_Interval
  <1>2. IsFiniteSet((1 .. n) \X (1 .. n))
    BY <1>1, FS_Product
  <1>3. Inversions(d) \in SUBSET ((1 .. n) \X (1 .. n))
    BY DEF Inversions
  <1>4. IsFiniteSet(Inversions(d))
    BY <1>2, <1>3, FS_Subset
  <1> QED BY <1>4, FS_CardinalityType

\* Putting two neighbours in order removes one inversion and moves the others.
LEMMA InversionsFall ==
  ASSUME NEW n \in Nat, NEW j \in 1 .. n - 1, NEW d \in [1 .. n -> Int], d[j + 1] < d[j]
  PROVE  Cardinality(Inversions(Exchange(d, j, j + 1))) + 1 = Cardinality(Inversions(d))
  <1> DEFINE e == Exchange(d, j, j + 1)
             q == <<j, j + 1>>
             A == Inversions(d) \ {q}
             B == Inversions(e)
             f == [p \in A |-> <<Turned(j, p[1]), Turned(j, p[2])>>]
  <1>1. e \in [1 .. n -> Int] /\ \A i \in 1 .. n : e[i] = d[Turned(j, i)]
    BY ExchangeIs
  <1>2. \A i \in 1 .. n : Turned(j, i) \in 1 .. n /\ Turned(j, Turned(j, i)) = i
    BY TurnedIs
  <1>3. \A a, b \in 1 .. n : a < b /\ <<a, b>> # q => Turned(j, a) < Turned(j, b)
    BY TurnedIs
  <1>4. Turned(j, j) = j + 1 /\ Turned(j, j + 1) = j /\ j \in 1 .. n /\ j + 1 \in 1 .. n
    BY TurnedIs
  <1> HIDE DEF e
  <1>5. \A p : p \in A <=> /\ p \in (1 .. n) \X (1 .. n) /\ p[1] < p[2] /\ d[p[1]] > d[p[2]] /\ p # q
    BY DEF Inversions
  <1>6. \A p : p \in B <=> /\ p \in (1 .. n) \X (1 .. n) /\ p[1] < p[2] /\ e[p[1]] > e[p[2]]
    BY <1>1 DEF Inversions
  <1>7. q \notin B
    BY <1>1, <1>4, <1>6
  <1> HIDE DEF A, B
  <1>8. ASSUME NEW a \in 1 .. n, NEW b \in 1 .. n, <<a, b>> \in A
        PROVE  <<Turned(j, a), Turned(j, b)>> \in B
    <2>1. a < b /\ d[a] > d[b] /\ <<a, b>> # q
      BY <1>5, <1>8
    <2>2. Turned(j, a) < Turned(j, b)
      BY <1>3, <2>1
    <2>3. e[Turned(j, a)] = d[a] /\ e[Turned(j, b)] = d[b]
      BY <1>1, <1>2
    <2> QED BY <1>2, <1>6, <2>1, <2>2, <2>3
  <1>9. ASSUME NEW a \in 1 .. n, NEW b \in 1 .. n, <<a, b>> \in B
        PROVE  <<Turned(j, a), Turned(j, b)>> \in A
    <2>1. a < b /\ e[a] > e[b] /\ <<a, b>> # q
      BY <1>6, <1>7, <1>9
    <2>2. Turned(j, a) < Turned(j, b)
      BY <1>3, <2>1
    <2>3. d[Turned(j, a)] > d[Turned(j, b)]
      BY <1>1, <2>1
    <2>4. <<Turned(j, a), Turned(j, b)>> # q
      <3>1. ASSUME Turned(j, a) = j, Turned(j, b) = j + 1 PROVE FALSE
        <4>1. a = j + 1 /\ b = j
          BY <1>2, <1>4, <3>1
        <4> QED BY <2>1, <4>1
      <3> QED BY <3>1
    <2> QED BY <1>2, <1>5, <2>2, <2>3, <2>4
  <1>10. f \in [A -> B]
    <2> SUFFICES ASSUME NEW p \in A PROVE <<Turned(j, p[1]), Turned(j, p[2])>> \in B
      OBVIOUS
    <2>1. p[1] \in 1 .. n /\ p[2] \in 1 .. n /\ p = <<p[1], p[2]>>
      BY <1>5
    <2> QED BY <1>8, <2>1
  <1>11. ASSUME NEW x \in A, NEW y \in A, f[x] = f[y] PROVE x = y
    <2>1. x[1] \in 1 .. n /\ x[2] \in 1 .. n /\ x = <<x[1], x[2]>>
      BY <1>5
    <2>2. y[1] \in 1 .. n /\ y[2] \in 1 .. n /\ y = <<y[1], y[2]>>
      BY <1>5
    <2>3. Turned(j, x[1]) = Turned(j, y[1]) /\ Turned(j, x[2]) = Turned(j, y[2])
      BY <1>11
    <2>4. x[1] = y[1] /\ x[2] = y[2]
      BY <1>2, <2>1, <2>2, <2>3
    <2> QED BY <2>1, <2>2, <2>4
  <1>12. ASSUME NEW y \in B PROVE \E x \in A : f[x] = y
    <2>1. y[1] \in 1 .. n /\ y[2] \in 1 .. n /\ y = <<y[1], y[2]>>
      BY <1>6
    <2> DEFINE x == <<Turned(j, y[1]), Turned(j, y[2])>>
    <2>2. x \in A
      BY <1>9, <2>1
    <2>3. f[x] = <<Turned(j, Turned(j, y[1])), Turned(j, Turned(j, y[2]))>>
      BY <2>2
    <2>4. f[x] = y
      BY <1>2, <2>1, <2>3
    <2> QED BY <2>2, <2>4
  <1>13. IsFiniteSet(Inversions(d)) /\ Cardinality(Inversions(d)) \in Nat
    BY InversionsFinite
  <1>14. q \in Inversions(d)
    BY <1>4 DEF Inversions
  <1>15. IsFiniteSet(A) /\ Cardinality(A) = Cardinality(Inversions(d)) - 1
    BY <1>13, <1>14, FS_RemoveElement DEF A
  <1> HIDE DEF f
  <1>16. Cardinality(B) = Cardinality(A)
    BY <1>10, <1>11, <1>12, <1>15, SameSize
  <1> QED BY <1>13, <1>15, <1>16 DEF B, e

\* The states of bubblesort: what is left of the inversions of the given
\* sequence is what is not yet counted, and no value came or went.
KeptStates(given) ==
  {u \in [data : [1 .. Len(given) -> Int], swaps : Nat] :
     /\ u.swaps + Cardinality(Inversions(u.data)) = Cardinality(Inversions(given))
     /\ \A v : Cardinality({i \in 1 .. Len(given) : u.data[i] = v})
                 = Cardinality({i \in 1 .. Len(given) : given[i] = v})}

\* The last i places of d hold what they will hold in the end.
Settled(d, n, i) == \A b \in n - i + 1 .. n : \A a \in 1 .. b : d[a] <= d[b]

\* The greatest of the first j + 1 values of d is at their end.
Risen(d, j) == \A a \in 1 .. j + 1 : d[a] <= d[j + 1]

BubbleTurn(u, j) ==
  IF u.data[j + 2] < u.data[j + 1]
  THEN [data |-> Exchange(u.data, j + 1, j + 2), swaps |-> u.swaps + 1] ELSE u

BubbleRow(t, n, i) == For(n - i - 1, t, LAMBDA u, j : BubbleTurn(u, j))

\* A turn of the inner loop keeps the values and the count of inversions.
LEMMA BubbleTurnKeeps ==
  ASSUME NEW given \in Seq(Int), NEW u \in KeptStates(given), NEW j \in 0 .. Len(given) - 2
  PROVE  BubbleTurn(u, j) \in KeptStates(given)
  <1> DEFINE n == Len(given)
             d == u.data
             e == Exchange(d, j + 1, (j + 1) + 1)
             w == [data |-> e, swaps |-> u.swaps + 1]
  <1>1. n \in Nat /\ j + 1 \in 1 .. n - 1 /\ (j + 1) + 1 = j + 2
    BY LenProperties
  <1>2. d \in [1 .. n -> Int] /\ u.swaps \in Nat
    BY DEF KeptStates
  <1>3. u.swaps + Cardinality(Inversions(d)) = Cardinality(Inversions(given))
    BY DEF KeptStates
  <1>4. \A v : Cardinality({i \in 1 .. n : d[i] = v}) = Cardinality({i \in 1 .. n : given[i] = v})
    BY DEF KeptStates
  <1> HIDE DEF n, d
  <1>5. CASE d[j + 2] < d[j + 1]
    <2>1. e \in [1 .. n -> Int]
      BY <1>1, <1>2, ExchangeIs
    <2>2. Cardinality(Inversions(e)) + 1 = Cardinality(Inversions(d))
      BY <1>1, <1>2, <1>5, InversionsFall
    <2>3. \A v : Cardinality({i \in 1 .. n : e[i] = v}) = Cardinality({i \in 1 .. n : d[i] = v})
      <3>1. j + 1 \in 1 .. n /\ (j + 1) + 1 \in 1 .. n
        BY <1>1
      <3> QED BY <1>1, <1>2, <3>1, CountsStay, ZenonT(60)
    <2>4. Cardinality(Inversions(e)) \in Nat
      BY <1>1, <2>1, InversionsFinite
    <2>5. BubbleTurn(u, j) = w
      BY <1>1, <1>5 DEF BubbleTurn, d
    <2> HIDE DEF e
    <2>6. w.data = e /\ w.swaps = u.swaps + 1 /\ w \in [data : [1 .. n -> Int], swaps : Nat]
      BY <1>2, <2>1
    <2> HIDE DEF w
    <2>7. w.swaps + Cardinality(Inversions(w.data)) = Cardinality(Inversions(given))
      <3> DEFINE x == Cardinality(Inversions(e))
                 y == Cardinality(Inversions(d))
                 z == Cardinality(Inversions(given))
      <3>1. u.swaps \in Nat /\ x \in Nat /\ x + 1 = y /\ u.swaps + y = z
        BY <1>2, <1>3, <2>2, <2>4
      <3> HIDE DEF x, y, z
      <3>2. (u.swaps + 1) + x = z
        BY <3>1, SMTT(30)
      <3> QED BY <2>6, <3>2 DEF x, z
    <2>8. \A v : Cardinality({i \in 1 .. n : w.data[i] = v}) = Cardinality({i \in 1 .. n : given[i] = v})
      BY <1>4, <2>3, <2>6
    <2>9. w \in KeptStates(given)
      <3> HIDE DEF d
      <3>1. w \in [data : [1 .. Len(given) -> Int], swaps : Nat]
        BY <2>6 DEF n
      <3>2. \A v : Cardinality({i \in 1 .. Len(given) : w.data[i] = v})
                     = Cardinality({i \in 1 .. Len(given) : given[i] = v})
        BY <2>8 DEF n
      <3> QED BY <2>7, <3>1, <3>2, Zenon DEF KeptStates
    <2> QED BY <2>5, <2>9
  <1>6. CASE ~(d[j + 2] < d[j + 1])
    BY <1>6 DEF BubbleTurn, d
  <1> QED BY <1>5, <1>6

\* A turn of the inner loop carries the greatest value one place on, and does
\* not touch the places that are settled.
LEMMA BubbleTurnRaises ==
  ASSUME NEW n \in Nat, NEW i \in 0 .. n - 1, NEW j \in 0 .. n - i - 2,
         NEW u, u.data \in [1 .. n -> Int], Settled(u.data, n, i), Risen(u.data, j)
  PROVE  Settled(BubbleTurn(u, j).data, n, i) /\ Risen(BubbleTurn(u, j).data, j + 1)
  <1> DEFINE d == u.data
             k == j + 1
             e == Exchange(d, k, k + 1)
             r == BubbleTurn(u, j).data
  <1>1. k \in 1 .. n - 1 /\ k + 1 = j + 2 /\ k + 1 <= n - i /\ k \in 1 .. n /\ k + 1 \in 1 .. n
    OBVIOUS
  <1>2. e \in [1 .. n -> Int] /\ \A a \in 1 .. n : e[a] = d[Turned(k, a)]
    BY <1>1, ExchangeIs
  <1>3. /\ \A a \in 1 .. n : Turned(k, a) \in 1 .. n
        /\ \A a \in 1 .. n : a > k + 1 \/ a < k => Turned(k, a) = a
        /\ Turned(k, k) = k + 1 /\ Turned(k, k + 1) = k
    BY <1>1, TurnedIs
  <1>4. r = IF d[k + 1] < d[k] THEN e ELSE d
    BY <1>1 DEF BubbleTurn
  <1>5. d \in [1 .. n -> Int] /\ Settled(d, n, i) /\ Risen(d, j)
    OBVIOUS
  <1>6. \A a \in 1 .. k : d[a] <= d[k]
    BY <1>5 DEF Risen
  <1> HIDE DEF d, e, r
  <1>7. CASE d[k + 1] < d[k]
    <2>1. Settled(e, n, i)
      <3> SUFFICES ASSUME NEW b \in n - i + 1 .. n, NEW a \in 1 .. b PROVE e[a] <= e[b]
        BY DEF Settled
      <3>1. b \in 1 .. n /\ a \in 1 .. n /\ b > k + 1
        <4>1. i \in Int /\ j \in Int /\ k = j + 1 /\ b \in Int /\ a \in Int /\ 1 <= a /\ a <= b /\ b <= n /\ 0 <= i /\ j <= n - i - 2 /\ n - i + 1 <= b
          OBVIOUS
        <4> HIDE DEF k
        <4> QED BY <4>1
      <3>2. e[b] = d[b] /\ e[a] = d[Turned(k, a)]
        BY <1>2, <1>3, <3>1
      <3>3. Turned(k, a) \in 1 .. b
        <4>1. CASE a > k + 1 \/ a < k
          BY <1>3, <3>1, <4>1
        <4>2. CASE a = k \/ a = k + 1
          BY <1>1, <1>3, <3>1, <4>2
        <4> QED BY <1>1, <3>1, <4>1, <4>2
      <3> QED BY <1>5, <3>2, <3>3 DEF Settled
    <2>2. \A a \in 1 .. k + 1 : e[a] <= e[k + 1]
      <3> SUFFICES ASSUME NEW a \in 1 .. k + 1 PROVE e[a] <= e[k + 1]
        OBVIOUS
      <3>1. e[k + 1] = d[k] /\ d[k] \in Int /\ e[k] = d[k + 1] /\ d[k + 1] \in Int
        BY <1>1, <1>2, <1>3, <1>5
      <3>2. CASE a < k
        <4>1. e[a] = d[a] /\ a \in 1 .. k
          BY <1>1, <1>2, <1>3, <3>2, SMTT(30)
        <4> QED BY <1>6, <3>1, <4>1
      <3>3. CASE a = k \/ a = k + 1
        BY <1>7, <3>1, <3>3
      <3> QED BY <1>1, <3>2, <3>3
    <2>3. r = e
      BY <1>4, <1>7
    <2> QED BY <2>1, <2>2, <2>3 DEF Risen, r
  <1>8. CASE ~(d[k + 1] < d[k])
    <2>1. \A a \in 1 .. k + 1 : d[a] <= d[k + 1]
      <3> SUFFICES ASSUME NEW a \in 1 .. k + 1 PROVE d[a] <= d[k + 1]
        OBVIOUS
      <3>1. d[a] \in Int /\ d[k] \in Int /\ d[k + 1] \in Int
        BY <1>1, <1>5
      <3>2. a \in 1 .. k \/ a = k + 1
        BY <1>1
      <3> QED BY <1>6, <1>8, <3>1, <3>2
    <2>2. r = d
      BY <1>4, <1>8
    <2> QED BY <1>5, <2>1, <2>2 DEF Risen, r
  <1> QED BY <1>7, <1>8

\* A row of turns settles one more place.
LEMMA BubbleRowIs ==
  ASSUME NEW given \in Seq(Int), NEW i \in 0 .. Len(given) - 2, NEW t \in KeptStates(given)
  PROVE  LET r == BubbleRow(t, Len(given), i)
         IN  /\ r \in KeptStates(given)
             /\ Settled(t.data, Len(given), i) => Settled(r.data, Len(given), i + 1)
  <1> DEFINE n == Len(given)
  <1> DEFINE count == n - i - 1
             S == KeptStates(given)
             start == t
             Turn(u, j) == BubbleTurn(u, j)
             IsLoop(f) == f = [h \in 0 .. count |-> IF h <= 0 THEN start ELSE Turn(f[h - 1], h - 1)]
             loop == CHOOSE f : IsLoop(f)
             turn == [p \in S \X (0 .. count - 1) |-> Turn(p[1], p[2])]
  <1>1. BubbleRow(t, n, i) = loop[count]
    BY DEF BubbleRow, For
  <1>2. count \in Nat /\ n \in Nat
    BY LenProperties
  <1>3. start \in S
    OBVIOUS
  <1>4. \A u \in S, j \in 0 .. count - 1 : Turn(u, j) \in S
    <2>1. \A j \in 0 .. count - 1 : j \in 0 .. Len(given) - 2
      BY <1>2
    <2> QED BY <2>1, BubbleTurnKeeps
  <1>40. \A u : u \in S => u.data \in [1 .. n -> Int]
    BY DEF KeptStates
  <1>41. \A u, j : u \in S /\ j \in 0 .. count - 1 /\ Settled(u.data, n, i) /\ Risen(u.data, j)
                     => Settled(Turn(u, j).data, n, i) /\ Risen(Turn(u, j).data, j + 1)
    <2>1. i \in 0 .. n - 1 /\ \A j \in 0 .. count - 1 : j \in 0 .. n - i - 2
      BY <1>2
    <2> HIDE DEF S, n, count
    <2> QED BY <1>2, <1>40, <2>1, BubbleTurnRaises
  <1>42. count = n - i - 1 /\ start = t /\ S = KeptStates(given)
    OBVIOUS
  <1> HIDE DEF Turn, S, start, count
  <1>5. PICK g : IsRun(g, count, S, start, turn)
    <2>1. turn \in [S \X (0 .. count - 1) -> S]
      BY <1>4
    <2> HIDE DEF turn
    <2> QED BY <1>2, <1>3, <2>1, LoopRuns
  <1>6. IsLoop(g)
    <2> DEFINE turned == [h \in 0 .. count |-> IF h <= 0 THEN start ELSE Turn(g[h - 1], h - 1)]
    <2>1. g \in [0 .. count -> S]
      BY <1>5 DEF IsRun
    <2>2. g = [h \in 0 .. count |-> IF h <= 0 THEN start ELSE turn[<<g[h - 1], h - 1>>]]
      <3> HIDE DEF turn
      <3> QED BY <1>5 DEF IsRun
    <2>3. ASSUME NEW h \in 0 .. count PROVE g[h] = turned[h]
      <3>1. CASE h = 0
        BY <2>2, <3>1
      <3>2. CASE h # 0
        <4>1. h - 1 \in 0 .. count - 1 /\ h - 1 \in 0 .. count /\ ~(h <= 0)
          BY <1>2, <3>2
        <4>2. g[h] = turn[<<g[h - 1], h - 1>>]
          <5> HIDE DEF turn
          <5> QED BY <2>2, <4>1
        <4>3. g[h - 1] \in S
          BY <2>1, <4>1
        <4> QED BY <4>1, <4>2, <4>3
      <3> QED BY <3>1, <3>2
    <2> HIDE DEF turn
    <2> QED BY <2>1, <2>3
  <1>7. IsLoop(loop)
    <2> HIDE DEF IsLoop
    <2> QED BY <1>6
  <1> HIDE DEF loop, turn
  <1>8. loop[0] = start /\ \A h \in 0 .. count - 1 : loop[h + 1] = Turn(loop[h], h)
    BY <1>2, <1>7
  <1> HIDE DEF n
  <1>9. \A j \in 0 .. count : loop[j] \in S
    <2> DEFINE T == {j \in 0 .. count : loop[j] \in S}
    <2>1. 0 \in T /\ \A j \in 0 .. count - 1 : j \in T => j + 1 \in T
      BY <1>2, <1>3, <1>4, <1>8
    <2>2. \A j \in 0 .. count : j \in T
      <3> HIDE DEF T
      <3> QED BY <1>2, <2>1, TurnInduction
    <2> QED BY <2>2
  <1>10. ASSUME Settled(t.data, n, i)
         PROVE  \A j \in 0 .. count : Settled(loop[j].data, n, i) /\ Risen(loop[j].data, j)
    <2> DEFINE T == {j \in 0 .. count : Settled(loop[j].data, n, i) /\ Risen(loop[j].data, j)}
    <2>1. 0 \in T
      <3>1. Risen(t.data, 0)
        <4>1. 1 \in 1 .. n
          BY <1>2 DEF n
        <4>2. t.data[1] \in Int
          BY <1>3, <1>40, <1>42, <4>1
        <4> QED BY <4>2 DEF Risen
      <3> QED BY <1>2, <1>8, <1>10, <1>42, <3>1
    <2>2. \A j \in 0 .. count - 1 : j \in T => j + 1 \in T
      <3> SUFFICES ASSUME NEW j \in 0 .. count - 1, j \in T PROVE j + 1 \in T
        OBVIOUS
      <3>1. loop[j] \in S /\ Settled(loop[j].data, n, i) /\ Risen(loop[j].data, j)
        BY <1>2, <1>9
      <3>2. Settled(Turn(loop[j], j).data, n, i) /\ Risen(Turn(loop[j], j).data, j + 1)
        BY <1>41, <3>1
      <3>3. loop[j + 1] = Turn(loop[j], j) /\ j + 1 \in 0 .. count
        BY <1>2, <1>8
      <3> QED BY <3>2, <3>3
    <2>3. \A j \in 0 .. count : j \in T
      <3> HIDE DEF T
      <3> QED BY <1>2, <2>1, <2>2, TurnInduction
    <2> QED BY <2>3
  <1> DEFINE r == BubbleRow(t, n, i)
  <1>11. r \in S
    BY <1>1, <1>2, <1>9
  <1>12. ASSUME Settled(t.data, n, i) PROVE Settled(r.data, n, i + 1)
    <2>1. Settled(r.data, n, i) /\ Risen(r.data, count)
      BY <1>1, <1>2, <1>10, <1>12
    <2> HIDE DEF r
    <2>2. ASSUME NEW b \in n - (i + 1) + 1 .. n, NEW a \in 1 .. b PROVE r.data[a] <= r.data[b]
      <3>1. CASE b \in n - i + 1 .. n
        BY <2>1, <3>1 DEF Settled
      <3>2. CASE b = n - i
        <4>1. b = count + 1 /\ a \in 1 .. count + 1
          BY <1>2, <1>42, <3>2
        <4> QED BY <2>1, <4>1 DEF Risen
      <3>3. n \in Int /\ i \in Int
        BY <1>2
      <3>4. b \in n - i + 1 .. n \/ b = n - i
        BY <3>3
      <3> QED BY <3>1, <3>2, <3>4
    <2> QED BY <2>2 DEF Settled
  <1> HIDE DEF r
  <1> QED BY <1>11, <1>12, <1>42 DEF r, n

\* bubblesort orders any integers, keeps each as often, and counts the inversions.
THEOREM BubblesortSorts ==
  ASSUME NEW given \in Seq(Int), given # << >>
  PROVE  LET b == bubblesort(given)
         IN  IsSorted(b.data, given) /\ b.swaps = Cardinality(Inversions(given))
  <1> DEFINE n == Len(given)
  <1> DEFINE count == n - 1
             S == KeptStates(given)
             start == [data |-> given, swaps |-> 0]
             Turn(t, i) == BubbleRow(t, n, i)
             IsLoop(f) == f = [i \in 0 .. count |-> IF i <= 0 THEN start ELSE Turn(f[i - 1], i - 1)]
             loop == CHOOSE f : IsLoop(f)
             turn == [p \in S \X (0 .. count - 1) |-> Turn(p[1], p[2])]
  <1>1. bubblesort(given) = loop[count]
    BY DEF bubblesort, BubbleRow, BubbleTurn, For
  <1>2. count \in Nat /\ n \in Nat /\ given \in [1 .. n -> Int]
    BY EmptySeq, LenProperties
  <1>3. start \in S
    <2>1. start.data = given /\ start.swaps = 0 /\ start \in [data : [1 .. n -> Int], swaps : Nat]
      BY <1>2
    <2>2. Cardinality(Inversions(given)) \in Nat
      BY <1>2, InversionsFinite
    <2> HIDE DEF start
    <2>3. start.swaps + Cardinality(Inversions(start.data)) = Cardinality(Inversions(given))
      BY <2>1, <2>2
    <2> QED BY <2>1, <2>3 DEF KeptStates
  <1>4. \A t \in S, i \in 0 .. count - 1 : Turn(t, i) \in S
    <2>1. \A i \in 0 .. count - 1 : i \in 0 .. Len(given) - 2
      BY <1>2
    <2> QED BY <2>1, BubbleRowIs
  <1>41. \A t \in S, i \in 0 .. count - 1 : Settled(t.data, n, i) => Settled(Turn(t, i).data, n, i + 1)
    <2>1. \A i \in 0 .. count - 1 : i \in 0 .. Len(given) - 2
      BY <1>2
    <2> QED BY <2>1, BubbleRowIs
  <1>42. count = n - 1 /\ S = KeptStates(given) /\ start.data = given
    OBVIOUS
  <1> HIDE DEF Turn, S, start, count
  <1>5. PICK g : IsRun(g, count, S, start, turn)
    <2>1. turn \in [S \X (0 .. count - 1) -> S]
      BY <1>4
    <2> HIDE DEF turn
    <2> QED BY <1>2, <1>3, <2>1, LoopRuns
  <1>6. IsLoop(g)
    <2> DEFINE turned == [i \in 0 .. count |-> IF i <= 0 THEN start ELSE Turn(g[i - 1], i - 1)]
    <2>1. g \in [0 .. count -> S]
      BY <1>5 DEF IsRun
    <2>2. g = [i \in 0 .. count |-> IF i <= 0 THEN start ELSE turn[<<g[i - 1], i - 1>>]]
      <3> HIDE DEF turn
      <3> QED BY <1>5 DEF IsRun
    <2>3. ASSUME NEW i \in 0 .. count PROVE g[i] = turned[i]
      <3>1. CASE i = 0
        BY <2>2, <3>1
      <3>2. CASE i # 0
        <4>1. i - 1 \in 0 .. count - 1 /\ i - 1 \in 0 .. count /\ ~(i <= 0)
          BY <1>2, <3>2
        <4>2. g[i] = turn[<<g[i - 1], i - 1>>]
          <5> HIDE DEF turn
          <5> QED BY <2>2, <4>1
        <4>3. g[i - 1] \in S
          BY <2>1, <4>1
        <4> QED BY <4>1, <4>2, <4>3
      <3> QED BY <3>1, <3>2
    <2> HIDE DEF turn
    <2> QED BY <2>1, <2>3
  <1>7. IsLoop(loop)
    <2> HIDE DEF IsLoop
    <2> QED BY <1>6
  <1> HIDE DEF loop, turn
  <1>8. loop[0] = start /\ \A i \in 0 .. count - 1 : loop[i + 1] = Turn(loop[i], i)
    BY <1>2, <1>7
  <1> HIDE DEF n
  <1> DEFINE T == {i \in 0 .. count : loop[i] \in S /\ Settled(loop[i].data, n, i)}
  <1>9. 0 \in T
    <2>1. Settled(start.data, n, 0)
      BY <1>2 DEF Settled
    <2> QED BY <1>2, <1>3, <1>8, <2>1
  <1>10. \A i \in 0 .. count - 1 : i \in T => i + 1 \in T
    <2> SUFFICES ASSUME NEW i \in 0 .. count - 1, i \in T PROVE i + 1 \in T
      OBVIOUS
    <2>1. loop[i] \in S /\ Settled(loop[i].data, n, i)
      OBVIOUS
    <2>2. Turn(loop[i], i) \in S /\ Settled(Turn(loop[i], i).data, n, i + 1)
      BY <1>4, <1>41, <2>1
    <2>3. loop[i + 1] = Turn(loop[i], i) /\ i + 1 \in 0 .. count
      BY <1>2, <1>8
    <2> QED BY <2>2, <2>3
  <1>11. count \in T
    <2>1. \A i \in 0 .. count : i \in T
      <3> HIDE DEF T
      <3> QED BY <1>2, <1>9, <1>10, TurnInduction
    <2> QED BY <1>2, <2>1
  <1> DEFINE b == bubblesort(given)
  <1>12. b \in S /\ Settled(b.data, n, n - 1)
    BY <1>1, <1>11, <1>42
  <1> HIDE DEF b
  <1>13. b.data \in [1 .. n -> Int] /\ b.swaps \in Nat
    BY <1>12, <1>42 DEF KeptStates, n
  <1>14. b.swaps + Cardinality(Inversions(b.data)) = Cardinality(Inversions(given))
    BY <1>12, <1>42 DEF KeptStates
  <1>15. \A v : Cardinality({i \in 1 .. n : b.data[i] = v}) = Cardinality({i \in 1 .. n : given[i] = v})
    BY <1>12, <1>42 DEF KeptStates, n
  <1>16. \A y \in 1 .. n : \A x \in 1 .. y : b.data[x] <= b.data[y]
    <2> SUFFICES ASSUME NEW y \in 1 .. n, NEW x \in 1 .. y PROVE b.data[x] <= b.data[y]
      OBVIOUS
    <2>1. CASE y = 1
      BY <1>2, <1>13, <2>1
    <2>2. CASE y # 1
      <3>1. y \in n - (n - 1) + 1 .. n
        BY <1>2, <2>2
      <3> QED BY <1>12, <3>1 DEF Settled
    <2> QED BY <2>1, <2>2
  <1>17. Inversions(b.data) = {}
    <2> SUFFICES ASSUME NEW p \in Inversions(b.data) PROVE FALSE
      OBVIOUS
    <2>1. p[1] \in 1 .. n /\ p[2] \in 1 .. n /\ p[1] < p[2] /\ b.data[p[1]] > b.data[p[2]]
      BY <1>13 DEF Inversions
    <2>2. b.data[p[1]] \in Int /\ b.data[p[2]] \in Int
      BY <1>13, <2>1
    <2>3. p[1] \in 1 .. p[2]
      BY <2>1
    <2> QED BY <1>16, <2>1, <2>2, <2>3
  <1>18. b.swaps = Cardinality(Inversions(given))
    BY <1>13, <1>14, <1>17, FS_EmptySet
  <1>19. \A i \in 1 .. n - 1 : b.data[i] <= b.data[i + 1]
    <2> SUFFICES ASSUME NEW i \in 1 .. n - 1 PROVE b.data[i] <= b.data[i + 1]
      OBVIOUS
    <2>1. i + 1 \in 1 .. n /\ i \in 1 .. i + 1
      BY <1>2
    <2> QED BY <1>16, <2>1
  <1>20. DOMAIN b.data = 1 .. n /\ DOMAIN given = 1 .. n
    BY <1>2, <1>13
  <1>21. IsSorted(b.data, given)
    BY <1>15, <1>19, <1>20 DEF IsSorted, n
  <1> QED BY <1>18, <1>21 DEF b

----------------------------------------------------------------------------
(* Choosing some values of a sequence *)

\* q[i] is what of the first i values of s is picked.
IsPick(q, s, A, V) ==
  /\ q \in [0 .. Len(s) -> Seq(V)] /\ q[0] = << >>
  /\ \A i \in 0 .. Len(s) - 1 : q[i + 1] = IF i + 1 \in A THEN Append(q[i], s[i + 1]) ELSE q[i]

\* Pick gathers the values one by one.
LEMMA PickIs ==
  ASSUME NEW V, NEW s \in Seq(V), NEW A
  PROVE  \E q : IsPick(q, s, A, V) /\ Pick(s, A) = q[Len(s)]
  <1> DEFINE count == Len(s)
             S == Seq(V)
             start == << >>
             Turn(t, i) == IF i + 1 \in A THEN Append(t, s[i + 1]) ELSE t
             IsLoop(f) == f = [i \in 0 .. count |-> IF i <= 0 THEN start ELSE Turn(f[i - 1], i - 1)]
             loop == CHOOSE f : IsLoop(f)
             turn == [p \in S \X (0 .. count - 1) |-> Turn(p[1], p[2])]
  <1>1. Pick(s, A) = loop[count]
    BY DEF Pick, For
  <1>2. count \in Nat
    BY LenProperties
  <1>3. start \in S
    OBVIOUS
  <1>4. \A u \in S, i \in 0 .. count - 1 : Turn(u, i) \in S
    <2>1. \A i \in 0 .. count - 1 : s[i + 1] \in V
      BY <1>2
    <2> QED BY <2>1
  <1>41. count = Len(s) /\ S = Seq(V) /\ start = << >>
    OBVIOUS
  <1>42. \A t, i : Turn(t, i) = IF i + 1 \in A THEN Append(t, s[i + 1]) ELSE t
    OBVIOUS
  <1> HIDE DEF Turn, S, start, count
  <1>5. PICK g : IsRun(g, count, S, start, turn)
    <2>1. turn \in [S \X (0 .. count - 1) -> S]
      BY <1>4
    <2> HIDE DEF turn
    <2> QED BY <1>2, <1>3, <2>1, LoopRuns
  <1>6. IsLoop(g)
    <2> DEFINE turned == [i \in 0 .. count |-> IF i <= 0 THEN start ELSE Turn(g[i - 1], i - 1)]
    <2>1. g \in [0 .. count -> S]
      BY <1>5 DEF IsRun
    <2>2. g = [i \in 0 .. count |-> IF i <= 0 THEN start ELSE turn[<<g[i - 1], i - 1>>]]
      <3> HIDE DEF turn
      <3> QED BY <1>5 DEF IsRun
    <2>3. ASSUME NEW i \in 0 .. count PROVE g[i] = turned[i]
      <3>1. CASE i = 0
        BY <2>2, <3>1
      <3>2. CASE i # 0
        <4>1. i - 1 \in 0 .. count - 1 /\ i - 1 \in 0 .. count /\ ~(i <= 0)
          BY <1>2, <3>2
        <4>2. g[i] = turn[<<g[i - 1], i - 1>>]
          <5> HIDE DEF turn
          <5> QED BY <2>2, <4>1
        <4>3. g[i - 1] \in S
          BY <2>1, <4>1
        <4> QED BY <4>1, <4>2, <4>3
      <3> QED BY <3>1, <3>2
    <2> HIDE DEF turn
    <2> QED BY <2>1, <2>3
  <1>7. IsLoop(loop)
    <2> HIDE DEF IsLoop
    <2> QED BY <1>6
  <1> HIDE DEF loop, turn
  <1>8. loop[0] = start /\ \A i \in 0 .. count - 1 : loop[i + 1] = Turn(loop[i], i)
    BY <1>2, <1>7
  <1>9. \A i \in 0 .. count : loop[i] \in S
    <2> DEFINE T == {i \in 0 .. count : loop[i] \in S}
    <2>1. 0 \in T /\ \A i \in 0 .. count - 1 : i \in T => i + 1 \in T
      BY <1>2, <1>3, <1>4, <1>8
    <2>2. \A i \in 0 .. count : i \in T
      <3> HIDE DEF T
      <3> QED BY <1>2, <2>1, TurnInduction
    <2> QED BY <2>2
  <1>10. loop \in [0 .. count -> S]
    BY <1>7, <1>9
  <1> HIDE DEF IsLoop
  <1>11. loop \in [0 .. Len(s) -> Seq(V)] /\ loop[0] = << >>
    BY <1>8, <1>10, <1>41
  <1>12. \A i \in 0 .. Len(s) - 1 : loop[i + 1] = IF i + 1 \in A THEN Append(loop[i], s[i + 1]) ELSE loop[i]
    BY <1>8, <1>41, <1>42
  <1>13. IsPick(loop, s, A, V)
    BY <1>11, <1>12 DEF IsPick
  <1> QED BY <1>1, <1>13, <1>41

\* The total grows by the value appended.
LEMMA TotalAppend ==
  ASSUME NEW s \in Seq(Int), NEW x \in Int
  PROVE  Total(Append(s, x)) = Total(s) + x /\ Total(s) \in Int
  <1> DEFINE n == Len(s)
             t == Append(s, x)
  <1>1. n \in Nat /\ Len(t) = n + 1 /\ t \in Seq(Int) /\ t[n + 1] = x
    BY LenProperties
  <1>2. \A i \in 1 .. n : t[i] = s[i]
    BY <1>1
  <1>3. PICK P : IsSums(P, t)
    BY <1>1, SumsExist
  <1> HIDE DEF t
  <1>4. P \in [0 .. n + 1 -> Int] /\ P[0] = 0 /\ \A i \in 0 .. n : P[i + 1] = P[i] + t[i + 1]
    <2>1. (n + 1) - 1 = n
      BY <1>1
    <2> QED BY <1>1, <1>3, <2>1 DEF IsSums
  <1> DEFINE Q == [i \in 0 .. n |-> P[i]]
  <1>5. IsSums(Q, s)
    <2>1. Q \in [0 .. n -> Int] /\ Q[0] = 0
      BY <1>1, <1>4
    <2>2. ASSUME NEW i \in 0 .. n - 1 PROVE Q[i + 1] = Q[i] + s[i + 1]
      <3>1. i \in 0 .. n /\ i + 1 \in 0 .. n /\ i + 1 \in 1 .. n
        BY <1>1
      <3> QED BY <1>2, <1>4, <3>1
    <2> HIDE DEF Q
    <2> QED BY <2>1, <2>2 DEF IsSums
  <1>6. Total(s) = Q[n]
    <2> HIDE DEF Q
    <2> QED BY <1>1, <1>5, TotalIs
  <1>7. Total(t) = P[n + 1]
    BY <1>1, <1>3, TotalIs
  <1>8. Q[n] = P[n] /\ P[n] \in Int /\ P[n + 1] = P[n] + t[n + 1]
    <2>1. n \in 0 .. n /\ n \in 0 .. n + 1
      BY <1>1
    <2> HIDE DEF n
    <2>2. P[n] \in Int /\ P[n + 1] = P[n] + t[n + 1]
      BY <1>4, <2>1
    <2> QED BY <2>1, <2>2
  <1> QED BY <1>1, <1>6, <1>7, <1>8 DEF t

\* The values of s at A, and 0 elsewhere
Part(s, A) == [i \in 1 .. Len(s) |-> IF i \in A THEN s[i] ELSE 0]
Weight(s, A) == Total(Part(s, A))

\* A part of a sequence is as long.
LEMMA PartIs ==
  ASSUME NEW s \in Seq(Int), NEW A
  PROVE  /\ Part(s, A) \in Seq(Int) /\ Len(Part(s, A)) = Len(s) /\ Len(s) \in Nat
         /\ \A i \in 1 .. Len(s) : Part(s, A)[i] = IF i \in A THEN s[i] ELSE 0
  BY LenProperties DEF Part

\* What is picked weighs what the part weighs.
LEMMA PickWeighs ==
  ASSUME NEW s \in Seq(Int), NEW A
  PROVE  Total(Pick(s, A)) = Weight(s, A)
  <1> DEFINE n == Len(s)
             p == Part(s, A)
  <1>1. n \in Nat /\ p \in Seq(Int) /\ Len(p) = n /\ \A i \in 1 .. n : p[i] = IF i \in A THEN s[i] ELSE 0
    BY PartIs
  <1> HIDE DEF p
  <1>2. PICK P : IsSums(P, p)
    BY <1>1, SumsExist
  <1>3. P \in [0 .. n -> Int] /\ P[0] = 0 /\ \A i \in 0 .. n - 1 : P[i + 1] = P[i] + p[i + 1]
    BY <1>1, <1>2 DEF IsSums
  <1>4. PICK q : IsPick(q, s, A, Int) /\ Pick(s, A) = q[n]
    BY PickIs
  <1>5. q \in [0 .. n -> Seq(Int)] /\ q[0] = << >>
    BY <1>4 DEF IsPick
  <1>6. \A i \in 0 .. n - 1 : q[i + 1] = IF i + 1 \in A THEN Append(q[i], s[i + 1]) ELSE q[i]
    BY <1>4 DEF IsPick
  <1> DEFINE T == {i \in 0 .. n : Total(q[i]) = P[i]}
  <1>7. 0 \in T
    <2>1. IsSums([i \in 0 .. 0 |-> 0], << >>)
      BY DEF IsSums
    <2>2. Total(<< >>) = [i \in 0 .. 0 |-> 0][0]
      BY <2>1, TotalIs
    <2> QED BY <1>1, <1>3, <1>5, <2>2
  <1>8. ASSUME NEW i \in 0 .. n - 1, i \in T PROVE i + 1 \in T
    <2>1. i \in 0 .. n /\ i + 1 \in 0 .. n /\ i + 1 \in 1 .. n /\ Total(q[i]) = P[i]
      BY <1>1, <1>8
    <2>2. s[i + 1] \in Int /\ q[i] \in Seq(Int) /\ P[i] \in Int
      <3>1. s[i + 1] \in Int
        BY <2>1
      <3> HIDE DEF n
      <3>2. q[i] \in Seq(Int) /\ P[i] \in Int
        BY <1>3, <1>5, <2>1
      <3> QED BY <3>1, <3>2
    <2>3. Total(Append(q[i], s[i + 1])) = Total(q[i]) + s[i + 1]
      BY <2>2, TotalAppend
    <2>4. CASE i + 1 \in A
      <3>1. q[i + 1] = Append(q[i], s[i + 1])
        BY <1>6, <2>4
      <3>2. P[i + 1] = P[i] + s[i + 1]
        BY <1>1, <1>3, <2>1, <2>4
      <3> QED BY <2>1, <2>3, <3>1, <3>2
    <2>5. CASE i + 1 \notin A
      <3>1. q[i + 1] = q[i]
        BY <1>6, <2>5
      <3>2. P[i + 1] = P[i] + 0
        BY <1>1, <1>3, <2>1, <2>5
      <3> QED BY <2>1, <2>2, <3>1, <3>2
    <2> QED BY <2>4, <2>5
  <1>9. n \in T
    <2>1. \A i \in 0 .. n : i \in T
      <3> HIDE DEF T
      <3> QED BY <1>1, <1>7, <1>8, TurnInduction
    <2> QED BY <1>1, <2>1
  <1>10. Total(p) = P[n]
    BY <1>1, <1>2, TotalIs
  <1> QED BY <1>4, <1>9, <1>10 DEF Weight, p

\* Nothing weighs nothing, and everything the total.
LEMMA WeightEnds ==
  ASSUME NEW s \in Seq(Int)
  PROVE  Weight(s, {}) = 0 /\ Weight(s, 1 .. Len(s)) = Total(s)
  <1> DEFINE n == Len(s)
  <1>1. n \in Nat /\ Len(Part(s, {})) = n /\ \A i \in 1 .. n : Part(s, {})[i] = 0
    BY PartIs
  <1> DEFINE Z == [i \in 0 .. n |-> 0]
             p == Part(s, {})
  <1>2. IsSums(Z, p)
    <2>1. Z \in [0 .. n -> Int] /\ Z[0] = 0
      BY <1>1
    <2>2. ASSUME NEW i \in 0 .. n - 1 PROVE Z[i + 1] = Z[i] + p[i + 1]
      <3>1. i + 1 \in 1 .. n /\ i \in 0 .. n /\ i + 1 \in 0 .. n
        BY <1>1
      <3> QED BY <1>1, <3>1
    <2> HIDE DEF Z, p
    <2> QED BY <1>1, <2>1, <2>2 DEF IsSums, p
  <1>3. Total(p) = Z[n]
    <2> HIDE DEF Z
    <2> QED BY <1>1, <1>2, TotalIs
  <1>4. Part(s, 1 .. n) = s
    <2>1. s \in [1 .. n -> Int]
      BY LenProperties
    <2>2. Part(s, 1 .. n) = [i \in 1 .. n |-> s[i]]
      BY DEF Part
    <2> QED BY <2>1, <2>2
  <1>5. Z[n] = 0
    BY <1>1
  <1> QED BY <1>3, <1>4, <1>5 DEF Weight

\* One value more weighs its own weight more.
LEMMA WeightAdd ==
  ASSUME NEW s \in Seq(Int), NEW A, NEW m \in 1 .. Len(s), m \notin A
  PROVE  Weight(s, A \cup {m}) = Weight(s, A) + s[m] /\ Weight(s, A) \in Int /\ s[m] \in Int
  <1> DEFINE n == Len(s)
             p == Part(s, A)
             B == A \cup {m}
             r == Part(s, B)
  <1>1. n \in Nat /\ p \in Seq(Int) /\ Len(p) = n /\ \A i \in 1 .. n : p[i] = IF i \in A THEN s[i] ELSE 0
    BY PartIs
  <1>2. r \in Seq(Int) /\ Len(r) = n /\ \A i \in 1 .. n : r[i] = IF i \in B THEN s[i] ELSE 0
    BY PartIs
  <1>3. \A i \in 1 .. n : s[i] \in Int
    OBVIOUS
  <1>4. \A i \in 1 .. n : r[i] = IF i = m THEN p[i] + s[m] ELSE p[i]
    <2> SUFFICES ASSUME NEW i \in 1 .. n PROVE r[i] = IF i = m THEN p[i] + s[m] ELSE p[i]
      OBVIOUS
    <2>1. r[i] = (IF i \in B THEN s[i] ELSE 0) /\ p[i] = IF i \in A THEN s[i] ELSE 0
      BY <1>1, <1>2
    <2>2. s[i] \in Int /\ s[m] \in Int
      BY <1>3
    <2> HIDE DEF p, r
    <2>3. CASE i = m
      BY <2>1, <2>2, <2>3
    <2>4. CASE i # m
      BY <2>1, <2>4
    <2> QED BY <2>3, <2>4
  <1>5. \A i \in 1 .. n : p[i] \in Int
    BY <1>1
  <1> HIDE DEF p, r
  <1>6. PICK P : IsSums(P, p)
    BY <1>1, SumsExist
  <1>7. P \in [0 .. n -> Int] /\ P[0] = 0 /\ \A i \in 0 .. n - 1 : P[i + 1] = P[i] + p[i + 1]
    BY <1>1, <1>6 DEF IsSums
  <1> DEFINE Q == [i \in 0 .. n |-> IF i < m THEN P[i] ELSE P[i] + s[m]]
  <1>8. IsSums(Q, r)
    <2>1. Q \in [0 .. n -> Int]
      BY <1>3, <1>7
    <2>2. Q[0] = 0
      BY <1>1, <1>7
    <2>3. ASSUME NEW i \in 0 .. n - 1 PROVE Q[i + 1] = Q[i] + r[i + 1]
      <3>1. i + 1 \in 1 .. n /\ i \in 0 .. n /\ i + 1 \in 0 .. n
        BY <1>1
      <3>2. P[i] \in Int /\ p[i + 1] \in Int /\ s[m] \in Int /\ P[i + 1] = P[i] + p[i + 1]
        BY <1>3, <1>5, <1>7, <3>1
      <3>3. Q[i] = (IF i < m THEN P[i] ELSE P[i] + s[m]) /\ Q[i + 1] = IF i + 1 < m THEN P[i + 1] ELSE P[i + 1] + s[m]
        BY <3>1
      <3>4. r[i + 1] = IF i + 1 = m THEN p[i + 1] + s[m] ELSE p[i + 1]
        BY <1>4, <3>1
      <3> HIDE DEF Q
      <3>5. CASE i + 1 < m
        BY <3>2, <3>3, <3>4, <3>5
      <3>6. CASE i + 1 = m
        <4>1. i < m /\ ~(i + 1 < m)
          BY <3>6
        <4> QED BY <3>2, <3>3, <3>4, <3>6, <4>1
      <3>7. CASE i + 1 > m
        <4>1. ~(i < m) /\ ~(i + 1 < m) /\ i + 1 # m
          BY <3>7
        <4> QED BY <3>2, <3>3, <3>4, <4>1
      <3> QED BY <3>5, <3>6, <3>7
    <2> HIDE DEF Q
    <2> QED BY <1>2, <2>1, <2>2, <2>3 DEF IsSums
  <1>9. Total(p) = P[n]
    BY <1>1, <1>6, TotalIs
  <1>10. Total(r) = Q[n]
    <2> HIDE DEF Q
    <2> QED BY <1>1, <1>2, <1>8, TotalIs
  <1>11. Q[n] = P[n] + s[m] /\ P[n] \in Int
    BY <1>1, <1>7
  <1> QED BY <1>3, <1>9, <1>10, <1>11 DEF Weight, p, r, B

----------------------------------------------------------------------------
(* Tables *)

\* A table with one row more
LEMMA TableAppend ==
  ASSUME NEW m \in Nat, NEW w, w = [k \in 1 .. m |-> w[k]], NEW x
  PROVE  Append(w, x) = [k \in 1 .. m + 1 |-> IF k <= m THEN w[k] ELSE x]
  <1> DEFINE S == {w[k] : k \in 1 .. m} \cup {x}
  <1>1. w \in [1 .. m -> S]
    OBVIOUS
  <1>2. x \in S
    OBVIOUS
  <1> HIDE DEF S
  <1>3. w \in Seq(S) /\ Len(w) = m
    BY <1>1
  <1> QED BY <1>2, <1>3, AppendProperties

\* A row whose cells all hold x
Repeat(n, x) == For(n, <<x>>, LAMBDA row, j : Append(row, x))

\* It has n + 1 cells.
LEMMA RepeatIs ==
  ASSUME NEW n \in Nat, NEW x
  PROVE  Repeat(n, x) = [k \in 1 .. n + 1 |-> x]
  <1> DEFINE count == n
             start == <<x>>
             Turn(row, j) == Append(row, x)
             IsLoop(f) == f = [i \in 0 .. count |-> IF i <= 0 THEN start ELSE Turn(f[i - 1], i - 1)]
             loop == CHOOSE f : IsLoop(f)
             z == [i \in 0 .. count |-> [k \in 1 .. i + 1 |-> x]]
  <1>1. Repeat(n, x) = loop[count]
    BY DEF Repeat, For
  <1>2. count \in Nat
    OBVIOUS
  <1>3. \A row, i : Turn(row, i) = Append(row, x)
    OBVIOUS
  <1>4. z = [i \in 0 .. count |-> z[i]]
    OBVIOUS
  <1>5. z[0] = start
    BY <1>2
  <1>50. count = n
    OBVIOUS
  <1> HIDE DEF Turn, count
  <1>6. ASSUME NEW i \in 0 .. count - 1 PROVE z[i + 1] = Turn(z[i], i)
    <2>1. i \in 0 .. count /\ i + 1 \in 0 .. count /\ i + 1 \in Nat /\ (i + 1) + 1 = i + 2
      BY <1>2
    <2> DEFINE v == [k \in 1 .. i + 1 |-> x]
    <2>2. z[i] = v /\ z[i + 1] = [k \in 1 .. i + 2 |-> x]
      BY <2>1
    <2>3. v = [k \in 1 .. i + 1 |-> v[k]] /\ \A k \in 1 .. i + 1 : v[k] = x
      OBVIOUS
    <2> HIDE DEF v
    <2>4. Append(v, x) = [k \in 1 .. (i + 1) + 1 |-> IF k <= i + 1 THEN v[k] ELSE x]
      BY <2>1, <2>3, TableAppend
    <2>5. Append(v, x) = [k \in 1 .. i + 2 |-> x]
      BY <2>1, <2>3, <2>4
    <2> HIDE DEF z
    <2> QED BY <1>3, <2>2, <2>5
  <1> HIDE DEF Turn, start, count, z
  <1>7. IsLoop(z)
    <2> DEFINE turned == [i \in 0 .. count |-> IF i <= 0 THEN start ELSE Turn(z[i - 1], i - 1)]
    <2>1. ASSUME NEW i \in 0 .. count PROVE z[i] = turned[i]
      <3>1. CASE i = 0
        BY <1>5, <3>1
      <3>2. CASE i # 0
        <4>1. i - 1 \in 0 .. count - 1 /\ (i - 1) + 1 = i /\ ~(i <= 0)
          BY <1>2, <3>2
        <4>2. z[i] = Turn(z[i - 1], i - 1)
          BY <1>6, <4>1
        <4> QED BY <4>1, <4>2
      <3> QED BY <3>1, <3>2
    <2> QED BY <1>4, <2>1
  <1>8. IsLoop(loop)
    <2> HIDE DEF IsLoop
    <2> QED BY <1>7
  <1> HIDE DEF loop
  <1>9. loop[count] = z[count]
    <2>1. loop[0] = start
      BY <1>2, <1>8
    <2>2. \A i \in 0 .. count - 1 : loop[i + 1] = Turn(loop[i], i)
      BY <1>2, <1>8
    <2>3. \A i \in 0 .. count - 1 : loop[i] = z[i] => loop[i + 1] = z[i + 1]
      BY <1>6, <2>2
    <2>4. loop[0] = z[0]
      BY <1>5, <2>1
    <2> HIDE DEF IsLoop
    <2> QED BY <1>2, <2>3, <2>4, LoopsEndAlike
  <1> QED BY <1>1, <1>2, <1>9, <1>50 DEF z

\* Natural numbers have a natural weight.
LEMMA WeightNat ==
  ASSUME NEW s \in Seq(Nat), NEW A
  PROVE  Weight(s, A) \in Nat /\ Weight(s, A) \in Int /\ s \in Seq(Int)
  <1> DEFINE n == Len(s)
             p == Part(s, A)
  <1>0. s \in Seq(Int)
    OBVIOUS
  <1>1. n \in Nat /\ p \in Seq(Int) /\ Len(p) = n /\ \A i \in 1 .. n : p[i] = IF i \in A THEN s[i] ELSE 0
    BY <1>0, PartIs
  <1>2. \A i \in 1 .. n : p[i] \in Nat
    <2>1. \A i \in 1 .. n : s[i] \in Nat
      OBVIOUS
    <2> HIDE DEF p, n
    <2> QED BY <1>1, <2>1
  <1> HIDE DEF p
  <1>3. PICK P : IsSums(P, p)
    BY <1>1, SumsExist
  <1>4. P \in [0 .. n -> Int] /\ P[0] = 0 /\ \A i \in 0 .. n - 1 : P[i + 1] = P[i] + p[i + 1]
    BY <1>1, <1>3 DEF IsSums
  <1> DEFINE T == {i \in 0 .. n : P[i] \in Nat}
  <1>5. 0 \in T
    BY <1>1, <1>4
  <1>6. ASSUME NEW i \in 0 .. n - 1, i \in T PROVE i + 1 \in T
    <2>1. i + 1 \in 0 .. n /\ i + 1 \in 1 .. n
      BY <1>1
    <2> QED BY <1>2, <1>4, <1>6, <2>1
  <1>7. n \in T
    <2>1. \A i \in 0 .. n : i \in T
      <3> HIDE DEF T
      <3> QED BY <1>1, <1>5, <1>6, TurnInduction
    <2> QED BY <1>1, <2>1
  <1>8. Total(p) = P[n]
    BY <1>1, <1>3, TotalIs
  <1> QED BY <1>0, <1>7, <1>8 DEF Weight, p

----------------------------------------------------------------------------
(* Partition into equal halves *)

\* The sums up to MaxSum that some of the first i values have
SumsOf(s, i) == {x \in 0 .. MaxSum : \E A \in SUBSET (1 .. i) : Weight(s, A) = x}

\* Without a value the sum is 0.
LEMMA SumsOfNone ==
  ASSUME NEW s \in Seq(Nat)
  PROVE  SumsOf(s, 0) = {0}
  <1>1. SUBSET (1 .. 0) = {{}}
    OBVIOUS
  <1>2. Weight(s, {}) = 0
    BY WeightNat, WeightEnds
  <1>3. 0 \in 0 .. MaxSum
    BY KernelAssumption
  <1> QED BY <1>1, <1>2, <1>3 DEF SumsOf

\* One value more adds the sums it completes.
LEMMA SumsOfNext ==
  ASSUME NEW s \in Seq(Nat), NEW i \in 0 .. Len(s) - 1
  PROVE  SumsOf(s, i + 1)
           = SumsOf(s, i) \cup {x \in 0 .. MaxSum : \E prev \in SumsOf(s, i) : prev + s[i + 1] = x}
  <1> DEFINE m == i + 1
             v == s[i + 1]
             More == {x \in 0 .. MaxSum : \E prev \in SumsOf(s, i) : prev + v = x}
  <1>1. i \in Nat /\ m \in 1 .. Len(s) /\ v \in Nat /\ MaxSum \in Nat
    <2>1. i \in Nat /\ m \in 1 .. Len(s) /\ s[m] \in Nat
      BY LenProperties
    <2> QED BY <2>1, KernelAssumption
  <1>2. \A A : m \notin A => Weight(s, A \cup {m}) = Weight(s, A) + v
    BY <1>1, WeightNat, WeightAdd
  <1>3. \A A : Weight(s, A) \in Nat
    BY WeightNat
  <1> HIDE DEF v
  <1>4. ASSUME NEW x \in SumsOf(s, m) PROVE x \in SumsOf(s, i) \cup More
    <2>1. x \in 0 .. MaxSum
      BY DEF SumsOf
    <2>2. PICK A \in SUBSET (1 .. m) : Weight(s, A) = x
      BY DEF SumsOf
    <2>3. CASE m \in A
      <3> DEFINE B == A \ {m}
                 prev == Weight(s, B)
      <3>1. B \in SUBSET (1 .. i) /\ m \notin B /\ A = B \cup {m}
        BY <1>1, <2>3
      <3> HIDE DEF B
      <3>2. prev + v = x /\ prev \in Nat
        BY <1>2, <1>3, <2>2, <3>1
      <3>3. prev \in 0 .. MaxSum
        BY <1>1, <2>1, <3>2
      <3>4. prev \in SumsOf(s, i)
        BY <3>1, <3>3 DEF SumsOf
      <3> HIDE DEF prev
      <3> QED BY <2>1, <3>2, <3>4
    <2>4. CASE m \notin A
      <3>1. A \in SUBSET (1 .. i)
        BY <1>1, <2>4
      <3> QED BY <2>1, <2>2, <3>1 DEF SumsOf
    <2> QED BY <2>3, <2>4
  <1>5. ASSUME NEW x \in SumsOf(s, i) PROVE x \in SumsOf(s, m)
    <2>1. SUBSET (1 .. i) \subseteq SUBSET (1 .. m)
      BY <1>1
    <2> QED BY <2>1 DEF SumsOf
  <1>6. ASSUME NEW x \in More PROVE x \in SumsOf(s, m)
    <2>1. PICK prev \in SumsOf(s, i) : prev + v = x
      OBVIOUS
    <2>2. x \in 0 .. MaxSum
      OBVIOUS
    <2>3. PICK B \in SUBSET (1 .. i) : Weight(s, B) = prev
      BY DEF SumsOf
    <2>4. m \notin B /\ B \cup {m} \in SUBSET (1 .. m)
      BY <1>1
    <2>5. Weight(s, B \cup {m}) = x
      BY <1>2, <2>1, <2>3, <2>4
    <2> QED BY <2>2, <2>4, <2>5 DEF SumsOf
  <1>7. SumsOf(s, m) = SumsOf(s, i) \cup More
    <2> HIDE DEF More, m
    <2> QED BY <1>4, <1>5, <1>6
  <1> QED BY <1>7 DEF v

\* Row i of reachable holds the sums of the first i values.
LEMMA ReachableIs ==
  ASSUME NEW s \in Seq(Nat)
  PROVE  \A i \in 0 .. Len(s) : Reachable(s)[i + 1] = SumsOf(s, i)
  <1> DEFINE count == Len(s)
             start == <<{0}>>
             Turn(r, i) == Append(r, r[i + 1] \cup {x \in 0 .. MaxSum : \E prev \in r[i + 1] : prev + s[i + 1] = x})
             IsLoop(f) == f = [i \in 0 .. count |-> IF i <= 0 THEN start ELSE Turn(f[i - 1], i - 1)]
             loop == CHOOSE f : IsLoop(f)
             Row(k) == SumsOf(s, k - 1)
             c == [i \in 0 .. count |-> [k \in 1 .. i + 1 |-> Row(k)]]
  <1>1. Reachable(s) = loop[count]
    BY DEF Reachable, For
  <1>2. count \in Nat
    BY LenProperties
  <1>3. ASSUME NEW i \in 0 .. count - 1 PROVE Row(i + 2) = Row(i + 1) \cup {x \in 0 .. MaxSum : \E prev \in Row(i + 1) : prev + s[i + 1] = x}
    <2>1. (i + 2) - 1 = i + 1 /\ (i + 1) - 1 = i
      BY <1>2
    <2> QED BY <2>1, SumsOfNext
  <1>30. Row(1) = {0}
    <2>1. 1 - 1 = 0
      OBVIOUS
    <2> QED BY <2>1, SumsOfNone
  <1>31. \A r, i : Turn(r, i) = Append(r, r[i + 1] \cup {x \in 0 .. MaxSum : \E prev \in r[i + 1] : prev + s[i + 1] = x})
    OBVIOUS
  <1>32. count = Len(s) /\ start = <<{0}>>
    OBVIOUS
  <1>33. \A k : Row(k) = SumsOf(s, k - 1)
    OBVIOUS
  <1> HIDE DEF Row, Turn, count, start
  <1>4. c = [i \in 0 .. count |-> c[i]]
    OBVIOUS
  <1>5. c[0] = start
    <2>1. 0 \in 0 .. count /\ 0 + 1 = 1 /\ 1 .. 1 = {1}
      BY <1>2
    <2>2. c[0] = [k \in 1 .. 1 |-> Row(k)]
      BY <2>1
    <2>3. [k \in 1 .. 1 |-> Row(k)] = <<Row(1)>>
      OBVIOUS
    <2> QED BY <1>30, <1>32, <2>2, <2>3
  <1>6. ASSUME NEW i \in 0 .. count - 1 PROVE c[i + 1] = Turn(c[i], i)
    <2>1. i \in 0 .. count /\ i + 1 \in 0 .. count /\ i \in Nat /\ i + 1 \in 1 .. i + 1 /\ (i + 1) + 1 = i + 2
      BY <1>2
    <2> DEFINE w == [k \in 1 .. i + 1 |-> Row(k)]
    <2>2. c[i] = w
      BY <2>1
    <2>3. c[i + 1] = [k \in 1 .. i + 2 |-> Row(k)]
      BY <2>1
    <2>4. w[i + 1] = Row(i + 1)
      BY <2>1
    <2>5. Turn(w, i) = Append(w, Row(i + 2))
      <3> HIDE DEF w
      <3> QED BY <1>3, <1>31, <2>4
    <2>6. Append(w, Row(i + 2)) = [k \in 1 .. i + 2 |-> Row(k)]
      <3>1. i + 1 \in Nat /\ w = [k \in 1 .. i + 1 |-> w[k]] /\ \A k \in 1 .. i + 1 : w[k] = Row(k)
        BY <2>1
      <3> HIDE DEF w
      <3>2. Append(w, Row(i + 2)) = [k \in 1 .. (i + 1) + 1 |-> IF k <= i + 1 THEN w[k] ELSE Row(i + 2)]
        BY <3>1, TableAppend
      <3>3. \A k \in 1 .. i + 2 : (IF k <= i + 1 THEN w[k] ELSE Row(i + 2)) = Row(k)
        BY <2>1, <3>1
      <3> QED BY <2>1, <3>2, <3>3
    <2> HIDE DEF w, c
    <2> QED BY <2>2, <2>3, <2>5, <2>6
  <1> HIDE DEF Turn, start, count, c
  <1>7. IsLoop(c)
    <2> DEFINE turned == [i \in 0 .. count |-> IF i <= 0 THEN start ELSE Turn(c[i - 1], i - 1)]
    <2>1. ASSUME NEW i \in 0 .. count PROVE c[i] = turned[i]
      <3>1. CASE i = 0
        BY <1>5, <3>1
      <3>2. CASE i # 0
        <4>1. i - 1 \in 0 .. count - 1 /\ (i - 1) + 1 = i /\ ~(i <= 0)
          BY <1>2, <3>2
        <4>2. c[i] = Turn(c[i - 1], i - 1)
          BY <1>6, <4>1
        <4> QED BY <4>1, <4>2
      <3> QED BY <3>1, <3>2
    <2> QED BY <1>4, <2>1
  <1>8. IsLoop(loop)
    <2> HIDE DEF IsLoop
    <2> QED BY <1>7
  <1> HIDE DEF loop
  <1>9. loop[count] = c[count]
    <2>1. loop[0] = start
      BY <1>2, <1>8
    <2>2. \A i \in 0 .. count - 1 : loop[i + 1] = Turn(loop[i], i)
      BY <1>2, <1>8
    <2>3. \A i \in 0 .. count - 1 : loop[i] = c[i] => loop[i + 1] = c[i + 1]
      BY <1>6, <2>2
    <2>4. loop[0] = c[0]
      BY <1>5, <2>1
    <2> HIDE DEF IsLoop
    <2> QED BY <1>2, <2>3, <2>4, LoopsEndAlike
  <1>10. c[count] = [k \in 1 .. count + 1 |-> Row(k)]
    BY <1>2 DEF c
  <1>11. \A i \in 0 .. count : Reachable(s)[i + 1] = Row(i + 1)
    BY <1>1, <1>2, <1>9, <1>10
  <1> QED BY <1>2, <1>11, <1>32, <1>33

\* One turn of the walk back through the rows
WalkTurn(s, can, t, k) ==
  LET i == Len(s) - k
      prevs == {p \in Reachable(s)[i] : p + s[i] = t.sum}
  IN  IF can /\ prevs # {} THEN [sum |-> Min(prevs), mask |-> t.mask \cup {i}] ELSE t

\* What is left after k turns is a sum of the first values, and what has been
\* taken of the last k makes up the rest.
WalkInv(s, t, k, target) ==
  /\ t.sum \in SumsOf(s, Len(s) - k) /\ t.mask \in SUBSET (Len(s) - k + 1 .. Len(s))
  /\ t.sum + Weight(s, t.mask) = target

\* A turn takes a value if it can, and what is left is still a sum.
LEMMA WalkTurnIs ==
  ASSUME NEW s \in Seq(Nat), NEW k \in 0 .. Len(s) - 1, NEW target \in Nat, NEW can \in BOOLEAN,
         NEW t \in [sum : Nat, mask : SUBSET (1 .. Len(s))]
  PROVE  /\ WalkTurn(s, can, t, k) \in [sum : Nat, mask : SUBSET (1 .. Len(s))]
         /\ can /\ WalkInv(s, t, k, target) => WalkInv(s, WalkTurn(s, can, t, k), k + 1, target)
         /\ ~can => WalkTurn(s, can, t, k) = t
  <1> DEFINE n == Len(s)
             i == n - k
             v == s[i]
             prevs == {p \in Reachable(s)[i] : p + v = t.sum}
             r == WalkTurn(s, can, t, k)
             took == [sum |-> t.sum - v, mask |-> t.mask \cup {i}]
  <1>1. n \in Nat /\ i \in 1 .. n /\ v \in Nat /\ i - 1 \in 0 .. n - 1 /\ i - 1 \in 0 .. n /\ (i - 1) + 1 = i
    BY LenProperties
  <1>2. Reachable(s)[i] = SumsOf(s, i - 1)
    BY <1>1, ReachableIs
  <1>3. SumsOf(s, i - 1) \in SUBSET Nat
    BY DEF SumsOf
  <1>4. t.sum \in Nat /\ t.mask \in SUBSET (1 .. n)
    OBVIOUS
  <1>5. r = IF can /\ prevs # {} THEN [sum |-> Min(prevs), mask |-> t.mask \cup {i}] ELSE t
    BY DEF WalkTurn
  <1>6. \A x : x \in SumsOf(s, i) => x \in SumsOf(s, i - 1) \/ \E p \in SumsOf(s, i - 1) : p + v = x
    <2>1. SumsOf(s, (i - 1) + 1) = SumsOf(s, i - 1)
            \cup {x \in 0 .. MaxSum : \E p \in SumsOf(s, i - 1) : p + s[(i - 1) + 1] = x}
      <3> HIDE DEF i
      <3> QED BY <1>1, SumsOfNext
    <2> HIDE DEF i, v
    <2>2. s[(i - 1) + 1] = v /\ SumsOf(s, (i - 1) + 1) = SumsOf(s, i)
      BY <1>1 DEF v
    <2> QED BY <2>1, <2>2
  <1>7. n - k = i /\ n - (k + 1) = i - 1 /\ n - (k + 1) + 1 = i
    BY <1>1
  <1>8. prevs # {} => t.sum - v \in SumsOf(s, i - 1) /\ t.sum - v \in Nat /\ Min(prevs) = t.sum - v
    <2> HAVE prevs # {}
    <2> HIDE DEF i, v
    <2>1. PICK p \in prevs : TRUE
      OBVIOUS
    <2>2. p \in Nat /\ p \in SumsOf(s, i - 1) /\ p + v = t.sum
      BY <1>2, <1>3, <2>1
    <2>3. p = t.sum - v
      BY <1>1, <1>4, <2>2
    <2>4. prevs \in SUBSET Int /\ \A y \in prevs : p <= y
      BY <1>1, <1>2, <1>3, <1>4, <2>2, SMTT(30)
    <2>5. Min(prevs) = p
      <3> HIDE DEF prevs
      <3> QED BY <2>1, <2>4, MinIs
    <2> HIDE DEF prevs
    <2> QED BY <2>2, <2>3, <2>5
  <1>9. can /\ prevs # {} => r = took
    <2> HIDE DEF prevs
    <2> QED BY <1>5, <1>8
  <1>10. ~can \/ prevs = {} => r = t
    <2> HIDE DEF prevs
    <2> QED BY <1>5
  <1>11. prevs = {} => ~\E p \in SumsOf(s, i - 1) : p + v = t.sum
    BY <1>2
  <1>12. took.sum = t.sum - v /\ took.mask = t.mask \cup {i}
    OBVIOUS
  <1> HIDE DEF prevs, n, i, v, r
  <1>13. r \in [sum : Nat, mask : SUBSET (1 .. n)]
    <2>1. CASE can /\ prevs # {}
      BY <1>1, <1>4, <1>8, <1>9, <2>1
    <2>2. CASE ~can \/ prevs = {}
      BY <1>10, <2>2 DEF n
    <2> QED BY <2>1, <2>2
  <1>14. ASSUME can, WalkInv(s, t, k, target) PROVE WalkInv(s, r, k + 1, target)
    <2>1. t.sum \in SumsOf(s, i) /\ t.mask \in SUBSET (i + 1 .. n) /\ t.sum + Weight(s, t.mask) = target
      BY <1>7, <1>14 DEF WalkInv, n
    <2>2. CASE prevs # {}
      <3>1. i \notin t.mask /\ t.mask \cup {i} \in SUBSET (i .. n)
        BY <1>1, <2>1
      <3>2. Weight(s, t.mask \cup {i}) = Weight(s, t.mask) + v /\ Weight(s, t.mask) \in Nat
        BY <1>1, <3>1, WeightNat, WeightAdd DEF n, v
      <3>3. (t.sum - v) + (Weight(s, t.mask) + v) = target
        BY <1>1, <1>4, <2>1, <3>2
      <3> HIDE DEF took
      <3>4. r.sum \in SumsOf(s, i - 1) /\ r.mask \in SUBSET (i .. n) /\ r.sum + Weight(s, r.mask) = target
        BY <1>8, <1>9, <1>12, <1>14, <2>2, <3>1, <3>2, <3>3
      <3> QED BY <1>7, <3>4 DEF WalkInv, n
    <2>3. CASE prevs = {}
      <3>1. t.sum \in SumsOf(s, i - 1)
        BY <1>6, <1>11, <2>1, <2>3
      <3>2. t.mask \in SUBSET (i .. n)
        BY <1>1, <2>1
      <3> QED BY <1>7, <1>10, <2>1, <2>3, <3>1, <3>2 DEF WalkInv, n
    <2> QED BY <2>2, <2>3
  <1> QED BY <1>10, <1>13, <1>14 DEF n, r

\* The walk ends with values that make up the target, if it was a sum.
LEMMA WalkIs ==
  ASSUME NEW s \in Seq(Nat), NEW target \in Nat, NEW can \in BOOLEAN,
         can => target \in SumsOf(s, Len(s))
  PROVE  LET t == For(Len(s), [sum |-> target, mask |-> {}], LAMBDA t, k : WalkTurn(s, can, t, k))
         IN  /\ t.mask \in SUBSET (1 .. Len(s))
             /\ can => Weight(s, t.mask) = target
             /\ ~can => t.mask = {}
  <1> DEFINE count == Len(s)
             S == [sum : Nat, mask : SUBSET (1 .. Len(s))]
             start == [sum |-> target, mask |-> {}]
             Turn(t, k) == WalkTurn(s, can, t, k)
             IsLoop(f) == f = [i \in 0 .. count |-> IF i <= 0 THEN start ELSE Turn(f[i - 1], i - 1)]
             loop == CHOOSE f : IsLoop(f)
             turn == [p \in S \X (0 .. count - 1) |-> Turn(p[1], p[2])]
             last == For(Len(s), [sum |-> target, mask |-> {}], LAMBDA t, k : WalkTurn(s, can, t, k))
  <1>1. last = loop[count]
    BY DEF For
  <1>2. count \in Nat
    BY LenProperties
  <1>3. start \in S
    OBVIOUS
  <1>4. \A t \in S, k \in 0 .. count - 1 : Turn(t, k) \in S
    BY WalkTurnIs
  <1>40. \A t \in S, k \in 0 .. count - 1 : can /\ WalkInv(s, t, k, target) => WalkInv(s, Turn(t, k), k + 1, target)
    BY WalkTurnIs
  <1>41. \A t \in S, k \in 0 .. count - 1 : ~can => Turn(t, k) = t
    BY WalkTurnIs
  <1>42. count = Len(s) /\ S = [sum : Nat, mask : SUBSET (1 .. Len(s))] /\ start.mask = {}
    OBVIOUS
  <1>43. can => WalkInv(s, start, 0, target)
    <2>1. start.sum = target /\ start.mask = {} /\ Len(s) - 0 = Len(s)
      BY <1>2
    <2>2. Weight(s, {}) = 0
      BY WeightNat, WeightEnds
    <2> HIDE DEF start
    <2>3. start.sum + Weight(s, start.mask) = target
      BY <2>1, <2>2
    <2> QED BY <2>1, <2>3 DEF WalkInv
  <1> HIDE DEF Turn, S, start, count
  <1>5. PICK g : IsRun(g, count, S, start, turn)
    <2>1. turn \in [S \X (0 .. count - 1) -> S]
      BY <1>4
    <2> HIDE DEF turn
    <2> QED BY <1>2, <1>3, <2>1, LoopRuns
  <1>6. IsLoop(g)
    <2> DEFINE turned == [i \in 0 .. count |-> IF i <= 0 THEN start ELSE Turn(g[i - 1], i - 1)]
    <2>1. g \in [0 .. count -> S]
      BY <1>5 DEF IsRun
    <2>2. g = [i \in 0 .. count |-> IF i <= 0 THEN start ELSE turn[<<g[i - 1], i - 1>>]]
      <3> HIDE DEF turn
      <3> QED BY <1>5 DEF IsRun
    <2>3. ASSUME NEW i \in 0 .. count PROVE g[i] = turned[i]
      <3>1. CASE i = 0
        BY <2>2, <3>1
      <3>2. CASE i # 0
        <4>1. i - 1 \in 0 .. count - 1 /\ i - 1 \in 0 .. count /\ ~(i <= 0)
          BY <1>2, <3>2
        <4>2. g[i] = turn[<<g[i - 1], i - 1>>]
          <5> HIDE DEF turn
          <5> QED BY <2>2, <4>1
        <4>3. g[i - 1] \in S
          BY <2>1, <4>1
        <4> QED BY <4>1, <4>2, <4>3
      <3> QED BY <3>1, <3>2
    <2> HIDE DEF turn
    <2> QED BY <2>1, <2>3
  <1>7. IsLoop(loop)
    <2> HIDE DEF IsLoop
    <2> QED BY <1>6
  <1> HIDE DEF loop, turn
  <1>8. loop[0] = start /\ \A i \in 0 .. count - 1 : loop[i + 1] = Turn(loop[i], i)
    BY <1>2, <1>7
  <1> HIDE DEF last
  <1> DEFINE T == {k \in 0 .. count : /\ loop[k] \in S
                                      /\ can => WalkInv(s, loop[k], k, target)
                                      /\ ~can => loop[k] = start}
  <1>9. 0 \in T
    BY <1>2, <1>3, <1>8, <1>43
  <1>10. ASSUME NEW k \in 0 .. count - 1, k \in T PROVE k + 1 \in T
    <2>1. loop[k] \in S /\ (can => WalkInv(s, loop[k], k, target)) /\ (~can => loop[k] = start)
      BY <1>10
    <2>2. loop[k + 1] = Turn(loop[k], k) /\ k + 1 \in 0 .. count
      BY <1>2, <1>8
    <2>3. Turn(loop[k], k) \in S
      BY <1>4, <2>1
    <2>4. can => WalkInv(s, Turn(loop[k], k), k + 1, target)
      BY <1>40, <2>1
    <2>5. ~can => Turn(loop[k], k) = loop[k]
      BY <1>41, <2>1
    <2> QED BY <2>1, <2>2, <2>3, <2>4, <2>5
  <1>11. count \in T
    <2>1. \A k \in 0 .. count : k \in T
      <3> HIDE DEF T
      <3> QED BY <1>2, <1>9, <1>10, TurnInduction
    <2> QED BY <1>2, <2>1
  <1>12. last \in S /\ (can => WalkInv(s, last, Len(s), target)) /\ (~can => last = start)
    BY <1>1, <1>11, <1>42
  <1>13. can => Weight(s, last.mask) = target
    <2> HAVE can
    <2>1. Len(s) - Len(s) = 0
      BY <1>2, <1>42
    <2>2. last.sum \in SumsOf(s, 0) /\ last.sum + Weight(s, last.mask) = target
      BY <1>12, <2>1 DEF WalkInv
    <2>3. last.sum = 0 /\ Weight(s, last.mask) \in Nat
      BY <2>2, SumsOfNone, WeightNat
    <2> QED BY <2>2, <2>3
  <1>14. last.mask \in SUBSET (1 .. Len(s))
    BY <1>12, <1>42
  <1> QED BY <1>12, <1>13, <1>14, <1>42 DEF last

\* encrypted_partition_equal tells whether the values have two halves of equal
\* sum, and its mask is one of them, when half the total fits its tables.
THEOREM EqualPartition ==
  ASSUME NEW s \in Seq(Nat), Total(s) <= 2 * MaxSum + 1
  PROVE  PartitionAgrees(s)
  <1> DEFINE n == Len(s)
             total == Total(s)
             target == total \div 2
             can == total % 2 = 0 /\ target \in Reachable(s)[n + 1]
             walk == For(n, [sum |-> target, mask |-> {}], LAMBDA t, k : WalkTurn(s, can, t, k))
             r == encrypted_partition_equal(s)
             halves == {A \in SUBSET DOMAIN s : 2 * Total(Pick(s, A)) = Total(s)}
  <1>1. n \in Nat /\ DOMAIN s = 1 .. n /\ s \in Seq(Int) /\ MaxSum \in Nat
    BY LenProperties, KernelAssumption
  <1>2. \A A : Total(Pick(s, A)) = Weight(s, A) /\ Weight(s, A) \in Nat
    BY <1>1, PickWeighs, WeightNat
  <1>3. total \in Nat /\ total <= 2 * MaxSum + 1
    BY <1>1, WeightEnds, WeightNat
  <1>4. r = [can |-> can, mask |-> walk.mask]
    BY DEF encrypted_partition_equal, WalkTurn
  <1>5. can <=> total % 2 = 0 /\ target \in SumsOf(s, n)
    BY <1>1, ReachableIs
  <1>50. can \in BOOLEAN
    OBVIOUS
  <1>51. halves = {A \in SUBSET (1 .. n) : 2 * Weight(s, A) = total}
    BY <1>1, <1>2
  <1> HIDE DEF total, halves, r
  <1>6. target \in Nat /\ (total % 2 = 0 => 2 * target = total)
    BY <1>3
  <1>7. \A w \in Nat : 2 * w = total => total % 2 = 0 /\ target = w /\ w \in 0 .. MaxSum
    BY <1>1, <1>3
  <1> HIDE DEF can, target
  <1>8. /\ walk.mask \in SUBSET (1 .. n)
        /\ can => Weight(s, walk.mask) = target
        /\ ~can => walk.mask = {}
    BY <1>5, <1>50, <1>6, WalkIs
  <1> HIDE DEF walk
  <1>9. can => walk.mask \in halves
    BY <1>5, <1>51, <1>6, <1>8
  <1>10. halves # {} => can
    <2> HAVE halves # {}
    <2>1. PICK A \in SUBSET (1 .. n) : 2 * Weight(s, A) = total
      BY <1>51
    <2>2. total % 2 = 0 /\ target = Weight(s, A) /\ Weight(s, A) \in 0 .. MaxSum
      BY <1>2, <1>7, <2>1
    <2> QED BY <1>5, <2>2 DEF SumsOf
  <1>11. r.can = can /\ r.mask = walk.mask
    BY <1>4
  <1>12. (r.can <=> halves # {}) /\ r.mask \in IF r.can THEN halves ELSE {{}}
    BY <1>8, <1>9, <1>10, <1>11
  <1> QED BY <1>12 DEF PartitionAgrees, r, halves

----------------------------------------------------------------------------
(* The knapsack *)

\* What a row of K holds for capacity w, from the row above it
KnapCell(above, a, b, w) ==
  IF w = 0 THEN 0
  ELSE IF a <= w /\ b + above[w - a + 1] > above[w + 1] THEN b + above[w - a + 1] ELSE above[w + 1]

\* A row of K, cell by cell
LEMMA KnapRowIs ==
  ASSUME NEW above, NEW a \in Nat, NEW b
  PROVE  KnapRow(above, a, b) = [k \in 1 .. Capacity + 1 |-> KnapCell(above, a, b, k - 1)]
  <1> DEFINE count == Capacity
             start == <<0>>
             Turn(row, c) ==
               LET w == c + 1
                   Kw == Scan(above, Capacity + 1, w - a, TRUE, -1)
                   maxval == IF b + Kw > above[w + 1] THEN b + Kw ELSE above[w + 1]
               IN  Append(row, IF a <= w THEN maxval ELSE above[w + 1])
             IsLoop(f) == f = [i \in 0 .. count |-> IF i <= 0 THEN start ELSE Turn(f[i - 1], i - 1)]
             loop == CHOOSE f : IsLoop(f)
             Cell(k) == KnapCell(above, a, b, k - 1)
             z == [i \in 0 .. count |-> [k \in 1 .. i + 1 |-> Cell(k)]]
  <1>1. KnapRow(above, a, b) = loop[count]
    BY DEF KnapRow, For
  <1>2. count \in Nat
    BY KernelAssumption
  <1>30. Cell(1) = 0
    BY DEF KnapCell
  <1>3. ASSUME NEW row, NEW i \in 0 .. count - 1 PROVE Turn(row, i) = Append(row, Cell(i + 2))
    <2>1. (i + 2) - 1 = i + 1 /\ i + 1 # 0
      BY <1>2
    <2> DEFINE w == i + 1
               Kw == Scan(above, Capacity + 1, w - a, TRUE, -1)
               maxval == IF b + Kw > above[w + 1] THEN b + Kw ELSE above[w + 1]
    <2>2. a <= w => w - a \in 0 .. (Capacity + 1) - 1 /\ Capacity + 1 \in Nat
      BY <1>2
    <2>3. a <= w => Kw = above[w - a + 1]
      <3> HIDE DEF w
      <3> QED BY <2>2, ScanIs
    <2>4. Turn(row, i) = Append(row, IF a <= w THEN maxval ELSE above[w + 1])
      OBVIOUS
    <2>5. Cell(i + 2) = IF a <= w /\ b + above[w - a + 1] > above[w + 1]
                        THEN b + above[w - a + 1] ELSE above[w + 1]
      BY <2>1 DEF KnapCell
    <2> HIDE DEF w, Kw, Turn, Cell
    <2> QED BY <2>3, <2>4, <2>5
  <1>4. z = [i \in 0 .. count |-> z[i]]
    OBVIOUS
  <1>50. count = Capacity /\ start = <<0>> /\ \A k : Cell(k) = KnapCell(above, a, b, k - 1)
    OBVIOUS
  <1> HIDE DEF Turn, count, Cell, start
  <1>5. z[0] = start
    <2>1. z[0] = [k \in 1 .. 1 |-> Cell(k)]
      BY <1>2
    <2>2. [k \in 1 .. 1 |-> Cell(k)] = <<Cell(1)>>
      OBVIOUS
    <2> HIDE DEF z
    <2> QED BY <1>30, <1>50, <2>1, <2>2
  <1>6. ASSUME NEW i \in 0 .. count - 1 PROVE z[i + 1] = Turn(z[i], i)
    <2>1. i \in 0 .. count /\ i + 1 \in 0 .. count /\ i + 1 \in Nat /\ (i + 1) + 1 = i + 2
      BY <1>2
    <2> DEFINE v == [k \in 1 .. i + 1 |-> Cell(k)]
    <2>2. z[i] = v /\ z[i + 1] = [k \in 1 .. i + 2 |-> Cell(k)]
      BY <2>1
    <2>3. v = [k \in 1 .. i + 1 |-> v[k]] /\ \A k \in 1 .. i + 1 : v[k] = Cell(k)
      OBVIOUS
    <2> HIDE DEF v
    <2>4. Append(v, Cell(i + 2)) = [k \in 1 .. (i + 1) + 1 |-> IF k <= i + 1 THEN v[k] ELSE Cell(i + 2)]
      BY <2>1, <2>3, TableAppend
    <2>5. \A k \in 1 .. i + 2 : (IF k <= i + 1 THEN v[k] ELSE Cell(i + 2)) = Cell(k)
      BY <2>1, <2>3
    <2>6. Append(v, Cell(i + 2)) = [k \in 1 .. i + 2 |-> Cell(k)]
      BY <2>1, <2>4, <2>5
    <2> HIDE DEF z
    <2> QED BY <1>3, <2>2, <2>6
  <1> HIDE DEF Turn, start, count, z
  <1>7. IsLoop(z)
    <2> DEFINE turned == [i \in 0 .. count |-> IF i <= 0 THEN start ELSE Turn(z[i - 1], i - 1)]
    <2>1. ASSUME NEW i \in 0 .. count PROVE z[i] = turned[i]
      <3>1. CASE i = 0
        BY <1>5, <3>1
      <3>2. CASE i # 0
        <4>1. i - 1 \in 0 .. count - 1 /\ (i - 1) + 1 = i /\ ~(i <= 0)
          BY <1>2, <3>2
        <4>2. z[i] = Turn(z[i - 1], i - 1)
          BY <1>6, <4>1
        <4> QED BY <4>1, <4>2
      <3> QED BY <3>1, <3>2
    <2> QED BY <1>4, <2>1
  <1>8. IsLoop(loop)
    <2> HIDE DEF IsLoop
    <2> QED BY <1>7
  <1> HIDE DEF loop
  <1>9. loop[count] = z[count]
    <2>1. loop[0] = start
      BY <1>2, <1>8
    <2>2. \A i \in 0 .. count - 1 : loop[i + 1] = Turn(loop[i], i)
      BY <1>2, <1>8
    <2>3. \A i \in 0 .. count - 1 : loop[i] = z[i] => loop[i + 1] = z[i + 1]
      BY <1>6, <2>2
    <2>4. loop[0] = z[0]
      BY <1>5, <2>1
    <2> HIDE DEF IsLoop
    <2> QED BY <1>2, <2>3, <2>4, LoopsEndAlike
  <1>10. loop[count] = [k \in 1 .. count + 1 |-> Cell(k)]
    BY <1>2, <1>9 DEF z
  <1> QED BY <1>1, <1>10, <1>50

\* A row of integers gives a row of integers.
LEMMA KnapRowInts ==
  ASSUME NEW above \in [1 .. Capacity + 1 -> Int], NEW a \in Nat, NEW b \in Int
  PROVE  KnapRow(above, a, b) \in [1 .. Capacity + 1 -> Int]
  <1> SUFFICES ASSUME NEW k \in 1 .. Capacity + 1 PROVE KnapCell(above, a, b, k - 1) \in Int
    BY KnapRowIs
  <1> DEFINE w == k - 1
  <1>1. Capacity \in Nat /\ w \in Nat /\ w + 1 \in 1 .. Capacity + 1
    BY KernelAssumption
  <1>2. a <= w => w - a + 1 \in 1 .. Capacity + 1
    BY <1>1
  <1> HIDE DEF w
  <1>3. above[w + 1] \in Int /\ (a <= w => above[w - a + 1] \in Int)
    BY <1>1, <1>2
  <1>4. KnapCell(above, a, b, w) \in Int
    BY <1>3 DEF KnapCell
  <1> QED BY <1>4 DEF w

\* R[i] is row i of K.
IsRows(R, wt, val) ==
  /\ R \in [0 .. Len(wt) -> [1 .. Capacity + 1 -> Int]]
  /\ R[0] = [k \in 1 .. Capacity + 1 |-> 0]
  /\ \A i \in 0 .. Len(wt) - 1 : R[i + 1] = KnapRow(R[i], wt[i + 1], val[i + 1])

\* The rows of K exist.
LEMMA RowsExist ==
  ASSUME NEW wt \in Seq(Nat), NEW val \in Seq(Nat), Len(wt) = Len(val)
  PROVE  \E R : IsRows(R, wt, val)
  <1> DEFINE n == Len(wt)
             S == [1 .. Capacity + 1 -> Int]
             first == [k \in 1 .. Capacity + 1 |-> 0]
             turn == [p \in S \X (0 .. n - 1) |-> KnapRow(p[1], wt[p[2] + 1], val[p[2] + 1])]
  <1>1. n \in Nat /\ \A i \in 0 .. n - 1 : wt[i + 1] \in Nat /\ val[i + 1] \in Int
    BY LenProperties
  <1>2. first \in S
    OBVIOUS
  <1>3. turn \in [S \X (0 .. n - 1) -> S]
    BY <1>1, KnapRowInts
  <1>4. PICK R : IsRun(R, n, S, first, turn)
    <2> HIDE DEF n, S, first, turn
    <2> QED BY <1>1, <1>2, <1>3, LoopRuns
  <1>5. R \in [0 .. n -> S] /\ R = [i \in 0 .. n |-> IF i <= 0 THEN first ELSE turn[<<R[i - 1], i - 1>>]]
    <2> HIDE DEF n, S, first, turn
    <2> QED BY <1>4 DEF IsRun
  <1>6. R[0] = first
    <2> HIDE DEF n, S, first, turn
    <2> QED BY <1>1, <1>5
  <1>7. ASSUME NEW i \in 0 .. n - 1 PROVE R[i + 1] = KnapRow(R[i], wt[i + 1], val[i + 1])
    <2>1. i + 1 \in 0 .. n /\ i \in 0 .. n /\ ~(i + 1 <= 0) /\ (i + 1) - 1 = i
      BY <1>1
    <2>2. R[i + 1] = turn[<<R[i], i>>]
      <3> HIDE DEF turn, n, first, S
      <3> QED BY <1>5, <2>1
    <2>3. R[i] \in S
      <3> HIDE DEF S
      <3> QED BY <1>5, <2>1
    <2> HIDE DEF S
    <2> QED BY <2>2, <2>3
  <1>8. IsRows(R, wt, val)
    BY <1>5, <1>6, <1>7 DEF IsRows
  <1> QED BY <1>8

\* knapSack lists the rows.
LEMMA KnapSackIs ==
  ASSUME NEW wt \in Seq(Nat), NEW val \in Seq(Nat), NEW R, IsRows(R, wt, val)
  PROVE  \A i \in 0 .. Len(wt) : knapSack(wt, val)[i + 1] = R[i]
  <1> DEFINE count == Len(wt)
             start == <<Repeat(Capacity, 0)>>
             Turn(K, i) == Append(K, KnapRow(K[i + 1], wt[i + 1], val[i + 1]))
             IsLoop(f) == f = [i \in 0 .. count |-> IF i <= 0 THEN start ELSE Turn(f[i - 1], i - 1)]
             loop == CHOOSE f : IsLoop(f)
             z == [i \in 0 .. count |-> [k \in 1 .. i + 1 |-> R[k - 1]]]
  <1>1. knapSack(wt, val) = loop[count]
    BY DEF knapSack, Repeat, For
  <1>2. count \in Nat
    BY LenProperties
  <1>3. \A K, i : Turn(K, i) = Append(K, KnapRow(K[i + 1], wt[i + 1], val[i + 1]))
    OBVIOUS
  <1>30. R[0] = Repeat(Capacity, 0) /\ \A i \in 0 .. count - 1 : R[i + 1] = KnapRow(R[i], wt[i + 1], val[i + 1])
    BY KernelAssumption, RepeatIs DEF IsRows
  <1>4. z = [i \in 0 .. count |-> z[i]]
    OBVIOUS
  <1>50. count = Len(wt) /\ start = <<Repeat(Capacity, 0)>>
    OBVIOUS
  <1> HIDE DEF Turn, count, start
  <1>5. z[0] = start
    <2>1. z[0] = [k \in 1 .. 0 + 1 |-> R[k - 1]] /\ 0 + 1 = 1 /\ 1 .. 1 = {1} /\ 1 - 1 = 0
      BY <1>2
    <2> QED BY <1>30, <1>50, <2>1
  <1>6. ASSUME NEW i \in 0 .. count - 1 PROVE z[i + 1] = Turn(z[i], i)
    <2>1. i \in 0 .. count /\ i + 1 \in 0 .. count /\ i + 1 \in Nat /\ (i + 1) + 1 = i + 2
      BY <1>2
    <2> DEFINE v == [k \in 1 .. i + 1 |-> R[k - 1]]
    <2>2. z[i] = v /\ z[i + 1] = [k \in 1 .. i + 2 |-> R[k - 1]]
      BY <2>1
    <2>3. v = [k \in 1 .. i + 1 |-> v[k]] /\ \A k \in 1 .. i + 1 : v[k] = R[k - 1]
      OBVIOUS
    <2>30. v[i + 1] = R[i]
      BY <2>1
    <2> HIDE DEF v
    <2>4. Append(v, R[i + 1]) = [k \in 1 .. (i + 1) + 1 |-> IF k <= i + 1 THEN v[k] ELSE R[i + 1]]
      BY <2>1, <2>3, TableAppend
    <2>5. \A k \in 1 .. i + 2 : (IF k <= i + 1 THEN v[k] ELSE R[i + 1]) = R[k - 1]
      <3>1. \A k \in 1 .. i + 2 : ~(k <= i + 1) => k - 1 = i + 1
        BY <2>1
      <3> QED BY <2>1, <2>3, <3>1
    <2>6. Append(v, R[i + 1]) = [k \in 1 .. i + 2 |-> R[k - 1]]
      BY <2>1, <2>4, <2>5
    <2> HIDE DEF z
    <2> QED BY <1>3, <1>30, <2>2, <2>30, <2>6
  <1> HIDE DEF Turn, start, count, z
  <1>7. IsLoop(z)
    <2> DEFINE turned == [i \in 0 .. count |-> IF i <= 0 THEN start ELSE Turn(z[i - 1], i - 1)]
    <2>1. ASSUME NEW i \in 0 .. count PROVE z[i] = turned[i]
      <3>1. CASE i = 0
        BY <1>5, <3>1
      <3>2. CASE i # 0
        <4>1. i - 1 \in 0 .. count - 1 /\ (i - 1) + 1 = i /\ ~(i <= 0)
          BY <1>2, <3>2
        <4>2. z[i] = Turn(z[i - 1], i - 1)
          BY <1>6, <4>1
        <4> QED BY <4>1, <4>2
      <3> QED BY <3>1, <3>2
    <2> QED BY <1>4, <2>1
  <1>8. IsLoop(loop)
    <2> HIDE DEF IsLoop
    <2> QED BY <1>7
  <1> HIDE DEF loop
  <1>9. loop[count] = z[count]
    <2>1. loop[0] = start
      BY <1>2, <1>8
    <2>2. \A i \in 0 .. count - 1 : loop[i + 1] = Turn(loop[i], i)
      BY <1>2, <1>8
    <2>3. \A i \in 0 .. count - 1 : loop[i] = z[i] => loop[i + 1] = z[i + 1]
      BY <1>6, <2>2
    <2>4. loop[0] = z[0]
      BY <1>5, <2>1
    <2> HIDE DEF IsLoop
    <2> QED BY <1>2, <2>3, <2>4, LoopsEndAlike
  <1>10. loop[count] = [k \in 1 .. count + 1 |-> R[k - 1]]
    BY <1>2, <1>9 DEF z
  <1>11. \A i \in 0 .. count : loop[count][i + 1] = R[i]
    <2>1. \A i \in 0 .. count : i + 1 \in 1 .. count + 1 /\ (i + 1) - 1 = i
      BY <1>2
    <2> QED BY <1>10, <2>1
  <1> QED BY <1>1, <1>11, <1>50

\* The choices among the first i items that weigh at most w
Fits(wt, i, w) == {A \in SUBSET (1 .. i) : Weight(wt, A) <= w}

\* x is the most they are worth.
IsMost(x, wt, val, i, w) ==
  (\E A \in Fits(wt, i, w) : Weight(val, A) = x) /\ (\A A \in Fits(wt, i, w) : Weight(val, A) <= x)

\* An item of positive weight does not fit in an empty sack.
LEMMA NothingFits ==
  ASSUME NEW wt \in Seq(Nat), \A j \in 1 .. Len(wt) : wt[j] > 0, NEW i \in 0 .. Len(wt)
  PROVE  Fits(wt, i, 0) = {{}}
  <1>1. Weight(wt, {}) = 0 /\ Len(wt) \in Nat
    BY WeightNat, WeightEnds, LenProperties
  <1>2. ASSUME NEW A \in Fits(wt, i, 0), NEW m \in A PROVE FALSE
    <2>1. A \in SUBSET (1 .. i) /\ Weight(wt, A) <= 0
      BY DEF Fits
    <2>2. m \in 1 .. Len(wt)
      BY <1>1, <2>1
    <2> DEFINE B == A \ {m}
    <2>3. m \notin B /\ A = B \cup {m}
      OBVIOUS
    <2> HIDE DEF B
    <2>4. Weight(wt, A) = Weight(wt, B) + wt[m] /\ Weight(wt, B) \in Nat /\ wt[m] \in Nat /\ wt[m] > 0
      BY <2>2, <2>3, WeightNat, WeightAdd
    <2> QED BY <2>1, <2>4
  <1>3. {} \in Fits(wt, i, 0)
    BY <1>1 DEF Fits
  <1> QED BY <1>2, <1>3

\* If nothing fits, the most is 0.
LEMMA MostOfNone ==
  ASSUME NEW wt, NEW val \in Seq(Nat), NEW i, NEW w, Fits(wt, i, w) = {{}}
  PROVE  IsMost(0, wt, val, i, w)
  <1>1. Weight(val, {}) = 0
    BY WeightNat, WeightEnds
  <1>2. \E A \in Fits(wt, i, w) : Weight(val, A) = 0
    BY <1>1
  <1>3. ASSUME NEW A \in Fits(wt, i, w) PROVE Weight(val, A) <= 0
    <2>1. A = {}
      OBVIOUS
    <2>2. Weight(val, A) = 0
      BY <1>1, <2>1
    <2> QED BY <2>2
  <1> QED BY <1>2, <1>3 DEF IsMost

\* A cell holds the most for one item more, if the row above does for less.
LEMMA CellIsMost ==
  ASSUME NEW wt \in Seq(Nat), NEW val \in Seq(Nat), Len(wt) = Len(val),
         \A j \in 1 .. Len(wt) : wt[j] > 0,
         NEW i \in 0 .. Len(wt) - 1, NEW above \in [1 .. Capacity + 1 -> Int],
         \A w \in 0 .. Capacity : IsMost(above[w + 1], wt, val, i, w),
         NEW w \in 0 .. Capacity
  PROVE  IsMost(KnapCell(above, wt[i + 1], val[i + 1], w), wt, val, i + 1, w)
  <1> DEFINE m == i + 1
             a == wt[m]
             b == val[m]
             x == KnapCell(above, a, b, w)
  <1>1. Len(wt) \in Nat /\ Capacity \in Nat /\ i \in Nat /\ m \in 1 .. Len(wt) /\ m \in 1 .. Len(val)
    BY LenProperties, KernelAssumption
  <1>2. a \in Nat /\ b \in Nat /\ a > 0
    BY <1>1
  <1>3. \A A : Weight(wt, A) \in Nat /\ Weight(val, A) \in Nat
    BY WeightNat
  <1>4. \A A : m \notin A => Weight(wt, A \cup {m}) = Weight(wt, A) + a /\ Weight(val, A \cup {m}) = Weight(val, A) + b
    BY <1>1, WeightNat, WeightAdd
  <1> HIDE DEF a, b
  <1>5. CASE w = 0
    <2>1. Fits(wt, m, w) = {{}}
      <3>1. m \in 0 .. Len(wt)
        BY <1>1
      <3> HIDE DEF m
      <3> QED BY <1>5, <3>1, NothingFits
    <2>3. x = 0
      BY <1>5 DEF KnapCell
    <2>4. IsMost(0, wt, val, m, w)
      BY <2>1, MostOfNone
    <2> HIDE DEF x
    <2>5. IsMost(x, wt, val, m, w)
      BY <2>3, <2>4
    <2> QED BY <2>5 DEF x, a, b
  <1>6. CASE w # 0
    <2> DEFINE low == above[w + 1]
               rest == above[w - a + 1]
    <2>1. w + 1 \in 1 .. Capacity + 1 /\ low \in Int
      BY <1>1
    <2>2. a <= w => w - a \in 0 .. Capacity /\ w - a + 1 \in 1 .. Capacity + 1
      BY <1>1, <1>2
    <2>3. a <= w => rest \in Int
      BY <2>2
    <2>4. IsMost(low, wt, val, i, w) /\ (a <= w => IsMost(rest, wt, val, i, w - a))
      BY <2>2
    <2>5. x = IF a <= w /\ b + rest > low THEN b + rest ELSE low
      BY <1>6 DEF KnapCell
    <2> HIDE DEF x, low, rest
    <2>6. ASSUME NEW A \in Fits(wt, m, w) PROVE Weight(val, A) <= x
      <3>1. A \in SUBSET (1 .. m) /\ Weight(wt, A) <= w
        BY DEF Fits
      <3>2. CASE m \in A
        <4> DEFINE B == A \ {m}
        <4>1. B \in SUBSET (1 .. i) /\ m \notin B /\ A = B \cup {m}
          BY <1>1, <3>1, <3>2
        <4> HIDE DEF B
        <4>2. Weight(wt, A) = Weight(wt, B) + a /\ Weight(val, A) = Weight(val, B) + b
          BY <1>4, <4>1
        <4>3. a <= w /\ Weight(wt, B) <= w - a
          BY <1>2, <1>3, <3>1, <4>2, SMTT(30)
        <4>4. B \in Fits(wt, i, w - a)
          BY <4>1, <4>3 DEF Fits
        <4>5. Weight(val, B) <= rest
          BY <2>4, <4>3, <4>4 DEF IsMost
        <4>6. Weight(val, A) \in Int /\ rest \in Int /\ Weight(val, A) <= b + rest
          BY <1>2, <1>3, <2>3, <4>2, <4>3, <4>5
        <4>7. b + rest <= x
          BY <1>2, <2>1, <2>3, <2>5, <4>3, SMTT(30)
        <4>8. x \in Int
          BY <1>2, <2>1, <2>3, <2>5, <4>3
        <4> QED BY <1>2, <4>6, <4>7, <4>8
      <3>3. CASE m \notin A
        <4>1. A \in Fits(wt, i, w)
          BY <1>1, <3>1, <3>3 DEF Fits
        <4>2. Weight(val, A) <= low
          BY <2>4, <4>1 DEF IsMost
        <4> QED BY <1>2, <1>3, <2>1, <2>3, <2>5, <4>2
      <3> QED BY <3>2, <3>3
    <2>7. \E A \in Fits(wt, m, w) : Weight(val, A) = x
      <3>1. CASE a <= w /\ b + rest > low
        <4>1. PICK B \in Fits(wt, i, w - a) : Weight(val, B) = rest
          BY <2>4, <3>1 DEF IsMost
        <4>2. B \in SUBSET (1 .. i) /\ Weight(wt, B) <= w - a
          BY DEF Fits
        <4>3. m \notin B /\ B \cup {m} \in SUBSET (1 .. m)
          BY <1>1, <4>2
        <4>4. Weight(wt, B \cup {m}) = Weight(wt, B) + a /\ Weight(val, B \cup {m}) = rest + b
          BY <1>4, <4>1, <4>3
        <4>5. Weight(wt, B \cup {m}) <= w /\ rest + b = x
          BY <1>2, <1>3, <2>3, <2>5, <3>1, <4>2, <4>4
        <4> QED BY <4>3, <4>4, <4>5 DEF Fits
      <3>2. CASE ~(a <= w /\ b + rest > low)
        <4>1. PICK A \in Fits(wt, i, w) : Weight(val, A) = low
          BY <2>4 DEF IsMost
        <4>2. A \in Fits(wt, m, w)
          BY <1>1 DEF Fits
        <4> QED BY <2>5, <3>2, <4>1, <4>2
      <3> QED BY <3>1, <3>2
    <2>8. IsMost(x, wt, val, m, w)
      BY <2>6, <2>7 DEF IsMost
    <2> QED BY <2>8 DEF x, a, b
  <1> QED BY <1>5, <1>6

\* Every cell of K holds the most its items are worth in its capacity.
LEMMA RowsAreMost ==
  ASSUME NEW wt \in Seq(Nat), NEW val \in Seq(Nat), Len(wt) = Len(val),
         \A j \in 1 .. Len(wt) : wt[j] > 0, NEW R, IsRows(R, wt, val)
  PROVE  \A i \in 0 .. Len(wt), w \in 0 .. Capacity : IsMost(R[i][w + 1], wt, val, i, w)
  <1> DEFINE n == Len(wt)
             Right(i) == \A w \in 0 .. Capacity : IsMost(R[i][w + 1], wt, val, i, w)
             T == {i \in 0 .. n : Right(i)}
  <1>1. n \in Nat /\ Capacity \in Nat
    BY LenProperties, KernelAssumption
  <1>2. R \in [0 .. n -> [1 .. Capacity + 1 -> Int]] /\ R[0] = [k \in 1 .. Capacity + 1 |-> 0]
    BY DEF IsRows
  <1>3. Right(0)
    <2> SUFFICES ASSUME NEW w \in 0 .. Capacity PROVE IsMost(R[0][w + 1], wt, val, 0, w)
      OBVIOUS
    <2>1. R[0][w + 1] = 0
      <3>1. w + 1 \in 1 .. Capacity + 1
        BY <1>1
      <3> QED BY <1>2, <3>1
    <2>2. Weight(wt, {}) = 0 /\ Weight(val, {}) = 0
      BY WeightNat, WeightEnds
    <2>3. Fits(wt, 0, w) = {{}}
      <3>1. SUBSET (1 .. 0) = {{}} /\ 0 <= w
        BY <1>1
      <3> QED BY <2>2, <3>1 DEF Fits
    <2>4. IsMost(0, wt, val, 0, w)
      BY <2>3, MostOfNone
    <2> QED BY <2>1, <2>4
  <1>4. ASSUME NEW i \in 0 .. n - 1, Right(i) PROVE Right(i + 1)
    <2> SUFFICES ASSUME NEW w \in 0 .. Capacity PROVE IsMost(R[i + 1][w + 1], wt, val, i + 1, w)
      OBVIOUS
    <2>1. R[i] \in [1 .. Capacity + 1 -> Int]
      <3>1. i \in 0 .. n
        BY <1>1
      <3> QED BY <1>2, <3>1
    <2>2. R[i + 1] = [k \in 1 .. Capacity + 1 |-> KnapCell(R[i], wt[i + 1], val[i + 1], k - 1)]
      <3>1. wt[i + 1] \in Nat
        BY <1>1
      <3>2. R[i + 1] = KnapRow(R[i], wt[i + 1], val[i + 1])
        BY DEF IsRows
      <3>3. ASSUME NEW p \in Nat
            PROVE  KnapRow(R[i], p, val[i + 1])
                     = [k \in 1 .. Capacity + 1 |-> KnapCell(R[i], p, val[i + 1], k - 1)]
        BY KnapRowIs
      <3> QED BY <3>1, <3>2, <3>3, Zenon
    <2>3. w + 1 \in 1 .. Capacity + 1 /\ (w + 1) - 1 = w
      BY <1>1
    <2>4. R[i + 1][w + 1] = KnapCell(R[i], wt[i + 1], val[i + 1], w)
      BY <2>2, <2>3
    <2>5. IsMost(KnapCell(R[i], wt[i + 1], val[i + 1], w), wt, val, i + 1, w)
      BY <1>4, <2>1, CellIsMost
    <2> QED BY <2>4, <2>5
  <1> HIDE DEF Right, n
  <1>5. 0 \in T /\ \A i \in 0 .. n - 1 : i \in T => i + 1 \in T
    BY <1>1, <1>3, <1>4
  <1>6. \A i \in 0 .. n : i \in T
    <2> HIDE DEF T
    <2> QED BY <1>1, <1>5, TurnInduction
  <1> QED BY <1>6 DEF Right, n

\* One turn of the walk that reads the packs off the rows
TakeTurn(K, wt, t, k) ==
  LET n == Len(wt) - k
  IN  IF K[n + 1][t.w + 1] # K[n][t.w + 1]
      THEN [w |-> t.w - wt[n], packs |-> t.packs \cup {n}] ELSE t

\* The packs taken of the last k items and the capacity left make up the
\* whole, and their worth with that of the cell reached is the most.
TakeInv(R, wt, val, t, k) ==
  /\ t.w \in 0 .. Capacity /\ t.packs \in SUBSET (Len(wt) - k + 1 .. Len(wt))
  /\ t.w + Weight(wt, t.packs) = Capacity
  /\ R[Len(wt) - k][t.w + 1] + Weight(val, t.packs) = R[Len(wt)][Capacity + 1]

\* A turn takes an item where the rows differ, and only there must it.
LEMMA TakeTurnIs ==
  ASSUME NEW wt \in Seq(Nat), NEW val \in Seq(Nat), Len(wt) = Len(val),
         NEW R, IsRows(R, wt, val), NEW K, \A i \in 0 .. Len(wt) : K[i + 1] = R[i],
         NEW k \in 0 .. Len(wt) - 1, NEW t \in [w : Int, packs : SUBSET (1 .. Len(wt))]
  PROVE  /\ TakeTurn(K, wt, t, k) \in [w : Int, packs : SUBSET (1 .. Len(wt))]
         /\ TakeInv(R, wt, val, t, k) => TakeInv(R, wt, val, TakeTurn(K, wt, t, k), k + 1)
  <1> DEFINE n == Len(wt)
             i == n - k
             a == wt[i]
             b == val[i]
             r == TakeTurn(K, wt, t, k)
             took == [w |-> t.w - a, packs |-> t.packs \cup {i}]
             max == R[n][Capacity + 1]
  <1>1. n \in Nat /\ i \in 1 .. n /\ i \in 0 .. n /\ i - 1 \in 0 .. n - 1 /\ i - 1 \in 0 .. n /\ (i - 1) + 1 = i
    BY LenProperties
  <1>2. a \in Nat /\ b \in Nat /\ Capacity \in Nat
    <2>1. wt[i] \in Nat /\ val[i] \in Nat
      <3> HIDE DEF i
      <3> QED BY <1>1, SMTT(30)
    <2> QED BY <2>1, KernelAssumption
  <1>3. K[i + 1] = R[i] /\ K[i] = R[i - 1]
    BY <1>1
  <1>4. r = IF R[i][t.w + 1] # R[i - 1][t.w + 1] THEN took ELSE t
    BY <1>3 DEF TakeTurn
  <1>5. R[i] = [j \in 1 .. Capacity + 1 |-> KnapCell(R[i - 1], a, b, j - 1)]
    <2>1. R[(i - 1) + 1] = KnapRow(R[i - 1], wt[(i - 1) + 1], val[(i - 1) + 1])
      <3> HIDE DEF i
      <3> QED BY <1>1 DEF IsRows
    <2>2. R[i] = KnapRow(R[i - 1], a, b) /\ a \in Nat
      BY <1>1, <1>2, <2>1
    <2> HIDE DEF i, a, b
    <2> QED BY <2>2, KnapRowIs
  <1>6. n - k = i /\ n - (k + 1) = i - 1 /\ n - (k + 1) + 1 = i
    BY <1>1
  <1>7. took.w = t.w - a /\ took.packs = t.packs \cup {i} /\ t.w \in Int /\ t.packs \in SUBSET (1 .. n)
    OBVIOUS
  <1>8. took \in [w : Int, packs : SUBSET (1 .. n)]
    <2>1. t.w - a \in Int /\ t.packs \cup {i} \in SUBSET (1 .. n)
      <3> HIDE DEF a, i
      <3> QED BY <1>1, <1>2, <1>7, SMTT(30)
    <2> HIDE DEF a, i
    <2> QED BY <2>1
  <1>9. R[i - 1][1] = 0
    <2>1. 1 \in 1 .. Capacity + 1
      BY <1>2
    <2>2. CASE i - 1 = 0
      <3>1. R[0] = [j \in 1 .. Capacity + 1 |-> 0]
        BY DEF IsRows
      <3> QED BY <2>1, <2>2, <3>1
    <2>3. CASE i - 1 # 0
      <3> DEFINE h == i - 2
      <3>1. h \in 0 .. n - 1 /\ h + 1 = i - 1
        BY <1>1, <2>3
      <3> HIDE DEF h, i
      <3>2. R[h + 1] = [j \in 1 .. Capacity + 1 |-> KnapCell(R[h], wt[h + 1], val[h + 1], j - 1)]
        <4>1. wt[h + 1] \in Nat
          BY <3>1, LenProperties
        <4>2. R[h + 1] = KnapRow(R[h], wt[h + 1], val[h + 1])
          BY <3>1 DEF IsRows
        <4> QED BY <4>1, <4>2, KnapRowIs
      <3>3. R[h + 1][1] = KnapCell(R[h], wt[h + 1], val[h + 1], 1 - 1)
        BY <2>1, <3>2
      <3> QED BY <3>1, <3>3 DEF KnapCell
    <2> QED BY <2>2, <2>3
  <1>10. \A j \in 1 .. Capacity + 1 : R[i - 1][j] \in Int
    <2>1. R[i - 1] \in [1 .. Capacity + 1 -> Int]
      <3> HIDE DEF i
      <3> QED BY <1>1 DEF IsRows
    <2> QED BY <2>1
  <1> HIDE DEF n, i, a, b, r, took, max
  <1>11. r \in [w : Int, packs : SUBSET (1 .. n)]
    BY <1>4, <1>8 DEF n
  <1>12. ASSUME TakeInv(R, wt, val, t, k) PROVE TakeInv(R, wt, val, r, k + 1)
    <2>1. /\ t.w \in 0 .. Capacity /\ t.packs \in SUBSET (i + 1 .. n)
          /\ t.w + Weight(wt, t.packs) = Capacity /\ R[i][t.w + 1] + Weight(val, t.packs) = max
      BY <1>6, <1>12 DEF TakeInv, n, max
    <2>2. t.w + 1 \in 1 .. Capacity + 1 /\ (t.w + 1) - 1 = t.w
      <3> DEFINE v == t.w
      <3>1. v \in 0 .. Capacity
        BY <2>1
      <3> HIDE DEF v
      <3>2. v + 1 \in 1 .. Capacity + 1 /\ (v + 1) - 1 = v
        BY <1>2, <3>1
      <3> QED BY <3>2 DEF v
    <2>3. R[i][t.w + 1] = KnapCell(R[i - 1], a, b, t.w)
      BY <1>5, <2>2
    <2>4. CASE R[i][t.w + 1] # R[i - 1][t.w + 1]
      <3>1. t.w # 0
        <4>1. ASSUME t.w = 0 PROVE FALSE
          <5>1. R[i][t.w + 1] = 0 /\ t.w + 1 = 1
            BY <2>3, <4>1 DEF KnapCell
          <5> QED BY <1>9, <2>4, <5>1
        <4> QED BY <4>1
      <3>2. a <= t.w /\ R[i][t.w + 1] = b + R[i - 1][t.w - a + 1]
        BY <2>3, <2>4, <3>1 DEF KnapCell
      <3>3. i \notin t.packs /\ t.packs \cup {i} \in SUBSET (i .. n)
        BY <1>1, <2>1, SMTT(30)
      <3>4. /\ Weight(wt, t.packs \cup {i}) = Weight(wt, t.packs) + a /\ Weight(wt, t.packs) \in Nat
            /\ Weight(val, t.packs \cup {i}) = Weight(val, t.packs) + b /\ Weight(val, t.packs) \in Nat
        BY <1>1, <3>3, WeightNat, WeightAdd DEF n, a, b
      <3>5. t.w - a \in 0 .. Capacity /\ (t.w - a) + (Weight(wt, t.packs) + a) = Capacity
        <4> DEFINE v == t.w
                   u == Weight(wt, t.packs)
        <4>1. v \in 0 .. Capacity /\ a <= v /\ u \in Nat /\ v + u = Capacity
          BY <2>1, <3>2, <3>4
        <4> HIDE DEF v, u
        <4>2. v - a \in 0 .. Capacity /\ (v - a) + (u + a) = Capacity
          BY <1>2, <4>1
        <4> QED BY <4>2 DEF v, u
      <3>6. t.w - a + 1 \in 1 .. Capacity + 1
        BY <1>2, <3>5, SMTT(30)
      <3> DEFINE c == R[i - 1][t.w - a + 1]
                 y == Weight(val, t.packs)
      <3>7. c \in Int /\ y \in Nat /\ (b + c) + y = max
        BY <1>10, <2>1, <3>2, <3>4, <3>6
      <3> HIDE DEF c, y
      <3>8. c + (y + b) = max
        BY <1>2, <3>7
      <3>9. r = took
        BY <1>4, <2>4
      <3>10. r.w \in 0 .. Capacity /\ r.packs \in SUBSET (i .. n)
        BY <1>7, <3>3, <3>5, <3>9
      <3>11. r.w + Weight(wt, r.packs) = Capacity
        BY <1>7, <3>4, <3>5, <3>9
      <3>12. R[i - 1][r.w + 1] + Weight(val, r.packs) = max
        BY <1>7, <3>4, <3>8, <3>9 DEF c, y
      <3> QED BY <1>6, <3>10, <3>11, <3>12 DEF TakeInv, n, max
    <2>5. CASE R[i][t.w + 1] = R[i - 1][t.w + 1]
      <3>1. t.packs \in SUBSET (i .. n)
        BY <1>1, <2>1
      <3>2. r = t
        BY <1>4, <2>5
      <3>3. R[i - 1][r.w + 1] + Weight(val, r.packs) = max
        BY <2>1, <2>5, <3>2
      <3> QED BY <1>6, <2>1, <3>1, <3>2, <3>3 DEF TakeInv, n, max
    <2> QED BY <2>4, <2>5
  <1> QED BY <1>11, <1>12 DEF n, r

\* The packs read off the rows fit and are worth the most.
LEMMA SelectedIs ==
  ASSUME NEW wt \in Seq(Nat), NEW val \in Seq(Nat), Len(wt) = Len(val),
         NEW R, IsRows(R, wt, val), NEW K, \A i \in 0 .. Len(wt) : K[i + 1] = R[i]
  PROVE  LET packs == Selected(K, wt).packs
         IN  /\ packs \in SUBSET (1 .. Len(wt)) /\ Weight(wt, packs) <= Capacity
             /\ Weight(val, packs) = R[Len(wt)][Capacity + 1]
  <1> DEFINE count == Len(wt)
             S == [w : Int, packs : SUBSET (1 .. Len(wt))]
             start == [w |-> Capacity, packs |-> {}]
             Turn(t, k) == TakeTurn(K, wt, t, k)
             IsLoop(f) == f = [i \in 0 .. count |-> IF i <= 0 THEN start ELSE Turn(f[i - 1], i - 1)]
             loop == CHOOSE f : IsLoop(f)
             turn == [p \in S \X (0 .. count - 1) |-> Turn(p[1], p[2])]
             last == Selected(K, wt)
  <1>1. last = loop[count]
    BY DEF Selected, TakeTurn, For
  <1>2. count \in Nat /\ Capacity \in Nat
    BY LenProperties, KernelAssumption
  <1>3. start \in S
    BY <1>2
  <1>4. \A t \in S, k \in 0 .. count - 1 : Turn(t, k) \in S
    BY TakeTurnIs
  <1>40. \A t \in S, k \in 0 .. count - 1 : TakeInv(R, wt, val, t, k) => TakeInv(R, wt, val, Turn(t, k), k + 1)
    BY TakeTurnIs
  <1>41. \A j \in 1 .. Capacity + 1 : R[0][j] = 0 /\ R[count][j] \in Int
    <2>1. R[0] = [j \in 1 .. Capacity + 1 |-> 0] /\ R[count] \in [1 .. Capacity + 1 -> Int]
      BY <1>2, SMTT(30) DEF IsRows
    <2> QED BY <2>1
  <1>42. count = Len(wt) /\ S = [w : Int, packs : SUBSET (1 .. Len(wt))]
    OBVIOUS
  <1>43. TakeInv(R, wt, val, start, 0)
    <2>1. start.w = Capacity /\ start.packs = {} /\ count - 0 = count /\ Capacity \in 0 .. Capacity
      BY <1>2
    <2>2. Weight(wt, {}) = 0 /\ Weight(val, {}) = 0
      BY WeightNat, WeightEnds
    <2> HIDE DEF start
    <2>3. start.w + Weight(wt, start.packs) = Capacity
      BY <1>2, <2>1, <2>2
    <2>4. R[count][start.w + 1] + Weight(val, start.packs) = R[count][Capacity + 1]
      <3>1. Capacity + 1 \in 1 .. Capacity + 1
        BY <1>2
      <3>2. R[count][Capacity + 1] \in Int
        BY <1>41, <3>1
      <3> QED BY <2>1, <2>2, <3>2
    <2> QED BY <2>1, <2>3, <2>4 DEF TakeInv, count
  <1> HIDE DEF Turn, S, start, count
  <1>5. PICK g : IsRun(g, count, S, start, turn)
    <2>1. turn \in [S \X (0 .. count - 1) -> S]
      BY <1>4
    <2> HIDE DEF turn
    <2> QED BY <1>2, <1>3, <2>1, LoopRuns
  <1>6. IsLoop(g)
    <2> DEFINE turned == [i \in 0 .. count |-> IF i <= 0 THEN start ELSE Turn(g[i - 1], i - 1)]
    <2>1. g \in [0 .. count -> S]
      BY <1>5 DEF IsRun
    <2>2. g = [i \in 0 .. count |-> IF i <= 0 THEN start ELSE turn[<<g[i - 1], i - 1>>]]
      <3> HIDE DEF turn
      <3> QED BY <1>5 DEF IsRun
    <2>3. ASSUME NEW i \in 0 .. count PROVE g[i] = turned[i]
      <3>1. CASE i = 0
        BY <2>2, <3>1
      <3>2. CASE i # 0
        <4>1. i - 1 \in 0 .. count - 1 /\ i - 1 \in 0 .. count /\ ~(i <= 0)
          BY <1>2, <3>2
        <4>2. g[i] = turn[<<g[i - 1], i - 1>>]
          <5> HIDE DEF turn
          <5> QED BY <2>2, <4>1
        <4>3. g[i - 1] \in S
          BY <2>1, <4>1
        <4> QED BY <4>1, <4>2, <4>3
      <3> QED BY <3>1, <3>2
    <2> HIDE DEF turn
    <2> QED BY <2>1, <2>3
  <1>7. IsLoop(loop)
    <2> HIDE DEF IsLoop
    <2> QED BY <1>6
  <1> HIDE DEF loop, turn
  <1>8. loop[0] = start /\ \A i \in 0 .. count - 1 : loop[i + 1] = Turn(loop[i], i)
    BY <1>2, <1>7
  <1> HIDE DEF last
  <1> DEFINE T == {k \in 0 .. count : loop[k] \in S /\ TakeInv(R, wt, val, loop[k], k)}
  <1>9. 0 \in T
    BY <1>2, <1>3, <1>8, <1>43
  <1>10. ASSUME NEW k \in 0 .. count - 1, k \in T PROVE k + 1 \in T
    <2>1. loop[k] \in S /\ TakeInv(R, wt, val, loop[k], k)
      BY <1>10
    <2>2. loop[k + 1] = Turn(loop[k], k) /\ k + 1 \in 0 .. count
      BY <1>2, <1>8
    <2>3. Turn(loop[k], k) \in S /\ TakeInv(R, wt, val, Turn(loop[k], k), k + 1)
      BY <1>4, <1>40, <2>1
    <2> QED BY <2>2, <2>3
  <1>11. count \in T
    <2>1. \A k \in 0 .. count : k \in T
      <3> HIDE DEF T
      <3> QED BY <1>2, <1>9, <1>10, TurnInduction
    <2> QED BY <1>2, <2>1
  <1>12. last \in S /\ TakeInv(R, wt, val, last, Len(wt))
    BY <1>1, <1>11, <1>42
  <1>13. /\ last.w \in 0 .. Capacity /\ last.w + Weight(wt, last.packs) = Capacity
         /\ R[0][last.w + 1] + Weight(val, last.packs) = R[count][Capacity + 1]
    <2>1. Len(wt) - Len(wt) = 0
      BY <1>2, <1>42
    <2> QED BY <1>12, <1>42, <2>1 DEF TakeInv
  <1>14. Weight(wt, last.packs) \in Nat /\ Weight(val, last.packs) \in Nat
    BY WeightNat
  <1>15. Weight(wt, last.packs) <= Capacity
    BY <1>2, <1>13, <1>14
  <1>16. last.w + 1 \in 1 .. Capacity + 1
    BY <1>2, <1>13
  <1>17. Weight(val, last.packs) = R[count][Capacity + 1]
    BY <1>13, <1>14, <1>16, <1>41
  <1>18. last.packs \in SUBSET (1 .. Len(wt))
    BY <1>12, <1>42
  <1> QED BY <1>15, <1>17, <1>18, <1>42 DEF last

\* knapSack finds the most that fits, and the packs main() reads off its table
\* fit and are worth that much, for items of positive weight.
THEOREM BestPacking ==
  ASSUME NEW wt \in Seq(Nat), NEW val \in Seq(Nat), Len(wt) = Len(val),
         \A j \in 1 .. Len(wt) : wt[j] > 0
  PROVE  KnapsackAgrees(wt, val)
  <1> DEFINE n == Len(wt)
             K == knapSack(wt, val)
             max == K[n + 1][Capacity + 1]
             packs == Selected(K, wt).packs
             fitting == {A \in SUBSET DOMAIN wt : Total(Pick(wt, A)) <= Capacity}
             worths == {Total(Pick(val, A)) : A \in fitting}
  <1>1. n \in Nat /\ Capacity \in Nat /\ DOMAIN wt = 1 .. n
    BY LenProperties, KernelAssumption
  <1>2. PICK R : IsRows(R, wt, val)
    BY RowsExist
  <1>3. \A i \in 0 .. n : K[i + 1] = R[i]
    BY <1>2, KnapSackIs
  <1>4. \A A : Total(Pick(wt, A)) = Weight(wt, A) /\ Total(Pick(val, A)) = Weight(val, A) /\ Weight(val, A) \in Nat
    BY PickWeighs, WeightNat
  <1>5. fitting = Fits(wt, n, Capacity)
    BY <1>1, <1>4 DEF Fits
  <1>6. max = R[n][Capacity + 1]
    BY <1>1, <1>3
  <1>7. IsMost(R[n][Capacity + 1], wt, val, n, Capacity)
    <2>1. n \in 0 .. n /\ Capacity \in 0 .. Capacity
      BY <1>1
    <2>2. \A i \in 0 .. n, w \in 0 .. Capacity : IsMost(R[i][w + 1], wt, val, i, w)
      BY <1>2, RowsAreMost
    <2> HIDE DEF n, packs, max, fitting, worths, K
    <2> QED BY <2>1, <2>2
  <1> HIDE DEF K
  <1>8. packs \in SUBSET (1 .. n) /\ Weight(wt, packs) <= Capacity /\ Weight(val, packs) = max
    BY <1>2, <1>3, <1>6, SelectedIs
  <1> HIDE DEF max, packs, fitting, n
  <1>9. packs \in fitting
    BY <1>5, <1>8 DEF Fits
  <1>10. Total(Pick(val, packs)) = max
    BY <1>4, <1>8
  <1>11. max \in worths
    BY <1>9, <1>10
  <1>12. ASSUME NEW y \in worths PROVE y <= max
    <2>1. PICK A \in fitting : y = Weight(val, A)
      BY <1>4
    <2> QED BY <1>5, <1>6, <1>7, <2>1 DEF IsMost
  <1>13. worths \in SUBSET Int
    BY <1>4
  <1>14. Max(worths) = max
    <2> HIDE DEF worths
    <2> QED BY <1>11, <1>12, <1>13, MaxIs
  <1> QED BY <1>9, <1>10, <1>14 DEF KnapsackAgrees, max, packs, fitting, n, K

----------------------------------------------------------------------------
(* The longest common substring *)

\* The best of a set that is offered more, all of it no better than c
LEMMA BestGrowsBy ==
  ASSUME NEW S \in SUBSET Offers, NEW x, IsBest(x, S), NEW N \in SUBSET Offers, NEW c \in N,
         \A y \in N : y = c \/ Better(c, y)
  PROVE  IsBest(BetterOf(c, x), S \cup N)
  <1> DEFINE b == BetterOf(c, x)
  <1>1. IsBest(b, S \cup {c})
    BY BestGrows
  <1> HIDE DEF b
  <1>2. b \in S \cup {c} /\ (c = b \/ Better(b, c))
    BY <1>1 DEF IsBest
  <1>3. ASSUME NEW y \in N PROVE y = b \/ Better(b, y)
    <2>1. CASE y = c
      BY <1>2, <2>1
    <2>2. CASE Better(c, y)
      <3>1. b.len \in Nat /\ b.start \in Nat /\ c.len \in Nat /\ c.start \in Nat /\ y.len \in Nat /\ y.start \in Nat
        BY <1>2 DEF Offers
      <3> QED BY <1>2, <2>2, <3>1 DEF Better
    <2> QED BY <2>1, <2>2
  <1>4. ASSUME NEW y \in S PROVE y = b \/ Better(b, y)
    BY <1>1 DEF IsBest
  <1> QED BY <1>2, <1>3, <1>4 DEF IsBest, b

\* The last len characters before i in lhs and before j in rhs are the same.
Alike(lhs, rhs, i, j, len) ==
  len \in Nat /\ len <= i /\ len <= j /\ \A h \in 0 .. len - 1 : lhs[i - h] = rhs[j - h]

\* x is the length of the longest such run.
IsLongest(x, lhs, rhs, i, j) ==
  Alike(lhs, rhs, i, j, x) /\ \A len \in Nat : Alike(lhs, rhs, i, j, len) => len <= x

\* Nothing precedes the first character.
LEMMA LongestAtEdge ==
  ASSUME NEW lhs, NEW rhs, NEW i \in Nat, NEW j \in Nat, i = 0 \/ j = 0
  PROVE  IsLongest(0, lhs, rhs, i, j)
  BY DEF IsLongest, Alike

\* A run is longer by one where the characters are the same, and ends where
\* they are not.
LEMMA LongestNext ==
  ASSUME NEW lhs, NEW rhs, NEW i \in Nat, NEW j \in Nat, NEW x \in Nat, IsLongest(x, lhs, rhs, i, j)
  PROVE  IsLongest(IF lhs[i + 1] = rhs[j + 1] THEN x + 1 ELSE 0, lhs, rhs, i + 1, j + 1)
  <1>1. ASSUME NEW len \in Nat, len > 0, Alike(lhs, rhs, i + 1, j + 1, len)
        PROVE  lhs[i + 1] = rhs[j + 1] /\ len - 1 \in Nat /\ Alike(lhs, rhs, i, j, len - 1)
    <2>1. \A h \in 0 .. len - 1 : lhs[(i + 1) - h] = rhs[(j + 1) - h]
      BY <1>1 DEF Alike
    <2>2. len <= i + 1 /\ len <= j + 1
      BY <1>1 DEF Alike
    <2>3. lhs[i + 1] = rhs[j + 1]
      <3>1. 0 \in 0 .. len - 1 /\ (i + 1) - 0 = i + 1 /\ (j + 1) - 0 = j + 1
        BY <1>1
      <3> QED BY <2>1, <3>1
    <2>4. ASSUME NEW h \in 0 .. (len - 1) - 1 PROVE lhs[i - h] = rhs[j - h]
      <3>1. h + 1 \in 0 .. len - 1 /\ (i + 1) - (h + 1) = i - h /\ (j + 1) - (h + 1) = j - h
        OBVIOUS
      <3> QED BY <2>1, <3>1
    <2>5. len - 1 \in Nat /\ len - 1 <= i /\ len - 1 <= j
      BY <1>1, <2>2
    <2> QED BY <2>3, <2>4, <2>5 DEF Alike
  <1>2. CASE lhs[i + 1] = rhs[j + 1]
    <2>1. x <= i /\ x <= j /\ \A h \in 0 .. x - 1 : lhs[i - h] = rhs[j - h]
      BY DEF IsLongest, Alike
    <2>2. ASSUME NEW h \in 0 .. (x + 1) - 1 PROVE lhs[(i + 1) - h] = rhs[(j + 1) - h]
      <3>1. CASE h = 0
        <4>1. (i + 1) - h = i + 1 /\ (j + 1) - h = j + 1
          BY <3>1
        <4> QED BY <1>2, <4>1
      <3>2. CASE h # 0
        <4>1. h - 1 \in 0 .. x - 1 /\ (i + 1) - h = i - (h - 1) /\ (j + 1) - h = j - (h - 1)
          BY <3>2
        <4> QED BY <2>1, <4>1
      <3> QED BY <3>1, <3>2
    <2>3. Alike(lhs, rhs, i + 1, j + 1, x + 1)
      BY <2>1, <2>2 DEF Alike
    <2>4. ASSUME NEW len \in Nat, Alike(lhs, rhs, i + 1, j + 1, len) PROVE len <= x + 1
      <3>1. CASE len = 0
        BY <3>1
      <3>2. CASE len # 0
        <4>1. len - 1 \in Nat /\ Alike(lhs, rhs, i, j, len - 1)
          BY <1>1, <2>4, <3>2
        <4>2. len - 1 <= x
          BY <4>1 DEF IsLongest
        <4> QED BY <4>2
      <3> QED BY <3>1, <3>2
    <2>5. IsLongest(x + 1, lhs, rhs, i + 1, j + 1)
      BY <2>3, <2>4 DEF IsLongest
    <2> QED BY <1>2, <2>5
  <1>3. CASE lhs[i + 1] # rhs[j + 1]
    <2>1. Alike(lhs, rhs, i + 1, j + 1, 0)
      BY DEF Alike
    <2>2. ASSUME NEW len \in Nat, Alike(lhs, rhs, i + 1, j + 1, len) PROVE len <= 0
      BY <1>1, <1>3, <2>2
    <2>3. IsLongest(0, lhs, rhs, i + 1, j + 1)
      BY <2>1, <2>2 DEF IsLongest
    <2> QED BY <1>3, <2>3
  <1> QED BY <1>2, <1>3

\* The runs that end in i and j, as is_better_choice sees them
RunOf(len, i) == [len |-> len, start |-> i - len]
RunsAt(lhs, rhs, i, j) == {RunOf(len, i) : len \in {len \in 1 .. i : Alike(lhs, rhs, i, j, len)}}

\* The longest run that ends in i and j is the best of them.
LEMMA RunsAtIs ==
  ASSUME NEW lhs, NEW rhs, NEW i \in Nat, NEW j \in Nat, NEW x \in Nat, IsLongest(x, lhs, rhs, i, j)
  PROVE  /\ RunsAt(lhs, rhs, i, j) \in SUBSET Offers
         /\ x = 0 => RunsAt(lhs, rhs, i, j) = {}
         /\ x > 0 => /\ RunOf(x, i) \in RunsAt(lhs, rhs, i, j)
                     /\ \A y \in RunsAt(lhs, rhs, i, j) : y = RunOf(x, i) \/ Better(RunOf(x, i), y)
  <1> DEFINE c == RunOf(x, i)
             RA == RunsAt(lhs, rhs, i, j)
  <1>1. x <= i /\ Alike(lhs, rhs, i, j, x) /\ \A len \in Nat : Alike(lhs, rhs, i, j, len) => len <= x
    BY DEF IsLongest, Alike
  <1>2. \A y : y \in RA <=> \E len \in 1 .. i : Alike(lhs, rhs, i, j, len) /\ y = [len |-> len, start |-> i - len]
    BY DEF RunsAt, RunOf
  <1> HIDE DEF RA
  <1>3. RA \in SUBSET Offers
    <2> SUFFICES ASSUME NEW len \in 1 .. i PROVE [len |-> len, start |-> i - len] \in Offers
      BY <1>2
    <2>1. len \in Nat /\ i - len \in Nat
      OBVIOUS
    <2> QED BY <2>1 DEF Offers
  <1>4. x = 0 => RA = {}
    BY <1>1, <1>2
  <1>5. x > 0 => c \in RA
    <2> HAVE x > 0
    <2>1. x \in 1 .. i
      BY <1>1
    <2> QED BY <1>1, <1>2, <2>1 DEF RunOf
  <1>6. ASSUME NEW y \in RA PROVE y = c \/ Better(c, y)
    <2>1. PICK len \in 1 .. i : Alike(lhs, rhs, i, j, len) /\ y = [len |-> len, start |-> i - len]
      BY <1>2
    <2>2. len <= x
      BY <1>1, <2>1
    <2>3. CASE len = x
      BY <2>1, <2>3 DEF RunOf
    <2>4. CASE len < x
      <3>1. c.len = x /\ y.len = len
        BY <2>1 DEF RunOf
      <3> QED BY <2>4, <3>1 DEF Better
    <2> QED BY <2>2, <2>3, <2>4
  <1> QED BY <1>3, <1>4, <1>5, <1>6 DEF RA

\* The runs seen when i - 1 rows and j cells of row i are done, and none
Seen(lhs, rhs, i, j) ==
  {[len |-> 0, start |-> Len(lhs)]} \cup
  UNION {RunsAt(lhs, rhs, p[1], p[2]) : p \in {p \in (1 .. i) \X (1 .. Len(rhs)) : p[1] < i \/ p[2] <= j}}

\* A row begins where the one above it ends, and goes on cell by cell.
LEMMA SeenIs ==
  ASSUME NEW lhs, NEW rhs, Len(rhs) \in Nat, NEW i \in Nat
  PROVE  /\ Seen(lhs, rhs, 0, Len(rhs)) = {[len |-> 0, start |-> Len(lhs)]}
         /\ Seen(lhs, rhs, i + 1, 0) = Seen(lhs, rhs, i, Len(rhs))
  <1> DEFINE m == Len(rhs)
             Cells(a, j) == {p \in (1 .. a) \X (1 .. m) : p[1] < a \/ p[2] <= j}
  <1>1. Cells(0, m) = {}
    OBVIOUS
  <1>2. Cells(i + 1, 0) = Cells(i, m)
    OBVIOUS
  <1>3. \A a, j : Seen(lhs, rhs, a, j)
                    = {[len |-> 0, start |-> Len(lhs)]} \cup UNION {RunsAt(lhs, rhs, p[1], p[2]) : p \in Cells(a, j)}
    BY DEF Seen
  <1> HIDE DEF Cells, m
  <1>4. Seen(lhs, rhs, 0, m) = {[len |-> 0, start |-> Len(lhs)]}
    BY <1>1, <1>3
  <1>5. Seen(lhs, rhs, i + 1, 0) = Seen(lhs, rhs, i, m)
    BY <1>2, <1>3
  <1> QED BY <1>4, <1>5 DEF m

\* One cell more
LEMMA SeenNext ==
  ASSUME NEW lhs, NEW rhs, Len(rhs) \in Nat, NEW i \in Nat, NEW j \in 0 .. Len(rhs) - 1
  PROVE  Seen(lhs, rhs, i + 1, j + 1) = Seen(lhs, rhs, i + 1, j) \cup RunsAt(lhs, rhs, i + 1, j + 1)
  <1> DEFINE m == Len(rhs)
             Cells(h) == {p \in (1 .. i + 1) \X (1 .. m) : p[1] < i + 1 \/ p[2] <= h}
             q == <<i + 1, j + 1>>
             Old == UNION {RunsAt(lhs, rhs, p[1], p[2]) : p \in Cells(j)}
             none == [len |-> 0, start |-> Len(lhs)]
  <1>1. Cells(j + 1) = Cells(j) \cup {q}
    <2> SUFFICES ASSUME NEW p \in (1 .. i + 1) \X (1 .. m)
                 PROVE  p \in Cells(j + 1) <=> p \in Cells(j) \/ p = q
      OBVIOUS
    <2>1. p[1] \in 1 .. i + 1 /\ p[2] \in 1 .. m /\ p = <<p[1], p[2]>>
      OBVIOUS
    <2>2. (p[1] < i + 1 \/ p[2] <= j + 1) <=> (p[1] < i + 1 \/ p[2] <= j) \/ (p[1] = i + 1 /\ p[2] = j + 1)
      BY <2>1
    <2> QED BY <2>1, <2>2
  <1>2. \A h : Seen(lhs, rhs, i + 1, h) = {none} \cup UNION {RunsAt(lhs, rhs, p[1], p[2]) : p \in Cells(h)}
    BY DEF Seen
  <1>3. q[1] = i + 1 /\ q[2] = j + 1
    OBVIOUS
  <1> HIDE DEF Cells, q, none
  <1>4. UNION {RunsAt(lhs, rhs, p[1], p[2]) : p \in Cells(j) \cup {q}} = Old \cup RunsAt(lhs, rhs, q[1], q[2])
    OBVIOUS
  <1> QED BY <1>1, <1>2, <1>3, <1>4

\* A turn of the inner loop, below the row above
LcsubTurn(lhs, rhs, above, i, u, j) ==
  LET run == IF lhs[i + 1] = rhs[j + 1] THEN above[j + 1] + 1 ELSE 0
  IN  [dp |-> Append(u.dp, run),
       best |-> IF run > 0 THEN BetterOf([len |-> run, start |-> i + 1 - run], u.best) ELSE u.best]

LcsubRow(lhs, rhs, t, i) ==
  For(Len(rhs), [dp |-> <<0>>, best |-> t.best], LAMBDA u, j : LcsubTurn(lhs, rhs, t.dp, i, u, j))

\* The states with j + 1 cells
LcsubStates(j) == {u \in [dp : Seq(Nat), best : [len : Nat, start : Int]] : Len(u.dp) = j + 1}

\* Cells hold the longest runs, and best is the best of those seen.
LcsubInv(u, lhs, rhs, i, j) ==
  /\ \A k \in 0 .. j : IsLongest(u.dp[k + 1], lhs, rhs, i, k)
  /\ Seen(lhs, rhs, i, j) \in SUBSET Offers /\ IsBest(u.best, Seen(lhs, rhs, i, j))

\* A turn fills one cell more.
LEMMA LcsubTurnIs ==
  ASSUME NEW lhs, NEW rhs, Len(rhs) \in Nat, NEW i \in Nat, NEW j \in 0 .. Len(rhs) - 1,
         NEW t \in LcsubStates(Len(rhs)), NEW u \in LcsubStates(j)
  PROVE  LET r == LcsubTurn(lhs, rhs, t.dp, i, u, j)
         IN  /\ r \in LcsubStates(j + 1)
             /\ LcsubInv(t, lhs, rhs, i, Len(rhs)) /\ LcsubInv(u, lhs, rhs, i + 1, j)
                  => LcsubInv(r, lhs, rhs, i + 1, j + 1)
  <1> DEFINE m == Len(rhs)
             x == t.dp[j + 1]
             run == IF lhs[i + 1] = rhs[j + 1] THEN x + 1 ELSE 0
             c == [len |-> run, start |-> i + 1 - run]
             best == IF run > 0 THEN BetterOf(c, u.best) ELSE u.best
             dp == Append(u.dp, run)
             r == LcsubTurn(lhs, rhs, t.dp, i, u, j)
  <1>1. t.dp \in Seq(Nat) /\ Len(t.dp) = m + 1 /\ u.dp \in Seq(Nat) /\ Len(u.dp) = j + 1
    BY DEF LcsubStates
  <1>2. j \in Nat /\ j + 1 \in 1 .. m + 1
    OBVIOUS
  <1>3. x \in Nat /\ run \in Nat
    <2>1. t.dp[j + 1] \in Nat
      <3> HIDE DEF m
      <3> QED BY <1>1, <1>2, ElementOfSeq
    <2> QED BY <2>1
  <1>4. u.best \in [len : Nat, start : Int]
    BY DEF LcsubStates
  <1>5. r = [dp |-> dp, best |-> best]
    BY Zenon DEF LcsubTurn
  <1>6. dp \in Seq(Nat) /\ Len(dp) = (j + 1) + 1 /\ dp[(j + 1) + 1] = run /\ \A k \in 1 .. j + 1 : dp[k] = u.dp[k]
    <2> DEFINE w == u.dp
    <2>1. w \in Seq(Nat) /\ Len(w) = j + 1 /\ run \in Nat
      BY <1>1, <1>3
    <2> HIDE DEF run, w
    <2>2. LET z == Append(w, run)
          IN  z \in Seq(Nat) /\ Len(z) = Len(w) + 1 /\ z[Len(w) + 1] = run /\ \A k \in 1 .. Len(w) : z[k] = w[k]
      BY <2>1, AppendProperties
    <2>3. dp = Append(w, run)
      BY DEF w
    <2> HIDE DEF dp
    <2>4. dp \in Seq(Nat) /\ Len(dp) = (j + 1) + 1 /\ dp[(j + 1) + 1] = run /\ \A k \in 1 .. j + 1 : dp[k] = w[k]
      BY <2>1, <2>2, <2>3
    <2> QED BY <2>4 DEF w
  <1>7. c \in [len : Nat, start : Int]
    <2> HIDE DEF run
    <2> QED BY <1>3
  <1>8. best \in [len : Nat, start : Int]
    <2> HIDE DEF c, run
    <2> QED BY <1>4, <1>7 DEF BetterOf
  <1> HIDE DEF dp, best, r
  <1>9. r.dp = dp /\ r.best = best /\ r \in LcsubStates(j + 1)
    BY <1>5, <1>6, <1>8 DEF LcsubStates
  <1>10. ASSUME LcsubInv(t, lhs, rhs, i, m), LcsubInv(u, lhs, rhs, i + 1, j)
         PROVE  LcsubInv(r, lhs, rhs, i + 1, j + 1)
    <2>1. IsLongest(x, lhs, rhs, i, j)
      <3>1. j \in 0 .. m
        OBVIOUS
      <3> QED BY <1>10, <3>1 DEF LcsubInv
    <2>2. IsLongest(run, lhs, rhs, i + 1, j + 1)
      BY <1>2, <1>3, <2>1, LongestNext
    <2> DEFINE N == RunsAt(lhs, rhs, i + 1, j + 1)
               P == Seen(lhs, rhs, i + 1, j)
    <2> HIDE DEF run
    <2>3. /\ N \in SUBSET Offers
          /\ run = 0 => N = {}
          /\ run > 0 => c \in N /\ \A y \in N : y = c \/ Better(c, y)
      <3>1. i + 1 \in Nat /\ j + 1 \in Nat
        BY <1>2
      <3>2. c = RunOf(run, i + 1)
        <4>1. i + 1 - run = (i + 1) - run
          BY <1>3
        <4> QED BY <4>1 DEF RunOf
      <3> HIDE DEF c
      <3> QED BY <1>3, <2>2, <3>1, <3>2, RunsAtIs
    <2>4. P \in SUBSET Offers /\ IsBest(u.best, P)
      BY <1>10 DEF LcsubInv
    <2>5. Seen(lhs, rhs, i + 1, j + 1) = P \cup N
      BY SeenNext
    <2> HIDE DEF N, P, c
    <2>6. IsBest(best, P \cup N)
      <3>1. CASE run > 0
        <4>1. best = BetterOf(c, u.best)
          BY <3>1 DEF best
        <4> QED BY <2>3, <2>4, <3>1, <4>1, BestGrowsBy
      <3>2. CASE run = 0
        <4>1. best = u.best /\ P \cup N = P
          BY <2>3, <3>2 DEF best
        <4> QED BY <2>4, <4>1
      <3> QED BY <1>3, <3>1, <3>2
    <2>7. ASSUME NEW k \in 0 .. j + 1 PROVE IsLongest(dp[k + 1], lhs, rhs, i + 1, k)
      <3>1. CASE k = j + 1
        BY <1>6, <2>2, <3>1
      <3>2. CASE k # j + 1
        <4>1. k \in 0 .. j /\ k + 1 \in 1 .. j + 1
          BY <1>2, <3>2
        <4>2. dp[k + 1] = u.dp[k + 1]
          BY <1>6, <4>1
        <4> QED BY <1>10, <4>1, <4>2 DEF LcsubInv
      <3> QED BY <3>1, <3>2
    <2>8. Seen(lhs, rhs, i + 1, j + 1) \in SUBSET Offers
      BY <2>3, <2>4, <2>5
    <2> QED BY <1>9, <2>5, <2>6, <2>7, <2>8 DEF LcsubInv
  <1> QED BY <1>9, <1>10 DEF r, m

\* A row of turns sees one character of lhs more.
LEMMA LcsubRowIs ==
  ASSUME NEW lhs, NEW rhs, Len(rhs) \in Nat, NEW i \in Nat, NEW t \in LcsubStates(Len(rhs))
  PROVE  LET r == LcsubRow(lhs, rhs, t, i)
         IN  /\ r \in LcsubStates(Len(rhs))
             /\ LcsubInv(t, lhs, rhs, i, Len(rhs)) => LcsubInv(r, lhs, rhs, i + 1, Len(rhs))
  <1> DEFINE count == Len(rhs)
             S == [dp : Seq(Nat), best : [len : Nat, start : Int]]
             start == [dp |-> <<0>>, best |-> t.best]
             Turn(u, j) == LcsubTurn(lhs, rhs, t.dp, i, u, j)
             IsLoop(f) == f = [h \in 0 .. count |-> IF h <= 0 THEN start ELSE Turn(f[h - 1], h - 1)]
             loop == CHOOSE f : IsLoop(f)
             turn == [p \in S \X (0 .. count - 1) |-> Turn(p[1], p[2])]
             r == LcsubRow(lhs, rhs, t, i)
  <1>1. r = loop[count]
    BY DEF LcsubRow, For
  <1>2. count \in Nat
    OBVIOUS
  <1>20. t.dp \in Seq(Nat) /\ Len(t.dp) = count + 1 /\ t.best \in [len : Nat, start : Int]
    BY DEF LcsubStates
  <1>3. start \in S
    BY <1>20
  <1>30. start \in LcsubStates(0) /\ (LcsubInv(t, lhs, rhs, i, count) => LcsubInv(start, lhs, rhs, i + 1, 0))
    <2>1. start.dp = <<0>> /\ start.best = t.best /\ Len(<<0>>) = 0 + 1 /\ <<0>>[0 + 1] = 0 /\ 0 .. 0 = {0}
      OBVIOUS
    <2>2. Seen(lhs, rhs, i + 1, 0) = Seen(lhs, rhs, i, count)
      BY SeenIs
    <2>3. IsLongest(0, lhs, rhs, i + 1, 0)
      <3>1. i + 1 \in Nat /\ 0 \in Nat
        OBVIOUS
      <3> QED BY <3>1, LongestAtEdge
    <2>4. start \in LcsubStates(0)
      BY <1>3, <2>1 DEF LcsubStates
    <2> HIDE DEF start, count
    <2> QED BY <2>1, <2>2, <2>3, <2>4 DEF LcsubInv
  <1>4. \A u \in S, j \in 0 .. count - 1 : Turn(u, j) \in S
    <2> SUFFICES ASSUME NEW u \in S, NEW j \in 0 .. count - 1 PROVE Turn(u, j) \in S
      OBVIOUS
    <2> DEFINE run == IF lhs[i + 1] = rhs[j + 1] THEN t.dp[j + 1] + 1 ELSE 0
               c == [len |-> run, start |-> i + 1 - run]
               b == IF run > 0 THEN BetterOf(c, u.best) ELSE u.best
    <2>1. run \in Nat
      <3>1. j + 1 \in 1 .. Len(t.dp)
        BY <1>2, <1>20
      <3>2. t.dp[j + 1] \in Nat
        BY <1>20, <3>1, ElementOfSeq
      <3> QED BY <3>2
    <2>2. Turn(u, j) = [dp |-> Append(u.dp, run), best |-> b]
      BY DEF LcsubTurn
    <2> HIDE DEF run, Turn
    <2>3. c \in [len : Nat, start : Int] /\ u.best \in [len : Nat, start : Int] /\ u.dp \in Seq(Nat)
      BY <2>1
    <2> HIDE DEF c
    <2>4. b \in [len : Nat, start : Int] /\ Append(u.dp, run) \in Seq(Nat)
      BY <2>1, <2>3 DEF BetterOf
    <2> HIDE DEF b
    <2> QED BY <2>2, <2>4
  <1>41. \A u, j : j \in 0 .. count - 1 /\ u \in LcsubStates(j) => Turn(u, j) \in LcsubStates(j + 1)
    BY LcsubTurnIs
  <1>42. \A u, j : j \in 0 .. count - 1 /\ u \in LcsubStates(j)
                     /\ LcsubInv(t, lhs, rhs, i, count) /\ LcsubInv(u, lhs, rhs, i + 1, j)
                     => LcsubInv(Turn(u, j), lhs, rhs, i + 1, j + 1)
    <2> SUFFICES ASSUME NEW u, NEW j \in 0 .. count - 1, u \in LcsubStates(j),
                        LcsubInv(t, lhs, rhs, i, count), LcsubInv(u, lhs, rhs, i + 1, j)
                 PROVE  LcsubInv(Turn(u, j), lhs, rhs, i + 1, j + 1)
      OBVIOUS
    <2> QED BY LcsubTurnIs
  <1>43. count = Len(rhs)
    OBVIOUS
  <1> HIDE DEF Turn, S, start, count
  <1>5. PICK g : IsRun(g, count, S, start, turn)
    <2>1. turn \in [S \X (0 .. count - 1) -> S]
      BY <1>4
    <2> HIDE DEF turn
    <2> QED BY <1>2, <1>3, <2>1, LoopRuns
  <1>6. IsLoop(g)
    <2> DEFINE turned == [h \in 0 .. count |-> IF h <= 0 THEN start ELSE Turn(g[h - 1], h - 1)]
    <2>1. g \in [0 .. count -> S]
      BY <1>5 DEF IsRun
    <2>2. g = [h \in 0 .. count |-> IF h <= 0 THEN start ELSE turn[<<g[h - 1], h - 1>>]]
      <3> HIDE DEF turn
      <3> QED BY <1>5 DEF IsRun
    <2>3. ASSUME NEW h \in 0 .. count PROVE g[h] = turned[h]
      <3>1. CASE h = 0
        BY <2>2, <3>1
      <3>2. CASE h # 0
        <4>1. h - 1 \in 0 .. count - 1 /\ h - 1 \in 0 .. count /\ ~(h <= 0)
          BY <1>2, <3>2
        <4>2. g[h] = turn[<<g[h - 1], h - 1>>]
          <5> HIDE DEF turn
          <5> QED BY <2>2, <4>1
        <4>3. g[h - 1] \in S
          BY <2>1, <4>1
        <4> QED BY <4>1, <4>2, <4>3
      <3> QED BY <3>1, <3>2
    <2> HIDE DEF turn
    <2> QED BY <2>1, <2>3
  <1>7. IsLoop(loop)
    <2> HIDE DEF IsLoop
    <2> QED BY <1>6
  <1> HIDE DEF loop, turn
  <1>8. loop[0] = start /\ \A h \in 0 .. count - 1 : loop[h + 1] = Turn(loop[h], h)
    BY <1>2, <1>7
  <1> HIDE DEF r
  <1> DEFINE T == {j \in 0 .. count : /\ loop[j] \in LcsubStates(j)
                                      /\ LcsubInv(t, lhs, rhs, i, count) => LcsubInv(loop[j], lhs, rhs, i + 1, j)}
  <1>9. 0 \in T
    BY <1>2, <1>8, <1>30
  <1>10. ASSUME NEW j \in 0 .. count - 1, j \in T PROVE j + 1 \in T
    <2>1. loop[j] \in LcsubStates(j) /\ (LcsubInv(t, lhs, rhs, i, count) => LcsubInv(loop[j], lhs, rhs, i + 1, j))
      BY <1>10
    <2>2. loop[j + 1] = Turn(loop[j], j) /\ j + 1 \in 0 .. count
      BY <1>2, <1>8
    <2> QED BY <1>41, <1>42, <2>1, <2>2
  <1>11. count \in T
    <2>1. \A j \in 0 .. count : j \in T
      <3> HIDE DEF T
      <3> QED BY <1>2, <1>9, <1>10, TurnInduction
    <2> QED BY <1>2, <2>1
  <1>12. r \in LcsubStates(count) /\ (LcsubInv(t, lhs, rhs, i, count) => LcsubInv(r, lhs, rhs, i + 1, count))
    BY <1>1, <1>11
  <1> QED BY <1>12, <1>43 DEF r

\* Common parts are runs, by where they end.
LEMMA PartsAreRuns ==
  ASSUME NEW V, NEW lhs \in Seq(V), NEW rhs \in Seq(V)
  PROVE  LET Parts(s) == {p \in (1 .. Len(s)) \X (1 .. Len(s)) : p[1] <= p[2]}
         IN  {[len |-> p[2] + 1 - p[1], start |-> p[1] - 1] : p \in {p \in Parts(lhs) :
                 \E q \in Parts(rhs) : SubSeq(lhs, p[1], p[2]) = SubSeq(rhs, q[1], q[2])}}
               \cup {[len |-> 0, start |-> Len(lhs)]}
             = Seen(lhs, rhs, Len(lhs), Len(rhs))
  <1> DEFINE n == Len(lhs)
             m == Len(rhs)
             Parts(s) == {p \in (1 .. Len(s)) \X (1 .. Len(s)) : p[1] <= p[2]}
             Common == {p \in Parts(lhs) : \E q \in Parts(rhs) : SubSeq(lhs, p[1], p[2]) = SubSeq(rhs, q[1], q[2])}
             found == {[len |-> p[2] + 1 - p[1], start |-> p[1] - 1] : p \in Common}
             cells == {p \in (1 .. n) \X (1 .. m) : p[1] < n \/ p[2] <= m}
             runs == UNION {RunsAt(lhs, rhs, p[1], p[2]) : p \in cells}
  <1>1. n \in Nat /\ m \in Nat
    BY LenProperties
  <1>2. ASSUME NEW a \in 1 .. n, NEW b \in a .. n, NEW c \in 1 .. m, NEW d \in c .. m
        PROVE  SubSeq(lhs, a, b) = SubSeq(rhs, c, d) <=> b - a = d - c /\ Alike(lhs, rhs, b, d, b - a + 1)
    <2> DEFINE f == SubSeq(lhs, a, b)
               g == SubSeq(rhs, c, d)
    <2>1. Len(f) = b - a + 1 /\ f \in Seq(V) /\ \A k \in 1 .. b - a + 1 : f[k] = lhs[a + k - 1]
      BY <1>1, SMTT(30)
    <2>2. Len(g) = d - c + 1 /\ g \in Seq(V) /\ \A k \in 1 .. d - c + 1 : g[k] = rhs[c + k - 1]
      BY <1>1
    <2> HIDE DEF f, g
    <2>3. ASSUME f = g PROVE b - a = d - c /\ Alike(lhs, rhs, b, d, b - a + 1)
      <3>1. b - a + 1 = d - c + 1
        BY <2>1, <2>2, <2>3
      <3>10. a \in Int /\ b \in Int /\ c \in Int /\ d \in Int
        BY <1>1
      <3>2. b - a = d - c
        BY <3>1, <3>10
      <3>3. ASSUME NEW h \in 0 .. (b - a + 1) - 1 PROVE lhs[b - h] = rhs[d - h]
        <4> DEFINE k == b - a + 1 - h
        <4>1. k \in 1 .. b - a + 1 /\ k \in 1 .. d - c + 1 /\ a + k - 1 = b - h /\ c + k - 1 = d - h
          BY <3>10, <3>2
        <4> HIDE DEF k
        <4>2. f[k] = lhs[b - h] /\ g[k] = rhs[d - h]
          BY <2>1, <2>2, <4>1
        <4> QED BY <2>3, <4>2
      <3>4. b - a + 1 \in Nat /\ b - a + 1 <= b /\ b - a + 1 <= d
        BY <1>1, <3>1
      <3> QED BY <3>2, <3>3, <3>4 DEF Alike
    <2>4. ASSUME b - a = d - c, Alike(lhs, rhs, b, d, b - a + 1) PROVE f = g
      <3>1. \A h \in 0 .. (b - a + 1) - 1 : lhs[b - h] = rhs[d - h]
        BY <2>4 DEF Alike
      <3>10. a \in Int /\ b \in Int /\ c \in Int /\ d \in Int
        BY <1>1
      <3>2. Len(f) = Len(g)
        BY <2>1, <2>2, <2>4
      <3>3. ASSUME NEW k \in 1 .. Len(f) PROVE f[k] = g[k]
        <4> DEFINE h == b - a + 1 - k
        <4>1. k \in 1 .. b - a + 1 /\ k \in 1 .. d - c + 1
          BY <2>1, <2>4
        <4>2. h \in 0 .. (b - a + 1) - 1 /\ b - h = a + k - 1 /\ d - h = c + k - 1
          BY <2>4, <3>10, <4>1
        <4> HIDE DEF h
        <4>3. f[k] = lhs[b - h] /\ g[k] = rhs[d - h]
          BY <2>1, <2>2, <4>1, <4>2
        <4> QED BY <3>1, <4>2, <4>3
      <3> QED BY <2>1, <2>2, <3>2, <3>3, SeqEqual
    <2> QED BY <2>3, <2>4 DEF f, g
  <1>3. ASSUME NEW y \in found PROVE y \in runs
    <2>1. PICK p \in Common : y = [len |-> p[2] + 1 - p[1], start |-> p[1] - 1]
      OBVIOUS
    <2>2. PICK q \in Parts(rhs) : SubSeq(lhs, p[1], p[2]) = SubSeq(rhs, q[1], q[2])
      BY <2>1
    <2> DEFINE a == p[1]
               b == p[2]
               d == q[2]
               len == b - a + 1
    <2>3. a \in 1 .. n /\ b \in a .. n /\ q[1] \in 1 .. m /\ d \in q[1] .. m
      BY <2>1, <2>2
    <2>4. Alike(lhs, rhs, b, d, len)
      BY <1>2, <2>2, <2>3
    <2>5. len \in 1 .. b /\ b + 1 - a = len /\ a - 1 = b - len /\ b \in 1 .. n /\ d \in 1 .. m
      <3> HIDE DEF a, b, d, n, m
      <3>1. a \in Int /\ b \in Int /\ d \in Int
        BY <1>1, <2>3
      <3>2. len \in 1 .. b /\ b + 1 - a = len /\ a - 1 = b - len
        BY <1>1, <2>3, <3>1
      <3> QED BY <1>1, <2>3, <3>2
    <2>6. y = [len |-> len, start |-> b - len]
      BY <2>1, <2>5
    <2> HIDE DEF a, b, d, len
    <2>7. y \in RunsAt(lhs, rhs, b, d)
      BY <2>4, <2>5, <2>6 DEF RunsAt, RunOf
    <2> DEFINE z == <<b, d>>
    <2>8. z \in cells /\ z[1] = b /\ z[2] = d
      <3>1. b \in 1 .. n /\ d \in 1 .. m /\ d <= m
        BY <1>1, <2>5
      <3> HIDE DEF n, m
      <3> QED BY <3>1
    <2> HIDE DEF z, cells
    <2> QED BY <2>7, <2>8
  <1>4. ASSUME NEW y \in runs PROVE y \in found
    <2>1. PICK z \in cells : y \in RunsAt(lhs, rhs, z[1], z[2])
      OBVIOUS
    <2> DEFINE b == z[1]
               d == z[2]
    <2>2. b \in 1 .. n /\ d \in 1 .. m
      BY <2>1
    <2>3. PICK len \in 1 .. b : Alike(lhs, rhs, b, d, len) /\ y = [len |-> len, start |-> b - len]
      BY <2>1 DEF RunsAt, RunOf
    <2> HIDE DEF b, d
    <2> DEFINE a == b - len + 1
               c == d - len + 1
    <2>4. len <= d
      BY <2>3 DEF Alike
    <2>5. a \in 1 .. n /\ b \in a .. n /\ c \in 1 .. m /\ d \in c .. m /\ b - a = d - c /\ b - a + 1 = len
      BY <1>1, <2>2, <2>4
    <2>6. SubSeq(lhs, a, b) = SubSeq(rhs, c, d)
      <3> HIDE DEF a, c
      <3> QED BY <1>2, <2>3, <2>5
    <2>7. b + 1 - a = len /\ a - 1 = b - len
      BY <1>1, <2>2
    <2> HIDE DEF a, c
    <2> DEFINE p == <<a, b>>
               q == <<c, d>>
    <2>8. p \in Parts(lhs) /\ q \in Parts(rhs)
      BY <1>1, <2>2, <2>5
    <2>9. p[1] = a /\ p[2] = b /\ q[1] = c /\ q[2] = d
      OBVIOUS
    <2> HIDE DEF p, q, Parts
    <2>10. p \in Common
      BY <2>6, <2>8, <2>9
    <2> HIDE DEF Common
    <2> QED BY <2>3, <2>7, <2>9, <2>10
  <1>5. found = runs
    <2> HIDE DEF found, runs
    <2> QED BY <1>3, <1>4
  <1>6. Seen(lhs, rhs, n, m) = {[len |-> 0, start |-> n]} \cup runs
    BY DEF Seen
  <1>7. found \cup {[len |-> 0, start |-> n]} = Seen(lhs, rhs, n, m)
    <2> HIDE DEF found, runs
    <2> QED BY <1>5, <1>6
  <1> QED BY <1>7

\* lcsub_start_and_length finds the longest common substring, and of those of
\* that length the first in lhs.
THEOREM LongestCommonSubstring ==
  ASSUME NEW V, NEW lhs \in Seq(V), NEW rhs \in Seq(V)
  PROVE  LcsubAgrees(lhs, rhs)
  <1> DEFINE count == Len(lhs)
             S == LcsubStates(Len(rhs))
             start == [dp |-> Repeat(Len(rhs), 0), best |-> [len |-> 0, start |-> Len(lhs)]]
             Turn(t, i) == LcsubRow(lhs, rhs, t, i)
             IsLoop(f) == f = [i \in 0 .. count |-> IF i <= 0 THEN start ELSE Turn(f[i - 1], i - 1)]
             loop == CHOOSE f : IsLoop(f)
             turn == [p \in S \X (0 .. count - 1) |-> Turn(p[1], p[2])]
             m == Len(rhs)
             none == [len |-> 0, start |-> Len(lhs)]
  <1>1. lcsub_start_and_length(lhs, rhs) = loop[count].best
    BY DEF lcsub_start_and_length, LcsubRow, LcsubTurn, Repeat, For
  <1>2. count \in Nat /\ m \in Nat
    BY LenProperties
  <1>20. none \in Offers /\ none \in [len : Nat, start : Int]
    BY <1>2 DEF Offers
  <1>21. Repeat(m, 0) \in Seq(Nat) /\ Len(Repeat(m, 0)) = m + 1 /\ \A k \in 0 .. m : Repeat(m, 0)[k + 1] = 0
    <2>1. Repeat(m, 0) = [k \in 1 .. m + 1 |-> 0]
      BY <1>2, RepeatIs
    <2> QED BY <1>2, <2>1
  <1>22. start.dp = Repeat(m, 0) /\ start.best = none
    OBVIOUS
  <1>3. start \in S
    <2>1. start \in [dp : Seq(Nat), best : [len : Nat, start : Int]]
      BY <1>20, <1>21
    <2> QED BY <1>21, <1>22, <2>1 DEF LcsubStates
  <1>30. LcsubInv(start, lhs, rhs, 0, m)
    <2>1. Seen(lhs, rhs, 0, m) = {none}
      BY <1>2, SeenIs
    <2>2. IsBest(none, {none})
      BY DEF IsBest
    <2>3. ASSUME NEW k \in 0 .. m PROVE IsLongest(0, lhs, rhs, 0, k)
      <3>1. k \in Nat /\ 0 \in Nat
        BY <1>2
      <3> QED BY <3>1, LongestAtEdge
    <2> HIDE DEF start, none, m
    <2> QED BY <1>20, <1>21, <1>22, <2>1, <2>2, <2>3 DEF LcsubInv
  <1>4. \A t \in S, i \in 0 .. count - 1 : Turn(t, i) \in S
    BY <1>2, LcsubRowIs
  <1>41. \A t \in S, i \in 0 .. count - 1 : LcsubInv(t, lhs, rhs, i, m) => LcsubInv(Turn(t, i), lhs, rhs, i + 1, m)
    BY <1>2, LcsubRowIs
  <1>42. count = Len(lhs)
    OBVIOUS
  <1> HIDE DEF Turn, S, start, count
  <1>5. PICK g : IsRun(g, count, S, start, turn)
    <2>1. turn \in [S \X (0 .. count - 1) -> S]
      BY <1>4
    <2> HIDE DEF turn
    <2> QED BY <1>2, <1>3, <2>1, LoopRuns
  <1>6. IsLoop(g)
    <2> DEFINE turned == [i \in 0 .. count |-> IF i <= 0 THEN start ELSE Turn(g[i - 1], i - 1)]
    <2>1. g \in [0 .. count -> S]
      BY <1>5 DEF IsRun
    <2>2. g = [i \in 0 .. count |-> IF i <= 0 THEN start ELSE turn[<<g[i - 1], i - 1>>]]
      <3> HIDE DEF turn
      <3> QED BY <1>5 DEF IsRun
    <2>3. ASSUME NEW i \in 0 .. count PROVE g[i] = turned[i]
      <3>1. CASE i = 0
        BY <2>2, <3>1
      <3>2. CASE i # 0
        <4>1. i - 1 \in 0 .. count - 1 /\ i - 1 \in 0 .. count /\ ~(i <= 0)
          BY <1>2, <3>2
        <4>2. g[i] = turn[<<g[i - 1], i - 1>>]
          <5> HIDE DEF turn
          <5> QED BY <2>2, <4>1
        <4>3. g[i - 1] \in S
          BY <2>1, <4>1
        <4> QED BY <4>1, <4>2, <4>3
      <3> QED BY <3>1, <3>2
    <2> HIDE DEF turn
    <2> QED BY <2>1, <2>3
  <1>7. IsLoop(loop)
    <2> HIDE DEF IsLoop
    <2> QED BY <1>6
  <1> HIDE DEF loop, turn
  <1>8. loop[0] = start /\ \A i \in 0 .. count - 1 : loop[i + 1] = Turn(loop[i], i)
    BY <1>2, <1>7
  <1> HIDE DEF m, none
  <1> DEFINE T == {i \in 0 .. count : loop[i] \in S /\ LcsubInv(loop[i], lhs, rhs, i, m)}
  <1>9. 0 \in T
    BY <1>2, <1>3, <1>8, <1>30
  <1>10. ASSUME NEW i \in 0 .. count - 1, i \in T PROVE i + 1 \in T
    <2>1. loop[i] \in S /\ LcsubInv(loop[i], lhs, rhs, i, m)
      BY <1>10
    <2>2. loop[i + 1] = Turn(loop[i], i) /\ i + 1 \in 0 .. count
      BY <1>2, <1>8
    <2> QED BY <1>4, <1>41, <2>1, <2>2
  <1>11. count \in T
    <2>1. \A i \in 0 .. count : i \in T
      <3> HIDE DEF T
      <3> QED BY <1>2, <1>9, <1>10, TurnInduction
    <2> QED BY <1>2, <2>1
  <1> DEFINE A == Seen(lhs, rhs, Len(lhs), Len(rhs))
  <1>12. A \in SUBSET Offers /\ IsBest(loop[count].best, A)
    BY <1>11, <1>42 DEF LcsubInv, m
  <1> HIDE DEF A
  <1>13. Best(A) = loop[count].best
    BY <1>12, BestIs
  <1> DEFINE Parts(s) == {p \in (1 .. Len(s)) \X (1 .. Len(s)) : p[1] <= p[2]}
             found == {[len |-> p[2] + 1 - p[1], start |-> p[1] - 1] : p \in {p \in Parts(lhs) :
                         \E q \in Parts(rhs) : SubSeq(lhs, p[1], p[2]) = SubSeq(rhs, q[1], q[2])}}
  <1>14. found \cup {[len |-> 0, start |-> Len(lhs)]} = A
    BY PartsAreRuns DEF A
  <1> HIDE DEF found
  <1>15. lcsub_start_and_length(lhs, rhs) = Best(found \cup {[len |-> 0, start |-> Len(lhs)]})
    BY <1>1, <1>13, <1>14
  <1> QED BY <1>15 DEF LcsubAgrees, found

----------------------------------------------------------------------------
(* Loops whose states depend on the turn *)

\* f is what a loop of n turns computes, and before turn i it is in stage[i].
IsStaged(f, n, stage, start, turn) ==
  /\ f = [i \in 0 .. n |-> f[i]] /\ f[0] = start
  /\ \A i \in 0 .. n : f[i] \in stage[i]
  /\ \A i \in 0 .. n - 1 : f[i + 1] = turn[<<f[i], i>>]

\* A loop whose turns lead from stage to stage has a value after every turn.
LEMMA StagedLoopRuns ==
  ASSUME NEW n \in Nat, NEW stage, NEW start \in stage[0], NEW turn,
         \A i \in 0 .. n - 1 : \A u \in stage[i] : turn[<<u, i>>] \in stage[i + 1]
  PROVE  \E f : IsStaged(f, n, stage, start, turn)
  <1> DEFINE S == UNION {stage[i] : i \in 0 .. n}
             step == [p \in S \X (0 .. n - 1) |-> IF p[1] \in stage[p[2]] THEN turn[p] ELSE start]
  <1>1. start \in S
    OBVIOUS
  <1>2. step \in [S \X (0 .. n - 1) -> S]
    <2> SUFFICES ASSUME NEW u \in S, NEW i \in 0 .. n - 1, u \in stage[i] PROVE turn[<<u, i>>] \in S
      BY <1>1
    <2>1. i + 1 \in 0 .. n /\ turn[<<u, i>>] \in stage[i + 1]
      OBVIOUS
    <2> QED BY <2>1
  <1>3. PICK f : IsRun(f, n, S, start, step)
    <2> HIDE DEF S, step
    <2> QED BY <1>1, <1>2, LoopRuns
  <1>4. f \in [0 .. n -> S] /\ f[0] = start
    <2> HIDE DEF S, step
    <2> QED BY <1>3 DEF IsRun
  <1>5. ASSUME NEW i \in 0 .. n - 1 PROVE f[i + 1] = step[<<f[i], i>>]
    <2>1. i + 1 \in 0 .. n /\ ~(i + 1 <= 0) /\ (i + 1) - 1 = i
      OBVIOUS
    <2>2. f = [k \in 0 .. n |-> IF k <= 0 THEN start ELSE step[<<f[k - 1], k - 1>>]]
      <3> HIDE DEF S, step
      <3> QED BY <1>3 DEF IsRun
    <2> HIDE DEF S, step
    <2> QED BY <2>1, <2>2
  <1>6. ASSUME NEW i \in 0 .. n - 1, f[i] \in stage[i]
        PROVE  f[i + 1] = turn[<<f[i], i>>] /\ f[i + 1] \in stage[i + 1]
    <2>1. f[i] \in S
      BY <1>4
    <2>2. step[<<f[i], i>>] = turn[<<f[i], i>>]
      BY <1>6, <2>1
    <2>3. f[i + 1] = turn[<<f[i], i>>]
      BY <1>5, <2>2
    <2> HIDE DEF S, step
    <2> QED BY <1>6, <2>3
  <1> DEFINE T == {i \in 0 .. n : f[i] \in stage[i]}
  <1>7. \A i \in 0 .. n : i \in T
    <2> HIDE DEF S, step
    <2>0. 0 \in T
      BY <1>4
    <2>1. ASSUME NEW i \in 0 .. n - 1, i \in T PROVE i + 1 \in T
      <3>1. f[i] \in stage[i] /\ i + 1 \in 0 .. n
        BY <2>1
      <3> QED BY <1>6, <3>1
    <2> HIDE DEF T
    <2> QED BY <2>0, <2>1, TurnInduction
  <1>8. \A i \in 0 .. n : f[i] \in stage[i]
    BY <1>7
  <1>9. \A i \in 0 .. n - 1 : f[i + 1] = turn[<<f[i], i>>]
    BY <1>6, <1>8
  <1>10. f = [i \in 0 .. n |-> f[i]]
    BY <1>4
  <1> HIDE DEF S, step, T
  <1> QED BY <1>4, <1>8, <1>9, <1>10 DEF IsStaged

----------------------------------------------------------------------------
(* What is picked from the first values *)

\* Nothing is picked where there is nothing to pick, and one value more is
\* picked at the end.
LEMMA PickGrows ==
  ASSUME NEW V, NEW s \in Seq(V), NEW i \in 0 .. Len(s) - 1, NEW A \in SUBSET (1 .. i)
  PROVE  Pick(s, A \cup {i + 1}) = Append(Pick(s, A), s[i + 1])
  <1> DEFINE n == Len(s)
             B == A \cup {i + 1}
  <1>0. n \in Nat /\ i \in Nat
    BY LenProperties
  <1>1. PICK q : IsPick(q, s, A, V) /\ Pick(s, A) = q[n]
    BY PickIs
  <1>2. PICK r : IsPick(r, s, B, V) /\ Pick(s, B) = r[n]
    BY PickIs
  <1>3. q[0] = << >> /\ \A k \in 0 .. n - 1 : q[k + 1] = IF k + 1 \in A THEN Append(q[k], s[k + 1]) ELSE q[k]
    BY <1>1 DEF IsPick
  <1>4. r[0] = << >> /\ \A k \in 0 .. n - 1 : r[k + 1] = IF k + 1 \in B THEN Append(r[k], s[k + 1]) ELSE r[k]
    BY <1>2 DEF IsPick
  <1>5. r[i] = q[i]
    <2>1. \A k \in 0 .. i - 1 : r[k] = q[k] => r[k + 1] = q[k + 1]
      <3> SUFFICES ASSUME NEW k \in 0 .. i - 1, r[k] = q[k] PROVE r[k + 1] = q[k + 1]
        OBVIOUS
      <3>1. k \in 0 .. n - 1 /\ (k + 1 \in B <=> k + 1 \in A)
        BY <1>0
      <3> HIDE DEF B, n
      <3> QED BY <1>3, <1>4, <3>1
    <2> QED BY <1>0, <1>3, <1>4, <2>1, LoopsEndAlike
  <1>6. r[i + 1] = Append(q[i], s[i + 1])
    <2>1. i + 1 \in B /\ i \in 0 .. n - 1
      OBVIOUS
    <2> HIDE DEF B, n
    <2> QED BY <1>4, <1>5, <2>1
  <1> DEFINE T == {k \in 0 .. n : k > i => q[k] = q[i] /\ r[k] = r[i + 1]}
  <1>7. 0 \in T
    BY <1>0
  <1>8. ASSUME NEW k \in 0 .. n - 1, k \in T PROVE k + 1 \in T
    <2>1. CASE k < i
      BY <1>0, <2>1
    <2>2. CASE k = i
      <3>1. i + 1 \notin A /\ i + 1 \in 0 .. n
        BY <1>0
      <3>2. q[i + 1] = q[i]
        <4> HIDE DEF n
        <4> QED BY <1>3, <2>2, <3>1
      <3> QED BY <2>2, <3>1, <3>2
    <2>3. CASE k > i
      <3>1. k + 1 \notin A /\ k + 1 \notin B /\ k + 1 \in 0 .. n
        BY <1>0, <2>3
      <3>2. q[k + 1] = q[k] /\ r[k + 1] = r[k]
        <4> HIDE DEF n, B
        <4> QED BY <1>3, <1>4, <3>1
      <3>3. q[k] = q[i] /\ r[k] = r[i + 1]
        BY <1>8, <2>3
      <3> QED BY <3>1, <3>2, <3>3
    <2> QED BY <1>0, <2>1, <2>2, <2>3
  <1>9. n \in T
    <2>1. \A k \in 0 .. n : k \in T
      <3> HIDE DEF T, n
      <3> QED BY <1>0, <1>7, <1>8, TurnInduction
    <2> QED BY <1>0, <2>1
  <1>10. q[n] = q[i] /\ r[n] = r[i + 1]
    BY <1>0, <1>9
  <1> QED BY <1>1, <1>2, <1>6, <1>10

\* Sequences that are alike with one value more are alike without it.
LEMMA AppendAlike ==
  ASSUME NEW V, NEW x \in Seq(V), NEW y \in Seq(V), NEW a \in V, NEW b \in V, Append(x, a) = Append(y, b)
  PROVE  x = y /\ a = b
  <1> DEFINE u == Append(x, a)
             v == Append(y, b)
  <1>1. Len(u) = Len(x) + 1 /\ u[Len(x) + 1] = a /\ \A k \in 1 .. Len(x) : u[k] = x[k]
    BY AppendProperties
  <1>2. Len(v) = Len(y) + 1 /\ v[Len(y) + 1] = b /\ \A k \in 1 .. Len(y) : v[k] = y[k]
    BY AppendProperties
  <1>3. u = v /\ Len(x) \in Nat /\ Len(y) \in Nat
    BY LenProperties
  <1> HIDE DEF u, v
  <1>4. Len(x) = Len(y)
    BY <1>1, <1>2, <1>3
  <1>5. a = b /\ \A k \in 1 .. Len(x) : x[k] = y[k]
    BY <1>1, <1>2, <1>3, <1>4
  <1> QED BY <1>4, <1>5, SeqEqual

\* Sets of indices are finite.
LEMMA PartOfInterval ==
  ASSUME NEW n \in Nat, NEW A \in SUBSET (1 .. n)
  PROVE  IsFiniteSet(A) /\ Cardinality(A) \in Nat
  <1>1. IsFiniteSet(1 .. n)
    BY FS_Interval
  <1>2. IsFiniteSet(A)
    BY <1>1, FS_Subset
  <1> QED BY <1>2, FS_CardinalityType

\* Nothing is picked from no index, and as many values as there are indices.
LEMMA PickSize ==
  ASSUME NEW V, NEW s \in Seq(V), NEW A \in SUBSET (1 .. Len(s))
  PROVE  /\ Pick(s, A) \in Seq(V) /\ Len(Pick(s, A)) = Cardinality(A)
         /\ IsFiniteSet(A) /\ Cardinality(A) \in Nat
         /\ Pick(s, {}) = << >>
  <1> DEFINE n == Len(s)
  <1>0. n \in Nat
    BY LenProperties
  <1>1. PICK q : IsPick(q, s, A, V) /\ Pick(s, A) = q[n]
    BY PickIs
  <1>2. q[0] = << >> /\ \A k \in 0 .. n - 1 : q[k + 1] = IF k + 1 \in A THEN Append(q[k], s[k + 1]) ELSE q[k]
    BY <1>1 DEF IsPick
  <1>3. \A k \in 0 .. n : q[k] \in Seq(V)
    BY <1>1 DEF IsPick
  <1> DEFINE C(k) == A \cap (1 .. k)
  <1>4. \A k \in 0 .. n : IsFiniteSet(C(k)) /\ Cardinality(C(k)) \in Nat
    BY <1>0, PartOfInterval
  <1> DEFINE T == {k \in 0 .. n : Len(q[k]) = Cardinality(C(k))}
  <1>5. 0 \in T
    <2>1. C(0) = {}
      OBVIOUS
    <2>2. Len(<< >>) = 0 /\ Cardinality({}) = 0
      BY FS_EmptySet
    <2> QED BY <1>0, <1>2, <2>1, <2>2
  <1>6. ASSUME NEW k \in 0 .. n - 1, k \in T PROVE k + 1 \in T
    <2>0. k \in 0 .. n /\ k + 1 \in 0 .. n /\ Len(q[k]) = Cardinality(C(k))
      BY <1>0, <1>6
    <2>1. CASE k + 1 \in A
      <3>1. C(k + 1) = C(k) \cup {k + 1} /\ k + 1 \notin C(k)
        BY <2>0, <2>1
      <3>2. IsFiniteSet(C(k))
        BY <1>4, <2>0
      <3> HIDE DEF C
      <3>3. Cardinality(C(k + 1)) = Cardinality(C(k)) + 1
        BY <3>1, <3>2, FS_AddElement
      <3>4. q[k] \in Seq(V) /\ s[k + 1] \in V
        BY <1>3, <2>0, ElementOfSeq
      <3>5. q[k + 1] = Append(q[k], s[k + 1])
        BY <1>2, <2>1
      <3>6. Len(q[k + 1]) = Len(q[k]) + 1
        BY <3>4, <3>5, AppendProperties
      <3> QED BY <2>0, <3>3, <3>6
    <2>2. CASE k + 1 \notin A
      <3>1. C(k + 1) = C(k)
        BY <2>0, <2>2
      <3>2. q[k + 1] = q[k]
        BY <1>2, <2>2
      <3> HIDE DEF C
      <3> QED BY <2>0, <3>1, <3>2
    <2> QED BY <2>1, <2>2
  <1>7. n \in T
    <2>1. \A k \in 0 .. n : k \in T
      <3> HIDE DEF T, n
      <3> QED BY <1>0, <1>5, <1>6, TurnInduction
    <2> QED BY <1>0, <2>1
  <1>8. C(n) = A
    BY <1>0
  <1>9. Len(q[n]) = Cardinality(A) /\ IsFiniteSet(A) /\ Cardinality(A) \in Nat /\ q[n] \in Seq(V)
    BY <1>0, <1>3, <1>4, <1>7, <1>8
  <1>10. Pick(s, {}) = << >>
    <2>1. PICK r : IsPick(r, s, {}, V) /\ Pick(s, {}) = r[n]
      BY PickIs
    <2>2. r[0] = << >> /\ \A k \in 0 .. n - 1 : r[k + 1] = r[k]
      BY <2>1 DEF IsPick
    <2> DEFINE none == [k \in 0 .. n |-> << >>]
    <2>3. \A k \in 0 .. n - 1 : r[k] = none[k] => r[k + 1] = none[k + 1]
      BY <1>0, <2>2
    <2>4. r[0] = none[0] /\ none[n] = << >>
      BY <1>0, <2>2
    <2> HIDE DEF none, n
    <2>5. r[n] = none[n]
      BY <1>0, <2>3, <2>4, LoopsEndAlike
    <2> QED BY <2>1, <2>4, <2>5
  <1> QED BY <1>1, <1>9, <1>10

----------------------------------------------------------------------------
(* The edit distance *)

\* The ways to align some of the first i characters of s with as many of the
\* first j of t, and what each costs
Alignments(i, j) == {p \in (SUBSET (1 .. i)) \X (SUBSET (1 .. j)) : Cardinality(p[1]) = Cardinality(p[2])}
Aligned(A, B, i, j) == A \in SUBSET (1 .. i) /\ B \in SUBSET (1 .. j) /\ Cardinality(A) = Cardinality(B)
Mismatches(x, y) == {k \in DOMAIN x : x[k] # y[k]}
CostOf(x, y, i, j) == i + j - 2 * Len(x) + Cardinality(Mismatches(x, y))
Costs(s, t, i, j) == {CostOf(Pick(s, p[1]), Pick(t, p[2]), i, j) : p \in Alignments(i, j)}

\* 1 where two characters differ
Differ01(a, b) == IF a = b THEN 0 ELSE 1

IsLeast(x, C) == x \in C /\ \A c \in C : x <= c

\* Two sequences of one length differ in finitely many places, and one pair
\* more adds one place or none.
LEMMA MismatchesGrow ==
  ASSUME NEW V, NEW x \in Seq(V), NEW y \in Seq(V), Len(x) = Len(y), NEW a \in V, NEW b \in V
  PROVE  /\ Cardinality(Mismatches(x, y)) \in Nat
         /\ Cardinality(Mismatches(Append(x, a), Append(y, b)))
              = Cardinality(Mismatches(x, y)) + Differ01(a, b)
  <1> DEFINE n == Len(x)
             M == Mismatches(x, y)
             N == Mismatches(Append(x, a), Append(y, b))
             u == Append(x, a)
             v == Append(y, b)
  <1>1. n \in Nat /\ DOMAIN x = 1 .. n
    BY LenProperties
  <1>2. M \in SUBSET (1 .. n)
    BY <1>1 DEF Mismatches
  <1>3. IsFiniteSet(M) /\ Cardinality(M) \in Nat
    BY <1>1, <1>2, PartOfInterval
  <1>4. /\ DOMAIN u = 1 .. n + 1 /\ u[n + 1] = a /\ v[n + 1] = b
        /\ \A k \in 1 .. n : u[k] = x[k] /\ v[k] = y[k]
    <2>1. u \in Seq(V) /\ Len(u) = n + 1
      BY AppendProperties
    <2> QED BY <1>1, <2>1, AppendProperties, LenProperties
  <1>5. N = {k \in 1 .. n + 1 : u[k] # v[k]} /\ M = {k \in 1 .. n : x[k] # y[k]}
    BY <1>1, <1>4 DEF Mismatches
  <1> HIDE DEF u, v, N, M, n
  <1>6. N = IF a = b THEN M ELSE M \cup {n + 1}
    <2>1. \A k : k \in 1 .. n + 1 <=> k \in 1 .. n \/ k = n + 1
      BY <1>1
    <2>2. n + 1 \notin 1 .. n
      BY <1>1
    <2> QED BY <1>4, <1>5, <2>1, <2>2
  <1>7. n + 1 \notin M
    BY <1>1, <1>2
  <1>8. CASE a = b
    BY <1>3, <1>6, <1>8 DEF M, N, Differ01
  <1>9. CASE a # b
    <2>1. Cardinality(N) = Cardinality(M) + 1
      BY <1>3, <1>6, <1>7, <1>9, FS_AddElement
    <2> QED BY <1>3, <1>9, <2>1 DEF M, N, Differ01
  <1> QED BY <1>8, <1>9

\* A cost, term by term
LEMMA CostIs ==
  ASSUME NEW V, NEW s \in Seq(V), NEW t \in Seq(V), NEW i \in 0 .. Len(s), NEW j \in 0 .. Len(t),
         NEW A \in SUBSET (1 .. i), NEW B \in SUBSET (1 .. j), Cardinality(A) = Cardinality(B)
  PROVE  /\ Pick(s, A) \in Seq(V) /\ Pick(t, B) \in Seq(V) /\ Len(Pick(s, A)) = Len(Pick(t, B))
         /\ IsFiniteSet(A) /\ IsFiniteSet(B) /\ Len(Pick(s, A)) = Cardinality(A) /\ Cardinality(A) \in Nat
         /\ Cardinality(Mismatches(Pick(s, A), Pick(t, B))) \in Nat
         /\ CostOf(Pick(s, A), Pick(t, B), i, j) \in Int
         /\ CostOf(Pick(s, A), Pick(t, B), i + 1, j) = CostOf(Pick(s, A), Pick(t, B), i, j) + 1
         /\ CostOf(Pick(s, A), Pick(t, B), i, j + 1) = CostOf(Pick(s, A), Pick(t, B), i, j) + 1
  <1> DEFINE x == Pick(s, A)
             y == Pick(t, B)
             M == Mismatches(x, y)
  <1>0. Len(s) \in Nat /\ Len(t) \in Nat
    BY LenProperties
  <1>1. A \in SUBSET (1 .. Len(s)) /\ B \in SUBSET (1 .. Len(t))
    BY <1>0
  <1>2. x \in Seq(V) /\ Len(x) = Cardinality(A) /\ IsFiniteSet(A) /\ Cardinality(A) \in Nat
    BY <1>1, PickSize
  <1>3. y \in Seq(V) /\ Len(y) = Cardinality(B) /\ IsFiniteSet(B)
    BY <1>1, PickSize
  <1> HIDE DEF x, y
  <1>4. M \in SUBSET (1 .. Len(x)) /\ Len(x) \in Nat
    BY <1>2, LenProperties DEF Mismatches
  <1>5. Cardinality(M) \in Nat
    BY <1>4, PartOfInterval
  <1> DEFINE l == Len(x)
             c == Cardinality(M)
  <1>6. l \in Nat /\ c \in Nat /\ i \in Nat /\ j \in Nat
    BY <1>0, <1>4, <1>5
  <1>7. \A a, b : CostOf(x, y, a, b) = a + b - 2 * l + c
    BY DEF CostOf
  <1> HIDE DEF l, c, M
  <1>8. /\ CostOf(x, y, i, j) \in Int
        /\ CostOf(x, y, i + 1, j) = CostOf(x, y, i, j) + 1
        /\ CostOf(x, y, i, j + 1) = CostOf(x, y, i, j) + 1
    BY <1>6, <1>7
  <1> QED BY <1>2, <1>3, <1>5, <1>8 DEF x, y, M

\* Costs are whole numbers; aligning nothing costs every character.
LEMMA CostsAtEdge ==
  ASSUME NEW V, NEW s \in Seq(V), NEW t \in Seq(V), NEW i \in 0 .. Len(s), NEW j \in 0 .. Len(t)
  PROVE  /\ Costs(s, t, i, j) \in SUBSET Int
         /\ i = 0 \/ j = 0 => Costs(s, t, i, j) = {i + j}
  <1>0. Len(s) \in Nat /\ Len(t) \in Nat /\ i \in Nat /\ j \in Nat
    BY LenProperties
  <1>1. Costs(s, t, i, j) \in SUBSET Int
    <2> SUFFICES ASSUME NEW p \in Alignments(i, j) PROVE CostOf(Pick(s, p[1]), Pick(t, p[2]), i, j) \in Int
      BY DEF Costs
    <2>1. p[1] \in SUBSET (1 .. i) /\ p[2] \in SUBSET (1 .. j) /\ Cardinality(p[1]) = Cardinality(p[2])
      BY DEF Alignments
    <2> QED BY <2>1, CostIs
  <1>2. ASSUME i = 0 \/ j = 0 PROVE Costs(s, t, i, j) = {i + j}
    <2>1. CostOf(Pick(s, {}), Pick(t, {}), i, j) = i + j
      <3>1. Pick(s, {}) = << >> /\ Pick(t, {}) = << >>
        BY PickSize
      <3>2. Mismatches(<< >>, << >>) = {} /\ Len(<< >>) = 0
        BY DEF Mismatches
      <3>3. Cardinality({}) = 0
        BY FS_EmptySet
      <3>4. CostOf(<< >>, << >>, i, j) = i + j - 2 * 0 + 0
        BY <3>2, <3>3 DEF CostOf
      <3> QED BY <1>0, <3>1, <3>4
    <2>2. ASSUME NEW p \in Alignments(i, j) PROVE p[1] = {} /\ p[2] = {}
      <3>1. p[1] \in SUBSET (1 .. i) /\ p[2] \in SUBSET (1 .. j) /\ Cardinality(p[1]) = Cardinality(p[2])
        BY DEF Alignments
      <3>2. IsFiniteSet(p[1]) /\ IsFiniteSet(p[2])
        BY <1>0, <3>1, PartOfInterval
      <3>3. p[1] = {} \/ p[2] = {}
        BY <1>2, <3>1
      <3> QED BY <3>1, <3>2, <3>3, FS_EmptySet
    <2> DEFINE e == <<{}, {}>>
    <2>3. e \in Alignments(i, j) /\ e[1] = {} /\ e[2] = {}
      BY DEF Alignments
    <2> HIDE DEF e
    <2> QED BY <2>1, <2>2, <2>3 DEF Costs
  <1> QED BY <1>1, <1>2

\* An alignment drops the last character of s, or that of t, or aligns the two.
LEMMA CostsNext ==
  ASSUME NEW V, NEW s \in Seq(V), NEW t \in Seq(V), NEW i \in 0 .. Len(s) - 1, NEW j \in 0 .. Len(t) - 1
  PROVE  Costs(s, t, i + 1, j + 1) =
           {c + 1 : c \in Costs(s, t, i, j + 1)} \cup {c + 1 : c \in Costs(s, t, i + 1, j)}
             \cup {c + IF s[i + 1] = t[j + 1] THEN 0 ELSE 1 : c \in Costs(s, t, i, j)}
  <1> DEFINE d == IF s[i + 1] = t[j + 1] THEN 0 ELSE 1
             C(A, B, a, b) == CostOf(Pick(s, A), Pick(t, B), a, b)
  <1>0. /\ Len(s) \in Nat /\ Len(t) \in Nat /\ i \in Nat /\ j \in Nat /\ d \in Int
        /\ i \in 0 .. Len(s) /\ j \in 0 .. Len(t) /\ i + 1 \in 0 .. Len(s) /\ j + 1 \in 0 .. Len(t)
        /\ i + 1 \in 1 .. Len(s) /\ j + 1 \in 1 .. Len(t)
    BY LenProperties
  <1>00. s[i + 1] \in V /\ t[j + 1] \in V
    BY <1>0, ElementOfSeq
  <1>1. \A a, b, c : c \in Costs(s, t, a, b) <=> \E A, B : Aligned(A, B, a, b) /\ c = C(A, B, a, b)
    <2>0. \A a, b, c : c \in Costs(s, t, a, b) <=> \E p \in Alignments(a, b) : c = C(p[1], p[2], a, b)
      BY DEF Costs
    <2> HIDE DEF C
    <2>1. \A a, b, A, B : Aligned(A, B, a, b) => <<A, B>> \in Alignments(a, b) /\ <<A, B>>[1] = A /\ <<A, B>>[2] = B
      BY DEF Alignments, Aligned
    <2>2. \A a, b, p : p \in Alignments(a, b) => Aligned(p[1], p[2], a, b)
      BY DEF Alignments, Aligned
    <2>3. ASSUME NEW a, NEW b, NEW c, NEW A, NEW B, Aligned(A, B, a, b), c = C(A, B, a, b)
          PROVE  c \in Costs(s, t, a, b)
      <3> DEFINE p == <<A, B>>
      <3>1. p \in Alignments(a, b) /\ p[1] = A /\ p[2] = B
        BY <2>1, <2>3
      <3> HIDE DEF p
      <3> QED BY <2>0, <2>3, <3>1
    <2> QED BY <2>0, <2>2, <2>3
  <1>2. ASSUME NEW A, NEW B, Aligned(A, B, i, j)
        PROVE  /\ C(A \cup {i + 1}, B \cup {j + 1}, i + 1, j + 1) = C(A, B, i, j) + d
               /\ Aligned(A \cup {i + 1}, B \cup {j + 1}, i + 1, j + 1)
    <2>0. A \in SUBSET (1 .. i) /\ B \in SUBSET (1 .. j) /\ Cardinality(A) = Cardinality(B)
      BY <1>2 DEF Aligned
    <2> DEFINE x == Pick(s, A)
               y == Pick(t, B)
               m == Cardinality(Mismatches(x, y))
               l == Len(x)
    <2>1. /\ x \in Seq(V) /\ y \in Seq(V) /\ Len(x) = Len(y) /\ IsFiniteSet(A) /\ IsFiniteSet(B)
          /\ Len(x) = Cardinality(A) /\ Cardinality(A) \in Nat
      BY <1>0, <2>0, CostIs
    <2>2. Pick(s, A \cup {i + 1}) = Append(x, s[i + 1]) /\ Pick(t, B \cup {j + 1}) = Append(y, t[j + 1])
      BY <2>0, PickGrows
    <2> HIDE DEF x, y
    <2>3. m \in Nat /\ Cardinality(Mismatches(Append(x, s[i + 1]), Append(y, t[j + 1]))) = m + d
      <3>0. x \in Seq(V) /\ y \in Seq(V) /\ Len(x) = Len(y)
        BY <2>1
      <3>2. \A a \in V, b \in V : /\ Cardinality(Mismatches(x, y)) \in Nat
                                 /\ Cardinality(Mismatches(Append(x, a), Append(y, b)))
                                      = Cardinality(Mismatches(x, y)) + Differ01(a, b)
        BY <3>0, MismatchesGrow
      <3>1. m \in Nat /\ Cardinality(Mismatches(Append(x, s[i + 1]), Append(y, t[j + 1]))) = m + Differ01(s[i + 1], t[j + 1])
        BY <1>00, <3>2
      <3> QED BY <3>1 DEF Differ01
    <2>4. Len(Append(x, s[i + 1])) = l + 1 /\ l \in Nat
      BY <1>00, <2>1, AppendProperties
    <2>5. C(A, B, i, j) = i + j - 2 * l + m
      BY DEF CostOf, x, y
    <2>6. C(A \cup {i + 1}, B \cup {j + 1}, i + 1, j + 1) = (i + 1) + (j + 1) - 2 * (l + 1) + (m + d)
      BY <2>2, <2>3, <2>4 DEF CostOf
    <2> HIDE DEF l, m, C, d
    <2>7. (i + 1) + (j + 1) - 2 * (l + 1) + (m + d) = (i + j - 2 * l + m) + d
      BY <1>0, <2>3, <2>4
    <2>8. i + 1 \notin A /\ j + 1 \notin B
      BY <1>0, <2>0
    <2>9. Cardinality(A \cup {i + 1}) = Cardinality(A) + 1 /\ Cardinality(B \cup {j + 1}) = Cardinality(B) + 1
      BY <2>1, <2>8, FS_AddElement
    <2>10. A \cup {i + 1} \in SUBSET (1 .. i + 1) /\ B \cup {j + 1} \in SUBSET (1 .. j + 1)
      BY <1>0, <2>0
    <2>11. Aligned(A \cup {i + 1}, B \cup {j + 1}, i + 1, j + 1)
      BY <2>0, <2>9, <2>10 DEF Aligned
    <2> QED BY <2>5, <2>6, <2>7, <2>11
  <1>3. ASSUME NEW A, NEW B, Aligned(A, B, i, j + 1)
        PROVE  C(A, B, i + 1, j + 1) = C(A, B, i, j + 1) + 1
    BY <1>0, <1>3, CostIs DEF Aligned
  <1>4. ASSUME NEW A, NEW B, Aligned(A, B, i + 1, j)
        PROVE  C(A, B, i + 1, j + 1) = C(A, B, i + 1, j) + 1
    BY <1>0, <1>4, CostIs DEF Aligned
  <1> HIDE DEF C, d
  <1> DEFINE L == {c + 1 : c \in Costs(s, t, i, j + 1)}
             M == {c + 1 : c \in Costs(s, t, i + 1, j)}
             R == {c + d : c \in Costs(s, t, i, j)}
  <1>5. ASSUME NEW c \in Costs(s, t, i + 1, j + 1) PROVE c \in L \cup M \cup R
    <2>1. PICK A, B : Aligned(A, B, i + 1, j + 1) /\ c = C(A, B, i + 1, j + 1)
      BY <1>1
    <2>10. A \in SUBSET (1 .. i + 1) /\ B \in SUBSET (1 .. j + 1) /\ Cardinality(A) = Cardinality(B)
      BY <2>1 DEF Aligned
    <2>2. CASE i + 1 \notin A
      <3>1. A \in SUBSET (1 .. i)
        BY <1>0, <2>2, <2>10
      <3>2. Aligned(A, B, i, j + 1)
        BY <2>10, <3>1 DEF Aligned
      <3>3. c = C(A, B, i, j + 1) + 1 /\ C(A, B, i, j + 1) \in Costs(s, t, i, j + 1)
        BY <1>1, <1>3, <2>1, <3>2
      <3> QED BY <3>3
    <2>3. CASE j + 1 \notin B
      <3>1. B \in SUBSET (1 .. j)
        BY <1>0, <2>3, <2>10
      <3>2. Aligned(A, B, i + 1, j)
        BY <2>10, <3>1 DEF Aligned
      <3>3. c = C(A, B, i + 1, j) + 1 /\ C(A, B, i + 1, j) \in Costs(s, t, i + 1, j)
        BY <1>1, <1>4, <2>1, <3>2
      <3> QED BY <3>3
    <2>4. CASE i + 1 \in A /\ j + 1 \in B
      <3> DEFINE A0 == A \ {i + 1}
                 B0 == B \ {j + 1}
      <3>1. A0 \in SUBSET (1 .. i) /\ B0 \in SUBSET (1 .. j) /\ A = A0 \cup {i + 1} /\ B = B0 \cup {j + 1}
        BY <1>0, <2>4, <2>10
      <3>2. IsFiniteSet(A) /\ IsFiniteSet(B)
        <4>1. i + 1 \in Nat /\ j + 1 \in Nat
          BY <1>0
        <4> QED BY <2>10, <4>1, PartOfInterval
      <3>3. Cardinality(A0) = Cardinality(A) - 1 /\ Cardinality(B0) = Cardinality(B) - 1
        BY <2>4, <3>2, FS_RemoveElement
      <3> HIDE DEF A0, B0
      <3>4. Aligned(A0, B0, i, j)
        BY <2>10, <3>1, <3>3 DEF Aligned
      <3>5. c = C(A0, B0, i, j) + d /\ C(A0, B0, i, j) \in Costs(s, t, i, j)
        BY <1>1, <1>2, <2>1, <3>1, <3>4
      <3> QED BY <3>5
    <2> QED BY <2>2, <2>3, <2>4
  <1>6. ASSUME NEW c \in L PROVE c \in Costs(s, t, i + 1, j + 1)
    <2>0. PICK e \in Costs(s, t, i, j + 1) : c = e + 1
      OBVIOUS
    <2>1. PICK A, B : Aligned(A, B, i, j + 1) /\ e = C(A, B, i, j + 1)
      BY <1>1
    <2>2. Aligned(A, B, i + 1, j + 1)
      BY <1>0, <2>1 DEF Aligned
    <2>3. c = C(A, B, i + 1, j + 1)
      BY <1>3, <2>0, <2>1
    <2> QED BY <1>1, <2>2, <2>3
  <1>7. ASSUME NEW c \in M PROVE c \in Costs(s, t, i + 1, j + 1)
    <2>0. PICK e \in Costs(s, t, i + 1, j) : c = e + 1
      OBVIOUS
    <2>1. PICK A, B : Aligned(A, B, i + 1, j) /\ e = C(A, B, i + 1, j)
      BY <1>1
    <2>2. Aligned(A, B, i + 1, j + 1)
      BY <1>0, <2>1 DEF Aligned
    <2>3. c = C(A, B, i + 1, j + 1)
      BY <1>4, <2>0, <2>1
    <2> QED BY <1>1, <2>2, <2>3
  <1>8. ASSUME NEW c \in R PROVE c \in Costs(s, t, i + 1, j + 1)
    <2>0. PICK e \in Costs(s, t, i, j) : c = e + d
      OBVIOUS
    <2>1. PICK A, B : Aligned(A, B, i, j) /\ e = C(A, B, i, j)
      BY <1>1
    <2> DEFINE A1 == A \cup {i + 1}
               B1 == B \cup {j + 1}
    <2>2. c = C(A1, B1, i + 1, j + 1) /\ Aligned(A1, B1, i + 1, j + 1)
      BY <1>2, <2>0, <2>1
    <2> HIDE DEF A1, B1
    <2> QED BY <1>1, <2>2
  <1> HIDE DEF L, M, R
  <1>9. Costs(s, t, i + 1, j + 1) = L \cup M \cup R
    BY <1>5, <1>6, <1>7, <1>8
  <1> QED BY <1>9 DEF L, M, R, d

\* min3 picks the cheapest of the three.
LEMMA LeastOfThree ==
  ASSUME NEW A \in SUBSET Int, NEW B \in SUBSET Int, NEW C \in SUBSET Int, NEW d \in Int,
         NEW a, NEW b, NEW c, IsLeast(a, A), IsLeast(b, B), IsLeast(c, C)
  PROVE  IsLeast(min3(a + 1, b + 1, c + d), {x + 1 : x \in A} \cup {x + 1 : x \in B} \cup {x + d : x \in C})
  <1> DEFINE m == min3(a + 1, b + 1, c + d)
             All == {x + 1 : x \in A} \cup {x + 1 : x \in B} \cup {x + d : x \in C}
  <1>1. a \in A /\ b \in B /\ c \in C /\ a \in Int /\ b \in Int /\ c \in Int
    BY DEF IsLeast
  <1>2. /\ m \in Int /\ m <= a + 1 /\ m <= b + 1 /\ m <= c + d
        /\ m = a + 1 \/ m = b + 1 \/ m = c + d
    BY <1>1 DEF min3
  <1> HIDE DEF m
  <1>3. m \in All
    BY <1>1, <1>2
  <1>4. ASSUME NEW y \in All PROVE m <= y
    <2>1. CASE \E x \in A : y = x + 1
      <3>1. PICK x \in A : y = x + 1
        BY <2>1
      <3>2. x \in Int /\ a <= x
        BY DEF IsLeast
      <3> QED BY <1>1, <1>2, <3>1, <3>2
    <2>2. CASE \E x \in B : y = x + 1
      <3>1. PICK x \in B : y = x + 1
        BY <2>2
      <3>2. x \in Int /\ b <= x
        BY DEF IsLeast
      <3> QED BY <1>1, <1>2, <3>1, <3>2
    <2>3. CASE \E x \in C : y = x + d
      <3>1. PICK x \in C : y = x + d
        BY <2>3
      <3>2. x \in Int /\ c <= x
        BY DEF IsLeast
      <3> QED BY <1>1, <1>2, <3>1, <3>2
    <2> QED BY <2>1, <2>2, <2>3
  <1> QED BY <1>3, <1>4 DEF IsLeast, m

\* Rows of the first j + 1 cells that hold the least costs
EditCells(s, t, i, j) ==
  {row \in Seq(Int) : Len(row) = j + 1 /\ \A k \in 0 .. j : IsLeast(row[k + 1], Costs(s, t, i, k))}

\* The cell EditRow appends
EditCell(above, row, s, t, i, j) ==
  min3(above[j + 2] + 1, row[j + 1] + 1, above[j + 1] + IF s[i + 1] = t[j + 1] THEN 0 ELSE 1)

\* A turn fills one cell more.
LEMMA EditTurnIs ==
  ASSUME NEW V, NEW s \in Seq(V), NEW t \in Seq(V), NEW i \in 0 .. Len(s) - 1, NEW j \in 0 .. Len(t) - 1,
         NEW above \in EditCells(s, t, i, Len(t)), NEW row \in EditCells(s, t, i + 1, j)
  PROVE  Append(row, EditCell(above, row, s, t, i, j)) \in EditCells(s, t, i + 1, j + 1)
  <1> DEFINE m == Len(t)
             d == IF s[i + 1] = t[j + 1] THEN 0 ELSE 1
             c == EditCell(above, row, s, t, i, j)
             r == Append(row, c)
  <1>0. /\ Len(s) \in Nat /\ m \in Nat /\ i \in Nat /\ j \in Nat /\ d \in Int
        /\ j \in 0 .. m /\ j + 1 \in 0 .. m /\ (j + 1) + 1 = j + 2 /\ j \in 0 .. j
        /\ i \in 0 .. Len(s) /\ i + 1 \in 0 .. Len(s)
    BY LenProperties
  <1>1. row \in Seq(Int) /\ Len(row) = j + 1 /\ \A k \in 0 .. j : IsLeast(row[k + 1], Costs(s, t, i + 1, k))
    BY DEF EditCells
  <1>2. \A k \in 0 .. m : IsLeast(above[k + 1], Costs(s, t, i, k))
    BY DEF EditCells
  <1>3. /\ Costs(s, t, i, j) \in SUBSET Int /\ Costs(s, t, i, j + 1) \in SUBSET Int
        /\ Costs(s, t, i + 1, j) \in SUBSET Int /\ Costs(s, t, i + 1, j + 1) \in SUBSET Int
    BY <1>0, CostsAtEdge
  <1> HIDE DEF d, m
  <1>4. /\ IsLeast(above[j + 2], Costs(s, t, i, j + 1)) /\ IsLeast(row[j + 1], Costs(s, t, i + 1, j))
        /\ IsLeast(above[j + 1], Costs(s, t, i, j))
    BY <1>0, <1>1, <1>2
  <1>5. c = min3(above[j + 2] + 1, row[j + 1] + 1, above[j + 1] + d)
    BY DEF EditCell, d
  <1>6. Costs(s, t, i + 1, j + 1) = {x + 1 : x \in Costs(s, t, i, j + 1)} \cup {x + 1 : x \in Costs(s, t, i + 1, j)}
                                     \cup {x + d : x \in Costs(s, t, i, j)}
    BY CostsNext DEF d
  <1>7. IsLeast(c, Costs(s, t, i + 1, j + 1))
    <2> DEFINE P == Costs(s, t, i, j + 1)
               Q == Costs(s, t, i + 1, j)
               R == Costs(s, t, i, j)
               p == above[j + 2]
               q == row[j + 1]
               o == above[j + 1]
    <2> HIDE DEF P, Q, R, p, q, o, c
    <2>1. P \in SUBSET Int /\ Q \in SUBSET Int /\ R \in SUBSET Int /\ d \in Int
      BY <1>0, <1>3 DEF P, Q, R
    <2>2. IsLeast(p, P) /\ IsLeast(q, Q) /\ IsLeast(o, R)
      BY <1>4 DEF P, Q, R, p, q, o
    <2>3. IsLeast(min3(p + 1, q + 1, o + d), {x + 1 : x \in P} \cup {x + 1 : x \in Q} \cup {x + d : x \in R})
      BY <2>1, <2>2, LeastOfThree
    <2> QED BY <1>5, <1>6, <2>3 DEF P, Q, R, p, q, o
  <1>8. c \in Int
    BY <1>3, <1>7 DEF IsLeast
  <1> HIDE DEF c
  <1>9. r \in Seq(Int) /\ Len(r) = (j + 1) + 1 /\ r[(j + 1) + 1] = c /\ \A k \in 1 .. j + 1 : r[k] = row[k]
    BY <1>1, <1>8, AppendProperties
  <1> HIDE DEF r
  <1>10. ASSUME NEW k \in 0 .. j + 1 PROVE IsLeast(r[k + 1], Costs(s, t, i + 1, k))
    <2>1. CASE k = j + 1
      BY <1>7, <1>9, <2>1
    <2>2. CASE k # j + 1
      <3>1. k \in 0 .. j /\ k + 1 \in 1 .. j + 1
        BY <1>0, <2>2
      <3> QED BY <1>1, <1>9, <3>1
    <2> QED BY <2>1, <2>2
  <1>11. r \in EditCells(s, t, i + 1, j + 1)
    BY <1>9, <1>10 DEF EditCells
  <1> QED BY <1>11 DEF r, c

\* A row holds the least costs when the row above it does.
LEMMA EditRowIs ==
  ASSUME NEW V, NEW s \in Seq(V), NEW t \in Seq(V), NEW i \in 0 .. Len(s) - 1,
         NEW above \in EditCells(s, t, i, Len(t))
  PROVE  EditRow(above, s[i + 1], t) \in EditCells(s, t, i + 1, Len(t))
  <1> DEFINE count == Len(t)
             Before(j) == EditCells(s, t, i + 1, j)
             start == <<above[1] + 1>>
             Turn(row, j) == Append(row, EditCell(above, row, s, t, i, j))
             IsLoop(f) == f = [h \in 0 .. count |-> IF h <= 0 THEN start ELSE Turn(f[h - 1], h - 1)]
             loop == CHOOSE f : IsLoop(f)
  <1>1. EditRow(above, s[i + 1], t) = loop[count]
    BY DEF EditRow, EditCell, For
  <1>2. count \in Nat /\ Len(s) \in Nat
    BY LenProperties
  <1>3. start \in Before(0)
    <2>1. IsLeast(above[0 + 1], Costs(s, t, i, 0)) /\ 0 \in 0 .. count /\ i \in 0 .. Len(s) /\ i + 1 \in 0 .. Len(s)
      BY <1>2 DEF EditCells
    <2>2. Costs(s, t, i, 0) = {i} /\ Costs(s, t, i + 1, 0) = {i + 1}
      <3>1. i + 0 = i /\ (i + 1) + 0 = i + 1
        BY <1>2
      <3> HIDE DEF count
      <3> QED BY <2>1, <3>1, CostsAtEdge DEF count
    <2>3. above[1] = i /\ i \in Int
      BY <1>2, <2>1, <2>2 DEF IsLeast
    <2> DEFINE z == <<i + 1>>
    <2>4. z \in Seq(Int) /\ Len(z) = 0 + 1 /\ z[0 + 1] = i + 1 /\ 0 .. 0 = {0}
      BY <2>3
    <2>5. IsLeast(i + 1, Costs(s, t, i + 1, 0))
      BY <2>2, <2>3 DEF IsLeast
    <2>6. start = z
      BY <2>3
    <2> HIDE DEF z, start
    <2> QED BY <2>4, <2>5, <2>6 DEF EditCells
  <1>4. \A j \in 0 .. count - 1 : \A u \in Before(j) : Turn(u, j) \in Before(j + 1)
    BY EditTurnIs
  <1>41. Before(count) = EditCells(s, t, i + 1, Len(t))
    OBVIOUS
  <1> HIDE DEF Turn, Before, start, count
  <1>5. PICK g : /\ g = [h \in 0 .. count |-> g[h]] /\ g[0] = start /\ \A h \in 0 .. count : g[h] \in Before(h)
                /\ \A h \in 0 .. count - 1 : g[h + 1] = Turn(g[h], h)
    <2> DEFINE stage == [h \in 0 .. count |-> Before(h)]
               turn == [p \in (UNION {Before(h) : h \in 0 .. count - 1}) \X (0 .. count - 1) |-> Turn(p[1], p[2])]
    <2>1. \A h \in 0 .. count : stage[h] = Before(h)
      OBVIOUS
    <2>2. \A h \in 0 .. count - 1 : \A u \in Before(h) : turn[<<u, h>>] = Turn(u, h)
      OBVIOUS
    <2> HIDE DEF stage, turn
    <2>3. \A h \in 0 .. count - 1 : \A u \in stage[h] : turn[<<u, h>>] \in stage[h + 1]
      <3> SUFFICES ASSUME NEW h \in 0 .. count - 1, NEW u \in stage[h] PROVE turn[<<u, h>>] \in stage[h + 1]
        OBVIOUS
      <3>1. h \in 0 .. count /\ h + 1 \in 0 .. count
        BY <1>2
      <3>2. u \in Before(h) /\ stage[h + 1] = Before(h + 1)
        BY <2>1, <3>1
      <3>3. turn[<<u, h>>] = Turn(u, h) /\ Turn(u, h) \in Before(h + 1)
        BY <1>4, <2>2, <3>2
      <3> QED BY <3>2, <3>3
    <2>4. start \in stage[0]
      BY <1>2, <1>3, <2>1
    <2>5. PICK g : IsStaged(g, count, stage, start, turn)
      BY <1>2, <2>3, <2>4, StagedLoopRuns
    <2>6. \A h \in 0 .. count - 1 : g[h + 1] = Turn(g[h], h)
      <3> SUFFICES ASSUME NEW h \in 0 .. count - 1 PROVE g[h + 1] = Turn(g[h], h)
        OBVIOUS
      <3>1. h \in 0 .. count
        BY <1>2
      <3>2. g[h] \in stage[h] /\ g[h + 1] = turn[<<g[h], h>>]
        BY <2>5, <3>1 DEF IsStaged
      <3> QED BY <2>1, <2>2, <3>1, <3>2
    <2> QED BY <2>1, <2>5, <2>6 DEF IsStaged
  <1>6. IsLoop(g)
    <2> DEFINE turned == [h \in 0 .. count |-> IF h <= 0 THEN start ELSE Turn(g[h - 1], h - 1)]
    <2>1. ASSUME NEW h \in 0 .. count PROVE g[h] = turned[h]
      <3>1. CASE h = 0
        BY <1>5, <3>1
      <3>2. CASE h # 0
        <4>1. h - 1 \in 0 .. count - 1 /\ (h - 1) + 1 = h /\ ~(h <= 0)
          BY <1>2, <3>2
        <4>2. g[h] = Turn(g[h - 1], h - 1)
          BY <1>5, <4>1
        <4> QED BY <4>1, <4>2
      <3> QED BY <3>1, <3>2
    <2> QED BY <1>5, <2>1
  <1>7. IsLoop(loop)
    <2> HIDE DEF IsLoop
    <2> QED BY <1>6
  <1> HIDE DEF loop
  <1>8. loop[count] \in Before(count)
    <2>1. loop[0] = start /\ \A h \in 0 .. count - 1 : loop[h + 1] = Turn(loop[h], h)
      BY <1>2, <1>7
    <2> HIDE DEF IsLoop
    <2>2. \A h \in 0 .. count - 1 : loop[h] = g[h] => loop[h + 1] = g[h + 1]
      BY <1>5, <2>1
    <2>3. loop[0] = g[0]
      BY <1>5, <2>1
    <2>4. loop[count] = g[count]
      BY <1>2, <2>2, <2>3, LoopsEndAlike
    <2> QED BY <1>2, <1>5, <2>4
  <1> QED BY <1>1, <1>8, <1>41

\* EditDistance is the cost of the cheapest alignment.
THEOREM CheapestAlignment ==
  ASSUME NEW V, NEW s \in Seq(V), NEW t \in Seq(V)
  PROVE  EditDistanceAgrees(s, t)
  <1> DEFINE count == Len(s)
             Before(i) == EditCells(s, t, i, Len(t))
             start == SubSeq([j \in 1 .. Len(t) + 1 |-> j - 1], 1, Len([j \in 1 .. Len(t) + 1 |-> j - 1]))
             Turn(row, i) == EditRow(row, s[i + 1], t)
             IsLoop(f) == f = [i \in 0 .. count |-> IF i <= 0 THEN start ELSE Turn(f[i - 1], i - 1)]
             loop == CHOOSE f : IsLoop(f)
             m == Len(t)
  <1>1. EditDistance(s, t) = loop[count][m + 1]
    BY DEF EditDistance, For
  <1>2. count \in Nat /\ m \in Nat
    BY LenProperties
  <1>3. start \in Before(0)
    <2> DEFINE first == [j \in 1 .. m + 1 |-> j - 1]
    <2>1. first \in Seq(Int) /\ Len(first) = m + 1 /\ \A j \in 1 .. m + 1 : first[j] = j - 1
      BY <1>2
    <2> HIDE DEF first
    <2>2. SubSeq(first, 1, m + 1) = first
      <3>1. SubSeq(first, 1, m + 1) \in Seq(Int) /\ Len(SubSeq(first, 1, m + 1)) = m + 1
        BY <1>2, <2>1
      <3>2. \A k \in 1 .. m + 1 : SubSeq(first, 1, m + 1)[k] = first[k]
        BY <1>2, <2>1
      <3> QED BY <2>1, <3>1, <3>2, SeqEqual
    <2>3. start = first
      BY <2>1, <2>2 DEF first
    <2>4. ASSUME NEW k \in 0 .. m PROVE IsLeast(first[k + 1], Costs(s, t, 0, k))
      <3>1. first[k + 1] = k /\ k \in Int /\ 0 + k = k /\ 0 \in 0 .. Len(s) /\ k \in 0 .. Len(t)
        BY <1>2, <2>1
      <3>2. Costs(s, t, 0, k) = {k}
        BY <3>1, CostsAtEdge
      <3> QED BY <3>1, <3>2 DEF IsLeast
    <2> HIDE DEF start
    <2> QED BY <2>1, <2>3, <2>4 DEF EditCells
  <1>4. \A i \in 0 .. count - 1 : \A u \in Before(i) : Turn(u, i) \in Before(i + 1)
    BY EditRowIs
  <1>41. Before(count) = EditCells(s, t, Len(s), m)
    OBVIOUS
  <1> HIDE DEF m
  <1> HIDE DEF Turn, Before, start, count
  <1>5. PICK g : /\ g = [i \in 0 .. count |-> g[i]] /\ g[0] = start /\ \A i \in 0 .. count : g[i] \in Before(i)
                /\ \A i \in 0 .. count - 1 : g[i + 1] = Turn(g[i], i)
    <2> DEFINE stage == [i \in 0 .. count |-> Before(i)]
               turn == [p \in (UNION {Before(i) : i \in 0 .. count - 1}) \X (0 .. count - 1) |-> Turn(p[1], p[2])]
    <2>1. \A i \in 0 .. count : stage[i] = Before(i)
      OBVIOUS
    <2>2. \A i \in 0 .. count - 1 : \A u \in Before(i) : turn[<<u, i>>] = Turn(u, i)
      OBVIOUS
    <2> HIDE DEF stage, turn
    <2>3. \A i \in 0 .. count - 1 : \A u \in stage[i] : turn[<<u, i>>] \in stage[i + 1]
      <3> SUFFICES ASSUME NEW i \in 0 .. count - 1, NEW u \in stage[i] PROVE turn[<<u, i>>] \in stage[i + 1]
        OBVIOUS
      <3>1. i \in 0 .. count /\ i + 1 \in 0 .. count
        BY <1>2
      <3>2. u \in Before(i) /\ stage[i + 1] = Before(i + 1)
        BY <2>1, <3>1
      <3>3. turn[<<u, i>>] = Turn(u, i) /\ Turn(u, i) \in Before(i + 1)
        BY <1>4, <2>2, <3>2
      <3> QED BY <3>2, <3>3
    <2>4. start \in stage[0]
      BY <1>2, <1>3, <2>1
    <2>5. PICK g : IsStaged(g, count, stage, start, turn)
      BY <1>2, <2>3, <2>4, StagedLoopRuns
    <2>6. \A i \in 0 .. count - 1 : g[i + 1] = Turn(g[i], i)
      <3> SUFFICES ASSUME NEW i \in 0 .. count - 1 PROVE g[i + 1] = Turn(g[i], i)
        OBVIOUS
      <3>1. i \in 0 .. count
        BY <1>2
      <3>2. g[i] \in stage[i] /\ g[i + 1] = turn[<<g[i], i>>]
        BY <2>5, <3>1 DEF IsStaged
      <3> QED BY <2>1, <2>2, <3>1, <3>2
    <2> QED BY <2>1, <2>5, <2>6 DEF IsStaged
  <1>6. IsLoop(g)
    <2> DEFINE turned == [i \in 0 .. count |-> IF i <= 0 THEN start ELSE Turn(g[i - 1], i - 1)]
    <2>1. ASSUME NEW i \in 0 .. count PROVE g[i] = turned[i]
      <3>1. CASE i = 0
        BY <1>5, <3>1
      <3>2. CASE i # 0
        <4>1. i - 1 \in 0 .. count - 1 /\ (i - 1) + 1 = i /\ ~(i <= 0)
          BY <1>2, <3>2
        <4>2. g[i] = Turn(g[i - 1], i - 1)
          BY <1>5, <4>1
        <4> QED BY <4>1, <4>2
      <3> QED BY <3>1, <3>2
    <2> QED BY <1>5, <2>1
  <1>7. IsLoop(loop)
    <2> HIDE DEF IsLoop
    <2> QED BY <1>6
  <1> HIDE DEF loop
  <1>8. loop[count] \in Before(count)
    <2>1. loop[0] = start /\ \A i \in 0 .. count - 1 : loop[i + 1] = Turn(loop[i], i)
      BY <1>2, <1>7
    <2> HIDE DEF IsLoop
    <2>2. \A i \in 0 .. count - 1 : loop[i] = g[i] => loop[i + 1] = g[i + 1]
      BY <1>5, <2>1
    <2>3. loop[0] = g[0]
      BY <1>5, <2>1
    <2>4. loop[count] = g[count]
      BY <1>2, <2>2, <2>3, LoopsEndAlike
    <2> QED BY <1>2, <1>5, <2>4
  <1> DEFINE All == Costs(s, t, Len(s), Len(t))
  <1>9. IsLeast(loop[count][m + 1], All)
    <2>1. m \in 0 .. m
      BY <1>2
    <2> QED BY <1>8, <1>41, <2>1 DEF EditCells, m
  <1>10. All \in SUBSET Int
    <2>1. Len(s) \in 0 .. Len(s) /\ Len(t) \in 0 .. Len(t)
      BY LenProperties
    <2> QED BY <2>1, CostsAtEdge
  <1>11. EditDistance(s, t) = Min(All)
    <2> HIDE DEF All
    <2> QED BY <1>1, <1>9, <1>10, MinIs DEF IsLeast
  <1>12. DOMAIN s = 1 .. Len(s) /\ DOMAIN t = 1 .. Len(t)
    BY LenProperties
  <1>13. All = {LET x == Pick(s, p[1])  y == Pick(t, p[2])
                IN  Len(s) + Len(t) - 2 * Len(x) + Cardinality({i \in DOMAIN x : x[i] # y[i]})
                : p \in {p \in (SUBSET DOMAIN s) \X (SUBSET DOMAIN t) : Cardinality(p[1]) = Cardinality(p[2])}}
    BY <1>12, Zenon DEF Costs, Alignments, CostOf, Mismatches
  <1> HIDE DEF All
  <1> QED BY <1>11, <1>13 DEF EditDistanceAgrees

----------------------------------------------------------------------------
(* The longest common subsequence *)

\* A is picked from the first i characters of lhs and found among the first j
\* of rhs.
IsCommon(lhs, rhs, i, j, A) ==
  A \in SUBSET (1 .. i) /\ \E B \in SUBSET (1 .. j) : Pick(lhs, A) = Pick(rhs, B)
OfferOf(lhs, A) == IF A = {} THEN [len |-> 0, start |-> Len(lhs)]
                   ELSE [len |-> Cardinality(A), start |-> Min(A) - 1]
\* What is_better_choice has to choose from in row i, cell j
Shared(lhs, rhs, i, j) == {OfferOf(lhs, A) : A \in {A \in SUBSET (1 .. i) : IsCommon(lhs, rhs, i, j, A)}}

\* A non-empty set of indices has a least one.
LEMMA LeastIndex ==
  ASSUME NEW n \in Nat, NEW A \in SUBSET (1 .. n), A # {}
  PROVE  Min(A) \in A /\ \A y \in A : Min(A) <= y
  <1>1. A \in SUBSET Nat /\ A \in SUBSET Int
    OBVIOUS
  <1>2. PICK x \in A : \A y \in A : x <= y
    BY <1>1, LeastElement
  <1>3. Min(A) = x
    BY <1>1, <1>2, MinIs
  <1> QED BY <1>2, <1>3

\* Every choice is an offer, and only the empty one has no length.
LEMMA OffersOf ==
  ASSUME NEW lhs, Len(lhs) \in Nat, NEW n \in Nat, NEW A \in SUBSET (1 .. n)
  PROVE  /\ OfferOf(lhs, A) \in Offers
         /\ OfferOf(lhs, A).len = Cardinality(A) /\ (Cardinality(A) = 0 <=> A = {})
         /\ IsFiniteSet(A) /\ Cardinality(A) \in Nat
  <1>1. IsFiniteSet(A) /\ Cardinality(A) \in Nat
    BY PartOfInterval
  <1>2. Cardinality(A) = 0 <=> A = {}
    BY <1>1, FS_EmptySet
  <1>3. CASE A = {}
    <2>1. OfferOf(lhs, A) = [len |-> 0, start |-> Len(lhs)]
      BY <1>3 DEF OfferOf
    <2>2. [len |-> 0, start |-> Len(lhs)] \in Offers
      BY DEF Offers
    <2> QED BY <1>1, <1>2, <1>3, <2>1, <2>2
  <1>4. CASE A # {}
    <2> DEFINE l == Cardinality(A)
               m == Min(A) - 1
    <2>1. OfferOf(lhs, A) = [len |-> l, start |-> m]
      BY <1>4 DEF OfferOf
    <2>2. m \in Nat
      <3>1. Min(A) \in 1 .. n
        BY <1>4, LeastIndex
      <3> QED BY <3>1
    <2>3. l \in Nat
      BY <1>1
    <2> HIDE DEF l, m
    <2>4. [len |-> l, start |-> m] \in Offers /\ [len |-> l, start |-> m].len = l
      BY <2>2, <2>3 DEF Offers
    <2> QED BY <1>1, <1>2, <2>1, <2>4 DEF l
  <1> QED BY <1>3, <1>4

\* The choice the diagonal offers
Longer(o, i) == [len |-> o.len + 1, start |-> IF o.len = 0 THEN i ELSE o.start]

\* One index more, after all others
LEMMA LongerIs ==
  ASSUME NEW lhs, Len(lhs) \in Nat, NEW i \in Nat, NEW A \in SUBSET (1 .. i)
  PROVE  OfferOf(lhs, A \cup {i + 1}) = Longer(OfferOf(lhs, A), i)
  <1> DEFINE B == A \cup {i + 1}
             o == OfferOf(lhs, A)
  <1>1. /\ o.len = Cardinality(A) /\ (Cardinality(A) = 0 <=> A = {})
        /\ IsFiniteSet(A) /\ Cardinality(A) \in Nat
    BY OffersOf
  <1>2. i + 1 \notin A
    OBVIOUS
  <1>3. Cardinality(B) = Cardinality(A) + 1
    BY <1>1, <1>2, FS_AddElement
  <1>4. B \in SUBSET Int /\ B # {} /\ i + 1 \in B
    OBVIOUS
  <1>5. Min(B) - 1 = IF o.len = 0 THEN i ELSE o.start
    <2>1. CASE A = {}
      <3>1. B = {i + 1}
        BY <2>1
      <3>2. Min(B) = i + 1
        BY <1>4, <3>1, MinIs
      <3> QED BY <1>1, <2>1, <3>2
    <2>2. CASE A # {}
      <3>1. Min(A) \in A /\ (\A y \in A : Min(A) <= y) /\ Min(A) \in 1 .. i
        BY <2>2, LeastIndex
      <3>2. Min(A) \in B /\ \A y \in B : Min(A) <= y
        BY <3>1
      <3>3. Min(B) = Min(A)
        <4> HIDE DEF B
        <4> QED BY <1>4, <3>2, MinIs
      <3> DEFINE l == Cardinality(A)
                 m == Min(A) - 1
      <3>4. o = [len |-> l, start |-> m]
        BY <2>2 DEF OfferOf
      <3> HIDE DEF l, m
      <3>5. o.start = m /\ o.len # 0
        <4> HIDE DEF o, B
        <4>1. o.start = m
          BY <3>4
        <4>2. o.len # 0
          BY <1>1, <2>2
        <4> QED BY <4>1, <4>2
      <3> QED BY <3>3, <3>5 DEF m
    <2> QED BY <2>1, <2>2
  <1>6. OfferOf(lhs, B) = [len |-> Cardinality(B), start |-> Min(B) - 1]
    BY <1>4 DEF OfferOf
  <1> HIDE DEF o, B
  <1>7. OfferOf(lhs, B) = [len |-> o.len + 1, start |-> IF o.len = 0 THEN i ELSE o.start]
    BY <1>1, <1>3, <1>5, <1>6
  <1> QED BY <1>7 DEF o, B, Longer

\* Before the first character nothing is common but the empty choice.
LEMMA SharedAtEdge ==
  ASSUME NEW V, NEW lhs \in Seq(V), NEW rhs \in Seq(V), NEW i \in 0 .. Len(lhs), NEW j \in 0 .. Len(rhs)
  PROVE  /\ Shared(lhs, rhs, i, j) \in SUBSET Offers
         /\ [len |-> 0, start |-> Len(lhs)] \in Shared(lhs, rhs, i, j)
         /\ i = 0 \/ j = 0 => Shared(lhs, rhs, i, j) = {[len |-> 0, start |-> Len(lhs)]}
  <1> DEFINE none == [len |-> 0, start |-> Len(lhs)]
             C == {A \in SUBSET (1 .. i) : IsCommon(lhs, rhs, i, j, A)}
  <1>0. Len(lhs) \in Nat /\ Len(rhs) \in Nat /\ i \in Nat /\ j \in Nat
    BY LenProperties
  <1>1. \A A \in C : OfferOf(lhs, A) \in Offers
    BY <1>0, OffersOf
  <1>2. OfferOf(lhs, {}) = none
    BY DEF OfferOf
  <1>3. {} \in C
    <2>1. Pick(lhs, {}) = << >> /\ Pick(rhs, {}) = << >>
      BY PickSize
    <2> QED BY <2>1 DEF IsCommon
  <1>4. ASSUME i = 0 \/ j = 0, NEW A \in C PROVE A = {}
    <2>1. CASE i = 0
      BY <2>1
    <2>2. CASE j = 0
      <3>1. PICK B \in SUBSET (1 .. j) : Pick(lhs, A) = Pick(rhs, B)
        BY DEF IsCommon
      <3>2. B = {}
        BY <2>2
      <3>3. Pick(lhs, A) = << >>
        BY <3>1, <3>2, PickSize
      <3>4. A \in SUBSET (1 .. Len(lhs))
        BY <1>0
      <3>5. Len(<< >>) = Cardinality(A)
        BY <3>3, <3>4, PickSize
      <3>6. Cardinality(A) = 0
        BY <3>5
      <3> QED BY <1>0, <3>6, OffersOf
    <2> QED BY <1>4, <2>1, <2>2
  <1>5. Shared(lhs, rhs, i, j) = {OfferOf(lhs, A) : A \in C}
    BY DEF Shared
  <1> HIDE DEF C, none
  <1>6. Shared(lhs, rhs, i, j) \in SUBSET Offers /\ none \in Shared(lhs, rhs, i, j)
    BY <1>1, <1>2, <1>3, <1>5
  <1>7. ASSUME i = 0 \/ j = 0 PROVE Shared(lhs, rhs, i, j) = {none}
    <2>1. C = {{}}
      BY <1>3, <1>4, <1>7
    <2> QED BY <1>2, <1>5, <2>1
  <1> QED BY <1>6, <1>7 DEF none

\* A common choice leaves out the last character of lhs or of rhs, or ends in
\* both, and then they are the same.
LEMMA SharedNext ==
  ASSUME NEW V, NEW lhs \in Seq(V), NEW rhs \in Seq(V), NEW i \in 0 .. Len(lhs) - 1, NEW j \in 0 .. Len(rhs) - 1
  PROVE  Shared(lhs, rhs, i + 1, j + 1) =
           Shared(lhs, rhs, i, j + 1) \cup Shared(lhs, rhs, i + 1, j)
             \cup IF lhs[i + 1] = rhs[j + 1] THEN {Longer(o, i) : o \in Shared(lhs, rhs, i, j)} ELSE {}
  <1> DEFINE same == lhs[i + 1] = rhs[j + 1]
             R == {Longer(o, i) : o \in Shared(lhs, rhs, i, j)}
             Com(a, b, A) == IsCommon(lhs, rhs, a, b, A)
             Sh(a, b) == Shared(lhs, rhs, a, b)
             Off(A) == OfferOf(lhs, A)
  <1>0. /\ Len(lhs) \in Nat /\ Len(rhs) \in Nat /\ i \in Nat /\ j \in Nat
        /\ i + 1 \in 1 .. Len(lhs) /\ j + 1 \in 1 .. Len(rhs)
    BY LenProperties
  <1>00. lhs[i + 1] \in V /\ rhs[j + 1] \in V
    BY <1>0, ElementOfSeq
  <1>1. \A a, b, x : x \in Sh(a, b) <=> \E A : Com(a, b, A) /\ x = Off(A)
    BY DEF Shared, IsCommon
  <1>2. \A a, b, A : Com(a, b, A) <=> A \in SUBSET (1 .. a) /\ \E B \in SUBSET (1 .. b) : Pick(lhs, A) = Pick(rhs, B)
    BY DEF IsCommon
  <1> HIDE DEF Com, Sh, Off
  <1>3. ASSUME NEW A, Com(i, j + 1, A) PROVE Com(i + 1, j + 1, A)
    <2>1. A \in SUBSET (1 .. i) /\ \E B \in SUBSET (1 .. j + 1) : Pick(lhs, A) = Pick(rhs, B)
      BY <1>2, <1>3
    <2>2. A \in SUBSET (1 .. i + 1)
      BY <1>0, <2>1
    <2> QED BY <1>2, <2>1, <2>2
  <1>4. ASSUME NEW A, Com(i + 1, j, A) PROVE Com(i + 1, j + 1, A)
    <2>1. A \in SUBSET (1 .. i + 1)
      BY <1>2, <1>4
    <2>2. PICK B \in SUBSET (1 .. j) : Pick(lhs, A) = Pick(rhs, B)
      BY <1>2, <1>4
    <2>3. B \in SUBSET (1 .. j + 1)
      BY <1>0
    <2> QED BY <1>2, <2>1, <2>2, <2>3
  <1>5. ASSUME NEW A, Com(i, j, A), same PROVE Com(i + 1, j + 1, A \cup {i + 1}) /\ Off(A \cup {i + 1}) = Longer(Off(A), i)
    <2>1. A \in SUBSET (1 .. i)
      BY <1>2, <1>5
    <2>2. PICK B \in SUBSET (1 .. j) : Pick(lhs, A) = Pick(rhs, B)
      BY <1>2, <1>5
    <2>3. Pick(lhs, A \cup {i + 1}) = Append(Pick(lhs, A), lhs[i + 1])
      BY <2>1, PickGrows
    <2>4. Pick(rhs, B \cup {j + 1}) = Append(Pick(rhs, B), rhs[j + 1])
      BY PickGrows
    <2>5. Pick(lhs, A \cup {i + 1}) = Pick(rhs, B \cup {j + 1})
      BY <1>5, <2>2, <2>3, <2>4
    <2>6. A \cup {i + 1} \in SUBSET (1 .. i + 1) /\ B \cup {j + 1} \in SUBSET (1 .. j + 1)
      BY <1>0, <2>1
    <2>7. Off(A \cup {i + 1}) = Longer(Off(A), i)
      BY <1>0, <2>1, LongerIs DEF Off
    <2> QED BY <1>2, <2>5, <2>6, <2>7
  <1>6. ASSUME NEW A, Com(i + 1, j + 1, A)
        PROVE  \/ Com(i, j + 1, A) \/ Com(i + 1, j, A)
               \/ same /\ \E D : Com(i, j, D) /\ Off(A) = Longer(Off(D), i)
    <2>1. A \in SUBSET (1 .. i + 1)
      BY <1>2, <1>6
    <2>2. PICK B \in SUBSET (1 .. j + 1) : Pick(lhs, A) = Pick(rhs, B)
      BY <1>2, <1>6
    <2>3. CASE i + 1 \notin A
      <3>1. A \in SUBSET (1 .. i)
        BY <1>0, <2>1, <2>3
      <3> QED BY <1>2, <2>2, <3>1
    <2>4. CASE j + 1 \notin B
      <3>1. B \in SUBSET (1 .. j)
        BY <1>0, <2>4
      <3> QED BY <1>2, <2>1, <2>2, <3>1
    <2>5. CASE i + 1 \in A /\ j + 1 \in B
      <3> DEFINE D == A \ {i + 1}
                 E == B \ {j + 1}
      <3>1. D \in SUBSET (1 .. i) /\ E \in SUBSET (1 .. j) /\ A = D \cup {i + 1} /\ B = E \cup {j + 1}
        BY <1>0, <2>1, <2>5
      <3> HIDE DEF D, E
      <3>2. Pick(lhs, A) = Append(Pick(lhs, D), lhs[i + 1]) /\ Pick(rhs, B) = Append(Pick(rhs, E), rhs[j + 1])
        BY <3>1, PickGrows
      <3>3. D \in SUBSET (1 .. Len(lhs)) /\ E \in SUBSET (1 .. Len(rhs))
        BY <1>0, <3>1
      <3>4. Pick(lhs, D) \in Seq(V) /\ Pick(rhs, E) \in Seq(V)
        BY <3>3, PickSize
      <3>5. Pick(lhs, D) = Pick(rhs, E) /\ lhs[i + 1] = rhs[j + 1]
        <4> DEFINE x == Pick(lhs, D)
                   y == Pick(rhs, E)
                   a == lhs[i + 1]
                   b == rhs[j + 1]
        <4>1. x \in Seq(V) /\ y \in Seq(V) /\ a \in V /\ b \in V /\ Append(x, a) = Append(y, b)
          BY <1>00, <2>2, <3>2, <3>4
        <4> HIDE DEF x, y, a, b
        <4>2. x = y /\ a = b
          BY <4>1, AppendAlike
        <4> QED BY <4>2 DEF x, y, a, b
      <3>6. Com(i, j, D)
        BY <1>2, <3>1, <3>5
      <3>7. Off(A) = Longer(Off(D), i)
        BY <1>0, <3>1, LongerIs DEF Off
      <3> QED BY <3>5, <3>6, <3>7
    <2> QED BY <2>3, <2>4, <2>5
  <1>7. \A x : x \in R <=> \E o : o \in Sh(i, j) /\ x = Longer(o, i)
    BY DEF Sh
  <1> HIDE DEF R, same
  <1>8. ASSUME NEW x, x \in Sh(i + 1, j + 1) PROVE x \in Sh(i, j + 1) \/ x \in Sh(i + 1, j) \/ (same /\ x \in R)
    <2>1. PICK A : Com(i + 1, j + 1, A) /\ x = Off(A)
      BY <1>1, <1>8
    <2> QED BY <1>1, <1>6, <1>7, <2>1
  <1>9. ASSUME NEW x, x \in Sh(i, j + 1) \/ x \in Sh(i + 1, j) \/ (same /\ x \in R) PROVE x \in Sh(i + 1, j + 1)
    <2>1. CASE x \in Sh(i, j + 1)
      BY <1>1, <1>3, <2>1
    <2>2. CASE x \in Sh(i + 1, j)
      BY <1>1, <1>4, <2>2
    <2>3. CASE same /\ x \in R
      <3>1. PICK o : o \in Sh(i, j) /\ x = Longer(o, i)
        BY <1>7, <2>3
      <3>2. PICK A : Com(i, j, A) /\ o = Off(A)
        BY <1>1, <3>1
      <3> QED BY <1>1, <1>5, <2>3, <3>1, <3>2
    <2> QED BY <1>9, <2>1, <2>2, <2>3
  <1>10. Sh(i + 1, j + 1) = Sh(i, j + 1) \cup Sh(i + 1, j) \cup IF same THEN R ELSE {}
    BY <1>8, <1>9
  <1> QED BY <1>10 DEF Sh, R, same

\* The longest choice, made longer, is the best of those made longer.
LEMMA LongerBest ==
  ASSUME NEW S \in SUBSET Offers, NEW none, none \in S, \A o \in S : o.len = 0 => o = none,
         NEW x, IsBest(x, S), NEW i \in Nat
  PROVE  LET N == {Longer(o, i) : o \in S}
         IN  N \in SUBSET Offers /\ Longer(x, i) \in N /\ \A y \in N : y = Longer(x, i) \/ Better(Longer(x, i), y)
  <1> DEFINE N == {Longer(o, i) : o \in S}
             c == Longer(x, i)
  <1>1. x \in S /\ \A o \in S : o = x \/ Better(x, o)
    BY DEF IsBest
  <1>2. \A o \in S : o.len \in Nat /\ o.start \in Nat
    BY DEF Offers
  <1>3. \A o : Longer(o, i).len = o.len + 1 /\ Longer(o, i).start = IF o.len = 0 THEN i ELSE o.start
    BY DEF Longer
  <1>4. ASSUME NEW o \in S PROVE Longer(o, i) \in Offers
    <2> DEFINE l == o.len + 1
               b == IF o.len = 0 THEN i ELSE o.start
    <2>1. l \in Nat /\ b \in Nat
      BY <1>2
    <2> HIDE DEF l, b
    <2>2. [len |-> l, start |-> b] \in Offers
      BY <2>1 DEF Offers
    <2> QED BY <2>2 DEF Longer, l, b
  <1>5. ASSUME NEW o \in S PROVE Longer(o, i) = c \/ Better(c, Longer(o, i))
    <2>1. CASE o = x
      BY <2>1
    <2>2. CASE o # x
      <3>1. x.len > o.len \/ (x.len = o.len /\ x.start < o.start)
        BY <1>1, <2>2 DEF Better
      <3>2. x.len # 0
        <4>1. SUFFICES ASSUME x.len = 0 PROVE FALSE
          OBVIOUS
        <4>2. o.len = 0
          BY <1>1, <1>2, <3>1, <4>1
        <4> QED BY <1>1, <2>2, <4>1, <4>2
      <3> DEFINE xl == x.len
                 xs == x.start
                 ol == o.len
                 os == o.start
                 e == Longer(o, i)
      <3>3. xl \in Nat /\ xs \in Nat /\ ol \in Nat /\ os \in Nat
        BY <1>1, <1>2
      <3>4. c.len = xl + 1 /\ c.start = xs /\ e.len = ol + 1 /\ (ol # 0 => e.start = os)
        BY <1>3, <3>2
      <3>5. xl # 0 /\ (xl > ol \/ (xl = ol /\ xs < os))
        BY <3>1, <3>2
      <3> HIDE DEF xl, xs, ol, os, e, c
      <3>6. c.len > e.len \/ (c.len = e.len /\ c.start < e.start)
        BY <3>3, <3>4, <3>5
      <3> QED BY <3>6 DEF Better, e
    <2> QED BY <2>1, <2>2
  <1> HIDE DEF c
  <1>6. N \in SUBSET Offers /\ c \in N /\ \A y \in N : y = c \/ Better(c, y)
    BY <1>1, <1>4, <1>5 DEF c
  <1> QED BY <1>6 DEF c

\* Rows of the first j + 1 cells that hold the best choices
LcseqCells(lhs, rhs, i, j) ==
  {row \in Seq(Offers) : Len(row) = j + 1 /\ \A k \in 0 .. j : IsBest(row[k + 1], Shared(lhs, rhs, i, k))}

\* The cell LcseqRow appends
LcseqCell(above, row, lhs, rhs, i, j) ==
  LET best == BetterOf(row[j + 1], above[j + 2])
      diag == Longer(above[j + 1], i)
  IN  IF lhs[i + 1] = rhs[j + 1] THEN BetterOf(diag, best) ELSE best

\* A turn fills one cell more.
LEMMA LcseqTurnIs ==
  ASSUME NEW V, NEW lhs \in Seq(V), NEW rhs \in Seq(V), NEW i \in 0 .. Len(lhs) - 1, NEW j \in 0 .. Len(rhs) - 1,
         NEW above \in LcseqCells(lhs, rhs, i, Len(rhs)), NEW row \in LcseqCells(lhs, rhs, i + 1, j)
  PROVE  Append(row, LcseqCell(above, row, lhs, rhs, i, j)) \in LcseqCells(lhs, rhs, i + 1, j + 1)
  <1> DEFINE m == Len(rhs)
             P == Shared(lhs, rhs, i, j + 1)
             Q == Shared(lhs, rhs, i + 1, j)
             D == Shared(lhs, rhs, i, j)
             N == {Longer(o, i) : o \in D}
             p == above[j + 2]
             q == row[j + 1]
             o == above[j + 1]
             same == lhs[i + 1] = rhs[j + 1]
             none == [len |-> 0, start |-> Len(lhs)]
             best == BetterOf(q, p)
             c == LcseqCell(above, row, lhs, rhs, i, j)
             r == Append(row, c)
  <1>0. /\ Len(lhs) \in Nat /\ m \in Nat /\ i \in Nat /\ j \in Nat
        /\ j \in 0 .. m /\ j + 1 \in 0 .. m /\ (j + 1) + 1 = j + 2 /\ j \in 0 .. j
        /\ i \in 0 .. Len(lhs) /\ i + 1 \in 0 .. Len(lhs)
    BY LenProperties
  <1>1. row \in Seq(Offers) /\ Len(row) = j + 1 /\ \A k \in 0 .. j : IsBest(row[k + 1], Shared(lhs, rhs, i + 1, k))
    BY DEF LcseqCells
  <1>2. \A k \in 0 .. m : IsBest(above[k + 1], Shared(lhs, rhs, i, k))
    BY DEF LcseqCells
  <1>3. P \in SUBSET Offers /\ Q \in SUBSET Offers /\ D \in SUBSET Offers /\ none \in D
    BY <1>0, SharedAtEdge
  <1>4. \A x \in D : x.len = 0 => x = none
    <2> SUFFICES ASSUME NEW A \in SUBSET (1 .. i), OfferOf(lhs, A).len = 0 PROVE OfferOf(lhs, A) = none
      BY DEF Shared
    <2>1. A = {}
      BY <1>0, OffersOf
    <2> QED BY <2>1 DEF OfferOf
  <1>5. Shared(lhs, rhs, i + 1, j + 1) = P \cup Q \cup IF same THEN N ELSE {}
    BY SharedNext
  <1>6. IsBest(p, P) /\ IsBest(q, Q) /\ IsBest(o, D)
    BY <1>0, <1>1, <1>2
  <1>7. c = IF same THEN BetterOf(Longer(o, i), best) ELSE best
    BY DEF LcseqCell
  <1> HIDE DEF P, Q, D, p, q, o, same, none, m, c
  <1>8. IsBest(best, P \cup Q)
    <2>1. q \in Q /\ \A y \in Q : y = q \/ Better(q, y)
      BY <1>6 DEF IsBest
    <2> QED BY <1>3, <1>6, <2>1, BestGrowsBy
  <1> HIDE DEF best
  <1>9. IsBest(c, P \cup Q \cup IF same THEN N ELSE {})
    <2>1. CASE same
      <3>1. N \in SUBSET Offers /\ Longer(o, i) \in N /\ \A y \in N : y = Longer(o, i) \/ Better(Longer(o, i), y)
        BY <1>0, <1>3, <1>4, <1>6, LongerBest
      <3> HIDE DEF N
      <3>2. P \cup Q \in SUBSET Offers
        BY <1>3
      <3>3. IsBest(BetterOf(Longer(o, i), best), (P \cup Q) \cup N)
        BY <1>8, <3>1, <3>2, BestGrowsBy
      <3> QED BY <1>7, <2>1, <3>3
    <2>2. CASE ~same
      <3>1. c = best /\ (P \cup Q \cup IF same THEN N ELSE {}) = P \cup Q
        BY <1>7, <2>2
      <3> QED BY <1>8, <3>1
    <2> QED BY <2>1, <2>2
  <1> HIDE DEF N
  <1>10. IsBest(c, Shared(lhs, rhs, i + 1, j + 1))
    BY <1>5, <1>9
  <1>11. c \in Offers
    <2>1. Shared(lhs, rhs, i + 1, j + 1) \in SUBSET Offers
      BY <1>0, SharedAtEdge DEF m
    <2> QED BY <1>10, <2>1 DEF IsBest
  <1>12. r \in Seq(Offers) /\ Len(r) = (j + 1) + 1 /\ r[(j + 1) + 1] = c /\ \A k \in 1 .. j + 1 : r[k] = row[k]
    BY <1>1, <1>11, AppendProperties
  <1> HIDE DEF r
  <1>13. ASSUME NEW k \in 0 .. j + 1 PROVE IsBest(r[k + 1], Shared(lhs, rhs, i + 1, k))
    <2>1. CASE k = j + 1
      BY <1>10, <1>12, <2>1
    <2>2. CASE k # j + 1
      <3>1. k \in 0 .. j /\ k + 1 \in 1 .. j + 1
        BY <1>0, <2>2
      <3> QED BY <1>1, <1>12, <3>1
    <2> QED BY <2>1, <2>2
  <1>14. r \in LcseqCells(lhs, rhs, i + 1, j + 1)
    BY <1>12, <1>13 DEF LcseqCells
  <1> QED BY <1>14 DEF r, c

\* The choice of a cell at the edge
LEMMA LcseqEdge ==
  ASSUME NEW V, NEW lhs \in Seq(V), NEW rhs \in Seq(V), NEW i \in 0 .. Len(lhs), NEW j \in 0 .. Len(rhs), i = 0 \/ j = 0
  PROVE  LET none == [len |-> 0, start |-> Len(lhs)]
         IN  none \in Offers /\ IsBest(none, Shared(lhs, rhs, i, j))
  <1> DEFINE none == [len |-> 0, start |-> Len(lhs)]
  <1>1. Shared(lhs, rhs, i, j) = {none} /\ {none} \in SUBSET Offers
    BY SharedAtEdge
  <1> HIDE DEF none
  <1>2. none \in Offers /\ IsBest(none, Shared(lhs, rhs, i, j))
    BY <1>1 DEF IsBest
  <1> QED BY <1>2 DEF none

\* A row holds the best choices when the row above it does.
LEMMA LcseqRowIs ==
  ASSUME NEW V, NEW lhs \in Seq(V), NEW rhs \in Seq(V), NEW i \in 0 .. Len(lhs) - 1,
         NEW above \in LcseqCells(lhs, rhs, i, Len(rhs))
  PROVE  LcseqRow(above, i, lhs, rhs) \in LcseqCells(lhs, rhs, i + 1, Len(rhs))
  <1> DEFINE count == Len(rhs)
             Before(j) == LcseqCells(lhs, rhs, i + 1, j)
             start == <<[len |-> 0, start |-> Len(lhs)]>>
             Turn(row, j) == Append(row, LcseqCell(above, row, lhs, rhs, i, j))
             IsLoop(f) == f = [h \in 0 .. count |-> IF h <= 0 THEN start ELSE Turn(f[h - 1], h - 1)]
             loop == CHOOSE f : IsLoop(f)
  <1>1. LcseqRow(above, i, lhs, rhs) = loop[count]
    BY DEF LcseqRow, LcseqCell, Longer, For
  <1>2. count \in Nat /\ Len(lhs) \in Nat
    BY LenProperties
  <1>3. start \in Before(0)
    <2> DEFINE none == [len |-> 0, start |-> Len(lhs)]
               z == <<none>>
    <2>1. i + 1 \in 0 .. Len(lhs) /\ 0 \in 0 .. Len(rhs)
      BY <1>2
    <2>2. none \in Offers /\ IsBest(none, Shared(lhs, rhs, i + 1, 0))
      BY <2>1, LcseqEdge
    <2> HIDE DEF none
    <2>3. z \in Seq(Offers) /\ Len(z) = 0 + 1 /\ z[0 + 1] = none /\ 0 .. 0 = {0}
      BY <2>2
    <2>4. start = z
      BY DEF none
    <2> HIDE DEF z, start
    <2> QED BY <2>2, <2>3, <2>4 DEF LcseqCells
  <1>4. \A j \in 0 .. count - 1 : \A u \in Before(j) : Turn(u, j) \in Before(j + 1)
    BY LcseqTurnIs
  <1>41. Before(count) = LcseqCells(lhs, rhs, i + 1, Len(rhs))
    OBVIOUS
  <1> HIDE DEF Turn, Before, start, count
  <1>5. PICK g : /\ g = [h \in 0 .. count |-> g[h]] /\ g[0] = start /\ \A h \in 0 .. count : g[h] \in Before(h)
                /\ \A h \in 0 .. count - 1 : g[h + 1] = Turn(g[h], h)
    <2> DEFINE stage == [h \in 0 .. count |-> Before(h)]
               turn == [p \in (UNION {Before(h) : h \in 0 .. count - 1}) \X (0 .. count - 1) |-> Turn(p[1], p[2])]
    <2>1. \A h \in 0 .. count : stage[h] = Before(h)
      OBVIOUS
    <2>2. \A h \in 0 .. count - 1 : \A u \in Before(h) : turn[<<u, h>>] = Turn(u, h)
      OBVIOUS
    <2> HIDE DEF stage, turn
    <2>3. \A h \in 0 .. count - 1 : \A u \in stage[h] : turn[<<u, h>>] \in stage[h + 1]
      <3> SUFFICES ASSUME NEW h \in 0 .. count - 1, NEW u \in stage[h] PROVE turn[<<u, h>>] \in stage[h + 1]
        OBVIOUS
      <3>1. h \in 0 .. count /\ h + 1 \in 0 .. count
        BY <1>2
      <3>2. u \in Before(h) /\ stage[h + 1] = Before(h + 1)
        BY <2>1, <3>1
      <3>3. turn[<<u, h>>] = Turn(u, h) /\ Turn(u, h) \in Before(h + 1)
        BY <1>4, <2>2, <3>2
      <3> QED BY <3>2, <3>3
    <2>4. start \in stage[0]
      BY <1>2, <1>3, <2>1
    <2>5. PICK g : IsStaged(g, count, stage, start, turn)
      BY <1>2, <2>3, <2>4, StagedLoopRuns
    <2>6. \A h \in 0 .. count - 1 : g[h + 1] = Turn(g[h], h)
      <3> SUFFICES ASSUME NEW h \in 0 .. count - 1 PROVE g[h + 1] = Turn(g[h], h)
        OBVIOUS
      <3>1. h \in 0 .. count
        BY <1>2
      <3>2. g[h] \in stage[h] /\ g[h + 1] = turn[<<g[h], h>>]
        BY <2>5, <3>1 DEF IsStaged
      <3> QED BY <2>1, <2>2, <3>1, <3>2
    <2> QED BY <2>1, <2>5, <2>6 DEF IsStaged
  <1>6. IsLoop(g)
    <2> DEFINE turned == [h \in 0 .. count |-> IF h <= 0 THEN start ELSE Turn(g[h - 1], h - 1)]
    <2>1. ASSUME NEW h \in 0 .. count PROVE g[h] = turned[h]
      <3>1. CASE h = 0
        BY <1>5, <3>1
      <3>2. CASE h # 0
        <4>1. h - 1 \in 0 .. count - 1 /\ (h - 1) + 1 = h /\ ~(h <= 0)
          BY <1>2, <3>2
        <4>2. g[h] = Turn(g[h - 1], h - 1)
          BY <1>5, <4>1
        <4> QED BY <4>1, <4>2
      <3> QED BY <3>1, <3>2
    <2> QED BY <1>5, <2>1
  <1>7. IsLoop(loop)
    <2> HIDE DEF IsLoop
    <2> QED BY <1>6
  <1> HIDE DEF loop
  <1>8. loop[count] \in Before(count)
    <2>1. loop[0] = start /\ \A h \in 0 .. count - 1 : loop[h + 1] = Turn(loop[h], h)
      BY <1>2, <1>7
    <2> HIDE DEF IsLoop
    <2>2. \A h \in 0 .. count - 1 : loop[h] = g[h] => loop[h + 1] = g[h + 1]
      BY <1>5, <2>1
    <2>3. loop[0] = g[0]
      BY <1>5, <2>1
    <2>4. loop[count] = g[count]
      BY <1>2, <2>2, <2>3, LoopsEndAlike
    <2> QED BY <1>2, <1>5, <2>4
  <1> QED BY <1>1, <1>8, <1>41

\* lcseq_start_and_length finds the longest common subsequence, and of those
\* of that length the first to start in lhs.
THEOREM LongestCommonSubsequence ==
  ASSUME NEW V, NEW lhs \in Seq(V), NEW rhs \in Seq(V)
  PROVE  LcseqAgrees(lhs, rhs)
  <1> DEFINE count == Len(lhs)
             Before(i) == LcseqCells(lhs, rhs, i, Len(rhs))
             start == Repeat(Len(rhs), [len |-> 0, start |-> Len(lhs)])
             Turn(row, i) == LcseqRow(row, i, lhs, rhs)
             IsLoop(f) == f = [i \in 0 .. count |-> IF i <= 0 THEN start ELSE Turn(f[i - 1], i - 1)]
             loop == CHOOSE f : IsLoop(f)
             m == Len(rhs)
             none == [len |-> 0, start |-> Len(lhs)]
  <1>1. lcseq_start_and_length(lhs, rhs) = loop[count][m + 1]
    BY DEF lcseq_start_and_length, Repeat, For
  <1>2. count \in Nat /\ m \in Nat
    BY LenProperties
  <1>3. start \in Before(0)
    <2>1. start = [k \in 1 .. m + 1 |-> none]
      BY <1>2, RepeatIs
    <2>2. none \in Offers
      BY <1>2 DEF Offers
    <2>3. ASSUME NEW k \in 0 .. m PROVE IsBest(none, Shared(lhs, rhs, 0, k))
      <3>1. 0 \in 0 .. Len(lhs)
        BY <1>2
      <3> QED BY <3>1, LcseqEdge
    <2> HIDE DEF none, start
    <2>4. start \in Seq(Offers) /\ Len(start) = m + 1 /\ \A k \in 0 .. m : start[k + 1] = none
      BY <1>2, <2>1, <2>2
    <2> QED BY <2>3, <2>4 DEF LcseqCells
  <1>4. \A i \in 0 .. count - 1 : \A u \in Before(i) : Turn(u, i) \in Before(i + 1)
    BY LcseqRowIs
  <1>41. Before(count) = LcseqCells(lhs, rhs, Len(lhs), m)
    OBVIOUS
  <1> HIDE DEF m, none
  <1> HIDE DEF Turn, Before, start, count
  <1>5. PICK g : /\ g = [i \in 0 .. count |-> g[i]] /\ g[0] = start /\ \A i \in 0 .. count : g[i] \in Before(i)
                /\ \A i \in 0 .. count - 1 : g[i + 1] = Turn(g[i], i)
    <2> DEFINE stage == [i \in 0 .. count |-> Before(i)]
               turn == [p \in (UNION {Before(i) : i \in 0 .. count - 1}) \X (0 .. count - 1) |-> Turn(p[1], p[2])]
    <2>1. \A i \in 0 .. count : stage[i] = Before(i)
      OBVIOUS
    <2>2. \A i \in 0 .. count - 1 : \A u \in Before(i) : turn[<<u, i>>] = Turn(u, i)
      OBVIOUS
    <2> HIDE DEF stage, turn
    <2>3. \A i \in 0 .. count - 1 : \A u \in stage[i] : turn[<<u, i>>] \in stage[i + 1]
      <3> SUFFICES ASSUME NEW i \in 0 .. count - 1, NEW u \in stage[i] PROVE turn[<<u, i>>] \in stage[i + 1]
        OBVIOUS
      <3>1. i \in 0 .. count /\ i + 1 \in 0 .. count
        BY <1>2
      <3>2. u \in Before(i) /\ stage[i + 1] = Before(i + 1)
        BY <2>1, <3>1
      <3>3. turn[<<u, i>>] = Turn(u, i) /\ Turn(u, i) \in Before(i + 1)
        BY <1>4, <2>2, <3>2
      <3> QED BY <3>2, <3>3
    <2>4. start \in stage[0]
      BY <1>2, <1>3, <2>1
    <2>5. PICK g : IsStaged(g, count, stage, start, turn)
      BY <1>2, <2>3, <2>4, StagedLoopRuns
    <2>6. \A i \in 0 .. count - 1 : g[i + 1] = Turn(g[i], i)
      <3> SUFFICES ASSUME NEW i \in 0 .. count - 1 PROVE g[i + 1] = Turn(g[i], i)
        OBVIOUS
      <3>1. i \in 0 .. count
        BY <1>2
      <3>2. g[i] \in stage[i] /\ g[i + 1] = turn[<<g[i], i>>]
        BY <2>5, <3>1 DEF IsStaged
      <3> QED BY <2>1, <2>2, <3>1, <3>2
    <2> QED BY <2>1, <2>5, <2>6 DEF IsStaged
  <1>6. IsLoop(g)
    <2> DEFINE turned == [i \in 0 .. count |-> IF i <= 0 THEN start ELSE Turn(g[i - 1], i - 1)]
    <2>1. ASSUME NEW i \in 0 .. count PROVE g[i] = turned[i]
      <3>1. CASE i = 0
        BY <1>5, <3>1
      <3>2. CASE i # 0
        <4>1. i - 1 \in 0 .. count - 1 /\ (i - 1) + 1 = i /\ ~(i <= 0)
          BY <1>2, <3>2
        <4>2. g[i] = Turn(g[i - 1], i - 1)
          BY <1>5, <4>1
        <4> QED BY <4>1, <4>2
      <3> QED BY <3>1, <3>2
    <2> QED BY <1>5, <2>1
  <1>7. IsLoop(loop)
    <2> HIDE DEF IsLoop
    <2> QED BY <1>6
  <1> HIDE DEF loop
  <1>8. loop[count] \in Before(count)
    <2>1. loop[0] = start /\ \A i \in 0 .. count - 1 : loop[i + 1] = Turn(loop[i], i)
      BY <1>2, <1>7
    <2> HIDE DEF IsLoop
    <2>2. \A i \in 0 .. count - 1 : loop[i] = g[i] => loop[i + 1] = g[i + 1]
      BY <1>5, <2>1
    <2>3. loop[0] = g[0]
      BY <1>5, <2>1
    <2>4. loop[count] = g[count]
      BY <1>2, <2>2, <2>3, LoopsEndAlike
    <2> QED BY <1>2, <1>5, <2>4
  <1> DEFINE All == Shared(lhs, rhs, Len(lhs), Len(rhs))
  <1>9. IsBest(loop[count][m + 1], All)
    <2>1. m \in 0 .. m
      BY <1>2
    <2> QED BY <1>8, <1>41, <2>1 DEF LcseqCells, m
  <1>10. All \in SUBSET Offers /\ none \in All
    <2>1. Len(lhs) \in 0 .. Len(lhs) /\ Len(rhs) \in 0 .. Len(rhs)
      BY LenProperties
    <2> QED BY <2>1, SharedAtEdge DEF none
  <1>11. lcseq_start_and_length(lhs, rhs) = Best(All)
    <2> HIDE DEF All
    <2> QED BY <1>1, <1>9, <1>10, BestIs
  <1>12. DOMAIN lhs = 1 .. Len(lhs) /\ DOMAIN rhs = 1 .. Len(rhs)
    BY LenProperties
  <1> DEFINE subs == {Pick(rhs, B) : B \in SUBSET DOMAIN rhs}
             common == {A \in SUBSET DOMAIN lhs : A # {} /\ Pick(lhs, A) \in subs}
             found == {[len |-> Cardinality(A), start |-> Min(A) - 1] : A \in common}
             Com(A) == A \in SUBSET (1 .. Len(lhs)) /\ IsCommon(lhs, rhs, Len(lhs), Len(rhs), A)
  <1>13. \A x : x \in All <=> \E A : Com(A) /\ x = OfferOf(lhs, A)
    BY DEF Shared
  <1>14. \A A : A \in common <=> A # {} /\ Com(A)
    BY <1>12 DEF IsCommon
  <1> HIDE DEF common, Com
  <1>15. \A x : x \in found <=> \E A : A \in common /\ x = OfferOf(lhs, A)
    <2>1. \A A : A \in common => OfferOf(lhs, A) = [len |-> Cardinality(A), start |-> Min(A) - 1]
      BY <1>14 DEF OfferOf
    <2> QED BY <2>1
  <1>16. OfferOf(lhs, {}) = none
    BY DEF OfferOf, none
  <1> HIDE DEF found, All
  <1>17. \A x : x \in All <=> x \in found \/ x = none
    BY <1>10, <1>13, <1>14, <1>15, <1>16
  <1>18. found \cup {none} = All
    BY <1>17
  <1>19. lcseq_start_and_length(lhs, rhs) = Best(found \cup {[len |-> 0, start |-> Len(lhs)]})
    BY <1>11, <1>18 DEF none
  <1> QED BY <1>19 DEF LcseqAgrees, found, common

----------------------------------------------------------------------------
(* Bitonic sort *)

Lo(x, y) == IF y < x THEN y ELSE x
Hi(x, y) == IF y < x THEN x ELSE y
\* i ^ j, for a power of two j
Partner(i, j) == IF Bit(i, j) = 0 THEN i + j ELSE i - j
\* Every value of d is as often in e.
SameCounts(d, e, n) == \A v : Cardinality({i \in 1 .. n : d[i] = v}) = Cardinality({i \in 1 .. n : e[i] = v})
\* Stride j pairs off the first n indices.
PairsOff(n, j) ==
  \A x \in 0 .. n - 1 : Partner(x, j) \in 0 .. n - 1 /\ Partner(Partner(x, j), j) = x /\ Partner(x, j) # x

\* u holds what the pass over d has put at x and at its partner y, up to turn i.
PairDone(u, d, k, x, y, i) ==
  IF x < i THEN IF Bit(x, k) = 0 THEN u[x + 1] = Lo(d[x + 1], d[y + 1]) /\ u[y + 1] = Hi(d[x + 1], d[y + 1])
                                 ELSE u[x + 1] = Hi(d[x + 1], d[y + 1]) /\ u[y + 1] = Lo(d[x + 1], d[y + 1])
  ELSE u[x + 1] = d[x + 1] /\ u[y + 1] = d[y + 1]

\* The states of a pass over d before turn i
PassStates(d, n, k, j, i) ==
  {u \in Seq(Int) : /\ Len(u) = n /\ SameCounts(u, d, n)
                    /\ \A x \in 0 .. n - 1 : x < Partner(x, j) => PairDone(u, d, k, x, Partner(x, j), i)}

\* A turn of the pass
PassTurn(d, k, j, i) ==
  LET l == IF Bit(i, j) = 0 THEN i + j ELSE i - j
  IN  IF l > i /\ IF Bit(i, k) = 0 THEN d[l + 1] < d[i + 1] ELSE d[i + 1] < d[l + 1]
      THEN Exchange(d, i + 1, l + 1) ELSE d

\* An exchange keeps the length and the values, and changes two places.
LEMMA SeqExchange ==
  ASSUME NEW u \in Seq(Int), NEW a \in 1 .. Len(u), NEW b \in 1 .. Len(u), a # b
  PROVE  LET w == Exchange(u, a, b)
         IN  /\ w \in Seq(Int) /\ Len(w) = Len(u) /\ w[a] = u[b] /\ w[b] = u[a]
             /\ \A c \in 1 .. Len(u) : c # a /\ c # b => w[c] = u[c]
             /\ SameCounts(w, u, Len(u))
  <1> DEFINE n == Len(u)
             w == Exchange(u, a, b)
             y == [u EXCEPT ![a] = u[b]]
             z == [y EXCEPT ![b] = u[a]]
  <1>0. n \in Nat /\ u[a] \in Int /\ u[b] \in Int /\ u \in [1 .. n -> Int]
    BY LenProperties, ElementOfSeq
  <1>1. y \in Seq(Int) /\ Len(y) = n /\ \A c \in 1 .. n : y[c] = IF c = a THEN u[b] ELSE u[c]
    BY <1>0, ExceptSeq
  <1>2. w = z
    BY DEF Exchange
  <1> HIDE DEF y
  <1>3. z \in Seq(Int) /\ Len(z) = n /\ \A c \in 1 .. n : z[c] = IF c = b THEN u[a] ELSE y[c]
    BY <1>0, <1>1, ExceptSeq
  <1>4. SameCounts(w, u, n)
    <2>1. \A v : Cardinality({i \in 1 .. n : w[i] = v}) = Cardinality({i \in 1 .. n : u[i] = v})
      BY <1>0, CountsStay
    <2> QED BY <2>1 DEF SameCounts
  <1> HIDE DEF w, z
  <1>5. w[a] = u[b] /\ w[b] = u[a] /\ \A c \in 1 .. n : c # a /\ c # b => w[c] = u[c]
    BY <1>1, <1>2, <1>3
  <1> QED BY <1>2, <1>3, <1>4, <1>5 DEF w

\* A turn puts one pair in place.
LEMMA PassTurnIs ==
  ASSUME NEW n \in Nat, NEW d \in Seq(Int), Len(d) = n, NEW k, NEW j, PairsOff(n, j),
         NEW i \in 0 .. n - 1, NEW u \in PassStates(d, n, k, j, i)
  PROVE  PassTurn(u, k, j, i) \in PassStates(d, n, k, j, i + 1)
  <1> DEFINE l == Partner(i, j)
             w == PassTurn(u, k, j, i)
             up == Bit(i, k) = 0
             go == IF up THEN u[l + 1] < u[i + 1] ELSE u[i + 1] < u[l + 1]
             P(x) == Partner(x, j)
  <1>1. u \in Seq(Int) /\ Len(u) = n /\ SameCounts(u, d, n)
    BY DEF PassStates
  <1>2. \A x \in 0 .. n - 1 : x < P(x) => PairDone(u, d, k, x, P(x), i)
    BY DEF PassStates
  <1>3. \A x \in 0 .. n - 1 : P(x) \in 0 .. n - 1 /\ P(P(x)) = x /\ P(x) # x
    BY DEF PairsOff
  <1>4. l = P(i) /\ l \in 0 .. n - 1 /\ l # i /\ P(l) = i
    BY <1>3
  <1>5. w = IF l > i /\ go THEN Exchange(u, i + 1, l + 1) ELSE u
    BY DEF PassTurn, Partner
  <1> HIDE DEF P, l, up, go, w
  <1>7. \A x \in 0 .. n - 1 : x # i => (x < i + 1 <=> x < i)
    OBVIOUS
  <1>8. CASE l < i
    <2>1. w = u
      BY <1>4, <1>5, <1>8
    <2>2. ASSUME NEW x \in 0 .. n - 1, x < P(x) PROVE PairDone(w, d, k, x, P(x), i + 1)
      <3>1. x # i
        BY <1>4, <1>8, <2>2
      <3> QED BY <1>2, <1>7, <2>1, <2>2, <3>1 DEF PairDone
    <2> QED BY <1>1, <2>1, <2>2 DEF PassStates, P, w
  <1>9. CASE l > i
    <2>0. i + 1 \in 1 .. n /\ l + 1 \in 1 .. n /\ i + 1 # l + 1
      BY <1>4
    <2>1. PairDone(u, d, k, i, l, i)
      BY <1>2, <1>4, <1>9
    <2>2. u[i + 1] = d[i + 1] /\ u[l + 1] = d[l + 1]
      BY <2>1 DEF PairDone
    <2>20. d[i + 1] \in Int /\ d[l + 1] \in Int
      BY <2>0, ElementOfSeq
    <2>3. w \in Seq(Int) /\ Len(w) = n /\ SameCounts(w, u, n)
      <3>1. CASE go
        BY <1>1, <1>5, <1>9, <2>0, <3>1, SeqExchange
      <3>2. CASE ~go
        BY <1>1, <1>5, <3>2 DEF SameCounts
      <3> QED BY <3>1, <3>2
    <2>4. /\ w[i + 1] = IF go THEN u[l + 1] ELSE u[i + 1]
          /\ w[l + 1] = IF go THEN u[i + 1] ELSE u[l + 1]
          /\ \A c \in 1 .. n : c # i + 1 /\ c # l + 1 => w[c] = u[c]
      <3>1. CASE go
        <4>1. w = Exchange(u, i + 1, l + 1)
          BY <1>5, <1>9, <3>1
        <4>2. w[i + 1] = u[l + 1] /\ w[l + 1] = u[i + 1] /\ \A c \in 1 .. n : c # i + 1 /\ c # l + 1 => w[c] = u[c]
          <5> DEFINE a == i + 1
                     b == l + 1
          <5>1. a \in 1 .. Len(u) /\ b \in 1 .. Len(u) /\ a # b
            BY <1>1, <2>0
          <5> HIDE DEF a, b
          <5>2. LET z == Exchange(u, a, b)
                IN  z[a] = u[b] /\ z[b] = u[a] /\ \A c \in 1 .. Len(u) : c # a /\ c # b => z[c] = u[c]
            BY <1>1, <5>1, SeqExchange
          <5>3. w = Exchange(u, a, b)
            BY <4>1 DEF a, b
          <5>4. w[a] = u[b] /\ w[b] = u[a] /\ \A c \in 1 .. Len(u) : c # a /\ c # b => w[c] = u[c]
            BY <5>2, <5>3
          <5> QED BY <1>1, <5>4 DEF a, b
        <4> QED BY <3>1, <4>2
      <3>2. CASE ~go
        BY <1>5, <3>2
      <3> QED BY <3>1, <3>2
    <2>5. PairDone(w, d, k, i, l, i + 1)
      <3> DEFINE a == d[i + 1]
                 b == d[l + 1]
      <3>1. /\ w[i + 1] = IF go THEN b ELSE a
            /\ w[l + 1] = IF go THEN a ELSE b
            /\ go <=> IF up THEN b < a ELSE a < b
        BY <2>2, <2>4 DEF go
      <3>2. a \in Int /\ b \in Int
        BY <2>20
      <3> HIDE DEF a, b, go
      <3>3. IF up THEN w[i + 1] = Lo(a, b) /\ w[l + 1] = Hi(a, b) ELSE w[i + 1] = Hi(a, b) /\ w[l + 1] = Lo(a, b)
        BY <3>1, <3>2 DEF Lo, Hi
      <3>4. i < i + 1
        OBVIOUS
      <3> QED BY <3>3, <3>4 DEF PairDone, up, a, b
    <2>6. ASSUME NEW x \in 0 .. n - 1, x < P(x) PROVE PairDone(w, d, k, x, P(x), i + 1)
      <3>1. CASE x = i
        BY <1>4, <2>5, <3>1
      <3>2. CASE x # i
        <4>1. P(x) # i /\ P(x) # l /\ x # l
          BY <1>3, <1>4, <1>9, <2>6, <3>2
        <4>2. x + 1 \in 1 .. n /\ P(x) + 1 \in 1 .. n /\ x + 1 # i + 1 /\ x + 1 # l + 1 /\ P(x) + 1 # i + 1 /\ P(x) + 1 # l + 1
          <5> DEFINE y == P(x)
          <5>1. y \in 0 .. n - 1 /\ y # i /\ y # l
            BY <1>3, <4>1
          <5> HIDE DEF y
          <5>2. x + 1 \in 1 .. n /\ y + 1 \in 1 .. n /\ x + 1 # i + 1 /\ x + 1 # l + 1 /\ y + 1 # i + 1 /\ y + 1 # l + 1
            BY <1>4, <3>2, <4>1, <5>1
          <5> QED BY <5>2 DEF y
        <4>3. w[x + 1] = u[x + 1] /\ w[P(x) + 1] = u[P(x) + 1]
          BY <2>4, <4>2
        <4>4. PairDone(u, d, k, x, P(x), i)
          BY <1>2, <2>6
        <4> QED BY <1>7, <3>2, <4>3, <4>4 DEF PairDone
      <3> QED BY <3>1, <3>2
    <2>7. SameCounts(w, d, n)
      BY <1>1, <2>3 DEF SameCounts
    <2> QED BY <2>3, <2>6, <2>7 DEF PassStates, P, w
  <1> QED BY <1>4, <1>8, <1>9

\* A pass puts every pair in place.
LEMMA PassIs ==
  ASSUME NEW n \in Nat, NEW d \in Seq(Int), Len(d) = n, NEW k, NEW j, PairsOff(n, j)
  PROVE  BitonicPass(d, k, j) \in PassStates(d, n, k, j, n)
  <1> DEFINE count == Len(d)
             Before(i) == PassStates(d, n, k, j, i)
             start == d
             Turn(u, i) == PassTurn(u, k, j, i)
             IsLoop(f) == f = [i \in 0 .. count |-> IF i <= 0 THEN start ELSE Turn(f[i - 1], i - 1)]
             loop == CHOOSE f : IsLoop(f)
  <1>1. BitonicPass(d, k, j) = loop[count]
    BY DEF BitonicPass, PassTurn, For
  <1>2. count \in Nat /\ count = n
    OBVIOUS
  <1>3. start \in Before(0)
    <2>1. \A x \in 0 .. n - 1 : ~(x < 0)
      OBVIOUS
    <2> QED BY <2>1 DEF PassStates, PairDone, SameCounts
  <1>4. \A i \in 0 .. count - 1 : \A u \in Before(i) : Turn(u, i) \in Before(i + 1)
    BY PassTurnIs
  <1>41. Before(count) = PassStates(d, n, k, j, n)
    BY <1>2
  <1> HIDE DEF Turn, Before, start, count
  <1>5. PICK g : /\ g = [i \in 0 .. count |-> g[i]] /\ g[0] = start /\ \A i \in 0 .. count : g[i] \in Before(i)
                /\ \A i \in 0 .. count - 1 : g[i + 1] = Turn(g[i], i)
    <2> DEFINE stage == [i \in 0 .. count |-> Before(i)]
               turn == [p \in (UNION {Before(i) : i \in 0 .. count - 1}) \X (0 .. count - 1) |-> Turn(p[1], p[2])]
    <2>1. \A i \in 0 .. count : stage[i] = Before(i)
      OBVIOUS
    <2>2. \A i \in 0 .. count - 1 : \A u \in Before(i) : turn[<<u, i>>] = Turn(u, i)
      OBVIOUS
    <2> HIDE DEF stage, turn
    <2>3. \A i \in 0 .. count - 1 : \A u \in stage[i] : turn[<<u, i>>] \in stage[i + 1]
      <3> SUFFICES ASSUME NEW i \in 0 .. count - 1, NEW u \in stage[i] PROVE turn[<<u, i>>] \in stage[i + 1]
        OBVIOUS
      <3>1. i \in 0 .. count /\ i + 1 \in 0 .. count
        BY <1>2
      <3>2. u \in Before(i) /\ stage[i + 1] = Before(i + 1)
        BY <2>1, <3>1
      <3>3. turn[<<u, i>>] = Turn(u, i) /\ Turn(u, i) \in Before(i + 1)
        BY <1>4, <2>2, <3>2
      <3> QED BY <3>2, <3>3
    <2>4. start \in stage[0]
      BY <1>2, <1>3, <2>1
    <2>5. PICK g : IsStaged(g, count, stage, start, turn)
      BY <1>2, <2>3, <2>4, StagedLoopRuns
    <2>6. \A i \in 0 .. count - 1 : g[i + 1] = Turn(g[i], i)
      <3> SUFFICES ASSUME NEW i \in 0 .. count - 1 PROVE g[i + 1] = Turn(g[i], i)
        OBVIOUS
      <3>1. i \in 0 .. count
        BY <1>2
      <3>2. g[i] \in stage[i] /\ g[i + 1] = turn[<<g[i], i>>]
        BY <2>5, <3>1 DEF IsStaged
      <3> QED BY <2>1, <2>2, <3>1, <3>2
    <2> QED BY <2>1, <2>5, <2>6 DEF IsStaged
  <1>6. IsLoop(g)
    <2> DEFINE turned == [i \in 0 .. count |-> IF i <= 0 THEN start ELSE Turn(g[i - 1], i - 1)]
    <2>1. ASSUME NEW i \in 0 .. count PROVE g[i] = turned[i]
      <3>1. CASE i = 0
        BY <1>5, <3>1
      <3>2. CASE i # 0
        <4>1. i - 1 \in 0 .. count - 1 /\ (i - 1) + 1 = i /\ ~(i <= 0)
          BY <1>2, <3>2
        <4>2. g[i] = Turn(g[i - 1], i - 1)
          BY <1>5, <4>1
        <4> QED BY <4>1, <4>2
      <3> QED BY <3>1, <3>2
    <2> QED BY <1>5, <2>1
  <1>7. IsLoop(loop)
    <2> HIDE DEF IsLoop
    <2> QED BY <1>6
  <1> HIDE DEF loop
  <1>8. loop[count] \in Before(count)
    <2>1. loop[0] = start /\ \A i \in 0 .. count - 1 : loop[i + 1] = Turn(loop[i], i)
      BY <1>2, <1>7
    <2> HIDE DEF IsLoop
    <2>2. \A i \in 0 .. count - 1 : loop[i] = g[i] => loop[i + 1] = g[i + 1]
      BY <1>5, <2>1
    <2>3. loop[0] = g[0]
      BY <1>5, <2>1
    <2>4. loop[count] = g[count]
      BY <1>2, <2>2, <2>3, LoopsEndAlike
    <2> QED BY <1>2, <1>5, <2>4
  <1> QED BY <1>1, <1>8, <1>41

\* The first powers of two
Powers == <<1, 2, 4, 8, 16, 32, 64, 128, 256>>

\* k after c turns
LEMMA DoubledIs ==
  ASSUME NEW c \in 0 .. 8
  PROVE  Doubled(c) = Powers[c + 1]
  <1> DEFINE count == c
             Before(i) == {Powers[i + 1]}
             start == 1
             Turn(k, i) == 2 * k
             IsLoop(f) == f = [i \in 0 .. count |-> IF i <= 0 THEN start ELSE Turn(f[i - 1], i - 1)]
             loop == CHOOSE f : IsLoop(f)
  <1>1. Doubled(c) = loop[count]
    BY DEF Doubled, For
  <1>2. count \in Nat
    OBVIOUS
  <1>3. start \in Before(0)
    BY DEF Powers
  <1>4. \A i \in 0 .. count - 1 : \A u \in Before(i) : Turn(u, i) \in Before(i + 1)
    <2> SUFFICES ASSUME NEW i \in 0 .. 7 PROVE 2 * Powers[i + 1] = Powers[(i + 1) + 1]
      OBVIOUS
    <2>1. i = 0 \/ i = 1 \/ i = 2 \/ i = 3 \/ i = 4 \/ i = 5 \/ i = 6 \/ i = 7
      OBVIOUS
    <2> QED BY <2>1 DEF Powers
  <1>41. Before(count) = {Powers[c + 1]}
    OBVIOUS
  <1> HIDE DEF Turn, Before, start, count
  <1>5. PICK g : /\ g = [i \in 0 .. count |-> g[i]] /\ g[0] = start /\ \A i \in 0 .. count : g[i] \in Before(i)
                /\ \A i \in 0 .. count - 1 : g[i + 1] = Turn(g[i], i)
    <2> DEFINE stage == [i \in 0 .. count |-> Before(i)]
               turn == [p \in (UNION {Before(i) : i \in 0 .. count - 1}) \X (0 .. count - 1) |-> Turn(p[1], p[2])]
    <2>1. \A i \in 0 .. count : stage[i] = Before(i)
      OBVIOUS
    <2>2. \A i \in 0 .. count - 1 : \A u \in Before(i) : turn[<<u, i>>] = Turn(u, i)
      OBVIOUS
    <2> HIDE DEF stage, turn
    <2>3. \A i \in 0 .. count - 1 : \A u \in stage[i] : turn[<<u, i>>] \in stage[i + 1]
      <3> SUFFICES ASSUME NEW i \in 0 .. count - 1, NEW u \in stage[i] PROVE turn[<<u, i>>] \in stage[i + 1]
        OBVIOUS
      <3>1. i \in 0 .. count /\ i + 1 \in 0 .. count
        BY <1>2
      <3>2. u \in Before(i) /\ stage[i + 1] = Before(i + 1)
        BY <2>1, <3>1
      <3>3. turn[<<u, i>>] = Turn(u, i) /\ Turn(u, i) \in Before(i + 1)
        BY <1>4, <2>2, <3>2
      <3> QED BY <3>2, <3>3
    <2>4. start \in stage[0]
      BY <1>2, <1>3, <2>1
    <2>5. PICK g : IsStaged(g, count, stage, start, turn)
      BY <1>2, <2>3, <2>4, StagedLoopRuns
    <2>6. \A i \in 0 .. count - 1 : g[i + 1] = Turn(g[i], i)
      <3> SUFFICES ASSUME NEW i \in 0 .. count - 1 PROVE g[i + 1] = Turn(g[i], i)
        OBVIOUS
      <3>1. i \in 0 .. count
        BY <1>2
      <3>2. g[i] \in stage[i] /\ g[i + 1] = turn[<<g[i], i>>]
        BY <2>5, <3>1 DEF IsStaged
      <3> QED BY <2>1, <2>2, <3>1, <3>2
    <2> QED BY <2>1, <2>5, <2>6 DEF IsStaged
  <1>6. IsLoop(g)
    <2> DEFINE turned == [i \in 0 .. count |-> IF i <= 0 THEN start ELSE Turn(g[i - 1], i - 1)]
    <2>1. ASSUME NEW i \in 0 .. count PROVE g[i] = turned[i]
      <3>1. CASE i = 0
        BY <1>5, <3>1
      <3>2. CASE i # 0
        <4>1. i - 1 \in 0 .. count - 1 /\ (i - 1) + 1 = i /\ ~(i <= 0)
          BY <1>2, <3>2
        <4>2. g[i] = Turn(g[i - 1], i - 1)
          BY <1>5, <4>1
        <4> QED BY <4>1, <4>2
      <3> QED BY <3>1, <3>2
    <2> QED BY <1>5, <2>1
  <1>7. IsLoop(loop)
    <2> HIDE DEF IsLoop
    <2> QED BY <1>6
  <1> HIDE DEF loop
  <1>8. loop[count] \in Before(count)
    <2>1. loop[0] = start /\ \A i \in 0 .. count - 1 : loop[i + 1] = Turn(loop[i], i)
      BY <1>2, <1>7
    <2> HIDE DEF IsLoop
    <2>2. \A i \in 0 .. count - 1 : loop[i] = g[i] => loop[i + 1] = g[i + 1]
      BY <1>5, <2>1
    <2>3. loop[0] = g[0]
      BY <1>5, <2>1
    <2>4. loop[count] = g[count]
      BY <1>2, <2>2, <2>3, LoopsEndAlike
    <2> QED BY <1>2, <1>5, <2>4
  <1> QED BY <1>1, <1>8, <1>41

\* The values that matter
LEMMA DoubledValues ==
  /\ Doubled(0) = 1 /\ Doubled(1) = 2 /\ Doubled(2) = 4 /\ Doubled(3) = 8
  /\ \A e \in 4 .. 8 : Doubled(e) > 8
  <1>1. \A c \in 0 .. 8 : Doubled(c) = Powers[c + 1]
    BY DoubledIs
  <1>2. Doubled(0) = Powers[1] /\ Doubled(1) = Powers[2] /\ Doubled(2) = Powers[3] /\ Doubled(3) = Powers[4]
    BY <1>1
  <1>3. ASSUME NEW e \in 4 .. 8 PROVE Doubled(e) > 8
    <2>1. e = 4 \/ e = 5 \/ e = 6 \/ e = 7 \/ e = 8
      OBVIOUS
    <2>2. Doubled(e) = Powers[e + 1]
      BY <1>1
    <2> QED BY <2>1, <2>2 DEF Powers
  <1> QED BY <1>2, <1>3 DEF Powers

\* A stage of the sort: the passes of the runs of length Doubled(a + 1)
Row(d, a) == For(a + 1, d, LAMBDA e, b : BitonicPass(e, Doubled(a + 1), Doubled(a - b)))

\* Up to three passes, in turn
LEMMA RowIs ==
  ASSUME NEW d, NEW a \in 0 .. 2
  PROVE  LET P(e, b) == BitonicPass(e, Doubled(a + 1), Doubled(a - b))
         IN  Row(d, a) = IF a = 0 THEN P(d, 0) ELSE IF a = 1 THEN P(P(d, 0), 1) ELSE P(P(P(d, 0), 1), 2)
  <1> DEFINE count == a + 1
             start == d
             Turn(e, b) == BitonicPass(e, Doubled(a + 1), Doubled(a - b))
             Before(i) == {IF i = 0 THEN start ELSE IF i = 1 THEN Turn(start, 0) ELSE IF i = 2 THEN Turn(Turn(start, 0), 1) ELSE Turn(Turn(Turn(start, 0), 1), 2)}
             IsLoop(f) == f = [i \in 0 .. count |-> IF i <= 0 THEN start ELSE Turn(f[i - 1], i - 1)]
             loop == CHOOSE f : IsLoop(f)
  <1>1. Row(d, a) = loop[count]
    BY DEF Row, For
  <1>2. count \in Nat /\ count \in 0 .. 3 /\ count = a + 1
    OBVIOUS
  <1>3. start \in Before(0)
    OBVIOUS
  <1>4. \A i \in 0 .. count - 1 : \A u \in Before(i) : Turn(u, i) \in Before(i + 1)
    <2> SUFFICES ASSUME NEW i \in 0 .. 2, NEW u \in Before(i) PROVE Turn(u, i) \in Before(i + 1)
      BY <1>2
    <2> HIDE DEF Turn, start
    <2>1. CASE i = 0
      BY <2>1
    <2>2. CASE i = 1
      BY <2>2
    <2>3. CASE i = 2
      BY <2>3
    <2> QED BY <2>1, <2>2, <2>3
  <1>41. Before(count) = {IF a = 0 THEN Turn(start, 0) ELSE IF a = 1 THEN Turn(Turn(start, 0), 1) ELSE Turn(Turn(Turn(start, 0), 1), 2)}
    <2> HIDE DEF Turn, start
    <2>1. CASE a = 0
      BY <2>1
    <2>2. CASE a = 1
      BY <2>2
    <2>3. CASE a = 2
      BY <2>3
    <2> QED BY <2>1, <2>2, <2>3
  <1> HIDE DEF Turn, Before, start, count
  <1>5. PICK g : /\ g = [i \in 0 .. count |-> g[i]] /\ g[0] = start /\ \A i \in 0 .. count : g[i] \in Before(i)
                /\ \A i \in 0 .. count - 1 : g[i + 1] = Turn(g[i], i)
    <2> DEFINE stage == [i \in 0 .. count |-> Before(i)]
               turn == [p \in (UNION {Before(i) : i \in 0 .. count - 1}) \X (0 .. count - 1) |-> Turn(p[1], p[2])]
    <2>1. \A i \in 0 .. count : stage[i] = Before(i)
      OBVIOUS
    <2>2. \A i \in 0 .. count - 1 : \A u \in Before(i) : turn[<<u, i>>] = Turn(u, i)
      OBVIOUS
    <2> HIDE DEF stage, turn
    <2>3. \A i \in 0 .. count - 1 : \A u \in stage[i] : turn[<<u, i>>] \in stage[i + 1]
      <3> SUFFICES ASSUME NEW i \in 0 .. count - 1, NEW u \in stage[i] PROVE turn[<<u, i>>] \in stage[i + 1]
        OBVIOUS
      <3>1. i \in 0 .. count /\ i + 1 \in 0 .. count
        BY <1>2
      <3>2. u \in Before(i) /\ stage[i + 1] = Before(i + 1)
        BY <2>1, <3>1
      <3>3. turn[<<u, i>>] = Turn(u, i) /\ Turn(u, i) \in Before(i + 1)
        BY <1>4, <2>2, <3>2
      <3> QED BY <3>2, <3>3
    <2>4. start \in stage[0]
      BY <1>2, <1>3, <2>1
    <2>5. PICK g : IsStaged(g, count, stage, start, turn)
      BY <1>2, <2>3, <2>4, StagedLoopRuns
    <2>6. \A i \in 0 .. count - 1 : g[i + 1] = Turn(g[i], i)
      <3> SUFFICES ASSUME NEW i \in 0 .. count - 1 PROVE g[i + 1] = Turn(g[i], i)
        OBVIOUS
      <3>1. i \in 0 .. count
        BY <1>2
      <3>2. g[i] \in stage[i] /\ g[i + 1] = turn[<<g[i], i>>]
        BY <2>5, <3>1 DEF IsStaged
      <3> QED BY <2>1, <2>2, <3>1, <3>2
    <2> QED BY <2>1, <2>5, <2>6 DEF IsStaged
  <1>6. IsLoop(g)
    <2> DEFINE turned == [i \in 0 .. count |-> IF i <= 0 THEN start ELSE Turn(g[i - 1], i - 1)]
    <2>1. ASSUME NEW i \in 0 .. count PROVE g[i] = turned[i]
      <3>1. CASE i = 0
        BY <1>5, <3>1
      <3>2. CASE i # 0
        <4>1. i - 1 \in 0 .. count - 1 /\ (i - 1) + 1 = i /\ ~(i <= 0)
          BY <1>2, <3>2
        <4>2. g[i] = Turn(g[i - 1], i - 1)
          BY <1>5, <4>1
        <4> QED BY <4>1, <4>2
      <3> QED BY <3>1, <3>2
    <2> QED BY <1>5, <2>1
  <1>7. IsLoop(loop)
    <2> HIDE DEF IsLoop
    <2> QED BY <1>6
  <1> HIDE DEF loop
  <1>8. loop[count] \in Before(count)
    <2>1. loop[0] = start /\ \A i \in 0 .. count - 1 : loop[i + 1] = Turn(loop[i], i)
      BY <1>2, <1>7
    <2> HIDE DEF IsLoop
    <2>2. \A i \in 0 .. count - 1 : loop[i] = g[i] => loop[i + 1] = g[i + 1]
      BY <1>5, <2>1
    <2>3. loop[0] = g[0]
      BY <1>5, <2>1
    <2>4. loop[count] = g[count]
      BY <1>2, <2>2, <2>3, LoopsEndAlike
    <2> QED BY <1>2, <1>5, <2>4
  <1>9. Row(d, a) = IF a = 0 THEN Turn(start, 0) ELSE IF a = 1 THEN Turn(Turn(start, 0), 1) ELSE Turn(Turn(Turn(start, 0), 1), 2)
    BY <1>1, <1>8, <1>41
  <1> QED BY <1>9 DEF Turn, start

\* The passes of each stage
LEMMA Rows ==
  ASSUME NEW d
  PROVE  /\ Row(d, 0) = BitonicPass(d, 2, 1)
         /\ Row(d, 1) = BitonicPass(BitonicPass(d, 4, 2), 4, 1)
         /\ Row(d, 2) = BitonicPass(BitonicPass(BitonicPass(d, 8, 4), 8, 2), 8, 1)
  <1>1. Row(d, 0) = BitonicPass(d, Doubled(0 + 1), Doubled(0 - 0))
    BY RowIs
  <1>2. Row(d, 1) = BitonicPass(BitonicPass(d, Doubled(1 + 1), Doubled(1 - 0)), Doubled(1 + 1), Doubled(1 - 1))
    BY RowIs
  <1>3. Row(d, 2) = BitonicPass(BitonicPass(BitonicPass(d, Doubled(2 + 1), Doubled(2 - 0)), Doubled(2 + 1), Doubled(2 - 1)), Doubled(2 + 1), Doubled(2 - 2))
    BY RowIs
  <1> QED BY <1>1, <1>2, <1>3, DoubledValues

\* The stages of the sort
LEMMA Stages ==
  ASSUME NEW d, Len(d) \in PowersOfTwo
  PROVE  bitonic_sort(d) = IF Len(d) = 1 THEN d ELSE IF Len(d) = 2 THEN Row(d, 0)
                           ELSE IF Len(d) = 4 THEN Row(Row(d, 0), 1) ELSE Row(Row(Row(d, 0), 1), 2)
  <1> DEFINE count == CHOOSE e \in 0 .. Len(d) : Doubled(e) = Len(d)
             start == d
             Turn(u, a) == Row(u, a)
             Before(i) == {IF i = 0 THEN start ELSE IF i = 1 THEN Turn(start, 0) ELSE IF i = 2 THEN Turn(Turn(start, 0), 1) ELSE Turn(Turn(Turn(start, 0), 1), 2)}
             IsLoop(f) == f = [i \in 0 .. count |-> IF i <= 0 THEN start ELSE Turn(f[i - 1], i - 1)]
             loop == CHOOSE f : IsLoop(f)
  <1>1. bitonic_sort(d) = loop[count]
    BY DEF bitonic_sort, Row, For
  <1>2. /\ count \in Nat /\ count \in 0 .. 3
        /\ count = IF Len(d) = 1 THEN 0 ELSE IF Len(d) = 2 THEN 1 ELSE IF Len(d) = 4 THEN 2 ELSE 3
    <2> DEFINE n == Len(d)
               c == IF n = 1 THEN 0 ELSE IF n = 2 THEN 1 ELSE IF n = 4 THEN 2 ELSE 3
    <2>1. n \in {1, 2, 4, 8}
      BY DEF PowersOfTwo
    <2> HIDE DEF n
    <2>2. c \in 0 .. n /\ Doubled(c) = n /\ c \in 0 .. 3
      BY <2>1, DoubledValues
    <2>3. ASSUME NEW e \in 0 .. n, Doubled(e) = n PROVE e = c
      <3>1. e = 0 \/ e = 1 \/ e = 2 \/ e = 3 \/ e \in 4 .. 8
        BY <2>1
      <3>2. CASE e \in 4 .. 8
        <4>1. n > 8
          BY <2>3, <3>2, DoubledValues
        <4> QED BY <2>1, <4>1
      <3> QED BY <2>1, <2>3, <3>1, <3>2, DoubledValues
    <2>4. (CHOOSE e \in 0 .. n : Doubled(e) = n) = c
      <3> HIDE DEF c
      <3> QED BY <2>2, <2>3
    <2> QED BY <2>2, <2>4 DEF n
  <1> HIDE DEF count
  <1>3. start \in Before(0)
    OBVIOUS
  <1>4. \A i \in 0 .. count - 1 : \A u \in Before(i) : Turn(u, i) \in Before(i + 1)
    <2> SUFFICES ASSUME NEW i \in 0 .. 2, NEW u \in Before(i) PROVE Turn(u, i) \in Before(i + 1)
      BY <1>2
    <2> HIDE DEF Turn, start
    <2>1. CASE i = 0
      BY <2>1
    <2>2. CASE i = 1
      BY <2>2
    <2>3. CASE i = 2
      BY <2>3
    <2> QED BY <2>1, <2>2, <2>3
  <1>41. Before(count) = {IF Len(d) = 1 THEN start ELSE IF Len(d) = 2 THEN Turn(start, 0)
                      ELSE IF Len(d) = 4 THEN Turn(Turn(start, 0), 1) ELSE Turn(Turn(Turn(start, 0), 1), 2)}
    <2> HIDE DEF Turn, start
    <2> QED BY <1>2
  <1> HIDE DEF Turn, Before, start, count
  <1>5. PICK g : /\ g = [i \in 0 .. count |-> g[i]] /\ g[0] = start /\ \A i \in 0 .. count : g[i] \in Before(i)
                /\ \A i \in 0 .. count - 1 : g[i + 1] = Turn(g[i], i)
    <2> DEFINE stage == [i \in 0 .. count |-> Before(i)]
               turn == [p \in (UNION {Before(i) : i \in 0 .. count - 1}) \X (0 .. count - 1) |-> Turn(p[1], p[2])]
    <2>1. \A i \in 0 .. count : stage[i] = Before(i)
      OBVIOUS
    <2>2. \A i \in 0 .. count - 1 : \A u \in Before(i) : turn[<<u, i>>] = Turn(u, i)
      OBVIOUS
    <2> HIDE DEF stage, turn
    <2>3. \A i \in 0 .. count - 1 : \A u \in stage[i] : turn[<<u, i>>] \in stage[i + 1]
      <3> SUFFICES ASSUME NEW i \in 0 .. count - 1, NEW u \in stage[i] PROVE turn[<<u, i>>] \in stage[i + 1]
        OBVIOUS
      <3>1. i \in 0 .. count /\ i + 1 \in 0 .. count
        BY <1>2
      <3>2. u \in Before(i) /\ stage[i + 1] = Before(i + 1)
        BY <2>1, <3>1
      <3>3. turn[<<u, i>>] = Turn(u, i) /\ Turn(u, i) \in Before(i + 1)
        BY <1>4, <2>2, <3>2
      <3> QED BY <3>2, <3>3
    <2>4. start \in stage[0]
      BY <1>2, <1>3, <2>1
    <2>5. PICK g : IsStaged(g, count, stage, start, turn)
      BY <1>2, <2>3, <2>4, StagedLoopRuns
    <2>6. \A i \in 0 .. count - 1 : g[i + 1] = Turn(g[i], i)
      <3> SUFFICES ASSUME NEW i \in 0 .. count - 1 PROVE g[i + 1] = Turn(g[i], i)
        OBVIOUS
      <3>1. i \in 0 .. count
        BY <1>2
      <3>2. g[i] \in stage[i] /\ g[i + 1] = turn[<<g[i], i>>]
        BY <2>5, <3>1 DEF IsStaged
      <3> QED BY <2>1, <2>2, <3>1, <3>2
    <2> QED BY <2>1, <2>5, <2>6 DEF IsStaged
  <1>6. IsLoop(g)
    <2> DEFINE turned == [i \in 0 .. count |-> IF i <= 0 THEN start ELSE Turn(g[i - 1], i - 1)]
    <2>1. ASSUME NEW i \in 0 .. count PROVE g[i] = turned[i]
      <3>1. CASE i = 0
        BY <1>5, <3>1
      <3>2. CASE i # 0
        <4>1. i - 1 \in 0 .. count - 1 /\ (i - 1) + 1 = i /\ ~(i <= 0)
          BY <1>2, <3>2
        <4>2. g[i] = Turn(g[i - 1], i - 1)
          BY <1>5, <4>1
        <4> QED BY <4>1, <4>2
      <3> QED BY <3>1, <3>2
    <2> QED BY <1>5, <2>1
  <1>7. IsLoop(loop)
    <2> HIDE DEF IsLoop
    <2> QED BY <1>6
  <1> HIDE DEF loop
  <1>8. loop[count] \in Before(count)
    <2>1. loop[0] = start /\ \A i \in 0 .. count - 1 : loop[i + 1] = Turn(loop[i], i)
      BY <1>2, <1>7
    <2> HIDE DEF IsLoop
    <2>2. \A i \in 0 .. count - 1 : loop[i] = g[i] => loop[i + 1] = g[i + 1]
      BY <1>5, <2>1
    <2>3. loop[0] = g[0]
      BY <1>5, <2>1
    <2>4. loop[count] = g[count]
      BY <1>2, <2>2, <2>3, LoopsEndAlike
    <2> QED BY <1>2, <1>5, <2>4, SMTT(30)
  <1> QED BY <1>1, <1>8, <1>41 DEF Turn, start

\* e is d, or d with the values at a and b swapped, with the lesser one at a.
Up(d, e, a, b) == e[a] = Lo(d[a], d[b]) /\ e[b] = Hi(d[a], d[b])
\* The same values, in Int, n of them
Shuffled(d, e, n) == e \in Seq(Int) /\ Len(e) = n /\ SameCounts(e, d, n)

\* Every pair of places at stride j went through its comparator.
Compared(d, e, n, k, j) ==
  \A x \in 0 .. n - 1 : x < Partner(x, j) =>
    IF Bit(x, k) = 0 THEN Up(d, e, x + 1, Partner(x, j) + 1) ELSE Up(d, e, Partner(x, j) + 1, x + 1)

\* A pass is a comparator on each pair.
LEMMA PassPairs ==
  ASSUME NEW n \in Nat, NEW d \in Seq(Int), Len(d) = n, NEW k, NEW j, PairsOff(n, j)
  PROVE  /\ Shuffled(d, BitonicPass(d, k, j), n)
         /\ Compared(d, BitonicPass(d, k, j), n, k, j)
  <1> DEFINE e == BitonicPass(d, k, j)
  <1>1. e \in PassStates(d, n, k, j, n)
    BY PassIs
  <1> HIDE DEF e
  <1>2. Shuffled(d, e, n)
    BY <1>1 DEF PassStates, Shuffled
  <1>3. ASSUME NEW x \in 0 .. n - 1, x < Partner(x, j)
        PROVE  IF Bit(x, k) = 0 THEN Up(d, e, x + 1, Partner(x, j) + 1) ELSE Up(d, e, Partner(x, j) + 1, x + 1)
    <2> DEFINE y == Partner(x, j)
               a == x + 1
               b == y + 1
    <2>1. y \in 0 .. n - 1
      BY DEF PairsOff
    <2>2. PairDone(e, d, k, x, y, n)
      BY <1>1, <1>3 DEF PassStates
    <2>3. IF Bit(x, k) = 0 THEN e[a] = Lo(d[a], d[b]) /\ e[b] = Hi(d[a], d[b])
                           ELSE e[a] = Hi(d[a], d[b]) /\ e[b] = Lo(d[a], d[b])
      BY <2>2 DEF PairDone
    <2>4. d[a] \in Int /\ d[b] \in Int
      <3> HIDE DEF y
      <3>1. a \in 1 .. Len(d) /\ b \in 1 .. Len(d)
        BY <2>1
      <3> QED BY <3>1, ElementOfSeq
    <2>5. Lo(d[a], d[b]) = Lo(d[b], d[a]) /\ Hi(d[a], d[b]) = Hi(d[b], d[a])
      BY <2>4 DEF Lo, Hi
    <2> HIDE DEF a, b, y
    <2>6. IF Bit(x, k) = 0 THEN Up(d, e, a, b) ELSE Up(d, e, b, a)
      BY <2>3, <2>5 DEF Up
    <2> QED BY <2>6 DEF a, b, y
  <1>4. Compared(d, e, n, k, j)
    BY <1>3 DEF Compared
  <1> QED BY <1>2, <1>4 DEF e

\* The bits of the indices
LEMMA Bits ==
  /\ Bit(0, 1) = 0 /\ Bit(1, 1) = 1 /\ Bit(2, 1) = 0 /\ Bit(3, 1) = 1 /\ Bit(4, 1) = 0 /\ Bit(5, 1) = 1 /\ Bit(6, 1) = 0 /\ Bit(7, 1) = 1
  /\ Bit(0, 2) = 0 /\ Bit(1, 2) = 0 /\ Bit(2, 2) = 1 /\ Bit(3, 2) = 1 /\ Bit(4, 2) = 0 /\ Bit(5, 2) = 0 /\ Bit(6, 2) = 1 /\ Bit(7, 2) = 1
  /\ Bit(0, 4) = 0 /\ Bit(1, 4) = 0 /\ Bit(2, 4) = 0 /\ Bit(3, 4) = 0 /\ Bit(4, 4) = 1 /\ Bit(5, 4) = 1 /\ Bit(6, 4) = 1 /\ Bit(7, 4) = 1
  /\ Bit(0, 8) = 0 /\ Bit(1, 8) = 0 /\ Bit(2, 8) = 0 /\ Bit(3, 8) = 0 /\ Bit(4, 8) = 0 /\ Bit(5, 8) = 0 /\ Bit(6, 8) = 0 /\ Bit(7, 8) = 0
  BY DEF Bit

\* The partners of the indices
LEMMA Partners ==
  /\ Partner(0, 1) = 1 /\ Partner(1, 1) = 0 /\ Partner(2, 1) = 3 /\ Partner(3, 1) = 2 /\ Partner(4, 1) = 5 /\ Partner(5, 1) = 4 /\ Partner(6, 1) = 7 /\ Partner(7, 1) = 6
  /\ Partner(0, 2) = 2 /\ Partner(1, 2) = 3 /\ Partner(2, 2) = 0 /\ Partner(3, 2) = 1 /\ Partner(4, 2) = 6 /\ Partner(5, 2) = 7 /\ Partner(6, 2) = 4 /\ Partner(7, 2) = 5
  /\ Partner(0, 4) = 4 /\ Partner(1, 4) = 5 /\ Partner(2, 4) = 6 /\ Partner(3, 4) = 7 /\ Partner(4, 4) = 0 /\ Partner(5, 4) = 1 /\ Partner(6, 4) = 2 /\ Partner(7, 4) = 3
  BY Bits DEF Partner

\* The strides that the sort uses pair off its indices.
LEMMA Pairs ==
  PairsOff(2, 1) /\ PairsOff(4, 1) /\ PairsOff(4, 2) /\ PairsOff(8, 1) /\ PairsOff(8, 2) /\ PairsOff(8, 4)
  <1>1. PairsOff(2, 1)
    <2> SUFFICES ASSUME NEW x \in 0 .. 1 PROVE Partner(x, 1) \in 0 .. 1 /\ Partner(Partner(x, 1), 1) = x /\ Partner(x, 1) # x
      BY DEF PairsOff
    <2>1. x = 0 \/ x = 1
      OBVIOUS
    <2> QED BY <2>1, Partners
  <1>2. PairsOff(4, 1)
    <2> SUFFICES ASSUME NEW x \in 0 .. 3 PROVE Partner(x, 1) \in 0 .. 3 /\ Partner(Partner(x, 1), 1) = x /\ Partner(x, 1) # x
      BY DEF PairsOff
    <2>1. x = 0 \/ x = 1 \/ x = 2 \/ x = 3
      OBVIOUS
    <2> QED BY <2>1, Partners
  <1>3. PairsOff(4, 2)
    <2> SUFFICES ASSUME NEW x \in 0 .. 3 PROVE Partner(x, 2) \in 0 .. 3 /\ Partner(Partner(x, 2), 2) = x /\ Partner(x, 2) # x
      BY DEF PairsOff
    <2>1. x = 0 \/ x = 1 \/ x = 2 \/ x = 3
      OBVIOUS
    <2> QED BY <2>1, Partners
  <1>4. PairsOff(8, 1)
    <2> SUFFICES ASSUME NEW x \in 0 .. 7 PROVE Partner(x, 1) \in 0 .. 7 /\ Partner(Partner(x, 1), 1) = x /\ Partner(x, 1) # x
      BY DEF PairsOff
    <2>1. x = 0 \/ x = 1 \/ x = 2 \/ x = 3 \/ x = 4 \/ x = 5 \/ x = 6 \/ x = 7
      OBVIOUS
    <2> QED BY <2>1, Partners
  <1>5. PairsOff(8, 2)
    <2> SUFFICES ASSUME NEW x \in 0 .. 7 PROVE Partner(x, 2) \in 0 .. 7 /\ Partner(Partner(x, 2), 2) = x /\ Partner(x, 2) # x
      BY DEF PairsOff
    <2>1. x = 0 \/ x = 1 \/ x = 2 \/ x = 3 \/ x = 4 \/ x = 5 \/ x = 6 \/ x = 7
      OBVIOUS
    <2> QED BY <2>1, Partners
  <1>6. PairsOff(8, 4)
    <2> SUFFICES ASSUME NEW x \in 0 .. 7 PROVE Partner(x, 4) \in 0 .. 7 /\ Partner(Partner(x, 4), 4) = x /\ Partner(x, 4) # x
      BY DEF PairsOff
    <2>1. x = 0 \/ x = 1 \/ x = 2 \/ x = 3 \/ x = 4 \/ x = 5 \/ x = 6 \/ x = 7
      OBVIOUS
    <2> QED BY <2>1, Partners
  <1> QED BY <1>1, <1>2, <1>3, <1>4, <1>5, <1>6

\* The comparators of stride 1 in runs of 2 over 2 values
LEMMA Pass_2_2_1 ==
  ASSUME NEW d \in Seq(Int), Len(d) = 2
  PROVE  LET e == BitonicPass(d, 2, 1)
         IN  Shuffled(d, e, 2) /\ Up(d, e, 1, 2)
  <1> DEFINE e == BitonicPass(d, 2, 1)
  <1>0. \A n \in Nat : Len(d) = n /\ PairsOff(n, 1) => Shuffled(d, e, n) /\ Compared(d, e, n, 2, 1)
    BY PassPairs
  <1> HIDE DEF e
  <1>1. Shuffled(d, e, 2) /\ Compared(d, e, 2, 2, 1)
    BY <1>0, Pairs
  <1>2. Up(d, e, 1, 2)
    BY <1>1, Bits, Partners DEF Compared
  <1> QED BY <1>1, <1>2 DEF e

\* The comparators of stride 1 in runs of 2 over 4 values
LEMMA Pass_4_2_1 ==
  ASSUME NEW d \in Seq(Int), Len(d) = 4
  PROVE  LET e == BitonicPass(d, 2, 1)
         IN  Shuffled(d, e, 4) /\ Up(d, e, 1, 2) /\ Up(d, e, 4, 3)
  <1> DEFINE e == BitonicPass(d, 2, 1)
  <1>0. \A n \in Nat : Len(d) = n /\ PairsOff(n, 1) => Shuffled(d, e, n) /\ Compared(d, e, n, 2, 1)
    BY PassPairs
  <1> HIDE DEF e
  <1>1. Shuffled(d, e, 4) /\ Compared(d, e, 4, 2, 1)
    BY <1>0, Pairs
  <1>2. Up(d, e, 1, 2)
    BY <1>1, Bits, Partners DEF Compared
  <1>3. Up(d, e, 4, 3)
    BY <1>1, Bits, Partners DEF Compared
  <1> QED BY <1>1, <1>2, <1>3 DEF e

\* The comparators of stride 2 in runs of 4 over 4 values
LEMMA Pass_4_4_2 ==
  ASSUME NEW d \in Seq(Int), Len(d) = 4
  PROVE  LET e == BitonicPass(d, 4, 2)
         IN  Shuffled(d, e, 4) /\ Up(d, e, 1, 3) /\ Up(d, e, 2, 4)
  <1> DEFINE e == BitonicPass(d, 4, 2)
  <1>0. \A n \in Nat : Len(d) = n /\ PairsOff(n, 2) => Shuffled(d, e, n) /\ Compared(d, e, n, 4, 2)
    BY PassPairs
  <1> HIDE DEF e
  <1>1. Shuffled(d, e, 4) /\ Compared(d, e, 4, 4, 2)
    BY <1>0, Pairs
  <1>2. Up(d, e, 1, 3)
    BY <1>1, Bits, Partners DEF Compared
  <1>3. Up(d, e, 2, 4)
    BY <1>1, Bits, Partners DEF Compared
  <1> QED BY <1>1, <1>2, <1>3 DEF e

\* The comparators of stride 1 in runs of 4 over 4 values
LEMMA Pass_4_4_1 ==
  ASSUME NEW d \in Seq(Int), Len(d) = 4
  PROVE  LET e == BitonicPass(d, 4, 1)
         IN  Shuffled(d, e, 4) /\ Up(d, e, 1, 2) /\ Up(d, e, 3, 4)
  <1> DEFINE e == BitonicPass(d, 4, 1)
  <1>0. \A n \in Nat : Len(d) = n /\ PairsOff(n, 1) => Shuffled(d, e, n) /\ Compared(d, e, n, 4, 1)
    BY PassPairs
  <1> HIDE DEF e
  <1>1. Shuffled(d, e, 4) /\ Compared(d, e, 4, 4, 1)
    BY <1>0, Pairs
  <1>2. Up(d, e, 1, 2)
    BY <1>1, Bits, Partners DEF Compared
  <1>3. Up(d, e, 3, 4)
    BY <1>1, Bits, Partners DEF Compared
  <1> QED BY <1>1, <1>2, <1>3 DEF e

\* The comparators of stride 1 in runs of 2 over 8 values
LEMMA Pass_8_2_1 ==
  ASSUME NEW d \in Seq(Int), Len(d) = 8
  PROVE  LET e == BitonicPass(d, 2, 1)
         IN  Shuffled(d, e, 8) /\ Up(d, e, 1, 2) /\ Up(d, e, 4, 3) /\ Up(d, e, 5, 6) /\ Up(d, e, 8, 7)
  <1> DEFINE e == BitonicPass(d, 2, 1)
  <1>0. \A n \in Nat : Len(d) = n /\ PairsOff(n, 1) => Shuffled(d, e, n) /\ Compared(d, e, n, 2, 1)
    BY PassPairs
  <1> HIDE DEF e
  <1>1. Shuffled(d, e, 8) /\ Compared(d, e, 8, 2, 1)
    BY <1>0, Pairs
  <1>2. Up(d, e, 1, 2)
    BY <1>1, Bits, Partners DEF Compared
  <1>3. Up(d, e, 4, 3)
    BY <1>1, Bits, Partners DEF Compared
  <1>4. Up(d, e, 5, 6)
    BY <1>1, Bits, Partners DEF Compared
  <1>5. Up(d, e, 8, 7)
    BY <1>1, Bits, Partners DEF Compared
  <1> QED BY <1>1, <1>2, <1>3, <1>4, <1>5 DEF e

\* The comparators of stride 2 in runs of 4 over 8 values
LEMMA Pass_8_4_2 ==
  ASSUME NEW d \in Seq(Int), Len(d) = 8
  PROVE  LET e == BitonicPass(d, 4, 2)
         IN  Shuffled(d, e, 8) /\ Up(d, e, 1, 3) /\ Up(d, e, 2, 4) /\ Up(d, e, 7, 5) /\ Up(d, e, 8, 6)
  <1> DEFINE e == BitonicPass(d, 4, 2)
  <1>0. \A n \in Nat : Len(d) = n /\ PairsOff(n, 2) => Shuffled(d, e, n) /\ Compared(d, e, n, 4, 2)
    BY PassPairs
  <1> HIDE DEF e
  <1>1. Shuffled(d, e, 8) /\ Compared(d, e, 8, 4, 2)
    BY <1>0, Pairs
  <1>2. Up(d, e, 1, 3)
    BY <1>1, Bits, Partners DEF Compared
  <1>3. Up(d, e, 2, 4)
    BY <1>1, Bits, Partners DEF Compared
  <1>4. Up(d, e, 7, 5)
    BY <1>1, Bits, Partners DEF Compared
  <1>5. Up(d, e, 8, 6)
    BY <1>1, Bits, Partners DEF Compared
  <1> QED BY <1>1, <1>2, <1>3, <1>4, <1>5 DEF e

\* The comparators of stride 1 in runs of 4 over 8 values
LEMMA Pass_8_4_1 ==
  ASSUME NEW d \in Seq(Int), Len(d) = 8
  PROVE  LET e == BitonicPass(d, 4, 1)
         IN  Shuffled(d, e, 8) /\ Up(d, e, 1, 2) /\ Up(d, e, 3, 4) /\ Up(d, e, 6, 5) /\ Up(d, e, 8, 7)
  <1> DEFINE e == BitonicPass(d, 4, 1)
  <1>0. \A n \in Nat : Len(d) = n /\ PairsOff(n, 1) => Shuffled(d, e, n) /\ Compared(d, e, n, 4, 1)
    BY PassPairs
  <1> HIDE DEF e
  <1>1. Shuffled(d, e, 8) /\ Compared(d, e, 8, 4, 1)
    BY <1>0, Pairs
  <1>2. Up(d, e, 1, 2)
    BY <1>1, Bits, Partners DEF Compared
  <1>3. Up(d, e, 3, 4)
    BY <1>1, Bits, Partners DEF Compared
  <1>4. Up(d, e, 6, 5)
    BY <1>1, Bits, Partners DEF Compared
  <1>5. Up(d, e, 8, 7)
    BY <1>1, Bits, Partners DEF Compared
  <1> QED BY <1>1, <1>2, <1>3, <1>4, <1>5 DEF e

\* The comparators of stride 4 in runs of 8 over 8 values
LEMMA Pass_8_8_4 ==
  ASSUME NEW d \in Seq(Int), Len(d) = 8
  PROVE  LET e == BitonicPass(d, 8, 4)
         IN  Shuffled(d, e, 8) /\ Up(d, e, 1, 5) /\ Up(d, e, 2, 6) /\ Up(d, e, 3, 7) /\ Up(d, e, 4, 8)
  <1> DEFINE e == BitonicPass(d, 8, 4)
  <1>0. \A n \in Nat : Len(d) = n /\ PairsOff(n, 4) => Shuffled(d, e, n) /\ Compared(d, e, n, 8, 4)
    BY PassPairs
  <1> HIDE DEF e
  <1>1. Shuffled(d, e, 8) /\ Compared(d, e, 8, 8, 4)
    BY <1>0, Pairs
  <1>2. Up(d, e, 1, 5)
    BY <1>1, Bits, Partners DEF Compared
  <1>3. Up(d, e, 2, 6)
    BY <1>1, Bits, Partners DEF Compared
  <1>4. Up(d, e, 3, 7)
    BY <1>1, Bits, Partners DEF Compared
  <1>5. Up(d, e, 4, 8)
    BY <1>1, Bits, Partners DEF Compared
  <1> QED BY <1>1, <1>2, <1>3, <1>4, <1>5 DEF e

\* The comparators of stride 2 in runs of 8 over 8 values
LEMMA Pass_8_8_2 ==
  ASSUME NEW d \in Seq(Int), Len(d) = 8
  PROVE  LET e == BitonicPass(d, 8, 2)
         IN  Shuffled(d, e, 8) /\ Up(d, e, 1, 3) /\ Up(d, e, 2, 4) /\ Up(d, e, 5, 7) /\ Up(d, e, 6, 8)
  <1> DEFINE e == BitonicPass(d, 8, 2)
  <1>0. \A n \in Nat : Len(d) = n /\ PairsOff(n, 2) => Shuffled(d, e, n) /\ Compared(d, e, n, 8, 2)
    BY PassPairs
  <1> HIDE DEF e
  <1>1. Shuffled(d, e, 8) /\ Compared(d, e, 8, 8, 2)
    BY <1>0, Pairs
  <1>2. Up(d, e, 1, 3)
    BY <1>1, Bits, Partners DEF Compared
  <1>3. Up(d, e, 2, 4)
    BY <1>1, Bits, Partners DEF Compared
  <1>4. Up(d, e, 5, 7)
    BY <1>1, Bits, Partners DEF Compared
  <1>5. Up(d, e, 6, 8)
    BY <1>1, Bits, Partners DEF Compared
  <1> QED BY <1>1, <1>2, <1>3, <1>4, <1>5 DEF e

\* The comparators of stride 1 in runs of 8 over 8 values
LEMMA Pass_8_8_1 ==
  ASSUME NEW d \in Seq(Int), Len(d) = 8
  PROVE  LET e == BitonicPass(d, 8, 1)
         IN  Shuffled(d, e, 8) /\ Up(d, e, 1, 2) /\ Up(d, e, 3, 4) /\ Up(d, e, 5, 6) /\ Up(d, e, 7, 8)
  <1> DEFINE e == BitonicPass(d, 8, 1)
  <1>0. \A n \in Nat : Len(d) = n /\ PairsOff(n, 1) => Shuffled(d, e, n) /\ Compared(d, e, n, 8, 1)
    BY PassPairs
  <1> HIDE DEF e
  <1>1. Shuffled(d, e, 8) /\ Compared(d, e, 8, 8, 1)
    BY <1>0, Pairs
  <1>2. Up(d, e, 1, 2)
    BY <1>1, Bits, Partners DEF Compared
  <1>3. Up(d, e, 3, 4)
    BY <1>1, Bits, Partners DEF Compared
  <1>4. Up(d, e, 5, 6)
    BY <1>1, Bits, Partners DEF Compared
  <1>5. Up(d, e, 7, 8)
    BY <1>1, Bits, Partners DEF Compared
  <1> QED BY <1>1, <1>2, <1>3, <1>4, <1>5 DEF e

\* A comparator of w and y, and one of x and z, leave the lesser two in the first places.
Mixed(w, x, y, z) == Lo(w, y) <= Hi(x, z) /\ Lo(x, z) <= Hi(w, y)

\* A comparator
LEMMA LoHi ==
  ASSUME NEW x \in Int, NEW y \in Int
  PROVE  Lo(x, y) \in Int /\ Hi(x, y) \in Int /\ Lo(x, y) <= Hi(x, y)
  BY DEF Lo, Hi

\* A run up and a run down are mixed.
LEMMA UpDownMixed ==
  ASSUME NEW w \in Int, NEW x \in Int, NEW y \in Int, NEW z \in Int, w <= x, z <= y
  PROVE  Mixed(w, x, y, z)
  BY DEF Mixed, Lo, Hi

\* Two passes sort four mixed values.
LEMMA MergeFour ==
  ASSUME NEW w \in Int, NEW x \in Int, NEW y \in Int, NEW z \in Int, Mixed(w, x, y, z)
  PROVE  /\ Lo(Lo(w, y), Lo(x, z)) <= Hi(Lo(w, y), Lo(x, z))
         /\ Hi(Lo(w, y), Lo(x, z)) <= Lo(Hi(w, y), Hi(x, z))
         /\ Lo(Hi(w, y), Hi(x, z)) <= Hi(Hi(w, y), Hi(x, z))
  <1> DEFINE a == Lo(w, y)
             b == Lo(x, z)
             c == Hi(w, y)
             d == Hi(x, z)
  <1>1. a \in Int /\ b \in Int /\ c \in Int /\ d \in Int /\ a <= c /\ b <= d
    BY LoHi
  <1>2. a <= d /\ b <= c
    BY DEF Mixed
  <1> HIDE DEF a, b, c, d
  <1>3. Lo(a, b) <= Hi(a, b) /\ Hi(a, b) <= Lo(c, d) /\ Lo(c, d) <= Hi(c, d)
    BY <1>1, <1>2 DEF Lo, Hi
  <1> QED BY <1>3 DEF a, b, c, d

\* The first pass over a run of four up and a run of four down: each of the
\* lesser half is below each of the greater, and both halves are mixed.
LEMMA HalfCleaner ==
  ASSUME NEW a1 \in Int, NEW a2 \in Int, NEW a3 \in Int, NEW a4 \in Int, NEW a5 \in Int, NEW a6 \in Int, NEW a7 \in Int, NEW a8 \in Int,
         a1 <= a2, a2 <= a3, a3 <= a4, a8 <= a7, a7 <= a6, a6 <= a5
  PROVE  /\ Lo(a1, a5) <= Hi(a1, a5) /\ Lo(a1, a5) <= Hi(a2, a6) /\ Lo(a1, a5) <= Hi(a3, a7) /\ Lo(a1, a5) <= Hi(a4, a8)
         /\ Lo(a2, a6) <= Hi(a1, a5) /\ Lo(a2, a6) <= Hi(a2, a6) /\ Lo(a2, a6) <= Hi(a3, a7) /\ Lo(a2, a6) <= Hi(a4, a8)
         /\ Lo(a3, a7) <= Hi(a1, a5) /\ Lo(a3, a7) <= Hi(a2, a6) /\ Lo(a3, a7) <= Hi(a3, a7) /\ Lo(a3, a7) <= Hi(a4, a8)
         /\ Lo(a4, a8) <= Hi(a1, a5) /\ Lo(a4, a8) <= Hi(a2, a6) /\ Lo(a4, a8) <= Hi(a3, a7) /\ Lo(a4, a8) <= Hi(a4, a8)
         /\ Mixed(Lo(a1, a5), Lo(a2, a6), Lo(a3, a7), Lo(a4, a8))
         /\ Mixed(Hi(a1, a5), Hi(a2, a6), Hi(a3, a7), Hi(a4, a8))
  <1>1. Lo(a1, a5) <= Hi(a1, a5) /\ Lo(a1, a5) <= Hi(a2, a6) /\ Lo(a1, a5) <= Hi(a3, a7) /\ Lo(a1, a5) <= Hi(a4, a8)
    BY DEF Lo, Hi
  <1>2. Lo(a2, a6) <= Hi(a1, a5) /\ Lo(a2, a6) <= Hi(a2, a6) /\ Lo(a2, a6) <= Hi(a3, a7) /\ Lo(a2, a6) <= Hi(a4, a8)
    BY DEF Lo, Hi
  <1>3. Lo(a3, a7) <= Hi(a1, a5) /\ Lo(a3, a7) <= Hi(a2, a6) /\ Lo(a3, a7) <= Hi(a3, a7) /\ Lo(a3, a7) <= Hi(a4, a8)
    BY DEF Lo, Hi
  <1>4. Lo(a4, a8) <= Hi(a1, a5) /\ Lo(a4, a8) <= Hi(a2, a6) /\ Lo(a4, a8) <= Hi(a3, a7) /\ Lo(a4, a8) <= Hi(a4, a8)
    BY DEF Lo, Hi
  <1>5. Lo(Lo(a1, a5), Lo(a3, a7)) <= Hi(Lo(a2, a6), Lo(a4, a8))
    BY SMTT(60) DEF Lo, Hi
  <1>6. Lo(Lo(a2, a6), Lo(a4, a8)) <= Hi(Lo(a1, a5), Lo(a3, a7))
    BY SMTT(60) DEF Lo, Hi
  <1>7. Lo(Hi(a1, a5), Hi(a3, a7)) <= Hi(Hi(a2, a6), Hi(a4, a8))
    BY SMTT(60) DEF Lo, Hi
  <1>8. Lo(Hi(a2, a6), Hi(a4, a8)) <= Hi(Hi(a1, a5), Hi(a3, a7))
    BY SMTT(60) DEF Lo, Hi
  <1> QED BY <1>1, <1>2, <1>3, <1>4, <1>5, <1>6, <1>7, <1>8 DEF Mixed

\* The values of a sequence of integers
LEMMA IntValues ==
  ASSUME NEW n, NEW d \in Seq(Int), Len(d) = n
  PROVE  \A i \in 1 .. n : d[i] \in Int
  BY ElementOfSeq

\* Shuffling twice shuffles.
LEMMA ShuffledTwice ==
  ASSUME NEW n, NEW d, NEW e, NEW f, Shuffled(d, e, n), Shuffled(e, f, n)
  PROVE  Shuffled(d, f, n)
  <1>1. SameCounts(f, d, n)
    BY DEF Shuffled, SameCounts
  <1> QED BY <1>1 DEF Shuffled

\* What a comparator leaves
LEMMA UpOrders ==
  ASSUME NEW d, NEW e, NEW a, NEW b, d[a] \in Int, d[b] \in Int, Up(d, e, a, b)
  PROVE  e[a] <= e[b] /\ e[a] \in {d[a], d[b]} /\ e[b] \in {d[a], d[b]}
  BY DEF Up, Lo, Hi

\* Two passes over four mixed places p, q, r, s order them.
LEMMA FourInOrder ==
  ASSUME NEW d, NEW e, NEW f, NEW p, NEW q, NEW r, NEW s,
         d[p] \in Int, d[q] \in Int, d[r] \in Int, d[s] \in Int, Mixed(d[p], d[q], d[r], d[s]),
         Up(d, e, p, r), Up(d, e, q, s), Up(e, f, p, q), Up(e, f, r, s)
  PROVE  /\ f[p] <= f[q] /\ f[q] <= f[r] /\ f[r] <= f[s]
         /\ f[p] \in {d[p], d[q], d[r], d[s]} /\ f[s] \in {d[p], d[q], d[r], d[s]}
  <1> DEFINE w == d[p]
             x == d[q]
             y == d[r]
             z == d[s]
  <1>1. e[p] = Lo(w, y) /\ e[r] = Hi(w, y) /\ e[q] = Lo(x, z) /\ e[s] = Hi(x, z)
    BY DEF Up
  <1>2. /\ f[p] = Lo(Lo(w, y), Lo(x, z)) /\ f[q] = Hi(Lo(w, y), Lo(x, z))
        /\ f[r] = Lo(Hi(w, y), Hi(x, z)) /\ f[s] = Hi(Hi(w, y), Hi(x, z))
    BY <1>1 DEF Up
  <1>3. w \in Int /\ x \in Int /\ y \in Int /\ z \in Int /\ Mixed(w, x, y, z)
    OBVIOUS
  <1> HIDE DEF w, x, y, z
  <1>4. f[p] <= f[q] /\ f[q] <= f[r] /\ f[r] <= f[s]
    BY <1>2, <1>3, MergeFour
  <1>5. f[p] \in {w, x, y, z} /\ f[s] \in {w, x, y, z}
    BY <1>2 DEF Lo, Hi
  <1> QED BY <1>4, <1>5 DEF w, x, y, z

\* A shuffle in order is sorted.
LEMMA ShuffledSorted ==
  ASSUME NEW n \in Nat, NEW d \in Seq(Int), Len(d) = n, NEW e, Shuffled(d, e, n), \A i \in 1 .. n - 1 : e[i] <= e[i + 1]
  PROVE  IsSorted(e, d)
  <1>1. DOMAIN e = 1 .. n /\ DOMAIN d = 1 .. n
    BY LenProperties DEF Shuffled
  <1>2. ASSUME NEW v PROVE Cardinality({i \in DOMAIN e : e[i] = v}) = Cardinality({i \in DOMAIN d : d[i] = v})
    BY <1>1 DEF Shuffled, SameCounts
  <1> QED BY <1>2 DEF IsSorted

\* Two values
LEMMA SortsTwo ==
  ASSUME NEW d \in Seq(Int), Len(d) = 2
  PROVE  IsSorted(Row(d, 0), d)
  <1> DEFINE e == BitonicPass(d, 2, 1)
  <1>1. Shuffled(d, e, 2) /\ Up(d, e, 1, 2)
    BY Pass_2_2_1
  <1>2. Row(d, 0) = e
    BY Rows
  <1> HIDE DEF e
  <1>3. d[1] \in Int /\ d[2] \in Int
    <2>1. \A i \in 1 .. 2 : d[i] \in Int
      BY IntValues
    <2> QED BY <2>1
  <1>4. e[1] <= e[2]
    BY <1>1, <1>3, UpOrders
  <1>5. \A i \in 1 .. 2 - 1 : e[i] <= e[i + 1]
    BY <1>4
  <1>6. IsSorted(e, d)
    BY <1>1, <1>5, ShuffledSorted
  <1> QED BY <1>2, <1>6

\* Four values
LEMMA SortsFour ==
  ASSUME NEW d \in Seq(Int), Len(d) = 4
  PROVE  IsSorted(Row(Row(d, 0), 1), d)
  <1> DEFINE d1 == BitonicPass(d, 2, 1)
             d2 == BitonicPass(d1, 4, 2)
             e == BitonicPass(d2, 4, 1)
  <1>1. Row(Row(d, 0), 1) = e
    BY Rows
  <1>2. Shuffled(d, d1, 4) /\ Up(d, d1, 1, 2) /\ Up(d, d1, 4, 3)
    BY Pass_4_2_1
  <1>3. d1 \in Seq(Int) /\ Len(d1) = 4
    BY <1>2 DEF Shuffled
  <1> HIDE DEF d1
  <1>4. Shuffled(d1, d2, 4) /\ Up(d1, d2, 1, 3) /\ Up(d1, d2, 2, 4)
    BY <1>3, Pass_4_4_2
  <1>5. d2 \in Seq(Int) /\ Len(d2) = 4
    BY <1>4 DEF Shuffled
  <1> HIDE DEF d2
  <1>6. Shuffled(d2, e, 4) /\ Up(d2, e, 1, 2) /\ Up(d2, e, 3, 4)
    BY <1>5, Pass_4_4_1
  <1> HIDE DEF e
  <1>7. d[1] \in Int /\ d[2] \in Int /\ d[3] \in Int /\ d[4] \in Int
    <2>1. \A i \in 1 .. 4 : d[i] \in Int
      BY IntValues
    <2> QED BY <2>1
  <1>8. d1[1] \in Int /\ d1[2] \in Int /\ d1[3] \in Int /\ d1[4] \in Int
    <2>1. \A i \in 1 .. 4 : d1[i] \in Int
      BY <1>3, IntValues
    <2> QED BY <2>1
  <1>9. d1[1] <= d1[2] /\ d1[4] <= d1[3]
    BY <1>2, <1>7, UpOrders
  <1>10. Mixed(d1[1], d1[2], d1[3], d1[4])
    BY <1>8, <1>9, UpDownMixed
  <1>11. e[1] <= e[2] /\ e[2] <= e[3] /\ e[3] <= e[4]
    BY <1>4, <1>6, <1>8, <1>10, FourInOrder
  <1>12. \A i \in 1 .. 4 - 1 : e[i] <= e[i + 1]
    <2> SUFFICES ASSUME NEW i \in 1 .. 4 - 1 PROVE e[i] <= e[i + 1]
      OBVIOUS
    <2>1. i = 1 \/ i = 2 \/ i = 3
      OBVIOUS
    <2> QED BY <1>11, <2>1
  <1>13. Shuffled(d, e, 4)
    BY <1>2, <1>4, <1>6, ShuffledTwice
  <1>14. IsSorted(e, d)
    BY <1>12, <1>13, ShuffledSorted
  <1> QED BY <1>1, <1>14

\* Eight values
LEMMA SortsEight ==
  ASSUME NEW d \in Seq(Int), Len(d) = 8
  PROVE  IsSorted(Row(Row(Row(d, 0), 1), 2), d)
  <1> DEFINE d1 == BitonicPass(d, 2, 1)
             d2 == BitonicPass(d1, 4, 2)
             d3 == BitonicPass(d2, 4, 1)
             d4 == BitonicPass(d3, 8, 4)
             d5 == BitonicPass(d4, 8, 2)
             e == BitonicPass(d5, 8, 1)
  <1>0. Row(Row(Row(d, 0), 1), 2) = e
    BY Rows
  <1>1. Shuffled(d, d1, 8) /\ Up(d, d1, 1, 2) /\ Up(d, d1, 4, 3) /\ Up(d, d1, 5, 6) /\ Up(d, d1, 8, 7)
    BY Pass_8_2_1
  <1>2. d1 \in Seq(Int) /\ Len(d1) = 8
    BY <1>1 DEF Shuffled
  <1> HIDE DEF d1
  <1>3. Shuffled(d1, d2, 8) /\ Up(d1, d2, 1, 3) /\ Up(d1, d2, 2, 4) /\ Up(d1, d2, 7, 5) /\ Up(d1, d2, 8, 6)
    BY <1>2, Pass_8_4_2
  <1>4. d2 \in Seq(Int) /\ Len(d2) = 8
    BY <1>3 DEF Shuffled
  <1> HIDE DEF d2
  <1>5. Shuffled(d2, d3, 8) /\ Up(d2, d3, 1, 2) /\ Up(d2, d3, 3, 4) /\ Up(d2, d3, 6, 5) /\ Up(d2, d3, 8, 7)
    BY <1>4, Pass_8_4_1
  <1>6. d3 \in Seq(Int) /\ Len(d3) = 8
    BY <1>5 DEF Shuffled
  <1> HIDE DEF d3
  <1>7. Shuffled(d3, d4, 8) /\ Up(d3, d4, 1, 5) /\ Up(d3, d4, 2, 6) /\ Up(d3, d4, 3, 7) /\ Up(d3, d4, 4, 8)
    BY <1>6, Pass_8_8_4
  <1>8. d4 \in Seq(Int) /\ Len(d4) = 8
    BY <1>7 DEF Shuffled
  <1> HIDE DEF d4
  <1>9. Shuffled(d4, d5, 8) /\ Up(d4, d5, 1, 3) /\ Up(d4, d5, 2, 4) /\ Up(d4, d5, 5, 7) /\ Up(d4, d5, 6, 8)
    BY <1>8, Pass_8_8_2
  <1>10. d5 \in Seq(Int) /\ Len(d5) = 8
    BY <1>9 DEF Shuffled
  <1> HIDE DEF d5
  <1>11. Shuffled(d5, e, 8) /\ Up(d5, e, 1, 2) /\ Up(d5, e, 3, 4) /\ Up(d5, e, 5, 6) /\ Up(d5, e, 7, 8)
    BY <1>10, Pass_8_8_1
  <1>12. e \in Seq(Int) /\ Len(e) = 8
    BY <1>11 DEF Shuffled
  <1> HIDE DEF e
  <1>20. d[1] \in Int /\ d[2] \in Int /\ d[3] \in Int /\ d[4] \in Int /\ d[5] \in Int /\ d[6] \in Int /\ d[7] \in Int /\ d[8] \in Int
    <2>1. \A i \in 1 .. 8 : d[i] \in Int
      BY IntValues
    <2> QED BY <2>1
  <1>21. d1[1] \in Int /\ d1[2] \in Int /\ d1[3] \in Int /\ d1[4] \in Int /\ d1[5] \in Int /\ d1[6] \in Int /\ d1[7] \in Int /\ d1[8] \in Int
    <2>1. \A i \in 1 .. 8 : d1[i] \in Int
      BY <1>2, IntValues
    <2> QED BY <2>1
  <1>23. d3[1] \in Int /\ d3[2] \in Int /\ d3[3] \in Int /\ d3[4] \in Int /\ d3[5] \in Int /\ d3[6] \in Int /\ d3[7] \in Int /\ d3[8] \in Int
    <2>1. \A i \in 1 .. 8 : d3[i] \in Int
      BY <1>6, IntValues
    <2> QED BY <2>1
  <1>24. d4[1] \in Int /\ d4[2] \in Int /\ d4[3] \in Int /\ d4[4] \in Int /\ d4[5] \in Int /\ d4[6] \in Int /\ d4[7] \in Int /\ d4[8] \in Int
    <2>1. \A i \in 1 .. 8 : d4[i] \in Int
      BY <1>8, IntValues
    <2> QED BY <2>1
  <1>26. e[1] \in Int /\ e[2] \in Int /\ e[3] \in Int /\ e[4] \in Int /\ e[5] \in Int /\ e[6] \in Int /\ e[7] \in Int /\ e[8] \in Int
    <2>1. \A i \in 1 .. 8 : e[i] \in Int
      BY <1>12, IntValues
    <2> QED BY <2>1
  <1>30. d1[1] <= d1[2] /\ d1[4] <= d1[3] /\ d1[5] <= d1[6] /\ d1[8] <= d1[7]
    BY <1>1, <1>20, UpOrders
  <1>31. d3[1] <= d3[2] /\ d3[2] <= d3[3] /\ d3[3] <= d3[4]
    <2>1. Mixed(d1[1], d1[2], d1[3], d1[4])
      BY <1>21, <1>30, UpDownMixed
    <2> QED BY <1>3, <1>5, <1>21, <2>1, FourInOrder, SMTT(30)
  <1>32. d3[8] <= d3[7] /\ d3[7] <= d3[6] /\ d3[6] <= d3[5]
    <2>1. Mixed(d1[8], d1[7], d1[6], d1[5])
      BY <1>21, <1>30, UpDownMixed
    <2> QED BY <1>3, <1>5, <1>21, <2>1, FourInOrder, SMTT(30)
  <1>33. /\ d4[1] = Lo(d3[1], d3[5]) /\ d4[2] = Lo(d3[2], d3[6]) /\ d4[3] = Lo(d3[3], d3[7]) /\ d4[4] = Lo(d3[4], d3[8])
         /\ d4[5] = Hi(d3[1], d3[5]) /\ d4[6] = Hi(d3[2], d3[6]) /\ d4[7] = Hi(d3[3], d3[7]) /\ d4[8] = Hi(d3[4], d3[8])
    BY <1>7 DEF Up
  <1>34. /\ d4[1] <= d4[5] /\ d4[1] <= d4[6] /\ d4[1] <= d4[7] /\ d4[1] <= d4[8]
         /\ d4[2] <= d4[5] /\ d4[2] <= d4[6] /\ d4[2] <= d4[7] /\ d4[2] <= d4[8]
         /\ d4[3] <= d4[5] /\ d4[3] <= d4[6] /\ d4[3] <= d4[7] /\ d4[3] <= d4[8]
         /\ d4[4] <= d4[5] /\ d4[4] <= d4[6] /\ d4[4] <= d4[7] /\ d4[4] <= d4[8]
         /\ Mixed(d4[1], d4[2], d4[3], d4[4]) /\ Mixed(d4[5], d4[6], d4[7], d4[8])
    <2> DEFINE a1 == d3[1]
               a2 == d3[2]
               a3 == d3[3]
               a4 == d3[4]
               a5 == d3[5]
               a6 == d3[6]
               a7 == d3[7]
               a8 == d3[8]
    <2>1. a1 \in Int /\ a2 \in Int /\ a3 \in Int /\ a4 \in Int /\ a5 \in Int /\ a6 \in Int /\ a7 \in Int /\ a8 \in Int
          /\ a1 <= a2 /\ a2 <= a3 /\ a3 <= a4 /\ a8 <= a7 /\ a7 <= a6 /\ a6 <= a5
      BY <1>23, <1>31, <1>32
    <2> HIDE DEF a1, a2, a3, a4, a5, a6, a7, a8
    <2>2. /\ Lo(a1, a5) <= Hi(a1, a5) /\ Lo(a1, a5) <= Hi(a2, a6) /\ Lo(a1, a5) <= Hi(a3, a7) /\ Lo(a1, a5) <= Hi(a4, a8)
          /\ Lo(a2, a6) <= Hi(a1, a5) /\ Lo(a2, a6) <= Hi(a2, a6) /\ Lo(a2, a6) <= Hi(a3, a7) /\ Lo(a2, a6) <= Hi(a4, a8)
          /\ Lo(a3, a7) <= Hi(a1, a5) /\ Lo(a3, a7) <= Hi(a2, a6) /\ Lo(a3, a7) <= Hi(a3, a7) /\ Lo(a3, a7) <= Hi(a4, a8)
          /\ Lo(a4, a8) <= Hi(a1, a5) /\ Lo(a4, a8) <= Hi(a2, a6) /\ Lo(a4, a8) <= Hi(a3, a7) /\ Lo(a4, a8) <= Hi(a4, a8)
          /\ Mixed(Lo(a1, a5), Lo(a2, a6), Lo(a3, a7), Lo(a4, a8))
          /\ Mixed(Hi(a1, a5), Hi(a2, a6), Hi(a3, a7), Hi(a4, a8))
      BY <2>1, HalfCleaner
    <2>3. /\ d4[1] = Lo(a1, a5) /\ d4[2] = Lo(a2, a6) /\ d4[3] = Lo(a3, a7) /\ d4[4] = Lo(a4, a8)
          /\ d4[5] = Hi(a1, a5) /\ d4[6] = Hi(a2, a6) /\ d4[7] = Hi(a3, a7) /\ d4[8] = Hi(a4, a8)
      BY <1>33 DEF a1, a2, a3, a4, a5, a6, a7, a8
    <2> QED BY <2>2, <2>3
  <1>35. e[1] <= e[2] /\ e[2] <= e[3] /\ e[3] <= e[4] /\ e[4] \in {d4[1], d4[2], d4[3], d4[4]}
    BY <1>9, <1>11, <1>24, <1>34, FourInOrder, SMTT(30)
  <1>36. e[5] <= e[6] /\ e[6] <= e[7] /\ e[7] <= e[8] /\ e[5] \in {d4[5], d4[6], d4[7], d4[8]}
    BY <1>9, <1>11, <1>24, <1>34, FourInOrder, SMTT(30)
  <1>37. e[4] <= e[5]
    BY <1>34, <1>35, <1>36
  <1>38. \A i \in 1 .. 8 - 1 : e[i] <= e[i + 1]
    <2> SUFFICES ASSUME NEW i \in 1 .. 8 - 1 PROVE e[i] <= e[i + 1]
      OBVIOUS
    <2>1. i = 1 \/ i = 2 \/ i = 3 \/ i = 4 \/ i = 5 \/ i = 6 \/ i = 7
      OBVIOUS
    <2> QED BY <1>35, <1>36, <1>37, <2>1
  <1>39. Shuffled(d, e, 8)
    <2>1. Shuffled(d, d2, 8) /\ Shuffled(d2, d4, 8) /\ Shuffled(d4, e, 8)
      BY <1>1, <1>3, <1>5, <1>7, <1>9, <1>11, ShuffledTwice
    <2>2. Shuffled(d, d4, 8)
      BY <2>1, ShuffledTwice
    <2> QED BY <2>1, <2>2, ShuffledTwice
  <1>40. IsSorted(e, d)
    BY <1>38, <1>39, ShuffledSorted
  <1> QED BY <1>0, <1>40

\* bitonic_sort orders any integers, in the sizes it is meant for up to
\* eight, and keeps each as often.
THEOREM BitonicSorts ==
  ASSUME NEW given \in Seq(Int), Len(given) \in PowersOfTwo
  PROVE  IsSorted(bitonic_sort(given), given)
  <1>0. Len(given) = 1 \/ Len(given) = 2 \/ Len(given) = 4 \/ Len(given) = 8
    BY DEF PowersOfTwo
  <1> DEFINE n == Len(given)
  <1>9. bitonic_sort(given) = IF n = 1 THEN given ELSE IF n = 2 THEN Row(given, 0)
                              ELSE IF n = 4 THEN Row(Row(given, 0), 1) ELSE Row(Row(Row(given, 0), 1), 2)
    BY Stages
  <1>10. /\ n = 1 => bitonic_sort(given) = given
         /\ n = 2 => bitonic_sort(given) = Row(given, 0)
         /\ n = 4 => bitonic_sort(given) = Row(Row(given, 0), 1)
         /\ n = 8 => bitonic_sort(given) = Row(Row(Row(given, 0), 1), 2)
    <2> HIDE DEF n
    <2> QED BY <1>9
  <1>1. CASE Len(given) = 1
    <2>1. bitonic_sort(given) = given
      BY <1>1, <1>10
    <2>2. IsSorted(given, given)
      BY <1>1 DEF IsSorted
    <2> QED BY <2>1, <2>2
  <1>2. CASE Len(given) = 2
    <2>1. bitonic_sort(given) = Row(given, 0)
      BY <1>2, <1>10
    <2>2. IsSorted(Row(given, 0), given)
      BY <1>2, SortsTwo
    <2> QED BY <2>1, <2>2
  <1>4. CASE Len(given) = 4
    <2>1. bitonic_sort(given) = Row(Row(given, 0), 1)
      BY <1>4, <1>10
    <2>2. IsSorted(Row(Row(given, 0), 1), given)
      BY <1>4, SortsFour
    <2> QED BY <2>1, <2>2
  <1>8. CASE Len(given) = 8
    <2>1. bitonic_sort(given) = Row(Row(Row(given, 0), 1), 2)
      BY <1>8, <1>10
    <2>2. IsSorted(Row(Row(Row(given, 0), 1), 2), given)
      BY <1>8, SortsEight
    <2> QED BY <2>1, <2>2
  <1> QED BY <1>0, <1>1, <1>2, <1>4, <1>8

----------------------------------------------------------------------------
(* The kernels over every input *)

\* A sequence over S is one over any set that S is part of.
LEMMA SeqWider ==
  ASSUME NEW S, NEW T, S \subseteq T, NEW s \in Seq(S)
  PROVE  s \in Seq(T)
  <1>1. s \in [1 .. Len(s) -> S] /\ Len(s) \in Nat
    BY LenProperties
  <1>2. s \in [1 .. Len(s) -> T]
    BY <1>1
  <1> QED BY <1>1, <1>2, SeqDef

\* Multiplication keeps the order.
LEMMA TimesOrdered ==
  ASSUME NEW a \in Nat, NEW b \in Nat, NEW c \in Nat, a <= b
  PROVE  a * c <= b * c /\ a * c \in Int /\ b * c \in Int
  <1> DEFINE d == b - a
  <1>1. d \in Nat /\ b = a + d
    OBVIOUS
  <1> HIDE DEF d
  <1>2. (a + d) * c = a * c + d * c
    BY <1>1
  <1>3. d * c \in Nat /\ a * c \in Nat /\ (a + d) * c \in Nat
    BY <1>1
  <1> QED BY <1>1, <1>2, <1>3

\* Values up to c add up to c times their number at most.
LEMMA TotalBound ==
  ASSUME NEW c \in Nat, NEW s \in Seq(0 .. c)
  PROVE  Total(s) \in Int /\ Total(s) <= Len(s) * c
  <1> DEFINE n == Len(s)
  <1>1. s \in Seq(Int) /\ n \in Nat /\ \A i \in 1 .. n : s[i] \in 0 .. c
    BY LenProperties, ElementOfSeq
  <1>2. PICK P : IsSums(P, s)
    BY <1>1, SumsExist
  <1>3. P \in [0 .. n -> Int] /\ P[0] = 0 /\ \A i \in 0 .. n - 1 : P[i + 1] = P[i] + s[i + 1]
    BY <1>2 DEF IsSums
  <1> DEFINE T == {i \in 0 .. n : P[i] <= i * c}
  <1>4. 0 \in T
    BY <1>1, <1>3
  <1>5. ASSUME NEW i \in 0 .. n - 1, i \in T PROVE i + 1 \in T
    <2>1. (i + 1) * c = i * c + c /\ i * c \in Int
      OBVIOUS
    <2>2. P[i] \in Int /\ s[i + 1] \in 0 .. c /\ P[i + 1] = P[i] + s[i + 1] /\ P[i] <= i * c /\ i + 1 \in 0 .. n
      BY <1>1, <1>3, <1>5, SMTT(30)
    <2> QED BY <2>1, <2>2
  <1>6. \A i \in 0 .. n : i \in T
    <2> HIDE DEF T
    <2> QED BY <1>1, <1>4, <1>5, TurnInduction
  <1>7. Total(s) = P[n]
    BY <1>1, <1>2, TotalIs
  <1>8. n \in 0 .. n
    BY <1>1
  <1> QED BY <1>3, <1>6, <1>7, <1>8

\* The inputs the kernels are given: short ones over all values, long ones over two.
Given ==
  /\ input \in Seq(0 .. MaxValue)
  /\ Len(input) <= MaxShort \/ (Len(input) <= MaxLong /\ \A i \in DOMAIN input : input[i] <= 1)

\* Inputs stay within their bounds.
LEMMA GivenStays ==
  KernelInit /\ [][KernelNext]_input => []Given
  <1>0. MaxValue \in Nat /\ MaxShort \in Nat \ {0} /\ MaxLong \in Nat
    BY KernelAssumption
  <1>1. KernelInit => Given
    BY <1>0 DEF KernelInit, Given
  <1>2. Given /\ [KernelNext]_input => Given'
    <2> SUFFICES ASSUME Given, [KernelNext]_input PROVE Given'
      OBVIOUS
    <2>1. CASE UNCHANGED input
      BY <2>1 DEF Given
    <2>2. CASE input' = << >>
      BY <1>0, <2>2 DEF Given
    <2>3. ASSUME NEW v \in 0 .. MaxValue, Grow(v) PROVE Given'
      <3> DEFINE n == Len(input)
                 V == 0 .. MaxValue
      <3>1. input \in Seq(V) /\ n \in Nat /\ DOMAIN input = 1 .. n
        BY LenProperties DEF Given
      <3>2. input' = Append(input, v)
        BY <2>3 DEF Grow
      <3>3. input' \in Seq(V) /\ Len(input') = n + 1 /\ input'[n + 1] = v /\ \A i \in 1 .. n : input'[i] = input[i]
        <4> HIDE DEF V
        <4>1. v \in V
          BY DEF V
        <4>2. LET w == Append(input, v)
              IN  w \in Seq(V) /\ Len(w) = n + 1 /\ w[n + 1] = v /\ \A i \in 1 .. n : w[i] = input[i]
          BY <3>1, <4>1, AppendProperties
        <4> HIDE DEF n
        <4> QED BY <3>2, <4>2
      <3>4. CASE n < MaxShort
        BY <1>0, <3>1, <3>3, <3>4 DEF Given
      <3>5. CASE ~(n < MaxShort)
        <4>1. n < MaxLong /\ \A i \in DOMAIN input : input[i] <= 1 /\ v <= 1
          BY <2>3, <3>5 DEF Grow
        <4>2. 1 \in DOMAIN input
          BY <1>0, <3>1, <3>5
        <4>3. v <= 1 /\ \A i \in 1 .. n : input'[i] <= 1
          BY <3>1, <3>3, <4>1, <4>2
        <4>4. DOMAIN input' = 1 .. n + 1
          BY <3>3, LenProperties
        <4>5. \A i \in DOMAIN input' : input'[i] <= 1
          BY <3>1, <3>3, <4>3, <4>4
        <4>6. Len(input') <= MaxLong
          BY <1>0, <3>1, <3>3, <4>1
        <4> QED BY <3>3, <4>5, <4>6 DEF Given
      <3> QED BY <3>4, <3>5
    <2> QED BY <2>1, <2>2, <2>3 DEF KernelNext
  <1> QED BY <1>1, <1>2, PTL

\* The total of an input fits the tables of the partition.
LEMMA TotalFits ==
  ASSUME Given
  PROVE  Total(input) <= 2 * MaxSum + 1
  <1> DEFINE n == Len(input)
             bound == 2 * MaxSum + 1
  <1>0. MaxValue \in Nat /\ MaxShort \in Nat /\ MaxLong \in Nat /\ bound \in Nat /\ bound >= MaxShort * MaxValue /\ bound >= MaxLong
    BY KernelAssumption
  <1>1. input \in Seq(0 .. MaxValue) /\ n \in Nat /\ DOMAIN input = 1 .. n
    BY LenProperties DEF Given
  <1> HIDE DEF bound
  <1>2. CASE n <= MaxShort
    <2>1. Total(input) \in Int /\ Total(input) <= n * MaxValue
      BY <1>0, <1>1, TotalBound
    <2>2. n * MaxValue <= MaxShort * MaxValue /\ n * MaxValue \in Int /\ MaxShort * MaxValue \in Int
      <3> HIDE DEF n
      <3> QED BY <1>0, <1>1, <1>2, TimesOrdered
    <2>3. Total(input) <= bound
      BY <1>0, <2>1, <2>2
    <2> QED BY <2>3 DEF bound
  <1>3. CASE ~(n <= MaxShort)
    <2>1. n <= MaxLong /\ \A i \in 1 .. n : input[i] <= 1
      BY <1>1, <1>3 DEF Given
    <2>2. \A i \in 1 .. n : input[i] \in 0 .. 1
      <3>1. \A i \in 1 .. n : input[i] \in 0 .. MaxValue
        BY <1>1, ElementOfSeq
      <3> QED BY <1>0, <2>1, <3>1
    <2>3. input \in Seq(0 .. 1)
      BY <1>1, <2>2, SeqDef
    <2>4. Total(input) \in Int /\ Total(input) <= n * 1
      BY <2>3, TotalBound
    <2>5. Total(input) <= bound
      BY <1>0, <1>1, <2>1, <2>4
    <2> QED BY <2>5 DEF bound
  <1> QED BY <1>2, <1>3

\* Every sequence kernel computes what it is named for, on every input of the
\* model: SequenceKernelsAgree holds in every behaviour.
THEOREM KernelsAgree ==
  KernelInit /\ [][KernelNext]_input => []SequenceKernelsAgree
  <1>0. MaxValue \in Nat /\ MaxValue <= 3
    BY KernelAssumption
  <1>1. ASSUME Given PROVE SequenceKernelsAgree
    <2> DEFINE n == Len(input)
               m == n \div 2
               V == 0 .. MaxValue
               wt == [i \in 1 .. m |-> input[i] + 1]
    <2>0. V \subseteq Nat /\ V \subseteq Int /\ V \subseteq 0 .. 3
      BY <1>0
    <2>1. input \in Seq(V) /\ n \in Nat /\ DOMAIN input = 1 .. n /\ \A i \in 1 .. n : input[i] \in V
      BY <1>1, LenProperties, ElementOfSeq DEF Given
    <2>2. input \in Seq(Int) /\ input \in Seq(Nat) /\ input \in Seq(0 .. 3)
      <3> HIDE DEF V
      <3> QED BY <2>0, <2>1, SeqWider
    <2> HIDE DEF V
    <2>3. SortsAgree
      <3>1. CASE input # << >>
        BY <2>2, <3>1, BubblesortSorts, BitonicSorts DEF SortsAgree
      <3> QED BY <3>1 DEF SortsAgree
    <2>4. KadaneAgrees /\ PartitionAgrees(input) /\ PalindromeAgrees(input)
      BY <1>1, <2>1, <2>2, GreatestRun, EqualPartition, TotalFits, LongestPalindrome
    <2>5. ASSUME n % 2 = 0 PROVE EditDistanceAgrees(Half(0), Half(1)) /\ KnapsackAgrees(wt, Half(1))
      <3>1. m \in Nat /\ n = 2 * m
        <4> HIDE DEF n
        <4> QED BY <2>1, <2>5
      <3>2. Half(0) = SubSeq(input, 1, m) /\ Half(1) = SubSeq(input, m + 1, n)
        <4> HIDE DEF m
        <4>1. 0 * m + 1 = 1 /\ (0 + 1) * m = m /\ 1 * m + 1 = m + 1 /\ (1 + 1) * m = n
          BY <3>1
        <4>2. Half(0) = SubSeq(input, 0 * m + 1, (0 + 1) * m) /\ Half(1) = SubSeq(input, 1 * m + 1, (1 + 1) * m)
          BY DEF Half, m
        <4> QED BY <4>1, <4>2
      <3> HIDE DEF m
      <3>3. Half(0) \in Seq(V) /\ Half(1) \in Seq(V) /\ Half(1) \in Seq(Nat)
        <4>1. 1 \in Int /\ m \in Int /\ m + 1 \in Int /\ n \in Int
          BY <2>1, <3>1
        <4>2. \A i \in 1 .. m : input[i] \in V
          BY <2>1, <3>1
        <4>3. \A i \in m + 1 .. n : input[i] \in V
          BY <2>1, <3>1
        <4>4. SubSeq(input, 1, m) \in Seq(V) /\ SubSeq(input, m + 1, n) \in Seq(V)
          <5> HIDE DEF n
          <5>1. SubSeq(input, 1, m) \in Seq(V)
            BY <4>1, <4>2, SubSeqProperties
          <5>2. SubSeq(input, m + 1, n) \in Seq(V)
            BY <4>1, <4>3, SubSeqProperties
          <5> QED BY <5>1, <5>2
        <4>5. Half(0) \in Seq(V) /\ Half(1) \in Seq(V)
          BY <3>2, <4>4
        <4> QED BY <2>0, <4>5, SeqWider
      <3>4. Len(Half(1)) = m
        BY <2>1, <3>1, <3>2, SubSeqProperties
      <3>5. wt \in Seq(Nat) /\ Len(wt) = m /\ \A j \in 1 .. m : wt[j] > 0
        <4>1. \A i \in 1 .. m : input[i] + 1 \in Nat /\ input[i] + 1 > 0
          <5> SUFFICES ASSUME NEW i \in 1 .. m PROVE input[i] \in Nat
            OBVIOUS
          <5>1. i \in 1 .. n
            BY <3>1
          <5> QED BY <2>0, <2>1, <5>1
        <4> QED BY <3>1, <4>1, SeqDef
      <3>6. EditDistanceAgrees(Half(0), Half(1))
        BY <3>3, CheapestAlignment
      <3> HIDE DEF wt
      <3>7. KnapsackAgrees(wt, Half(1))
        BY <3>3, <3>4, <3>5, BestPacking
      <3> QED BY <3>6, <3>7
    <2>6. ASSUME NEW k \in 0 .. n
          PROVE  LcseqAgrees(SubSeq(input, 1, k), SubSeq(input, k + 1, n)) /\ LcsubAgrees(SubSeq(input, 1, k), SubSeq(input, k + 1, n))
      <3>1. SubSeq(input, 1, k) \in Seq(V) /\ SubSeq(input, k + 1, n) \in Seq(V)
        BY <2>1, SubSeqProperties
      <3> QED BY <3>1, LongestCommonSubsequence, LongestCommonSubstring
    <2>7. OptimaAgree
      BY <2>4, <2>5, <2>6 DEF OptimaAgree
    <2>8. MatchesAgree(input)
      <3>1. Len(input) <= kMaxTextLen
        BY <1>1, <2>1, KernelAssumption DEF Given
      <3> QED BY <2>2, <3>1, PatternsMatch
    <2> QED BY <2>3, <2>7, <2>8 DEF SequenceKernelsAgree
  <1> QED BY <1>1, GivenStays, PTL
==============================================================================
