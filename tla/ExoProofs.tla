------------------------------ MODULE ExoProofs ------------------------------
(***************************************************************************)
(* The encrypted strings of the EXO library, for every capacity, alphabet  *)
(* and number of strings.  A loop is a recursive function; the proofs give *)
(* its value after every turn in closed form, and LoopsEqual, an induction *)
(* over the turns, shows that the closed form is the function.             *)
(***************************************************************************)
EXTENDS ExoString, SequenceTheorems, WellFoundedInduction, TLAPS

----------------------------------------------------------------------------
(* Induction *)

\* A non-empty set of natural numbers has a least element.
LEMMA LeastElement ==
  ASSUME NEW T \in SUBSET Nat, T # {}
  PROVE  \E x \in T : \A y \in T : x <= y
  <1>1. PICK x \in T : \A y \in T : ~(<<y, x>> \in OpToRel(<, Nat))
    BY NatLessThanWellFounded, WFMin
  <1>2. \A y \in T : ~(y < x)
    BY <1>1 DEF OpToRel
  <1> QED BY <1>2

\* Two functions that start alike and stay alike from turn to turn are one.
LEMMA LoopsEqual ==
  ASSUME NEW n \in Nat, NEW f, NEW g,
         f = [i \in 0 .. n |-> f[i]], g = [i \in 0 .. n |-> g[i]],
         f[0] = g[0], \A i \in 0 .. n - 1 : f[i] = g[i] => f[i + 1] = g[i + 1]
  PROVE  f = g
  <1> DEFINE Differ == {i \in 0 .. n : f[i] # g[i]}
  <1>1. ASSUME Differ # {} PROVE FALSE
    <2>1. Differ \in SUBSET Nat
      OBVIOUS
    <2>2. PICK i \in Differ : \A j \in Differ : i <= j
      <3> HIDE DEF Differ
      <3> QED BY <1>1, <2>1, LeastElement
    <2>3. i \in 1 .. n /\ f[i] # g[i]
      BY <2>2
    <2>4. i - 1 \in 0 .. n - 1 /\ (i - 1) + 1 = i /\ ~(i <= i - 1)
      BY <2>3
    <2>5. f[i - 1] # g[i - 1]
      BY <2>3, <2>4
    <2>6. i - 1 \in Differ
      BY <2>4, <2>5
    <2> QED BY <2>2, <2>4, <2>6
  <1>2. \A i \in 0 .. n : f[i] = g[i]
    BY <1>1
  <1> QED BY <1>2

----------------------------------------------------------------------------
(* Searches *)

\* Least and Greatest are what their names say.
LEMMA LeastIs ==
  ASSUME NEW S \in SUBSET Nat, NEW k \in S, \A j \in S : k <= j
  PROVE  Least(S) = k
  <1> DEFINE m == CHOOSE i \in S : \A j \in S : i <= j
  <1>1. m \in S /\ \A j \in S : m <= j
    OBVIOUS
  <1>2. m = k
    <2> HIDE DEF m
    <2> QED BY <1>1
  <1> QED BY <1>2 DEF Least

\* A greatest element of a set is its Greatest.
LEMMA GreatestIs ==
  ASSUME NEW S \in SUBSET Nat, NEW k \in S, \A j \in S : k >= j
  PROVE  Greatest(S) = k
  <1> DEFINE m == CHOOSE i \in S : \A j \in S : i >= j
  <1>1. m \in S /\ \A j \in S : m >= j
    OBVIOUS
  <1>2. m = k
    <2> HIDE DEF m
    <2> QED BY <1>1
  <1> QED BY <1>2 DEF Greatest

\* The scan that keeps the first match (find, find_first_of).
LEMMA FirstIs ==
  ASSUME NEW x, x.length \in Nat, NEW matches \in [0 .. x.length - 1 -> BOOLEAN]
  PROVE  First(x, matches) = Least({i \in 0 .. x.length - 1 : matches[i]})
  <1> DEFINE n == x.length
             Until(i) == {j \in 0 .. i - 1 : matches[j]}
             c == [i \in 0 .. n |-> [best |-> Least(Until(i)), found |-> Until(i) # {}]]
             Turn(t, i) == [best |-> cmov(matches[i] /\ ~t.found, i, t.best), found |-> t.found \/ matches[i]]
             Start == [best |-> Npos, found |-> FALSE]
             IsLoop(f) == f = [i \in 0 .. n |-> IF i = 0 THEN Start ELSE Turn(f[i - 1], i - 1)]
             loop == CHOOSE f : IsLoop(f)
  <1>1. First(x, matches) = loop[n].best
    BY DEF First
  <1>2. c[0] = Start
    <2>1. Until(0) = {} /\ 0 \in 0 .. n
      OBVIOUS
    <2> HIDE DEF Until
    <2>2. Least(Until(0)) = Npos
      BY <2>1 DEF Least
    <2> QED BY <2>1, <2>2
  <1>3. \A i \in 0 .. n - 1 : c[i + 1] = Turn(c[i], i)
    <2> SUFFICES ASSUME NEW i \in 0 .. n - 1 PROVE c[i + 1] = Turn(c[i], i)
      OBVIOUS
    <2>1. i \in 0 .. n /\ i + 1 \in 0 .. n /\ Until(i) \in SUBSET Nat /\ Until(i + 1) \in SUBSET Nat
      OBVIOUS
    <2>2. Until(i + 1) = Until(i) \cup (IF matches[i] THEN {i} ELSE {})
      OBVIOUS
    <2>3. \A j \in Until(i) : j < i /\ j \in Nat
      OBVIOUS
    <2>4. matches[i] \in BOOLEAN
      OBVIOUS
    <2> HIDE DEF Until
    <2>5. Least(Until(i + 1)) = IF matches[i] /\ Until(i) = {} THEN i ELSE Least(Until(i))
      <3>1. CASE Until(i) = {}
        <4>1. CASE matches[i]
          <5>1. Until(i + 1) = {i} /\ i \in Nat
            BY <2>2, <3>1, <4>1
          <5>2. Least({i}) = i
            BY <5>1, LeastIs
          <5> QED BY <3>1, <4>1, <5>1, <5>2
        <4>2. CASE ~matches[i]
          BY <2>2, <3>1, <4>2
        <4> QED BY <4>1, <4>2
      <3>2. CASE Until(i) # {}
        <4>1. PICK k \in Until(i) : \A j \in Until(i) : k <= j
          BY <2>1, <3>2, LeastElement
        <4>2. \A j \in Until(i + 1) : k <= j
          BY <2>2, <2>3, <4>1
        <4>3. Least(Until(i)) = k /\ Least(Until(i + 1)) = k
          BY <2>1, <2>2, <4>1, <4>2, LeastIs
        <4> QED BY <3>2, <4>3
      <3> QED BY <3>1, <3>2
    <2> QED BY <2>1, <2>2, <2>4, <2>5 DEF cmov
  <1>4. IsLoop(c)
    <2> DEFINE d == [i \in 0 .. n |-> IF i = 0 THEN Start ELSE Turn(c[i - 1], i - 1)]
    <2>1. \A i \in 0 .. n : c[i] = d[i]
      <3> HIDE DEF c, Turn, Start
      <3> QED BY <1>2, <1>3
    <2> QED BY <2>1
  <1>5. IsLoop(loop)
    <2> HIDE DEF IsLoop, c
    <2> QED BY <1>4
  <1>6. loop = c
    <2> HIDE DEF loop, Turn, Start
    <2>1. loop = [i \in 0 .. n |-> loop[i]]
      BY <1>5
    <2>2. loop[0] = Start /\ \A i \in 0 .. n - 1 : loop[i + 1] = Turn(loop[i], i)
      BY <1>5
    <2> HIDE DEF c, IsLoop
    <2>3. c = [i \in 0 .. n |-> c[i]]
      BY DEF c
    <2>4. \A i \in 0 .. n - 1 : loop[i] = c[i] => loop[i + 1] = c[i + 1]
      BY <1>3, <2>2
    <2>5. n \in Nat /\ loop[0] = c[0]
      BY <1>2, <2>2
    <2> HIDE DEF n
    <2> QED BY <2>1, <2>3, <2>4, <2>5, LoopsEqual, ZenonT(60)
  <1>7. n \in 0 .. n /\ Until(n) = {i \in 0 .. x.length - 1 : matches[i]}
    OBVIOUS
  <1>8. c[n].best = Least(Until(n))
    BY <1>7
  <1> HIDE DEF c, loop, Until
  <1> QED
    BY <1>1, <1>6, <1>7, <1>8

\* The scan that keeps the last match (rfind, find_last_of).
LEMMA LastIs ==
  ASSUME NEW x, x.length \in Nat, NEW matches \in [0 .. x.length - 1 -> BOOLEAN]
  PROVE  Last(x, matches) = Greatest({i \in 0 .. x.length - 1 : matches[i]})
  <1> DEFINE n == x.length
             Until(i) == {j \in 0 .. i - 1 : matches[j]}
             c == [i \in 0 .. n |-> Greatest(Until(i))]
             Turn(t, i) == cmov(matches[i], i, t)
             IsLoop(f) == f = [i \in 0 .. n |-> IF i = 0 THEN Npos ELSE Turn(f[i - 1], i - 1)]
             loop == CHOOSE f : IsLoop(f)
  <1>1. Last(x, matches) = loop[n]
    BY DEF Last
  <1>2. c[0] = Npos
    <2>1. Until(0) = {} /\ 0 \in 0 .. n
      OBVIOUS
    <2> HIDE DEF Until
    <2>2. Greatest(Until(0)) = Npos
      BY <2>1 DEF Greatest
    <2> QED BY <2>1, <2>2
  <1>3. \A i \in 0 .. n - 1 : c[i + 1] = Turn(c[i], i)
    <2> SUFFICES ASSUME NEW i \in 0 .. n - 1 PROVE c[i + 1] = Turn(c[i], i)
      OBVIOUS
    <2>1. i \in 0 .. n /\ i + 1 \in 0 .. n /\ i \in Nat /\ Until(i + 1) \in SUBSET Nat
      OBVIOUS
    <2>2. Until(i + 1) = Until(i) \cup (IF matches[i] THEN {i} ELSE {})
      OBVIOUS
    <2>3. \A j \in Until(i) : i >= j
      OBVIOUS
    <2>4. matches[i] \in BOOLEAN
      OBVIOUS
    <2> HIDE DEF Until
    <2>5. CASE matches[i]
      <3>1. i \in Until(i + 1) /\ \A j \in Until(i + 1) : i >= j
        BY <2>1, <2>2, <2>3, <2>5
      <3>2. Greatest(Until(i + 1)) = i
        BY <2>1, <3>1, GreatestIs
      <3> QED BY <2>1, <2>5, <3>2 DEF cmov
    <2>6. CASE ~matches[i]
      <3>1. Until(i + 1) = Until(i)
        BY <2>2, <2>6
      <3> QED BY <2>1, <2>6, <3>1 DEF cmov
    <2> QED BY <2>4, <2>5, <2>6
  <1>4. IsLoop(c)
    <2> DEFINE d == [i \in 0 .. n |-> IF i = 0 THEN Npos ELSE Turn(c[i - 1], i - 1)]
    <2>1. \A i \in 0 .. n : c[i] = d[i]
      <3> HIDE DEF c, Turn
      <3> QED BY <1>2, <1>3
    <2> QED BY <2>1
  <1>5. IsLoop(loop)
    <2> HIDE DEF IsLoop, c
    <2> QED BY <1>4
  <1>6. loop = c
    <2> HIDE DEF loop, Turn
    <2>1. loop = [i \in 0 .. n |-> loop[i]]
      BY <1>5
    <2>2. loop[0] = Npos /\ \A i \in 0 .. n - 1 : loop[i + 1] = Turn(loop[i], i)
      BY <1>5
    <2> HIDE DEF c, IsLoop
    <2>3. c = [i \in 0 .. n |-> c[i]]
      BY DEF c
    <2>4. \A i \in 0 .. n - 1 : loop[i] = c[i] => loop[i + 1] = c[i + 1]
      BY <1>3, <2>2
    <2>5. n \in Nat /\ loop[0] = c[0]
      BY <1>2, <2>2
    <2> HIDE DEF n
    <2> QED BY <2>1, <2>3, <2>4, <2>5, LoopsEqual, ZenonT(60)
  <1>7. n \in 0 .. n /\ Until(n) = {i \in 0 .. x.length - 1 : matches[i]}
    OBVIOUS
  <1>8. c[n] = Greatest(Until(n))
    BY <1>7
  <1> HIDE DEF c, loop, Until
  <1> QED
    BY <1>1, <1>6, <1>7, <1>8

----------------------------------------------------------------------------
(* What the operations compute *)

\* The values a variable takes.  The characters in use are characters of the
\* program, not the fill; those beyond the size may be anything.
IsString(x) ==
  /\ x \in [length : Lengths, chars : [0 .. MaxLength - 1 -> Chars \cup {0}],
            size : Lengths, exception : BOOLEAN]
  /\ x.size <= x.length
  /\ \A k \in 0 .. x.size - 1 : x.chars[k] \in Chars

Str(length, chars, size, exception) ==
  [length |-> length, chars |-> chars, size |-> size, exception |-> exception]

\* The updates of a string, field by field.
LEMMA StrFields ==
  ASSUME NEW l, NEW c, NEW z, NEW e
  PROVE  /\ Str(l, c, z, e).length = l /\ Str(l, c, z, e).chars = c
         /\ Str(l, c, z, e).size = z /\ Str(l, c, z, e).exception = e
  BY DEF Str

\* Assigning the size of a string leaves its other fields.
LEMMA SetSize ==
  ASSUME NEW l, NEW c, NEW z, NEW e, NEW z2
  PROVE  [Str(l, c, z, e) EXCEPT !.size = z2] = Str(l, c, z2, e)
  BY DEF Str

\* Assigning the exception flag leaves the other fields.
LEMMA SetException ==
  ASSUME NEW l, NEW c, NEW z, NEW e, NEW e2
  PROVE  [Str(l, c, z, e) EXCEPT !.exception = e2] = Str(l, c, z, e2)
  BY DEF Str

\* n, cut off at a bound
AtMost(n, bound) == IF n < bound THEN n ELSE bound

\* x after i turns of append's loop
AppendedUpTo(x, rhs, i) ==
  Str(x.length,
      [k \in 0 .. MaxLength - 1 |->
         IF x.size <= k /\ k < x.length /\ k - x.size < AtMost(i, rhs.size)
         THEN rhs.chars[k - x.size] ELSE x.chars[k]],
      AtMost(x.size + AtMost(i, rhs.size), x.length),
      x.exception \/ x.size + AtMost(i, rhs.size) > x.length)

\* Before the first turn of append the string is as it was.
LEMMA AppendStart ==
  ASSUME NEW x, NEW rhs, IsString(x), IsString(rhs)
  PROVE  AppendedUpTo(x, rhs, 0) = x
  <1>1. AtMost(0, rhs.size) = 0 /\ AtMost(x.size, x.length) = x.size
    BY StringAssumption DEF AtMost, IsString, Lengths
  <1>2. [k \in 0 .. MaxLength - 1 |-> x.chars[k]] = x.chars
    BY DEF IsString
  <1>3. AppendedUpTo(x, rhs, 0).chars = x.chars
    BY <1>1, <1>2, StringAssumption DEF AppendedUpTo, Str, IsString, Lengths
  <1> QED BY <1>1, <1>3, StringAssumption DEF AppendedUpTo, Str, IsString, Lengths

AppendChars(l, c, z, rhs, i) ==
  [k \in DOMAIN c |-> IF k < l /\ i < rhs.size /\ z < l /\ z = k THEN rhs.chars[i] ELSE c[k]]

\* The fields one turn of append leaves.
LEMMA AppendTurnIs ==
  ASSUME NEW l, NEW c, NEW z, NEW e, NEW rhs, NEW i
  PROVE  LET t == Str(l, c, z, e)
             y == AppendTurn(t, rhs, i)
             enable == i < rhs.size /\ z < l
         IN  /\ y = Str(y.length, y.chars, y.size, y.exception)
             /\ y.length = l
             /\ y.chars = AppendChars(l, c, z, rhs, i)
             /\ y.size = cmov(enable, z + 1, z)
             /\ y.exception = (e \/ (i < rhs.size /\ ~(z < l)))
  <1> DEFINE t == Str(l, c, z, e)
             enable == i < rhs.size /\ z < l
             w == Write(t, t.size, rhs.chars[i], i < rhs.size /\ t.size < t.length)
             y == AppendTurn(t, rhs, i)
             c2 == AppendChars(l, c, z, rhs, i)
  <1>1. w = Str(l, c2, z, e)
    BY DEF Write, cmov, Str, AppendChars
  <1>2. y = [w EXCEPT !.size = cmov(i < rhs.size /\ t.size < t.length, w.size + 1, w.size),
                      !.exception = w.exception \/ (i < rhs.size /\ ~(t.size < t.length))]
    BY DEF AppendTurn
  <1>3. t.size = z /\ t.length = l
    BY DEF Str
  <1> HIDE DEF t, w, y, c2
  <1>4. y.length = l /\ y.chars = c2 /\ y.size = cmov(enable, z + 1, z)
    BY <1>1, <1>2, <1>3 DEF Str
  <1>5. y.exception = (e \/ (i < rhs.size /\ ~(z < l)))
    BY <1>1, <1>2, <1>3 DEF Str
  <1>6. y = [f \in {"length", "chars", "size", "exception"} |-> y[f]]
    BY <1>1, <1>2 DEF Str
  <1>7. y = Str(y.length, y.chars, y.size, y.exception)
    BY <1>6 DEF Str
  <1> QED BY <1>4, <1>5, <1>7 DEF c2, y, t

\* The closed form of append steps as its loop does.
LEMMA AppendTurns ==
  ASSUME NEW x, NEW rhs, IsString(x), IsString(rhs), NEW i \in 0 .. rhs.length - 1
  PROVE  AppendedUpTo(x, rhs, i + 1) = AppendTurn(AppendedUpTo(x, rhs, i), rhs, i)
  <1> DEFINE chars(j) ==
               [k \in 0 .. MaxLength - 1 |->
                 IF x.size <= k /\ k < x.length /\ k - x.size < AtMost(j, rhs.size)
                 THEN rhs.chars[k - x.size] ELSE x.chars[k]]
             size(j) == AtMost(x.size + AtMost(j, rhs.size), x.length)
             lost(j) == x.size + AtMost(j, rhs.size) > x.length
             c == chars(i)
             z == size(i)
             e == x.exception \/ lost(i)
             enable == i < rhs.size /\ z < x.length
             e2 == e \/ (i < rhs.size /\ ~(z < x.length))
             newchars == AppendChars(x.length, c, z, rhs, i)
             y == AppendTurn(Str(x.length, c, z, e), rhs, i)
  <1>1. x.size \in Nat /\ x.length \in Nat /\ rhs.size \in Nat /\ x.size <= x.length /\ i \in Nat
        /\ MaxLength \in Nat /\ x.length <= MaxLength /\ x.exception \in BOOLEAN
    BY StringAssumption DEF IsString, Lengths
  <1>2. size(i + 1) = cmov(enable, z + 1, z)
    BY <1>1 DEF AtMost, cmov
  <1>3. lost(i + 1) <=> lost(i) \/ (i < rhs.size /\ ~(size(i) < x.length))
    BY <1>1 DEF AtMost
  <1>4. chars(i + 1) = newchars
    <2>1. \A k \in 0 .. MaxLength - 1 : chars(i + 1)[k] = newchars[k]
      BY <1>1 DEF AtMost, AppendChars
    <2> QED BY <2>1 DEF AppendChars
  <1>5. \A j : AppendedUpTo(x, rhs, j) = Str(x.length, chars(j), size(j), x.exception \/ lost(j))
    BY DEF AppendedUpTo
  <1>6. /\ y = Str(y.length, y.chars, y.size, y.exception)
        /\ y.length = x.length
        /\ y.chars = newchars
        /\ y.size = cmov(enable, z + 1, z)
        /\ y.exception = e2
    <2> HIDE DEF c, z, e
    <2> QED BY AppendTurnIs
  <1>7. (x.exception \/ lost(i + 1)) = e2
    <2> HIDE DEF size, lost
    <2> QED BY <1>3, Zenon
  <1> HIDE DEF chars, size, newchars, enable, e2, y
  <1>8. AppendedUpTo(x, rhs, i) = Str(x.length, c, z, e)
    BY <1>5
  <1>9. AppendedUpTo(x, rhs, i + 1) = Str(x.length, chars(i + 1), size(i + 1), e2)
    <2> HIDE DEF lost
    <2> QED BY <1>5, <1>7
  <1>10. AppendedUpTo(x, rhs, i + 1) = y
    BY <1>2, <1>4, <1>6, <1>9
  <1> HIDE DEF e, c, z
  <1> QED BY <1>8, <1>10 DEF y

\* append: after the loop the text of rhs follows, as far as it fits.
LEMMA AppendedIs ==
  ASSUME NEW x, NEW rhs, IsString(x), IsString(rhs)
  PROVE  Appended(x, rhs, FALSE)
           = [AppendedUpTo(x, rhs, rhs.length) EXCEPT !.exception = @ \/ rhs.exception]
  <1> DEFINE n == rhs.length
             c == [i \in 0 .. n |-> AppendedUpTo(x, rhs, i)]
             IsLoop(f) == f = [i \in 0 .. n |->
                                IF i = 0 THEN x
                                ELSE AppendTurn(f[i - 1], IF FALSE THEN f[i - 1] ELSE rhs, i - 1)]
             loop == CHOOSE f : IsLoop(f)
  <1>1. Appended(x, rhs, FALSE) = [loop[n] EXCEPT !.exception = @ \/ rhs.exception]
    BY DEF Appended
  <1>2. c[0] = x /\ n \in Nat
    BY AppendStart, StringAssumption DEF IsString, Lengths
  <1>3. \A i \in 0 .. n - 1 : c[i + 1] = AppendTurn(c[i], rhs, i)
    <2> SUFFICES ASSUME NEW i \in 0 .. n - 1 PROVE c[i + 1] = AppendTurn(c[i], rhs, i)
      OBVIOUS
    <2>1. i \in 0 .. n /\ i + 1 \in 0 .. n
      BY <1>2
    <2>2. c[i] = AppendedUpTo(x, rhs, i) /\ c[i + 1] = AppendedUpTo(x, rhs, i + 1)
      BY <2>1
    <2> QED BY <2>2, AppendTurns
  <1>4. IsLoop(c)
    <2> DEFINE d == [i \in 0 .. n |->
                       IF i = 0 THEN x ELSE AppendTurn(c[i - 1], IF FALSE THEN c[i - 1] ELSE rhs, i - 1)]
    <2>1. \A i \in 0 .. n : c[i] = d[i]
      <3> HIDE DEF c
      <3> QED BY <1>2, <1>3
    <2> QED BY <2>1
  <1>5. IsLoop(loop)
    <2> HIDE DEF IsLoop, c
    <2> QED BY <1>4
  <1>6. loop = c
    <2> HIDE DEF loop
    <2>1. loop = [i \in 0 .. n |-> loop[i]]
      BY <1>5
    <2>2. loop[0] = x /\ \A i \in 0 .. n - 1 : loop[i + 1] = AppendTurn(loop[i], rhs, i)
      BY <1>2, <1>5
    <2> HIDE DEF c, IsLoop
    <2>3. c = [i \in 0 .. n |-> c[i]]
      BY DEF c
    <2>4. \A i \in 0 .. n - 1 : loop[i] = c[i] => loop[i + 1] = c[i + 1]
      BY <1>3, <2>2
    <2>5. n \in Nat /\ loop[0] = c[0]
      BY <1>2, <2>2
    <2> HIDE DEF n
    <2> QED BY <2>1, <2>3, <2>4, <2>5, LoopsEqual
  <1>7. c[n] = AppendedUpTo(x, rhs, n)
    BY <1>2
  <1> HIDE DEF c, loop
  <1> QED BY <1>1, <1>6, <1>7

\* Arithmetic on size_t is exact below its limit.
LEMMA WrapIs ==
  ASSUME NEW n \in 0 .. Npos
  PROVE  Wrap(n) = n /\ Wrap(n + Npos + 1) = n
  <1>1. Npos + 1 \in Nat /\ Npos + 1 > 0 /\ n < Npos + 1
    BY StringAssumption
  <1>2. \A m \in Nat, d \in Nat : m < d => m % d = m /\ (m + d) % d = m
    OBVIOUS
  <1>3. n \in Nat /\ n + Npos + 1 = n + (Npos + 1)
    BY StringAssumption
  <1> QED BY <1>1, <1>2, <1>3 DEF Wrap

\* x.substr(pos, count) after i turns of its loop
SubStringUpTo(x, pos, count, i) ==
  Str(count,
      [k \in 0 .. MaxLength - 1 |-> IF k < i /\ pos + k < x.size THEN x.chars[pos + k] ELSE 0],
      IF pos < x.size THEN AtMost(i, x.size - pos) ELSE 0,
      FALSE)

\* Before the first turn of substr the result is a new string.
LEMMA SubStringStart ==
  ASSUME NEW x, IsString(x), NEW pos \in Nat, NEW count \in Lengths
  PROVE  SubStringUpTo(x, pos, count, 0) = New(count)
  <1>1. x.size \in Nat /\ MaxLength \in Nat
    BY StringAssumption DEF IsString, Lengths
  <1>2. (IF pos < x.size THEN AtMost(0, x.size - pos) ELSE 0) = 0
    BY <1>1 DEF AtMost
  <1>3. [k \in 0 .. MaxLength - 1 |-> IF k < 0 /\ pos + k < x.size THEN x.chars[pos + k] ELSE 0]
          = [k \in 0 .. MaxLength - 1 |-> 0]
    BY <1>1
  <1> QED BY <1>2, <1>3 DEF SubStringUpTo, New, Str

\* What one turn does to the characters.
SubStringChars(l, c, x, pos, i) ==
  [k \in DOMAIN c |-> IF k < l /\ pos + i < x.size /\ i = k THEN CharOrZero(x, pos + i) ELSE c[k]]

\* The fields one turn of substr leaves when its position does not wrap.
LEMMA SubStringTurnIs ==
  ASSUME NEW l, NEW c, NEW z, NEW e, NEW x, NEW pos, NEW i, Wrap(pos + i) = pos + i
  PROVE  SubStringTurn(Str(l, c, z, e), x, pos, i)
           = Str(l, SubStringChars(l, c, x, pos, i), cmov(pos + i < x.size, z + 1, z), e)
  <1> DEFINE t == Str(l, c, z, e)
             w == Write(t, i, CharOrZero(x, Wrap(pos + i)), Wrap(pos + i) < x.size)
             c2 == SubStringChars(l, c, x, pos, i)
  <1>1. w = Str(l, c2, z, e)
    BY DEF Write, cmov, Str, SubStringChars
  <1>2. SubStringTurn(t, x, pos, i) = [w EXCEPT !.size = cmov(Wrap(pos + i) < x.size, w.size + 1, w.size)]
    BY DEF SubStringTurn
  <1>3. w.size = z
    <2> HIDE DEF c2, w
    <2> QED BY <1>1 DEF Str
  <1> DEFINE z2 == cmov(pos + i < x.size, z + 1, z)
  <1> HIDE DEF w, c2, z2
  <1>4. [Str(l, c2, z, e) EXCEPT !.size = z2] = Str(l, c2, z2, e)
    BY SetSize
  <1> QED BY <1>1, <1>2, <1>3, <1>4 DEF c2, z2

\* The closed form of substr steps as its loop does.
LEMMA SubStringTurns ==
  ASSUME NEW x, IsString(x), NEW pos \in Nat, pos + MaxLength <= Npos,
         NEW count \in Lengths, NEW i \in 0 .. count - 1
  PROVE  SubStringUpTo(x, pos, count, i + 1) = SubStringTurn(SubStringUpTo(x, pos, count, i), x, pos, i)
  <1> DEFINE chars(j) == [k \in 0 .. MaxLength - 1 |->
                            IF k < j /\ pos + k < x.size THEN x.chars[pos + k] ELSE 0]
             size(j) == IF pos < x.size THEN AtMost(j, x.size - pos) ELSE 0
             c == chars(i)
             z == size(i)
             e == FALSE
  <1>1. /\ x.size \in Nat /\ x.length \in Nat /\ x.size <= x.length /\ i \in Nat /\ count \in Nat
        /\ MaxLength \in Nat /\ count <= MaxLength /\ Npos \in Nat
    BY StringAssumption DEF IsString, Lengths
  <1>2. Wrap(pos + i) = pos + i
    <2>1. pos + i \in 0 .. Npos
      BY <1>1
    <2> QED BY <2>1, WrapIs
  <1>3. size(i + 1) = cmov(pos + i < x.size, z + 1, z)
    BY <1>1 DEF AtMost, cmov
  <1>4. chars(i + 1) = SubStringChars(count, c, x, pos, i)
    <2>1. \A k \in 0 .. MaxLength - 1 : chars(i + 1)[k] = SubStringChars(count, c, x, pos, i)[k]
      BY <1>1 DEF CharOrZero, SubStringChars
    <2> QED BY <2>1 DEF SubStringChars
  <1>5. \A j : SubStringUpTo(x, pos, count, j) = Str(count, chars(j), size(j), e)
    BY DEF SubStringUpTo
  <1> HIDE DEF chars, size
  <1>6. SubStringUpTo(x, pos, count, i) = Str(count, c, z, e)
    BY <1>5
  <1>7. SubStringUpTo(x, pos, count, i + 1) = Str(count, chars(i + 1), size(i + 1), e)
    BY <1>5
  <1> HIDE DEF c, z, e
  <1>8. SubStringTurn(Str(count, c, z, e), x, pos, i)
          = Str(count, SubStringChars(count, c, x, pos, i), cmov(pos + i < x.size, z + 1, z), e)
    BY <1>2, SubStringTurnIs
  <1> QED BY <1>3, <1>4, <1>6, <1>7, <1>8

\* substr: the characters from pos on, at most count of them.
LEMMA SubStringIs ==
  ASSUME NEW x, IsString(x), NEW pos \in Nat, pos + MaxLength <= Npos, NEW count \in Lengths
  PROVE  SubString(x, pos, count)
           = [SubStringUpTo(x, pos, count, count) EXCEPT !.exception = x.exception]
  <1> DEFINE c == [i \in 0 .. count |-> SubStringUpTo(x, pos, count, i)]
             IsLoop(f) == f = [i \in 0 .. count |->
                                IF i = 0 THEN New(count) ELSE SubStringTurn(f[i - 1], x, pos, i - 1)]
             loop == CHOOSE f : IsLoop(f)
  <1>1. SubString(x, pos, count) = [loop[count] EXCEPT !.exception = x.exception]
    BY DEF SubString
  <1>2. c[0] = New(count) /\ count \in Nat
    BY SubStringStart, StringAssumption DEF Lengths
  <1>3. \A i \in 0 .. count - 1 : c[i + 1] = SubStringTurn(c[i], x, pos, i)
    <2> SUFFICES ASSUME NEW i \in 0 .. count - 1 PROVE c[i + 1] = SubStringTurn(c[i], x, pos, i)
      OBVIOUS
    <2>1. i \in 0 .. count /\ i + 1 \in 0 .. count
      BY <1>2
    <2>2. c[i] = SubStringUpTo(x, pos, count, i) /\ c[i + 1] = SubStringUpTo(x, pos, count, i + 1)
      BY <2>1
    <2> QED BY <2>2, SubStringTurns
  <1>4. IsLoop(c)
    <2> DEFINE d == [i \in 0 .. count |->
                       IF i = 0 THEN New(count) ELSE SubStringTurn(c[i - 1], x, pos, i - 1)]
    <2>1. \A i \in 0 .. count : c[i] = d[i]
      <3> HIDE DEF c
      <3> QED BY <1>2, <1>3
    <2> QED BY <2>1
  <1>5. IsLoop(loop)
    <2> HIDE DEF IsLoop, c
    <2> QED BY <1>4
  <1>6. loop = c
    <2> HIDE DEF loop
    <2>1. loop = [i \in 0 .. count |-> loop[i]]
      BY <1>5
    <2>2. loop[0] = New(count) /\ \A i \in 0 .. count - 1 : loop[i + 1] = SubStringTurn(loop[i], x, pos, i)
      BY <1>2, <1>5
    <2> HIDE DEF c, IsLoop
    <2>3. c = [i \in 0 .. count |-> c[i]]
      BY DEF c
    <2>4. \A i \in 0 .. count - 1 : loop[i] = c[i] => loop[i + 1] = c[i + 1]
      BY <1>3, <2>2
    <2>5. count \in Nat /\ loop[0] = c[0]
      BY <1>2, <2>2
    <2> QED BY <2>1, <2>3, <2>4, <2>5, LoopsEqual
  <1>7. c[count] = SubStringUpTo(x, pos, count, count)
    BY <1>2
  <1> HIDE DEF c, loop
  <1> QED BY <1>1, <1>6, <1>7

----------------------------------------------------------------------------
(* The value of every operation *)

\* The fields of a well-formed string.
LEMMA StringShape ==
  ASSUME NEW x, IsString(x)
  PROVE  /\ x.length \in Lengths /\ x.size \in Lengths /\ x.size \in Nat /\ x.length \in Nat
         /\ x.size <= x.length /\ x.length <= MaxLength /\ x.exception \in BOOLEAN
         /\ x.chars \in [0 .. MaxLength - 1 -> Chars \cup {0}]
         /\ \A k \in 0 .. x.size - 1 : x.chars[k] \in Chars
         /\ MaxLength \in Nat
  BY StringAssumption DEF IsString, Lengths

\* What makes a string well formed.
LEMMA StrIsString ==
  ASSUME NEW l \in Lengths, NEW c \in [0 .. MaxLength - 1 -> Chars \cup {0}], NEW z \in Lengths,
         NEW e \in BOOLEAN, z <= l, \A k \in 0 .. z - 1 : c[k] \in Chars
  PROVE  IsString(Str(l, c, z, e))
  BY DEF IsString, Str

\* y is x with the characters of rhs behind its own, as far as they fit.
Extends(y, x, rhs) ==
  /\ IsString(y)
  /\ y.length = x.length
  /\ y.size = AtMost(x.size + rhs.size, x.length)
  /\ \A k \in 0 .. y.size - 1 :
       y.chars[k] = IF k < x.size THEN x.chars[k] ELSE rhs.chars[k - x.size]
  /\ y.exception <=> x.exception \/ x.size + rhs.size > x.length \/ rhs.exception

\* append
LEMMA AppendedShape ==
  ASSUME NEW x, NEW rhs, IsString(x), IsString(rhs)
  PROVE  Extends(Appended(x, rhs, FALSE), x, rhs)
  <1> DEFINE y == Appended(x, rhs, FALSE)
             c == [k \in 0 .. MaxLength - 1 |->
                    IF x.size <= k /\ k < x.length /\ k - x.size < rhs.size
                    THEN rhs.chars[k - x.size] ELSE x.chars[k]]
             z == AtMost(x.size + rhs.size, x.length)
             lost == x.size + rhs.size > x.length
             e == x.exception \/ lost
             e2 == e \/ rhs.exception
  <1>1. AtMost(rhs.length, rhs.size) = rhs.size
    BY StringShape DEF AtMost
  <1>2. AppendedUpTo(x, rhs, rhs.length) = Str(x.length, c, z, e)
    BY <1>1 DEF AppendedUpTo
  <1>3. c \in [0 .. MaxLength - 1 -> Chars \cup {0}]
    <2>1. \A k \in 0 .. MaxLength - 1 : x.size <= k => k - x.size \in 0 .. MaxLength - 1
      BY StringShape
    <2>2. x.chars \in [0 .. MaxLength - 1 -> Chars \cup {0}] /\ rhs.chars \in [0 .. MaxLength - 1 -> Chars \cup {0}]
      BY StringShape
    <2> QED BY <2>1, <2>2
  <1>4. z \in Lengths /\ z <= x.length /\ z \in Nat /\ z <= x.size + rhs.size
    BY StringShape DEF AtMost, Lengths
  <1>5. \A k \in 0 .. z - 1 : c[k] = IF k < x.size THEN x.chars[k] ELSE rhs.chars[k - x.size]
    <2> SUFFICES ASSUME NEW k \in 0 .. z - 1
                 PROVE  c[k] = IF k < x.size THEN x.chars[k] ELSE rhs.chars[k - x.size]
      OBVIOUS
    <2>1. k \in 0 .. MaxLength - 1 /\ k < x.length /\ (~(k < x.size) => x.size <= k /\ k - x.size < rhs.size)
      <3> HIDE DEF z
      <3> QED BY <1>4, StringShape
    <2> QED BY <2>1, StringShape
  <1>6. \A k \in 0 .. z - 1 : c[k] \in Chars
    <2> HIDE DEF c, z
    <2> SUFFICES ASSUME NEW k \in 0 .. z - 1 PROVE c[k] \in Chars
      OBVIOUS
    <2>1. CASE k < x.size
      <3>1. k \in 0 .. x.size - 1
        BY <1>4, <2>1, StringShape
      <3> QED BY <1>5, <2>1, <3>1, StringShape
    <2>2. CASE ~(k < x.size)
      <3>1. k - x.size \in 0 .. rhs.size - 1
        BY <1>4, <2>2, StringShape
      <3> QED BY <1>5, <2>2, <3>1, StringShape
    <2> QED BY <2>1, <2>2
  <1> HIDE DEF c, z, lost
  <1>7. e2 \in BOOLEAN
    BY Zenon
  <1> HIDE DEF e
  <1> DEFINE t == AppendedUpTo(x, rhs, rhs.length)
  <1>8. y = [t EXCEPT !.exception = @ \/ rhs.exception]
    BY AppendedIs
  <1>9. y = Str(x.length, c, z, e2)
    <2>1. t.exception = e
      BY <1>2, StrFields
    <2>2. y = [t EXCEPT !.exception = e2]
      <3> HIDE DEF y, t
      <3> QED BY <1>8, <2>1
    <2> HIDE DEF e2, y
    <2>3. [Str(x.length, c, z, e) EXCEPT !.exception = e2] = Str(x.length, c, z, e2)
      BY SetException
    <2> QED BY <1>2, <2>2, <2>3
  <1> HIDE DEF y, e2
  <1>10. IsString(y) /\ y.length = x.length /\ y.size = z /\ y.chars = c /\ y.exception = e2
    BY <1>3, <1>4, <1>6, <1>7, <1>9, StrIsString, StrFields, StringShape
  <1> QED BY <1>5, <1>10 DEF y, z, e2, e, lost, Extends

\* The constructor.
LEMMA NewShape ==
  ASSUME NEW n \in Lengths
  PROVE  IsString(New(n)) /\ New(n).length = n /\ New(n).size = 0 /\ New(n).exception = FALSE
  <1>1. New(n).length = n /\ New(n).size = 0 /\ New(n).exception = FALSE
    BY DEF New
  <1>2. 0 \in Lengths /\ 0 <= n /\ 0 .. 0 - 1 = {}
    BY StringAssumption DEF Lengths
  <1>3. New(n) = Str(n, [k \in 0 .. MaxLength - 1 |-> 0], 0, FALSE)
    BY DEF New, Str
  <1>4. IsString(New(n))
    BY <1>1, <1>2 DEF IsString, New
  <1> QED BY <1>1, <1>4

\* push_back: the character follows if it fits.
LEMMA PushedShape ==
  ASSUME NEW x, IsString(x), NEW ch \in Chars
  PROVE  LET y == Pushed(x, ch)
         IN  /\ IsString(y)
             /\ y.length = x.length
             /\ y.size = AtMost(x.size + 1, x.length)
             /\ \A k \in 0 .. y.size - 1 : y.chars[k] = IF k < x.size THEN x.chars[k] ELSE ch
             /\ y.exception <=> x.exception \/ x.size + 1 > x.length
  <1> DEFINE y == Pushed(x, ch)
             fits == x.size < x.length
             c == [k \in DOMAIN x.chars |-> cmov(k < x.length /\ fits /\ x.size = k, ch, x.chars[k])]
             w == Write(x, x.size, ch, fits)
             z == cmov(fits, x.size + 1, x.size)
             e == x.exception \/ ~fits
  <1>1. w = Str(x.length, c, x.size, x.exception)
    <2>1. w = [x EXCEPT !.chars = c]
      BY DEF Write
    <2> HIDE DEF w, c
    <2> QED BY <2>1 DEF IsString, Str
  <1>2. y = [w EXCEPT !.size = cmov(fits, w.size + 1, w.size), !.exception = w.exception \/ ~fits]
    BY DEF Pushed
  <1>3. y = Str(x.length, c, z, e)
    <2> HIDE DEF w, c, y
    <2>1. w.size = x.size /\ w.exception = x.exception
      BY <1>1, StrFields
    <2>2. y = [w EXCEPT !.size = z, !.exception = e]
      BY <1>2, <2>1
    <2> HIDE DEF z, e
    <2>3. y.length = x.length /\ y.chars = c /\ y.size = z /\ y.exception = e
      BY <1>1, <2>2 DEF Str
    <2>4. y = [f \in {"length", "chars", "size", "exception"} |-> y[f]]
      BY <1>1, <2>2 DEF Str
    <2> QED BY <2>3, <2>4 DEF Str
  <1>4. z = AtMost(x.size + 1, x.length) /\ z \in Lengths /\ z <= x.length /\ z \in Nat /\ z <= x.size + 1
    BY StringShape DEF AtMost, Lengths, cmov
  <1>5. \A k \in 0 .. z - 1 : c[k] = IF k < x.size THEN x.chars[k] ELSE ch
    BY <1>4, StringShape DEF cmov
  <1>6. c \in [0 .. MaxLength - 1 -> Chars \cup {0}]
    BY StringShape DEF cmov
  <1>7. \A k \in 0 .. z - 1 : c[k] \in Chars
    <2> HIDE DEF c, z
    <2> QED BY <1>4, <1>5, StringShape
  <1>8. e \in BOOLEAN /\ (e <=> x.exception \/ x.size + 1 > x.length)
    <2>1. fits <=> ~(x.size + 1 > x.length)
      BY StringShape
    <2> HIDE DEF fits
    <2> QED BY <2>1, Zenon
  <1> HIDE DEF y, c, z, e
  <1>9. IsString(Str(x.length, c, z, e))
    BY <1>4, <1>6, <1>7, <1>8, StrIsString, StringShape
  <1>10. IsString(y) /\ y.length = x.length /\ y.size = z /\ y.chars = c /\ y.exception = e
    BY <1>3, <1>9, StrFields
  <1> QED BY <1>4, <1>5, <1>8, <1>10 DEF y

\* substr
LEMMA SubStringShape ==
  ASSUME NEW x, IsString(x), NEW pos \in Nat, pos + MaxLength <= Npos, NEW count \in Lengths
  PROVE  LET y == SubString(x, pos, count)
         IN  /\ IsString(y)
             /\ y.length = count
             /\ y.size = IF pos < x.size THEN AtMost(count, x.size - pos) ELSE 0
             /\ \A k \in 0 .. y.size - 1 : y.chars[k] = x.chars[pos + k]
             /\ y.exception = x.exception
  <1> DEFINE y == SubString(x, pos, count)
             c == [k \in 0 .. MaxLength - 1 |->
                    IF k < count /\ pos + k < x.size THEN x.chars[pos + k] ELSE 0]
             z == IF pos < x.size THEN AtMost(count, x.size - pos) ELSE 0
             e == FALSE
             t == SubStringUpTo(x, pos, count, count)
  <1>1. t = Str(count, c, z, e)
    BY DEF SubStringUpTo
  <1>2. c \in [0 .. MaxLength - 1 -> Chars \cup {0}]
    <2>1. \A k \in 0 .. MaxLength - 1 : pos + k < x.size => pos + k \in 0 .. MaxLength - 1
      BY StringShape
    <2> QED BY <2>1, StringShape
  <1>3. z \in Lengths /\ z <= count /\ z \in Nat /\ (z > 0 => z <= x.size - pos)
    BY StringShape DEF AtMost, Lengths
  <1>4. \A k \in 0 .. z - 1 : c[k] = x.chars[pos + k] /\ pos + k \in 0 .. x.size - 1
    <2> SUFFICES ASSUME NEW k \in 0 .. z - 1
                 PROVE  c[k] = x.chars[pos + k] /\ pos + k \in 0 .. x.size - 1
      OBVIOUS
    <2>1. k \in 0 .. MaxLength - 1 /\ k < count /\ pos + k < x.size /\ pos + k \in 0 .. x.size - 1
      <3> HIDE DEF z
      <3> QED BY <1>3, StringShape DEF Lengths
    <2> QED BY <2>1
  <1>5. \A k \in 0 .. z - 1 : c[k] \in Chars
    <2> HIDE DEF c, z
    <2> QED BY <1>4, StringShape
  <1>6. y = [t EXCEPT !.exception = x.exception]
    BY SubStringIs
  <1> HIDE DEF y, c, z, e, t
  <1>7. y = Str(count, c, z, x.exception)
    BY <1>1, <1>6, SetException
  <1>8. IsString(y) /\ y.length = count /\ y.size = z /\ y.chars = c /\ y.exception = x.exception
    BY <1>2, <1>3, <1>5, <1>7, StrIsString, StrFields, StringShape
  <1> QED BY <1>4, <1>8 DEF y, z

\* operator+: both texts, whole.
LEMMA SumShape ==
  ASSUME NEW l, NEW r, IsString(l), IsString(r), l.length + r.length <= MaxLength
  PROVE  LET y == Sum(l, r)
         IN  /\ IsString(y)
             /\ y.length = l.length + r.length
             /\ y.size = l.size + r.size
             /\ \A k \in 0 .. y.size - 1 :
                  y.chars[k] = IF k < l.size THEN l.chars[k] ELSE r.chars[k - l.size]
             /\ y.exception <=> l.exception \/ r.exception
  <1> DEFINE n == l.length + r.length
             a == New(n)
             b == Appended(a, l, FALSE)
             t == Appended(b, r, FALSE)
             y == Sum(l, r)
             e == t.exception \/ l.exception \/ r.exception
  <1>1. n \in Lengths
    BY StringShape DEF Lengths
  <1>2. IsString(a) /\ a.length = n /\ a.size = 0 /\ a.exception = FALSE
    <2> HIDE DEF n
    <2> QED BY <1>1, NewShape
  <1> HIDE DEF a
  <1>3. Extends(b, a, l) /\ IsString(b)
    <2>1. Extends(b, a, l)
      BY <1>2, AppendedShape
    <2> HIDE DEF b
    <2> QED BY <2>1 DEF Extends
  <1> HIDE DEF b
  <1>4. Extends(t, b, r) /\ IsString(t)
    BY <1>3, AppendedShape DEF Extends
  <1> HIDE DEF t
  <1>5. /\ l.size \in Nat /\ l.length \in Nat /\ l.size <= l.length
        /\ r.size \in Nat /\ r.length \in Nat /\ r.size <= r.length
    BY StringShape
  <1>6. b.size = l.size /\ ~(a.size + l.size > a.length) /\ b.length = n
    BY <1>2, <1>3, <1>5 DEF AtMost, Extends
  <1>7. t.size = l.size + r.size /\ ~(b.size + r.size > b.length) /\ t.length = n
    BY <1>4, <1>5, <1>6 DEF AtMost, Extends
  <1>8. \A k \in 0 .. t.size - 1 : t.chars[k] = IF k < l.size THEN l.chars[k] ELSE r.chars[k - l.size]
    <2>1. \A k \in 0 .. l.size - 1 : b.chars[k] = l.chars[k]
      BY <1>2, <1>3, <1>5, <1>6 DEF Extends
    <2>2. \A k \in 0 .. t.size - 1 : k < l.size => k \in 0 .. l.size - 1
      BY <1>5, <1>7
    <2> QED BY <1>4, <1>6, <2>1, <2>2 DEF Extends
  <1>9. e \in BOOLEAN /\ (e <=> l.exception \/ r.exception)
    BY <1>2, <1>3, <1>4, <1>6, <1>7, Zenon DEF Extends
  <1>10. y = [t EXCEPT !.exception = e]
    BY DEF Sum, a, b, t
  <1> HIDE DEF e, y
  <1>11. t = Str(t.length, t.chars, t.size, t.exception)
    BY <1>4 DEF IsString, Str
  <1>12. y = Str(n, t.chars, t.size, e)
    BY <1>7, <1>10, <1>11, SetException
  <1>13. IsString(Str(n, t.chars, t.size, e))
    BY <1>1, <1>4, <1>7, <1>9, StrIsString, StringShape
  <1>14. IsString(y) /\ y.length = n /\ y.size = t.size /\ y.chars = t.chars /\ y.exception = e
    BY <1>12, <1>13, StrFields
  <1> QED BY <1>7, <1>8, <1>9, <1>14 DEF y

----------------------------------------------------------------------------
(* Texts *)

\* The text of a string is a sequence of its characters in use.
LEMMA TextIs ==
  ASSUME NEW x, IsString(x)
  PROVE  /\ Text(x) \in Seq(Chars) /\ Len(Text(x)) = x.size
         /\ \A i \in 1 .. x.size : Text(x)[i] = x.chars[i - 1]
  <1>1. \A i \in 1 .. x.size : x.chars[i - 1] \in Chars
    <2> SUFFICES ASSUME NEW i \in 1 .. x.size PROVE x.chars[i - 1] \in Chars
      OBVIOUS
    <2>1. i - 1 \in 0 .. x.size - 1
      BY StringShape
    <2> QED BY <2>1, StringShape
  <1>2. x.size \in Nat
    BY StringShape
  <1>3. Text(x) \in [1 .. x.size -> Chars]
    BY <1>1 DEF Text
  <1>4. \A i \in 1 .. x.size : Text(x)[i] = x.chars[i - 1]
    BY DEF Text
  <1> QED BY <1>2, <1>3, <1>4

\* A text with the length and the characters of a sequence is that sequence.
LEMMA TextEqual ==
  ASSUME NEW x, IsString(x), NEW t \in Seq(Chars), Len(t) = x.size,
         \A k \in 0 .. x.size - 1 : x.chars[k] = t[k + 1]
  PROVE  Text(x) = t
  <1>1. \A i \in 1 .. x.size : Text(x)[i] = t[i]
    <2> SUFFICES ASSUME NEW i \in 1 .. x.size PROVE Text(x)[i] = t[i]
      OBVIOUS
    <2>1. i - 1 \in 0 .. x.size - 1 /\ (i - 1) + 1 = i
      BY StringShape
    <2> QED BY <2>1, TextIs
  <1> QED BY <1>1, TextIs, SeqEqual

----------------------------------------------------------------------------
(* What an operation stores is what BoundedString stores *)

View(x) == [cap |-> x.length, text |-> Text(x), bad |-> x.exception]

\* Fit keeps the characters the capacity has room for.
LEMMA FitIs ==
  ASSUME NEW t \in Seq(Chars), NEW cap \in Nat
  PROVE  /\ Holds!Fit(t, cap) \in Seq(Chars)
         /\ Len(Holds!Fit(t, cap)) = AtMost(Len(t), cap)
         /\ \A i \in 1 .. AtMost(Len(t), cap) : Holds!Fit(t, cap)[i] = t[i]
  <1> DEFINE m == AtMost(Len(t), cap)
  <1>1. m \in Nat /\ m <= Len(t) /\ Len(t) \in Nat
    BY LenProperties DEF AtMost
  <1>2. \A i \in 1 .. m : t[i] \in Chars
    BY <1>1, LenProperties
  <1>3. Holds!Fit(t, cap) = SubSeq(t, 1, m)
    BY DEF Holds!Fit, AtMost
  <1> HIDE DEF m
  <1>4. /\ SubSeq(t, 1, m) \in Seq(Chars)
        /\ Len(SubSeq(t, 1, m)) = IF 1 <= m THEN m - 1 + 1 ELSE 0
        /\ \A i \in 1 .. m - 1 + 1 : SubSeq(t, 1, m)[i] = t[1 + i - 1]
    BY <1>1, <1>2, SubSeqProperties
  <1> QED BY <1>1, <1>3, <1>4 DEF m

\* A string that holds the part of t that fits, and whose flag tells whether
\* some of it did not, shows what BoundedString holds.
LEMMA HeldIs ==
  ASSUME NEW y, IsString(y), NEW t \in Seq(Chars), NEW b \in BOOLEAN,
         y.size = AtMost(Len(t), y.length),
         \A k \in 0 .. y.size - 1 : y.chars[k] = t[k + 1],
         y.exception <=> b \/ Len(t) > y.length
  PROVE  View(y) = Holds!Held(y.length, t, b)
  <1> DEFINE f == Holds!Fit(t, y.length)
  <1>1. f \in Seq(Chars) /\ Len(f) = y.size /\ \A i \in 1 .. y.size : f[i] = t[i]
    <2>1. y.length \in Nat
      BY StringShape
    <2>2. /\ f \in Seq(Chars) /\ Len(f) = AtMost(Len(t), y.length)
          /\ \A i \in 1 .. AtMost(Len(t), y.length) : f[i] = t[i]
      BY <2>1, FitIs
    <2> HIDE DEF f
    <2> QED BY <2>2
  <1>2. \A k \in 0 .. y.size - 1 : y.chars[k] = f[k + 1]
    <2> SUFFICES ASSUME NEW k \in 0 .. y.size - 1 PROVE y.chars[k] = f[k + 1]
      OBVIOUS
    <2>1. k + 1 \in 1 .. y.size
      BY StringShape
    <2> QED BY <1>1, <2>1
  <1> HIDE DEF f
  <1>3. Text(y) = f
    BY <1>1, <1>2, TextEqual
  <1>4. y.exception = (b \/ Len(t) > y.length)
    BY StringShape, Zenon
  <1> QED BY <1>3, <1>4 DEF View, Holds!Held, f

\* Two texts, one after the other.
LEMMA ConcatIs ==
  ASSUME NEW x, NEW r, IsString(x), IsString(r)
  PROVE  LET t == Text(x) \o Text(r)
         IN  /\ t \in Seq(Chars)
             /\ Len(t) = x.size + r.size
             /\ \A k \in 0 .. x.size + r.size - 1 :
                  t[k + 1] = IF k < x.size THEN x.chars[k] ELSE r.chars[k - x.size]
  <1> DEFINE t == Text(x) \o Text(r)
  <1>1. x.size \in Nat /\ r.size \in Nat
    BY StringShape
  <1>2. /\ t \in Seq(Chars) /\ Len(t) = x.size + r.size
        /\ \A i \in 1 .. x.size + r.size : t[i] = IF i <= x.size THEN Text(x)[i] ELSE Text(r)[i - x.size]
    <2> DEFINE p == Text(x)
               q == Text(r)
    <2>1. p \in Seq(Chars) /\ q \in Seq(Chars) /\ Len(p) = x.size /\ Len(q) = r.size
      BY TextIs
    <2>2. t = p \o q
      OBVIOUS
    <2> HIDE DEF p, q, t
    <2>3. /\ p \o q \in Seq(Chars) /\ Len(p \o q) = Len(p) + Len(q)
          /\ \A i \in 1 .. Len(p) + Len(q) : (p \o q)[i] = IF i <= Len(p) THEN p[i] ELSE q[i - Len(p)]
      BY <2>1, ConcatProperties
    <2>4. /\ t \in Seq(Chars) /\ Len(t) = x.size + r.size
          /\ \A i \in 1 .. x.size + r.size : t[i] = IF i <= x.size THEN p[i] ELSE q[i - x.size]
      BY <2>1, <2>2, <2>3
    <2> QED BY <2>4 DEF p, q
  <1> HIDE DEF t
  <1>3. ASSUME NEW k \in 0 .. x.size + r.size - 1
        PROVE  t[k + 1] = IF k < x.size THEN x.chars[k] ELSE r.chars[k - x.size]
    <2>1. k + 1 \in 1 .. x.size + r.size /\ k \in Nat
      BY <1>1
    <2>2. CASE k < x.size
      <3>1. k + 1 \in 1 .. x.size /\ k + 1 <= x.size /\ (k + 1) - 1 = k
        BY <1>1, <2>1, <2>2
      <3>2. Text(x)[k + 1] = x.chars[k]
        BY <3>1, TextIs
      <3> QED BY <1>2, <2>1, <2>2, <3>1, <3>2
    <2>3. CASE ~(k < x.size)
      <3>1. /\ k + 1 - x.size \in 1 .. r.size /\ ~(k + 1 <= x.size)
            /\ (k + 1 - x.size) - 1 = k - x.size
        BY <1>1, <2>1, <2>3
      <3>2. Text(r)[k + 1 - x.size] = r.chars[k - x.size]
        BY <3>1, TextIs
      <3>3. t[k + 1] = Text(r)[k + 1 - x.size]
        <4> DEFINE j == k + 1
        <4>1. j \in 1 .. x.size + r.size /\ ~(j <= x.size)
          BY <2>1, <3>1
        <4> HIDE DEF j
        <4>2. t[j] = Text(r)[j - x.size]
          BY <1>2, <4>1
        <4> QED BY <1>1, <2>1, <4>2 DEF j
      <3> QED BY <2>3, <3>2, <3>3
    <2> QED BY <2>2, <2>3
  <1> QED BY <1>2, <1>3 DEF t

\* append
LEMMA AppendedView ==
  ASSUME NEW x, NEW rhs, IsString(x), IsString(rhs)
  PROVE  View(Appended(x, rhs, FALSE))
           = Holds!Held(x.length, Text(x) \o Text(rhs), x.exception \/ rhs.exception)
  <1> DEFINE y == Appended(x, rhs, FALSE)
             t == Text(x) \o Text(rhs)
             b == x.exception \/ rhs.exception
  <1>1. Extends(y, x, rhs)
    BY AppendedShape
  <1>2. /\ t \in Seq(Chars) /\ Len(t) = x.size + rhs.size
        /\ \A k \in 0 .. x.size + rhs.size - 1 :
             t[k + 1] = IF k < x.size THEN x.chars[k] ELSE rhs.chars[k - x.size]
    BY ConcatIs
  <1>3. IsString(y) /\ y.length = x.length /\ y.size = AtMost(Len(t), y.length)
    <2> HIDE DEF y, t
    <2> QED BY <1>1, <1>2 DEF Extends
  <1>4. \A k \in 0 .. y.size - 1 : y.chars[k] = t[k + 1]
    <2> HIDE DEF y, t
    <2>1. \A k \in 0 .. y.size - 1 : k \in 0 .. x.size + rhs.size - 1
      BY <1>2, <1>3, StringShape DEF AtMost
    <2> QED BY <1>1, <1>2, <2>1 DEF Extends
  <1>5. b \in BOOLEAN /\ (y.exception <=> b \/ Len(t) > y.length)
    <2> HIDE DEF y, t
    <2> QED BY <1>1, <1>2, <1>3, Zenon DEF Extends
  <1> HIDE DEF y, t, b
  <1>6. View(y) = Holds!Held(y.length, t, b)
    BY <1>2, <1>3, <1>4, <1>5, HeldIs
  <1> QED BY <1>3, <1>6 DEF y, t, b

\* The constructor
LEMMA NewView ==
  ASSUME NEW n \in Lengths
  PROVE  View(New(n)) = Holds!Held(n, << >>, FALSE)
  <1> DEFINE y == New(n)
             t == << >>
             b == FALSE
  <1>1. IsString(y) /\ y.length = n /\ y.size = 0 /\ y.exception = b
    BY NewShape
  <1>2. t \in Seq(Chars) /\ Len(t) = 0 /\ n \in Nat /\ b \in BOOLEAN
    BY StringAssumption DEF Lengths
  <1>3. b <=> b \/ Len(t) > n
    BY <1>2
  <1>4. AtMost(Len(t), n) = 0 /\ 0 .. 0 - 1 = {}
    BY <1>2 DEF AtMost
  <1> HIDE DEF y, t, b
  <1>5. View(y) = Holds!Held(y.length, t, b)
    BY <1>1, <1>2, <1>3, <1>4, HeldIs
  <1> QED BY <1>1, <1>5 DEF y, t, b

\* push_back
LEMMA PushedView ==
  ASSUME NEW x, IsString(x), NEW ch \in Chars
  PROVE  View(Pushed(x, ch)) = Holds!Held(x.length, Text(x) \o <<ch>>, x.exception \/ FALSE)
  <1> DEFINE y == Pushed(x, ch)
             p == Text(x)
             q == <<ch>>
             t == p \o q
             b == x.exception \/ FALSE
  <1>1. /\ IsString(y) /\ y.length = x.length /\ y.size = AtMost(x.size + 1, x.length)
        /\ \A k \in 0 .. y.size - 1 : y.chars[k] = IF k < x.size THEN x.chars[k] ELSE ch
        /\ y.exception <=> x.exception \/ x.size + 1 > x.length
    BY PushedShape
  <1>2. p \in Seq(Chars) /\ Len(p) = x.size /\ \A i \in 1 .. x.size : p[i] = x.chars[i - 1]
    BY TextIs
  <1>3. q \in Seq(Chars) /\ Len(q) = 1 /\ q[1] = ch
    OBVIOUS
  <1> HIDE DEF p, q, y
  <1>4. /\ t \in Seq(Chars) /\ Len(t) = Len(p) + Len(q)
        /\ \A i \in 1 .. Len(p) + Len(q) : t[i] = IF i <= Len(p) THEN p[i] ELSE q[i - Len(p)]
    BY <1>2, <1>3, ConcatProperties
  <1> HIDE DEF t
  <1>5. \A k \in 0 .. y.size - 1 : y.chars[k] = t[k + 1]
    <2> SUFFICES ASSUME NEW k \in 0 .. y.size - 1 PROVE y.chars[k] = t[k + 1]
      OBVIOUS
    <2>1. x.size \in Nat /\ y.size \in Nat /\ k \in Nat /\ k <= x.size
      BY <1>1, StringShape DEF AtMost
    <2>2. k + 1 \in 1 .. Len(p) + Len(q)
      BY <1>2, <1>3, <2>1
    <2>3. CASE k < x.size
      <3>1. k + 1 \in 1 .. x.size /\ (k + 1) - 1 = k
        BY <2>1, <2>3
      <3>2. p[k + 1] = x.chars[k]
        BY <1>2, <3>1
      <3>3. t[k + 1] = p[k + 1]
        BY <1>2, <1>4, <2>1, <2>2, <2>3
      <3>4. y.chars[k] = x.chars[k]
        BY <1>1, <2>3
      <3> QED BY <3>2, <3>3, <3>4
    <2>4. CASE ~(k < x.size)
      <3>1. k = x.size /\ (k + 1) - Len(p) = 1
        BY <1>2, <2>1, <2>4
      <3>2. t[k + 1] = q[(k + 1) - Len(p)]
        <4> DEFINE j == k + 1
        <4>1. j \in 1 .. Len(p) + Len(q) /\ ~(j <= Len(p))
          BY <1>2, <2>1, <2>2, <3>1
        <4> HIDE DEF j
        <4>2. t[j] = q[j - Len(p)]
          BY <1>4, <4>1
        <4> QED BY <1>2, <2>1, <4>2 DEF j
      <3>3. y.chars[k] = ch
        BY <1>1, <2>4
      <3> QED BY <1>3, <3>1, <3>2, <3>3
    <2> QED BY <2>3, <2>4
  <1>6. y.size = AtMost(Len(t), y.length) /\ (x.size + 1 > x.length <=> Len(t) > y.length)
    BY <1>1, <1>2, <1>3, <1>4
  <1>7. b \in BOOLEAN /\ (y.exception <=> b \/ Len(t) > y.length)
    BY <1>1, <1>6, Zenon
  <1> HIDE DEF b
  <1>8. View(y) = Holds!Held(y.length, t, b)
    BY <1>1, <1>4, <1>5, <1>6, <1>7, HeldIs
  <1> QED BY <1>1, <1>8 DEF y, t, b, p, q

\* operator+
LEMMA SumView ==
  ASSUME NEW l, NEW r, IsString(l), IsString(r), l.length + r.length <= MaxLength
  PROVE  View(Sum(l, r))
           = Holds!Held(l.length + r.length, Text(l) \o Text(r), l.exception \/ r.exception)
  <1> DEFINE y == Sum(l, r)
             t == Text(l) \o Text(r)
             b == l.exception \/ r.exception
  <1>1. /\ IsString(y) /\ y.length = l.length + r.length /\ y.size = l.size + r.size
        /\ \A k \in 0 .. y.size - 1 : y.chars[k] = IF k < l.size THEN l.chars[k] ELSE r.chars[k - l.size]
        /\ y.exception <=> l.exception \/ r.exception
    BY SumShape
  <1>2. /\ t \in Seq(Chars) /\ Len(t) = l.size + r.size
        /\ \A k \in 0 .. l.size + r.size - 1 :
             t[k + 1] = IF k < l.size THEN l.chars[k] ELSE r.chars[k - l.size]
    BY ConcatIs
  <1> HIDE DEF y, t
  <1>3. \A k \in 0 .. y.size - 1 : y.chars[k] = t[k + 1]
    <2> SUFFICES ASSUME NEW k \in 0 .. y.size - 1 PROVE y.chars[k] = t[k + 1]
      OBVIOUS
    <2>1. k \in 0 .. l.size + r.size - 1
      <3>1. y.size = l.size + r.size
        BY <1>1
      <3> QED BY <3>1, StringShape
    <2>2. t[k + 1] = IF k < l.size THEN l.chars[k] ELSE r.chars[k - l.size]
      BY <1>2, <2>1
    <2>3. y.chars[k] = IF k < l.size THEN l.chars[k] ELSE r.chars[k - l.size]
      BY <1>1
    <2> QED BY <2>2, <2>3
  <1>4. y.size = AtMost(Len(t), y.length) /\ ~(Len(t) > y.length)
    BY <1>1, <1>2, StringShape DEF AtMost
  <1>5. b \in BOOLEAN /\ (y.exception <=> b \/ Len(t) > y.length)
    BY <1>1, <1>4, Zenon
  <1> HIDE DEF b
  <1>6. View(y) = Holds!Held(y.length, t, b)
    BY <1>1, <1>2, <1>3, <1>4, <1>5, HeldIs
  <1> QED BY <1>1, <1>6 DEF y, t, b

\* substr.  A position behind the largest capacity is behind every text.
LEMMA SubStringView ==
  ASSUME NEW x, IsString(x), NEW pos \in Nat, pos + MaxLength <= Npos, NEW count \in Lengths
  PROVE  \E p \in Lengths :
           View(SubString(x, pos, count)) = Holds!Held(count, Holds!Part(Text(x), p, count), x.exception)
  <1> DEFINE p == AtMost(pos, MaxLength)
             y == SubString(x, pos, count)
             u == Text(x)
             m == IF p + count < Len(u) THEN p + count ELSE Len(u)
             t == SubSeq(u, p + 1, m)
             b == x.exception
  <1>1. /\ IsString(y) /\ y.length = count /\ y.exception = b
        /\ y.size = IF pos < x.size THEN AtMost(count, x.size - pos) ELSE 0
        /\ \A k \in 0 .. y.size - 1 : y.chars[k] = x.chars[pos + k]
    BY SubStringShape
  <1>2. u \in Seq(Chars) /\ Len(u) = x.size /\ \A i \in 1 .. x.size : u[i] = x.chars[i - 1]
    BY TextIs
  <1>3. /\ p \in Lengths /\ p \in Nat /\ count \in Nat /\ MaxLength \in Nat
        /\ x.size \in Nat /\ x.size <= MaxLength /\ (pos < MaxLength => p = pos) /\ (p < x.size => p = pos)
        /\ (pos < x.size => p = pos)
    BY StringShape DEF AtMost, Lengths
  <1> HIDE DEF p, y, u
  <1>4. Holds!Part(u, p, count) = t
    BY DEF Holds!Part
  <1>5. p + 1 \in Int /\ m \in Int /\ m <= Len(u) /\ m <= p + count /\ m \in Nat
    BY <1>2, <1>3
  <1>6. /\ t \in Seq(Chars)
        /\ Len(t) = IF p + 1 <= m THEN m - (p + 1) + 1 ELSE 0
        /\ \A i \in 1 .. m - (p + 1) + 1 : t[i] = u[(p + 1) + i - 1]
    <2>1. \A i \in p + 1 .. m : u[i] \in Chars
      BY <1>2, <1>3, <1>5, LenProperties
    <2> HIDE DEF m
    <2> QED BY <1>5, <2>1, SubSeqProperties
  <1>7. Len(t) = y.size /\ Len(t) <= count /\ y.size \in Nat
    <2> DEFINE v == Len(t)
               z == y.size
               w == x.size
    <2>1. v = IF p + 1 <= m THEN m - (p + 1) + 1 ELSE 0
      BY <1>6
    <2>2. z = IF pos < w THEN AtMost(count, w - pos) ELSE 0
      BY <1>1
    <2>3. Len(u) = w /\ w \in Nat /\ (p < w => p = pos) /\ (pos < w => p = pos)
      BY <1>2, <1>3
    <2> HIDE DEF t, v, z, w
    <2>4. v = z /\ v <= count /\ z \in Nat
      BY <1>3, <2>1, <2>2, <2>3 DEF AtMost
    <2> QED BY <2>4 DEF v, z
  <1>8. y.size = AtMost(Len(t), y.length) /\ ~(Len(t) > y.length)
    <2> HIDE DEF t
    <2> QED BY <1>1, <1>3, <1>7 DEF AtMost
  <1>9. \A k \in 0 .. y.size - 1 : y.chars[k] = t[k + 1]
    <2> SUFFICES ASSUME NEW k \in 0 .. y.size - 1 PROVE y.chars[k] = t[k + 1]
      OBVIOUS
    <2>1. k \in Nat /\ p = pos /\ k < m - p /\ k + 1 \in 1 .. m - (p + 1) + 1
      <3> HIDE DEF t, m
      <3> QED BY <1>1, <1>3, <1>5, <1>6, <1>7
    <2>2. (p + 1) + (k + 1) - 1 \in 1 .. x.size /\ ((p + 1) + (k + 1) - 1) - 1 = pos + k
      <3> HIDE DEF m
      <3> QED BY <1>2, <1>3, <1>5, <2>1
    <2> HIDE DEF t, m
    <2>3. t[k + 1] = u[(p + 1) + (k + 1) - 1]
      BY <1>6, <2>1
    <2>4. u[(p + 1) + (k + 1) - 1] = x.chars[pos + k]
      BY <1>2, <2>2
    <2> QED BY <1>1, <2>3, <2>4
  <1>10. b \in BOOLEAN /\ (y.exception <=> b \/ Len(t) > y.length)
    <2>1. b \in BOOLEAN
      BY StringShape
    <2> HIDE DEF b, t
    <2> QED BY <1>1, <1>8, <2>1, Zenon
  <1> HIDE DEF b, t
  <1>11. View(y) = Holds!Held(y.length, t, b)
    BY <1>1, <1>6, <1>8, <1>9, <1>10, HeldIs
  <1>12. View(y) = Holds!Held(count, Holds!Part(u, p, count), b)
    BY <1>1, <1>4, <1>11
  <1> QED BY <1>3, <1>12 DEF y, u, b

----------------------------------------------------------------------------
(* append of a string to itself *)

\* Remainders: their range, and a whole period more leaves them alone.
LEMMA Modulo ==
  ASSUME NEW s \in Nat, s > 0, NEW i \in Nat
  PROVE  i % s \in 0 .. s - 1 /\ (i < s => i % s = i) /\ (s + i) % s = i % s
  <1>1. i % s \in 0 .. s - 1 /\ (i < s => i % s = i)
    OBVIOUS
  <1>2. (s + i) % s = i % s
    <2> DEFINE q == i \div s
               r == i % s
               p == (s + i) \div s
               u == (s + i) % s
    <2>1. q \in Int /\ r \in 0 .. s - 1 /\ i = s * q + r
      OBVIOUS
    <2>2. p \in Int /\ u \in 0 .. s - 1 /\ s + i = s * p + u
      OBVIOUS
    <2> HIDE DEF q, r, p, u
    <2> DEFINE d == p - q - 1
    <2>3. s * d = s * p - s * q - s /\ d \in Int
      BY <2>1, <2>2
    <2>4. s * d = r - u
      BY <2>1, <2>2, <2>3
    <2> HIDE DEF d
    <2>5. s * d < s /\ s * d > -s
      BY <2>1, <2>2, <2>4
    <2>6. \A m \in Nat : m >= 1 => s * m >= s
      OBVIOUS
    <2>7. ~(d >= 1)
      BY <2>3, <2>5, <2>6
    <2>8. ~(d <= -1)
      <3> SUFFICES ASSUME d <= -1 PROVE FALSE
        OBVIOUS
      <3>1. -d \in Nat /\ -d >= 1 /\ s * (-d) = -(s * d)
        BY <2>3
      <3> QED BY <2>3, <2>5, <2>6, <3>1
    <2>9. d = 0
      BY <2>3, <2>7, <2>8
    <2> QED BY <2>1, <2>2, <2>4, <2>9 DEF r, u
  <1> QED BY <1>1, <1>2

\* The source grows with the target, so that the text repeats up to the capacity.
SelfAppendedUpTo(x, i) ==
  Str(x.length,
      [k \in 0 .. MaxLength - 1 |->
         IF x.size <= k /\ k < AtMost(x.size + i, x.length) THEN x.chars[k % x.size] ELSE x.chars[k]],
      AtMost(x.size + i, x.length),
      x.exception \/ x.size + i > x.length)

\* Before the first turn of a self-append the string is as it was.
LEMMA SelfAppendStart ==
  ASSUME NEW x, IsString(x)
  PROVE  SelfAppendedUpTo(x, 0) = x
  <1>1. x.size \in Nat /\ x.length \in Nat /\ x.size <= x.length
    BY StringShape
  <1>2. AtMost(x.size + 0, x.length) = x.size /\ ~(x.size + 0 > x.length)
    BY <1>1 DEF AtMost
  <1>3. [k \in 0 .. MaxLength - 1 |-> x.chars[k]] = x.chars
    BY DEF IsString
  <1>4. SelfAppendedUpTo(x, 0).chars = x.chars
    BY <1>1, <1>2, <1>3, StringAssumption DEF SelfAppendedUpTo, Str
  <1> QED BY <1>2, <1>4 DEF SelfAppendedUpTo, Str, IsString

\* The closed form of a self-append, which reads the string it
\* writes, steps as its loop does.
LEMMA SelfAppendTurns ==
  ASSUME NEW x, IsString(x), x.size > 0, NEW i \in 0 .. x.length - 1
  PROVE  SelfAppendedUpTo(x, i + 1) = AppendTurn(SelfAppendedUpTo(x, i), SelfAppendedUpTo(x, i), i)
  <1> DEFINE chars(j) ==
               [k \in 0 .. MaxLength - 1 |->
                 IF x.size <= k /\ k < AtMost(x.size + j, x.length) THEN x.chars[k % x.size] ELSE x.chars[k]]
             size(j) == AtMost(x.size + j, x.length)
             lost(j) == x.size + j > x.length
             c == chars(i)
             z == size(i)
             e == x.exception \/ lost(i)
             t == SelfAppendedUpTo(x, i)
             enable == i < t.size /\ z < x.length
             e2 == e \/ (i < t.size /\ ~(z < x.length))
             newchars == AppendChars(x.length, c, z, t, i)
             y == AppendTurn(t, t, i)
  <1>1. /\ x.size \in Nat /\ x.length \in Nat /\ x.size <= x.length /\ i \in Nat /\ i < x.length
        /\ MaxLength \in Nat /\ x.length <= MaxLength /\ x.exception \in BOOLEAN
    BY StringShape
  <1>2. t = Str(x.length, c, z, e)
    BY DEF SelfAppendedUpTo
  <1>3. t.size = z /\ t.chars = c
    BY <1>2, StrFields
  <1>4. i < z
    BY <1>1 DEF AtMost
  <1> HIDE DEF t
  <1>5. size(i + 1) = cmov(enable, z + 1, z)
    BY <1>1, <1>3, <1>4, SMTT(30) DEF AtMost, cmov
  <1>6. lost(i + 1) <=> lost(i) \/ ~(z < x.length)
    BY <1>1 DEF AtMost
  <1>7. c[i] = x.chars[i % x.size] /\ (x.size + i) % x.size = i % x.size
    <2>1. (i < x.size => i % x.size = i) /\ (x.size + i) % x.size = i % x.size
      BY <1>1, Modulo
    <2>2. i \in 0 .. MaxLength - 1
      BY <1>1
    <2> DEFINE r == i % x.size
    <2>3. c[i] = IF x.size <= i /\ i < z THEN x.chars[r] ELSE x.chars[i]
      BY <2>2
    <2> HIDE DEF r, c, z
    <2>4. c[i] = x.chars[r]
      BY <1>1, <1>4, <2>1, <2>3 DEF r
    <2> QED BY <2>1, <2>4 DEF r
  <1>8. chars(i + 1) = newchars
    <2>1. \A k \in 0 .. MaxLength - 1 : chars(i + 1)[k] = newchars[k]
      <3> SUFFICES ASSUME NEW k \in 0 .. MaxLength - 1 PROVE chars(i + 1)[k] = newchars[k]
        OBVIOUS
      <3> DEFINE r == k % x.size
      <3>1. newchars[k] = IF k < x.length /\ i < t.size /\ z < x.length /\ z = k THEN c[i] ELSE c[k]
        BY <1>3 DEF AppendChars
      <3>2. chars(i + 1)[k] = IF x.size <= k /\ k < size(i + 1) THEN x.chars[r] ELSE x.chars[k]
        OBVIOUS
      <3>3. c[k] = IF x.size <= k /\ k < z THEN x.chars[r] ELSE x.chars[k]
        OBVIOUS
      <3>4. CASE z < x.length /\ z = k
        <4>1. k = x.size + i /\ x.size <= k /\ k < size(i + 1) /\ k < x.length
          BY <1>1, <3>4 DEF AtMost
        <4>2. r = i % x.size
          BY <1>7, <4>1
        <4> HIDE DEF r, c, z, size, chars, newchars
        <4> QED BY <1>3, <1>4, <1>7, <3>1, <3>2, <3>4, <4>1, <4>2
      <3>5. CASE ~(z < x.length /\ z = k)
        <4>1. k < size(i + 1) <=> k < z
          BY <1>1, <3>5 DEF AtMost
        <4> HIDE DEF r, c, z, size, chars, newchars
        <4> QED BY <3>1, <3>2, <3>3, <3>5, <4>1
      <3> QED BY <3>4, <3>5
    <2> QED BY <2>1 DEF AppendChars
  <1>9. \A j : SelfAppendedUpTo(x, j) = Str(x.length, chars(j), size(j), x.exception \/ lost(j))
    BY DEF SelfAppendedUpTo
  <1>10. /\ y = Str(y.length, y.chars, y.size, y.exception)
         /\ y.length = x.length
         /\ y.chars = newchars
         /\ y.size = cmov(enable, z + 1, z)
         /\ y.exception = e2
    <2> DEFINE t2 == t
               y2 == AppendTurn(Str(x.length, c, z, e), t2, i)
    <2> HIDE DEF c, z, e, t2
    <2>1. /\ y2 = Str(y2.length, y2.chars, y2.size, y2.exception)
          /\ y2.length = x.length
          /\ y2.chars = AppendChars(x.length, c, z, t2, i)
          /\ y2.size = cmov(i < t2.size /\ z < x.length, z + 1, z)
          /\ y2.exception = (e \/ (i < t2.size /\ ~(z < x.length)))
      BY AppendTurnIs
    <2>2. y2 = y
      BY <1>2 DEF t2
    <2> QED BY <2>1, <2>2 DEF t2
  <1>11. (x.exception \/ lost(i + 1)) = e2
    <2> HIDE DEF size, lost, t, z
    <2> QED BY <1>3, <1>4, <1>6, Zenon
  <1> HIDE DEF chars, size, newchars, enable, e2, y
  <1>12. SelfAppendedUpTo(x, i + 1) = Str(x.length, chars(i + 1), size(i + 1), e2)
    <2> HIDE DEF lost
    <2> QED BY <1>9, <1>11
  <1>13. SelfAppendedUpTo(x, i + 1) = y
    BY <1>5, <1>8, <1>10, <1>12
  <1> HIDE DEF e, c, z
  <1> QED BY <1>13 DEF y, t

\* An empty string stays as it is.
LEMMA EmptyTurn ==
  ASSUME NEW x, IsString(x), x.size = 0, NEW i \in Nat
  PROVE  AppendTurn(x, x, i) = x
  <1> DEFINE l == x.length
             c == x.chars
             z == x.size
             e == x.exception
             y == AppendTurn(Str(l, c, z, e), x, i)
  <1>1. x = Str(l, c, z, e)
    BY DEF IsString, Str
  <1>2. ~(i < x.size) /\ e \in BOOLEAN
    BY StringShape
  <1>3. c = [k \in DOMAIN c |-> c[k]]
    BY StringShape
  <1>4. AppendChars(l, c, z, x, i) = c
    BY <1>2, <1>3 DEF AppendChars
  <1> HIDE DEF l, c, z, e
  <1>5. /\ y = Str(y.length, y.chars, y.size, y.exception)
        /\ y.length = l
        /\ y.chars = AppendChars(l, c, z, x, i)
        /\ y.size = cmov(i < x.size /\ z < l, z + 1, z)
        /\ y.exception = (e \/ (i < x.size /\ ~(z < l)))
    BY AppendTurnIs
  <1>6. y.size = z
    BY <1>2, <1>5 DEF cmov
  <1>7. y.exception = e
    BY <1>2, <1>5, Zenon
  <1> HIDE DEF y
  <1>8. y = Str(l, c, z, e)
    BY <1>4, <1>5, <1>6, <1>7
  <1> QED BY <1>1, <1>8 DEF y

\* append of a string to itself: a text that is not empty is repeated until the
\* capacity is full.
LEMMA SelfAppendedIs ==
  ASSUME NEW x, IsString(x)
  PROVE  Appended(x, x, TRUE)
           = [IF x.size = 0 THEN x ELSE SelfAppendedUpTo(x, x.length) EXCEPT !.exception = @ \/ x.exception]
  <1> DEFINE n == x.length
             Val(i) == IF x.size = 0 THEN x ELSE SelfAppendedUpTo(x, i)
             c == [i \in 0 .. n |-> Val(i)]
             IsLoop(f) == f = [i \in 0 .. n |->
                                IF i = 0 THEN x
                                ELSE AppendTurn(f[i - 1], IF TRUE THEN f[i - 1] ELSE x, i - 1)]
             loop == CHOOSE f : IsLoop(f)
  <1>1. Appended(x, x, TRUE) = [loop[n] EXCEPT !.exception = @ \/ x.exception]
    BY DEF Appended
  <1>2. c[0] = x /\ n \in Nat /\ x.size \in Nat
    <2>1. n \in Nat /\ x.size \in Nat
      BY StringShape
    <2>2. Val(0) = x
      BY SelfAppendStart
    <2> HIDE DEF Val
    <2> QED BY <2>1, <2>2
  <1>3. \A i \in 0 .. n - 1 : c[i + 1] = AppendTurn(c[i], c[i], i)
    <2> SUFFICES ASSUME NEW i \in 0 .. n - 1 PROVE c[i + 1] = AppendTurn(c[i], c[i], i)
      OBVIOUS
    <2>1. i \in 0 .. n /\ i + 1 \in 0 .. n /\ i \in Nat
      BY <1>2
    <2>2. c[i] = Val(i) /\ c[i + 1] = Val(i + 1)
      <3> HIDE DEF Val
      <3> QED BY <2>1
    <2>3. CASE x.size = 0
      <3>1. Val(i) = x /\ Val(i + 1) = x
        BY <2>3
      <3> HIDE DEF Val, c
      <3> QED BY <2>1, <2>2, <2>3, <3>1, EmptyTurn
    <2>4. CASE x.size # 0
      <3>1. Val(i) = SelfAppendedUpTo(x, i) /\ Val(i + 1) = SelfAppendedUpTo(x, i + 1) /\ x.size > 0
        BY <1>2, <2>4
      <3> HIDE DEF Val, c
      <3> QED BY <2>2, <3>1, SelfAppendTurns
    <2> QED BY <2>3, <2>4
  <1>4. IsLoop(c)
    <2> DEFINE d == [i \in 0 .. n |->
                       IF i = 0 THEN x ELSE AppendTurn(c[i - 1], IF TRUE THEN c[i - 1] ELSE x, i - 1)]
    <2>1. \A i \in 0 .. n : c[i] = d[i]
      <3> HIDE DEF c
      <3> QED BY <1>2, <1>3
    <2> QED BY <2>1
  <1>5. IsLoop(loop)
    <2> HIDE DEF IsLoop, c
    <2> QED BY <1>4
  <1>6. loop = c
    <2> HIDE DEF loop
    <2>1. loop = [i \in 0 .. n |-> loop[i]]
      BY <1>5
    <2>2. loop[0] = x /\ \A i \in 0 .. n - 1 : loop[i + 1] = AppendTurn(loop[i], loop[i], i)
      BY <1>2, <1>5
    <2> HIDE DEF c, IsLoop
    <2>3. c = [i \in 0 .. n |-> c[i]]
      BY DEF c
    <2>4. \A i \in 0 .. n - 1 : loop[i] = c[i] => loop[i + 1] = c[i + 1]
      BY <1>3, <2>2
    <2>5. n \in Nat /\ loop[0] = c[0]
      BY <1>2, <2>2
    <2> HIDE DEF n
    <2> QED BY <2>1, <2>3, <2>4, <2>5, LoopsEqual
  <1>7. c[n] = Val(n)
    <2> HIDE DEF Val
    <2> QED BY <1>2
  <1> HIDE DEF c, loop
  <1> QED BY <1>1, <1>6, <1>7

\* A self-append repeats the text up to the capacity, and leaves a
\* well-formed string.
LEMMA SelfAppendedShape ==
  ASSUME NEW x, IsString(x)
  PROVE  IsString(Appended(x, x, TRUE))
  <1> DEFINE c == [k \in 0 .. MaxLength - 1 |->
                    IF x.size <= k /\ k < AtMost(x.size + x.length, x.length)
                    THEN x.chars[k % x.size] ELSE x.chars[k]]
             z == AtMost(x.size + x.length, x.length)
             lost == x.size + x.length > x.length
             e == x.exception \/ lost
             t == IF x.size = 0 THEN x ELSE SelfAppendedUpTo(x, x.length)
             y == Appended(x, x, TRUE)
             e2 == t.exception \/ x.exception
  <1>1. IsString(t)
    <2>1. CASE x.size = 0
      BY <2>1
    <2>2. CASE x.size # 0
      <3>1. x.size \in Nat /\ x.size > 0 /\ MaxLength \in Nat /\ x.size <= MaxLength
        BY <2>2, StringShape
      <3>2. \A k \in 0 .. MaxLength - 1 : k % x.size \in 0 .. x.size - 1 /\ k % x.size \in 0 .. MaxLength - 1
        <4> SUFFICES ASSUME NEW k \in 0 .. MaxLength - 1
                     PROVE  k % x.size \in 0 .. x.size - 1 /\ k % x.size \in 0 .. MaxLength - 1
          OBVIOUS
        <4>1. k \in Nat
          BY <3>1
        <4>2. k % x.size \in 0 .. x.size - 1
          BY <3>1, <4>1, Modulo
        <4> QED BY <3>1, <4>2
      <3>3. x.chars \in [0 .. MaxLength - 1 -> Chars \cup {0}]
        BY StringShape
      <3>4. c \in [0 .. MaxLength - 1 -> Chars \cup {0}]
        BY <3>2, <3>3
      <3>5. z \in Lengths /\ z <= x.length /\ z \in Nat
        BY StringShape DEF AtMost, Lengths
      <3>6. \A k \in 0 .. z - 1 : c[k] \in Chars
        <4> SUFFICES ASSUME NEW k \in 0 .. z - 1 PROVE c[k] \in Chars
          OBVIOUS
        <4>1. k \in 0 .. MaxLength - 1 /\ k < z
          <5> HIDE DEF z
          <5> QED BY <3>5, StringShape
        <4> DEFINE r == k % x.size
        <4>2. c[k] = IF x.size <= k /\ k < z THEN x.chars[r] ELSE x.chars[k]
          BY <4>1
        <4>3. r \in 0 .. x.size - 1
          BY <3>2, <4>1
        <4>4. ~(x.size <= k) => k \in 0 .. x.size - 1
          BY <3>1, <4>1
        <4> HIDE DEF c, z, r
        <4> QED BY <4>1, <4>2, <4>3, <4>4, StringShape
      <3>7. t = Str(x.length, c, z, e)
        BY <2>2 DEF SelfAppendedUpTo
      <3> HIDE DEF c, z, t, lost
      <3>8. e \in BOOLEAN
        BY Zenon
      <3> HIDE DEF e
      <3> QED BY <3>4, <3>5, <3>6, <3>7, <3>8, StrIsString, StringShape
    <2> QED BY <2>1, <2>2
  <1>2. y = [t EXCEPT !.exception = e2]
    BY SelfAppendedIs
  <1> HIDE DEF t, y
  <1>3. e2 \in BOOLEAN
    BY Zenon
  <1> HIDE DEF e2
  <1>4. t = Str(t.length, t.chars, t.size, t.exception)
    BY <1>1 DEF IsString, Str
  <1>5. y = Str(t.length, t.chars, t.size, e2)
    BY <1>2, <1>4, SetException
  <1>6. IsString(Str(t.length, t.chars, t.size, e2))
    BY <1>1, <1>3, StrIsString, StringShape
  <1> QED BY <1>5, <1>6 DEF y

----------------------------------------------------------------------------
(* Every value a program builds is a string *)

\* No position reaches the limit of size_t from the largest capacity.
NoWrap == \A pos \in Positions : pos + MaxLength <= Npos

StringInv ==
  /\ str = [s \in Strings |-> str[s]]
  /\ \A s \in Strings : IsString(str[s])

\* Storing a well-formed string keeps the invariant.
LEMMA PutKeeps ==
  ASSUME StringInv, NEW s \in Strings, NEW x, IsString(x), Put(s, x)
  PROVE  StringInv' /\ str' = [str EXCEPT ![s] = x]
  <1>1. str' = [str EXCEPT ![s] = x]
    BY DEF Put
  <1>2. str' = [r \in Strings |-> IF r = s THEN x ELSE str[r]]
    BY <1>1 DEF StringInv
  <1>3. \A r \in Strings : IsString(str'[r])
    BY <1>2 DEF StringInv
  <1>4. str' = [r \in Strings |-> str'[r]]
    BY <1>2
  <1> QED BY <1>1, <1>3, <1>4 DEF StringInv, IsString, Lengths

\* Whatever operations built them, from self-appends to parts of parts, the
\* values satisfy the type and no character in use is the fill.
THEOREM StringsAreWell ==
  ASSUME NoWrap
  PROVE  StringSpec => []StringInv
  <1>1. StringInit => StringInv
    <2> SUFFICES ASSUME StringInit PROVE StringInv
      OBVIOUS
    <2>1. 0 \in Lengths
      BY StringAssumption DEF Lengths
    <2>2. IsString(New(0))
      BY <2>1, NewShape
    <2> QED BY <2>2 DEF StringInit, StringInv
  <1>2. StringInv /\ [StringNext]_str => StringInv'
    <2> SUFFICES ASSUME StringInv, [StringNext]_str PROVE StringInv'
      OBVIOUS
    <2>0. \A s \in Strings : IsString(str[s])
      BY DEF StringInv
    <2>1. CASE UNCHANGED str
      BY <2>1 DEF StringInv, IsString, Lengths
    <2>2. ASSUME NEW s \in Strings, NEW n \in Lengths, Construct(s, n) PROVE StringInv'
      BY <2>2, NewShape, PutKeeps DEF Construct
    <2>3. ASSUME NEW s \in Strings, NEW c \in Chars, PushBack(s, c) PROVE StringInv'
      <3>1. IsString(Pushed(str[s], c))
        BY <2>0, PushedShape
      <3> QED BY <2>3, <3>1, PutKeeps DEF PushBack
    <2>4. ASSUME NEW s \in Strings, NEW r \in Strings, AppendString(s, r) PROVE StringInv'
      <3>1. CASE s = r
        <4>1. Put(s, Appended(str[s], str[s], TRUE))
          BY <2>4, <3>1 DEF AppendString
        <4>2. IsString(Appended(str[s], str[s], TRUE))
          BY <2>0, SelfAppendedShape
        <4> QED BY <4>1, <4>2, PutKeeps
      <3>2. CASE s # r
        <4>1. Put(s, Appended(str[s], str[r], FALSE))
          BY <2>4, <3>2 DEF AppendString
        <4>2. IsString(Appended(str[s], str[r], FALSE))
          <5> DEFINE y == Appended(str[s], str[r], FALSE)
          <5>1. Extends(y, str[s], str[r])
            BY <2>0, AppendedShape
          <5> HIDE DEF y
          <5>2. IsString(y)
            BY <5>1 DEF Extends
          <5> QED BY <5>2 DEF y
        <4> QED BY <4>1, <4>2, PutKeeps
      <3> QED BY <3>1, <3>2
    <2>5. ASSUME NEW s \in Strings, NEW r \in Strings, Assign(s, r) PROVE StringInv'
      BY <2>0, <2>5, PutKeeps DEF Assign
    <2>6. ASSUME NEW s \in Strings, NEW r \in Strings, MoveAssign(s, r) PROVE StringInv'
      <3>1. IsString(New(0))
        <4>1. 0 \in Lengths
          BY StringAssumption DEF Lengths
        <4> QED BY <4>1, NewShape
      <3>2. str' = [q \in Strings |-> IF q = r THEN New(0) ELSE IF q = s THEN str[r] ELSE str[q]]
        BY <2>6 DEF MoveAssign, StringInv
      <3> DEFINE e == New(0)
      <3> HIDE DEF e
      <3>3. \A q \in Strings : IsString(str'[q])
        BY <2>0, <3>1, <3>2 DEF e
      <3>4. str' = [q \in Strings |-> str'[q]]
        BY <3>2
      <3> QED BY <3>3, <3>4 DEF StringInv, IsString, Lengths
    <2>7. ASSUME NEW s \in Strings, NEW r \in Strings, NEW l \in Strings, Concat(s, l, r) PROVE StringInv'
      <3>1. IsString(Sum(str[l], str[r]))
        BY <2>0, <2>7, SumShape DEF Concat
      <3> QED BY <2>7, <3>1, PutKeeps DEF Concat
    <2>8. ASSUME NEW s \in Strings, NEW r \in Strings, NEW pos \in Positions, NEW n \in Lengths,
                 Substr(s, r, pos, n)
          PROVE  StringInv'
      <3>1. pos \in Nat /\ pos + MaxLength <= Npos
        BY StringAssumption DEF NoWrap
      <3>2. IsString(SubString(str[r], pos, n))
        BY <2>0, <3>1, SubStringShape
      <3> QED BY <2>8, <3>2, PutKeeps DEF Substr
    <2> QED BY <2>1, <2>2, <2>3, <2>4, <2>5, <2>6, <2>7, <2>8 DEF StringNext
  <1> QED BY <1>1, <1>2, PTL DEF StringSpec

----------------------------------------------------------------------------
(* Refinement *)

\* value of BoundedString
Shown == [s \in Strings |-> View(str[s])]

\* BoundedNext for it
ShownNext ==
  \E s \in Strings :
    \/ \E n \in Lengths : Shown' = [Shown EXCEPT ![s] = Holds!Held(n, << >>, FALSE)]
    \/ \E c \in Chars :
         Shown' = [Shown EXCEPT ![s] = Holds!Held(Shown[s].cap, Shown[s].text \o <<c>>, Shown[s].bad \/ FALSE)]
    \/ \E r \in Strings :
         \/ Shown' = [Shown EXCEPT ![s] =
                        Holds!Held(Shown[s].cap, Shown[s].text \o Shown[r].text, Shown[s].bad \/ Shown[r].bad)]
         \/ Shown' = [Shown EXCEPT ![s] = Shown[r]]
         \/ Shown' = [Shown EXCEPT ![s] = Shown[r], ![r] = Holds!Empty]
         \/ \E l \in Strings :
              Shown' = [Shown EXCEPT ![s] =
                         Holds!Held(Shown[l].cap + Shown[r].cap, Shown[l].text \o Shown[r].text,
                                    Shown[l].bad \/ Shown[r].bad)]
         \/ \E pos, n \in Lengths :
              Shown' = [Shown EXCEPT ![s] = Holds!Held(n, Holds!Part(Shown[r].text, pos, n), Shown[r].bad)]

\* The steps of the abstract state are steps of the abstract specification.
LEMMA ShownNextIs == ShownNext => Holds!BoundedNext
  BY DEF ShownNext, Shown, View, Holds!BoundedNext, Holds!Set, Holds!Extend

\* A new value of s is a new value of s in the abstract state.
LEMMA PutShows ==
  ASSUME StringInv, NEW s \in Strings, NEW x, IsString(x), Put(s, x)
  PROVE  Shown' = [Shown EXCEPT ![s] = View(x)]
  <1>1. str' = [str EXCEPT ![s] = x] /\ DOMAIN str = Strings
    BY PutKeeps DEF StringInv
  <1>2. \A r \in Strings : str'[r] = IF r = s THEN x ELSE str[r]
    BY <1>1
  <1>3. Shown' = [r \in Strings |-> View(str'[r])]
    BY DEF Shown, View, Text
  <1>4. \A r \in Strings : View(str'[r]) = IF r = s THEN View(x) ELSE View(str[r])
    BY <1>2
  <1>5. [Shown EXCEPT ![s] = View(x)] = [r \in Strings |-> IF r = s THEN View(x) ELSE View(str[r])]
    BY DEF Shown
  <1> QED BY <1>3, <1>4, <1>5

\* stringe_t keeps the promise of BoundedString: every operation, with its loops
\* over whole capacities, stores what the corresponding operation on texts
\* stores, and the flag is set exactly when characters were lost.
THEOREM StringsActAsStrings ==
  ASSUME ~Aliasing, NoWrap
  PROVE  StringSpec => ActsAsString
  <1> DEFINE value == [s \in Strings |-> [cap |-> str[s].length, text |-> Text(str[s]), bad |-> str[s].exception]]
  <1>1. StringInit => Holds!BoundedInit
    <2> SUFFICES ASSUME StringInit PROVE Holds!BoundedInit
      OBVIOUS
    <2>1. \A s \in Strings : str[s] = New(0)
      BY DEF StringInit
    <2>2. Text(New(0)) = << >>
      BY DEF Text, New
    <2>3. New(0).length = 0 /\ New(0).exception = FALSE
      BY DEF New
    <2> QED BY <2>1, <2>2, <2>3 DEF Holds!BoundedInit, Holds!Empty
  <1>2. StringInv /\ [StringNext]_str => [Holds!BoundedNext]_value
    <2> SUFFICES ASSUME StringInv, StringNext PROVE Holds!BoundedNext
      BY DEF Text
    <2>0. \A s \in Strings : IsString(str[s]) /\ Shown[s] = View(str[s])
      BY DEF StringInv, Shown
    <2>1. \A s \in Strings : /\ Shown[s].cap = str[s].length /\ Shown[s].text = Text(str[s])
                             /\ Shown[s].bad = str[s].exception
      BY DEF Shown, View
    <2>4. ASSUME NEW s \in Strings, NEW n \in Lengths, Construct(s, n) PROVE ShownNext
      <3>1. Shown' = [Shown EXCEPT ![s] = View(New(n))]
        BY <2>4, NewShape, PutShows DEF Construct
      <3> QED BY <3>1, NewView DEF ShownNext
    <2>5. ASSUME NEW s \in Strings, NEW c \in Chars, PushBack(s, c) PROVE ShownNext
      <3>1. IsString(Pushed(str[s], c))
        BY <2>0, PushedShape
      <3>2. Shown' = [Shown EXCEPT ![s] = View(Pushed(str[s], c))]
        BY <2>5, <3>1, PutShows DEF PushBack
      <3>3. View(Pushed(str[s], c)) = Holds!Held(str[s].length, Text(str[s]) \o <<c>>, str[s].exception \/ FALSE)
        BY <2>0, PushedView
      <3>4. Holds!Held(str[s].length, Text(str[s]) \o <<c>>, str[s].exception \/ FALSE)
              = Holds!Held(Shown[s].cap, Shown[s].text \o <<c>>, Shown[s].bad \/ FALSE)
        BY <2>1
      <3>5. Shown' = [Shown EXCEPT ![s] = Holds!Held(Shown[s].cap, Shown[s].text \o <<c>>, Shown[s].bad \/ FALSE)]
        BY <3>2, <3>3, <3>4
      <3> QED BY <3>5 DEF ShownNext
    <2>6. ASSUME NEW s \in Strings, NEW r \in Strings, AppendString(s, r) PROVE ShownNext
      <3> DEFINE y == Appended(str[s], str[r], FALSE)
      <3>1. Put(s, y)
        BY <2>6 DEF AppendString
      <3>2. IsString(y)
        <4>1. Extends(y, str[s], str[r])
          BY <2>0, AppendedShape
        <4> HIDE DEF y
        <4> QED BY <4>1 DEF Extends
      <3>3. View(y) = Holds!Held(str[s].length, Text(str[s]) \o Text(str[r]), str[s].exception \/ str[r].exception)
        BY <2>0, AppendedView
      <3> HIDE DEF y
      <3>4. Shown' = [Shown EXCEPT ![s] = View(y)]
        BY <3>1, <3>2, PutShows
      <3>5. View(y) = Holds!Held(Shown[s].cap, Shown[s].text \o Shown[r].text, Shown[s].bad \/ Shown[r].bad)
        BY <2>1, <3>3
      <3>6. Shown' = [Shown EXCEPT ![s] =
                        Holds!Held(Shown[s].cap, Shown[s].text \o Shown[r].text, Shown[s].bad \/ Shown[r].bad)]
        BY <3>4, <3>5
      <3> QED BY <3>6 DEF ShownNext
    <2>7. ASSUME NEW s \in Strings, NEW r \in Strings, Assign(s, r) PROVE ShownNext
      <3>1. Shown' = [Shown EXCEPT ![s] = View(str[r])]
        BY <2>0, <2>7, PutShows DEF Assign
      <3> QED BY <2>0, <3>1 DEF ShownNext
    <2>8. ASSUME NEW s \in Strings, NEW r \in Strings, MoveAssign(s, r) PROVE ShownNext
      <3> DEFINE e == New(0)
      <3>1. View(e) = Holds!Empty
        <4>1. Text(e) = << >>
          BY DEF Text, New
        <4>2. e.length = 0 /\ e.exception = FALSE
          BY DEF New
        <4> QED BY <4>1, <4>2 DEF View, Holds!Empty
      <3>2. s # r /\ str' = [str EXCEPT ![s] = str[r], ![r] = e]
        BY <2>8 DEF MoveAssign
      <3> HIDE DEF e
      <3>3. \A q \in Strings : str'[q] = IF q = r THEN e ELSE IF q = s THEN str[r] ELSE str[q]
        BY <3>2 DEF StringInv
      <3>4. Shown' = [q \in Strings |-> View(str'[q])]
        BY DEF Shown, View, Text
      <3>5. \A q \in Strings : View(str'[q]) = IF q = r THEN View(e) ELSE IF q = s THEN View(str[r]) ELSE View(str[q])
        BY <3>3
      <3>6. Shown' = [q \in Strings |-> IF q = r THEN View(e) ELSE IF q = s THEN View(str[r]) ELSE View(str[q])]
        BY <3>4, <3>5
      <3>7. Shown' = [Shown EXCEPT ![s] = Shown[r], ![r] = View(e)]
        BY <3>2, <3>6 DEF Shown
      <3> QED BY <3>1, <3>7 DEF ShownNext
    <2>9. ASSUME NEW s \in Strings, NEW r \in Strings, NEW l \in Strings, Concat(s, l, r)
          PROVE  ShownNext
      <3> DEFINE y == Sum(str[l], str[r])
      <3>1. Put(s, y) /\ str[l].length + str[r].length <= MaxLength
        BY <2>9 DEF Concat
      <3>2. IsString(y)
        BY <2>0, <3>1, SumShape
      <3>3. View(y) = Holds!Held(str[l].length + str[r].length, Text(str[l]) \o Text(str[r]),
                                 str[l].exception \/ str[r].exception)
        BY <2>0, <3>1, SumView
      <3> HIDE DEF y
      <3>4. Shown' = [Shown EXCEPT ![s] = View(y)]
        BY <3>1, <3>2, PutShows
      <3>5. View(y) = Holds!Held(Shown[l].cap + Shown[r].cap, Shown[l].text \o Shown[r].text,
                                 Shown[l].bad \/ Shown[r].bad)
        BY <2>1, <3>3
      <3>6. Shown' = [Shown EXCEPT ![s] =
                        Holds!Held(Shown[l].cap + Shown[r].cap, Shown[l].text \o Shown[r].text,
                                   Shown[l].bad \/ Shown[r].bad)]
        BY <3>4, <3>5
      <3> QED BY <3>6 DEF ShownNext
    <2>10. ASSUME NEW s \in Strings, NEW r \in Strings, NEW pos \in Positions, NEW n \in Lengths,
                  Substr(s, r, pos, n)
           PROVE  ShownNext
      <3> DEFINE y == SubString(str[r], pos, n)
      <3>1. pos \in Nat /\ pos + MaxLength <= Npos
        BY StringAssumption DEF NoWrap
      <3>2. IsString(y)
        BY <2>0, <3>1, SubStringShape
      <3>3. PICK p \in Lengths : View(y) = Holds!Held(n, Holds!Part(Text(str[r]), p, n), str[r].exception)
        BY <2>0, <3>1, SubStringView
      <3>4. Put(s, y)
        BY <2>10 DEF Substr
      <3> HIDE DEF y
      <3>5. Shown' = [Shown EXCEPT ![s] = View(y)]
        BY <3>2, <3>4, PutShows
      <3>6. Shown' = [Shown EXCEPT ![s] = Holds!Held(n, Holds!Part(Shown[r].text, p, n), Shown[r].bad)]
        BY <2>1, <3>3, <3>5
      <3> QED BY <3>6 DEF ShownNext
    <2>11. ShownNext
      BY <2>4, <2>5, <2>6, <2>7, <2>8, <2>9, <2>10 DEF StringNext
    <2> QED BY <2>11, ShownNextIs
  <1> QED BY <1>1, <1>2, StringsAreWell, PTL DEF StringSpec, ActsAsString, Holds!BoundedSpec

----------------------------------------------------------------------------
(* Searches *)

\* An occurrence in the text, in terms of the characters.
LEMMA OccursIs ==
  ASSUME NEW x, NEW r, IsString(x), IsString(r), NEW i \in Nat
  PROVE  Occurs(Text(x), Text(r), i)
           <=> i + r.size <= x.size /\ \A j \in 0 .. r.size - 1 : x.chars[i + j] = r.chars[j]
  <1> DEFINE t == Text(x)
             n == Text(r)
             u == SubSeq(t, i + 1, i + Len(n))
  <1>1. t \in Seq(Chars) /\ Len(t) = x.size /\ \A k \in 1 .. x.size : t[k] = x.chars[k - 1]
    BY TextIs
  <1>2. n \in Seq(Chars) /\ Len(n) = r.size /\ \A k \in 1 .. r.size : n[k] = r.chars[k - 1]
    BY TextIs
  <1>3. Occurs(Text(x), Text(r), i) <=> i + Len(n) <= Len(t) /\ u = n
    BY DEF Occurs
  <1>4. x.size \in Nat /\ r.size \in Nat
    BY StringShape
  <1>5. ASSUME i + r.size <= x.size
        PROVE  u = n <=> \A j \in 0 .. r.size - 1 : x.chars[i + j] = r.chars[j]
    <2>1. \A k \in i + 1 .. i + Len(n) : t[k] \in Chars
      BY <1>1, <1>2, <1>4, <1>5, LenProperties
    <2>2. i + 1 \in Int /\ i + Len(n) \in Int
      BY <1>2, <1>4
    <2> HIDE DEF t, n
    <2> DEFINE a == i + 1
               b == i + Len(n)
    <2>3. u = SubSeq(t, a, b)
      OBVIOUS
    <2>4. a \in Int /\ b \in Int /\ \A k \in a .. b : t[k] \in Chars
      BY <2>1, <2>2
    <2> HIDE DEF a, b, u
    <2>5. /\ u \in Seq(Chars) /\ Len(u) = IF a <= b THEN b - a + 1 ELSE 0
          /\ \A k \in 1 .. b - a + 1 : u[k] = t[a + k - 1]
      BY <2>3, <2>4, SubSeqProperties
    <2>6. b - a + 1 = r.size /\ a = i + 1
      BY <1>2, <1>4 DEF a, b
    <2>7. Len(u) = r.size
      BY <1>4, <2>4, <2>5, <2>6
    <2>8. ASSUME NEW j \in 0 .. r.size - 1
          PROVE  j + 1 \in 1 .. r.size /\ u[j + 1] = x.chars[i + j] /\ n[j + 1] = r.chars[j]
      <3>1. j + 1 \in 1 .. r.size /\ (j + 1) - 1 = j /\ j \in Nat
        BY <1>4
      <3>2. n[j + 1] = r.chars[j]
        BY <1>2, <3>1
      <3>3. u[j + 1] = t[a + (j + 1) - 1]
        BY <2>5, <2>6, <3>1
      <3>4. a + (j + 1) - 1 \in 1 .. x.size /\ (a + (j + 1) - 1) - 1 = i + j
        BY <1>4, <1>5, <2>6, <3>1
      <3>5. t[a + (j + 1) - 1] = x.chars[i + j]
        BY <1>1, <3>4
      <3> QED BY <3>1, <3>2, <3>3, <3>5
    <2>9. ASSUME u = n PROVE \A j \in 0 .. r.size - 1 : x.chars[i + j] = r.chars[j]
      BY <2>8, <2>9
    <2>10. ASSUME \A j \in 0 .. r.size - 1 : x.chars[i + j] = r.chars[j] PROVE u = n
      <3>1. \A k \in 1 .. r.size : u[k] = n[k]
        <4> SUFFICES ASSUME NEW k \in 1 .. r.size PROVE u[k] = n[k]
          OBVIOUS
        <4>1. k - 1 \in 0 .. r.size - 1 /\ (k - 1) + 1 = k
          BY <1>4
        <4>2. u[(k - 1) + 1] = n[(k - 1) + 1]
          BY <2>8, <2>10, <4>1
        <4> QED BY <4>1, <4>2
      <3> QED BY <1>2, <2>5, <2>7, <3>1, SeqEqual
    <2> QED BY <2>9, <2>10
  <1> HIDE DEF u, n, t
  <1> QED BY <1>1, <1>2, <1>3, <1>5

\* The inner loop of find, at a position in use.
LEMMA MatchIs ==
  ASSUME NEW x, NEW r, IsString(x), IsString(r), NEW i \in 0 .. x.size - 1
  PROVE  MatchAt(x, r, i) <=> r.size > 0 /\ Occurs(Text(x), Text(r), i)
  <1>1. /\ x.size \in Nat /\ r.size \in Nat /\ x.length \in Nat /\ r.length \in Nat
        /\ x.size <= x.length /\ r.size <= r.length /\ i \in Nat
    BY StringShape
  <1>2. Occurs(Text(x), Text(r), i)
           <=> i + r.size <= x.size /\ \A j \in 0 .. r.size - 1 : x.chars[i + j] = r.chars[j]
    BY <1>1, OccursIs
  <1>3. ASSUME r.size > 0, MatchAt(x, r, i)
        PROVE  i + r.size <= x.size /\ \A j \in 0 .. r.size - 1 : x.chars[i + j] = r.chars[j]
    <2>1. ASSUME NEW j \in 0 .. r.size - 1
          PROVE  i + j < x.size /\ x.chars[i + j] = r.chars[j]
      <3>1. j \in 0 .. r.length - 1 /\ j < r.size
        BY <1>1
      <3>2. i + j < x.size /\ CharOrZero(x, i + j) = r.chars[j]
        BY <1>3, <3>1 DEF MatchAt, cmov
      <3>3. i + j < x.length
        BY <1>1, <3>1, <3>2
      <3> QED BY <3>2, <3>3 DEF CharOrZero
    <2>2. r.size - 1 \in 0 .. r.size - 1
      BY <1>1, <1>3
    <2>3. i + (r.size - 1) < x.size
      BY <2>1, <2>2
    <2> QED BY <1>1, <2>1, <2>3
  <1>4. ASSUME r.size > 0, i + r.size <= x.size, \A j \in 0 .. r.size - 1 : x.chars[i + j] = r.chars[j]
        PROVE  MatchAt(x, r, i)
    <2>1. ASSUME NEW j \in 0 .. r.length - 1, j < r.size
          PROVE  i + j < x.size /\ CharOrZero(x, i + j) = r.chars[j]
      <3>1. j \in 0 .. r.size - 1 /\ i + j < x.size /\ i + j < x.length
        BY <1>1, <1>4, <2>1
      <3> QED BY <1>4, <3>1 DEF CharOrZero
    <2> QED BY <1>4, <2>1 DEF MatchAt, cmov
  <1>5. MatchAt(x, r, i) => r.size > 0
    BY DEF MatchAt
  <1> QED BY <1>2, <1>3, <1>4, <1>5

\* Where and In, in terms of the characters.
LEMMA WhereIs ==
  ASSUME NEW x, NEW r, IsString(x), IsString(r)
  PROVE  /\ Where(Text(x), Text(r)) = {i \in 0 .. x.size : Occurs(Text(x), Text(r), i)}
         /\ Where(Text(x), Text(r)) \in SUBSET (0 .. x.size)
         /\ (Text(r) = << >>) <=> (r.size = 0)
         /\ r.size = 0 => Where(Text(x), Text(r)) = 0 .. x.size
         /\ r.size > 0 => Where(Text(x), Text(r)) = {i \in 0 .. x.size - 1 : MatchAt(x, r, i)}
  <1> DEFINE t == Text(x)
             n == Text(r)
  <1>1. /\ x.size \in Nat /\ r.size \in Nat /\ Len(t) = x.size /\ n \in Seq(Chars) /\ Len(n) = r.size
    BY StringShape, TextIs
  <1> HIDE DEF t, n
  <1>2. Where(t, n) = {i \in 0 .. x.size : Occurs(t, n, i)}
    BY <1>1 DEF Where
  <1>3. n = << >> <=> r.size = 0
    BY <1>1
  <1>4. \A i \in 0 .. x.size :
          Occurs(t, n, i) <=> i + r.size <= x.size /\ \A j \in 0 .. r.size - 1 : x.chars[i + j] = r.chars[j]
    <2>1. \A i \in 0 .. x.size : i \in Nat
      BY <1>1
    <2> QED BY <2>1, OccursIs DEF t, n
  <1>5. ASSUME r.size = 0 PROVE Where(t, n) = 0 .. x.size
    <2>1. \A i \in 0 .. x.size : Occurs(t, n, i)
      BY <1>1, <1>4, <1>5
    <2> QED BY <1>2, <2>1
  <1>6. ASSUME r.size > 0 PROVE Where(t, n) = {i \in 0 .. x.size - 1 : MatchAt(x, r, i)}
    <2>1. \A i \in 0 .. x.size : Occurs(t, n, i) => i \in 0 .. x.size - 1
      BY <1>1, <1>4, <1>6
    <2>2. \A i \in 0 .. x.size - 1 : i \in 0 .. x.size /\ (MatchAt(x, r, i) <=> Occurs(t, n, i))
      BY <1>1, <1>6, MatchIs DEF t, n
    <2> QED BY <1>2, <2>1, <2>2
  <1> QED BY <1>2, <1>3, <1>5, <1>6 DEF t, n

\* Least and Greatest of a set of positions.
LEMMA LeastOf ==
  ASSUME NEW S \in SUBSET Nat, S # {}
  PROVE  Least(S) \in S /\ \A j \in S : Least(S) <= j
  <1>1. PICK k \in S : \A j \in S : k <= j
    BY LeastElement
  <1>2. Least(S) = k
    BY <1>1, LeastIs
  <1> QED BY <1>1, <1>2

\* A search that finds nothing answers npos.
LEMMA NoPosition == Least({}) = Npos /\ Greatest({}) = Npos
  BY DEF Least, Greatest

\* find
LEMMA FindIs ==
  ASSUME NEW x, NEW r, IsString(x), IsString(r), NEW pos \in 0 .. Npos
  PROVE  find(x, r, pos)
           = Least({i \in Where(Text(x), Text(r)) : i >= pos /\ (Text(r) = << >> => i = pos)})
  <1> DEFINE W == Where(Text(x), Text(r))
             empty == Text(r) = << >>
             matches == [i \in Indices(x) |-> i >= pos /\ i < x.size /\ MatchAt(x, r, i)]
             M == {i \in 0 .. x.length - 1 : matches[i]}
             S == {i \in W : i >= pos /\ (empty => i = pos)}
  <1>1. /\ x.size \in Nat /\ r.size \in Nat /\ x.length \in Nat /\ x.size <= x.length /\ pos \in Nat
    BY StringShape, StringAssumption
  <1>2. /\ W \in SUBSET (0 .. x.size) /\ (empty <=> r.size = 0)
        /\ (r.size = 0 => W = 0 .. x.size)
        /\ (r.size > 0 => W = {i \in 0 .. x.size - 1 : MatchAt(x, r, i)})
    BY WhereIs
  <1>3. matches \in [0 .. x.length - 1 -> BOOLEAN]
    BY DEF Indices
  <1>4. First(x, matches) = Least(M)
    <2> HIDE DEF matches
    <2> QED BY <1>1, <1>3, FirstIs
  <1>5. M = {i \in 0 .. x.length - 1 : i >= pos /\ i < x.size /\ MatchAt(x, r, i)}
    BY DEF Indices
  <1>6. find(x, r, pos) = cmov(r.size = 0 /\ x.size >= pos, pos, First(x, matches))
    BY DEF find
  <1> HIDE DEF W, matches, M, empty
  <1>7. CASE r.size = 0
    <2>1. M = {}
      BY <1>5, <1>7 DEF MatchAt
    <2>2. S = IF x.size >= pos THEN {pos} ELSE {}
      BY <1>1, <1>2, <1>7
    <2>3. Least({pos}) = pos
      BY <1>1, LeastIs
    <2>4. find(x, r, pos) = IF x.size >= pos THEN pos ELSE Npos
      BY <1>4, <1>6, <1>7, <2>1, NoPosition DEF cmov
    <2> HIDE DEF S
    <2>5. Least(S) = IF x.size >= pos THEN pos ELSE Npos
      BY <2>2, <2>3, NoPosition
    <2> QED BY <2>4, <2>5 DEF S, W, empty
  <1>8. CASE r.size # 0
    <2>1. S = M
      BY <1>1, <1>2, <1>5, <1>8
    <2>2. find(x, r, pos) = Least(M)
      BY <1>4, <1>6, <1>8 DEF cmov
    <2> HIDE DEF S
    <2>3. find(x, r, pos) = Least(S)
      BY <2>1, <2>2
    <2> QED BY <2>3 DEF S, W, empty
  <1> QED BY <1>7, <1>8

\* rfind
LEMMA RfindIs ==
  ASSUME NEW x, NEW r, IsString(x), IsString(r), NEW pos \in 0 .. Npos
  PROVE  rfind(x, r, pos)
           = IF Text(r) = << >> /\ pos # Npos THEN cmov(pos <= Len(Text(x)), pos, Npos)
             ELSE Greatest({i \in Where(Text(x), Text(r)) : i <= pos})
  <1> DEFINE W == Where(Text(x), Text(r))
             empty == Text(r) = << >>
             matches == [i \in Indices(x) |-> i < x.size /\ cmov(pos = Npos, TRUE, i <= pos) /\ MatchAt(x, r, i)]
             M == {i \in 0 .. x.length - 1 : matches[i]}
             S == {i \in W : i <= pos}
             ret == cmov(pos = Npos, x.size, pos)
  <1>1. /\ x.size \in Nat /\ r.size \in Nat /\ x.length \in Nat /\ x.size <= x.length /\ pos \in Nat
        /\ Npos \in Nat /\ x.size <= Npos /\ x.length <= Npos
    BY StringShape, StringAssumption
  <1>2. /\ W \in SUBSET (0 .. x.size) /\ (empty <=> r.size = 0)
        /\ (r.size = 0 => W = 0 .. x.size)
        /\ (r.size > 0 => W = {i \in 0 .. x.size - 1 : MatchAt(x, r, i)})
    BY WhereIs
  <1>3. matches \in [0 .. x.length - 1 -> BOOLEAN]
    BY DEF Indices
  <1>4. Last(x, matches) = Greatest(M)
    <2> HIDE DEF matches
    <2> QED BY <1>1, <1>3, LastIs
  <1>5. M = {i \in 0 .. x.length - 1 : i < x.size /\ i <= pos /\ MatchAt(x, r, i)}
    <2>1. M = {i \in 0 .. x.length - 1 : i < x.size /\ cmov(pos = Npos, TRUE, i <= pos) /\ MatchAt(x, r, i)}
      BY DEF Indices
    <2>2. \A i \in 0 .. x.length - 1 : cmov(pos = Npos, TRUE, i <= pos) <=> i <= pos
      BY <1>1 DEF cmov
    <2> QED BY <2>1, <2>2
  <1>6. rfind(x, r, pos) = cmov(r.size = 0 /\ x.size >= ret, ret, Last(x, matches))
    BY DEF rfind
  <1>7. Len(Text(x)) = x.size
    BY TextIs
  <1> HIDE DEF W, matches, M, empty
  <1>8. CASE r.size = 0 /\ pos # Npos
    <2>1. M = {}
      BY <1>5, <1>8 DEF MatchAt
    <2>2. rfind(x, r, pos) = IF x.size >= pos THEN pos ELSE Npos
      BY <1>4, <1>6, <1>8, <2>1, NoPosition DEF cmov
    <2> QED BY <1>1, <1>2, <1>7, <1>8, <2>2 DEF cmov, empty
  <1>9. CASE r.size = 0 /\ pos = Npos
    <2>1. S = 0 .. x.size
      BY <1>1, <1>2, <1>9
    <2> HIDE DEF S
    <2>2. Greatest(S) = x.size
      BY <1>1, <2>1, GreatestIs
    <2>3. rfind(x, r, pos) = x.size
      BY <1>1, <1>6, <1>9 DEF cmov
    <2> QED BY <1>9, <2>2, <2>3 DEF S, W
  <1>10. CASE r.size # 0
    <2>1. S = M
      BY <1>1, <1>2, <1>5, <1>10
    <2>2. rfind(x, r, pos) = Greatest(M)
      BY <1>4, <1>6, <1>10 DEF cmov
    <2> HIDE DEF S
    <2>3. rfind(x, r, pos) = Greatest(S) /\ ~empty
      BY <1>2, <1>10, <2>1, <2>2
    <2> QED BY <2>3 DEF S, W, empty
  <1> QED BY <1>8, <1>9, <1>10

\* The scan for a character of a set, at a position in use.
LEMMA AnyOfIs ==
  ASSUME NEW x, NEW r, IsString(x), IsString(r), NEW i \in 0 .. x.size - 1
  PROVE  /\ i + 1 \in 1 .. x.size /\ Text(x)[i + 1] = x.chars[i]
         /\ AnyOf(x, r, i) <=> Text(x)[i + 1] \in CharsOf(Text(r))
         /\ ~AnyOf(x, r, i) <=> Text(x)[i + 1] \in Chars \ CharsOf(Text(r))
  <1> DEFINE n == Text(r)
  <1>1. x.size \in Nat /\ r.size \in Nat /\ r.length \in Nat /\ r.size <= r.length /\ x.chars[i] \in Chars
    BY StringShape
  <1>2. Len(n) = r.size /\ \A k \in 1 .. r.size : n[k] = r.chars[k - 1]
    BY TextIs
  <1>3. i + 1 \in 1 .. x.size /\ (i + 1) - 1 = i
    BY <1>1
  <1>4. Text(x)[i + 1] = x.chars[i]
    BY <1>3, TextIs
  <1> HIDE DEF n
  <1>5. CharsOf(n) = {n[k] : k \in 1 .. r.size}
    BY <1>2 DEF CharsOf
  <1>6. ASSUME AnyOf(x, r, i) PROVE x.chars[i] \in CharsOf(n)
    <2>1. PICK j \in 0 .. r.length - 1 : j < r.size /\ x.chars[i] = r.chars[j]
      BY <1>6 DEF AnyOf
    <2>2. j + 1 \in 1 .. r.size /\ (j + 1) - 1 = j
      BY <1>1, <2>1
    <2>3. n[j + 1] = r.chars[j]
      BY <1>2, <2>2
    <2> QED BY <1>5, <2>1, <2>2, <2>3
  <1>7. ASSUME x.chars[i] \in CharsOf(n) PROVE AnyOf(x, r, i)
    <2>1. PICK k \in 1 .. r.size : x.chars[i] = n[k]
      BY <1>5, <1>7
    <2>2. k - 1 \in 0 .. r.length - 1 /\ k - 1 < r.size
      BY <1>1
    <2>3. x.chars[i] = r.chars[k - 1]
      BY <1>2, <2>1
    <2> QED BY <2>2, <2>3 DEF AnyOf
  <1> QED BY <1>1, <1>3, <1>4, <1>6, <1>7 DEF n

\* find_first_of, find_last_of, find_first_not_of, find_last_not_of
LEMMA SetSearches ==
  ASSUME NEW x, NEW r, IsString(x), IsString(r), NEW pos \in 0 .. Npos
  PROVE  LET set == CharsOf(Text(r))
             other == Chars \ CharsOf(Text(r))
         IN  /\ find_first_of(x, r, pos) = Least({i \in In(Text(x), set) : i >= pos})
             /\ find_last_of(x, r) = Greatest(In(Text(x), set))
             /\ find_first_not_of(x, r, pos) = Least({i \in In(Text(x), other) : i >= pos})
             /\ find_last_not_of(x, r) = Greatest(In(Text(x), other))
  <1> DEFINE set == CharsOf(Text(r))
             other == Chars \ CharsOf(Text(r))
             t == Text(x)
             m1 == [i \in Indices(x) |-> i >= pos /\ i < x.size /\ AnyOf(x, r, i)]
             m2 == [i \in Indices(x) |-> i < x.size /\ AnyOf(x, r, i)]
             m3 == [i \in Indices(x) |-> i >= pos /\ i < x.size /\ ~AnyOf(x, r, i)]
             m4 == [i \in Indices(x) |-> i < x.size /\ ~AnyOf(x, r, i)]
             I == {i \in 0 .. x.size - 1 : AnyOf(x, r, i)}
             J == {i \in 0 .. x.size - 1 : ~AnyOf(x, r, i)}
  <1>1. x.size \in Nat /\ x.length \in Nat /\ x.size <= x.length /\ pos \in Nat /\ Len(t) = x.size
    BY StringShape, StringAssumption, TextIs
  <1>2. \A i \in 0 .. x.size - 1 : (AnyOf(x, r, i) <=> t[i + 1] \in set) /\ (~AnyOf(x, r, i) <=> t[i + 1] \in other)
    BY AnyOfIs
  <1>3. \A q : In(t, q) = {i \in 0 .. x.size - 1 : t[i + 1] \in q}
    BY <1>1 DEF In
  <1> HIDE DEF t, set, other
  <1>0. In(t, set) = I /\ In(t, other) = J
    BY <1>2, <1>3
  <1>4. Indices(x) = 0 .. x.length - 1
    BY DEF Indices
  <1>5. find_first_of(x, r, pos) = Least({i \in In(t, set) : i >= pos})
    <2>1. m1 \in [0 .. x.length - 1 -> BOOLEAN]
      BY <1>4
    <2>2. {i \in 0 .. x.length - 1 : m1[i]} = {i \in In(t, set) : i >= pos}
      <3>1. {i \in 0 .. x.length - 1 : m1[i]} = {i \in 0 .. x.length - 1 : i >= pos /\ i < x.size /\ AnyOf(x, r, i)}
        BY DEF Indices
      <3>2. {i \in 0 .. x.length - 1 : i >= pos /\ i < x.size /\ AnyOf(x, r, i)} = {i \in I : i >= pos}
        BY <1>1
      <3> HIDE DEF I, J, m1
      <3> QED BY <1>0, <3>1, <3>2
    <2>3. find_first_of(x, r, pos) = First(x, m1)
      BY DEF find_first_of
    <2> HIDE DEF m1
    <2> QED BY <1>1, <2>1, <2>2, <2>3, FirstIs
  <1>6. find_last_of(x, r) = Greatest(In(t, set))
    <2>1. m2 \in [0 .. x.length - 1 -> BOOLEAN]
      BY <1>4
    <2>2. {i \in 0 .. x.length - 1 : m2[i]} = In(t, set)
      <3>1. {i \in 0 .. x.length - 1 : m2[i]} = {i \in 0 .. x.length - 1 : i < x.size /\ AnyOf(x, r, i)}
        BY DEF Indices
      <3>2. {i \in 0 .. x.length - 1 : i < x.size /\ AnyOf(x, r, i)} = I
        BY <1>1
      <3> HIDE DEF I, J, m2
      <3> QED BY <1>0, <3>1, <3>2
    <2>3. find_last_of(x, r) = Last(x, m2)
      BY DEF find_last_of
    <2> HIDE DEF m2
    <2> QED BY <1>1, <2>1, <2>2, <2>3, LastIs
  <1>7. find_first_not_of(x, r, pos) = Least({i \in In(t, other) : i >= pos})
    <2>1. m3 \in [0 .. x.length - 1 -> BOOLEAN]
      BY <1>4
    <2>2. {i \in 0 .. x.length - 1 : m3[i]} = {i \in In(t, other) : i >= pos}
      <3>1. {i \in 0 .. x.length - 1 : m3[i]} = {i \in 0 .. x.length - 1 : i >= pos /\ i < x.size /\ ~AnyOf(x, r, i)}
        BY DEF Indices
      <3>2. {i \in 0 .. x.length - 1 : i >= pos /\ i < x.size /\ ~AnyOf(x, r, i)} = {i \in J : i >= pos}
        BY <1>1
      <3> HIDE DEF I, J, m3
      <3> QED BY <1>0, <3>1, <3>2
    <2>3. find_first_not_of(x, r, pos) = First(x, m3)
      BY DEF find_first_not_of
    <2> HIDE DEF m3
    <2> QED BY <1>1, <2>1, <2>2, <2>3, FirstIs
  <1>8. find_last_not_of(x, r) = Greatest(In(t, other))
    <2>1. m4 \in [0 .. x.length - 1 -> BOOLEAN]
      BY <1>4
    <2>2. {i \in 0 .. x.length - 1 : m4[i]} = In(t, other)
      <3>1. {i \in 0 .. x.length - 1 : m4[i]} = {i \in 0 .. x.length - 1 : i < x.size /\ ~AnyOf(x, r, i)}
        BY DEF Indices
      <3>2. {i \in 0 .. x.length - 1 : i < x.size /\ ~AnyOf(x, r, i)} = J
        BY <1>1
      <3> HIDE DEF I, J, m4
      <3> QED BY <1>0, <3>1, <3>2
    <2>3. find_last_not_of(x, r) = Last(x, m4)
      BY DEF find_last_not_of
    <2> HIDE DEF m4
    <2> QED BY <1>1, <2>1, <2>2, <2>3, LastIs
  <1> QED BY <1>5, <1>6, <1>7, <1>8 DEF t, set, other

----------------------------------------------------------------------------
(* starts_with, ends_with, contains *)

\* starts_with
LEMMA StartsWithIs ==
  ASSUME NEW x, NEW r, IsString(x), IsString(r)
  PROVE  starts_with(x, r) <=> Occurs(Text(x), Text(r), 0)
  <1>1. /\ x.size \in Nat /\ r.size \in Nat /\ x.length \in Nat /\ r.length \in Nat
        /\ x.size <= x.length /\ r.size <= r.length
    BY StringShape
  <1>2. Occurs(Text(x), Text(r), 0)
           <=> 0 + r.size <= x.size /\ \A j \in 0 .. r.size - 1 : x.chars[0 + j] = r.chars[j]
    BY OccursIs
  <1>3. ASSUME r.size <= x.size, NEW j \in 0 .. r.length - 1, j < r.size
        PROVE  j \in 0 .. r.size - 1 /\ CharOrZero(x, j) = x.chars[j] /\ 0 + j = j
    BY <1>1, <1>3 DEF CharOrZero
  <1>4. \A j \in 0 .. r.size - 1 : j \in 0 .. r.length - 1 /\ j < r.size /\ 0 + j = j
    BY <1>1
  <1>5. starts_with(x, r)
          <=> x.size >= r.size /\ \A j \in 0 .. r.length - 1 : j < r.size => CharOrZero(x, j) = r.chars[j]
    BY DEF starts_with, cmov
  <1>6. CASE r.size <= x.size
    <2>1. (\A j \in 0 .. r.length - 1 : j < r.size => CharOrZero(x, j) = r.chars[j])
            <=> \A j \in 0 .. r.size - 1 : x.chars[0 + j] = r.chars[j]
      BY <1>3, <1>4, <1>6
    <2> QED BY <1>1, <1>2, <1>5, <1>6, <2>1
  <1>7. CASE ~(r.size <= x.size)
    BY <1>1, <1>2, <1>5, <1>7
  <1> QED BY <1>6, <1>7

\* ends_with, whose start wraps when the other string is longer
LEMMA EndsWithIs ==
  ASSUME NEW x, NEW r, IsString(x), IsString(r)
  PROVE  ends_with(x, r)
           <=> Len(Text(r)) <= Len(Text(x)) /\ Occurs(Text(x), Text(r), Len(Text(x)) - Len(Text(r)))
  <1> DEFINE d == x.size - r.size
             start == Wrap(x.size + Npos + 1 - r.size)
  <1>1. /\ x.size \in Nat /\ r.size \in Nat /\ x.length \in Nat /\ r.length \in Nat
        /\ x.size <= x.length /\ r.size <= r.length /\ Npos \in Nat /\ x.length <= Npos
    BY StringShape, StringAssumption
  <1>2. Len(Text(x)) = x.size /\ Len(Text(r)) = r.size
    BY TextIs
  <1>3. ends_with(x, r)
          <=> x.size >= r.size /\ \A j \in 0 .. r.length - 1 : j < r.size => CharOrZero(x, Wrap(start + j)) = r.chars[j]
    BY DEF ends_with, cmov
  <1>4. CASE r.size <= x.size
    <2>1. d \in Nat /\ d \in 0 .. Npos /\ x.size + Npos + 1 - r.size = d + Npos + 1
      BY <1>1, <1>4
    <2>2. start = d
      <3> HIDE DEF d
      <3> QED BY <2>1, WrapIs
    <2>3. Occurs(Text(x), Text(r), d)
             <=> d + r.size <= x.size /\ \A j \in 0 .. r.size - 1 : x.chars[d + j] = r.chars[j]
      <3> HIDE DEF d
      <3> QED BY <2>1, OccursIs
    <2>4. ASSUME NEW j \in 0 .. r.length - 1, j < r.size
          PROVE  j \in 0 .. r.size - 1 /\ CharOrZero(x, Wrap(start + j)) = x.chars[d + j]
      <3>1. j \in 0 .. r.size - 1 /\ d + j \in 0 .. Npos /\ d + j < x.length
        BY <1>1, <1>4, <2>4
      <3>2. Wrap(start + j) = d + j
        <4> HIDE DEF d, start
        <4> QED BY <2>2, <3>1, WrapIs
      <3> QED BY <3>1, <3>2 DEF CharOrZero
    <2>5. \A j \in 0 .. r.size - 1 : j \in 0 .. r.length - 1 /\ j < r.size
      BY <1>1
    <2>6. d + r.size <= x.size
      BY <1>1
    <2> HIDE DEF start, d
    <2>7. (\A j \in 0 .. r.length - 1 : j < r.size => CharOrZero(x, Wrap(start + j)) = r.chars[j])
            <=> \A j \in 0 .. r.size - 1 : x.chars[d + j] = r.chars[j]
      BY <2>4, <2>5
    <2>8. x.size >= r.size
      BY <1>1, <1>4
    <2> QED BY <1>2, <1>3, <1>4, <2>3, <2>6, <2>7, <2>8 DEF d
  <1>5. CASE ~(r.size <= x.size)
    <2>1. ~(x.size >= r.size)
      BY <1>1, <1>5
    <2> QED BY <1>2, <1>3, <1>5, <2>1
  <1> QED BY <1>4, <1>5

\* contains
LEMMA ContainsIs ==
  ASSUME NEW x, NEW r, IsString(x), IsString(r)
  PROVE  contains(x, r) <=> Where(Text(x), Text(r)) # {}
  <1> DEFINE W == Where(Text(x), Text(r))
             empty == Text(r) = << >>
             S == {i \in W : i >= 0 /\ (empty => i = 0)}
  <1>1. x.size \in Nat /\ r.size \in Nat /\ x.size < Npos /\ Npos \in Nat /\ 0 \in 0 .. Npos
    BY StringShape, StringAssumption
  <1>2. W \in SUBSET (0 .. x.size) /\ (empty <=> r.size = 0) /\ (r.size = 0 => W = 0 .. x.size)
    BY WhereIs
  <1>3. find(x, r, 0) = Least(S)
    BY <1>1, FindIs
  <1> HIDE DEF W, empty
  <1>4. S # {} <=> W # {}
    <2>1. CASE r.size = 0
      <3>1. 0 \in W
        BY <1>1, <1>2, <2>1
      <3> QED BY <3>1
    <2>2. CASE r.size # 0
      <3>1. \A i \in W : i >= 0 /\ ~empty
        BY <1>1, <1>2, <2>2
      <3> QED BY <3>1
    <2> QED BY <2>1, <2>2
  <1>5. S \in SUBSET Nat /\ \A i \in S : i <= x.size
    <2>1. \A i \in W : i \in Nat /\ i <= x.size
      BY <1>1, <1>2
    <2> QED BY <2>1
  <1> HIDE DEF S
  <1>6. Least(S) # Npos <=> S # {}
    <2>1. CASE S = {}
      BY <2>1, NoPosition
    <2>2. CASE S # {}
      <3>1. Least(S) \in S
        BY <1>5, <2>2, LeastOf
      <3>2. Least(S) <= x.size /\ Least(S) \in Nat
        BY <1>5, <3>1
      <3> QED BY <1>1, <2>2, <3>2
    <2> QED BY <2>1, <2>2
  <1> QED BY <1>3, <1>4, <1>6 DEF contains, W

----------------------------------------------------------------------------
(* compare *)

\* The turns up to i that decide, and the outcome after them
Deciding(x, r, i) == {k \in 0 .. i - 1 : Below(x, r, k) \/ Below(r, x, k)}
Outcome(x, r, D) == IF D = {} THEN 0 ELSE IF Below(r, x, Least(D)) THEN 1 ELSE -1

\* At no index is each string below the other.
LEMMA BelowOneWay ==
  ASSUME NEW x, NEW r, IsString(x), IsString(r), NEW i \in Nat
  PROVE  ~(Below(x, r, i) /\ Below(r, x, i))
  <1> SUFFICES ASSUME Below(x, r, i), Below(r, x, i) PROVE FALSE
    OBVIOUS
  <1>1. x.size \in Nat /\ r.size \in Nat /\ x.size <= x.length /\ r.size <= r.length
        /\ x.length \in Nat /\ r.length \in Nat
    BY StringShape
  <1>2. i < x.size /\ i < r.size /\ i < x.length /\ i < r.length
    BY <1>1 DEF Below
  <1>3. CharOrZero(x, i) < CharOrZero(r, i) /\ CharOrZero(r, i) < CharOrZero(x, i)
    BY <1>2 DEF Below
  <1>4. CharOrZero(x, i) \in Nat /\ CharOrZero(r, i) \in Nat
    <2>1. i \in 0 .. x.size - 1 /\ i \in 0 .. r.size - 1
      BY <1>1, <1>2
    <2>2. x.chars[i] \in Chars /\ r.chars[i] \in Chars
      BY <2>1, StringShape
    <2> QED BY <1>2, <2>2, StringAssumption DEF CharOrZero
  <1> QED BY <1>3, <1>4

\* One turn of the loop.
LEMMA CompareTurns ==
  ASSUME NEW x, NEW r, IsString(x), IsString(r), NEW i \in Nat
  PROVE  CompareTurn([result |-> Outcome(x, r, Deciding(x, r, i)), decided |-> Deciding(x, r, i) # {}], x, r, i)
           = [result |-> Outcome(x, r, Deciding(x, r, i + 1)), decided |-> Deciding(x, r, i + 1) # {}]
  <1> DEFINE D == Deciding(x, r, i)
             E == Deciding(x, r, i + 1)
             lt == Below(x, r, i)
             gt == Below(r, x, i)
             t == [result |-> Outcome(x, r, D), decided |-> D # {}]
  <1>1. D \in SUBSET Nat /\ E \in SUBSET Nat /\ \A k \in D : k < i
    BY DEF Deciding
  <1>2. E = D \cup (IF lt \/ gt THEN {i} ELSE {})
    BY DEF Deciding
  <1>3. ~(lt /\ gt)
    BY BelowOneWay
  <1>4. lt \in BOOLEAN /\ gt \in BOOLEAN
    BY DEF Below
  <1>5. CompareTurn(t, x, r, i)
          = [result |-> cmov(~t.decided /\ gt, 1, cmov(~t.decided /\ lt, -1, t.result)),
             decided |-> t.decided \/ lt \/ gt]
    BY DEF CompareTurn
  <1>6. CASE D # {}
    <2>1. PICK k \in D : \A j \in D : k <= j
      BY <1>1, <1>6, LeastElement
    <2>2. k \in E /\ \A j \in E : k <= j
      BY <1>1, <1>2, <2>1
    <2> HIDE DEF D, E
    <2>3. Least(D) = k /\ Least(E) = k
      BY <1>1, <2>1, <2>2, LeastIs
    <2>4. E # {} /\ Outcome(x, r, E) = Outcome(x, r, D)
      BY <1>6, <2>2, <2>3 DEF Outcome
    <2>5. CompareTurn(t, x, r, i) = [result |-> Outcome(x, r, D), decided |-> TRUE]
      BY <1>5, <1>6 DEF cmov
    <2> QED BY <2>4, <2>5 DEF D, E
  <1>7. CASE D = {}
    <2> HIDE DEF D, E, lt, gt
    <2>0. Outcome(x, r, D) = 0
      BY <1>7 DEF Outcome
    <2>1. CASE lt \/ gt
      <3>1. E = {i}
        BY <1>2, <1>7, <2>1
      <3>2. Least({i}) = i
        BY LeastIs
      <3>3. Outcome(x, r, E) = IF gt THEN 1 ELSE -1
        BY <3>1, <3>2 DEF Outcome, gt
      <3>4. CompareTurn(t, x, r, i) = [result |-> IF gt THEN 1 ELSE -1, decided |-> TRUE]
        BY <1>3, <1>5, <1>7, <2>1 DEF cmov
      <3> QED BY <3>1, <3>3, <3>4 DEF D, E
    <2>2. CASE ~(lt \/ gt)
      <3>1. E = {}
        BY <1>2, <1>7, <2>2
      <3>2. Outcome(x, r, E) = 0
        BY <3>1 DEF Outcome
      <3>3. CompareTurn(t, x, r, i) = [result |-> 0, decided |-> FALSE]
        BY <1>5, <1>7, <2>0, <2>2 DEF cmov
      <3> QED BY <3>1, <3>2, <3>3 DEF D, E
    <2> QED BY <2>1, <2>2
  <1> QED BY <1>6, <1>7

\* compare after its loop
LEMMA CompareLoop ==
  ASSUME NEW x, NEW r, IsString(x), IsString(r)
  PROVE  LET m == IF x.length > r.length THEN x.length ELSE r.length
         IN  compare(x, r) = Outcome(x, r, Deciding(x, r, m))
  <1> DEFINE n == IF x.length > r.length THEN x.length ELSE r.length
             Val(i) == [result |-> Outcome(x, r, Deciding(x, r, i)), decided |-> Deciding(x, r, i) # {}]
             c == [i \in 0 .. n |-> Val(i)]
             Start == [result |-> 0, decided |-> FALSE]
             IsLoop(f) == f = [i \in 0 .. n |-> IF i = 0 THEN Start ELSE CompareTurn(f[i - 1], x, r, i - 1)]
             loop == CHOOSE f : IsLoop(f)
  <1>1. compare(x, r) = loop[n].result
    BY DEF compare
  <1>2. c[0] = Start /\ n \in Nat
    <2>1. n \in Nat
      BY StringShape
    <2>2. Deciding(x, r, 0) = {}
      BY DEF Deciding
    <2>3. Val(0) = Start
      BY <2>2 DEF Outcome
    <2> HIDE DEF n, Val, Start
    <2> QED BY <2>1, <2>3
  <1> HIDE DEF n
  <1>3. \A i \in 0 .. n - 1 : c[i + 1] = CompareTurn(c[i], x, r, i)
    <2> SUFFICES ASSUME NEW i \in 0 .. n - 1 PROVE c[i + 1] = CompareTurn(c[i], x, r, i)
      OBVIOUS
    <2>1. i \in 0 .. n /\ i + 1 \in 0 .. n /\ i \in Nat
      BY <1>2
    <2>2. Val(i + 1) = CompareTurn(Val(i), x, r, i)
      BY <2>1, CompareTurns
    <2> HIDE DEF Val
    <2> QED BY <2>1, <2>2
  <1>4. IsLoop(c)
    <2> DEFINE d == [i \in 0 .. n |-> IF i = 0 THEN Start ELSE CompareTurn(c[i - 1], x, r, i - 1)]
    <2>1. \A i \in 0 .. n : c[i] = d[i]
      <3> HIDE DEF c, Start
      <3> QED BY <1>2, <1>3
    <2> QED BY <2>1
  <1>5. IsLoop(loop)
    <2> HIDE DEF IsLoop, c
    <2> QED BY <1>4
  <1>6. loop = c
    <2> HIDE DEF loop, Start, Val
    <2>1. loop = [i \in 0 .. n |-> loop[i]]
      BY <1>5
    <2>2. loop[0] = Start /\ \A i \in 0 .. n - 1 : loop[i + 1] = CompareTurn(loop[i], x, r, i)
      BY <1>2, <1>5
    <2> HIDE DEF c, IsLoop
    <2>3. c = [i \in 0 .. n |-> c[i]]
      BY DEF c
    <2>4. \A i \in 0 .. n - 1 : loop[i] = c[i] => loop[i + 1] = c[i + 1]
      BY <1>3, <2>2
    <2>5. n \in Nat /\ loop[0] = c[0]
      BY <1>2, <2>2
    <2> QED BY <2>1, <2>3, <2>4, <2>5, LoopsEqual
  <1>7. c[n] = Val(n)
    <2> HIDE DEF Val
    <2> QED BY <1>2
  <1>8. Val(n).result = Outcome(x, r, Deciding(x, r, n))
    OBVIOUS
  <1> HIDE DEF c, loop, Val
  <1> QED BY <1>1, <1>6, <1>7, <1>8 DEF n

\* A prefix of a text.
LEMMA PrefixIs ==
  ASSUME NEW x, IsString(x), NEW k \in 0 .. x.size
  PROVE  LET p == SubSeq(Text(x), 1, k)
         IN  p \in Seq(Chars) /\ Len(p) = k /\ \A j \in 0 .. k - 1 : p[j + 1] = x.chars[j]
  <1> DEFINE t == Text(x)
             p == SubSeq(t, 1, k)
  <1>1. x.size \in Nat /\ k \in Nat /\ k \in Int /\ k <= x.size /\ 1 \in Int
    BY StringShape
  <1>2. t \in Seq(Chars) /\ Len(t) = x.size /\ \A i \in 1 .. x.size : t[i] = x.chars[i - 1]
    BY TextIs
  <1> HIDE DEF t
  <1>3. \A i \in 1 .. k : t[i] \in Chars
    BY <1>1, <1>2, LenProperties
  <1>4. /\ p \in Seq(Chars) /\ Len(p) = IF 1 <= k THEN k - 1 + 1 ELSE 0
        /\ \A i \in 1 .. k - 1 + 1 : p[i] = t[1 + i - 1]
    BY <1>1, <1>3, SubSeqProperties
  <1> HIDE DEF p
  <1>5. Len(p) = k
    BY <1>1, <1>4
  <1>6. ASSUME NEW j \in 0 .. k - 1 PROVE p[j + 1] = x.chars[j]
    <2>1. j + 1 \in 1 .. k - 1 + 1 /\ j + 1 \in 1 .. x.size /\ 1 + (j + 1) - 1 = j + 1 /\ (j + 1) - 1 = j
      BY <1>1
    <2>2. p[j + 1] = t[j + 1]
      BY <1>4, <2>1
    <2>3. t[j + 1] = x.chars[j]
      BY <1>2, <2>1
    <2> QED BY <2>2, <2>3
  <1> QED BY <1>4, <1>5, <1>6 DEF p, t

\* Prefixes of two texts are equal when the characters in use are.
LEMMA SamePrefix ==
  ASSUME NEW x, NEW r, IsString(x), IsString(r), NEW k \in Nat, k <= x.size, k <= r.size
  PROVE  SubSeq(Text(x), 1, k) = SubSeq(Text(r), 1, k) <=> \A j \in 0 .. k - 1 : x.chars[j] = r.chars[j]
  <1> DEFINE p == SubSeq(Text(x), 1, k)
             q == SubSeq(Text(r), 1, k)
  <1>0. k \in 0 .. x.size /\ k \in 0 .. r.size
    BY StringShape
  <1>1. p \in Seq(Chars) /\ Len(p) = k /\ \A j \in 0 .. k - 1 : p[j + 1] = x.chars[j]
    BY <1>0, PrefixIs
  <1>2. q \in Seq(Chars) /\ Len(q) = k /\ \A j \in 0 .. k - 1 : q[j + 1] = r.chars[j]
    BY <1>0, PrefixIs
  <1> HIDE DEF p, q
  <1>3. ASSUME p = q PROVE \A j \in 0 .. k - 1 : x.chars[j] = r.chars[j]
    BY <1>1, <1>2, <1>3
  <1>4. ASSUME \A j \in 0 .. k - 1 : x.chars[j] = r.chars[j] PROVE p = q
    <2>1. \A i \in 1 .. k : p[i] = q[i]
      <3> SUFFICES ASSUME NEW i \in 1 .. k PROVE p[i] = q[i]
        OBVIOUS
      <3>1. i - 1 \in 0 .. k - 1 /\ (i - 1) + 1 = i
        OBVIOUS
      <3>2. p[(i - 1) + 1] = q[(i - 1) + 1]
        BY <1>1, <1>2, <1>4, <3>1
      <3> QED BY <3>1, <3>2
    <2> QED BY <1>1, <1>2, <2>1, SeqEqual
  <1> QED BY <1>3, <1>4 DEF p, q

\* Two texts are equal when the strings use as many characters, all equal.
LEMMA SameText ==
  ASSUME NEW x, NEW r, IsString(x), IsString(r)
  PROVE  Text(x) = Text(r) <=> x.size = r.size /\ \A j \in 0 .. x.size - 1 : x.chars[j] = r.chars[j]
  <1>1. /\ Text(x) \in Seq(Chars) /\ Len(Text(x)) = x.size
        /\ \A i \in 1 .. x.size : Text(x)[i] = x.chars[i - 1]
    BY TextIs
  <1>2. /\ Text(r) \in Seq(Chars) /\ Len(Text(r)) = r.size
        /\ \A i \in 1 .. r.size : Text(r)[i] = r.chars[i - 1]
    BY TextIs
  <1>3. ASSUME Text(x) = Text(r)
        PROVE  x.size = r.size /\ \A j \in 0 .. x.size - 1 : x.chars[j] = r.chars[j]
    <2>1. x.size = r.size
      BY <1>1, <1>2, <1>3
    <2>2. ASSUME NEW j \in 0 .. x.size - 1 PROVE x.chars[j] = r.chars[j]
      <3>1. j + 1 \in 1 .. x.size /\ (j + 1) - 1 = j
        BY StringShape
      <3>2. Text(x)[j + 1] = x.chars[j]
        BY <1>1, <3>1
      <3>3. Text(r)[j + 1] = r.chars[j]
        BY <1>2, <2>1, <3>1
      <3> QED BY <1>3, <3>2, <3>3
    <2> QED BY <2>1, <2>2
  <1>4. ASSUME x.size = r.size, \A j \in 0 .. x.size - 1 : x.chars[j] = r.chars[j]
        PROVE  Text(x) = Text(r)
    <2>1. \A j \in 0 .. x.size - 1 : x.chars[j] = Text(r)[j + 1]
      <3> SUFFICES ASSUME NEW j \in 0 .. x.size - 1 PROVE x.chars[j] = Text(r)[j + 1]
        OBVIOUS
      <3>1. j + 1 \in 1 .. r.size /\ (j + 1) - 1 = j
        BY <1>4, StringShape
      <3>2. Text(r)[j + 1] = r.chars[j]
        BY <1>2, <3>1
      <3> QED BY <1>4, <3>2
    <2> QED BY <1>2, <1>4, <2>1, TextEqual
  <1> QED BY <1>3, <1>4

\* The order of texts, in terms of the characters.
LEMMA LessIs ==
  ASSUME NEW x, NEW r, IsString(x), IsString(r)
  PROVE  Less(Text(x), Text(r))
           <=> \E k \in 0 .. x.size : /\ k < r.size /\ \A j \in 0 .. k - 1 : x.chars[j] = r.chars[j]
                                      /\ k = x.size \/ x.chars[k] < r.chars[k]
  <1> DEFINE t == Text(x)
             n == Text(r)
  <1>1. Len(t) = x.size /\ \A i \in 1 .. x.size : t[i] = x.chars[i - 1]
    BY TextIs
  <1>2. Len(n) = r.size /\ \A i \in 1 .. r.size : n[i] = r.chars[i - 1]
    BY TextIs
  <1>3. x.size \in Nat /\ r.size \in Nat
    BY StringShape
  <1>4. Less(t, n) <=> \E k \in 0 .. x.size :
                         /\ k < r.size /\ SubSeq(t, 1, k) = SubSeq(n, 1, k)
                         /\ k = x.size \/ t[k + 1] < n[k + 1]
    <2> HIDE DEF t, n
    <2> QED BY <1>1, <1>2 DEF Less
  <1>5. ASSUME NEW k \in 0 .. x.size, k < r.size
        PROVE  /\ SubSeq(t, 1, k) = SubSeq(n, 1, k) <=> \A j \in 0 .. k - 1 : x.chars[j] = r.chars[j]
               /\ k # x.size => (t[k + 1] = x.chars[k] /\ n[k + 1] = r.chars[k])
    <2>1. k \in Nat /\ k <= x.size /\ k <= r.size /\ (k + 1) - 1 = k /\ k + 1 \in 1 .. r.size
          /\ (k # x.size => k + 1 \in 1 .. x.size)
      BY <1>3, <1>5
    <2>2. SubSeq(t, 1, k) = SubSeq(n, 1, k) <=> \A j \in 0 .. k - 1 : x.chars[j] = r.chars[j]
      BY <2>1, SamePrefix
    <2> HIDE DEF t, n
    <2> QED BY <1>1, <1>2, <2>1, <2>2
  <1> HIDE DEF t, n
  <1>6. \A k \in 0 .. x.size :
          (/\ k < r.size /\ SubSeq(t, 1, k) = SubSeq(n, 1, k)
           /\ k = x.size \/ t[k + 1] < n[k + 1])
          <=> (/\ k < r.size /\ \A j \in 0 .. k - 1 : x.chars[j] = r.chars[j]
               /\ k = x.size \/ x.chars[k] < r.chars[k])
    BY <1>5
  <1> QED BY <1>4, <1>6 DEF t, n

\* Where compare's loop finds the left character below the right one.
LEMMA BelowIs ==
  ASSUME NEW x, NEW r, IsString(x), IsString(r), NEW i \in Nat
  PROVE  /\ Below(x, r, i) <=> i < r.size /\ (i < x.size => x.chars[i] < r.chars[i])
         /\ i < x.size => x.chars[i] \in Nat
  <1>1. x.size \in Nat /\ r.size \in Nat /\ x.size <= x.length /\ r.size <= r.length
        /\ x.length \in Nat /\ r.length \in Nat
    BY StringShape
  <1>2. i < x.size => CharOrZero(x, i) = x.chars[i]
    BY <1>1 DEF CharOrZero
  <1>3. i < r.size => CharOrZero(r, i) = r.chars[i]
    BY <1>1 DEF CharOrZero
  <1>4. i < x.size => x.chars[i] \in Nat
    <2> SUFFICES ASSUME i < x.size PROVE x.chars[i] \in Nat
      OBVIOUS
    <2>1. i \in 0 .. x.size - 1
      BY <1>1
    <2>2. x.chars[i] \in Chars
      BY <2>1, StringShape
    <2> QED BY <2>2, StringAssumption
  <1> QED BY <1>2, <1>3, <1>4 DEF Below

\* compare: the lexicographic order of the texts.
LEMMA CompareIs ==
  ASSUME NEW x, NEW r, IsString(x), IsString(r)
  PROVE  compare(x, r) = IF Less(Text(x), Text(r)) THEN -1 ELSE IF Text(x) = Text(r) THEN 0 ELSE 1
  <1> DEFINE m == IF x.length > r.length THEN x.length ELSE r.length
             D == Deciding(x, r, m)
             less == \E k \in 0 .. x.size : /\ k < r.size /\ \A j \in 0 .. k - 1 : x.chars[j] = r.chars[j]
                                            /\ k = x.size \/ x.chars[k] < r.chars[k]
             same == x.size = r.size /\ \A j \in 0 .. x.size - 1 : x.chars[j] = r.chars[j]
  <1>1. /\ x.size \in Nat /\ r.size \in Nat /\ m \in Nat /\ x.size <= m /\ r.size <= m
    BY StringShape
  <1>2. compare(x, r) = Outcome(x, r, D)
    BY CompareLoop
  <1>3. (Less(Text(x), Text(r)) <=> less) /\ (Text(x) = Text(r) <=> same)
    BY LessIs, SameText
  <1>4. D = {k \in 0 .. m - 1 : Below(x, r, k) \/ Below(r, x, k)}
    BY DEF Deciding
  <1>5. \A k \in Nat : /\ Below(x, r, k) <=> k < r.size /\ (k < x.size => x.chars[k] < r.chars[k])
                       /\ Below(r, x, k) <=> k < x.size /\ (k < r.size => r.chars[k] < x.chars[k])
                       /\ k < x.size => x.chars[k] \in Nat
                       /\ k < r.size => r.chars[k] \in Nat
    BY BelowIs
  <1> HIDE DEF m, D
  <1>6. D \in SUBSET Nat /\ \A k \in Nat : Below(x, r, k) \/ Below(r, x, k) => k \in D
    BY <1>1, <1>4, <1>5
  \* Before the first deciding index the strings agree.
  <1>7. ASSUME NEW k \in Nat, \A j \in D : k <= j
        PROVE  \A j \in 0 .. k - 1 : /\ j < x.size <=> j < r.size
                                     /\ j < x.size => x.chars[j] = r.chars[j]
    <2> SUFFICES ASSUME NEW j \in 0 .. k - 1
                 PROVE  (j < x.size <=> j < r.size) /\ (j < x.size => x.chars[j] = r.chars[j])
      OBVIOUS
    <2>1. j \in Nat /\ ~(k <= j)
      OBVIOUS
    <2>2. ~Below(x, r, j) /\ ~Below(r, x, j)
      BY <1>6, <1>7, <2>1
    <2>3. j < x.size <=> j < r.size
      BY <1>5, <2>1, <2>2
    <2>4. ASSUME j < x.size PROVE x.chars[j] = r.chars[j]
      <3>1. ~(x.chars[j] < r.chars[j]) /\ ~(r.chars[j] < x.chars[j])
        BY <1>5, <2>1, <2>2, <2>3, <2>4
      <3>2. x.chars[j] \in Nat /\ r.chars[j] \in Nat
        BY <1>5, <2>1, <2>3, <2>4
      <3> QED BY <3>1, <3>2
    <2> QED BY <2>3, <2>4
  <1>8. ASSUME less PROVE \E k \in D : Below(x, r, k) /\ \A j \in 0 .. k - 1 : x.chars[j] = r.chars[j]
    <2>1. PICK k \in 0 .. x.size : /\ k < r.size /\ \A j \in 0 .. k - 1 : x.chars[j] = r.chars[j]
                                   /\ k = x.size \/ x.chars[k] < r.chars[k]
      BY <1>8
    <2>2. k \in Nat /\ Below(x, r, k)
      BY <1>1, <1>5, <2>1
    <2> QED BY <1>6, <2>1, <2>2
  <1>9. CASE D = {}
    <2>1. ~less
      BY <1>8, <1>9
    <2>2. same
      <3>1. \A k \in Nat : ~Below(x, r, k) /\ ~Below(r, x, k)
        BY <1>6, <1>9
      <3>2. x.size = r.size
        <4>1. ~Below(x, r, x.size) /\ ~Below(r, x, r.size)
          BY <1>1, <3>1
        <4> QED BY <1>1, <1>5, <4>1
      <3>3. \A j \in 0 .. x.size - 1 : x.chars[j] = r.chars[j]
        <4>1. \A j \in D : x.size <= j
          BY <1>9
        <4>2. \A j \in 0 .. x.size - 1 : j < x.size => x.chars[j] = r.chars[j]
          BY <1>1, <1>7, <4>1
        <4>3. \A j \in 0 .. x.size - 1 : j < x.size
          BY <1>1
        <4> QED BY <4>2, <4>3
      <3> QED BY <3>2, <3>3
    <2>3. compare(x, r) = 0
      BY <1>2, <1>9 DEF Outcome
    <2> HIDE DEF less, same
    <2> QED BY <1>3, <2>1, <2>2, <2>3
  <1>10. CASE D # {}
    <2> DEFINE k == Least(D)
    <2>1. k \in D /\ \A j \in D : k <= j
      BY <1>6, <1>10, LeastOf
    <2>2. compare(x, r) = IF Below(r, x, k) THEN 1 ELSE -1
      BY <1>2, <1>10 DEF Outcome
    <2> HIDE DEF k
    <2>3. k \in Nat /\ (Below(x, r, k) \/ Below(r, x, k))
      BY <1>4, <1>6, <2>1
    <2>4. \A j \in 0 .. k - 1 : (j < x.size <=> j < r.size) /\ (j < x.size => x.chars[j] = r.chars[j])
      BY <1>7, <2>1, <2>3
    <2>5. ~same
      <3> SUFFICES ASSUME same PROVE FALSE
        OBVIOUS
      <3>1. k < x.size /\ k < r.size
        BY <1>5, <2>3
      <3>2. k \in 0 .. x.size - 1
        BY <1>1, <2>3, <3>1
      <3>3. x.chars[k] = r.chars[k]
        BY <3>2
      <3>4. x.chars[k] \in Nat
        BY <1>5, <2>3, <3>1
      <3> QED BY <1>5, <2>3, <3>1, <3>3, <3>4
    <2>6. CASE Below(r, x, k)
      <3>1. ~less
        <4> SUFFICES ASSUME less PROVE FALSE
          OBVIOUS
        <4>1. PICK q \in D : Below(x, r, q) /\ \A j \in 0 .. q - 1 : x.chars[j] = r.chars[j]
          BY <1>8
        <4>2. q \in Nat /\ k <= q
          BY <1>6, <2>1, <4>1
        <4>3. CASE k = q
          <5>1. ~(Below(x, r, k) /\ Below(r, x, k))
            BY <2>3, BelowOneWay
          <5> QED BY <2>6, <4>1, <4>3, <5>1
        <4>4. CASE k # q
          <5>1. k \in 0 .. q - 1
            BY <2>3, <4>2, <4>4
          <5>2. x.chars[k] = r.chars[k]
            BY <4>1, <5>1
          <5>3. q < r.size
            BY <1>5, <4>1, <4>2
          <5>4. k < x.size /\ k < r.size
            BY <1>1, <1>5, <2>3, <2>6, <4>2, <5>1, <5>3
          <5>5. r.chars[k] < x.chars[k] /\ x.chars[k] \in Nat
            BY <1>5, <2>3, <2>6, <5>4
          <5> QED BY <5>2, <5>5
        <4> QED BY <4>3, <4>4
      <3>2. compare(x, r) = 1
        BY <2>2, <2>6
      <3> HIDE DEF less, same
      <3> QED BY <1>3, <2>5, <3>1, <3>2
    <2>7. CASE ~Below(r, x, k)
      <3>1. Below(x, r, k)
        BY <2>3, <2>7
      <3>2. k < r.size
        BY <1>5, <2>3, <3>1
      <3>3. \A j \in 0 .. k - 1 : j < x.size /\ x.chars[j] = r.chars[j]
        <4>1. \A j \in 0 .. k - 1 : j < r.size
          BY <1>1, <2>3, <3>2
        <4> QED BY <2>4, <4>1
      <3>4. k <= x.size
        <4> SUFFICES ASSUME ~(k <= x.size) PROVE FALSE
          OBVIOUS
        <4>1. x.size \in 0 .. k - 1
          BY <1>1, <2>3
        <4> QED BY <1>1, <3>3, <4>1
      <3>5. k \in 0 .. x.size /\ (k = x.size \/ x.chars[k] < r.chars[k])
        BY <1>1, <1>5, <2>3, <3>1, <3>4
      <3>6. less
        BY <3>2, <3>3, <3>5
      <3>7. compare(x, r) = -1
        BY <2>2, <2>7
      <3> HIDE DEF less, same
      <3> QED BY <1>3, <3>6, <3>7
    <2> QED BY <2>6, <2>7
  <1> QED BY <1>9, <1>10

----------------------------------------------------------------------------
\* Every query of stringe_t answers what its definition over the texts says:
\* whatever the unused characters of either string hold, and whatever the two
\* capacities are.  Self-appends are included.
THEOREM StringAnswersAgree ==
  ASSUME NoWrap
  PROVE  StringSpec => []AnswersAgree
  <1>1. StringInv => AnswersAgree
    <2> SUFFICES ASSUME StringInv PROVE AnswersAgree
      OBVIOUS
    <2>1. \A s \in Strings : IsString(str[s])
      BY DEF StringInv
    <2>2. \A pos \in Positions \cup {Npos} : pos \in 0 .. Npos
      BY StringAssumption
    <2>3. ASSUME NEW s \in Strings, NEW r \in Strings, NEW pos \in Positions \cup {Npos}
          PROVE  LET x == str[s]  t == Text(x)  n == Text(str[r])
                     other == Chars \ CharsOf(n)
                 IN
                 /\ find(x, str[r], pos) = Least({i \in Where(t, n) : i >= pos /\ (n = << >> => i = pos)})
                 /\ rfind(x, str[r], pos) =
                      IF n = << >> /\ pos # Npos THEN cmov(pos <= Len(t), pos, Npos)
                      ELSE Greatest({i \in Where(t, n) : i <= pos})
                 /\ find_first_of(x, str[r], pos) = Least({i \in In(t, CharsOf(n)) : i >= pos})
                 /\ find_last_of(x, str[r]) = Greatest(In(t, CharsOf(n)))
                 /\ find_first_not_of(x, str[r], pos) = Least({i \in In(t, other) : i >= pos})
                 /\ find_last_not_of(x, str[r]) = Greatest(In(t, other))
      <3> DEFINE x == str[s]
                 y == str[r]
      <3>1. IsString(x) /\ IsString(y) /\ pos \in 0 .. Npos
        BY <2>1, <2>2
      <3> HIDE DEF x, y
      <3>2. find(x, y, pos) = Least({i \in Where(Text(x), Text(y)) : i >= pos /\ (Text(y) = << >> => i = pos)})
        BY <3>1, FindIs
      <3>3. rfind(x, y, pos) = IF Text(y) = << >> /\ pos # Npos THEN cmov(pos <= Len(Text(x)), pos, Npos)
                               ELSE Greatest({i \in Where(Text(x), Text(y)) : i <= pos})
        BY <3>1, RfindIs
      <3>4. /\ find_first_of(x, y, pos) = Least({i \in In(Text(x), CharsOf(Text(y))) : i >= pos})
            /\ find_last_of(x, y) = Greatest(In(Text(x), CharsOf(Text(y))))
            /\ find_first_not_of(x, y, pos) = Least({i \in In(Text(x), Chars \ CharsOf(Text(y))) : i >= pos})
            /\ find_last_not_of(x, y) = Greatest(In(Text(x), Chars \ CharsOf(Text(y))))
        BY <3>1, SetSearches
      <3> QED BY <3>2, <3>3, <3>4 DEF x, y
    <2>4. ASSUME NEW s \in Strings, NEW r \in Strings
          PROVE  LET x == str[s]  t == Text(x)  n == Text(str[r])
                 IN
                 /\ compare(x, str[r]) = IF Less(t, n) THEN -1 ELSE IF t = n THEN 0 ELSE 1
                 /\ starts_with(x, str[r]) <=> Occurs(t, n, 0)
                 /\ ends_with(x, str[r]) <=> (Len(n) <= Len(t) /\ Occurs(t, n, Len(t) - Len(n)))
                 /\ contains(x, str[r]) <=> Where(t, n) # {}
      BY <2>1, CompareIs, StartsWithIs, EndsWithIs, ContainsIs
    <2> QED BY <2>3, <2>4 DEF AnswersAgree
  <1> QED BY <1>1, StringsAreWell, PTL
=============================================================================
