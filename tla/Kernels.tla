------------------------------- MODULE Kernels -------------------------------
(***************************************************************************)
(* Data-oblivious kernels of bringup-bench, written with the EXO types.    *)
(* Their loops and addresses depend on public sizes only; secrets decide   *)
(* nothing but conditional moves.  So a kernel has no early exit to test,  *)
(* and its result rests on every update being masked right.                *)
(*                                                                         *)
(* A kernel is an operator of its input, an encrypted value its plaintext, *)
(* an array of predicates the set of its true indices, an array of values  *)
(* a sequence counted from 1.  The state is the input, which grows by one  *)
(* value in each step; each kernel reads it in its own way.                *)
(***************************************************************************)
EXTENDS Integers, Sequences, FiniteSetsExt

CONSTANTS
  MaxValue,     \* inputs are sequences over 0 .. MaxValue
  MaxShort,     \* up to this length,
  MaxLong,      \* and over {0, 1} up to this one
  Capacity,     \* W, the capacity of the knapsack
  MaxSum,       \* MAX_SUM of the partition
  kMaxTextLen   \* the characters a text has room for

ASSUME KernelAssumption ==
  /\ {MaxValue, MaxShort, MaxLong, Capacity} \subseteq Nat \ {0}
  /\ MaxValue <= 3       \* the character classes of the automata
  /\ kMaxTextLen \in Nat /\ kMaxTextLen >= MaxShort /\ kMaxTextLen >= MaxLong
  /\ MaxSum \in Nat /\ 2 * MaxSum + 1 >= MaxShort * MaxValue /\ 2 * MaxSum + 1 >= MaxLong

VARIABLE input

KernelInit == input = << >>

Grow(v) ==
  /\ Len(input) < MaxShort \/ (Len(input) < MaxLong /\ \A i \in DOMAIN input : input[i] <= 1 /\ v <= 1)
  /\ input' = Append(input, v)

KernelNext == (\E v \in 0 .. MaxValue : Grow(v)) \/ input' = << >>

----------------------------------------------------------------------------
\* for (i = 0; i < n; i++) t = Body(t, i)
For(n, start, Body(_, _)) ==
  LET t[i \in 0 .. n] == IF i <= 0 THEN start ELSE Body(t[i - 1], i - 1)
  IN  t[n]

\* An oblivious read of a[k]: every one of n cells is scanned, and the one at k
\* kept if the mask is on.
Scan(a, n, k, mask, fallback) ==
  For(n, fallback, LAMBDA x, j : IF mask /\ j = k THEN a[j + 1] ELSE x)

Total(s) == For(Len(s), 0, LAMBDA t, i : t + s[i + 1])
Exchange(d, i, j) == [d EXCEPT ![i] = d[j], ![j] = d[i]]
Bit(i, power) == (i \div power) % 2
\* The subsequence of s at the indices A
Pick(s, A) == For(Len(s), << >>, LAMBDA t, i : IF i + 1 \in A THEN Append(t, s[i + 1]) ELSE t)

----------------------------------------------------------------------------
(* Sorting *)

\* Mutant: the inner loop stops one element early.
bubblesort_Short(data) ==
  For(Len(data) - 1, [data |-> data, swaps |-> 0], LAMBDA t, i :
    For(Len(data) - i - 2, t, LAMBDA u, j :
      IF u.data[j + 2] < u.data[j + 1]
      THEN [data |-> Exchange(u.data, j + 1, j + 2), swaps |-> u.swaps + 1] ELSE u))

\* bubblesort, with the count of swaps it reports
bubblesort(data) ==
  For(Len(data) - 1, [data |-> data, swaps |-> 0], LAMBDA t, i :
    For(Len(data) - i - 1, t, LAMBDA u, j :
      IF u.data[j + 2] < u.data[j + 1]
      THEN [data |-> Exchange(u.data, j + 1, j + 2), swaps |-> u.swaps + 1] ELSE u))

\* One pass of bitonic_sort with stride j in runs of length k
BitonicPass(data, k, j) ==
  For(Len(data), data, LAMBDA d, i :
    LET l == IF Bit(i, j) = 0 THEN i + j ELSE i - j
    IN  IF l > i /\ IF Bit(i, k) = 0 THEN d[l + 1] < d[i + 1] ELSE d[i + 1] < d[l + 1]
        THEN Exchange(d, i + 1, l + 1) ELSE d)

\* k of bitonic_sort after e turns of k <<= 1, from 1
Doubled(e) == For(e, 1, LAMBDA k, i : 2 * k)

\* bitonic_sort, for sizes that are powers of two
bitonic_sort(data) ==
  LET Log(n) == CHOOSE e \in 0 .. n : Doubled(e) = n
  IN  For(Log(Len(data)), data, LAMBDA d, a :
        For(a + 1, d, LAMBDA e, b : BitonicPass(e, Doubled(a + 1), Doubled(a - b))))

PowersOfTwo == {1, 2, 4, 8}
Inversions(s) == {p \in (DOMAIN s) \X (DOMAIN s) : p[1] < p[2] /\ s[p[1]] > s[p[2]]}
IsSorted(s, data) ==
  /\ \A i \in 1 .. Len(data) - 1 : s[i] <= s[i + 1]
  /\ \A v \in {s[i] : i \in DOMAIN s} \cup {data[i] : i \in DOMAIN data} :
       Cardinality({i \in DOMAIN s : s[i] = v}) = Cardinality({i \in DOMAIN data : data[i] = v})

SortsAgree ==
  input # << >> =>
    LET b == bubblesort(input)
    IN  /\ IsSorted(b.data, input) /\ b.swaps = Cardinality(Inversions(input))
        /\ Len(input) \in PowersOfTwo => IsSorted(bitonic_sort(input), input)

----------------------------------------------------------------------------
(* Optimisation over tables *)

\* kadane: the greatest sum of a run, and where the first such run ends
kadane(arr) ==
  For(Len(arr), [max_so_far |-> 0, ends_at |-> -1, here |-> 0], LAMBDA t, i :
    LET sum == t.here + arr[i + 1]
        here == IF sum > 0 THEN sum ELSE 0
    IN  IF t.max_so_far < here THEN [max_so_far |-> here, ends_at |-> i, here |-> here]
        ELSE [t EXCEPT !.here = here])

KadaneAgrees ==
  LET arr == [i \in DOMAIN input |-> input[i] - 1]
      run == [b \in 0 .. Len(arr) |-> {Total(SubSeq(arr, a, b)) : a \in 1 .. b} \cup {0}]
      best == Max(UNION {run[b] : b \in DOMAIN run})
      k == kadane(arr)
  IN  /\ k.max_so_far = best
      /\ k.ends_at = IF best = 0 THEN -1 ELSE Min({b \in DOMAIN run : best \in run[b]}) - 1

min3(x, y, z) == IF x < y /\ x < z THEN x ELSE IF y < z THEN y ELSE z

\* One row of edit_matrix from the one above it
EditRow(above, ch, str2) ==
  For(Len(str2), <<above[1] + 1>>, LAMBDA row, j :
    Append(row, min3(above[j + 2] + 1, row[j + 1] + 1, above[j + 1] + IF ch = str2[j + 1] THEN 0 ELSE 1)))

EditDistance(str1, str2) ==
  LET first == [j \in 1 .. Len(str2) + 1 |-> j - 1]
      last == For(Len(str1), SubSeq(first, 1, Len(first)), LAMBDA row, i : EditRow(row, str1[i + 1], str2))
  IN  last[Len(str2) + 1]

\* The cheapest way to align some characters of each and drop the others
EditDistanceAgrees(s, t) ==
  EditDistance(s, t) =
    Min({LET x == Pick(s, p[1])  y == Pick(t, p[2])
           IN  Len(s) + Len(t) - 2 * Len(x) + Cardinality({i \in DOMAIN x : x[i] # y[i]})
           : p \in {p \in (SUBSET DOMAIN s) \X (SUBSET DOMAIN t) :
                      Cardinality(p[1]) = Cardinality(p[2])}})

\* is_better_choice
Better(cand, cur) == cand.len > cur.len \/ (cand.len = cur.len /\ cand.start < cur.start)
Best(S) == CHOOSE x \in S : \A y \in S : y = x \/ Better(x, y)
BetterOf(cand, cur) == IF Better(cand, cur) THEN cand ELSE cur

\* One row of dp and start in lcseq_start_and_length
LcseqRow(above, i, lhs, rhs) ==
  For(Len(rhs), <<[len |-> 0, start |-> Len(lhs)]>>, LAMBDA row, j :
    LET best == BetterOf(row[j + 1], above[j + 2])
        diag == [len |-> above[j + 1].len + 1,
                 start |-> IF above[j + 1].len = 0 THEN i ELSE above[j + 1].start]
    IN  Append(row, IF lhs[i + 1] = rhs[j + 1] THEN BetterOf(diag, best) ELSE best))

lcseq_start_and_length(lhs, rhs) ==
  LET none == [len |-> 0, start |-> Len(lhs)]
      first == For(Len(rhs), <<none>>, LAMBDA row, j : Append(row, none))
  IN  For(Len(lhs), first, LAMBDA row, i : LcseqRow(row, i, lhs, rhs))[Len(rhs) + 1]

LcseqAgrees(lhs, rhs) ==
  LET subs == {Pick(rhs, B) : B \in SUBSET DOMAIN rhs}
      common == {A \in SUBSET DOMAIN lhs : A # {} /\ Pick(lhs, A) \in subs}
      found == {[len |-> Cardinality(A), start |-> Min(A) - 1] : A \in common}
  IN  lcseq_start_and_length(lhs, rhs) =
        Best(found \cup {[len |-> 0, start |-> Len(lhs)]})

\* lcsub_start_and_length: row j of dp is the run that ends in i and j
lcsub_start_and_length(lhs, rhs) ==
  LET none == [len |-> 0, start |-> Len(lhs)]
      zero == For(Len(rhs), <<0>>, LAMBDA row, j : Append(row, 0))
  IN  For(Len(lhs), [dp |-> zero, best |-> none], LAMBDA t, i :
        For(Len(rhs), [dp |-> <<0>>, best |-> t.best], LAMBDA u, j :
          LET run == IF lhs[i + 1] = rhs[j + 1] THEN t.dp[j + 1] + 1 ELSE 0
          IN  [dp |-> Append(u.dp, run),
               best |-> IF run > 0 THEN BetterOf([len |-> run, start |-> i + 1 - run], u.best)
                        ELSE u.best])).best

LcsubAgrees(lhs, rhs) ==
  LET Parts(s) == {p \in (1 .. Len(s)) \X (1 .. Len(s)) : p[1] <= p[2]}
      found == {[len |-> p[2] + 1 - p[1], start |-> p[1] - 1] : p \in {p \in Parts(lhs) :
                  \E q \in Parts(rhs) : SubSeq(lhs, p[1], p[2]) = SubSeq(rhs, q[1], q[2])}}
  IN  lcsub_start_and_length(lhs, rhs) = Best(found \cup {[len |-> 0, start |-> Len(lhs)]})

\* longest_palindrome_manacher_encrypted
longest_palindrome(s) ==
  For(Len(s), [len |-> 0, start |-> Len(s)], LAMBDA t, start :
    For(Len(s) - start, t, LAMBDA u, k :
      LET len == k + 1
          is_pal == \A h \in 0 .. (len \div 2) - 1 : s[start + h + 1] = s[start + len - h]
      IN  IF is_pal THEN BetterOf([len |-> len, start |-> start], u) ELSE u))

PalindromeAgrees(s) ==
  LET found == {[len |-> p[2] - p[1], start |-> p[1]] : p \in {p \in (0 .. Len(s)) \X (0 .. Len(s)) :
                  p[1] < p[2] /\ \A i \in p[1] + 1 .. p[2] : s[i] = s[p[1] + p[2] + 1 - i]}}
  IN  longest_palindrome(s) = Best(found \cup {[len |-> 0, start |-> Len(s)]})

\* knapSack: row i of K from row i - 1
KnapRow(above, wt, val) ==
  For(Capacity, <<0>>, LAMBDA row, c :
    LET w == c + 1
        Kw == Scan(above, Capacity + 1, w - wt, TRUE, -1)
        maxval == IF val + Kw > above[w + 1] THEN val + Kw ELSE above[w + 1]
    IN  Append(row, IF wt <= w THEN maxval ELSE above[w + 1]))

\* The table of rows, and the packs main() reads off it
knapSack(wt, val) ==
  LET zero == For(Capacity, <<0>>, LAMBDA row, w : Append(row, 0))
  IN  For(Len(wt), <<zero>>, LAMBDA K, i : Append(K, KnapRow(K[i + 1], wt[i + 1], val[i + 1])))

Selected(K, wt) ==
  For(Len(wt), [w |-> Capacity, packs |-> {}], LAMBDA t, k :
    LET n == Len(wt) - k
    IN  IF K[n + 1][t.w + 1] # K[n][t.w + 1]
        THEN [w |-> t.w - wt[n], packs |-> t.packs \cup {n}] ELSE t)

KnapsackAgrees(wt, val) ==
  LET K == knapSack(wt, val)
      max == K[Len(wt) + 1][Capacity + 1]
      packs == Selected(K, wt).packs
      fitting == {A \in SUBSET DOMAIN wt : Total(Pick(wt, A)) <= Capacity}
  IN  /\ max = Max({Total(Pick(val, A)) : A \in fitting})
      /\ packs \in fitting /\ Total(Pick(val, packs)) = max

\* encrypted_partition_equal: row i of reachable is the set of sums the first
\* i values can have.
Reachable(values) ==
  For(Len(values), <<{0}>>, LAMBDA r, i :
    Append(r, r[i + 1] \cup {s \in 0 .. MaxSum : \E prev \in r[i + 1] : prev + values[i + 1] = s}))

encrypted_partition_equal(values) ==
  LET n == Len(values)
      target == Total(values) \div 2
      reachable == Reachable(values)
      can == Total(values) % 2 = 0 /\ target \in reachable[n + 1]
      walk == For(n, [sum |-> target, mask |-> {}], LAMBDA t, k :
        LET i == n - k
            prevs == {p \in reachable[i] : p + values[i] = t.sum}
        IN  IF can /\ prevs # {} THEN [sum |-> Min(prevs), mask |-> t.mask \cup {i}] ELSE t)
  IN  [can |-> can, mask |-> walk.mask]

PartitionAgrees(values) ==
  LET r == encrypted_partition_equal(values)
      halves == {A \in SUBSET DOMAIN values : 2 * Total(Pick(values, A)) = Total(values)}
  IN  /\ r.can <=> halves # {}
      /\ r.mask \in IF r.can THEN halves ELSE {{}}

----------------------------------------------------------------------------
(* Pattern matching *)

\* trans of the automata, by character class: a, b, c, any other
Automaton(pattern) ==
  CASE pattern = "ab*c" -> <<<<1, 2, 2, 2>>, <<2, 1, 3, 2>>, <<2, 2, 2, 2>>, <<2, 2, 2, 2>>>>
    [] pattern = "a.c" -> <<<<1, 4, 4, 4>>, <<2, 2, 2, 2>>, <<4, 4, 3, 4>>, <<4, 4, 4, 4>>, <<4, 4, 4, 4>>>>
    [] pattern = "ab+c" -> <<<<1, 4, 4, 4>>, <<4, 2, 4, 4>>, <<4, 2, 3, 4>>, <<4, 4, 4, 4>>, <<4, 4, 4, 4>>>>
    [] pattern = "a[^abc]*c" -> <<<<1, 2, 2, 2>>, <<2, 2, 3, 1>>, <<2, 2, 2, 2>>, <<2, 2, 2, 2>>>>

\* secret_match: whatever the text's length, all its room is read; beyond its end
\* process is off, and the character 0, of class 3, changes nothing.
secret_match(pattern, text) ==
  LET trans == Automaton(pattern)
  IN  3 \in For(kMaxTextLen, {0}, LAMBDA active, i :
        LET process == i < Len(text)
            ch == Scan(text, kMaxTextLen, i, process, 3)
            next_active == {trans[t + 1][ch + 1] : t \in active}
        IN  IF process THEN next_active ELSE active)

MatchesAgree(text) ==
  LET Framed(middle) == Len(text) >= 2 /\ text[1] = 0 /\ text[Len(text)] = 2
                          /\ \A i \in 2 .. Len(text) - 1 : text[i] \in middle
  IN  /\ secret_match("ab*c", text) <=> Framed({1})
      /\ secret_match("a.c", text) <=> Framed(0 .. 3) /\ Len(text) = 3
      /\ secret_match("ab+c", text) <=> Framed({1}) /\ Len(text) >= 3
      /\ secret_match("a[^abc]*c", text) <=> Framed({3})

----------------------------------------------------------------------------
Half(i) == SubSeq(input, i * (Len(input) \div 2) + 1, (i + 1) * (Len(input) \div 2))

OptimaAgree ==
  LET n == Len(input)
      wt == [i \in 1 .. n \div 2 |-> input[i] + 1]
  IN  /\ KadaneAgrees /\ PartitionAgrees(input) /\ PalindromeAgrees(input)
      /\ n % 2 = 0 => EditDistanceAgrees(Half(0), Half(1)) /\ KnapsackAgrees(wt, Half(1))
      /\ n <= MaxShort => \A k \in 0 .. n : LET lhs == SubSeq(input, 1, k)  rhs == SubSeq(input, k + 1, n)
                                            IN  LcseqAgrees(lhs, rhs) /\ LcsubAgrees(lhs, rhs)

\* Every sequence kernel computes what it is named for: sorts order their
\* input and count its inversions, tables hold the optimum and lead back to a
\* choice that attains it, automata accept their pattern.
SequenceKernelsAgree == SortsAgree /\ OptimaAgree /\ MatchesAgree(input)
=============================================================================
