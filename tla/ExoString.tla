------------------------------ MODULE ExoString ------------------------------
(***************************************************************************)
(* The encrypted string class stringe_t of the EXO library                 *)
(* (exo/mojov-string.h).  Its operations never branch on secret data:      *)
(* every loop runs over the public capacity and every effect is a          *)
(* conditional move, so that the result depends on masks being right at    *)
(* every index, used or not.                                               *)
(*                                                                         *)
(* An encrypted value is modelled by its plaintext, an encrypted predicate *)
(* by a Boolean; size_t and uint64e_t wrap at Npos + 1.  Character i of    *)
(* the packed words is chars[i].                                           *)
(***************************************************************************)
EXTENDS Integers, Sequences

CONSTANTS
  Strings,      \* variables of the program
  Chars,        \* characters it uses; 0 is the fill
  MaxLength,    \* bound on capacities
  Npos,         \* the largest uint64_t
  Positions,    \* positions it asks for
  Aliasing      \* may a string be appended to itself?

ASSUME StringAssumption ==
  /\ MaxLength \in Nat /\ Npos \in Nat /\ Npos > 2 * MaxLength
  /\ Chars \subseteq Nat \ {0}
  /\ Positions \subseteq 0 .. Npos
  /\ Aliasing \in BOOLEAN

VARIABLE str    \* [Strings -> [length, chars, size, exception]]

Lengths == 0 .. MaxLength

\* stringe_t(length)
New(length) == [length |-> length, chars |-> [k \in 0 .. MaxLength - 1 |-> 0],
                size |-> 0, exception |-> FALSE]

StringTypeOK ==
  /\ str \in [Strings -> [length : Lengths, chars : [0 .. MaxLength - 1 -> Chars \cup {0}],
                          size : Lengths, exception : BOOLEAN]]
  /\ \A s \in Strings : str[s].size <= str[s].length

StringInit == str = [s \in Strings |-> New(0)]

cmov(p, a, b) == IF p THEN a ELSE b
Wrap(n) == n % (Npos + 1)

\* oblivious_write
Write(x, idx, ch, enable) ==
  [x EXCEPT !.chars = [k \in DOMAIN x.chars |->
     cmov(k < x.length /\ enable /\ idx = k, ch, x.chars[k])]]

\* get_char_or_zero, get_char_by_secret_index
CharOrZero(x, idx) == IF idx < x.length THEN x.chars[idx] ELSE 0

----------------------------------------------------------------------------
(* Operations *)

\* push_back
Pushed(x, ch) ==
  LET fits == x.size < x.length
  IN  [Write(x, x.size, ch, fits) EXCEPT !.size = cmov(fits, @ + 1, @),
                                         !.exception = @ \/ ~fits]

\* Mutant: characters that do not fit are dropped silently.
Appended_Silent(x, rhs, self) ==
  LET loop[i \in 0 .. rhs.length] ==
        IF i = 0 THEN x
        ELSE LET t == loop[i - 1]
                 enable == i - 1 < rhs.size /\ t.size < t.length
             IN  [Write(t, t.size, rhs.chars[i - 1], enable) EXCEPT !.size = cmov(enable, @ + 1, @)]
  IN  [loop[rhs.length] EXCEPT !.exception = @ \/ rhs.exception]

\* append: the loop runs over the capacity of rhs.  When rhs is the string
\* itself, rhs.size_ and its characters are the ones just written.
AppendTurn(t, rhs, i) ==
  LET in_rhs == i < rhs.size
      fits == t.size < t.length
  IN  [Write(t, t.size, rhs.chars[i], in_rhs /\ fits) EXCEPT
         !.size = cmov(in_rhs /\ fits, @ + 1, @),
         !.exception = @ \/ (in_rhs /\ ~fits)]

Appended(x, rhs, self) ==
  LET loop[i \in 0 .. rhs.length] ==
        IF i = 0 THEN x
        ELSE AppendTurn(loop[i - 1], IF self THEN loop[i - 1] ELSE rhs, i - 1)
      t == loop[rhs.length]
  IN  [t EXCEPT !.exception = @ \/ rhs.exception]

\* operator+
Sum(l, r) ==
  LET t == Appended(Appended(New(l.length + r.length), l, FALSE), r, FALSE)
  IN  [t EXCEPT !.exception = @ \/ l.exception \/ r.exception]

\* substr
SubStringTurn(t, x, pos, i) ==
  LET src == Wrap(pos + i)
      in == src < x.size
  IN  [Write(t, i, CharOrZero(x, src), in) EXCEPT !.size = cmov(in, @ + 1, @)]

SubString(x, pos, count) ==
  LET loop[i \in 0 .. count] ==
        IF i = 0 THEN New(count) ELSE SubStringTurn(loop[i - 1], x, pos, i - 1)
  IN  [loop[count] EXCEPT !.exception = x.exception]

Put(s, x) == str' = [str EXCEPT ![s] = x]

Construct(s, length) == Put(s, New(length))
PushBack(s, ch) == Put(s, Pushed(str[s], ch))
AppendString(s, r) == (s = r => Aliasing) /\ Put(s, Appended(str[s], str[r], s = r))
\* operator=, copying: the words beyond the capacity are not copied
Assign(s, r) == Put(s, str[r])
\* operator=, moving: the source is left with no storage
MoveAssign(s, r) == s # r /\ str' = [str EXCEPT ![s] = str[r], ![r] = New(0)]
Concat(s, l, r) == str[l].length + str[r].length <= MaxLength /\ Put(s, Sum(str[l], str[r]))
Substr(s, r, pos, count) == Put(s, SubString(str[r], pos, count))

StringNext ==
  \E s \in Strings :
    \/ \E n \in Lengths : Construct(s, n)
    \/ \E c \in Chars : PushBack(s, c)
    \/ \E r \in Strings :
         \/ AppendString(s, r) \/ Assign(s, r) \/ MoveAssign(s, r)
         \/ \E l \in Strings : Concat(s, l, r)
         \/ \E pos \in Positions, n \in Lengths : Substr(s, r, pos, n)

StringSpec == StringInit /\ [][StringNext]_str

----------------------------------------------------------------------------
(* Queries.  A search scans every index of the capacity; the first match   *)
(* kept is the first found, the last match kept the last one.              *)
Indices(x) == 0 .. x.length - 1

First(x, matches) ==
  LET loop[i \in 0 .. x.length] ==
        IF i = 0 THEN [best |-> Npos, found |-> FALSE]
        ELSE LET t == loop[i - 1]
                 match == matches[i - 1]
             IN  [best |-> cmov(match /\ ~t.found, i - 1, t.best), found |-> t.found \/ match]
  IN  loop[x.length].best

Last(x, matches) ==
  LET loop[i \in 0 .. x.length] ==
        IF i = 0 THEN Npos ELSE cmov(matches[i - 1], i - 1, loop[i - 1])
  IN  loop[x.length]

\* Mutant: the unused characters of the needle take part in the match.
MatchAt_NoMask(x, needle, i) ==
  /\ needle.size > 0
  /\ \A j \in 0 .. needle.length - 1 : i + j < x.size /\ CharOrZero(x, i + j) = needle.chars[j]

\* The inner loop of find and rfind
MatchAt(x, needle, i) ==
  /\ needle.size > 0
  /\ \A j \in 0 .. needle.length - 1 :
       cmov(j < needle.size, i + j < x.size /\ CharOrZero(x, i + j) = needle.chars[j], TRUE)

find(x, needle, pos) ==
  LET matches == [i \in Indices(x) |-> i >= pos /\ i < x.size /\ MatchAt(x, needle, i)]
  IN  cmov(needle.size = 0 /\ x.size >= pos, pos, First(x, matches))

rfind(x, needle, pos) ==
  LET matches == [i \in Indices(x) |->
        i < x.size /\ cmov(pos = Npos, TRUE, i <= pos) /\ MatchAt(x, needle, i)]
      ret_pos == cmov(pos = Npos, x.size, pos)
  IN  cmov(needle.size = 0 /\ x.size >= ret_pos, ret_pos, Last(x, matches))

AnyOf(x, chars, i) ==
  \E j \in 0 .. chars.length - 1 : j < chars.size /\ x.chars[i] = chars.chars[j]

find_first_of(x, chars, pos) ==
  First(x, [i \in Indices(x) |-> i >= pos /\ i < x.size /\ AnyOf(x, chars, i)])
find_last_of(x, chars) ==
  Last(x, [i \in Indices(x) |-> i < x.size /\ AnyOf(x, chars, i)])
find_first_not_of(x, chars, pos) ==
  First(x, [i \in Indices(x) |-> i >= pos /\ i < x.size /\ ~AnyOf(x, chars, i)])
find_last_not_of(x, chars) ==
  Last(x, [i \in Indices(x) |-> i < x.size /\ ~AnyOf(x, chars, i)])

\* compare: the first index at which the strings differ, or at which one of them
\* ends, decides
Below(x, rhs, i) ==
  i < rhs.size /\ (i < x.size => CharOrZero(x, i) < CharOrZero(rhs, i))

CompareTurn(t, x, rhs, i) ==
  LET lt == Below(x, rhs, i)
      gt == Below(rhs, x, i)
  IN  [result |-> cmov(~t.decided /\ gt, 1, cmov(~t.decided /\ lt, -1, t.result)),
       decided |-> t.decided \/ lt \/ gt]

compare(x, rhs) ==
  LET m == IF x.length > rhs.length THEN x.length ELSE rhs.length
      loop[i \in 0 .. m] ==
        IF i = 0 THEN [result |-> 0, decided |-> FALSE]
        ELSE CompareTurn(loop[i - 1], x, rhs, i - 1)
  IN  loop[m].result

starts_with(x, prefix) ==
  /\ x.size >= prefix.size
  /\ \A i \in 0 .. prefix.length - 1 :
       cmov(i < prefix.size, CharOrZero(x, i) = prefix.chars[i], TRUE)

ends_with(x, suffix) ==
  LET start == Wrap(x.size + Npos + 1 - suffix.size)
  IN  /\ x.size >= suffix.size
      /\ \A i \in 0 .. suffix.length - 1 :
           cmov(i < suffix.size, CharOrZero(x, Wrap(start + i)) = suffix.chars[i], TRUE)

contains(x, needle) == find(x, needle, 0) # Npos

----------------------------------------------------------------------------
(* Reference definitions over the text a string holds *)
Text(x) == [i \in 1 .. x.size |-> x.chars[i - 1]]

Least(S) == IF S = {} THEN Npos ELSE CHOOSE i \in S : \A j \in S : i <= j
Greatest(S) == IF S = {} THEN Npos ELSE CHOOSE i \in S : \A j \in S : i >= j
Occurs(t, n, i) == i + Len(n) <= Len(t) /\ SubSeq(t, i + 1, i + Len(n)) = n
Where(t, n) == {i \in 0 .. Len(t) : Occurs(t, n, i)}
CharsOf(t) == {t[i] : i \in 1 .. Len(t)}
In(t, set) == {i \in 0 .. Len(t) - 1 : t[i + 1] \in set}
Less(t, u) ==
  \E k \in 0 .. Len(t) :
    /\ k < Len(u) /\ SubSeq(t, 1, k) = SubSeq(u, 1, k)
    /\ k = Len(t) \/ t[k + 1] < u[k + 1]

Holds == INSTANCE BoundedString WITH
  value <- [s \in Strings |-> [cap |-> str[s].length, text |-> Text(str[s]), bad |-> str[s].exception]]

\* stringe_t behaves as a string of bounded capacity whose flag tells whether
\* characters were lost, whatever sequence of operations built the values.
ActsAsString == Holds!BoundedSpec

\* Every search returns the position its definition over the text names: no
\* unused index of the capacity, of either string, changes the result.
\* compare is the lexicographic order of the texts; prefix, suffix and
\* containment are what they are for texts, for strings of any two capacities.
AnswersAgree ==
  /\ \A s, r \in Strings : \A pos \in Positions \cup {Npos} :
       LET x == str[s]  t == Text(x)  n == Text(str[r])
           other == Chars \ CharsOf(n)
       IN
       /\ find(x, str[r], pos) = Least({i \in Where(t, n) : i >= pos /\ (n = << >> => i = pos)})
       /\ rfind(x, str[r], pos) =
            IF n = << >> /\ pos # Npos THEN cmov(pos <= Len(t), pos, Npos)
            ELSE Greatest({i \in Where(t, n) : i <= pos})
       /\ find_first_of(x, str[r], pos) = Least({i \in In(t, CharsOf(n)) : i >= pos})
       /\ find_last_of(x, str[r]) = Greatest(In(t, CharsOf(n)))
       /\ find_first_not_of(x, str[r], pos) = Least({i \in In(t, other) : i >= pos})
       /\ find_last_not_of(x, str[r]) = Greatest(In(t, other))
  /\ \A s, r \in Strings :
       LET x == str[s]  t == Text(x)  n == Text(str[r])
       IN
       /\ compare(x, str[r]) = IF Less(t, n) THEN -1 ELSE IF t = n THEN 0 ELSE 1
       /\ starts_with(x, str[r]) <=> Occurs(t, n, 0)
       /\ ends_with(x, str[r]) <=> (Len(n) <= Len(t) /\ Occurs(t, n, Len(t) - Len(n)))
       /\ contains(x, str[r]) <=> Where(t, n) # {}

\* mojov-stringtests checks "substr out-of-range empty size": a part that begins
\* behind the end is empty.
SubstrPastEndIsEmpty ==
  \A s \in Strings : \A pos \in Positions, n \in Lengths :
    pos > str[s].size => SubString(str[s], pos, n).size = 0
=============================================================================
