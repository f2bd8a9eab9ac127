---------------------------- MODULE BoundedString ----------------------------
(***************************************************************************)
(* What stringe_t promises: each variable holds a sequence of characters   *)
(* no longer than its capacity, and a sticky flag that tells whether       *)
(* characters were ever lost on the way to this value.                     *)
(***************************************************************************)
EXTENDS Naturals, Sequences

CONSTANTS Strings, Chars, Lengths

VARIABLE value     \* [Strings -> [cap, text, bad]]

Fit(text, cap) == SubSeq(text, 1, IF Len(text) < cap THEN Len(text) ELSE cap)

\* text stored in capacity cap, the sources having been bad or not
Held(cap, text, bad) == [cap |-> cap, text |-> Fit(text, cap), bad |-> bad \/ Len(text) > cap]

Empty == [cap |-> 0, text |-> << >>, bad |-> FALSE]

Set(s, v) == value' = [value EXCEPT ![s] = v]

Extend(s, text, bad) == Set(s, Held(value[s].cap, value[s].text \o text, value[s].bad \/ bad))

\* A part of the text from position pos, of at most n characters
Part(text, pos, n) == SubSeq(text, pos + 1, IF pos + n < Len(text) THEN pos + n ELSE Len(text))

BoundedInit == value = [s \in Strings |-> Empty]

BoundedNext ==
  \E s \in Strings :
    \/ \E n \in Lengths : Set(s, Held(n, << >>, FALSE))
    \/ \E c \in Chars : Extend(s, <<c>>, FALSE)
    \/ \E r \in Strings :
         \/ Extend(s, value[r].text, value[r].bad)
         \/ Set(s, value[r])
         \/ value' = [value EXCEPT ![s] = value[r], ![r] = Empty]
         \/ \E l \in Strings :
              Set(s, Held(value[l].cap + value[r].cap, value[l].text \o value[r].text,
                          value[l].bad \/ value[r].bad))
         \/ \E pos, n \in Lengths :
              Set(s, Held(n, Part(value[r].text, pos, n), value[r].bad))

BoundedSpec == BoundedInit /\ [][BoundedNext]_value
=============================================================================
