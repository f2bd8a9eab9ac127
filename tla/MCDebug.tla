------------------------------- MODULE MCDebug -------------------------------
(* Model-checking instance of DebugModule: two harts in one halt group, and  *)
(* the dmcontrol writes of a debugger session.                               *)
EXTENDS DebugModule

Write == [dmactive |-> TRUE, haltreq |-> FALSE, resumereq |-> FALSE, hartreset |-> FALSE,
          ndmreset |-> FALSE, ackhavereset |-> FALSE, hasel |-> FALSE, hartsel |-> 0]

Session == {[Write EXCEPT !.dmactive = FALSE], [Write EXCEPT !.haltreq = TRUE],
            [Write EXCEPT !.haltreq = TRUE, !.hasel = TRUE],
            Write, [Write EXCEPT !.hartsel = 2],
            [Write EXCEPT !.resumereq = TRUE, !.hasel = TRUE],
            [Write EXCEPT !.hartreset = TRUE, !.hartsel = 1], [Write EXCEPT !.ndmreset = TRUE]}

\* The same without resets and hart arrays, for the liveness properties
RunControl == {[Write EXCEPT !.haltreq = TRUE], Write, [Write EXCEPT !.hartsel = 1],
               [Write EXCEPT !.resumereq = TRUE]}
=============================================================================
