----------------------------- MODULE Selection -----------------------------
(***************************************************************************)
(* What the queues of packages/database/src/batch take out of an array by  *)
(* its filter: a function of the position, so that it can be reasoned      *)
(* about.                                                                  *)
(***************************************************************************)
EXTENDS Naturals, Sequences

Items(q) == {q[k] : k \in DOMAIN q}

\* The items of q that are in is, in their order in q.
Among(q, is) ==
  LET taken[n \in 0 .. Len(q)] ==
        IF n = 0 THEN <<>>
        ELSE IF q[n] \in is THEN Append(taken[n - 1], q[n]) ELSE taken[n - 1]
  IN  taken[Len(q)]
=============================================================================
