------------------------- MODULE MCConnectionServer -------------------------
(* Instances of ConnectionServer for TLC. *)
EXTENDS ConnectionPresence, TLC

CONSTANTS a1, a2, h1, h2, t1, t2

Symmetry == Permutations({a1, a2}) \cup Permutations({h1, h2}) \cup Permutations({t1, t2})
=============================================================================
