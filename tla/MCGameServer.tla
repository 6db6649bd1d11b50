---------------------------- MODULE MCGameServer ----------------------------
(* Instances of GameServer for TLC. *)
EXTENDS OrderlyGame, TLC

CONSTANTS a1, a2, h1, h2, c1, c2, x1, x2

\* Clients, calls and cells are interchangeable; characters are not, for Idle
\* holds a chosen one.
Symmetry == Permutations({a1, a2}) \cup Permutations({h1, h2}) \cup Permutations({x1, x2})
=============================================================================
