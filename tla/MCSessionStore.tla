--------------------------- MODULE MCSessionStore ---------------------------
(* Instances of SessionStore for TLC. *)
EXTENDS SessionRaces, TLC

CONSTANTS a1, a2, h1, h2, h3

Symmetry == Permutations({h1, h2, h3})
=============================================================================
