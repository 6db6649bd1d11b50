------------------------------ MODULE MCBazaar ------------------------------
(***************************************************************************)
(* An instance of BazaarDisputes for TLC.                                  *)
(***************************************************************************)
EXTENDS BazaarDisputes, TLC

CONSTANTS h1, h2, seller, anna, ben

Symmetry == Permutations({h1, h2}) \cup Permutations({anna, ben})

\* Nothing is promised any more once every item is in dispute.
Undisputed == ~(Item \subseteq disputed)
=============================================================================
