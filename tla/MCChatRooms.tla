---------------------------- MODULE MCChatRooms ----------------------------
(* An instance of ChatAgreement for TLC. *)
EXTENDS ChatAgreement

CONSTANTS s1, s2, p1, p2, p3

Symmetry == Permutations({s1, s2}) \cup Permutations({p1, p2, p3})

\* Nothing is promised of the copies once they are of different rooms.
OneRoom == ~split
=============================================================================
