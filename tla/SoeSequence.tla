---------------------------- MODULE SoeSequence ----------------------------
(***************************************************************************)
(* The wrapping sequence numbers of the SOE reliable channel               *)
(* (packages/protocol/src/soe/session-manager.ts, class Session).  The     *)
(* code keeps them in 16 bits; here the modulus is a parameter, so that    *)
(* TLC can wrap a small one and a proof can speak of every one.            *)
(***************************************************************************)
EXTENDS Integers

CONSTANT SeqMod  \* 2^16 in the code: the "& 0xffff" of every sequence update

ASSUME SeqModAssumption == SeqMod \in Nat /\ SeqMod >= 2

Sequences16 == 0 .. SeqMod - 1

\* 0x8000 in the code: how far ahead a sequence still counts as newer.
HalfRange == SeqMod \div 2

\* Mutant: only asks whether the sequences differ.
NewerUnbounded(seq, expected) == (seq - expected) % SeqMod > 0

isSequenceNewer(seq, expected) ==
  LET diff == (seq - expected) % SeqMod
  IN  diff > 0 /\ diff < HalfRange

isSequenceOlder(seq, expected) ==
  LET diff == (expected - seq) % SeqMod
  IN  diff > 0 /\ diff < HalfRange

\* The sequence number carried by the id-th packet of a session (ids count
\* from 0 and never wrap; the code has no such counter).
SeqOf(id) == id % SeqMod
=============================================================================
