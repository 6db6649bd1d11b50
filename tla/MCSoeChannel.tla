---------------------------- MODULE MCSoeChannel ----------------------------
(***************************************************************************)
(* Instances of SoeChannel for TLC, and the refinement of the abstract     *)
(* delivery specification.                                                 *)
(***************************************************************************)
EXTENDS SoeChannel

AllMessages ==
  {[k \in 1 .. n |-> first + k - 1] : n \in MessageSizes, first \in 0 .. MaxPackets}

Promise == INSTANCE ReliableDelivery WITH
  Message <- AllMessages,
  senderUp <- (senderState = "Connected"),
  receiverUp <- (receiverState = "Connected")

\* Every step of the two sessions sends one message, releases the next
\* messages in order, ends a session or is invisible to the application; and,
\* while both sessions last, what was sent is eventually released.
KeepsPromise == Promise!Spec

\* The safety half of the promise.
KeepsOrder == Promise!Init /\ [][Promise!Next]_(Promise!vars)

\* Until the sequence first wraps, the sender forgets a packet only when the
\* receiver has answered for it or for a later one.  Past the wrap this is false:
\* processAck deletes what is numerically smaller (session-manager.ts:611), so an
\* answer to a packet before the wrap also forgets the packets after it.
RetainedBeforeWrap == Len(sent) <= SeqMod => RetainedUntilAcked
=============================================================================
