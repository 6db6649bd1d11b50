-------------------------- MODULE ReliableDelivery --------------------------
(***************************************************************************)
(* What the reliable channel promises to the application above it: the     *)
(* messages handed to sendReliable come out of the peer's 'data' events    *)
(* whole, once each and in the order they were sent, for as long as the    *)
(* session exists on both sides.                                           *)
(***************************************************************************)
EXTENDS Naturals, Sequences

CONSTANT Message  \* every message an application could send

VARIABLES messages,    \* handed to sendReliable, in order
          delivered,   \* emitted as 'data' by the receiving side, in order
          senderUp,    \* the sending side still has its session
          receiverUp   \* the receiving side still has its session

vars == <<messages, delivered, senderUp, receiverUp>>

Init == messages = <<>> /\ delivered = <<>> /\ senderUp = TRUE /\ receiverUp = TRUE

Send(m) ==
  /\ senderUp
  /\ messages' = Append(messages, m)
  /\ UNCHANGED <<delivered, senderUp, receiverUp>>

\* One arrival may release several messages: those held behind a gap.
Deliver ==
  /\ receiverUp
  /\ \E n \in Len(delivered) + 1 .. Len(messages) :
        delivered' = SubSeq(messages, 1, n)
  /\ UNCHANGED <<messages, senderUp, receiverUp>>

SenderGone ==
  senderUp /\ senderUp' = FALSE /\ UNCHANGED <<messages, delivered, receiverUp>>

ReceiverGone ==
  receiverUp /\ receiverUp' = FALSE /\ UNCHANGED <<messages, delivered, senderUp>>

Next == (\E m \in Message : Send(m)) \/ Deliver \/ SenderGone \/ ReceiverGone

\* Nothing is delivered in time, but nothing waits for ever between two live
\* sessions.
Spec == Init /\ [][Next]_vars /\ WF_vars(senderUp /\ Deliver)
=============================================================================
