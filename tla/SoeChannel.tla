----------------------------- MODULE SoeChannel -----------------------------
(***************************************************************************)
(* Reliable data transfer of packages/protocol/src/soe/session-manager.ts: *)
(* the sending half of one Session joined to the receiving half of         *)
(* another.  sendReliable numbers, stores and transmits the packets of a   *)
(* message; tick retransmits or gives up; processAck and processOutOfOrder *)
(* react to the peer; processData and processDataFragment accept, queue or *)
(* drop what arrives and drain the out-of-order queue.                     *)
(*                                                                         *)
(* A packet is known by its id, the order in which it was first sent; what *)
(* the code reads from the wire is SeqOf(id) and the content of sent[id].  *)
(* The network keeps what was transmitted: it may hand a packet over any   *)
(* number of times, in any order, or never, so loss, duplication and       *)
(* reordering need no action of their own.  It forgets a packet once the   *)
(* channel has moved HalfRange packets on (packet lifetime).               *)
(***************************************************************************)
EXTENDS SoeSequence, Sequences, FiniteSets

CONSTANTS
  MaxOutOfOrder,   \* MAX_OUT_OF_ORDER_PACKETS
  MaxRetries,      \* options.maxRetries
  MessageSizes,    \* packets a message takes: 1 is a Data packet, more are fragments
  Window,          \* how far the application runs ahead of its peer (not in the code)
  MaxPackets,      \* bound on the packets of a behaviour
  MaxResend        \* bound on the resends the peer can ask for per packet

ASSUME ChannelAssumption ==
  /\ MaxOutOfOrder \in Nat /\ MaxRetries \in Nat /\ MaxResend \in Nat
  /\ MaxPackets \in Nat
  /\ MessageSizes \subseteq Nat \ {0}
  /\ Window \in Nat

VARIABLES
  sent,            \* the packets sent so far: content of every id
  messages,        \* the messages handed to sendReliable, each its sequence of ids
  sendSequence,    \* Session.sendSequence
  pendingAcks,     \* Session.pendingAcks of the sender
  senderState,     \* Session.state of the sender
  dataNet,         \* ids of the Data and DataFragment packets on the wire
  ackNet,          \* Ack and OutOfOrder packets on the wire
  receiverState,   \* Session.state of the receiver
  receiveSequence, \* Session.receiveSequence
  outOfOrderQueue, \* Session.outOfOrderQueue
  fragmentBuffer,  \* Session.fragmentBuffer
  delivered,       \* the 'data' events emitted, each the ids it was built from
  consumed         \* every id accepted as the expected packet, in order

senderVars   == <<sent, messages, sendSequence, pendingAcks, senderState>>
receiverVars == <<receiverState, receiveSequence, outOfOrderQueue,
                  fragmentBuffer, delivered, consumed>>
netVars      == <<dataNet, ackNet>>
vars == <<senderVars, receiverVars, netVars>>

-----------------------------------------------------------------------------
Ids == 0 .. Len(sent) - 1

Packet(id) == sent[id + 1]

\* A packet is the part-th of the "of" packets of its message.
PacketContent == [part : Nat, of : Nat]

IsFragment(id) == Packet(id).of > 1

NoFragments == [total |-> 0, parts |-> <<>>]

\* The wire form of the out-of-order queue: processDataFragment stores the
\* packet as it arrived, processData only the payload behind its header.
Queued(id) == [id |-> id, form |-> IF IsFragment(id) THEN "packet" ELSE "payload"]

EmptyQueue == [seq \in {} |-> <<>>]

Without(f, S) == [x \in DOMAIN f \ S |-> f[x]]

Overwrite(f, g) ==
  [x \in DOMAIN f \cup DOMAIN g |-> IF x \in DOMAIN g THEN g[x] ELSE f[x]]

Init ==
  /\ sent = <<>> /\ messages = <<>>
  /\ sendSequence = 0
  /\ pendingAcks = EmptyQueue
  /\ senderState = "Connected"
  /\ dataNet = {} /\ ackNet = {}
  /\ receiverState = "Connected"
  /\ receiveSequence = 0
  /\ outOfOrderQueue = EmptyQueue
  /\ fragmentBuffer = NoFragments
  /\ delivered = <<>> /\ consumed = <<>>

-----------------------------------------------------------------------------
(* The sending side. *)

\* Mutant: the counter never wraps.
NoWrap(k) == sendSequence + k

\* Session.getNextSendSequence: the k-th packet from here on gets
\* sendSequence + k, wrapped.
getNextSendSequence(k) == (sendSequence + k) % SeqMod

\* sendReliable and sendFragmented: every packet is stored as pending and
\* transmitted before the next one is numbered.  Nothing in the code limits
\* how many packets are outstanding; Window is what the application does.
SendReliable(n) ==
  LET first == Len(sent)
      ids   == first .. first + n - 1
      seqs  == {getNextSendSequence(k) : k \in 0 .. n - 1}
  IN  /\ senderState = "Connected"
      /\ first + n <= MaxPackets
      /\ first + n <= Len(consumed) + Window
      /\ sent' = sent \o [k \in 1 .. n |-> [part |-> k, of |-> n]]
      /\ messages' = Append(messages, [k \in 1 .. n |-> first + k - 1])
      /\ sendSequence' = getNextSendSequence(n)
      /\ pendingAcks' = Overwrite(pendingAcks,
           [seq \in seqs |->
              [id |-> CHOOSE id \in ids : SeqOf(id) = seq, retries |-> 0]])
      /\ dataNet' = dataNet \cup ids
      /\ UNCHANGED <<senderState, ackNet, receiverVars>>

\* Mutants: an ack clears one packet too many; an ack clears the whole map.
AcknowledgedOneMore(ackSeq) ==
  {seq \in DOMAIN pendingAcks : seq <= ackSeq + 1 \/ isSequenceOlder(seq, ackSeq)}

AcknowledgedAll(ackSeq) == DOMAIN pendingAcks

\* processAck: everything up to the acknowledged sequence leaves the map.
Acknowledged(ackSeq) ==
  {seq \in DOMAIN pendingAcks : seq <= ackSeq \/ isSequenceOlder(seq, ackSeq)}

\* The network delivers an ack no later than half the sequence range.
Fresh(id) == id + HalfRange > Len(sent)

ProcessAck ==
  /\ senderState = "Connected"
  /\ \E ack \in ackNet :
       /\ ack.kind = "Ack" /\ Fresh(ack.id)
       /\ pendingAcks' = Without(pendingAcks, Acknowledged(SeqOf(ack.id)))
  /\ UNCHANGED <<sent, messages, sendSequence, senderState, netVars, receiverVars>>

\* processOutOfOrder: resend what the peer is missing if it is still pending.
\* The resend counts as a retry but never gives the session up.
ProcessOutOfOrder ==
  /\ senderState = "Connected"
  /\ \E ack \in ackNet :
       LET seq == SeqOf(ack.id) IN
       /\ ack.kind = "OutOfOrder" /\ Fresh(ack.id)
       /\ seq \in DOMAIN pendingAcks
       /\ pendingAcks[seq].retries < MaxRetries + MaxResend
       /\ pendingAcks' = [pendingAcks EXCEPT ![seq].retries = @ + 1]
       /\ dataNet' = dataNet \cup {pendingAcks[seq].id}
  /\ UNCHANGED <<sent, messages, sendSequence, senderState, ackNet, receiverVars>>

\* removeSession as the sender loses its session.
SenderRemoved ==
  /\ senderState' = "Disconnected"
  /\ pendingAcks' = EmptyQueue

\* tick: the packets whose resend timeout has passed are visited in the order
\* they were stored; the first one out of retries ends the session.
Tick(due) ==
  LET exhausted == {seq \in due : pendingAcks[seq].retries >= MaxRetries}
      resent    == {pendingAcks[seq].id : seq \in due}
  IN  /\ senderState = "Connected"
      /\ due # {} /\ due \subseteq DOMAIN pendingAcks
      /\ IF exhausted = {}
         THEN /\ pendingAcks' = [seq \in DOMAIN pendingAcks |->
                   IF seq \in due
                   THEN [pendingAcks[seq] EXCEPT !.retries = @ + 1]
                   ELSE pendingAcks[seq]]
              /\ dataNet' = dataNet \cup resent
              /\ UNCHANGED senderState
         ELSE /\ SenderRemoved
              /\ dataNet' = dataNet \cup
                   {id \in resent : \A seq \in exhausted : id < pendingAcks[seq].id}
      /\ UNCHANGED <<sent, messages, sendSequence, ackNet, receiverVars>>

\* tick with nothing heard from the peer for sessionTimeout, or the
\* application calling disconnectSession.
SenderDisconnect ==
  /\ senderState = "Connected"
  /\ SenderRemoved
  /\ UNCHANGED <<sent, messages, sendSequence, netVars, receiverVars>>

-----------------------------------------------------------------------------
(* The receiving side. *)

\* Mutant: the buffer survives its message.
ConsumeNoReset(state, id) ==
  LET buffer == state.buffer
      parts  == Append(buffer.parts, id)
      total  == IF buffer.parts = <<>> THEN Packet(id).of ELSE buffer.total
      next   == [total |-> total, parts |-> parts]
  IN  IF ~IsFragment(id)
      THEN [state EXCEPT !.out = Append(@, <<id>>)]
      ELSE IF Len(parts) >= total
           THEN [buffer |-> next, out |-> Append(state.out, parts)]
           ELSE [state EXCEPT !.buffer = next]

\* processDataFragment on the expected packet, and deliverData: the first
\* fragment brings the size of the whole message.
Consume(state, id) ==
  LET buffer == state.buffer
      parts  == Append(buffer.parts, id)
      total  == IF buffer.parts = <<>> THEN Packet(id).of ELSE buffer.total
  IN  IF ~IsFragment(id)
      THEN [state EXCEPT !.out = Append(@, <<id>>)]
      ELSE IF Len(parts) >= total
           THEN [buffer |-> NoFragments, out |-> Append(state.out, parts)]
           ELSE [state EXCEPT !.buffer = [total |-> total, parts |-> parts]]

\* Consume the ids of a sequence one after the other.
ConsumeAll(ids) ==
  LET after[k \in 0 .. Len(ids)] ==
        IF k = 0 THEN [buffer |-> fragmentBuffer, out |-> delivered]
        ELSE Consume(after[k - 1], ids[k])
  IN  after[Len(ids)]

\* The k-th queue slot behind the packet that has just arrived.
Slot(id, k) == SeqOf(id + k)

\* What processOutOfOrderQueue takes for a packet: a payload has lost the
\* header the loop reads its opcode from.
HoldsPacket(seq) ==
  seq \in DOMAIN outOfOrderQueue /\ outOfOrderQueue[seq].form = "packet"

\* The expected packet arrives.  n queued packets follow it; the entry after
\* them, if there is one, is taken out of the queue and not recognised.
Accept(id, n) ==
  LET run  == [k \in 1 .. n + 1 |->
                 IF k = 1 THEN id ELSE outOfOrderQueue[Slot(id, k - 1)].id]
      done == ConsumeAll(run)
  IN  /\ \A k \in 1 .. n : HoldsPacket(Slot(id, k))
      /\ ~HoldsPacket(Slot(id, n + 1))
      /\ receiveSequence' = (receiveSequence + n + 1) % SeqMod
      /\ outOfOrderQueue' = Without(outOfOrderQueue, {Slot(id, k) : k \in 1 .. n + 1})
      /\ fragmentBuffer' = done.buffer
      /\ delivered' = done.out
      /\ consumed' = consumed \o run
      /\ ackNet' = ackNet \cup {[kind |-> "Ack", id |-> run[k]] : k \in 1 .. n + 1}

\* A packet ahead of the expected one is kept if there is room, reported as
\* out of order, and acknowledged either way.
Enqueue(id) ==
  /\ outOfOrderQueue' =
       IF Cardinality(DOMAIN outOfOrderQueue) < MaxOutOfOrder
       THEN Overwrite(outOfOrderQueue, [seq \in {SeqOf(id)} |-> Queued(id)])
       ELSE outOfOrderQueue
  /\ ackNet' = ackNet \cup {[kind |-> "OutOfOrder", id |-> Len(consumed)],
                            [kind |-> "Ack", id |-> id]}
  /\ UNCHANGED <<receiveSequence, fragmentBuffer, delivered, consumed>>

\* A duplicate is only acknowledged.
AckAgain(id) ==
  /\ ackNet' = ackNet \cup {[kind |-> "Ack", id |-> id]}
  /\ UNCHANGED <<receiveSequence, outOfOrderQueue, fragmentBuffer, delivered, consumed>>

\* The network has not yet forgotten the packet.
Alive(id) == id + HalfRange > Len(consumed)

\* Mutant: any packet that is not old is taken for the expected one.
ReceiveNotOld(id) ==
  /\ receiverState = "Connected" /\ Alive(id)
  /\ ~isSequenceOlder(SeqOf(id), receiveSequence)
  /\ \E n \in 0 .. MaxOutOfOrder : Accept(id, n)
  /\ UNCHANGED <<senderVars, dataNet, receiverState>>

ReceiveExpected(id) ==
  /\ receiverState = "Connected" /\ Alive(id)
  /\ SeqOf(id) = receiveSequence
  /\ \E n \in 0 .. MaxOutOfOrder : Accept(id, n)
  /\ UNCHANGED <<senderVars, dataNet, receiverState>>

ReceiveAhead(id) ==
  /\ receiverState = "Connected" /\ Alive(id)
  /\ SeqOf(id) # receiveSequence
  /\ isSequenceNewer(SeqOf(id), receiveSequence)
  /\ Enqueue(id)
  /\ UNCHANGED <<senderVars, dataNet, receiverState>>

ReceiveOld(id) ==
  /\ receiverState = "Connected" /\ Alive(id)
  /\ SeqOf(id) # receiveSequence
  /\ ~isSequenceNewer(SeqOf(id), receiveSequence)
  /\ AckAgain(id)
  /\ UNCHANGED <<senderVars, dataNet, receiverState>>

\* The receiver's own session timeout or a disconnect: removeSession.
ReceiverDisconnect ==
  /\ receiverState = "Connected"
  /\ receiverState' = "Disconnected"
  /\ outOfOrderQueue' = EmptyQueue
  /\ fragmentBuffer' = NoFragments
  /\ UNCHANGED <<senderVars, netVars, receiveSequence, delivered, consumed>>

-----------------------------------------------------------------------------
Retransmit == \E due \in SUBSET DOMAIN pendingAcks : Tick(due)

Next ==
  \/ \E n \in MessageSizes : SendReliable(n)
  \/ ProcessAck
  \/ ProcessOutOfOrder
  \/ Retransmit
  \/ SenderDisconnect
  \/ \E id \in dataNet : ReceiveExpected(id) \/ ReceiveAhead(id) \/ ReceiveOld(id)
  \/ ReceiverDisconnect

Spec == Init /\ [][Next]_vars

\* The tick timer runs every tickInterval: a packet that stays pending is
\* visited again and again once its resend timeout has passed.
TickFairness == \A seq \in Sequences16 :
  WF_vars(\E due \in SUBSET DOMAIN pendingAcks : seq \in due /\ Tick(due))

FairSpec == Spec /\ TickFairness

-----------------------------------------------------------------------------
(* Properties. *)

PendingPacket == [id : Nat, retries : Nat]

\* The state of both Session objects and of the wire is what the code can hold.
TypeOK ==
  /\ sent \in Seq(PacketContent)
  /\ sendSequence \in Sequences16
  /\ DOMAIN pendingAcks \subseteq Sequences16
  /\ \A seq \in DOMAIN pendingAcks : pendingAcks[seq] \in PendingPacket
  /\ senderState \in {"Connected", "Disconnected"}
  /\ dataNet \subseteq Ids
  /\ ackNet \subseteq [kind : {"Ack", "OutOfOrder"}, id : Nat]
  /\ receiverState \in {"Connected", "Disconnected"}
  /\ receiveSequence \in Sequences16
  /\ DOMAIN outOfOrderQueue \subseteq Sequences16
  /\ \A seq \in DOMAIN outOfOrderQueue :
        outOfOrderQueue[seq] \in [id : Nat, form : {"packet", "payload"}]
  /\ consumed \in Seq(Nat)

\* The counters of the two Session objects stand for the packets sent and
\* accepted so far.
SequencesAgree ==
  /\ sendSequence = SeqOf(Len(sent))
  /\ receiveSequence = SeqOf(Len(consumed))

\* processData and processDataFragment accept exactly the packets that were
\* sent, each once and in the order they were sent, across any wrap of the
\* 16-bit sequence, however the network reorders and repeats them.
ConsumedInOrder == \A k \in DOMAIN consumed : consumed[k] = k - 1

\* Between two arrivals the out-of-order queue holds nothing the receiver has
\* already passed and never the packet it expects: whatever the drain loop of
\* processOutOfOrderQueue leaves behind is still ahead, so no stale entry can
\* be taken for a packet of a later turn of the sequence.
QueueAhead ==
  \A seq \in DOMAIN outOfOrderQueue :
    LET id == outOfOrderQueue[seq].id
    IN  SeqOf(id) = seq /\ id > Len(consumed) /\ id < Len(sent)

\* The sender forgets a packet only when the receiver has answered for it or
\* for a later one: everything newer than the newest acknowledgement is still
\* pending, to be retransmitted by tick.
RetainedUntilAcked ==
  senderState = "Connected" =>
    \A id \in Ids :
      \/ SeqOf(id) \in DOMAIN pendingAcks /\ pendingAcks[SeqOf(id)].id = id
      \/ \E ack \in ackNet : ack.kind = "Ack" /\ ack.id >= id

Sessions == senderState = "Connected" /\ receiverState = "Connected"

\* A message handed to sendReliable is delivered unless a session ends: a
\* packet that cannot get through exhausts its retries, so loss is never
\* silent.
NoSilentLoss ==
  \A k \in 1 .. MaxPackets :
    Len(messages) >= k ~> (Len(delivered) >= k \/ ~Sessions)
=============================================================================
