-------------------------- MODULE SoeChannelProofs --------------------------
(***************************************************************************)
(* Facts about the wrapping sequence numbers, for every modulus; and with  *)
(* them, that the receiver of the SOE channel accepts exactly the packets  *)
(* that were sent, in order, for every sequence modulus, queue limit and   *)
(* number of retries, as long as the application keeps within half the     *)
(* sequence range of its peer; that the messages made of them come out     *)
(* whole and in order, as ReliableDelivery says; and that the sender       *)
(* forgets nothing unanswered before the sequence first wraps.             *)
(***************************************************************************)
EXTENDS MCSoeChannel, IntervalInduction, SequenceTheorems, TLAPS

-----------------------------------------------------------------------------
(* Wrapping sequence numbers. *)

\* Quotient and remainder of an integer, stated once for the SMT solver.
LEMMA Division ==
  ASSUME NEW a \in Int
  PROVE  \E q \in Int : a = SeqMod * q + SeqOf(a)
<1>1. SeqMod \in Nat /\ SeqMod >= 2
  BY SeqModAssumption
<1>2. a = SeqMod * (a \div SeqMod) + (a % SeqMod) /\ a \div SeqMod \in Int
  BY <1>1
<1> QED
  BY <1>2 DEF SeqOf

\* Multiplication by the modulus distributes over the sums used below.
LEMMA Turns ==
  ASSUME NEW x \in Int, NEW y \in Int, NEW z \in Int
  PROVE  SeqMod * (x - y + z) = SeqMod * x - SeqMod * y + SeqMod * z
<1>1. SeqMod \in Int
  BY SeqModAssumption
<1> QED
  BY <1>1

\* Linear part of the congruence arguments, the products kept opaque.
LEMMA Residues ==
  ASSUME NEW a \in Int, NEW b \in Int, NEW ra \in Int, NEW rb \in Int,
         NEW pa \in Int, NEW pb \in Int, a = pa + ra, b = pb + rb
  PROVE  ra - rb = (a - b) - pa + pb
OBVIOUS

\* A wrapped counter is a 16-bit sequence number.
LEMMA SeqOfType ==
  ASSUME NEW a \in Int
  PROVE  SeqOf(a) \in Sequences16
BY SeqModAssumption DEF SeqOf, Sequences16

\* Two residues less than one turn apart are equal once they differ by a
\* whole number of turns.
LEMMA OneTurn ==
  ASSUME NEW r \in Int, NEW s \in Int, NEW c \in Int,
         r - s = SeqMod * c, r - s < SeqMod, s - r < SeqMod
  PROVE  r = s
<1>1. SeqMod \in Nat /\ SeqMod >= 2
  BY SeqModAssumption
<1>2. CASE c >= 1
  <2>1. SeqMod * c >= SeqMod
    BY <1>1, <1>2
  <2> QED
    BY <2>1, <1>1
<1>3. CASE c <= -1
  <2>1. SeqMod * c <= -SeqMod
    BY <1>1, <1>3
  <2> QED
    BY <2>1, <1>1
<1>4. CASE c = 0
  BY <1>1, <1>4
<1> QED
  BY <1>2, <1>3, <1>4

\* A sequence number determines its packet among those less than one turn of
\* the sequence apart.
LEMMA SeqInjective ==
  ASSUME NEW a \in Int, NEW b \in Int, a - b < SeqMod, b - a < SeqMod,
         SeqOf(a) = SeqOf(b)
  PROVE  a = b
<1>1. SeqMod \in Nat /\ SeqMod >= 2
  BY SeqModAssumption
<1>2. PICK qa \in Int : a = SeqMod * qa + SeqOf(a)
  BY Division
<1>3. PICK qb \in Int : b = SeqMod * qb + SeqOf(b)
  BY Division
<1>4. SeqOf(a) \in Int
  BY SeqOfType DEF Sequences16
<1>5. a - b = SeqMod * (qa - qb)
  BY <1>1, <1>2, <1>3, <1>4
<1> QED
  BY <1>5, OneTurn

\* Numbers a whole number of turns apart have the same sequence number.
LEMMA SeqCongruent ==
  ASSUME NEW a \in Int, NEW b \in Int, NEW c \in Int, a - b = SeqMod * c
  PROVE  SeqOf(a) = SeqOf(b)
<1>1. SeqMod \in Nat /\ SeqMod >= 2
  BY SeqModAssumption
<1>2. PICK qa \in Int : a = SeqMod * qa + SeqOf(a)
  BY Division
<1>3. PICK qb \in Int : b = SeqMod * qb + SeqOf(b)
  BY Division
<1>4. SeqOf(a) \in 0 .. SeqMod - 1 /\ SeqOf(b) \in 0 .. SeqMod - 1
  BY SeqOfType DEF Sequences16
<1>5. SeqOf(a) - SeqOf(b) = SeqMod * (c - qa + qb)
  <2>1. SeqMod * (c - qa + qb) = SeqMod * c - SeqMod * qa + SeqMod * qb
    BY Turns
  <2>2. SeqMod * qa \in Int /\ SeqMod * qb \in Int
    BY <1>1
  <2>3. SeqOf(a) - SeqOf(b) = (a - b) - SeqMod * qa + SeqMod * qb
    BY <1>2, <1>3, <1>4, <2>2, Residues
  <2> QED
    BY <2>1, <2>3
<1>6. c - qa + qb \in Int
  OBVIOUS
<1> QED
  BY <1>1, <1>4, <1>5, <1>6, OneTurn

\* Advancing a wrapped counter by k is wrapping the number advanced by k: what
\* getNextSendSequence and the receiver's "& 0xffff" compute.
LEMMA SeqAdvance ==
  ASSUME NEW a \in Int, NEW k \in Int
  PROVE  (SeqOf(a) + k) % SeqMod = SeqOf(a + k)
<1>1. SeqMod \in Nat /\ SeqMod >= 2
  BY SeqModAssumption
<1>2. PICK q \in Int : a = SeqMod * q + SeqOf(a)
  BY Division
<1>3. SeqOf(a) \in Int
  BY SeqOfType DEF Sequences16
<1>4. (SeqOf(a) + k) - (a + k) = SeqMod * (-q)
  BY <1>1, <1>2, <1>3
<1>5. SeqOf(SeqOf(a) + k) = SeqOf(a + k)
  BY <1>3, <1>4, SeqCongruent
<1> QED
  BY <1>5 DEF SeqOf

\* The wrapped difference of two sequence numbers is the wrapped difference
\* of the numbers.
LEMMA SeqDifference ==
  ASSUME NEW a \in Int, NEW b \in Int
  PROVE  (SeqOf(a) - SeqOf(b)) % SeqMod = SeqOf(a - b)
<1>1. SeqMod \in Nat /\ SeqMod >= 2
  BY SeqModAssumption
<1>2. PICK qa \in Int : a = SeqMod * qa + SeqOf(a)
  BY Division
<1>3. PICK qb \in Int : b = SeqMod * qb + SeqOf(b)
  BY Division
<1>4. SeqOf(a) \in Int /\ SeqOf(b) \in Int
  BY SeqOfType DEF Sequences16
<1>5. (SeqOf(a) - SeqOf(b)) - (a - b) = SeqMod * (qb - qa + 0)
  <2>1. SeqMod * (qb - qa + 0) = SeqMod * qb - SeqMod * qa + SeqMod * 0
    BY Turns
  <2>2. SeqMod * qa \in Int /\ SeqMod * qb \in Int /\ SeqMod * 0 = 0
    BY <1>1
  <2>3. SeqOf(a) - SeqOf(b) = (a - b) - SeqMod * qa + SeqMod * qb
    BY <1>2, <1>3, <1>4, <2>2, Residues
  <2>4. a - b \in Int /\ SeqOf(a) - SeqOf(b) \in Int
    BY <1>4
  <2> QED
    BY <2>1, <2>2, <2>3, <2>4
<1>6. SeqOf(SeqOf(a) - SeqOf(b)) = SeqOf(a - b)
  BY <1>4, <1>5, SeqCongruent
<1> QED
  BY <1>6 DEF SeqOf

\* isSequenceNewer decides which of two packets was sent later whenever they
\* are within half the sequence range of each other, across any wrap.
THEOREM NewerMeansAhead ==
  ASSUME NEW a \in Int, NEW b \in Int, a - b < HalfRange, b - a < HalfRange
  PROVE  isSequenceNewer(SeqOf(a), SeqOf(b)) <=> a > b
<1>1. SeqMod \in Nat /\ SeqMod >= 2
  BY SeqModAssumption
<1>2. HalfRange \in Int /\ 2 * HalfRange <= SeqMod
  BY <1>1 DEF HalfRange
<1> DEFINE diff == (SeqOf(a) - SeqOf(b)) % SeqMod
<1>3. diff = SeqOf(a - b)
  BY SeqDifference
<1>4. SeqOf(a - b) \in 0 .. SeqMod - 1
  BY SeqOfType DEF Sequences16
<1>5. CASE a > b
  <2>1. SeqOf(a - b) = a - b
    <3>1. a - b \in 0 .. SeqMod - 1
      BY <1>1, <1>2, <1>5
    <3> QED
      BY <3>1, <1>1 DEF SeqOf
  <2> QED
    BY <2>1, <1>3, <1>2, <1>5 DEF isSequenceNewer
<1>6. CASE a = b
  <2>1. SeqOf(a - b) = 0
    BY <1>1, <1>6 DEF SeqOf
  <2> QED
    BY <2>1, <1>3, <1>6 DEF isSequenceNewer
<1>7. CASE a < b
  <2>1. SeqOf(a - b) = SeqOf(a - b + SeqMod)
    <3>1. (a - b) - (a - b + SeqMod) = SeqMod * (-1)
      BY <1>1
    <3> QED
      BY <3>1, <1>1, SeqCongruent
  <2>2. SeqOf(a - b + SeqMod) = a - b + SeqMod
    <3>1. a - b + SeqMod \in 0 .. SeqMod - 1
      BY <1>1, <1>2, <1>7
    <3> QED
      BY <3>1, <1>1 DEF SeqOf
  <2>3. a - b + SeqMod >= HalfRange
    BY <1>1, <1>2, <1>7
  <2> QED
    BY <2>1, <2>2, <2>3, <1>2, <1>3, <1>7, <1>1 DEF isSequenceNewer
<1> QED
  BY <1>5, <1>6, <1>7

-----------------------------------------------------------------------------
(* The channel. *)

\* The inductive invariant: what ConsumedInOrder needs is that both counters
\* stand for their packets, that everything on the wire, pending or queued is
\* a packet that was sent, that the queue is ahead of the receiver and that
\* the application keeps its window.
Types ==
  /\ sent \in Seq(PacketContent)
  /\ consumed \in Seq(Nat)
  /\ outOfOrderQueue = [seq \in DOMAIN outOfOrderQueue |-> outOfOrderQueue[seq]]
  /\ \A seq \in DOMAIN outOfOrderQueue : outOfOrderQueue[seq].id \in Nat

KnownPackets ==
  /\ dataNet \subseteq Ids
  /\ \A seq \in DOMAIN pendingAcks : pendingAcks[seq].id \in Ids

InWindow ==
  /\ Len(consumed) <= Len(sent)
  /\ Len(sent) <= Len(consumed) + Window

IInv ==
  /\ Types
  /\ KnownPackets
  /\ InWindow
  /\ SequencesAgree
  /\ QueueAhead
  /\ ConsumedInOrder

-----------------------------------------------------------------------------
\* The sequence space is split into two halves of at least one number.
LEMMA Constants ==
  /\ SeqMod \in Nat /\ SeqMod >= 2
  /\ HalfRange \in Nat /\ HalfRange >= 1 /\ 2 * HalfRange <= SeqMod
BY SeqModAssumption DEF HalfRange

\* Two fresh Session objects satisfy the invariant.
LEMMA InitInvariant == Init => IInv
<1> SUFFICES ASSUME Init PROVE IInv
  OBVIOUS
<1>1. Types /\ KnownPackets
  BY DEF Init, Types, KnownPackets, EmptyQueue, PacketContent
<1>2. InWindow
  BY ChannelAssumption DEF Init, InWindow
<1>3. SequencesAgree
  BY SeqModAssumption DEF Init, SequencesAgree, SeqOf
<1>4. QueueAhead /\ ConsumedInOrder
  BY DEF Init, QueueAhead, ConsumedInOrder, EmptyQueue
<1> QED
  BY <1>1, <1>2, <1>3, <1>4 DEF IInv

\* sendReliable numbers its packets on from the counter and leaves the
\* receiver alone.
LEMMA SendStep ==
  ASSUME IInv, NEW n \in MessageSizes, SendReliable(n)
  PROVE  IInv'
<1> USE DEF IInv
<1>1. n \in Nat /\ n >= 1 /\ Window \in Nat
  BY ChannelAssumption
<1>2. Len(sent) \in Nat /\ Len(consumed) \in Nat
  BY DEF Types
<1> DEFINE batch == [k \in 1 .. n |-> [part |-> k, of |-> n]]
<1>3. batch \in Seq(PacketContent) /\ Len(batch) = n
  BY <1>1 DEF PacketContent
<1>4. sent' = sent \o batch
  BY DEF SendReliable
<1> HIDE DEF batch
<1>5. sent' \in Seq(PacketContent) /\ Len(sent') = Len(sent) + n
  BY <1>3, <1>4, ConcatProperties DEF Types
<1>6. UNCHANGED <<receiverState, receiveSequence, outOfOrderQueue, consumed>>
  BY DEF SendReliable, receiverVars
<1>7. Types'
  BY <1>5, <1>6 DEF Types
<1>8. InWindow'
  BY <1>1, <1>2, <1>5, <1>6 DEF SendReliable, InWindow
<1>9. SequencesAgree'
  <2>1. sendSequence' = SeqOf(Len(sent) + n)
    BY <1>1, <1>2, SeqAdvance DEF SendReliable, SequencesAgree, getNextSendSequence
  <2> QED
    BY <2>1, <1>5, <1>6 DEF SequencesAgree
<1>10. QueueAhead'
  BY <1>1, <1>2, <1>5, <1>6 DEF QueueAhead, Types
<1>11. ConsumedInOrder'
  BY <1>6 DEF ConsumedInOrder
<1>12. KnownPackets'
  <2> DEFINE first == Len(sent)
             ids   == first .. first + n - 1
             seqs  == {getNextSendSequence(k) : k \in 0 .. n - 1}
             fresh == [seq \in seqs |->
                         [id |-> CHOOSE id \in ids : SeqOf(id) = seq, retries |-> 0]]
  <2>1. dataNet' = dataNet \cup ids /\ pendingAcks' = Overwrite(pendingAcks, fresh)
    BY DEF SendReliable
  <2>2. ids \subseteq Ids' /\ Ids \subseteq Ids'
    BY <1>1, <1>2, <1>5 DEF Ids
  <2>3. \A seq \in seqs : \E id \in ids : SeqOf(id) = seq
    <3> SUFFICES ASSUME NEW k \in 0 .. n - 1
                 PROVE  \E id \in ids : SeqOf(id) = getNextSendSequence(k)
      OBVIOUS
    <3>1. getNextSendSequence(k) = SeqOf(first + k)
      BY <1>2, SeqAdvance DEF getNextSendSequence, SequencesAgree
    <3>2. first + k \in ids
      BY <1>1, <1>2
    <3> QED
      BY <3>1, <3>2
  <2>4. \A seq \in seqs : (CHOOSE id \in ids : SeqOf(id) = seq) \in ids
    BY <2>3
  <2>5. \A seq \in DOMAIN fresh : fresh[seq].id \in ids
    BY <2>4
  <2> HIDE DEF ids, fresh
  <2>6. \A seq \in DOMAIN pendingAcks' : pendingAcks'[seq].id \in Ids'
    BY <2>1, <2>2, <2>5 DEF Overwrite, KnownPackets
  <2> QED
    BY <2>1, <2>2, <2>6 DEF KnownPackets
<1> QED
  BY <1>7, <1>8, <1>9, <1>10, <1>11, <1>12

\* processAck, processOutOfOrder, tick and the end of the sender's session
\* leave the packets sent and the receiver alone.
LEMMA SenderOtherStep ==
  ASSUME IInv, ProcessAck \/ ProcessOutOfOrder \/ Retransmit \/ SenderDisconnect
  PROVE  IInv'
<1> USE DEF IInv
<1>1. UNCHANGED <<sent, sendSequence, receiverVars>>
  BY DEF ProcessAck, ProcessOutOfOrder, Retransmit, Tick, SenderDisconnect,
         netVars, receiverVars
<1>2. /\ dataNet' \subseteq Ids
      /\ \A seq \in DOMAIN pendingAcks' : pendingAcks'[seq].id \in Ids
  <2>1. CASE ProcessAck
    BY <2>1 DEF ProcessAck, Without, KnownPackets, netVars
  <2>2. CASE ProcessOutOfOrder
    <3>1. PICK ack \in ackNet :
            LET seq == SeqOf(ack.id) IN
            /\ seq \in DOMAIN pendingAcks
            /\ pendingAcks' = [pendingAcks EXCEPT ![seq].retries = @ + 1]
            /\ dataNet' = dataNet \cup {pendingAcks[seq].id}
      BY <2>2 DEF ProcessOutOfOrder
    <3>2. DOMAIN pendingAcks' = DOMAIN pendingAcks
      BY <3>1
    <3>3. \A seq \in DOMAIN pendingAcks : pendingAcks'[seq].id = pendingAcks[seq].id
      BY <3>1
    <3> QED
      BY <3>1, <3>2, <3>3 DEF KnownPackets
  <2>3. CASE Retransmit
    <3>1. PICK due \in SUBSET DOMAIN pendingAcks : Tick(due)
      BY <2>3 DEF Retransmit
    <3>2. \A seq \in DOMAIN pendingAcks' :
            /\ seq \in DOMAIN pendingAcks
            /\ pendingAcks'[seq].id = pendingAcks[seq].id
      <4>1. CASE {seq \in due : pendingAcks[seq].retries >= MaxRetries} = {}
        <5>1. pendingAcks' = [seq \in DOMAIN pendingAcks |->
                 IF seq \in due
                 THEN [pendingAcks[seq] EXCEPT !.retries = @ + 1]
                 ELSE pendingAcks[seq]]
          BY <3>1, <4>1 DEF Tick
        <5> QED
          BY <5>1
      <4>2. CASE {seq \in due : pendingAcks[seq].retries >= MaxRetries} # {}
        BY <3>1, <4>2 DEF Tick, SenderRemoved, EmptyQueue
      <4> QED
        BY <4>1, <4>2
    <3>3. dataNet' \subseteq dataNet \cup {pendingAcks[seq].id : seq \in due}
      BY <3>1 DEF Tick
    <3> QED
      BY <3>2, <3>3 DEF KnownPackets
  <2>4. CASE SenderDisconnect
    BY <2>4 DEF SenderDisconnect, SenderRemoved, EmptyQueue, KnownPackets, netVars
  <2> QED
    BY <2>1, <2>2, <2>3, <2>4
<1>3. Ids' = Ids
  BY <1>1 DEF Ids
<1>4. KnownPackets'
  BY <1>2, <1>3 DEF KnownPackets
<1> QED
  BY <1>1, <1>4 DEF Types, InWindow, SequencesAgree, QueueAhead, ConsumedInOrder,
                    receiverVars

\* A live packet carrying the expected sequence number is the next packet.
LEMMA ExpectedIsNext ==
  ASSUME IInv, Window <= HalfRange, NEW id \in dataNet, Alive(id),
         SeqOf(id) = receiveSequence
  PROVE  id = Len(consumed)
<1>1. id \in Nat /\ id < Len(sent) /\ Len(sent) \in Nat /\ Len(consumed) \in Nat
  BY DEF IInv, KnownPackets, Ids, Types
<1>2. id - Len(consumed) < SeqMod /\ Len(consumed) - id < SeqMod
  BY <1>1, Constants, ChannelAssumption DEF IInv, InWindow, Alive
<1> QED
  BY <1>1, <1>2, SeqInjective DEF IInv, SequencesAgree

\* The queue slots behind the next packet hold the packets behind it, and a
\* run of filled slots ends before the sequence comes round.
LEMMA SlotContent ==
  ASSUME IInv, Window <= HalfRange, NEW k \in Nat, k >= 1, k < SeqMod,
         Slot(Len(consumed), k) \in DOMAIN outOfOrderQueue
  PROVE  outOfOrderQueue[Slot(Len(consumed), k)].id = Len(consumed) + k
<1> DEFINE C == Len(consumed)
           j == outOfOrderQueue[Slot(C, k)].id
<1>1. C \in Nat /\ Len(sent) \in Nat /\ j \in Nat
  BY DEF IInv, Types
<1>2. SeqOf(j) = SeqOf(C + k) /\ j > C /\ j < Len(sent)
  BY DEF IInv, QueueAhead, Slot
<1>3. j - (C + k) < SeqMod /\ (C + k) - j < SeqMod
  BY <1>1, <1>2, Constants, ChannelAssumption DEF IInv, InWindow
<1> HIDE DEF j
<1>4. j \in Int /\ C + k \in Int
  BY <1>1
<1>5. j = C + k
  BY <1>2, <1>3, <1>4, SeqInjective
<1> QED
  BY <1>5 DEF j

\* A run of filled queue slots is shorter than one turn of the sequence.
LEMMA RunIsShort ==
  ASSUME IInv, Window <= HalfRange, NEW n \in Nat,
         \A k \in 1 .. n : HoldsPacket(Slot(Len(consumed), k))
  PROVE  n < SeqMod
<1> DEFINE C == Len(consumed)
           s == Slot(C, SeqMod)
<1>1. C \in Nat /\ Len(sent) \in Nat /\ SeqMod \in Nat /\ SeqMod >= 2
  BY Constants DEF IInv, Types
<1> SUFFICES ASSUME n >= SeqMod PROVE FALSE
  BY <1>1
<1>2. s \in DOMAIN outOfOrderQueue
  BY <1>1 DEF HoldsPacket
<1>3. s = SeqOf(C)
  BY <1>1, SeqCongruent, (C + SeqMod) - C = SeqMod * 1 DEF Slot
<1> DEFINE j == outOfOrderQueue[s].id
<1>4. j \in Nat /\ SeqOf(j) = SeqOf(C) /\ j > C /\ j < Len(sent)
  BY <1>2, <1>3 DEF IInv, QueueAhead, Types
<1> HIDE DEF j
<1>5. j - C < SeqMod /\ C - j < SeqMod
  BY <1>1, <1>4, Constants, ChannelAssumption DEF IInv, InWindow
<1> QED
  BY <1>1, <1>4, <1>5, SeqInjective

\* What Accept consumes: the packet that arrived and the n queued behind it.
Accepted(id, n) ==
  [k \in 1 .. n + 1 |-> IF k = 1 THEN id ELSE outOfOrderQueue[Slot(id, k - 1)].id]

\* It is the next n + 1 packets.
LEMMA AcceptedAreNext ==
  ASSUME IInv, Window <= HalfRange, NEW id \in dataNet, ReceiveExpected(id),
         NEW n \in Nat, Accept(id, n)
  PROVE  /\ \A k \in 1 .. n + 1 : Accepted(id, n)[k] = Len(consumed) + k - 1
         /\ Len(consumed) + n < Len(sent)
<1> DEFINE C == Len(consumed)
<1>1. id = C
  BY ExpectedIsNext DEF ReceiveExpected
<1>2. /\ C \in Nat /\ Len(sent) \in Nat
      /\ SeqMod \in Nat /\ SeqMod >= 2
  BY Constants DEF IInv, Types
<1>3. n < SeqMod
  BY <1>1, RunIsShort DEF Accept
<1>4. \A k \in 1 .. n + 1 : Accepted(id, n)[k] = C + k - 1
  <2> SUFFICES ASSUME NEW k \in 1 .. n + 1, k # 1
               PROVE  outOfOrderQueue[Slot(id, k - 1)].id = C + k - 1
    BY <1>1, <1>2 DEF Accepted
  <2>1. k - 1 \in 1 .. n /\ k - 1 \in Nat /\ k - 1 >= 1 /\ k - 1 < SeqMod
    BY <1>2, <1>3
  <2>2. HoldsPacket(Slot(id, k - 1))
    BY <2>1 DEF Accept
  <2>3. Slot(C, k - 1) \in DOMAIN outOfOrderQueue
    BY <2>2, <1>1 DEF HoldsPacket
  <2>4. outOfOrderQueue[Slot(C, k - 1)].id = C + (k - 1)
    BY <2>1, <2>3, SlotContent
  <2> QED
    BY <2>4, <1>1, <1>2
<1>5. C + n < Len(sent)
  <2>1. CASE n = 0
    BY <2>1, <1>1, <1>2 DEF IInv, KnownPackets, Ids
  <2>2. CASE n >= 1
    <3>1. Slot(C, n) \in DOMAIN outOfOrderQueue
      BY <2>2, <1>1, <1>2 DEF Accept, HoldsPacket
    <3>2. outOfOrderQueue[Slot(C, n)].id = C + n
      BY <3>1, <2>2, <1>2, <1>3, SlotContent
    <3> QED
      BY <3>1, <3>2 DEF IInv, QueueAhead
  <2> QED
    BY <2>1, <2>2, <1>2
<1> QED
  BY <1>4, <1>5

\* The expected packet and the run of queued packets behind it.
LEMMA ExpectedStep ==
  ASSUME IInv, Window <= HalfRange, NEW id \in dataNet, ReceiveExpected(id)
  PROVE  IInv'
<1> DEFINE C == Len(consumed)
<1>1. id = C
  BY ExpectedIsNext DEF ReceiveExpected
<1>2. PICK n \in 0 .. MaxOutOfOrder : Accept(id, n)
  BY DEF ReceiveExpected
<1>3. /\ n \in Nat /\ C \in Nat /\ Len(sent) \in Nat
      /\ SeqMod \in Nat /\ SeqMod >= 2
  BY <1>2, Constants, ChannelAssumption DEF IInv, Types
<1> DEFINE run == Accepted(id, n)
<1>4. /\ \A k \in 1 .. n + 1 : run[k] = C + k - 1
      /\ C + n < Len(sent)
  BY <1>2, <1>3, AcceptedAreNext
<1>5. consumed' = consumed \o run
  BY <1>2 DEF Accept, Accepted
<1>6. run \in Seq(Nat) /\ Len(run) = n + 1
  BY <1>3, <1>4 DEF Accepted
<1> HIDE DEF run
<1>7. /\ consumed' \in Seq(Nat)
      /\ Len(consumed') = C + n + 1
      /\ \A k \in 1 .. C : consumed'[k] = consumed[k]
      /\ \A k \in C + 1 .. C + n + 1 : consumed'[k] = run[k - C]
  <2>1. consumed \in Seq(Nat)
    BY DEF IInv, Types
  <2>2. /\ consumed' \in Seq(Nat)
        /\ Len(consumed') = C + Len(run)
        /\ \A k \in 1 .. C + Len(run) :
              consumed'[k] = IF k <= C THEN consumed[k] ELSE run[k - C]
    BY <2>1, <1>5, <1>6, ConcatProperties
  <2> HIDE DEF C
  <2>3. Len(consumed') = C + n + 1
    BY <2>2, <1>3, <1>6
  <2>4. ASSUME NEW k \in 1 .. C
        PROVE  consumed'[k] = consumed[k]
    <3>1. k \in 1 .. C + Len(run) /\ k <= C
      BY <1>3, <1>6
    <3> QED
      BY <3>1, <2>2
  <2>5. ASSUME NEW k \in C + 1 .. C + n + 1
        PROVE  consumed'[k] = run[k - C]
    <3>1. k \in 1 .. C + Len(run) /\ ~(k <= C)
      BY <1>3, <1>6
    <3> QED
      BY <3>1, <2>2
  <2> QED
    BY <2>2, <2>3, <2>4, <2>5
<1>8. UNCHANGED <<sent, sendSequence, pendingAcks, dataNet>>
  BY DEF ReceiveExpected, senderVars
<1> DEFINE gone == {Slot(id, k) : k \in 1 .. n + 1}
<1>9. outOfOrderQueue' = Without(outOfOrderQueue, gone)
  BY <1>2 DEF Accept
<1>10. \A seq \in DOMAIN outOfOrderQueue' :
         /\ seq \in DOMAIN outOfOrderQueue /\ seq \notin gone
         /\ outOfOrderQueue'[seq] = outOfOrderQueue[seq]
  BY <1>9 DEF Without
<1>11. Types'
  BY <1>7, <1>8, <1>9, <1>10 DEF IInv, Types, Without
<1>12. KnownPackets'
  BY <1>8 DEF IInv, KnownPackets, Ids
<1>13. InWindow'
  BY <1>3, <1>4, <1>7, <1>8, ChannelAssumption DEF IInv, InWindow
<1>14. SequencesAgree'
  <2>1. receiveSequence' = (receiveSequence + n + 1) % SeqMod
    BY <1>2 DEF Accept
  <2>2. receiveSequence = SeqOf(C) /\ receiveSequence \in Int
    BY <1>3, SeqOfType DEF IInv, SequencesAgree, Sequences16
  <2>3. receiveSequence + n + 1 = SeqOf(C) + (n + 1)
    BY <2>2, <1>3
  <2>4. receiveSequence' = SeqOf(C + (n + 1))
    BY <2>1, <2>3, <1>3, SeqAdvance
  <2> QED
    BY <2>4, <1>3, <1>7, <1>8 DEF IInv, SequencesAgree
<1>15. QueueAhead'
  <2> SUFFICES ASSUME NEW seq \in DOMAIN outOfOrderQueue'
               PROVE  LET j == outOfOrderQueue'[seq].id
                      IN  SeqOf(j) = seq /\ j > Len(consumed') /\ j < Len(sent')
    BY DEF QueueAhead
  <2> DEFINE j == outOfOrderQueue[seq].id
  <2>1. j \in Nat /\ SeqOf(j) = seq /\ j > C /\ j < Len(sent)
    BY <1>10 DEF IInv, QueueAhead, Types
  <2>2. \A k \in 1 .. n + 1 : j # C + k
    <3> SUFFICES ASSUME NEW k \in 1 .. n + 1, j = C + k PROVE FALSE
      OBVIOUS
    <3>1. seq = Slot(id, k)
      BY <2>1, <1>1 DEF Slot
    <3> QED
      BY <3>1, <1>10
  <2> HIDE DEF j
  <2>3. j > C + n + 1
    <3> SUFFICES ASSUME j <= C + n + 1 PROVE FALSE
      BY <2>1, <1>3
    <3>1. j - C \in 1 .. n + 1 /\ j = C + (j - C)
      BY <2>1, <1>3
    <3> QED
      BY <3>1, <2>2
  <2> QED
    BY <2>1, <2>3, <1>7, <1>8, <1>10 DEF j
<1>16. ConsumedInOrder'
  <2> SUFFICES ASSUME NEW k \in DOMAIN consumed' PROVE consumed'[k] = k - 1
    BY DEF ConsumedInOrder
  <2>1. k \in 1 .. C + n + 1
    BY <1>7
  <2>2. CASE k <= C
    <3>1. k \in 1 .. C /\ k \in DOMAIN consumed
      BY <2>1, <2>2, <1>3 DEF IInv, Types
    <3> QED
      BY <3>1, <1>7 DEF IInv, ConsumedInOrder
  <2>3. CASE k > C
    <3>1. k - C \in 1 .. n + 1 /\ k \in C + 1 .. C + n + 1
      BY <2>1, <2>3, <1>3
    <3>2. run[k - C] = C + (k - C) - 1
      BY <3>1, <1>4
    <3>3. consumed'[k] = run[k - C]
      BY <3>1, <1>7
    <3>4. C + (k - C) - 1 = k - 1
      BY <2>1, <1>3
    <3> QED
      BY <3>2, <3>3, <3>4
  <2> QED
    BY <2>1, <2>2, <2>3, <1>3
<1> QED
  BY <1>11, <1>12, <1>13, <1>14, <1>15, <1>16 DEF IInv

\* A packet ahead of the expected one enters the queue at its own slot.
LEMMA AheadStep ==
  ASSUME IInv, Window <= HalfRange, NEW id \in dataNet, ReceiveAhead(id)
  PROVE  IInv'
<1> DEFINE C == Len(consumed)
<1>1. id \in Nat /\ id < Len(sent) /\ Len(sent) \in Nat /\ C \in Nat
  BY DEF IInv, KnownPackets, Ids, Types
<1>2. id > C
  <2>1. id - C < HalfRange /\ C - id < HalfRange
    BY <1>1, Constants, ChannelAssumption DEF IInv, InWindow, ReceiveAhead, Alive
  <2>2. isSequenceNewer(SeqOf(id), SeqOf(C))
    BY DEF ReceiveAhead, IInv, SequencesAgree
  <2> QED
    BY <1>1, <2>1, <2>2, NewerMeansAhead
<1>3. UNCHANGED <<sent, sendSequence, pendingAcks, dataNet, receiveSequence, consumed>>
  BY DEF ReceiveAhead, Enqueue, senderVars
<1>4. \A seq \in DOMAIN outOfOrderQueue' :
        \/ seq \in DOMAIN outOfOrderQueue /\ outOfOrderQueue'[seq] = outOfOrderQueue[seq]
        \/ seq = SeqOf(id) /\ outOfOrderQueue'[seq] = Queued(id)
  BY DEF ReceiveAhead, Enqueue, Overwrite
<1>5. Queued(id).id = id
  BY DEF Queued
<1>6. outOfOrderQueue' = [seq \in DOMAIN outOfOrderQueue' |-> outOfOrderQueue'[seq]]
  BY DEF ReceiveAhead, Enqueue, Overwrite, IInv, Types
<1>7. Types'
  BY <1>1, <1>3, <1>4, <1>5, <1>6 DEF IInv, Types
<1>8. QueueAhead'
  BY <1>1, <1>2, <1>3, <1>4, <1>5 DEF IInv, QueueAhead
<1> QED
  BY <1>3, <1>7, <1>8 DEF IInv, KnownPackets, Ids, InWindow, SequencesAgree,
                         ConsumedInOrder

\* A duplicate is acknowledged and changes nothing else.
LEMMA OldStep ==
  ASSUME IInv, NEW id \in dataNet, ReceiveOld(id)
  PROVE  IInv'
BY DEF ReceiveOld, AckAgain, senderVars, IInv, Types, KnownPackets, Ids, InWindow,
       SequencesAgree, QueueAhead, ConsumedInOrder

\* removeSession empties the receiver's queue.
LEMMA ReceiverDisconnectStep ==
  ASSUME IInv, ReceiverDisconnect
  PROVE  IInv'
BY DEF ReceiverDisconnect, EmptyQueue, senderVars, netVars, IInv, Types,
       KnownPackets, Ids, InWindow, SequencesAgree, QueueAhead, ConsumedInOrder

\* Every step of either Session keeps the invariant.
LEMMA NextInvariant ==
  ASSUME Window <= HalfRange
  PROVE  IInv /\ [Next]_vars => IInv'
<1> SUFFICES ASSUME IInv, [Next]_vars PROVE IInv'
  OBVIOUS
<1>1. CASE \E n \in MessageSizes : SendReliable(n)
  BY <1>1, SendStep
<1>2. CASE ProcessAck \/ ProcessOutOfOrder \/ Retransmit \/ SenderDisconnect
  BY <1>2, SenderOtherStep
<1>3. CASE \E id \in dataNet : ReceiveExpected(id) \/ ReceiveAhead(id) \/ ReceiveOld(id)
  BY <1>3, ExpectedStep, AheadStep, OldStep
<1>4. CASE ReceiverDisconnect
  BY <1>4, ReceiverDisconnectStep
<1>5. CASE UNCHANGED vars
  BY <1>5 DEF vars, senderVars, receiverVars, netVars, IInv, Types, KnownPackets,
              Ids, InWindow, SequencesAgree, QueueAhead, ConsumedInOrder
<1> QED
  BY <1>1, <1>2, <1>3, <1>4, <1>5 DEF Next

\* For every sequence modulus, queue size and number of retries, however the
\* wire loses, repeats and reorders packets: the receiving Session accepts
\* the packets in the order the sending Session numbered them, none skipped
\* and none twice, if the application stays within half the sequence range.
THEOREM ChannelAcceptsInOrder ==
  ASSUME Window <= HalfRange
  PROVE  Spec => []ConsumedInOrder
<1>1. IInv => ConsumedInOrder
  BY DEF IInv
<1> QED
  BY <1>1, InitInvariant, NextInvariant, PTL DEF Spec

\* Under the same condition nothing stale ever stays in the out-of-order
\* queue, and both 16-bit counters stand for the packets sent and accepted.
THEOREM ChannelQueueAhead ==
  ASSUME Window <= HalfRange
  PROVE  Spec => [](QueueAhead /\ SequencesAgree)
<1>1. IInv => QueueAhead /\ SequencesAgree
  BY DEF IInv
<1> QED
  BY <1>1, InitInvariant, NextInvariant, PTL DEF Spec
-----------------------------------------------------------------------------
(* What the sender keeps, until the sequence first wraps. *)

\* Nothing is acknowledged, queued or pending that was not sent, and as long as the
\* sequence has not wrapped a sequence number is the packet it stands for.
Retains ==
  /\ sent \in Seq(PacketContent) /\ sendSequence = SeqOf(Len(sent))
  /\ KnownPackets
  /\ \A seq \in DOMAIN outOfOrderQueue : outOfOrderQueue[seq].id \in Ids
  /\ \A ack \in ackNet : ack.kind = "Ack" => ack.id \in Ids
  /\ Len(sent) <= SeqMod /\ senderState = "Connected" =>
       \A seq \in DOMAIN pendingAcks : pendingAcks[seq].id = seq
  /\ RetainedBeforeWrap

\* A packet of the first turn carries its own number.
LEMMA FirstTurn ==
  ASSUME NEW id \in 0 .. SeqMod - 1
  PROVE  SeqOf(id) = id
BY SeqModAssumption DEF SeqOf

\* What RetainedUntilAcked asks of a packet.
Kept(id) ==
  \/ SeqOf(id) \in DOMAIN pendingAcks /\ pendingAcks[SeqOf(id)].id = id
  \/ \E ack \in ackNet : ack.kind = "Ack" /\ ack.id >= id

LEMMA KeptMeans ==
  RetainedBeforeWrap <=>
    (Len(sent) <= SeqMod /\ senderState = "Connected" => \A id \in Ids : Kept(id))
BY DEF RetainedBeforeWrap, RetainedUntilAcked, Kept

LEMMA KeptMeansNext ==
  RetainedBeforeWrap' <=>
    (Len(sent') <= SeqMod /\ senderState' = "Connected" => \A id \in Ids' : Kept(id)')
BY DEF RetainedBeforeWrap, RetainedUntilAcked, Kept

LEMMA RetainsInit == Init => Retains
<1> SUFFICES ASSUME Init PROVE Retains
  OBVIOUS
<1>1. sent = <<>> /\ Ids = {} /\ SeqOf(0) = 0
  BY SeqModAssumption DEF Init, Ids, SeqOf
<1> QED
  BY <1>1 DEF Init, Retains, KnownPackets, EmptyQueue, RetainedBeforeWrap, RetainedUntilAcked

\* A step of the sender that stores and forgets nothing, or loses the session.
LEMMA SenderKeeps ==
  ASSUME Retains, UNCHANGED <<sent, sendSequence, outOfOrderQueue, ackNet>>,
         dataNet' \subseteq Ids,
         senderState' = "Connected" =>
           /\ senderState = "Connected" /\ DOMAIN pendingAcks' = DOMAIN pendingAcks
           /\ \A seq \in DOMAIN pendingAcks : pendingAcks'[seq].id = pendingAcks[seq].id,
         senderState' # "Connected" => DOMAIN pendingAcks' = {}
  PROVE  Retains'
<1>1. Ids' = Ids
  BY DEF Ids
<1>2. CASE senderState' = "Connected"
  <2>1. \A id \in Ids : Kept(id) => Kept(id)'
    BY <1>2 DEF Kept
  <2>2. RetainedBeforeWrap'
    BY <1>1, <1>2, <2>1, KeptMeans, KeptMeansNext DEF Retains
  <2> QED
    BY <1>1, <1>2, <2>2 DEF Retains, KnownPackets
<1>3. CASE senderState' # "Connected"
  BY <1>1, <1>3, KeptMeansNext DEF Retains, KnownPackets
<1> QED
  BY <1>2, <1>3

\* processAck: in the first turn nothing newer than the acknowledged packet goes.
LEMMA AckKeeps ==
  ASSUME Retains, ProcessAck
  PROVE  Retains'
<1>1. PICK ack \in ackNet :
        /\ ack.kind = "Ack" /\ Fresh(ack.id)
        /\ pendingAcks' = Without(pendingAcks, Acknowledged(SeqOf(ack.id)))
  BY DEF ProcessAck
<1>2. /\ UNCHANGED <<sent, sendSequence, senderState, dataNet, ackNet, outOfOrderQueue>>
      /\ senderState = "Connected"
  BY DEF ProcessAck, netVars, receiverVars
<1>3. Ids' = Ids /\ Len(sent) \in Nat /\ ack.id \in Ids /\ HalfRange \in Nat
  BY <1>1, <1>2, Constants DEF Ids, Retains
<1>4. /\ DOMAIN pendingAcks' \subseteq DOMAIN pendingAcks
      /\ \A seq \in DOMAIN pendingAcks' : pendingAcks'[seq] = pendingAcks[seq]
      /\ \A seq \in DOMAIN pendingAcks : seq \notin Acknowledged(SeqOf(ack.id))
                                           => seq \in DOMAIN pendingAcks'
  BY <1>1 DEF Without
<1>5. ASSUME Len(sent) <= SeqMod, NEW id \in Ids, Kept(id)
      PROVE  Kept(id)'
  <2>1. id \in 0 .. SeqMod - 1 /\ ack.id \in 0 .. SeqMod - 1 /\ SeqMod \in Nat
        /\ id < Len(sent)
    BY <1>3, <1>5, Constants DEF Ids
  <2>2. SeqOf(id) = id /\ SeqOf(ack.id) = ack.id
    BY <2>1, FirstTurn
  <2>3. CASE id <= ack.id
    BY <1>1, <1>2, <2>1, <2>3 DEF Kept
  <2>4. CASE id > ack.id
    <3>1. ~isSequenceNewer(ack.id, id)
      <4>1. ack.id - id < HalfRange /\ id - ack.id < HalfRange
        BY <1>1, <1>3, <2>1, <2>4 DEF Fresh
      <4>2. isSequenceNewer(SeqOf(ack.id), SeqOf(id)) <=> ack.id > id
        BY <2>1, <4>1, NewerMeansAhead
      <4> QED
        BY <2>1, <2>2, <2>4, <4>2
    <3>2. ~isSequenceOlder(id, ack.id)
      BY <3>1 DEF isSequenceNewer, isSequenceOlder
    <3>3. id \notin Acknowledged(SeqOf(ack.id))
      BY <2>1, <2>2, <2>4, <3>2 DEF Acknowledged
    <3> QED
      BY <1>2, <1>4, <1>5, <2>2, <3>3 DEF Kept
  <2> QED
    BY <2>1, <2>3, <2>4
<1>6. RetainedBeforeWrap'
  BY <1>2, <1>3, <1>5, KeptMeans, KeptMeansNext DEF Retains
<1> QED
  BY <1>2, <1>3, <1>4, <1>6 DEF Retains, KnownPackets

\* sendReliable: its packets are pending, under their own numbers.
LEMMA SendKeeps ==
  ASSUME Retains, NEW n \in MessageSizes, SendReliable(n)
  PROVE  Retains'
<1> DEFINE first == Len(sent)
           ids   == first .. first + n - 1
           seqs  == {getNextSendSequence(k) : k \in 0 .. n - 1}
           fresh == [seq \in seqs |->
                       [id |-> CHOOSE id \in ids : SeqOf(id) = seq, retries |-> 0]]
           batch == [k \in 1 .. n |-> [part |-> k, of |-> n]]
<1>1. n \in Nat /\ n >= 1 /\ first \in Nat /\ SeqMod \in Nat
  BY ChannelAssumption, Constants DEF Retains
<1>2. batch \in Seq(PacketContent) /\ Len(batch) = n
  BY <1>1 DEF PacketContent
<1>3. sent' = sent \o batch /\ senderState = "Connected" /\ senderState' = senderState
      /\ ackNet' = ackNet /\ outOfOrderQueue' = outOfOrderQueue
      /\ dataNet' = dataNet \cup ids /\ pendingAcks' = Overwrite(pendingAcks, fresh)
      /\ sendSequence' = getNextSendSequence(n)
  BY DEF SendReliable, receiverVars
<1> HIDE DEF batch
<1>4. sent' \in Seq(PacketContent) /\ Len(sent') = first + n
  BY <1>1, <1>2, <1>3, ConcatProperties DEF Retains
<1>5. ids \subseteq Ids' /\ Ids' = Ids \cup ids /\ Ids \subseteq Nat
  BY <1>1, <1>4 DEF Ids
<1>6. sendSequence' = SeqOf(Len(sent'))
  BY <1>1, <1>3, <1>4, SeqAdvance DEF Retains, getNextSendSequence
<1>7. \A k \in 0 .. n - 1 : getNextSendSequence(k) = SeqOf(first + k) /\ first + k \in ids
  <2> SUFFICES ASSUME NEW k \in 0 .. n - 1
               PROVE  getNextSendSequence(k) = SeqOf(first + k) /\ first + k \in ids
    OBVIOUS
  <2>1. getNextSendSequence(k) = SeqOf(first + k)
    BY <1>1, SeqAdvance DEF Retains, getNextSendSequence
  <2>2. first + k \in ids
    BY <1>1
  <2> QED
    BY <2>1, <2>2
<1>8. \A seq \in seqs : \E id \in ids : SeqOf(id) = seq
  BY <1>7
<1>9. \A seq \in seqs : fresh[seq].id \in ids /\ SeqOf(fresh[seq].id) = seq
  <2> SUFFICES ASSUME NEW seq \in seqs
               PROVE  fresh[seq].id \in ids /\ SeqOf(fresh[seq].id) = seq
    OBVIOUS
  <2>1. fresh[seq].id = CHOOSE id \in ids : SeqOf(id) = seq
    OBVIOUS
  <2> QED
    BY <1>8, <2>1
<1>10. \A id \in ids : SeqOf(id) \in seqs
  <2> SUFFICES ASSUME NEW id \in ids
               PROVE  SeqOf(id) \in seqs
    OBVIOUS
  <2>1. id - first \in 0 .. n - 1 /\ first + (id - first) = id
    BY <1>1
  <2> QED
    BY <1>7, <2>1
<1>11. /\ DOMAIN pendingAcks' = DOMAIN pendingAcks \cup seqs
       /\ \A seq \in seqs : pendingAcks'[seq] = fresh[seq]
       /\ \A seq \in DOMAIN pendingAcks : seq \notin seqs => pendingAcks'[seq] = pendingAcks[seq]
  <2>1. DOMAIN fresh = seqs
    OBVIOUS
  <2> HIDE DEF fresh, seqs
  <2> QED
    BY <1>3, <2>1 DEF Overwrite
<1> HIDE DEF fresh, seqs
<1>12. KnownPackets'
  BY <1>3, <1>5, <1>9, <1>11 DEF Retains, KnownPackets
<1>13. ASSUME Len(sent') <= SeqMod
       PROVE  /\ \A seq \in DOMAIN pendingAcks' : pendingAcks'[seq].id = seq
              /\ \A id \in Ids' : Kept(id)'
  <2>1. \A id \in Ids' : SeqOf(id) = id
    BY <1>1, <1>4, <1>13, FirstTurn DEF Ids
  <2>2. \A seq \in seqs : fresh[seq].id = seq
    BY <1>5, <1>9, <2>1
  <2>3. /\ first <= SeqMod /\ \A id \in Ids : Kept(id)
        /\ \A seq \in DOMAIN pendingAcks : pendingAcks[seq].id = seq
    BY <1>1, <1>3, <1>4, <1>13, KeptMeans DEF Retains
  <2>4. \A seq \in DOMAIN pendingAcks' : pendingAcks'[seq].id = seq
    BY <1>11, <2>2, <2>3
  <2>5. \A id \in Ids' : Kept(id)'
    BY <1>3, <1>5, <1>10, <1>11, <2>1, <2>3, <2>4 DEF Kept
  <2> QED
    BY <2>4, <2>5
<1>14. RetainedBeforeWrap'
  BY <1>13, KeptMeansNext
<1> QED
  BY <1>3, <1>4, <1>5, <1>6, <1>12, <1>13, <1>14 DEF Retains

\* The receiver acknowledges what was sent, and touches nothing of the sender.
LEMMA ReceiverKeeps ==
  ASSUME Retains, UNCHANGED senderVars, UNCHANGED dataNet, ackNet \subseteq ackNet',
         \A ack \in ackNet' : ack \in ackNet \/ ack.id \in Ids \/ ack.kind # "Ack",
         \A seq \in DOMAIN outOfOrderQueue' : outOfOrderQueue'[seq].id \in Ids
  PROVE  Retains'
<1>1. Ids' = Ids /\ UNCHANGED <<sent, sendSequence, pendingAcks, senderState>>
  BY DEF senderVars, Ids
<1>2. \A id \in Ids : Kept(id) => Kept(id)'
  BY <1>1 DEF Kept
<1>3. RetainedBeforeWrap'
  BY <1>1, <1>2, KeptMeans, KeptMeansNext DEF Retains
<1> QED
  BY <1>1, <1>3 DEF Retains, KnownPackets

LEMMA ArrivalKeeps ==
  ASSUME Retains, NEW id \in dataNet, ReceiveExpected(id) \/ ReceiveAhead(id) \/ ReceiveOld(id)
  PROVE  Retains'
<1>1. /\ UNCHANGED senderVars /\ UNCHANGED dataNet /\ id \in Ids
      /\ \A seq \in DOMAIN outOfOrderQueue : outOfOrderQueue[seq].id \in Ids
  BY DEF ReceiveExpected, ReceiveAhead, ReceiveOld, Retains, KnownPackets
<1>2. CASE ReceiveExpected(id)
  <2>1. PICK n \in 0 .. MaxOutOfOrder : Accept(id, n)
    BY <1>2 DEF ReceiveExpected
  <2> DEFINE run == [k \in 1 .. n + 1 |->
                       IF k = 1 THEN id ELSE outOfOrderQueue[Slot(id, k - 1)].id]
  <2>2. n \in Nat
    BY <2>1, ChannelAssumption
  <2>3. \A k \in 1 .. n : Slot(id, k) \in DOMAIN outOfOrderQueue
    BY <2>1 DEF Accept, HoldsPacket
  <2>4. \A k \in 1 .. n + 1 : run[k] \in Ids
    <3> SUFFICES ASSUME NEW k \in 1 .. n + 1, k # 1
                 PROVE  outOfOrderQueue[Slot(id, k - 1)].id \in Ids
      BY <1>1
    <3>1. k - 1 \in 1 .. n
      BY <2>2
    <3> QED
      BY <1>1, <2>3, <3>1
  <2>5. ackNet' = ackNet \cup {[kind |-> "Ack", id |-> run[k]] : k \in 1 .. n + 1}
    BY <2>1 DEF Accept
  <2>6. \A seq \in DOMAIN outOfOrderQueue' : outOfOrderQueue'[seq].id \in Ids
    BY <1>1, <2>1 DEF Accept, Without
  <2> HIDE DEF run
  <2>7. \A ack \in ackNet' : ack \in ackNet \/ ack.id \in Ids
    BY <2>4, <2>5
  <2> QED
    BY <1>1, <2>5, <2>6, <2>7, ReceiverKeeps
<1>3. CASE ReceiveAhead(id)
  <2>1. \A seq \in DOMAIN outOfOrderQueue' : outOfOrderQueue'[seq].id \in Ids
    BY <1>1, <1>3 DEF ReceiveAhead, Enqueue, Overwrite, Queued
  <2>2. ackNet' = ackNet \cup {[kind |-> "OutOfOrder", id |-> Len(consumed)],
                              [kind |-> "Ack", id |-> id]}
    BY <1>3 DEF ReceiveAhead, Enqueue
  <2> QED
    BY <1>1, <2>1, <2>2, ReceiverKeeps
<1>4. CASE ReceiveOld(id)
  <2>1. ackNet' = ackNet \cup {[kind |-> "Ack", id |-> id]}
        /\ outOfOrderQueue' = outOfOrderQueue
    BY <1>4 DEF ReceiveOld, AckAgain
  <2> QED
    BY <1>1, <2>1, ReceiverKeeps
<1> QED
  BY <1>2, <1>3, <1>4

LEMMA RetainsNext ==
  ASSUME Retains, [Next]_vars
  PROVE  Retains'
<1>1. CASE \E n \in MessageSizes : SendReliable(n)
  BY <1>1, SendKeeps
<1>2. CASE ProcessAck
  BY <1>2, AckKeeps
<1>3. CASE ProcessOutOfOrder
  <2>1. PICK ack \in ackNet :
          LET seq == SeqOf(ack.id) IN
          /\ seq \in DOMAIN pendingAcks
          /\ pendingAcks' = [pendingAcks EXCEPT ![seq].retries = @ + 1]
          /\ dataNet' = dataNet \cup {pendingAcks[seq].id}
    BY <1>3 DEF ProcessOutOfOrder
  <2>2. DOMAIN pendingAcks' = DOMAIN pendingAcks
    BY <2>1
  <2>3. \A seq \in DOMAIN pendingAcks : pendingAcks'[seq].id = pendingAcks[seq].id
    BY <2>1
  <2>4. dataNet' \subseteq Ids
    BY <2>1 DEF Retains, KnownPackets
  <2>5. UNCHANGED <<sent, sendSequence, outOfOrderQueue, ackNet>>
        /\ senderState = "Connected" /\ senderState' = "Connected"
    BY <1>3 DEF ProcessOutOfOrder, receiverVars
  <2> QED
    BY <2>2, <2>3, <2>4, <2>5, SenderKeeps
<1>4. CASE Retransmit
  <2>1. PICK due \in SUBSET DOMAIN pendingAcks : Tick(due)
    BY <1>4 DEF Retransmit
  <2>2. dataNet' \subseteq dataNet \cup {pendingAcks[seq].id : seq \in due}
    BY <2>1 DEF Tick
  <2>3. dataNet' \subseteq Ids
    BY <2>2 DEF Retains, KnownPackets
  <2>4. UNCHANGED <<sent, sendSequence, outOfOrderQueue, ackNet>> /\ senderState = "Connected"
    BY <2>1 DEF Tick, receiverVars
  <2>5. CASE {seq \in due : pendingAcks[seq].retries >= MaxRetries} = {}
    <3>1. pendingAcks' = [seq \in DOMAIN pendingAcks |->
             IF seq \in due
             THEN [pendingAcks[seq] EXCEPT !.retries = @ + 1]
             ELSE pendingAcks[seq]]
          /\ senderState' = senderState
      BY <2>1, <2>5 DEF Tick
    <3>2. \A seq \in DOMAIN pendingAcks : pendingAcks'[seq].id = pendingAcks[seq].id
      BY <3>1
    <3> QED
      BY <2>3, <2>4, <3>1, <3>2, SenderKeeps
  <2>6. CASE {seq \in due : pendingAcks[seq].retries >= MaxRetries} # {}
    <3>1. senderState' = "Disconnected" /\ DOMAIN pendingAcks' = {}
      BY <2>1, <2>6 DEF Tick, SenderRemoved, EmptyQueue
    <3> QED
      BY <2>3, <2>4, <3>1, SenderKeeps
  <2> QED
    BY <2>5, <2>6
<1>5. CASE SenderDisconnect
  <2>1. /\ UNCHANGED <<sent, sendSequence, outOfOrderQueue, ackNet, dataNet>>
        /\ senderState' = "Disconnected" /\ DOMAIN pendingAcks' = {}
    BY <1>5 DEF SenderDisconnect, SenderRemoved, EmptyQueue, receiverVars, netVars
  <2>2. dataNet' \subseteq Ids
    BY <2>1 DEF Retains, KnownPackets
  <2> QED
    BY <2>1, <2>2, SenderKeeps
<1>6. CASE \E id \in dataNet : ReceiveExpected(id) \/ ReceiveAhead(id) \/ ReceiveOld(id)
  BY <1>6, ArrivalKeeps
<1>7. CASE ReceiverDisconnect
  BY <1>7, ReceiverKeeps DEF ReceiverDisconnect, EmptyQueue, netVars
<1>8. CASE UNCHANGED vars
  BY <1>8, ReceiverKeeps DEF vars, senderVars, receiverVars, netVars, Retains
<1> QED
  BY <1>1, <1>2, <1>3, <1>4, <1>5, <1>6, <1>7, <1>8 DEF Next

\* Until the sequence first wraps, whatever the wire does and however many packets are
\* outstanding: processAck (session-manager.ts:611) and tick forget a packet only when the
\* receiver has answered for it or for a later one.
THEOREM ChannelRetainsBeforeWrap == Spec => []RetainedBeforeWrap
<1>1. Retains => RetainedBeforeWrap
  BY DEF Retains
<1>2. Retains /\ [Next]_vars => Retains'
  BY RetainsNext
<1> QED
  BY <1>1, <1>2, RetainsInit, PTL DEF Spec

-----------------------------------------------------------------------------
(* Messages come out whole and in order. *)

\* The ids of n packets from first on.
Consecutive(first, n) == [k \in 1 .. n |-> first + k - 1]

\* The number of packets in the first d messages.
End(d) == IF d = 0 THEN 0 ELSE messages[d][1] + Len(messages[d])

\* The packets sent are those of the messages, one message after the other,
\* and each says how many packets its message has.
MessagesMatch ==
  /\ messages \in Seq(Seq(Nat))
  /\ End(Len(messages)) = Len(sent)
  /\ \A m \in 1 .. Len(messages) :
       /\ Len(messages[m]) >= 1
       /\ messages[m] = Consecutive(End(m - 1), Len(messages[m]))
       /\ End(m) <= Len(sent)
       /\ \A id \in End(m - 1) .. End(m) - 1 : Packet(id).of = Len(messages[m])

\* The receiving half of processDataFragment and deliverData.
Assembly == [buffer : [total : Nat, parts : Seq(Nat)], out : Seq(Seq(Nat))]

Assembled == [buffer |-> fragmentBuffer, out |-> delivered]

\* Having accepted c packets, the receiver has delivered the first d messages
\* and holds the accepted packets of the next one, if there are any.
Progress(c, state, d) ==
  /\ state \in Assembly
  /\ state.out = SubSeq(messages, 1, d)
  /\ End(d) <= c
  /\ state.buffer.parts = Consecutive(End(d), c - End(d))
  /\ IF c = End(d)
     THEN state.buffer.total = 0
     ELSE /\ d < Len(messages) /\ c < End(d + 1)
          /\ state.buffer.total = Len(messages[d + 1])

InOrder ==
  /\ IInv
  /\ MessagesMatch
  /\ \E d \in 0 .. Len(messages) : delivered = SubSeq(messages, 1, d)
  /\ receiverState = "Connected" =>
       \E d \in 0 .. Len(messages) : Progress(Len(consumed), Assembled, d)
-----------------------------------------------------------------------------
\* What Consecutive builds.
LEMMA ConsecutiveFacts ==
  ASSUME NEW first \in Nat, NEW n \in Nat
  PROVE  /\ Consecutive(first, n) \in Seq(Nat)
         /\ Len(Consecutive(first, n)) = n
         /\ \A k \in 1 .. n : Consecutive(first, n)[k] = first + k - 1
BY DEF Consecutive

\* One more packet makes the batch one longer.
LEMMA ConsecutiveGrows ==
  ASSUME NEW first \in Nat, NEW n \in Nat, NEW id \in Nat, id = first + n
  PROVE  Append(Consecutive(first, n), id) = Consecutive(first, n + 1)
<1> DEFINE s == Append(Consecutive(first, n), id)
           t == Consecutive(first, n + 1)
<1>1. /\ Consecutive(first, n) \in Seq(Nat)
      /\ Len(Consecutive(first, n)) = n
      /\ \A k \in 1 .. n : Consecutive(first, n)[k] = first + k - 1
  BY ConsecutiveFacts
<1>2. /\ s \in Seq(Nat) /\ Len(s) = n + 1
      /\ \A k \in 1 .. n : s[k] = Consecutive(first, n)[k]
      /\ s[n + 1] = id
  BY <1>1, AppendProperties
<1>3. /\ t \in Seq(Nat) /\ Len(t) = n + 1
      /\ \A k \in 1 .. n + 1 : t[k] = first + k - 1
  BY ConsecutiveFacts
<1> HIDE DEF s, t
<1>4. ASSUME NEW k \in 1 .. n + 1
      PROVE  s[k] = t[k]
  <2>1. CASE k = n + 1
    BY <1>2, <1>3, <2>1
  <2>2. CASE k \in 1 .. n
    BY <1>1, <1>2, <1>3, <2>2
  <2> QED
    BY <2>1, <2>2
<1>5. s = t
  BY <1>2, <1>3, <1>4, SeqEqual
<1> QED
  BY <1>5 DEF s, t

\* Where each message ends.
LEMMA Ends ==
  ASSUME MessagesMatch
  PROVE  /\ Len(messages) \in Nat
         /\ End(0) = 0
         /\ \A d \in 0 .. Len(messages) : End(d) \in Nat
         /\ \A m \in 1 .. Len(messages) :
               /\ messages[m] \in Seq(Nat)
               /\ Len(messages[m]) \in Nat
               /\ End(m) = End(m - 1) + Len(messages[m])
<1>1. Len(messages) \in Nat /\ \A m \in 1 .. Len(messages) : messages[m] \in Seq(Nat)
  BY DEF MessagesMatch
<1>2. End(0) = 0
  BY DEF End
<1>3. ASSUME NEW m \in 1 .. Len(messages)
      PROVE  End(m) \in Nat
  <2>1. messages[m] \in Seq(Nat) /\ Len(messages[m]) >= 1 /\ Len(messages[m]) \in Nat
    BY <1>1 DEF MessagesMatch
  <2>2. messages[m][1] \in Nat
    BY <2>1
  <2> QED
    BY <2>1, <2>2 DEF End
<1>4. ASSUME NEW d \in 0 .. Len(messages)
      PROVE  End(d) \in Nat
  BY <1>1, <1>2, <1>3
<1>5. ASSUME NEW m \in 1 .. Len(messages)
      PROVE  End(m) = End(m - 1) + Len(messages[m])
  <2>1. /\ Len(messages[m]) >= 1 /\ Len(messages[m]) \in Nat
        /\ messages[m] = Consecutive(End(m - 1), Len(messages[m]))
    BY <1>1 DEF MessagesMatch
  <2>2. m - 1 \in 0 .. Len(messages)
    BY <1>1
  <2>3. End(m - 1) \in Nat
    BY <1>4, <2>2
  <2> HIDE DEF End
  <2>4. 1 \in 1 .. Len(messages[m])
    BY <2>1
  <2>5. \A k \in 1 .. Len(messages[m]) :
          Consecutive(End(m - 1), Len(messages[m]))[k] = End(m - 1) + k - 1
    BY <2>1, <2>3, ConsecutiveFacts
  <2>6. messages[m][1] = End(m - 1)
    BY <2>1, <2>3, <2>4, <2>5
  <2> QED
    BY <2>6, <1>1 DEF End
<1> QED
  BY <1>1, <1>2, <1>4, <1>5

\* Delivering the next message extends what was delivered by one.
LEMMA SubSeqGrows ==
  ASSUME NEW S, NEW s \in Seq(S), NEW d \in Nat, d + 1 \in 1 .. Len(s)
  PROVE  Append(SubSeq(s, 1, d), s[d + 1]) = SubSeq(s, 1, d + 1)
<1>1. SubSeq(s, 1, d + 1) = SubSeq(s, 1, d) \o <<s[d + 1]>>
  BY SubSeqRecursiveSecond
<1>2. SubSeq(s, 1, d) \in Seq(S) /\ s[d + 1] \in S
  BY SubSeqProperties
<1> QED
  BY <1>1, <1>2, AppendIsConcat

\* A prefix has the length asked for.
LEMMA PrefixLength ==
  ASSUME NEW S, NEW s \in Seq(S), NEW d \in 0 .. Len(s)
  PROVE  Len(SubSeq(s, 1, d)) = d
<1>1. Len(SubSeq(s, 1, d)) = IF 1 <= d THEN d - 1 + 1 ELSE 0
  BY SubSeqProperties
<1> QED
  BY <1>1

\* Sequences that agree so far have the same prefix.
LEMMA SamePrefix ==
  ASSUME NEW S, NEW s \in Seq(S), NEW t \in Seq(S), NEW d \in 0 .. Len(s),
         Len(t) >= Len(s), \A k \in 1 .. Len(s) : t[k] = s[k]
  PROVE  SubSeq(t, 1, d) = SubSeq(s, 1, d)
<1>1. /\ SubSeq(s, 1, d) \in Seq(S)
      /\ \A i \in 1 .. d - 1 + 1 : SubSeq(s, 1, d)[i] = s[1 + i - 1]
  BY SubSeqProperties
<1>2. /\ SubSeq(t, 1, d) \in Seq(S)
      /\ \A i \in 1 .. d - 1 + 1 : SubSeq(t, 1, d)[i] = t[1 + i - 1]
  BY SubSeqProperties
<1>3. Len(SubSeq(s, 1, d)) = d /\ Len(SubSeq(t, 1, d)) = d
  BY PrefixLength
<1>4. ASSUME NEW i \in 1 .. d
      PROVE  SubSeq(s, 1, d)[i] = SubSeq(t, 1, d)[i]
  <2>1. i \in 1 .. d - 1 + 1 /\ 1 + i - 1 = i /\ i \in 1 .. Len(s)
    OBVIOUS
  <2> QED
    BY <2>1, <1>1, <1>2
<1> QED
  BY <1>1, <1>2, <1>3, <1>4, SeqEqual

\* The expected packet belongs to the message the receiver is assembling.
LEMMA NextBelongs ==
  ASSUME MessagesMatch, NEW c \in Nat, c < Len(sent),
         NEW state \in Assembly, NEW d \in 0 .. Len(messages), Progress(c, state, d)
  PROVE  /\ d + 1 \in 1 .. Len(messages)
         /\ c < End(d + 1)
         /\ End(d + 1) = End(d) + Len(messages[d + 1])
         /\ Packet(c).of = Len(messages[d + 1])
         /\ messages[d + 1] = Consecutive(End(d), Len(messages[d + 1]))
<1>1. /\ Len(messages) \in Nat
      /\ End(d) \in Nat
      /\ \A m \in 1 .. Len(messages) :
            Len(messages[m]) \in Nat /\ End(m) = End(m - 1) + Len(messages[m])
  BY Ends
<1>2. End(Len(messages)) = Len(sent) /\ End(d) <= c
  BY DEF MessagesMatch, Progress
<1> HIDE DEF End
<1>3. d # Len(messages)
  BY <1>2, <1>1
<1>4. d + 1 \in 1 .. Len(messages) /\ d + 1 - 1 = d
  BY <1>1, <1>3
<1>5. End(d + 1) = End(d) + Len(messages[d + 1]) /\ Len(messages[d + 1]) \in Nat
  BY <1>1, <1>4
<1>6. /\ Len(messages[d + 1]) >= 1
      /\ messages[d + 1] = Consecutive(End(d), Len(messages[d + 1]))
      /\ \A id \in End(d) .. End(d + 1) - 1 : Packet(id).of = Len(messages[d + 1])
  BY <1>4 DEF MessagesMatch
<1>7. c < End(d + 1)
  BY <1>1, <1>5, <1>6 DEF Progress
<1>8. c \in End(d) .. End(d + 1) - 1
  BY <1>1, <1>2, <1>5, <1>7
<1> QED
  BY <1>4, <1>5, <1>6, <1>7, <1>8

\* One packet more: processDataFragment keeps it or, with the last of its
\* message, delivers the message whole; processData delivers a single packet.
LEMMA ConsumeProgresses ==
  ASSUME MessagesMatch, NEW c \in Nat, c < Len(sent),
         NEW state \in Assembly, NEW d \in 0 .. Len(messages), Progress(c, state, d)
  PROVE  \E e \in d .. Len(messages) :
            Consume(state, c) \in Assembly /\ Progress(c + 1, Consume(state, c), e)
<1> DEFINE n    == Len(messages[d + 1])
           held == Append(state.buffer.parts, c)
<1>1. /\ Len(messages) \in Nat /\ End(d) \in Nat
      /\ d + 1 \in 1 .. Len(messages) /\ n \in Nat /\ n >= 1
      /\ messages[d + 1] \in Seq(Nat)
  BY NextBelongs, Ends DEF MessagesMatch
<1>2. /\ c < End(d + 1) /\ End(d + 1) = End(d) + n /\ Packet(c).of = n
      /\ messages[d + 1] = Consecutive(End(d), n)
  BY NextBelongs
<1>3. /\ state.out = SubSeq(messages, 1, d) /\ End(d) <= c
      /\ state.buffer.parts = Consecutive(End(d), c - End(d))
  BY DEF Progress
<1> HIDE DEF n
<1>4. held = Consecutive(End(d), (c + 1) - End(d))
  <2> DEFINE m == c - End(d)
  <2>1. m \in Nat /\ c = End(d) + m /\ (c + 1) - End(d) = m + 1
    BY <1>1, <1>3
  <2> HIDE DEF m
  <2>2. state.buffer.parts = Consecutive(End(d), m)
    BY <1>3 DEF m
  <2>3. Append(Consecutive(End(d), m), c) = Consecutive(End(d), m + 1)
    BY <2>1, <1>1, ConsecutiveGrows
  <2> QED
    BY <2>1, <2>2, <2>3
<1>5. held \in Seq(Nat) /\ Len(held) = (c + 1) - End(d)
  <2> DEFINE m == (c + 1) - End(d)
  <2>1. m \in Nat
    BY <1>1, <1>3
  <2>2. held = Consecutive(End(d), m)
    BY <1>4
  <2> HIDE DEF held, m
  <2>3. held \in Seq(Nat) /\ Len(held) = m
    BY <2>1, <2>2, <1>1, ConsecutiveFacts
  <2> QED
    BY <2>3 DEF m
<1>6. state.buffer.parts = <<>> <=> c = End(d)
  <2> DEFINE m == c - End(d)
             p == state.buffer.parts
  <2>1. m \in Nat
    BY <1>1, <1>3
  <2>2. p = Consecutive(End(d), m)
    BY <1>3
  <2> HIDE DEF p, m
  <2>3. p \in Seq(Nat) /\ Len(p) = m
    BY <2>1, <2>2, <1>1, ConsecutiveFacts
  <2>4. p = <<>> <=> m = 0
    BY <2>1, <2>3
  <2> QED
    BY <2>4, <1>1 DEF m, p
<1>7. Append(SubSeq(messages, 1, d), messages[d + 1]) = SubSeq(messages, 1, d + 1)
  BY <1>1, SubSeqGrows DEF MessagesMatch
<1>8. state.out \in Seq(Seq(Nat)) /\ state.buffer \in [total : Nat, parts : Seq(Nat)]
  BY DEF Assembly
<1>9. Append(state.out, messages[d + 1]) \in Seq(Seq(Nat))
  BY <1>1, <1>8
<1>10. Consecutive(c + 1, 0) = <<>> /\ <<>> \in Seq(Nat)
  BY DEF Consecutive
<1>11. d \in d .. Len(messages) /\ d + 1 \in d .. Len(messages)
  BY <1>1
<1> HIDE DEF held
\* The message is complete.
<1>12. CASE c + 1 = End(d + 1)
  <2> DEFINE whole == [buffer |-> NoFragments, out |-> Append(state.out, messages[d + 1])]
  <2>1. held = messages[d + 1]
    BY <1>12, <1>1, <1>2, <1>4
  <2>2. Consume(state, c) = whole
    <3>1. CASE n = 1
      <4>1. c = End(d)
        BY <3>1, <1>12, <1>1, <1>2
      <4>2. ~IsFragment(c)
        BY <3>1, <1>2 DEF IsFragment
      <4>3. state.buffer.parts = <<>> /\ state.buffer.total = 0
        BY <4>1, <1>6 DEF Progress
      <4>4. state.buffer = NoFragments
        BY <4>3, <1>8 DEF NoFragments
      <4>5. messages[d + 1] = <<c>>
        BY <4>3, <2>1 DEF held
      <4>6. Consume(state, c) = [state EXCEPT !.out = Append(@, <<c>>)]
        BY <4>2 DEF Consume
      <4> QED
        BY <4>4, <4>5, <4>6 DEF Assembly
    <3>2. CASE n > 1
      <4>1. IsFragment(c)
        BY <3>2, <1>2 DEF IsFragment
      <4>2. (IF state.buffer.parts = <<>> THEN Packet(c).of ELSE state.buffer.total) = n
        BY <1>2, <1>6 DEF Progress, n
      <4>3. Len(held) >= n
        BY <1>12, <1>1, <1>2, <1>5
      <4> QED
        BY <4>1, <4>2, <4>3, <2>1 DEF Consume, held
    <3> QED
      BY <3>1, <3>2, <1>1
  <2>3. whole \in Assembly
    BY <1>9, <1>10 DEF Assembly, NoFragments
  <2>4. Progress(c + 1, whole, d + 1)
    BY <2>3, <1>12, <1>7, <1>3, <1>10 DEF Progress, NoFragments
  <2> HIDE DEF whole
  <2> QED
    BY <2>2, <2>3, <2>4, <1>11
\* More of the message is to come.
<1>13. CASE c + 1 # End(d + 1)
  <2> DEFINE part == [buffer |-> [total |-> n, parts |-> held], out |-> state.out]
  <2>1. c + 1 < End(d + 1) /\ c + 1 # End(d) /\ End(d) <= c + 1
    <3>1. End(d) \in Nat /\ End(d + 1) \in Nat
      BY <1>1, <1>2
    <3>2. c + 1 < End(d + 1)
      BY <3>1, <1>13, <1>2
    <3> QED
      BY <3>1, <3>2, <1>3
  <2>2. Consume(state, c) = part
    <3>1. n > 1
      BY <2>1, <1>1, <1>2, <1>3
    <3>2. IsFragment(c)
      BY <3>1, <1>2 DEF IsFragment
    <3>3. (IF state.buffer.parts = <<>> THEN Packet(c).of ELSE state.buffer.total) = n
      BY <1>2, <1>6 DEF Progress, n
    <3>4. ~(Len(held) >= n)
      BY <2>1, <1>1, <1>2, <1>5
    <3>5. Consume(state, c) = [state EXCEPT !.buffer = [total |-> n, parts |-> held]]
      BY <3>2, <3>3, <3>4 DEF Consume, held
    <3> QED
      BY <3>5 DEF Assembly
  <2>3. part \in Assembly
    BY <1>1, <1>5, <1>8 DEF Assembly
  <2>4. part.buffer.parts = held /\ part.buffer.total = n /\ part.out = state.out
    OBVIOUS
  <2> HIDE DEF part
  <2>5. part.out = SubSeq(messages, 1, d)
    BY <2>4, <1>3
  <2>6. part.buffer.parts = Consecutive(End(d), (c + 1) - End(d))
    BY <2>4, <1>4
  <2>7. d < Len(messages) /\ part.buffer.total = Len(messages[d + 1])
    BY <2>4, <1>1 DEF n
  <2>8. Progress(c + 1, part, d)
    BY <2>1, <2>3, <2>5, <2>6, <2>7 DEF Progress
  <2> QED
    BY <2>2, <2>3, <2>8, <1>11
<1> QED
  BY <1>12, <1>13

\* The fold of ConsumeAll is a function: each value is made from the one before.
LEMMA FoldExists ==
  ASSUME NEW start \in Assembly, NEW ids, NEW m \in Nat
  PROVE  \E f : f = [k \in 0 .. m |-> IF k = 0 THEN start ELSE Consume(f[k - 1], ids[k])]
<1> DEFINE G == {n \in Nat : \E f :
                   f = [k \in 0 .. n |-> IF k = 0 THEN start ELSE Consume(f[k - 1], ids[k])]}
<1>1. 0 \in G
  <2> DEFINE f == [k \in 0 .. 0 |-> start]
  <2>1. f = [k \in 0 .. 0 |-> IF k = 0 THEN start ELSE Consume(f[k - 1], ids[k])]
    OBVIOUS
  <2> QED
    BY <2>1
<1>2. ASSUME NEW n \in 0 .. m - 1, n \in G
      PROVE  n + 1 \in G
  <2>1. PICK f : f = [k \in 0 .. n |-> IF k = 0 THEN start ELSE Consume(f[k - 1], ids[k])]
    BY <1>2
  <2> DEFINE g == [k \in 0 .. n + 1 |-> IF k <= n THEN f[k] ELSE Consume(f[n], ids[n + 1])]
  <2>2. \A k \in 0 .. n + 1 : g[k] = IF k = 0 THEN start ELSE Consume(g[k - 1], ids[k])
    <3> TAKE k \in 0 .. n + 1
    <3>1. CASE k = 0
      BY <2>1, <3>1
    <3>2. CASE k \in 1 .. n
      <4>1. g[k] = f[k] /\ k - 1 \in 0 .. n /\ g[k - 1] = f[k - 1]
        BY <3>2
      <4> QED
        BY <2>1, <3>2, <4>1
    <3>3. CASE k = n + 1
      <4>1. g[k] = Consume(f[n], ids[n + 1]) /\ k - 1 = n /\ g[n] = f[n]
        BY <3>3
      <4> QED
        BY <3>3, <4>1
    <3> QED
      BY <3>1, <3>2, <3>3
  <2>3. g = [k \in 0 .. n + 1 |-> IF k = 0 THEN start ELSE Consume(g[k - 1], ids[k])]
    BY <2>2
  <2> HIDE DEF g
  <2>4. n + 1 \in Nat
    OBVIOUS
  <2> QED
    BY <2>3, <2>4
<1> HIDE DEF G
<1>3. m \in G
  BY <1>1, <1>2, Upwards
<1> QED
  BY <1>3 DEF G

\* A run of packets in order takes the receiver from message to message.
LEMMA RunProgresses ==
  ASSUME MessagesMatch, NEW c \in Nat, NEW ids, NEW m \in Nat, Len(ids) = m,
         c + m <= Len(sent), \A k \in 1 .. m : ids[k] = c + k - 1,
         Assembled \in Assembly, NEW d \in 0 .. Len(messages), Progress(c, Assembled, d)
  PROVE  \E e \in d .. Len(messages) :
            ConsumeAll(ids) \in Assembly /\ Progress(c + m, ConsumeAll(ids), e)
<1> DEFINE after[k \in 0 .. Len(ids)] ==
             IF k = 0 THEN [buffer |-> fragmentBuffer, out |-> delivered]
             ELSE Consume(after[k - 1], ids[k])
<1>1. ConsumeAll(ids) = after[m]
  BY DEF ConsumeAll
<1>2. \E f : f = [k \in 0 .. Len(ids) |->
                    IF k = 0 THEN [buffer |-> fragmentBuffer, out |-> delivered]
                    ELSE Consume(f[k - 1], ids[k])]
  <2> HIDE DEF after
  <2>1. \E f : f = [k \in 0 .. m |-> IF k = 0 THEN Assembled ELSE Consume(f[k - 1], ids[k])]
    BY FoldExists
  <2> QED
    BY <2>1, Zenon DEF Assembled
<1>3. after = [k \in 0 .. Len(ids) |->
                 IF k = 0 THEN [buffer |-> fragmentBuffer, out |-> delivered]
                 ELSE Consume(after[k - 1], ids[k])]
  BY <1>2
<1> HIDE DEF after
<1>4. after[0] = Assembled
  BY <1>3 DEF Assembled
<1>5. ASSUME NEW k \in 0 .. m - 1
      PROVE  after[k + 1] = Consume(after[k], c + k)
  <2>1. k + 1 \in 0 .. m /\ k + 1 \in 1 .. m /\ k + 1 # 0 /\ k + 1 - 1 = k
    OBVIOUS
  <2>2. ids[k + 1] = c + k
    BY <2>1
  <2> QED
    BY <1>3, <2>1, <2>2
<1> DEFINE G == {k \in 0 .. m : \E e \in d .. Len(messages) :
                   after[k] \in Assembly /\ Progress(c + k, after[k], e)}
<1>6. Len(messages) \in Nat /\ Len(sent) \in Nat
  <2>1. End(Len(messages)) \in Nat
    BY Ends
  <2> QED
    BY <2>1, Ends DEF MessagesMatch
<1>7. 0 \in G
  <2>1. d \in d .. Len(messages) /\ c + 0 = c
    BY <1>6
  <2> QED
    BY <2>1, <1>4
<1>8. ASSUME NEW k \in 0 .. m - 1, k \in G
      PROVE  k + 1 \in G
  <2>1. PICK e \in d .. Len(messages) :
               after[k] \in Assembly /\ Progress(c + k, after[k], e)
    BY <1>8
  <2>2. e \in 0 .. Len(messages) /\ c + k \in Nat /\ c + k < Len(sent)
    BY <1>6
  <2>3. \E b \in e .. Len(messages) :
           Consume(after[k], c + k) \in Assembly /\ Progress(c + k + 1, Consume(after[k], c + k), b)
    BY <2>1, <2>2, ConsumeProgresses
  <2>4. PICK b \in e .. Len(messages) :
           after[k + 1] \in Assembly /\ Progress(c + k + 1, after[k + 1], b)
    BY <2>3, <1>5
  <2>5. b \in d .. Len(messages) /\ c + k + 1 = c + (k + 1) /\ k + 1 \in 0 .. m
    BY <2>2, <1>6
  <2> QED
    BY <2>4, <2>5
<1> HIDE DEF G
<1>9. \A k \in 0 .. m : k \in G
  BY <1>7, <1>8, Upwards
<1>10. m \in G
  BY <1>9
<1> QED
  BY <1>10, <1>1 DEF G

\* sendReliable appends a message of the next n packets.
LEMMA SendMatches ==
  ASSUME IInv, MessagesMatch, NEW n \in MessageSizes, SendReliable(n)
  PROVE  /\ MessagesMatch'
         /\ Len(messages') = Len(messages) + 1
         /\ \A m \in 1 .. Len(messages) : messages'[m] = messages[m]
<1>0. PICK N \in Nat : N = Len(messages)
  BY DEF MessagesMatch
<1> DEFINE first == Len(sent)
           batch == [k \in 1 .. n |-> [part |-> k, of |-> n]]
<1>1. n \in Nat /\ n >= 1
  BY ChannelAssumption
<1>2. first \in Nat /\ N \in Nat /\ sent \in Seq(PacketContent) /\ messages \in Seq(Seq(Nat))
  BY <1>0 DEF IInv, Types, MessagesMatch
<1>3. messages' = Append(messages, Consecutive(first, n)) /\ sent' = sent \o batch
  BY DEF SendReliable, Consecutive
<1>4. batch \in Seq(PacketContent) /\ Len(batch) = n /\ \A k \in 1 .. n : batch[k].of = n
  BY <1>1 DEF PacketContent
<1> HIDE DEF batch
<1>5. /\ sent' \in Seq(PacketContent) /\ Len(sent') = first + n
      /\ \A k \in 1 .. first : sent'[k] = sent[k]
      /\ \A k \in first + 1 .. first + n : sent'[k] = batch[k - first]
  <2>1. /\ sent' \in Seq(PacketContent) /\ Len(sent') = first + Len(batch)
        /\ \A k \in 1 .. first + Len(batch) :
              sent'[k] = IF k <= first THEN sent[k] ELSE batch[k - first]
    BY <1>2, <1>3, <1>4, ConcatProperties
  <2> HIDE DEF first
  <2>2. Len(sent') = first + n
    BY <2>1, <1>4
  <2>3. ASSUME NEW k \in 1 .. first
        PROVE  sent'[k] = sent[k]
    <3>1. k \in 1 .. first + Len(batch) /\ k <= first
      BY <1>1, <1>2, <1>4
    <3> QED
      BY <3>1, <2>1
  <2>4. ASSUME NEW k \in first + 1 .. first + n
        PROVE  sent'[k] = batch[k - first]
    <3>1. k \in 1 .. first + Len(batch) /\ ~(k <= first)
      BY <1>1, <1>2, <1>4
    <3> QED
      BY <3>1, <2>1
  <2> QED
    BY <2>1, <2>2, <2>3, <2>4
<1>6. /\ Consecutive(first, n) \in Seq(Nat) /\ Len(Consecutive(first, n)) = n
      /\ \A k \in 1 .. n : Consecutive(first, n)[k] = first + k - 1
  BY <1>1, <1>2, ConsecutiveFacts
<1>7. /\ messages' \in Seq(Seq(Nat)) /\ Len(messages') = N + 1
      /\ \A m \in 1 .. N : messages'[m] = messages[m]
      /\ messages'[N + 1] = Consecutive(first, n)
  BY <1>0, <1>2, <1>3, <1>6, AppendProperties
<1>8. ASSUME NEW d \in 0 .. N
      PROVE  End(d)' = End(d) /\ End(d) \in Nat
  <2>1. End(d) \in Nat
    BY <1>0, Ends
  <2>2. d # 0 => messages'[d] = messages[d]
    BY <1>7
  <2> QED
    BY <2>1, <2>2 DEF End
<1>9. End(N + 1)' = first + n /\ End(N) = first
  <2>1. messages'[N + 1][1] = first + 1 - 1 /\ Len(messages'[N + 1]) = n
    BY <1>1, <1>6, <1>7
  <2>2. End(N + 1)' = messages'[N + 1][1] + Len(messages'[N + 1])
    BY <1>2 DEF End
  <2> QED
    BY <2>1, <2>2, <1>0, <1>1, <1>2 DEF MessagesMatch
<1>10. ASSUME NEW m \in 1 .. N
       PROVE  /\ Len(messages'[m]) >= 1
              /\ messages'[m] = Consecutive(End(m - 1)', Len(messages'[m]))
              /\ End(m)' <= Len(sent')
              /\ \A id \in End(m - 1)' .. End(m)' - 1 : sent'[id + 1].of = Len(messages'[m])
  <2>1. messages'[m] = messages[m]
    BY <1>7
  <2>2. m \in 0 .. N /\ m - 1 \in 0 .. N
    BY <1>2
  <2>3. /\ End(m)' = End(m) /\ End(m - 1)' = End(m - 1)
        /\ End(m) \in Nat /\ End(m - 1) \in Nat
    BY <2>2, <1>8
  <2>4. /\ Len(messages[m]) >= 1
        /\ messages[m] = Consecutive(End(m - 1), Len(messages[m]))
        /\ End(m) <= first
        /\ \A id \in End(m - 1) .. End(m) - 1 : sent[id + 1].of = Len(messages[m])
    BY <1>0 DEF MessagesMatch, Packet
  <2>5. ASSUME NEW id \in End(m - 1) .. End(m) - 1
        PROVE  sent'[id + 1].of = Len(messages[m])
    <3>1. id + 1 \in 1 .. first
      BY <2>3, <2>4, <1>2
    <3> QED
      BY <3>1, <2>4, <1>5
  <2>6. End(m) <= Len(sent')
    BY <2>3, <2>4, <1>1, <1>2, <1>5
  <2> QED
    BY <2>1, <2>3, <2>4, <2>5, <2>6
<1>11. /\ Len(messages'[N + 1]) >= 1
       /\ messages'[N + 1] = Consecutive(End(N)', Len(messages'[N + 1]))
       /\ End(N + 1)' <= Len(sent')
       /\ \A id \in End(N)' .. End(N + 1)' - 1 : sent'[id + 1].of = Len(messages'[N + 1])
  <2>1. End(N)' = first
    BY <1>2, <1>8, <1>9
  <2>2. ASSUME NEW id \in first .. first + n - 1
        PROVE  sent'[id + 1].of = n
    <3>1. id + 1 \in first + 1 .. first + n /\ id + 1 - first \in 1 .. n
      BY <1>1, <1>2
    <3> QED
      BY <3>1, <1>4, <1>5
  <2>3. End(N + 1)' <= Len(sent')
    BY <1>1, <1>2, <1>5, <1>9
  <2> QED
    BY <2>1, <2>2, <2>3, <1>1, <1>6, <1>7, <1>9
<1>12. End(Len(messages))' = Len(sent')
  <2>1. End(Len(messages))' = End(N + 1)'
    BY <1>7 DEF End
  <2> QED
    BY <2>1, <1>5, <1>9
<1>13. MessagesMatch'
  <2>1. ASSUME NEW m \in 1 .. Len(messages')
        PROVE  /\ Len(messages'[m]) >= 1
               /\ messages'[m] = Consecutive(End(m - 1)', Len(messages'[m]))
               /\ End(m)' <= Len(sent')
               /\ \A id \in End(m - 1)' .. End(m)' - 1 : sent'[id + 1].of = Len(messages'[m])
    <3>1. CASE m \in 1 .. N
      BY <3>1, <1>10
    <3>2. CASE m = N + 1
      <4>1. m - 1 = N
        BY <3>2, <1>2
      <4> QED
        BY <4>1, <3>2, <1>11
    <3> QED
      BY <3>1, <3>2, <1>2, <1>7
  <2> QED
    BY <2>1, <1>7, <1>12 DEF MessagesMatch, Packet
<1> QED
  BY <1>0, <1>7, <1>13

\* An empty receiver has delivered nothing and holds nothing.
LEMMA InitInOrder == Init => InOrder
<1> SUFFICES ASSUME Init PROVE InOrder
  OBVIOUS
<1>1. messages = <<>> /\ sent = <<>> /\ consumed = <<>> /\ delivered = <<>>
      /\ fragmentBuffer = NoFragments
  BY DEF Init
<1>2. Len(messages) = 0 /\ Len(sent) = 0 /\ Len(consumed) = 0 /\ messages \in Seq(Seq(Nat))
  BY <1>1
<1>3. SubSeq(messages, 1, 0) = <<>>
  BY SubSeqEmpty
<1>4. End(0) = 0 /\ Consecutive(0, 0) = <<>>
  BY DEF End, Consecutive
<1>5. MessagesMatch
  BY <1>2, <1>4 DEF MessagesMatch
<1>6. Assembled \in Assembly
  BY <1>1 DEF Assembled, Assembly, NoFragments
<1>7. Assembled.out = <<>> /\ Assembled.buffer.parts = <<>> /\ Assembled.buffer.total = 0
  BY <1>1 DEF Assembled, NoFragments
<1>8. Progress(0, Assembled, 0)
  BY <1>3, <1>4, <1>6, <1>7 DEF Progress
<1>9. 0 \in 0 .. Len(messages)
  BY <1>2
<1>10. IInv
  BY InitInvariant
<1> QED
  BY <1>1, <1>2, <1>3, <1>5, <1>8, <1>9, <1>10 DEF InOrder

\* Whatever leaves the messages, the packets and the receiver alone.
LEMMA OthersKeepOrder ==
  ASSUME InOrder, IInv',
         UNCHANGED <<sent, messages, consumed, delivered>>,
         receiverState' = "Connected" =>
           receiverState = "Connected" /\ fragmentBuffer' = fragmentBuffer
  PROVE  InOrder'
<1>1. MessagesMatch'
  BY DEF InOrder, MessagesMatch, End, Packet
<1>2. PICK d \in 0 .. Len(messages) : delivered = SubSeq(messages, 1, d)
  BY DEF InOrder
<1>3. d \in 0 .. Len(messages') /\ delivered' = SubSeq(messages', 1, d)
  BY <1>2
<1>4. ASSUME receiverState' = "Connected"
      PROVE  \E e \in 0 .. Len(messages') : Progress(Len(consumed), Assembled, e)'
  <2>1. PICK e \in 0 .. Len(messages) : Progress(Len(consumed), Assembled, e)
    BY <1>4 DEF InOrder
  <2>2. Assembled' = Assembled
    BY <1>4 DEF Assembled
  <2>3. Progress(Len(consumed), Assembled, e)'
    BY <2>1, <2>2 DEF Progress, End
  <2> QED
    BY <2>3
<1> QED
  BY <1>1, <1>3, <1>4 DEF InOrder

\* A message more behind the ones the receiver knows.
LEMMA SendKeepsOrder ==
  ASSUME InOrder, IInv', NEW n \in MessageSizes, SendReliable(n)
  PROVE  InOrder'
<1>1. /\ MessagesMatch' /\ Len(messages') = Len(messages) + 1
      /\ \A m \in 1 .. Len(messages) : messages'[m] = messages[m]
  BY SendMatches DEF InOrder
<1>2. UNCHANGED <<consumed, delivered, receiverState, fragmentBuffer>>
  BY DEF SendReliable, receiverVars
<1>3. messages \in Seq(Seq(Nat)) /\ messages' \in Seq(Seq(Nat)) /\ Len(messages) \in Nat
  BY <1>1 DEF InOrder, MessagesMatch
<1>4. ASSUME NEW d \in 0 .. Len(messages)
      PROVE  SubSeq(messages', 1, d) = SubSeq(messages, 1, d)
  BY <1>1, <1>3, SamePrefix
<1>5. ASSUME NEW d \in 0 .. Len(messages)
      PROVE  End(d)' = End(d)
  <2>1. d # 0 => messages'[d] = messages[d]
    BY <1>1
  <2> QED
    BY <2>1 DEF End
<1>6. PICK d \in 0 .. Len(messages) : delivered = SubSeq(messages, 1, d)
  BY DEF InOrder
<1>7. d \in 0 .. Len(messages') /\ delivered' = SubSeq(messages', 1, d)
  BY <1>1, <1>2, <1>3, <1>4, <1>6
<1>8. ASSUME receiverState' = "Connected"
      PROVE  \E e \in 0 .. Len(messages') : Progress(Len(consumed), Assembled, e)'
  <2>1. PICK e \in 0 .. Len(messages) : Progress(Len(consumed), Assembled, e)
    BY <1>2, <1>8 DEF InOrder
  <2>2. Assembled' = Assembled /\ consumed' = consumed
    BY <1>2 DEF Assembled
  <2>3. End(e)' = End(e) /\ SubSeq(messages', 1, e) = SubSeq(messages, 1, e)
    BY <1>4, <1>5
  <2>4. ASSUME e < Len(messages)
        PROVE  messages'[e + 1] = messages[e + 1] /\ End(e + 1)' = End(e + 1)
    <3>1. e + 1 \in 1 .. Len(messages) /\ e + 1 \in 0 .. Len(messages)
      BY <2>4, <1>3
    <3> QED
      BY <3>1, <1>1, <1>5
  <2>5. e \in 0 .. Len(messages') /\ (e < Len(messages) => e < Len(messages'))
    BY <1>1, <1>3
  <2>6. Progress(Len(consumed), Assembled, e)'
    BY <2>1, <2>2, <2>3, <2>4, <2>5 DEF Progress
  <2> QED
    BY <2>5, <2>6
<1> QED
  BY <1>1, <1>7, <1>8 DEF InOrder

\* The run of packets accepted takes the receiver on, message by message.
LEMMA ExpectedKeepsOrder ==
  ASSUME InOrder, IInv', Window <= HalfRange, NEW id \in dataNet, ReceiveExpected(id)
  PROVE  /\ InOrder'
         /\ \/ delivered' = delivered
            \/ \E e \in Len(delivered) + 1 .. Len(messages) :
                  delivered' = SubSeq(messages, 1, e)
<1>1. PICK n \in 0 .. MaxOutOfOrder : Accept(id, n)
  BY DEF ReceiveExpected
<1>2. n \in Nat /\ Len(consumed) \in Nat /\ Len(sent) \in Nat
  BY <1>1, ChannelAssumption DEF InOrder, IInv, Types
<1>3. /\ \A k \in 1 .. n + 1 : Accepted(id, n)[k] = Len(consumed) + k - 1
      /\ Len(consumed) + n < Len(sent)
  BY <1>1, <1>2, AcceptedAreNext DEF InOrder
<1>4. Accepted(id, n) \in Seq(Nat) /\ Len(Accepted(id, n)) = n + 1
  BY <1>2, <1>3 DEF Accepted
<1> DEFINE done == ConsumeAll(Accepted(id, n))
<1>5. /\ fragmentBuffer' = done.buffer /\ delivered' = done.out
      /\ consumed' = consumed \o Accepted(id, n)
  BY <1>1 DEF Accept, Accepted
<1>6. UNCHANGED <<messages, sent>>
  BY DEF ReceiveExpected, senderVars
<1>7. Len(consumed') = Len(consumed) + (n + 1)
  <2>1. consumed \in Seq(Nat)
    BY DEF InOrder, IInv, Types
  <2> QED
    BY <2>1, <1>4, <1>5, ConcatProperties
<1>8. PICK d \in 0 .. Len(messages) : Progress(Len(consumed), Assembled, d)
  BY DEF InOrder, ReceiveExpected
<1>9. MessagesMatch /\ Len(messages) \in Nat /\ messages \in Seq(Seq(Nat))
  BY DEF InOrder, MessagesMatch
<1>10. PICK e \in d .. Len(messages) :
         done \in Assembly /\ Progress(Len(consumed) + (n + 1), done, e)
  <2>1. Assembled \in Assembly
    BY <1>8 DEF Progress
  <2>2. n + 1 \in Nat /\ Len(consumed) + (n + 1) <= Len(sent)
    BY <1>2, <1>3
  <2> HIDE DEF done
  <2> QED
    BY <2>1, <2>2, <1>2, <1>3, <1>4, <1>8, <1>9, RunProgresses DEF done
<1> HIDE DEF done
<1>11. Assembled' = done
  BY <1>5, <1>10 DEF Assembled, Assembly
<1>12. Progress(Len(consumed), Assembled, e)'
  BY <1>6, <1>7, <1>10, <1>11 DEF Progress, End
<1>13. delivered' = SubSeq(messages, 1, e) /\ delivered = SubSeq(messages, 1, d)
  BY <1>5, <1>8, <1>10 DEF Progress, Assembled
<1>14. e \in 0 .. Len(messages) /\ (e = d \/ e \in d + 1 .. Len(messages))
  BY <1>9
<1>15. Len(delivered) = d
  BY <1>9, <1>13, PrefixLength
<1>16. MessagesMatch'
  BY <1>6, <1>9 DEF MessagesMatch, End, Packet
<1>17. InOrder'
  BY <1>6, <1>12, <1>13, <1>14, <1>16 DEF InOrder
<1> QED
  BY <1>13, <1>14, <1>15, <1>17

\* Every step is one the abstract channel may take, or invisible to it.
LEMMA StepKeepsPromise ==
  ASSUME InOrder, IInv', Window <= HalfRange, [Next]_vars
  PROVE  InOrder' /\ [Promise!Next]_(Promise!vars)
<1> USE DEF Promise!vars
<1>1. CASE \E n \in MessageSizes : SendReliable(n)
  <2>1. PICK n \in MessageSizes : SendReliable(n)
    BY <1>1
  <2>2. Consecutive(Len(sent), n) \in AllMessages
    <3>1. Len(sent) \in 0 .. MaxPackets
      BY <2>1, ChannelAssumption DEF SendReliable, InOrder, IInv, Types
    <3> QED
      BY <3>1 DEF AllMessages, Consecutive
  <2>3. Promise!Send(Consecutive(Len(sent), n))
    BY <2>1 DEF Promise!Send, SendReliable, Consecutive, receiverVars
  <2>4. InOrder'
    BY <2>1, SendKeepsOrder
  <2> QED
    BY <2>2, <2>3, <2>4 DEF Promise!Next
<1>2. CASE ProcessAck \/ ProcessOutOfOrder
  <2>1. UNCHANGED <<sent, messages, senderState, receiverVars>>
    BY <1>2 DEF ProcessAck, ProcessOutOfOrder
  <2>2. InOrder'
    BY <2>1, OthersKeepOrder DEF receiverVars
  <2> QED
    BY <2>1, <2>2 DEF receiverVars
<1>3. CASE Retransmit \/ SenderDisconnect
  <2>1. /\ UNCHANGED <<sent, messages, receiverVars>>
        /\ senderState = "Connected"
        /\ senderState' = senderState \/ senderState' = "Disconnected"
    BY <1>3 DEF Retransmit, Tick, SenderDisconnect, SenderRemoved, netVars
  <2>2. InOrder'
    BY <2>1, OthersKeepOrder DEF receiverVars
  <2>3. UNCHANGED Promise!vars \/ Promise!SenderGone
    BY <2>1 DEF Promise!SenderGone, receiverVars
  <2> QED
    BY <2>2, <2>3 DEF Promise!Next
<1>4. CASE \E id \in dataNet : ReceiveExpected(id)
  <2>1. PICK id \in dataNet : ReceiveExpected(id)
    BY <1>4
  <2>2. /\ InOrder'
        /\ \/ delivered' = delivered
           \/ \E e \in Len(delivered) + 1 .. Len(messages) :
                 delivered' = SubSeq(messages, 1, e)
    BY <2>1, ExpectedKeepsOrder
  <2>3. UNCHANGED <<messages, senderState, receiverState>> /\ receiverState = "Connected"
    BY <2>1 DEF ReceiveExpected, senderVars
  <2>4. UNCHANGED Promise!vars \/ Promise!Deliver
    BY <2>2, <2>3 DEF Promise!Deliver
  <2> QED
    BY <2>2, <2>4 DEF Promise!Next
<1>5. CASE \E id \in dataNet : ReceiveAhead(id) \/ ReceiveOld(id)
  <2>1. UNCHANGED <<senderVars, receiverState, consumed, delivered, fragmentBuffer>>
    BY <1>5 DEF ReceiveAhead, ReceiveOld, Enqueue, AckAgain
  <2>2. InOrder'
    BY <2>1, OthersKeepOrder DEF senderVars
  <2> QED
    BY <2>1, <2>2 DEF senderVars
<1>6. CASE ReceiverDisconnect
  <2>1. /\ UNCHANGED <<senderVars, consumed, delivered>>
        /\ receiverState = "Connected" /\ receiverState' = "Disconnected"
    BY <1>6 DEF ReceiverDisconnect
  <2>2. InOrder'
    BY <2>1, OthersKeepOrder DEF senderVars
  <2>3. Promise!ReceiverGone
    BY <2>1 DEF Promise!ReceiverGone, senderVars
  <2> QED
    BY <2>2, <2>3 DEF Promise!Next
<1>7. CASE UNCHANGED vars
  <2>1. UNCHANGED <<senderVars, receiverVars>>
    BY <1>7 DEF vars
  <2>2. InOrder'
    BY <2>1, OthersKeepOrder DEF senderVars, receiverVars
  <2> QED
    BY <2>1, <2>2 DEF senderVars, receiverVars
<1> QED
  BY <1>1, <1>2, <1>3, <1>4, <1>5, <1>6, <1>7 DEF Next

\* The safety half of what the channel promises: as long as the application keeps
\* within half the sequence range of its peer, the messages handed to sendReliable come
\* out of the peer's 'data' events whole, once each and in the order they were sent,
\* whatever the network loses, repeats and reorders, for every sequence modulus, queue
\* limit, number of retries and set of message sizes.
THEOREM ChannelKeepsOrder ==
  ASSUME Window <= HalfRange
  PROVE  Spec => KeepsOrder
<1>1. Init => InOrder
  BY InitInOrder
<1>2. Init => Promise!Init
  BY DEF Init, Promise!Init
<1>3. InOrder /\ [Next]_vars => InOrder' /\ [Promise!Next]_(Promise!vars)
  BY StepKeepsPromise, NextInvariant DEF InOrder
<1> QED
  BY <1>1, <1>2, <1>3, PTL DEF Spec, KeepsOrder

=============================================================================
