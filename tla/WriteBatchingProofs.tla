------------------------ MODULE WriteBatchingProofs ------------------------
(***************************************************************************)
(* Proofs about the four write-batching classes, for any objects, fields,  *)
(* tables, priorities and limits.                                          *)
(*                                                                         *)
(* One part per class, each with an invariant over its variables: IInv of  *)
(* the tracker, CoalescerInv, BatchInv and AsyncInv.  An invariant is a    *)
(* conjunction of operators over values, such as Placed(kinds, priorities, *)
(* queue, ...), so that the lemmas about a handler's parts - an item is    *)
(* inserted, a batch is taken, a job sent, an answer given - are about     *)
(* values, not about states, and a handler that makes several of them in   *)
(* one step chains them.  The last part puts the classes together.         *)
(***************************************************************************)
EXTENDS MCWriteBatching, Selection, IntervalInduction, SequenceTheorems,
        FiniteSetTheorems, TLAPS

-----------------------------------------------------------------------------
(* DirtyTracker: what is changed and recorded.                             *)

\* What ChangedIsDirty rests on, for one object.  A field is recorded only if
\* it has changed, an object has changes for as long as it is tracked or
\* marked, and one that was not given up is tracked in the manner it is marked.
Recorded(o) ==
  /\ dirty[o].fields \subseteq changed[o]
  /\ o \in Tracked => changed[o] # {}
  /\ changed[o] = {} <=> manner[o] = {}
  /\ o \notin dropped /\ changed[o] # {} /\ manner[o] # {"whole", "fields"} =>
       /\ o \in Tracked
       /\ manner[o] = {"whole"} => dirty[o].fields = {}
       /\ manner[o] = {"fields"} => dirty[o].fields = changed[o]

IInv == TypeOK /\ \A o \in Object : Recorded(o)

-----------------------------------------------------------------------------
\* The invariant's second part gives the property.
LEMMA RecordedIsDirty == IInv => ChangedIsDirty
<1> SUFFICES ASSUME IInv, NEW o \in Object \ dropped, manner[o] # {"whole", "fields"},
                    changed[o] # {}
             PROVE  changed[o] \subseteq DirtyFields(o)
  BY DEF ChangedIsDirty
<1>1. Recorded(o) /\ manner[o] \in SUBSET {"whole", "fields"} /\ changed[o] \subseteq Field
  BY DEF IInv, TypeOK
<1>2. manner[o] = {"whole"} \/ manner[o] = {"fields"}
  BY <1>1 DEF Recorded
<1>3. o \in Tracked
  BY <1>1 DEF Recorded
<1>4. CASE manner[o] = {"whole"}
  BY <1>1, <1>3, <1>4 DEF Recorded, DirtyFields
<1>5. CASE manner[o] = {"fields"}
  BY <1>1, <1>3, <1>5 DEF Recorded, DirtyFields
<1> QED BY <1>2, <1>4, <1>5

\* Type correctness is kept by every call.
LEMMA TypeStep == ASSUME TypeOK, Next PROVE TypeOK'
<1> USE DEF TypeOK, DirtyState
<1>1. ASSUME NEW o \in Object, NEW fs \in SUBSET Field, NEW p \in Priority, MarkDirty(o, fs, p)
      PROVE  TypeOK'
  <2> p \in Nat BY TrackerAssumption
  <2>1. changed' \in [Object -> SUBSET Field] /\ marks' \in Nat
    BY <1>1 DEF MarkDirty
  <2>2. manner' \in [Object -> SUBSET {"whole", "fields"}]
    BY <1>1 DEF MarkDirty, HowMarked
  <2>3. CASE MarkTracked(o, fs, p)
    <3>1. PICK r \in DirtyState : dirty' = [dirty EXCEPT ![o] = r]
      <4>1. dirty[o] \in DirtyState
        OBVIOUS
      <4> QED BY <2>3, <4>1 DEF MarkTracked
    <3>2. dropped' = dropped
      BY <2>3 DEF MarkTracked
    <3> QED BY <2>1, <2>2, <3>1, <3>2
  <2>4. CASE MarkNew(o, fs, p)
    <3>1. PICK gone \in IF Cardinality(Tracked) >= MaxTrackedObjects THEN Evictions ELSE {{}} :
            /\ dirty' = [q \in Object |->
                 IF q = o THEN [fields |-> fs, priority |-> p, since |-> marks + 1]
                 ELSE IF q \in gone THEN Clean ELSE dirty[q]]
            /\ dropped' = Forgotten(gone)
      BY <2>4 DEF MarkNew
    <3>2. gone \subseteq Object
      BY <3>1 DEF Evictions, LowestPriority, Tracked
    <3> QED BY <2>1, <2>2, <3>1, <3>2 DEF Forgotten, Clean
  <2> QED BY <1>1, <2>3, <2>4 DEF MarkDirty
<1>2. ASSUME NEW os \in SUBSET Object, ClearDirty(os) PROVE TypeOK'
  BY <1>2 DEF ClearDirty, Saved, Clean
<1>3. ASSUME NEW o \in Object, NEW fs \in SUBSET Field, ClearFields(o, fs) PROVE TypeOK'
  <2>1. changed' \in [Object -> SUBSET Field] /\ marks' \in Nat /\ dropped' \subseteq Object
    BY <1>3 DEF ClearFields
  <2>2. manner' \in [Object -> SUBSET {"whole", "fields"}]
    BY <1>3 DEF ClearFields
  <2>3. dirty' \in [Object -> DirtyState]
    BY <1>3 DEF ClearFields, WithoutFields, Clean
  <2> QED BY <2>1, <2>2, <2>3
<1>4. ASSUME NEW o \in Object, NEW p \in Priority, UpdatePriority(o, p) PROVE TypeOK'
  BY <1>4, TrackerAssumption DEF UpdatePriority
<1>5. ASSUME NEW cutoff \in 1 .. MaxMarks, Cleanup(cutoff) PROVE TypeOK'
  BY <1>5 DEF Cleanup, OlderThan, Tracked, Forgotten, Clean
<1>6. ASSUME Shutdown PROVE TypeOK'
  BY <1>6 DEF Shutdown, Tracked, Forgotten, Clean
<1> QED BY <1>1, <1>2, <1>3, <1>4, <1>5, <1>6 DEF Next

-----------------------------------------------------------------------------
\* Marking an object records what changed, in the manner it is marked.
LEMMA MarkRecorded ==
  ASSUME IInv, NEW o \in Object, NEW fs \in SUBSET Field, NEW p \in Priority,
         MarkDirty(o, fs, p), NEW q \in Object
  PROVE  Recorded(q)'
<1> TypeOK /\ Recorded(q) BY DEF IInv
<1> USE DEF TypeOK, DirtyState
<1>1. /\ changed' = [changed EXCEPT ![o] = @ \cup IF fs = {} THEN Field ELSE fs]
      /\ manner' = [manner EXCEPT ![o] = @ \cup {HowMarked(fs)}]
  BY DEF MarkDirty
<1>2. q = o => /\ changed'[q] = changed[q] \cup (IF fs = {} THEN Field ELSE fs)
               /\ changed'[q] # {}
               /\ manner'[q] = manner[q] \cup {HowMarked(fs)}
  BY <1>1, TrackerAssumption
<1>3. q # o => changed'[q] = changed[q] /\ manner'[q] = manner[q]
  BY <1>1
<1>4. CASE MarkTracked(o, fs, p)
  <2>1. q # o => dirty'[q] = dirty[q]
    BY <1>4 DEF MarkTracked
  <2>2. q = o => /\ dirty'[q].fields = dirty[q].fields \cup fs
                 /\ dirty'[q].since = dirty[q].since
    BY <1>4 DEF MarkTracked
  <2>3. dropped' = dropped
    BY <1>4 DEF MarkTracked
  <2>4. CASE q # o
    BY <1>3, <2>1, <2>3, <2>4 DEF Recorded, Tracked
  <2>5. CASE q = o
    <3>1. q \in Tracked /\ q \in Tracked' /\ changed[q] # {} /\ manner[q] # {}
      BY <1>4, <2>2, <2>5 DEF MarkTracked, Recorded, Tracked
    <3>2. dirty'[q].fields \subseteq changed'[q]
      BY <1>2, <2>2, <2>5 DEF Recorded
    <3>3. ASSUME q \notin dropped', manner'[q] # {"whole", "fields"}
          PROVE  /\ manner'[q] = {"whole"} => dirty'[q].fields = {}
                 /\ manner'[q] = {"fields"} => dirty'[q].fields = changed'[q]
      <4>1. manner[q] \in {{"whole"}, {"fields"}, {"whole", "fields"}}
        BY <3>1
      <4>2. CASE fs = {}
        <5> HowMarked(fs) = "whole" BY <4>2 DEF HowMarked
        <5>1. manner[q] = {"whole"} /\ manner'[q] = {"whole"}
          BY <1>2, <2>5, <3>3, <4>1
        <5> QED BY <2>2, <2>3, <2>5, <3>1, <3>3, <4>2, <5>1 DEF Recorded
      <4>3. CASE fs # {}
        <5> HowMarked(fs) = "fields" BY <4>3 DEF HowMarked
        <5>1. manner[q] = {"fields"} /\ manner'[q] = {"fields"}
          BY <1>2, <2>5, <3>3, <4>1
        <5> QED BY <1>2, <2>2, <2>3, <2>5, <3>1, <3>3, <4>3, <5>1 DEF Recorded
      <4> QED BY <4>2, <4>3
    <3>4. manner'[q] # {} /\ changed'[q] # {}
      BY <1>2, <2>5
    <3> QED BY <3>1, <3>2, <3>3, <3>4 DEF Recorded
  <2> QED BY <2>4, <2>5
<1>5. CASE MarkNew(o, fs, p)
  <2>1. PICK gone : /\ dirty' = [x \in Object |->
                          IF x = o THEN [fields |-> fs, priority |-> p, since |-> marks + 1]
                          ELSE IF x \in gone THEN Clean ELSE dirty[x]]
                    /\ dropped' = Forgotten(gone)
                    /\ o \notin Tracked
    BY <1>5 DEF MarkNew
  <2>2. CASE q = o
    <3>1. dirty'[q].fields = fs /\ dirty'[q].since = marks + 1
      BY <2>1, <2>2
    <3>2. q \in Tracked' /\ fs \subseteq changed'[q] /\ manner'[q] # {} /\ changed'[q] # {}
      <4>1. q \in Tracked'
        BY <3>1 DEF Tracked
      <4>2. fs \subseteq changed'[q] /\ manner'[q] # {} /\ changed'[q] # {}
        BY <1>2, <2>2
      <4> QED BY <4>1, <4>2
    <3>3. ASSUME q \notin dropped', manner'[q] # {"whole", "fields"}
          PROVE  /\ manner'[q] = {"whole"} => dirty'[q].fields = {}
                 /\ manner'[q] = {"fields"} => dirty'[q].fields = changed'[q]
      <4>1. q \notin dropped
        BY <2>1, <3>3 DEF Forgotten
      <4>2. manner[q] # {"whole", "fields"}
        BY <1>2, <2>2, <3>3 DEF HowMarked
      <4>3. changed[q] = {} /\ manner[q] = {}
        BY <2>1, <2>2, <4>1, <4>2 DEF Recorded
      <4>4. CASE fs = {}
        BY <1>2, <2>2, <3>1, <4>3, <4>4 DEF HowMarked
      <4>5. CASE fs # {}
        BY <1>2, <2>2, <3>1, <4>3, <4>5 DEF HowMarked
      <4> QED BY <4>4, <4>5
    <3> QED BY <3>1, <3>2, <3>3 DEF Recorded
  <2>3. CASE q # o /\ q \in gone
    <3>1. dirty'[q].fields = {} /\ dirty'[q].since = 0
      BY <2>1, <2>3 DEF Clean
    <3>2. q \notin Tracked' /\ (changed'[q] # {} => q \in dropped')
      BY <1>3, <2>1, <2>3, <3>1 DEF Tracked, Forgotten
    <3> QED BY <1>3, <2>3, <3>1, <3>2 DEF Recorded
  <2>4. CASE q # o /\ q \notin gone
    <3>1. dirty'[q] = dirty[q] /\ (q \in dropped' <=> q \in dropped)
      BY <2>1, <2>4 DEF Forgotten
    <3> QED BY <1>3, <2>4, <3>1 DEF Recorded, Tracked
  <2> QED BY <2>2, <2>3, <2>4
<1> QED BY <1>4, <1>5 DEF MarkDirty

\* Saving fields takes them from the record and from the changes alike.
LEMMA ClearFieldsRecorded ==
  ASSUME IInv, NEW o \in Object, NEW fs \in SUBSET Field, ClearFields(o, fs),
         NEW q \in Object
  PROVE  Recorded(q)'
<1> TypeOK /\ Recorded(q) BY DEF IInv
<1> USE DEF TypeOK, DirtyState
<1>1. /\ o \in Tracked
      /\ changed' = [changed EXCEPT ![o] = @ \ fs]
      /\ manner' = [manner EXCEPT ![o] = IF changed'[o] = {} THEN {} ELSE @ \cup {"fields"}]
      /\ dropped' = {x \in dropped : changed'[x] # {}}
      /\ dirty' = [dirty EXCEPT ![o] = IF dirty[o].fields \subseteq fs THEN Clean
                                       ELSE [dirty[o] EXCEPT !.fields = @ \ fs]]
  BY DEF ClearFields, WithoutFields
<1>2. CASE q # o
  <2>1. dirty'[q] = dirty[q] /\ changed'[q] = changed[q] /\ manner'[q] = manner[q]
    BY <1>1, <1>2
  <2>2. changed'[q] # {} => (q \in dropped' <=> q \in dropped)
    BY <1>1
  <2> QED BY <2>1, <2>2 DEF Recorded, Tracked
<1>3. CASE q = o
  <2>1. /\ changed'[q] = changed[q] \ fs
        /\ manner'[q] = IF changed'[q] = {} THEN {} ELSE manner[q] \cup {"fields"}
        /\ changed[q] # {} /\ manner[q] # {}
    BY <1>1, <1>3 DEF Recorded
  <2>2. CASE dirty[q].fields \subseteq fs
    <3>1. dirty'[q].fields = {} /\ dirty'[q].since = 0
      BY <1>1, <1>3, <2>2 DEF Clean
    <3>2. q \notin Tracked'
      BY <3>1 DEF Tracked
    <3>3. ASSUME q \notin dropped', changed'[q] # {}, manner'[q] # {"whole", "fields"}
          PROVE  FALSE
      <4>1. q \notin dropped BY <1>1, <3>3
      <4>2. manner[q] = {"fields"}
        BY <2>1, <3>3
      <4>3. manner[q] # {"whole", "fields"}
        BY <4>2
      <4>4. dirty[q].fields = changed[q]
        BY <2>1, <4>1, <4>2, <4>3 DEF Recorded
      <4> QED BY <2>1, <2>2, <3>3, <4>4
    <3> QED BY <2>1, <3>1, <3>2, <3>3 DEF Recorded
  <2>3. CASE ~(dirty[q].fields \subseteq fs)
    <3>1. dirty'[q].fields = dirty[q].fields \ fs /\ dirty'[q].since = dirty[q].since
      BY <1>1, <1>3, <2>3
    <3>2. dirty'[q].fields # {} /\ dirty'[q].fields \subseteq changed'[q] /\ q \in Tracked'
      BY <1>1, <1>3, <2>1, <2>3, <3>1 DEF Recorded, Tracked
    <3>3. ASSUME q \notin dropped', manner'[q] # {"whole", "fields"}
          PROVE  manner'[q] = {"fields"} /\ dirty'[q].fields = changed'[q]
      <4>1. q \notin dropped BY <1>1, <3>2, <3>3
      <4>2. manner[q] = {"fields"} /\ manner'[q] = {"fields"}
        BY <2>1, <3>2, <3>3
      <4>3. manner[q] # {"whole", "fields"}
        BY <4>2
      <4>4. dirty[q].fields = changed[q]
        BY <2>1, <4>1, <4>2, <4>3 DEF Recorded
      <4> QED BY <2>1, <3>1, <4>2, <4>4
    <3>4. changed'[q] # {} /\ manner'[q] # {}
      BY <2>1, <3>2
    <3> QED BY <3>2, <3>3, <3>4 DEF Recorded
  <2> QED BY <2>2, <2>3
<1> QED BY <1>2, <1>3

\* The other calls: an object keeps what is recorded of it, or is forgotten
\* with what has changed.
LEMMA RecordedStep == ASSUME IInv, Next, NEW q \in Object PROVE Recorded(q)'
<1> TypeOK /\ Recorded(q) BY DEF IInv
<1> USE DEF TypeOK, DirtyState
<1>1. ASSUME NEW o \in Object, NEW fs \in SUBSET Field, NEW p \in Priority, MarkDirty(o, fs, p)
      PROVE  Recorded(q)'
  BY <1>1, MarkRecorded
<1>2. ASSUME NEW os \in SUBSET Object, ClearDirty(os) PROVE Recorded(q)'
  <2>1. q \in os => /\ dirty'[q].fields = {} /\ dirty'[q].since = 0
                    /\ changed'[q] = {} /\ manner'[q] = {}
    BY <1>2 DEF ClearDirty, Saved, Clean
  <2>2. q \notin os => /\ dirty'[q] = dirty[q]
                       /\ changed'[q] = changed[q] /\ manner'[q] = manner[q]
                       /\ q \in dropped' <=> q \in dropped
    BY <1>2 DEF ClearDirty, Saved
  <2>3. CASE q \in os
    BY <2>1, <2>3 DEF Recorded, Tracked
  <2>4. CASE q \notin os
    BY <2>2, <2>4 DEF Recorded, Tracked
  <2> QED BY <2>3, <2>4
<1>3. ASSUME NEW o \in Object, NEW fs \in SUBSET Field, ClearFields(o, fs) PROVE Recorded(q)'
  BY <1>3, ClearFieldsRecorded
<1>4. ASSUME NEW o \in Object, NEW p \in Priority, UpdatePriority(o, p) PROVE Recorded(q)'
  <2>1. /\ dirty'[q].fields = dirty[q].fields /\ dirty'[q].since = dirty[q].since
        /\ UNCHANGED <<changed, manner, dropped>>
    BY <1>4 DEF UpdatePriority
  <2> QED BY <2>1 DEF Recorded, Tracked
<1>5. ASSUME NEW gone, dirty' = [x \in Object |-> IF x \in gone THEN Clean ELSE dirty[x]],
             dropped' = Forgotten(gone), UNCHANGED <<changed, manner>>
      PROVE  Recorded(q)'
  <2>1. q \in gone => dirty'[q].fields = {} /\ dirty'[q].since = 0
    BY <1>5 DEF Clean
  <2>2. q \notin gone => dirty'[q] = dirty[q]
    BY <1>5
  <2>3. CASE q \in gone
    BY <1>5, <2>1, <2>3 DEF Recorded, Tracked, Forgotten
  <2>4. CASE q \notin gone
    BY <1>5, <2>2, <2>4 DEF Recorded, Tracked, Forgotten
  <2> QED BY <2>3, <2>4
<1>6. ASSUME NEW cutoff \in 1 .. MaxMarks, Cleanup(cutoff) PROVE Recorded(q)'
  BY <1>5, <1>6 DEF Cleanup
<1>7. ASSUME Shutdown PROVE Recorded(q)'
  <2>1. dirty'[q].fields = {} /\ dirty'[q].since = 0
    BY <1>7 DEF Shutdown, Clean
  <2>2. q \notin Tracked' /\ changed' = changed /\ manner' = manner
    BY <1>7, <2>1 DEF Shutdown, Tracked
  <2>3. changed[q] # {} /\ manner[q] # {"whole", "fields"} => q \in dropped'
    BY <1>7 DEF Shutdown, Forgotten, Recorded
  <2> QED BY <2>1, <2>2, <2>3 DEF Recorded
<1> QED BY <1>1, <1>2, <1>3, <1>4, <1>6, <1>7 DEF Next

-----------------------------------------------------------------------------
LEMMA InvInit == Init => IInv
BY DEF Init, IInv, TypeOK, Recorded, DirtyState, Clean, Tracked

LEMMA InvStep == IInv /\ [Next]_vars => IInv'
<1> SUFFICES ASSUME IInv, [Next]_vars PROVE IInv'
  OBVIOUS
<1>1. CASE Next
  <2>1. TypeOK'
    BY <1>1, TypeStep DEF IInv
  <2>2. \A o \in Object : Recorded(o)'
    BY <1>1, RecordedStep
  <2> QED BY <2>1, <2>2 DEF IInv
<1>2. CASE UNCHANGED vars
  BY <1>2 DEF vars, IInv, TypeOK, Recorded, Tracked
<1> QED BY <1>1, <1>2

\* Every reachable state of the tracker satisfies the invariant.
THEOREM Invariant == Spec => []IInv
BY InvInit, InvStep, PTL DEF Spec

\* The tracker's variables keep their types, whatever is called.
THEOREM TypeCorrect == Spec => []TypeOK
<1>1. IInv => TypeOK BY DEF IInv
<1> QED BY <1>1, Invariant, PTL

\* A change that was not saved stays dirty, for as long as its object is not
\* given up and is marked and cleared in one manner (dirty-tracker.ts:100, :294).
THEOREM ChangesKept == Spec => []ChangedIsDirty
BY Invariant, RecordedIsDirty, PTL

-----------------------------------------------------------------------------
(* What the queues select: the items of an array and their order.          *)

\* Item i is in q ahead of item j.
Ahead(q, i, j) == \E k, l \in DOMAIN q : k < l /\ q[k] = i /\ q[l] = j

\* The same of the first n places of q.
AheadUpTo(q, n, i, j) == \E k, l \in 1 .. n : k < l /\ q[k] = i /\ q[l] = j

ItemsUpTo(q, n) == {q[k] : k \in 1 .. n}

LEMMA NoItems ==
  /\ Items(<<>>) = {}
  /\ \A i, j : ~Ahead(<<>>, i, j)
BY DEF Items, Ahead

LEMMA OneItem ==
  ASSUME NEW e
  PROVE  Items(<<e>>) = {e} /\ \A i, j : ~Ahead(<<e>>, i, j)
BY DEF Items, Ahead

LEMMA ItemsOf ==
  ASSUME NEW S, NEW q \in Seq(S)
  PROVE  /\ Items(q) \subseteq S
         /\ Items(q) = {} <=> q = <<>>
         /\ \A i, j : Ahead(q, i, j) => i \in Items(q) /\ j \in Items(q)
         /\ Items(q) = ItemsUpTo(q, Len(q))
         /\ \A i, j : Ahead(q, i, j) <=> AheadUpTo(q, Len(q), i, j)
         /\ q \in Seq(Items(q))
<1>1. DOMAIN q = 1 .. Len(q) /\ Len(q) \in Nat /\ \A k \in 1 .. Len(q) : q[k] \in S
  BY LenProperties
<1>2. Items(q) = {} <=> q = <<>>
  <2>1. Items(q) = {} => Len(q) = 0
    <3>1. Len(q) # 0 => 1 \in DOMAIN q /\ q[1] \in Items(q)
      BY <1>1 DEF Items
    <3> QED
      BY <3>1
  <2>2. Len(q) = 0 => q = <<>>
    OBVIOUS
  <2> QED
    BY <2>1, <2>2, NoItems
<1>3. q \in Seq(Items(q))
  <2>1. \A k \in 1 .. Len(q) : q[k] \in Items(q)
    BY <1>1 DEF Items
  <2> QED
    BY <1>1, <2>1
<1>4. \A i, j : Ahead(q, i, j) => i \in Items(q) /\ j \in Items(q)
  BY DEF Items, Ahead
<1>5. Items(q) = ItemsUpTo(q, Len(q)) /\ Items(q) \subseteq S
  BY <1>1 DEF Items, ItemsUpTo
<1>6. \A i, j : Ahead(q, i, j) <=> AheadUpTo(q, Len(q), i, j)
  BY <1>1 DEF Ahead, AheadUpTo
<1> QED
  BY <1>2, <1>3, <1>4, <1>5, <1>6

LEMMA ItemsOfCat ==
  ASSUME NEW S, NEW p \in Seq(S), NEW q \in Seq(S)
  PROVE  /\ p \o q \in Seq(S)
         /\ Items(p \o q) = Items(p) \cup Items(q)
         /\ \A i, j : Ahead(p \o q, i, j) <=>
              Ahead(p, i, j) \/ Ahead(q, i, j) \/ (i \in Items(p) /\ j \in Items(q))
<1> DEFINE r == p \o q
           m == Len(p)
           n == Len(q)
<1>1. /\ r \in Seq(S) /\ DOMAIN r = 1 .. m + n /\ m \in Nat /\ n \in Nat
      /\ DOMAIN p = 1 .. m /\ DOMAIN q = 1 .. n
      /\ \A k \in 1 .. m : r[k] = p[k]
      /\ \A k \in 1 .. n : r[m + k] = q[k]
  BY ConcatProperties, LenProperties
<1> HIDE DEF r, m, n
<1>2. \A k \in 1 .. m + n : k \in 1 .. m \/ k - m \in 1 .. n
  BY <1>1
<1>3. Items(r) = Items(p) \cup Items(q)
  <2>1. ASSUME NEW k \in 1 .. m + n PROVE r[k] \in Items(p) \cup Items(q)
    <3>1. CASE k \in 1 .. m
      BY <1>1, <3>1 DEF Items
    <3>2. CASE k - m \in 1 .. n
      <4>1. m + (k - m) = k
        BY <1>1
      <4> QED
        BY <1>1, <3>2, <4>1 DEF Items
    <3> QED
      BY <1>2, <3>1, <3>2
  <2>2. \A k \in 1 .. m : p[k] \in Items(r)
    BY <1>1 DEF Items
  <2>3. ASSUME NEW k \in 1 .. n PROVE q[k] \in Items(r)
    <3>1. m + k \in 1 .. m + n /\ r[m + k] = q[k]
      BY <1>1
    <3> QED
      BY <1>1, <3>1 DEF Items
  <2> QED
    BY <1>1, <2>1, <2>2, <2>3 DEF Items
<1>4. ASSUME NEW i, NEW j, Ahead(r, i, j)
      PROVE  Ahead(p, i, j) \/ Ahead(q, i, j) \/ (i \in Items(p) /\ j \in Items(q))
  <2>1. PICK k \in 1 .. m + n, l \in 1 .. m + n : k < l /\ r[k] = i /\ r[l] = j
    BY <1>1, <1>4 DEF Ahead
  <2>2. CASE l \in 1 .. m
    <3>1. k \in 1 .. m
      BY <1>1, <2>1, <2>2
    <3> QED
      BY <1>1, <2>1, <2>2, <3>1 DEF Ahead
  <2>3. CASE l - m \in 1 .. n /\ k \in 1 .. m
    <3>1. m + (l - m) = l
      BY <1>1
    <3> QED
      BY <1>1, <2>1, <2>3, <3>1 DEF Items
  <2>4. CASE l - m \in 1 .. n /\ k - m \in 1 .. n
    <3>1. m + (l - m) = l /\ m + (k - m) = k /\ k - m < l - m
      BY <1>1, <2>1
    <3>2. q[k - m] = i /\ q[l - m] = j
      BY <1>1, <2>1, <2>4, <3>1
    <3> QED
      BY <1>1, <2>4, <3>1, <3>2 DEF Ahead
  <2> QED
    BY <1>2, <2>1, <2>2, <2>3, <2>4
<1>5. ASSUME NEW i, NEW j,
             Ahead(p, i, j) \/ Ahead(q, i, j) \/ (i \in Items(p) /\ j \in Items(q))
      PROVE  Ahead(r, i, j)
  <2>1. CASE Ahead(p, i, j)
    <3>1. PICK k, l \in 1 .. m : k < l /\ p[k] = i /\ p[l] = j
      BY <1>1, <2>1 DEF Ahead
    <3>2. k \in 1 .. m + n /\ l \in 1 .. m + n
      BY <1>1
    <3> QED
      BY <1>1, <3>1, <3>2 DEF Ahead
  <2>2. CASE Ahead(q, i, j)
    <3>1. PICK k, l \in 1 .. n : k < l /\ q[k] = i /\ q[l] = j
      BY <1>1, <2>2 DEF Ahead
    <3>2. m + k \in 1 .. m + n /\ m + l \in 1 .. m + n /\ m + k < m + l
      BY <1>1, <3>1
    <3>3. r[m + k] = i /\ r[m + l] = j
      BY <1>1, <3>1
    <3> QED
      BY <1>1, <3>2, <3>3 DEF Ahead
  <2>3. CASE i \in Items(p) /\ j \in Items(q)
    <3>1. PICK k \in 1 .. m, l \in 1 .. n : p[k] = i /\ q[l] = j
      BY <1>1, <2>3 DEF Items
    <3>2. k \in 1 .. m + n /\ m + l \in 1 .. m + n /\ k < m + l
      BY <1>1, <3>1
    <3>3. r[k] = i /\ r[m + l] = j
      BY <1>1, <3>1
    <3> QED
      BY <1>1, <3>2, <3>3 DEF Ahead
  <2> QED
    BY <1>5, <2>1, <2>2, <2>3
<1> QED
  BY <1>1, <1>3, <1>4, <1>5 DEF r

LEMMA ItemsOfAppend ==
  ASSUME NEW S, NEW q \in Seq(S), NEW e \in S
  PROVE  /\ Append(q, e) \in Seq(S)
         /\ Items(Append(q, e)) = Items(q) \cup {e}
         /\ \A i, j : Ahead(Append(q, e), i, j) <=> Ahead(q, i, j) \/ (i \in Items(q) /\ j = e)
<1>1. Append(q, e) = q \o <<e>> /\ <<e>> \in Seq(S)
  OBVIOUS
<1>2. Items(<<e>>) = {e} /\ \A i, j : ~Ahead(<<e>>, i, j)
  BY OneItem
<1>3. /\ q \o <<e>> \in Seq(S)
      /\ Items(q \o <<e>>) = Items(q) \cup Items(<<e>>)
      /\ \A i, j : Ahead(q \o <<e>>, i, j) <=>
           Ahead(q, i, j) \/ Ahead(<<e>>, i, j) \/ (i \in Items(q) /\ j \in Items(<<e>>))
  BY <1>1, ItemsOfCat
<1> QED
  BY <1>1, <1>2, <1>3

\* A sequence is its head and its tail, or its first items and the rest.
LEMMA ItemsOfTail ==
  ASSUME NEW S, NEW q \in Seq(S), q # <<>>
  PROVE  /\ q[1] \in S /\ Tail(q) \in Seq(S)
         /\ Items(q) = {q[1]} \cup Items(Tail(q))
         /\ \A i, j : Ahead(q, i, j) <=> Ahead(Tail(q), i, j) \/ (i = q[1] /\ j \in Items(Tail(q)))
<1>1. q = <<q[1]>> \o Tail(q) /\ <<q[1]>> \in Seq(S) /\ q[1] \in S /\ Tail(q) \in Seq(S)
  OBVIOUS
<1>2. Items(<<q[1]>>) = {q[1]} /\ \A i, j : ~Ahead(<<q[1]>>, i, j)
  BY OneItem
<1>3. /\ Items(<<q[1]>> \o Tail(q)) = Items(<<q[1]>>) \cup Items(Tail(q))
      /\ \A i, j : Ahead(<<q[1]>> \o Tail(q), i, j) <=>
           \/ Ahead(<<q[1]>>, i, j) \/ Ahead(Tail(q), i, j)
           \/ (i \in Items(<<q[1]>>) /\ j \in Items(Tail(q)))
  BY <1>1, ItemsOfCat
<1> QED
  BY <1>1, <1>2, <1>3

LEMMA SplitAt ==
  ASSUME NEW S, NEW q \in Seq(S), NEW n \in 0 .. Len(q)
  PROVE  /\ SubSeq(q, 1, n) \in Seq(S) /\ SubSeq(q, n + 1, Len(q)) \in Seq(S)
         /\ Len(SubSeq(q, 1, n)) = n
         /\ q = SubSeq(q, 1, n) \o SubSeq(q, n + 1, Len(q))
         /\ Items(q) = Items(SubSeq(q, 1, n)) \cup Items(SubSeq(q, n + 1, Len(q)))
         /\ \A i, j : Ahead(q, i, j) <=>
              \/ Ahead(SubSeq(q, 1, n), i, j) \/ Ahead(SubSeq(q, n + 1, Len(q)), i, j)
              \/ i \in Items(SubSeq(q, 1, n)) /\ j \in Items(SubSeq(q, n + 1, Len(q)))
<1> DEFINE a == SubSeq(q, 1, n)
           b == SubSeq(q, n + 1, Len(q))
<1>1. Len(q) \in Nat /\ n \in Nat /\ \A k \in 1 .. Len(q) : q[k] \in S
  BY LenProperties
<1>2. a \in Seq(S) /\ b \in Seq(S) /\ Len(a) = n
  BY <1>1, SubSeqProperties
<1>3. q = a \o b
  <2>1. 1 \in 1 .. Len(q) + 1 /\ n \in 1 - 1 .. Len(q) /\ Len(q) \in n .. Len(q)
    BY <1>1
  <2>2. SubSeq(q, 1, n) \o SubSeq(q, n + 1, Len(q)) = SubSeq(q, 1, Len(q))
    BY <2>1, ConcatAdjacentSubSeq
  <2> QED
    BY <2>2, SubSeqFull
<1> HIDE DEF a, b
<1>4. /\ Items(a \o b) = Items(a) \cup Items(b)
      /\ \A i, j : Ahead(a \o b, i, j) <=>
           Ahead(a, i, j) \/ Ahead(b, i, j) \/ (i \in Items(a) /\ j \in Items(b))
  BY <1>2, ItemsOfCat
<1> QED
  BY <1>2, <1>3, <1>4 DEF a, b

\* What the filter of an array takes, of the first n places, is g[n].
Filters(q, is, g) ==
  g = [n \in 0 .. Len(q) |->
         IF n = 0 THEN <<>>
         ELSE IF q[n] \in is THEN Append(g[n - 1], q[n]) ELSE g[n - 1]]

Filtering(q, is, m, g) ==
  g = [n \in 0 .. m |->
         IF n = 0 THEN <<>>
         ELSE IF q[n] \in is THEN Append(g[n - 1], q[n]) ELSE g[n - 1]]

LEMMA FilterExists ==
  ASSUME NEW S, NEW q \in Seq(S), NEW is
  PROVE  \E g : Filters(q, is, g) /\ Among(q, is) = g[Len(q)]
<1>1. Len(q) \in Nat
  OBVIOUS
<1> DEFINE G == {m \in 0 .. Len(q) : \E g : Filtering(q, is, m, g)}
<1>2. 0 \in G
  <2>1. Filtering(q, is, 0, [n \in 0 .. 0 |-> <<>>])
    BY DEF Filtering
  <2> QED
    BY <1>1, <2>1
<1>3. ASSUME NEW m \in 0 .. Len(q) - 1, m \in G
      PROVE  m + 1 \in G
  <2>1. PICK g : Filtering(q, is, m, g)
    BY <1>3
  <2> DEFINE e == IF q[m + 1] \in is THEN Append(g[m], q[m + 1]) ELSE g[m]
             h == [n \in 0 .. m + 1 |-> IF n = m + 1 THEN e ELSE g[n]]
  <2>2. /\ DOMAIN g = 0 .. m
        /\ \A n \in 0 .. m : g[n] = IF n = 0 THEN <<>>
             ELSE IF q[n] \in is THEN Append(g[n - 1], q[n]) ELSE g[n - 1]
    BY <2>1 DEF Filtering
  <2>3. /\ DOMAIN h = 0 .. m + 1 /\ h[m + 1] = e
        /\ \A n \in 0 .. m : h[n] = g[n]
    BY <1>1
  <2> HIDE DEF h
  <2>4. ASSUME NEW n \in 0 .. m + 1
        PROVE  h[n] = IF n = 0 THEN <<>>
                 ELSE IF q[n] \in is THEN Append(h[n - 1], q[n]) ELSE h[n - 1]
    <3>1. CASE n = m + 1
      <4>1. n # 0 /\ n - 1 = m /\ m \in 0 .. m
        BY <1>1, <3>1
      <4> QED
        BY <2>3, <3>1, <4>1
    <3>2. CASE n # m + 1
      <4>1. n \in 0 .. m /\ (n # 0 => n - 1 \in 0 .. m)
        BY <1>1, <3>2
      <4> QED
        BY <2>2, <2>3, <4>1
    <3> QED
      BY <3>1, <3>2
  <2>5. Filtering(q, is, m + 1, h)
    <3>1. h = [n \in 0 .. m + 1 |-> h[n]]
      BY <2>3 DEF h
    <3> QED
      BY <2>4, <3>1 DEF Filtering
  <2>6. m + 1 \in 0 .. Len(q)
    BY <1>1
  <2> QED
    BY <2>5, <2>6
<1>4. Len(q) \in G
  <2> HIDE DEF G
  <2>1. \A k \in 0 .. Len(q) - 1 : k \in G => k + 1 \in G
    BY <1>3
  <2>2. \A k \in 0 .. Len(q) : k \in G
    BY <1>1, <1>2, <2>1, Upwards
  <2> QED
    BY <1>1, <2>2
<1>5. PICK g : Filters(q, is, g)
  BY <1>4 DEF Filters, Filtering
<1> DEFINE taken == CHOOSE h : Filters(q, is, h)
<1>6. Filters(q, is, taken)
  BY <1>5
<1>7. Among(q, is) = taken[Len(q)]
  BY DEF Among, Filters
<1> QED
  BY <1>6, <1>7

LEMMA ItemsOfAmong ==
  ASSUME NEW S, NEW q \in Seq(S), NEW is
  PROVE  /\ Among(q, is) \in Seq(S)
         /\ Items(Among(q, is)) = Items(q) \cap is
         /\ \A i, j : Ahead(Among(q, is), i, j) <=> Ahead(q, i, j) /\ i \in is /\ j \in is
<1>1. Len(q) \in Nat /\ \A k \in 1 .. Len(q) : q[k] \in S
  BY LenProperties
<1>2. PICK g : Filters(q, is, g) /\ Among(q, is) = g[Len(q)]
  BY FilterExists
<1>3. \A n \in 0 .. Len(q) : g[n] = IF n = 0 THEN <<>>
        ELSE IF q[n] \in is THEN Append(g[n - 1], q[n]) ELSE g[n - 1]
  BY <1>2 DEF Filters
<1> DEFINE Good(n) ==
      /\ g[n] \in Seq(S)
      /\ \A i : i \in Items(g[n]) <=> i \in ItemsUpTo(q, n) /\ i \in is
      /\ \A i, j : Ahead(g[n], i, j) <=> AheadUpTo(q, n, i, j) /\ i \in is /\ j \in is
           G == {n \in 0 .. Len(q) : Good(n)}
<1>4. 0 \in G
  <2>1. g[0] = <<>>
    BY <1>1, <1>3
  <2>2. <<>> \in Seq(S)
    OBVIOUS
  <2>3. ItemsUpTo(q, 0) = {} /\ \A i, j : ~AheadUpTo(q, 0, i, j)
    BY DEF ItemsUpTo, AheadUpTo
  <2>4. Items(g[0]) = {} /\ \A i, j : ~Ahead(g[0], i, j)
    BY <2>1, NoItems
  <2>5. Good(0)
    BY <2>1, <2>2, <2>3, <2>4
  <2> QED
    BY <1>1, <2>5
<1>5. ASSUME NEW n \in 0 .. Len(q) - 1, n \in G
      PROVE  n + 1 \in G
  <2> DEFINE e == q[n + 1]
  <2>1. n + 1 \in 0 .. Len(q) /\ n + 1 # 0 /\ n + 1 - 1 = n /\ n + 1 \in 1 .. Len(q)
    BY <1>1
  <2>2. g[n + 1] = IF e \in is THEN Append(g[n], e) ELSE g[n]
    BY <1>3, <2>1
  <2>3. Good(n)
    BY <1>5
  <2>4. e \in S
    BY <1>1, <2>1
  <2>5. \A i : i \in ItemsUpTo(q, n + 1) <=> i \in ItemsUpTo(q, n) \/ i = e
    <3>1. 1 .. n + 1 = (1 .. n) \cup {n + 1}
      BY <1>1
    <3> QED
      BY <3>1 DEF ItemsUpTo
  <2>6. \A i, j : AheadUpTo(q, n + 1, i, j) <=>
          AheadUpTo(q, n, i, j) \/ (i \in ItemsUpTo(q, n) /\ j = e)
    <3>1. \A k, l \in 1 .. n + 1 : k < l <=>
            \/ k \in 1 .. n /\ l \in 1 .. n /\ k < l
            \/ k \in 1 .. n /\ l = n + 1
      BY <1>1
    <3>2. 1 .. n \subseteq 1 .. n + 1 /\ n + 1 \in 1 .. n + 1
      BY <1>1
    <3> QED
      BY <3>1, <3>2 DEF AheadUpTo, ItemsUpTo
  <2> HIDE DEF e
  <2>7. CASE e \in is
    <3>1. g[n + 1] = Append(g[n], e)
      BY <2>2, <2>7
    <3>2. /\ Append(g[n], e) \in Seq(S)
          /\ Items(Append(g[n], e)) = Items(g[n]) \cup {e}
          /\ \A i, j : Ahead(Append(g[n], e), i, j) <=>
               Ahead(g[n], i, j) \/ (i \in Items(g[n]) /\ j = e)
      BY <2>3, <2>4, ItemsOfAppend
    <3>3. Good(n + 1)
      BY <2>3, <2>5, <2>6, <2>7, <3>1, <3>2
    <3> QED
      BY <2>1, <3>3
  <2>8. CASE e \notin is
    <3>1. g[n + 1] = g[n]
      BY <2>2, <2>8
    <3>2. Good(n + 1)
      BY <2>3, <2>5, <2>6, <2>8, <3>1
    <3> QED
      BY <2>1, <3>2
  <2> QED
    BY <2>7, <2>8
<1>6. Len(q) \in G
  <2> HIDE DEF G
  <2>1. \A k \in 0 .. Len(q) - 1 : k \in G => k + 1 \in G
    BY <1>5
  <2>2. \A k \in 0 .. Len(q) : k \in G
    BY <1>1, <1>4, <2>1, Upwards
  <2> QED
    BY <1>1, <2>2
<1>7. Good(Len(q))
  BY <1>6
<1>8. /\ Items(q) = ItemsUpTo(q, Len(q))
      /\ \A i, j : Ahead(q, i, j) <=> AheadUpTo(q, Len(q), i, j)
  BY ItemsOf
<1> QED
  BY <1>2, <1>7, <1>8

\* A write, or an operation, is one more, and it is not answered yet.
LEMMA OneMoreWrite ==
  ASSUME NEW S, NEW wr \in Seq(S), NEW r \in S
  PROVE  /\ Append(wr, r) \in Seq(S) /\ Len(Append(wr, r)) = Len(wr) + 1
         /\ DOMAIN Append(wr, r) = DOMAIN wr \cup {Len(wr) + 1}
         /\ Len(wr) + 1 \notin DOMAIN wr
         /\ \A w \in DOMAIN wr : w < Len(wr) + 1 /\ w \in Nat /\ w > 0
         /\ \A w \in DOMAIN wr : Append(wr, r)[w] = wr[w]
         /\ Append(wr, r)[Len(wr) + 1] = r
OBVIOUS

Replies == {"none", "ok", "failed"}

Answered(an, n, am) ==
  am \in [1 .. n + 1 -> Replies] /\ (\A k \in 1 .. n : am[k] = an[k]) /\ am[n + 1] = "none"

LEMMA MoreAnswers ==
  ASSUME NEW n \in Nat, NEW an \in [1 .. n -> Replies]
  PROVE  Answered(an, n, Append(an, "none"))
<1>1. an \in Seq(Replies) /\ Len(an) = n
  OBVIOUS
<1>2. "none" \in Replies
  BY DEF Replies
<1>3. /\ Append(an, "none") \in Seq(Replies) /\ Len(Append(an, "none")) = n + 1
      /\ \A k \in 1 .. n : Append(an, "none")[k] = an[k]
      /\ Append(an, "none")[n + 1] = "none"
  BY <1>1, <1>2
<1>4. Append(an, "none") \in [1 .. n + 1 -> Replies]
  BY <1>3, LenProperties
<1> QED
  BY <1>3, <1>4 DEF Answered

-----------------------------------------------------------------------------
(* The statements that the queues make of a batch.                         *)

AllKinds == {"insert", "update", "delete"}

\* The items of q of a kind, when kd[i] is the kind of item i.
Chosen(kd, q, kind) == Among(q, {i \in Items(q) : kd[i] = kind})

Together(kd, q, kind) ==
  IF Chosen(kd, q, kind) = <<>> THEN <<>>
  ELSE <<[kind |-> kind, batch |-> Chosen(kd, q, kind)]>>

Apart(kd, q) ==
  [k \in DOMAIN Chosen(kd, q, "delete") |->
     [kind |-> "delete", batch |-> <<Chosen(kd, q, "delete")[k]>>]]

Statements(kd, q) == Together(kd, q, "insert") \o Together(kd, q, "update") \o Apart(kd, q)

\* The statements js are of the items of q, of one kind each and in their
\* order; no two have an item, and none but the deletes a kind in common.
Divided(kd, q, js) ==
  /\ js \in Seq([kind : AllKinds, batch : Seq(Items(q))])
  /\ \A x \in Items(js) : \A i \in Items(x.batch) : kd[i] = x.kind
  /\ \A x \in Items(js) : \A i, j : Ahead(x.batch, i, j) => Ahead(q, i, j)
  /\ \A x, y : Ahead(js, x, y) =>
       /\ Items(x.batch) \cap Items(y.batch) = {}
       /\ x.kind = y.kind => x.kind = "delete"

LEMMA ChosenIs ==
  ASSUME NEW S, NEW q \in Seq(S), NEW kd, NEW kind
  PROVE  /\ Chosen(kd, q, kind) \in Seq(Items(q))
         /\ Items(Chosen(kd, q, kind)) = {i \in Items(q) : kd[i] = kind}
         /\ \A i, j : Ahead(Chosen(kd, q, kind), i, j) => Ahead(q, i, j)
<1>1. q \in Seq(Items(q))
  BY ItemsOf
<1> QED
  BY <1>1, ItemsOfAmong DEF Chosen

LEMMA TogetherIs ==
  ASSUME NEW S, NEW q \in Seq(S), NEW kd, NEW kind \in AllKinds
  PROVE  /\ Together(kd, q, kind) \in Seq([kind : AllKinds, batch : Seq(Items(q))])
         /\ \A x, y : ~Ahead(Together(kd, q, kind), x, y)
         /\ \A x \in Items(Together(kd, q, kind)) :
              x = [kind |-> kind, batch |-> Chosen(kd, q, kind)]
         /\ \A i \in Items(q) : kd[i] = kind =>
              \E x \in Items(Together(kd, q, kind)) : i \in Items(x.batch)
<1> DEFINE c == Chosen(kd, q, kind)
           j == [kind |-> kind, batch |-> c]
<1>1. c \in Seq(Items(q)) /\ Items(c) = {i \in Items(q) : kd[i] = kind}
  BY ChosenIs
<1>2. j \in [kind : AllKinds, batch : Seq(Items(q))] /\ j.batch = c
  BY <1>1
<1> HIDE DEF c, j
<1>3. CASE c = <<>>
  <2>1. Together(kd, q, kind) = <<>>
    BY <1>3 DEF Together, c
  <2>2. {i \in Items(q) : kd[i] = kind} = {}
    BY <1>1, <1>3, NoItems
  <2>3. <<>> \in Seq([kind : AllKinds, batch : Seq(Items(q))])
    OBVIOUS
  <2> QED
    BY <2>1, <2>2, <2>3, NoItems
<1>4. CASE c # <<>>
  <2>1. Together(kd, q, kind) = <<j>>
    BY <1>4 DEF Together, c, j
  <2>2. Items(<<j>>) = {j} /\ \A x, y : ~Ahead(<<j>>, x, y)
    BY OneItem
  <2>3. <<j>> \in Seq([kind : AllKinds, batch : Seq(Items(q))])
    BY <1>2
  <2>4. j = [kind |-> kind, batch |-> Chosen(kd, q, kind)]
    BY DEF j, c
  <2> QED
    BY <1>1, <1>2, <2>1, <2>2, <2>3, <2>4
<1> QED
  BY <1>3, <1>4

LEMMA ApartIs ==
  ASSUME NEW S, NEW q \in Seq(S), NEW kd, \A i : ~Ahead(q, i, i)
  PROVE  /\ Apart(kd, q) \in Seq([kind : AllKinds, batch : Seq(Items(q))])
         /\ \A x \in Items(Apart(kd, q)) : \E i \in Items(q) :
              kd[i] = "delete" /\ x = [kind |-> "delete", batch |-> <<i>>]
         /\ \A i \in Items(q) : kd[i] = "delete" =>
              \E x \in Items(Apart(kd, q)) : i \in Items(x.batch)
         /\ \A x, y : Ahead(Apart(kd, q), x, y) => Items(x.batch) \cap Items(y.batch) = {}
<1> DEFINE c == Chosen(kd, q, "delete")
           a == Apart(kd, q)
<1>1. /\ c \in Seq(Items(q)) /\ Items(c) = {i \in Items(q) : kd[i] = "delete"}
      /\ \A i : ~Ahead(c, i, i)
  BY ChosenIs
<1>2. DOMAIN c = 1 .. Len(c) /\ Len(c) \in Nat /\ \A k \in 1 .. Len(c) : c[k] \in Items(q)
  BY <1>1, LenProperties
<1>3. /\ DOMAIN a = 1 .. Len(c)
      /\ \A k \in 1 .. Len(c) : a[k] = [kind |-> "delete", batch |-> <<c[k]>>]
  BY <1>2 DEF Apart
<1>4. a = [k \in 1 .. Len(c) |-> [kind |-> "delete", batch |-> <<c[k]>>]]
  BY <1>2 DEF Apart
<1> HIDE DEF c, a
<1>5. \A k \in 1 .. Len(c) : [kind |-> "delete", batch |-> <<c[k]>>]
        \in [kind : AllKinds, batch : Seq(Items(q))]
  <2> SUFFICES ASSUME NEW k \in 1 .. Len(c)
               PROVE  [kind |-> "delete", batch |-> <<c[k]>>]
                        \in [kind : AllKinds, batch : Seq(Items(q))]
    OBVIOUS
  <2>1. <<c[k]>> \in Seq(Items(q))
    BY <1>2
  <2> QED
    BY <2>1 DEF AllKinds
<1>6. a \in Seq([kind : AllKinds, batch : Seq(Items(q))])
  BY <1>2, <1>4, <1>5
<1>7. \A k \in 1 .. Len(c) : Items(a[k].batch) = {c[k]} /\ kd[c[k]] = "delete" /\ a[k] \in Items(a)
  <2> SUFFICES ASSUME NEW k \in 1 .. Len(c)
               PROVE  Items(a[k].batch) = {c[k]} /\ kd[c[k]] = "delete" /\ a[k] \in Items(a)
    OBVIOUS
  <2>1. a[k].batch = <<c[k]>>
    BY <1>3
  <2>2. c[k] \in Items(c) /\ a[k] \in Items(a)
    BY <1>2, <1>3 DEF Items
  <2> QED
    BY <1>1, <2>1, <2>2, OneItem
<1>8. ASSUME NEW x \in Items(a)
      PROVE  \E i \in Items(q) : kd[i] = "delete" /\ x = [kind |-> "delete", batch |-> <<i>>]
  <2>1. PICK k \in 1 .. Len(c) : x = a[k]
    BY <1>3 DEF Items
  <2> QED
    BY <1>2, <1>3, <1>7, <2>1
<1>9. ASSUME NEW i \in Items(q), kd[i] = "delete"
      PROVE  \E x \in Items(a) : i \in Items(x.batch)
  <2>1. i \in Items(c)
    BY <1>1, <1>9
  <2>2. PICK k \in 1 .. Len(c) : i = c[k]
    BY <1>2, <2>1 DEF Items
  <2> QED
    BY <1>7, <2>2
<1>10. ASSUME NEW x, NEW y, Ahead(a, x, y)
       PROVE  Items(x.batch) \cap Items(y.batch) = {}
  <2>1. PICK k, l \in 1 .. Len(c) : k < l /\ a[k] = x /\ a[l] = y
    BY <1>3, <1>10 DEF Ahead
  <2>2. Ahead(c, c[k], c[l])
    BY <1>2, <2>1 DEF Ahead
  <2>3. c[k] # c[l]
    BY <1>1, <2>2
  <2> QED
    BY <1>7, <2>1, <2>3
<1> QED
  BY <1>6, <1>8, <1>9, <1>10 DEF a

LEMMA StatementsAre ==
  ASSUME NEW S, NEW q \in Seq(S), NEW kd, \A i \in Items(q) : kd[i] \in AllKinds,
         \A i : ~Ahead(q, i, i)
  PROVE  /\ Divided(kd, q, Statements(kd, q))
         /\ \A i \in Items(q) : \E x \in Items(Statements(kd, q)) : i \in Items(x.batch)
         /\ q # <<>> => Statements(kd, q) # <<>>
<1> DEFINE R == [kind : AllKinds, batch : Seq(Items(q))]
           a == Together(kd, q, "insert")
           b == Together(kd, q, "update")
           c == Apart(kd, q)
           js == Statements(kd, q)
<1>1. "insert" \in AllKinds /\ "update" \in AllKinds
  BY DEF AllKinds
<1>2. /\ a \in Seq(R) /\ \A x, y : ~Ahead(a, x, y)
      /\ \A x \in Items(a) : x = [kind |-> "insert", batch |-> Chosen(kd, q, "insert")]
      /\ \A i \in Items(q) : kd[i] = "insert" => \E x \in Items(a) : i \in Items(x.batch)
  BY <1>1, TogetherIs
<1>3. /\ b \in Seq(R) /\ \A x, y : ~Ahead(b, x, y)
      /\ \A x \in Items(b) : x = [kind |-> "update", batch |-> Chosen(kd, q, "update")]
      /\ \A i \in Items(q) : kd[i] = "update" => \E x \in Items(b) : i \in Items(x.batch)
  BY <1>1, TogetherIs
<1>4. /\ c \in Seq(R)
      /\ \A x \in Items(c) : \E i \in Items(q) :
           kd[i] = "delete" /\ x = [kind |-> "delete", batch |-> <<i>>]
      /\ \A i \in Items(q) : kd[i] = "delete" => \E x \in Items(c) : i \in Items(x.batch)
      /\ \A x, y : Ahead(c, x, y) => Items(x.batch) \cap Items(y.batch) = {}
  BY ApartIs
<1>5. /\ Items(Chosen(kd, q, "insert")) = {i \in Items(q) : kd[i] = "insert"}
      /\ Items(Chosen(kd, q, "update")) = {i \in Items(q) : kd[i] = "update"}
      /\ \A i, j : Ahead(Chosen(kd, q, "insert"), i, j) => Ahead(q, i, j)
      /\ \A i, j : Ahead(Chosen(kd, q, "update"), i, j) => Ahead(q, i, j)
  BY ChosenIs
<1>6. js = (a \o b) \o c
  BY DEF Statements
<1> HIDE DEF R, a, b, c, js
<1>7. /\ a \o b \in Seq(R) /\ Items(a \o b) = Items(a) \cup Items(b)
      /\ \A x, y : Ahead(a \o b, x, y) <=>
           Ahead(a, x, y) \/ Ahead(b, x, y) \/ (x \in Items(a) /\ y \in Items(b))
  BY <1>2, <1>3, ItemsOfCat
<1>8. /\ (a \o b) \o c \in Seq(R) /\ Items((a \o b) \o c) = Items(a \o b) \cup Items(c)
      /\ \A x, y : Ahead((a \o b) \o c, x, y) <=>
           Ahead(a \o b, x, y) \/ Ahead(c, x, y) \/ (x \in Items(a \o b) /\ y \in Items(c))
  BY <1>4, <1>7, ItemsOfCat
<1>9. /\ js \in Seq(R) /\ Items(js) = Items(a) \cup Items(b) \cup Items(c)
      /\ \A x, y : Ahead(js, x, y) =>
           \/ Ahead(c, x, y) \/ (x \in Items(a) /\ y \in Items(b))
           \/ (x \in Items(a) \cup Items(b) /\ y \in Items(c))
  BY <1>2, <1>3, <1>6, <1>7, <1>8
<1>10. /\ \A x \in Items(a) : x.kind = "insert" /\ Items(x.batch) = {i \in Items(q) : kd[i] = "insert"}
       /\ \A x \in Items(b) : x.kind = "update" /\ Items(x.batch) = {i \in Items(q) : kd[i] = "update"}
       /\ \A x \in Items(a) \cup Items(b) : \A i, j : Ahead(x.batch, i, j) => Ahead(q, i, j)
  BY <1>2, <1>3, <1>5
<1>11. ASSUME NEW x \in Items(c)
       PROVE  /\ x.kind = "delete" /\ \A i \in Items(x.batch) : kd[i] = "delete"
              /\ \A i, j : ~Ahead(x.batch, i, j)
  <2>1. PICK i \in Items(q) : kd[i] = "delete" /\ x = [kind |-> "delete", batch |-> <<i>>]
    BY <1>4
  <2> QED
    BY <2>1, OneItem
<1>12. \A x \in Items(js) : \A i \in Items(x.batch) : kd[i] = x.kind
  BY <1>9, <1>10, <1>11
<1>13. \A x \in Items(js) : \A i, j : Ahead(x.batch, i, j) => Ahead(q, i, j)
  BY <1>9, <1>10, <1>11
<1>14. ASSUME NEW x, NEW y, Ahead(js, x, y)
       PROVE  /\ Items(x.batch) \cap Items(y.batch) = {}
              /\ x.kind = y.kind => x.kind = "delete"
  <2>1. CASE Ahead(c, x, y)
    <3>1. x \in Items(c) /\ y \in Items(c)
      BY <2>1 DEF Ahead, Items
    <3> QED
      BY <1>4, <1>11, <2>1, <3>1
  <2>2. CASE x \in Items(a) /\ y \in Items(b)
    BY <1>10, <2>2
  <2>3. CASE x \in Items(a) \cup Items(b) /\ y \in Items(c)
    BY <1>10, <1>11, <2>3
  <2> QED
    BY <1>9, <1>14, <2>1, <2>2, <2>3
<1>15. \A i \in Items(q) : \E x \in Items(js) : i \in Items(x.batch)
  BY <1>2, <1>3, <1>4, <1>9 DEF AllKinds
<1>16. ASSUME q # <<>> PROVE js # <<>>
  <2>1. Items(q) # {}
    BY <1>16, ItemsOf
  <2>2. Items(js) # {}
    BY <1>15, <2>1
  <2> QED
    BY <2>2, NoItems
<1>17. Divided(kd, q, js)
  BY <1>9, <1>12, <1>13, <1>14 DEF Divided, R
<1> QED
  BY <1>15, <1>16, <1>17 DEF js

-----------------------------------------------------------------------------
(* WriteCoalescer: what is pending and on its way.                         *)

Row == Table \X Object

Rising(q) == \A k, l \in DOMAIN q : k < l => q[k] < q[l]

\* The rows that are on their way in a call of onFlush, of the calls fl.
Flying(fl, r) == {f \in fl : r \in DOMAIN f.entries}

\* An entry of the pending writes or of a call: writes of its row.
Entries(es, wr) ==
  \A r \in DOMAIN es : es[r] \in Seq(DOMAIN wr) /\ \A w \in Items(es[r]) : wr[w] = r

\* A call of onFlush has a write of each of its rows.
Call(f, wr) ==
  /\ DOMAIN f.entries \subseteq Row /\ f.loop \in BOOLEAN
  /\ Entries(f.entries, wr)
  /\ \A r \in DOMAIN f.entries : f.entries[r] # <<>>

Carries(es, w) == \E r \in DOMAIN es : w \in Items(es[r])

\* Row r, of which no two calls were under way: its writes were stored, are on
\* their way and are pending in the order in which they were made.
Ordered(r, p, fl, ro, wr, an) ==
  /\ \A w \in DOMAIN wr : wr[w] = r /\ an[w] = "ok" => w <= ro[r]
  /\ Rising(p[r])
  /\ \A w \in Items(p[r]) : ro[r] < w
  /\ \A f, g \in Flying(fl, r) : f = g
  /\ \A f \in Flying(fl, r) :
       /\ Rising(f.entries[r])
       /\ \A v \in Items(f.entries[r]) : ro[r] < v /\ \A w \in Items(p[r]) : v < w

\* The invariant, of the pending writes p, the calls fl, the rows ro stored, the
\* writes wr made, what was answered, which are detached and which rows raced.
Kept(p, fl, ro, wr, an, de, ra) ==
  /\ wr \in Seq(Row) /\ an \in [DOMAIN wr -> {"none", "ok", "failed"}]
  /\ ro \in [Row -> {0} \cup DOMAIN wr]
  /\ de \subseteq DOMAIN wr /\ ra \subseteq Row
  /\ DOMAIN p = Row /\ p \in [Row -> Seq(DOMAIN wr)] /\ Entries(p, wr)
  /\ \A f \in fl : Call(f, wr)
  /\ \A w \in DOMAIN wr :
       an[w] = "none" => w \in de \/ Carries(p, w) \/ \E f \in fl : Carries(f.entries, w)
  /\ \A r \in Row \ ra : Ordered(r, p, fl, ro, wr, an)

Left(p, rs) == [r \in Row |-> IF r \in rs THEN <<>> ELSE p[r]]

Taken(p, rs, loop) == [entries |-> [r \in rs |-> p[r]], loop |-> loop]

\* Rows leave the pending writes for a call of onFlush.
LEMMA KeptDeparting ==
  ASSUME NEW p, NEW fl, NEW ro, NEW wr, NEW an, NEW de, NEW ra, Kept(p, fl, ro, wr, an, de, ra),
         NEW rs \in SUBSET Row, \A r \in rs : p[r] # <<>>, NEW loop \in BOOLEAN
  PROVE  Kept(Left(p, rs), fl \cup {Taken(p, rs, loop)}, ro, wr, an, de,
              ra \cup {r \in rs : \E f \in fl : r \in DOMAIN f.entries})
<1> DEFINE q == Left(p, rs)
           t == Taken(p, rs, loop)
           fm == fl \cup {t}
           rb == ra \cup {r \in rs : \E f \in fl : r \in DOMAIN f.entries}
<1>1. /\ q \in [Row -> Seq(DOMAIN wr)] /\ DOMAIN q = Row
      /\ \A r \in Row : q[r] = IF r \in rs THEN <<>> ELSE p[r]
  <2>1. \A r \in Row : p[r] \in Seq(DOMAIN wr) /\ <<>> \in Seq(DOMAIN wr)
    BY DEF Kept
  <2> QED
    BY <2>1 DEF Left
<1>2. /\ DOMAIN t.entries = rs /\ t.loop = loop
      /\ \A r \in rs : t.entries[r] = p[r]
  BY DEF Taken
<1>3. \A r \in Row : p[r] \in Seq(DOMAIN wr) /\ \A w \in Items(p[r]) : wr[w] = r
  BY DEF Kept, Entries
<1>a. Items(<<>>) = {} /\ Rising(<<>>)
  BY DEF Items, Rising
<1> HIDE DEF q, t
<1>4. Entries(q, wr)
  BY <1>1, <1>3, <1>a DEF Entries
<1>5. Call(t, wr)
  BY <1>2, <1>3 DEF Call, Entries
<1>6. \A f \in fm : Call(f, wr)
  BY <1>5 DEF Kept
<1>7. ASSUME NEW w \in DOMAIN wr, an[w] = "none"
      PROVE  w \in de \/ Carries(q, w) \/ \E f \in fm : Carries(f.entries, w)
  <2>1. CASE Carries(p, w)
    <3>1. PICK r \in Row : w \in Items(p[r])
      BY <2>1 DEF Carries, Kept
    <3>2. CASE r \in rs
      BY <1>2, <3>1, <3>2 DEF Carries
    <3>3. CASE r \notin rs
      BY <1>1, <3>1, <3>3 DEF Carries
    <3> QED
      BY <3>2, <3>3
  <2> QED
    BY <1>7, <2>1 DEF Kept
<1>8. ASSUME NEW r \in Row \ rb
      PROVE  Ordered(r, q, fm, ro, wr, an)
  <2>1. Ordered(r, p, fl, ro, wr, an)
    BY <1>8 DEF Kept
  <2>2. CASE r \notin rs
    <3>1. Flying(fm, r) = Flying(fl, r) /\ q[r] = p[r]
      BY <1>1, <1>2, <2>2 DEF Flying
    <3> QED
      BY <2>1, <3>1 DEF Ordered
  <2>3. CASE r \in rs
    <3>1. Flying(fl, r) = {} /\ Flying(fm, r) = {t} /\ t.entries[r] = p[r] /\ q[r] = <<>>
      BY <1>1, <1>2, <1>8, <2>3 DEF Flying
    <3> QED
      BY <1>a, <2>1, <3>1 DEF Ordered
  <2> QED
    BY <2>2, <2>3
<1>9. rb \subseteq Row
  BY DEF Kept
<1> HIDE DEF fm, rb
<1>10. Kept(q, fm, ro, wr, an, de, rb)
  BY <1>1, <1>4, <1>6, <1>7, <1>8, <1>9 DEF Kept
<1> QED
  BY <1>10 DEF q, t, fm, rb

\* Calls and entries stay what they are when a write is made.
LEMMA EntriesStay ==
  ASSUME NEW wr \in Seq(Row), NEW r \in Row, NEW es, Entries(es, wr)
  PROVE  Entries(es, Append(wr, r))
<1>1. \A w \in DOMAIN wr : Append(wr, r)[w] = wr[w]
  BY OneMoreWrite
<1>2. DOMAIN wr \subseteq DOMAIN Append(wr, r)
  BY OneMoreWrite
<1>3. ASSUME NEW s \in DOMAIN es
      PROVE  es[s] \in Seq(DOMAIN Append(wr, r)) /\ \A w \in Items(es[s]) : Append(wr, r)[w] = s
  <2>1. es[s] \in Seq(DOMAIN wr) /\ \A w \in Items(es[s]) : wr[w] = s
    BY <1>3 DEF Entries
  <2>2. \A w \in Items(es[s]) : w \in DOMAIN wr
    BY <2>1 DEF Items
  <2>3. es[s] \in Seq(DOMAIN Append(wr, r))
    BY <1>2, <2>1
  <2> QED
    BY <1>1, <2>1, <2>2, <2>3
<1> QED
  BY <1>3 DEF Entries

LEMMA CallStays ==
  ASSUME NEW wr \in Seq(Row), NEW r \in Row, NEW f, Call(f, wr)
  PROVE  Call(f, Append(wr, r))
<1>1. Entries(f.entries, wr)
  BY DEF Call
<1> QED
  BY <1>1, EntriesStay DEF Call

\* What a write of row r leaves as it was, and what it adds.
Grown(p, fl, ro, wr, an, r, wm, am, w) ==
  /\ wm \in Seq(Row) /\ am \in [DOMAIN wm -> {"none", "ok", "failed"}]
  /\ ro \in [Row -> {0} \cup DOMAIN wm]
  /\ DOMAIN wm = DOMAIN wr \cup {w} /\ w \notin DOMAIN wr /\ w \in Nat
  /\ \A v \in DOMAIN wr : v < w /\ v \in Nat /\ wm[v] = wr[v] /\ am[v] = an[v]
  /\ wm[w] = r /\ am[w] = "none"
  /\ \A f \in fl : Call(f, wm)
  /\ p \in [Row -> Seq(DOMAIN wm)] /\ Entries(p, wm) /\ DOMAIN p = Row

LEMMA WritesGrow ==
  ASSUME NEW p, NEW fl, NEW ro, NEW wr, NEW an, NEW de, NEW ra, Kept(p, fl, ro, wr, an, de, ra),
         NEW r \in Row
  PROVE  Grown(p, fl, ro, wr, an, r, Append(wr, r), Append(an, "none"), Len(wr) + 1)
<1> DEFINE wm == Append(wr, r)
           am == Append(an, "none")
           w == Len(wr) + 1
<1>1. /\ wr \in Seq(Row) /\ an \in [DOMAIN wr -> {"none", "ok", "failed"}]
      /\ ro \in [Row -> {0} \cup DOMAIN wr]
      /\ DOMAIN p = Row /\ p \in [Row -> Seq(DOMAIN wr)] /\ Entries(p, wr)
      /\ \A f \in fl : Call(f, wr)
  BY DEF Kept
<1>2. /\ wm \in Seq(Row) /\ DOMAIN wm = DOMAIN wr \cup {w} /\ w \notin DOMAIN wr /\ w \in Nat
      /\ \A v \in DOMAIN wr : v < w /\ v \in Nat /\ wm[v] = wr[v]
      /\ wm[w] = r
  BY <1>1, OneMoreWrite
<1>3. /\ am \in [1 .. w -> {"none", "ok", "failed"}]
      /\ \A v \in 1 .. Len(wr) : am[v] = an[v]
      /\ am[w] = "none"
  <2>1. Len(wr) \in Nat /\ DOMAIN wr = 1 .. Len(wr)
    BY <1>1
  <2>2. an \in [1 .. Len(wr) -> Replies]
    BY <1>1, <2>1 DEF Replies
  <2>3. Answered(an, Len(wr), Append(an, "none"))
    BY <2>1, <2>2, MoreAnswers
  <2> QED
    BY <2>3 DEF Answered, Replies
<1>4. DOMAIN wm = 1 .. w /\ DOMAIN wr = 1 .. Len(wr)
  BY <1>1, <1>2
<1>5. \A f \in fl : Call(f, wm)
  BY <1>1, CallStays
<1>6. Entries(p, wm)
  BY <1>1, EntriesStay
<1>7. p \in [Row -> Seq(DOMAIN wm)]
  <2>1. \A s \in Row : p[s] \in Seq(DOMAIN wm)
    BY <1>1, <1>6 DEF Entries
  <2> QED
    BY <1>1, <2>1
<1>8. ro \in [Row -> {0} \cup DOMAIN wm]
  BY <1>1, <1>2
<1> QED
  BY <1>1, <1>2, <1>3, <1>4, <1>5, <1>6, <1>7, <1>8 DEF Grown

\* A write is merged into what is pending for its row.
LEMMA KeptWriting ==
  ASSUME NEW p, NEW fl, NEW ro, NEW wr, NEW an, NEW de, NEW ra, Kept(p, fl, ro, wr, an, de, ra),
         NEW r \in Row
  PROVE  Kept([p EXCEPT ![r] = Append(@, Len(wr) + 1)], fl, ro, Append(wr, r),
              Append(an, "none"), de, ra)
<1> DEFINE wm == Append(wr, r)
           am == Append(an, "none")
           w == Len(wr) + 1
           q == [p EXCEPT ![r] = Append(@, w)]
<1>a. wm = Append(wr, r) /\ am = Append(an, "none") /\ w = Len(wr) + 1
  OBVIOUS
<1> HIDE DEF wm, am, w, q
<1>1. /\ wm \in Seq(Row) /\ am \in [DOMAIN wm -> {"none", "ok", "failed"}]
      /\ ro \in [Row -> {0} \cup DOMAIN wm]
      /\ DOMAIN wm = DOMAIN wr \cup {w} /\ w \notin DOMAIN wr /\ w \in Nat
      /\ \A v \in DOMAIN wr : v < w /\ v \in Nat /\ wm[v] = wr[v] /\ am[v] = an[v]
      /\ wm[w] = r /\ am[w] = "none"
      /\ \A f \in fl : Call(f, wm)
      /\ p \in [Row -> Seq(DOMAIN wm)] /\ Entries(p, wm) /\ DOMAIN p = Row
  <2>1. Grown(p, fl, ro, wr, an, r, Append(wr, r), Append(an, "none"), Len(wr) + 1)
    BY WritesGrow
  <2> QED
    BY <1>a, <2>1 DEF Grown
<1>2. /\ q[r] = Append(p[r], w) /\ \A s \in Row : s # r => q[s] = p[s]
      /\ DOMAIN q = Row
  BY <1>1 DEF q
<1>3. /\ p[r] \in Seq(DOMAIN wr) /\ p[r] \in Seq(DOMAIN wm) /\ w \in DOMAIN wm
      /\ \A s \in Row : p[s] \in Seq(DOMAIN wr)
  BY <1>1 DEF Kept
<1>4. /\ q[r] \in Seq(DOMAIN wm) /\ Len(q[r]) = Len(p[r]) + 1
      /\ DOMAIN q[r] = 1 .. Len(p[r]) + 1 /\ DOMAIN p[r] = 1 .. Len(p[r]) /\ Len(p[r]) \in Nat
      /\ \A k \in DOMAIN p[r] : q[r][k] = p[r][k]
      /\ q[r][Len(p[r]) + 1] = w
  BY <1>2, <1>3
<1>5. Items(q[r]) = Items(p[r]) \cup {w}
  BY <1>4 DEF Items
<1>6. Items(p[r]) \subseteq DOMAIN wr
  BY <1>3 DEF Items
<1>7. q \in [Row -> Seq(DOMAIN wm)]
  <2>1. \A s \in Row : q[s] \in Seq(DOMAIN wm)
    BY <1>1, <1>2, <1>4
  <2>2. q = [s \in Row |-> q[s]]
    BY <1>1 DEF q
  <2> HIDE DEF q
  <2> QED
    BY <2>1, <2>2
<1> HIDE DEF q
<1>8. Entries(q, wm)
  <2> SUFFICES ASSUME NEW s \in Row
               PROVE  q[s] \in Seq(DOMAIN wm) /\ \A v \in Items(q[s]) : wm[v] = s
    BY <1>2 DEF Entries
  <2>1. q[s] \in Seq(DOMAIN wm)
    BY <1>7
  <2>2. \A v \in Items(p[s]) : wm[v] = s
    BY <1>1 DEF Entries
  <2> QED
    BY <1>1, <1>2, <1>5, <2>1, <2>2
<1>9. ASSUME NEW v \in DOMAIN wm, am[v] = "none"
      PROVE  v \in de \/ Carries(q, v) \/ \E f \in fl : Carries(f.entries, v)
  <2>1. CASE v = w
    BY <1>2, <1>5, <2>1 DEF Carries
  <2>2. CASE v # w
    <3>1. v \in DOMAIN wr /\ an[v] = "none"
      BY <1>1, <1>9, <2>2
    <3>2. CASE Carries(p, v)
      <4>1. PICK s \in Row : v \in Items(p[s])
        BY <1>1, <3>2 DEF Carries
      <4>2. v \in Items(q[s])
        BY <1>2, <1>5, <4>1
      <4> QED
        BY <1>2, <4>1, <4>2 DEF Carries
    <3> QED
      BY <3>1, <3>2 DEF Kept
  <2> QED
    BY <2>1, <2>2
<1>10. ASSUME NEW s \in Row \ ra
       PROVE  Ordered(s, q, fl, ro, wm, am)
  <2>1. Ordered(s, p, fl, ro, wr, an)
    BY <1>10 DEF Kept
  <2>2. \A v \in DOMAIN wm : wm[v] = s /\ am[v] = "ok" => v <= ro[s]
    BY <1>1, <2>1 DEF Ordered
  <2>3. CASE s # r
    BY <1>2, <2>1, <2>2, <2>3 DEF Ordered
  <2>4. CASE s = r
    <3>1. Rising(q[r])
      <4> SUFFICES ASSUME NEW k \in DOMAIN q[r], NEW l \in DOMAIN q[r], k < l
                   PROVE  q[r][k] < q[r][l]
        BY DEF Rising
      <4>1. k \in DOMAIN p[r] /\ q[r][k] = p[r][k]
        BY <1>4
      <4>2. CASE l \in DOMAIN p[r]
        BY <1>4, <2>1, <2>4, <4>1, <4>2 DEF Ordered, Rising
      <4>3. CASE l = Len(p[r]) + 1
        <5>1. p[r][k] \in DOMAIN wr
          BY <1>3, <4>1
        <5>2. q[r][l] = w
          BY <1>4, <4>3
        <5> QED
          BY <1>1, <4>1, <5>1, <5>2
      <4> QED
        BY <1>4, <4>2, <4>3
    <3>2. ro[r] < w
      <4>1. ro[r] = 0 \/ ro[r] \in DOMAIN wr
        BY DEF Kept
      <4>2. 0 < w
        <5>1. w = Len(wr) + 1 /\ wr \in Seq(Row)
          BY <1>a DEF Kept
        <5> QED
          BY <5>1
      <4> QED
        BY <1>1, <4>1, <4>2
    <3>3. \A v \in Items(q[r]) : ro[r] < v
      BY <1>5, <2>1, <2>4, <3>2 DEF Ordered
    <3>4. ASSUME NEW f \in Flying(fl, r)
          PROVE  \A v \in Items(f.entries[r]) : \A x \in Items(q[r]) : v < x
      <4>1. f.entries[r] \in Seq(DOMAIN wr)
        BY <3>4 DEF Kept, Call, Entries, Flying
      <4>2. \A v \in Items(f.entries[r]) : v < w
        BY <1>1, <4>1 DEF Items
      <4> QED
        BY <1>5, <2>1, <2>4, <3>4, <4>2 DEF Ordered
    <3> QED
      BY <2>1, <2>2, <2>4, <3>1, <3>3, <3>4 DEF Ordered
  <2> QED
    BY <2>3, <2>4
<1>11. de \subseteq DOMAIN wm /\ ra \subseteq Row
  BY <1>1 DEF Kept
<1>12. Kept(q, fl, ro, wm, am, de, ra)
  BY <1>1, <1>2, <1>7, <1>8, <1>9, <1>10, <1>11 DEF Kept
<1> QED
  BY <1>12 DEF q, wm, am, w

\* A write is lost: its entry went into a map that is no longer pending.
LEMMA KeptLosing ==
  ASSUME NEW p, NEW fl, NEW ro, NEW wr, NEW an, NEW de, NEW ra, Kept(p, fl, ro, wr, an, de, ra),
         NEW r \in Row
  PROVE  Kept(p, fl, ro, Append(wr, r), Append(an, "none"), de \cup {Len(wr) + 1}, ra)
<1> DEFINE wm == Append(wr, r)
           am == Append(an, "none")
           w == Len(wr) + 1
<1>a. wm = Append(wr, r) /\ am = Append(an, "none") /\ w = Len(wr) + 1
  OBVIOUS
<1> HIDE DEF wm, am, w
<1>1. /\ wm \in Seq(Row) /\ am \in [DOMAIN wm -> {"none", "ok", "failed"}]
      /\ ro \in [Row -> {0} \cup DOMAIN wm]
      /\ DOMAIN wm = DOMAIN wr \cup {w} /\ w \notin DOMAIN wr /\ w \in Nat
      /\ \A v \in DOMAIN wr : v < w /\ v \in Nat /\ wm[v] = wr[v] /\ am[v] = an[v]
      /\ wm[w] = r /\ am[w] = "none"
      /\ \A f \in fl : Call(f, wm)
      /\ p \in [Row -> Seq(DOMAIN wm)] /\ Entries(p, wm) /\ DOMAIN p = Row
  <2>1. Grown(p, fl, ro, wr, an, r, Append(wr, r), Append(an, "none"), Len(wr) + 1)
    BY WritesGrow
  <2> QED
    BY <1>a, <2>1 DEF Grown
<1>2. ASSUME NEW v \in DOMAIN wm, am[v] = "none"
      PROVE  v \in de \cup {w} \/ Carries(p, v) \/ \E f \in fl : Carries(f.entries, v)
  BY <1>1, <1>2 DEF Kept
<1>3. ASSUME NEW s \in Row \ ra
      PROVE  Ordered(s, p, fl, ro, wm, am)
  <2>1. Ordered(s, p, fl, ro, wr, an)
    BY <1>3 DEF Kept
  <2>2. \A v \in DOMAIN wm : wm[v] = s /\ am[v] = "ok" => v <= ro[s]
    BY <1>1, <2>1 DEF Ordered
  <2> QED
    BY <2>1, <2>2 DEF Ordered
<1>4. de \cup {w} \subseteq DOMAIN wm /\ ra \subseteq Row
  BY <1>1 DEF Kept
<1>5. Kept(p, fl, ro, wm, am, de \cup {w}, ra)
  BY <1>1, <1>2, <1>3, <1>4 DEF Kept
<1> QED
  BY <1>5 DEF wm, am, w

\* A call of onFlush settles.
LEMMA KeptAnswering ==
  ASSUME NEW p, NEW fl, NEW ro, NEW wr, NEW an, NEW de, NEW ra, Kept(p, fl, ro, wr, an, de, ra),
         NEW f \in fl, NEW ok \in BOOLEAN
  PROVE  Kept(p, fl \ {f},
              [r \in Row |-> IF ok /\ r \in DOMAIN f.entries
                             THEN f.entries[r][Len(f.entries[r])] ELSE ro[r]],
              wr,
              [w \in DOMAIN wr |-> IF Carries(f.entries, w)
                                   THEN IF ok THEN "ok" ELSE "failed" ELSE an[w]],
              de, ra)
<1> DEFINE rp == [r \in Row |-> IF ok /\ r \in DOMAIN f.entries
                                THEN f.entries[r][Len(f.entries[r])] ELSE ro[r]]
           am == [w \in DOMAIN wr |-> IF Carries(f.entries, w)
                                      THEN IF ok THEN "ok" ELSE "failed" ELSE an[w]]
           fm == fl \ {f}
<1>1. /\ \A r \in Row : rp[r] = IF ok /\ r \in DOMAIN f.entries
                                  THEN f.entries[r][Len(f.entries[r])] ELSE ro[r]
      /\ \A w \in DOMAIN wr : am[w] = IF Carries(f.entries, w)
                                       THEN IF ok THEN "ok" ELSE "failed" ELSE an[w]
  OBVIOUS
<1>2. /\ wr \in Seq(Row) /\ an \in [DOMAIN wr -> {"none", "ok", "failed"}]
      /\ ro \in [Row -> {0} \cup DOMAIN wr]
      /\ de \subseteq DOMAIN wr /\ ra \subseteq Row
      /\ DOMAIN p = Row /\ p \in [Row -> Seq(DOMAIN wr)] /\ Entries(p, wr)
      /\ \A g \in fl : Call(g, wr)
  BY DEF Kept
<1>3. /\ DOMAIN f.entries \subseteq Row
      /\ \A r \in DOMAIN f.entries :
           /\ f.entries[r] \in Seq(DOMAIN wr) /\ f.entries[r] # <<>>
           /\ \A w \in Items(f.entries[r]) : wr[w] = r
  BY <1>2 DEF Call, Entries
<1>4. ASSUME NEW r \in DOMAIN f.entries
      PROVE  /\ f.entries[r][Len(f.entries[r])] \in Items(f.entries[r])
             /\ f.entries[r][Len(f.entries[r])] \in DOMAIN wr
             /\ Rising(f.entries[r]) =>
                  \A w \in Items(f.entries[r]) : w <= f.entries[r][Len(f.entries[r])]
  <2> DEFINE q == f.entries[r]
  <2>1. q \in Seq(DOMAIN wr) /\ q # <<>>
    BY <1>3
  <2> HIDE DEF q
  <2>2. Len(q) \in DOMAIN q /\ q[Len(q)] \in DOMAIN wr
    BY <2>1
  <2>3. ASSUME Rising(q), NEW k \in DOMAIN q
        PROVE  q[k] <= q[Len(q)]
    <3>1. k = Len(q) \/ k < Len(q)
      BY <2>1
    <3>2. \A n \in DOMAIN q : q[n] \in Nat
      BY <1>2, <2>1
    <3> QED
      BY <2>2, <2>3, <3>1, <3>2 DEF Rising
  <2>4. /\ q[Len(q)] \in Items(q) /\ q[Len(q)] \in DOMAIN wr
        /\ Rising(q) => \A w \in Items(q) : w <= q[Len(q)]
    BY <2>2, <2>3 DEF Items
  <2> QED
    BY <2>4 DEF q
<1>5. rp \in [Row -> {0} \cup DOMAIN wr]
  BY <1>2, <1>4
<1>6. am \in [DOMAIN wr -> {"none", "ok", "failed"}]
  BY <1>2
<1> HIDE DEF rp, am
<1>7. ASSUME NEW w \in DOMAIN wr, am[w] = "none"
      PROVE  w \in de \/ Carries(p, w) \/ \E g \in fm : Carries(g.entries, w)
  <2>1. ~Carries(f.entries, w) /\ an[w] = "none"
    BY <1>1, <1>7
  <2> QED
    BY <2>1 DEF Kept
<1>8. ASSUME NEW r \in Row \ ra
      PROVE  Ordered(r, p, fm, rp, wr, am)
  <2>1. Ordered(r, p, fl, ro, wr, an)
    BY <1>8 DEF Kept
  <2>2. ro[r] \in Nat /\ rp[r] \in Nat /\ DOMAIN wr \subseteq Nat
    <3>1. DOMAIN wr = 1 .. Len(wr) /\ Len(wr) \in Nat
      BY <1>2
    <3>2. DOMAIN wr \subseteq Nat
      BY <3>1
    <3>3. ro[r] \in {0} \cup DOMAIN wr /\ rp[r] \in {0} \cup DOMAIN wr
      BY <1>2, <1>5
    <3> QED
      BY <3>2, <3>3
  <2>3. \A w \in Items(p[r]) : w \in Nat
    <3>1. p[r] \in Seq(DOMAIN wr)
      BY <1>2
    <3> QED
      BY <2>2, <3>1 DEF Items
  <2>4. Flying(fm, r) \subseteq Flying(fl, r)
    BY DEF Flying
  <2>5. CASE r \in DOMAIN f.entries
    <3>1. f \in Flying(fl, r)
      BY <2>5 DEF Flying
    <3>2. Flying(fm, r) = {}
      <4>1. \A g \in Flying(fl, r) : g = f
        BY <2>1, <3>1 DEF Ordered
      <4> QED
        BY <2>4, <4>1 DEF Flying
    <3>3. /\ \A v \in Items(f.entries[r]) :
               ro[r] < v /\ \A w \in Items(p[r]) : v < w
          /\ \A w \in Items(f.entries[r]) : w <= f.entries[r][Len(f.entries[r])]
          /\ f.entries[r][Len(f.entries[r])] \in Items(f.entries[r])
          /\ f.entries[r][Len(f.entries[r])] \in Nat
      BY <1>4, <2>1, <2>2, <2>5, <3>1 DEF Ordered
    <3>4. ro[r] <= rp[r] /\ \A w \in Items(p[r]) : rp[r] < w
      <4>1. CASE ok
        <5>1. rp[r] = f.entries[r][Len(f.entries[r])]
          BY <1>1, <2>5, <4>1
        <5> QED
          BY <2>2, <3>3, <5>1
      <4>2. CASE ~ok
        BY <1>1, <2>1, <2>2, <4>2 DEF Ordered
      <4> QED
        BY <4>1, <4>2
    <3>5. ASSUME NEW w \in DOMAIN wr, wr[w] = r, am[w] = "ok"
          PROVE  w <= rp[r]
      <4>1. CASE Carries(f.entries, w)
        <5>1. ok
          BY <1>1, <3>5, <4>1
        <5>2. w \in Items(f.entries[r])
          BY <1>3, <3>5, <4>1 DEF Carries
        <5> QED
          BY <1>1, <2>5, <3>3, <5>1, <5>2
      <4>2. CASE ~Carries(f.entries, w)
        <5>1. an[w] = "ok"
          BY <1>1, <3>5, <4>2
        <5>2. w <= ro[r]
          BY <2>1, <3>5, <5>1 DEF Ordered
        <5>3. w \in Nat
          BY <2>2
        <5> QED
          BY <2>2, <3>4, <5>2, <5>3
      <4> QED
        BY <4>1, <4>2
    <3> QED
      BY <2>1, <3>2, <3>4, <3>5 DEF Ordered
  <2>6. CASE r \notin DOMAIN f.entries
    <3>1. rp[r] = ro[r]
      BY <1>1, <2>6
    <3>2. ASSUME NEW w \in DOMAIN wr, wr[w] = r, am[w] = "ok"
          PROVE  w <= rp[r]
      <4>1. ~Carries(f.entries, w)
        BY <1>3, <2>6, <3>2 DEF Carries
      <4> QED
        BY <1>1, <2>1, <3>1, <3>2, <4>1 DEF Ordered
    <3>3. \A g \in Flying(fm, r) : g \in Flying(fl, r)
      BY <2>4
    <3> QED
      BY <2>1, <3>1, <3>2, <3>3 DEF Ordered
  <2> QED
    BY <2>5, <2>6
<1>9. \A g \in fm : Call(g, wr)
  BY <1>2
<1> HIDE DEF fm
<1>10. Kept(p, fm, rp, wr, am, de, ra)
  BY <1>2, <1>5, <1>6, <1>7, <1>8, <1>9 DEF Kept
<1> QED
  BY <1>10 DEF rp, am, fm

\* Pending writes are told that they will not happen.
LEMMA KeptRefusing ==
  ASSUME NEW p, NEW fl, NEW ro, NEW wr, NEW an, NEW de, NEW ra, Kept(p, fl, ro, wr, an, de, ra),
         NEW rs \in SUBSET Row
  PROVE  Kept(Left(p, rs), fl, ro, wr,
              [w \in DOMAIN wr |-> IF \E r \in rs : w \in Items(p[r]) THEN "failed" ELSE an[w]],
              de, ra)
<1> DEFINE q == Left(p, rs)
           am == [w \in DOMAIN wr |-> IF \E r \in rs : w \in Items(p[r])
                                      THEN "failed" ELSE an[w]]
<1>1. \A w \in DOMAIN wr : am[w] = IF \E r \in rs : w \in Items(p[r]) THEN "failed" ELSE an[w]
  OBVIOUS
<1>2. /\ wr \in Seq(Row) /\ an \in [DOMAIN wr -> {"none", "ok", "failed"}]
      /\ ro \in [Row -> {0} \cup DOMAIN wr]
      /\ de \subseteq DOMAIN wr /\ ra \subseteq Row
      /\ DOMAIN p = Row /\ p \in [Row -> Seq(DOMAIN wr)] /\ Entries(p, wr)
      /\ \A g \in fl : Call(g, wr)
  BY DEF Kept
<1>3. am \in [DOMAIN wr -> {"none", "ok", "failed"}]
  BY <1>2
<1>4. /\ q \in [Row -> Seq(DOMAIN wr)] /\ DOMAIN q = Row
      /\ \A r \in Row : q[r] = IF r \in rs THEN <<>> ELSE p[r]
  <2>1. \A r \in Row : p[r] \in Seq(DOMAIN wr) /\ <<>> \in Seq(DOMAIN wr)
    BY <1>2
  <2> QED
    BY <2>1 DEF Left
<1>a. Items(<<>>) = {} /\ Rising(<<>>)
  BY DEF Items, Rising
<1> HIDE DEF q, am
<1>5. Entries(q, wr)
  BY <1>2, <1>4, <1>a DEF Entries
<1>6. ASSUME NEW w \in DOMAIN wr, am[w] = "none"
      PROVE  w \in de \/ Carries(q, w) \/ \E g \in fl : Carries(g.entries, w)
  <2>1. an[w] = "none" /\ \A r \in rs : w \notin Items(p[r])
    BY <1>1, <1>6
  <2>2. Carries(p, w) => Carries(q, w)
    BY <1>2, <1>4, <2>1 DEF Carries
  <2> QED
    BY <2>1, <2>2 DEF Kept
<1>7. ASSUME NEW r \in Row \ ra
      PROVE  Ordered(r, q, fl, ro, wr, am)
  <2>1. Ordered(r, p, fl, ro, wr, an)
    BY <1>7 DEF Kept
  <2>2. \A w \in DOMAIN wr : am[w] = "ok" => an[w] = "ok"
    BY <1>1
  <2>3. Items(q[r]) \subseteq Items(p[r]) /\ (Rising(p[r]) => Rising(q[r]))
    BY <1>4, <1>a
  <2> QED
    BY <2>1, <2>2, <2>3 DEF Ordered
<1>8. Kept(q, fl, ro, wr, am, de, ra)
  BY <1>2, <1>3, <1>4, <1>5, <1>6, <1>7 DEF Kept
<1> QED
  BY <1>8 DEF q, am
-----------------------------------------------------------------------------
(* WriteCoalescer: its steps.                                              *)

LEMMA CoalescerNames ==
  /\ Coalescer!Row = Row
  /\ \A q : Coalescer!Members(q) = Items(q)
  /\ \A es, rs, loop : Coalescer!Flight(es, rs, loop) = Taken(es, rs, loop)
  /\ \A es, rs : Coalescer!Without(es, rs) = Left(es, rs)
<1>1. Coalescer!Row = Row
  BY DEF Coalescer!Row, Row
<1>2. \A q : Coalescer!Members(q) = Items(q)
  BY DEF Coalescer!Members, Items
<1>3. \A es, rs, loop : Coalescer!Flight(es, rs, loop) = Taken(es, rs, loop)
  BY DEF Coalescer!Flight, Taken
<1>4. \A es, rs : Coalescer!Without(es, rs) = Left(es, rs)
  BY <1>1 DEF Coalescer!Without, Left
<1> QED
  BY <1>1, <1>2, <1>3, <1>4

CoalescerKept ==
  Kept(writesPending, flights, rows, writes, writeAnswered, detached, raced)

CoalescerInv ==
  /\ CoalescerKept
  /\ timers \subseteq Row /\ rest \subseteq Table /\ flushLoop \in BOOLEAN

\* The rows that leave may be none.
Flown(fl, p, rs, loop) == IF rs = {} THEN fl ELSE fl \cup {Taken(p, rs, loop)}

Crossed(fl, rs) == {r \in rs : \E f \in fl : r \in DOMAIN f.entries}

LEMMA KeptFlying ==
  ASSUME NEW p, NEW fl, NEW ro, NEW wr, NEW an, NEW de, NEW ra, Kept(p, fl, ro, wr, an, de, ra),
         NEW rs \in SUBSET Row, \A r \in rs : p[r] # <<>>, NEW loop \in BOOLEAN
  PROVE  Kept(Left(p, rs), Flown(fl, p, rs, loop), ro, wr, an, de, ra \cup Crossed(fl, rs))
<1>1. CASE rs = {}
  <2>1. Left(p, rs) = p
    BY <1>1 DEF Left, Kept
  <2>2. Flown(fl, p, rs, loop) = fl /\ ra \cup Crossed(fl, rs) = ra
    BY <1>1 DEF Flown, Crossed
  <2> QED
    BY <2>1, <2>2
<1>2. CASE rs # {}
  BY <1>2, KeptDeparting DEF Flown, Crossed
<1> QED
  BY <1>1, <1>2

LEMMA CoalescerPending ==
  /\ Coalescer!PendingRows = {r \in Row : writesPending[r] # <<>>}
  /\ \A entries, rs, loop : Coalescer!Depart(entries, rs, loop) <=>
       /\ flights' = Flown(flights, entries, rs, loop)
       /\ raced' = raced \cup Crossed(flights, rs)
<1>1. Coalescer!PendingRows = {r \in Row : writesPending[r] # <<>>}
  BY CoalescerNames DEF Coalescer!PendingRows
<1>2. ASSUME NEW entries, NEW rs, NEW loop
      PROVE  Coalescer!Depart(entries, rs, loop) <=>
               /\ flights' = Flown(flights, entries, rs, loop)
               /\ raced' = raced \cup Crossed(flights, rs)
  <2>1. {r \in rs : Coalescer!InFlight(r) # {}} = Crossed(flights, rs)
    BY DEF Coalescer!InFlight, Crossed
  <2> QED
    BY <2>1, CoalescerNames DEF Coalescer!Depart, Flown
<1> QED
  BY <1>1, <1>2

LEMMA CoalescerBegins == ASSUME Coalescer!Init PROVE CoalescerInv
<1> DEFINE p == [r \in Row |-> <<>>]
           ro == [r \in Row |-> 0]
<1>1. /\ writesPending = p /\ timers = {} /\ flights = {} /\ rest = {} /\ flushLoop = FALSE
      /\ rows = ro /\ writes = <<>> /\ writeAnswered = <<>> /\ detached = {} /\ raced = {}
  BY CoalescerNames DEF Coalescer!Init
<1>2. Items(<<>>) = {} /\ Rising(<<>>) /\ DOMAIN <<>> = {}
  BY DEF Items, Rising
<1>3. <<>> \in Seq(Row) /\ <<>> \in [DOMAIN <<>> -> {"none", "ok", "failed"}]
  OBVIOUS
<1>4. /\ DOMAIN p = Row /\ p \in [Row -> Seq(DOMAIN <<>>)] /\ ro \in [Row -> {0} \cup DOMAIN <<>>]
      /\ \A r \in Row : p[r] = <<>> /\ ro[r] = 0
  <2>1. <<>> \in Seq(DOMAIN <<>>)
    OBVIOUS
  <2> QED
    BY <2>1
<1> HIDE DEF p, ro
<1>5. Entries(p, <<>>)
  BY <1>2, <1>4 DEF Entries
<1>6. \A r \in Row : Ordered(r, p, {}, ro, <<>>, <<>>)
  BY <1>2, <1>4 DEF Ordered, Flying
<1>7. Kept(p, {}, ro, <<>>, <<>>, {}, {})
  BY <1>2, <1>3, <1>4, <1>5, <1>6 DEF Kept
<1> QED
  BY <1>1, <1>7 DEF CoalescerInv, CoalescerKept

LEMMA CoalescerWrites ==
  ASSUME CoalescerInv, NEW r \in Row, Coalescer!Write(r)
  PROVE  CoalescerInv'
<1> DEFINE w == Len(writes) + 1
           merged == [writesPending EXCEPT ![r] = Append(@, w)]
<1>1. /\ Kept(writesPending, flights, rows, writes, writeAnswered, detached, raced)
      /\ timers \subseteq Row /\ rest \subseteq Table /\ flushLoop \in BOOLEAN
  BY DEF CoalescerInv, CoalescerKept
<1>2. /\ writes' = Append(writes, r) /\ writeAnswered' = Append(writeAnswered, "none")
      /\ UNCHANGED <<rest, flushLoop, rows>>
      /\ Coalescer!WriteExisting(r, w) \/ Coalescer!WriteNew(r, w)
  BY DEF Coalescer!Write
<1>3. Kept(merged, flights, rows, writes', writeAnswered', detached, raced)
  BY <1>1, <1>2, KeptWriting
<1>4. CASE Coalescer!WriteExisting(r, w)
  <2>1. PICK full \in SUBSET {r} :
          /\ writesPending' = Left(merged, full) /\ timers' = timers \ full
          /\ flights' = Flown(flights, merged, full, FALSE)
          /\ raced' = raced \cup Crossed(flights, full) /\ detached' = detached
    BY <1>4, CoalescerNames, CoalescerPending DEF Coalescer!WriteExisting, Coalescer!Coalesced
  <2>2. \A s \in full : merged[s] # <<>>
    <3>1. writesPending[r] \in Seq(DOMAIN writes) /\ DOMAIN writesPending = Row
      BY <1>1 DEF Kept
    <3>2. merged[r] = Append(writesPending[r], w)
      BY <3>1
    <3>3. Append(writesPending[r], w) # <<>>
      BY <3>1
    <3> QED
      BY <3>2, <3>3
  <2> HIDE DEF merged, w
  <2>3. Kept(Left(merged, full), Flown(flights, merged, full, FALSE), rows, writes',
             writeAnswered', detached, raced \cup Crossed(flights, full))
    BY <1>3, <2>2, KeptFlying
  <2>4. CoalescerKept'
    BY <1>2, <2>1, <2>3 DEF CoalescerKept
  <2> QED
    BY <1>1, <1>2, <2>1, <2>4 DEF CoalescerInv
<1>5. CASE Coalescer!WriteNew(r, w)
  <2> DEFINE out == Coalescer!Evicted
             kept == Left(writesPending, out)
             fm == Flown(flights, writesPending, out, FALSE)
             rm == raced \cup Crossed(flights, out)
  <2>1. /\ timers' = (timers \ out) \cup {r} /\ flights' = fm /\ raced' = rm
        /\ \/ writesPending' = kept /\ detached' = detached \cup {w}
           \/ writesPending' = [kept EXCEPT ![r] = Append(@, w)] /\ detached' = detached
    BY <1>5, CoalescerNames, CoalescerPending DEF Coalescer!WriteNew, Coalescer!Coalesced
  <2>2. out \in SUBSET Row /\ \A s \in out : writesPending[s] # <<>>
    BY CoalescerPending DEF Coalescer!Evicted, Coalescer!Oldest
  <2>3. Kept(kept, fm, rows, writes, writeAnswered, detached, rm)
    BY <1>1, <2>2, KeptFlying
  <2> HIDE DEF out, kept, fm, rm
  <2>4. CASE writesPending' = kept /\ detached' = detached \cup {w}
    <3>1. Kept(kept, fm, rows, writes', writeAnswered', detached \cup {w}, rm)
      BY <1>2, <2>3, KeptLosing
    <3>2. CoalescerKept'
      BY <1>2, <2>1, <2>4, <3>1 DEF CoalescerKept
    <3> QED
      BY <1>1, <1>2, <2>1, <3>2 DEF CoalescerInv
  <2>5. CASE writesPending' = [kept EXCEPT ![r] = Append(@, w)] /\ detached' = detached
    <3>1. Kept([kept EXCEPT ![r] = Append(@, w)], fm, rows, writes', writeAnswered', detached, rm)
      BY <1>2, <2>3, KeptWriting
    <3>2. CoalescerKept'
      BY <1>2, <2>1, <2>5, <3>1 DEF CoalescerKept
    <3> QED
      BY <1>1, <1>2, <2>1, <3>2 DEF CoalescerInv
  <2> QED
    BY <2>1, <2>4, <2>5
<1> QED
  BY <1>2, <1>4, <1>5

LEMMA CoalescerFlushes ==
  ASSUME CoalescerInv, NEW rs, Coalescer!Flush(rs)
  PROVE  CoalescerInv'
<1>1. /\ rs \in SUBSET Row /\ \A r \in rs : writesPending[r] # <<>>
      /\ writesPending' = Left(writesPending, rs) /\ timers' = timers \ rs
      /\ flights' = Flown(flights, writesPending, rs, FALSE)
      /\ raced' = raced \cup Crossed(flights, rs)
      /\ UNCHANGED <<rest, flushLoop, rows, writes, writeAnswered, detached>>
  BY CoalescerNames, CoalescerPending DEF Coalescer!Flush
<1>2. Kept(Left(writesPending, rs), Flown(flights, writesPending, rs, FALSE), rows, writes,
           writeAnswered, detached, raced \cup Crossed(flights, rs))
  BY <1>1, KeptFlying DEF CoalescerInv, CoalescerKept
<1>3. CoalescerKept'
  BY <1>1, <1>2 DEF CoalescerKept
<1> QED
  BY <1>1, <1>3 DEF CoalescerInv

\* The loop of flush() goes to its next table.
LEMMA CoalescerNextTable ==
  ASSUME NEW ts \in SUBSET Table, NEW armed \in SUBSET Row, NEW calls, NEW ro, NEW an,
         Kept(writesPending, calls, ro, writes, an, detached, raced),
         Coalescer!NextTable(ts, armed, calls)
  PROVE  /\ Kept(writesPending', flights', ro, writes, an, detached, raced')
         /\ timers' \subseteq Row /\ rest' \subseteq Table /\ flushLoop' \in BOOLEAN
<1>1. CASE /\ flushLoop' = FALSE /\ rest' = {} /\ timers' = armed /\ flights' = calls
           /\ UNCHANGED <<writesPending, raced>>
  BY <1>1
<1>2. ASSUME NEW t \in ts, NEW rs, rs = {r \in Row : writesPending[r] # <<>> /\ r[1] = t},
             rs # {},
             flushLoop' = TRUE, rest' = ts \ {t}, timers' = armed \ rs,
             writesPending' = Left(writesPending, rs),
             flights' = calls \cup {Taken(writesPending, rs, TRUE)},
             raced' = raced \cup {r \in rs : \E f \in calls : r \in DOMAIN f.entries}
      PROVE  /\ Kept(writesPending', flights', ro, writes, an, detached, raced')
             /\ timers' \subseteq Row /\ rest' \subseteq Table /\ flushLoop' \in BOOLEAN
  <2>1. rs \in SUBSET Row /\ \A r \in rs : writesPending[r] # <<>>
    BY <1>2
  <2>2. Kept(Left(writesPending, rs), calls \cup {Taken(writesPending, rs, TRUE)}, ro, writes, an,
             detached, raced \cup {r \in rs : \E f \in calls : r \in DOMAIN f.entries})
    BY <2>1, KeptDeparting
  <2> QED
    BY <1>2, <2>2
<1>3. ASSUME NEW t \in ts, \E r \in Coalescer!PendingRows : r[1] = t,
             LET rs == {r \in Coalescer!PendingRows : r[1] = t} IN
               /\ flushLoop' = TRUE /\ rest' = ts \ {t}
               /\ timers' = armed \ rs
               /\ writesPending' = Coalescer!Without(writesPending, rs)
               /\ flights' = calls \cup {Coalescer!Flight(writesPending, rs, TRUE)}
               /\ raced' = raced \cup {r \in rs : \E f \in calls : r \in DOMAIN f.entries}
      PROVE  /\ Kept(writesPending', flights', ro, writes, an, detached, raced')
             /\ timers' \subseteq Row /\ rest' \subseteq Table /\ flushLoop' \in BOOLEAN
  <2> DEFINE rs == {r \in Coalescer!PendingRows : r[1] = t}
  <2>1. rs = {r \in Row : writesPending[r] # <<>> /\ r[1] = t} /\ rs # {}
    BY <1>3, CoalescerPending
  <2> HIDE DEF rs
  <2>2. /\ flushLoop' = TRUE /\ rest' = ts \ {t}
        /\ timers' = armed \ rs
        /\ writesPending' = Left(writesPending, rs)
        /\ flights' = calls \cup {Taken(writesPending, rs, TRUE)}
        /\ raced' = raced \cup {r \in rs : \E f \in calls : r \in DOMAIN f.entries}
    BY <1>3, CoalescerNames DEF rs
  <2> QED
    BY <1>2, <2>1, <2>2
<1> QED
  BY <1>1, <1>3 DEF Coalescer!NextTable

LEMMA CoalescerAnswers ==
  ASSUME CoalescerInv, NEW f \in flights, NEW ok \in BOOLEAN, Coalescer!Answer(f, ok)
  PROVE  CoalescerInv'
<1> DEFINE rp == [r \in Row |-> IF ok /\ r \in DOMAIN f.entries
                                THEN f.entries[r][Len(f.entries[r])] ELSE rows[r]]
           am == [w \in DOMAIN writes |-> IF Carries(f.entries, w)
                                          THEN IF ok THEN "ok" ELSE "failed" ELSE writeAnswered[w]]
<1>1. /\ rows' = rp /\ writeAnswered' = am /\ UNCHANGED <<writes, detached>>
      /\ IF f.loop THEN Coalescer!NextTable(rest, timers, flights \ {f})
         ELSE /\ flights' = flights \ {f}
              /\ UNCHANGED <<writesPending, timers, rest, flushLoop, raced>>
  BY CoalescerNames DEF Coalescer!Answer, Coalescer!Newest, Carries
<1>2. Kept(writesPending, flights \ {f}, rp, writes, am, detached, raced)
  BY KeptAnswering DEF CoalescerInv, CoalescerKept
<1> HIDE DEF rp, am
<1>3. CASE f.loop
  <2>1. rest \in SUBSET Table /\ timers \in SUBSET Row
    BY DEF CoalescerInv
  <2>2. /\ Kept(writesPending', flights', rp, writes, am, detached, raced')
        /\ timers' \subseteq Row /\ rest' \subseteq Table /\ flushLoop' \in BOOLEAN
    BY <1>1, <1>2, <1>3, <2>1, CoalescerNextTable
  <2>3. CoalescerKept'
    BY <1>1, <2>2 DEF CoalescerKept
  <2> QED
    BY <2>2, <2>3 DEF CoalescerInv
<1>4. CASE ~f.loop
  <2>1. CoalescerKept'
    BY <1>1, <1>2, <1>4 DEF CoalescerKept
  <2> QED
    BY <1>1, <1>4, <2>1 DEF CoalescerInv
<1> QED
  BY <1>3, <1>4

LEMMA CoalescerRefuses ==
  ASSUME CoalescerInv, NEW rs \in SUBSET Row, Coalescer!Refuse(rs), timers' \subseteq timers
  PROVE  CoalescerInv'
<1> DEFINE am == [w \in DOMAIN writes |-> IF \E r \in rs : w \in Items(writesPending[r])
                                          THEN "failed" ELSE writeAnswered[w]]
<1>1. /\ writesPending' = Left(writesPending, rs) /\ writeAnswered' = am
      /\ UNCHANGED <<flights, rest, flushLoop, rows, writes, detached, raced>>
  BY CoalescerNames DEF Coalescer!Refuse
<1>2. Kept(Left(writesPending, rs), flights, rows, writes, am, detached, raced)
  BY KeptRefusing DEF CoalescerInv, CoalescerKept
<1>3. CoalescerKept'
  BY <1>1, <1>2 DEF CoalescerKept
<1> QED
  BY <1>1, <1>3 DEF CoalescerInv

LEMMA CoalescerGoesAll ==
  ASSUME CoalescerInv, Coalescer!FlushAll \/ Coalescer!Shutdown
  PROVE  CoalescerInv'
<1> DEFINE ts == {r[1] : r \in Coalescer!PendingRows}
<1>1. /\ \E armed \in SUBSET Row : Coalescer!NextTable(ts, armed, flights)
      /\ UNCHANGED <<rows, writes, writeAnswered, detached>>
  BY DEF Coalescer!FlushAll, Coalescer!Shutdown, CoalescerInv
<1>2. ts \in SUBSET Table
  BY CoalescerPending DEF Row
<1> HIDE DEF ts
<1>3. Kept(writesPending, flights, rows, writes, writeAnswered, detached, raced)
  BY DEF CoalescerInv, CoalescerKept
<1>4. /\ Kept(writesPending', flights', rows, writes, writeAnswered, detached, raced')
      /\ timers' \subseteq Row /\ rest' \subseteq Table /\ flushLoop' \in BOOLEAN
  BY <1>1, <1>2, <1>3, CoalescerNextTable
<1>5. CoalescerKept'
  BY <1>1, <1>4 DEF CoalescerKept
<1> QED
  BY <1>4, <1>5 DEF CoalescerInv

LEMMA CoalescerStep == ASSUME CoalescerInv, Coalescer!Next PROVE CoalescerInv'
<1>1. ASSUME NEW r \in Row, Coalescer!Write(r) PROVE CoalescerInv'
  BY <1>1, CoalescerWrites
<1>2. ASSUME NEW r \in Row, Coalescer!FlushObject(r) PROVE CoalescerInv'
  BY <1>2, CoalescerFlushes DEF Coalescer!FlushObject
<1>3. ASSUME NEW t \in Table, Coalescer!FlushTable(t) PROVE CoalescerInv'
  BY <1>3, CoalescerFlushes DEF Coalescer!FlushTable
<1>4. ASSUME NEW r \in Row, Coalescer!TimerFindsNothing(r) PROVE CoalescerInv'
  BY <1>4 DEF Coalescer!TimerFindsNothing, CoalescerInv, CoalescerKept
<1>5. CASE Coalescer!FlushAll \/ Coalescer!Shutdown
  BY <1>5, CoalescerGoesAll
<1>6. ASSUME NEW f \in flights, NEW ok \in BOOLEAN, Coalescer!Answer(f, ok) PROVE CoalescerInv'
  BY <1>6, CoalescerAnswers
<1>7. ASSUME NEW r \in Row, Coalescer!Cancel(r) PROVE CoalescerInv'
  <2>1. {r} \in SUBSET Row /\ Coalescer!Refuse({r}) /\ timers' \subseteq timers
    BY <1>7 DEF Coalescer!Cancel
  <2> QED
    BY <2>1, CoalescerRefuses
<1>8. CASE Coalescer!Clear
  <2>1. /\ Coalescer!PendingRows \in SUBSET Row /\ Coalescer!Refuse(Coalescer!PendingRows)
        /\ timers' \subseteq timers
    BY <1>8, CoalescerPending DEF Coalescer!Clear
  <2> QED
    BY <2>1, CoalescerRefuses
<1> QED
  BY <1>1, <1>2, <1>3, <1>4, <1>5, <1>6, <1>7, <1>8, CoalescerNames DEF Coalescer!Next

\* What the invariant says of the properties.
LEMMA CoalescerMeans ==
  ASSUME CoalescerInv
  PROVE  Coalescer!TypeOK /\ Coalescer!NothingForgotten /\ Coalescer!NewestStored
<1>1. Kept(writesPending, flights, rows, writes, writeAnswered, detached, raced)
  BY DEF CoalescerInv, CoalescerKept
<1>2. Coalescer!TypeOK
  BY <1>1, CoalescerNames DEF CoalescerInv, Kept, Call, Coalescer!TypeOK
<1>3. Coalescer!NothingForgotten
  <2> SUFFICES ASSUME NEW w \in DOMAIN writes, writeAnswered[w] = "none", w \notin detached
               PROVE  Coalescer!Carried(w)
    BY DEF Coalescer!NothingForgotten
  <2>1. Carries(writesPending, w) \/ \E f \in flights : Carries(f.entries, w)
    BY <1>1 DEF Kept
  <2>2. CASE Carries(writesPending, w)
    <3>1. PICK r \in Row : w \in Items(writesPending[r])
      BY <1>1, <2>2 DEF Carries, Kept
    <3>2. writesPending[r] # <<>>
      BY <3>1 DEF Items
    <3> QED
      BY <3>1, <3>2, CoalescerNames, CoalescerPending DEF Coalescer!Carried
  <2> QED
    BY <2>1, <2>2, CoalescerNames DEF Coalescer!Carried, Carries
<1>4. Coalescer!NewestStored
  BY <1>1, CoalescerNames DEF Coalescer!NewestStored, Kept, Ordered
<1> QED
  BY <1>2, <1>3, <1>4

-----------------------------------------------------------------------------
(* BatchQueue: its operations, queued, under way and done.                 *)

KindOf(op) == [i \in DOMAIN op |-> op[i].kind]

IsOperations(op) ==
  /\ op \in Seq(Batches!Operation)
  /\ \A i \in DOMAIN op : op[i].kind \in AllKinds /\ op[i].priority \in {1, 3}
  /\ \A i \in DOMAIN op : op[i].kind = "insert" => op[i].row = "none"

\* Of two operations of one priority the older is taken first.
Taking(op, it, fl) ==
  /\ fl \in Seq(DOMAIN op)
  /\ \A i, j : Ahead(fl, i, j) => i # j /\ (op[i].priority = op[j].priority => i < j)
  /\ \A i \in Items(fl), j \in Items(it) : op[i].priority = op[j].priority => i < j

Queued(op, it, fl) ==
  /\ it \in Seq(DOMAIN op)
  /\ \A i, j : Ahead(it, i, j) => i < j
  /\ Items(it) \cap Items(fl) = {}
  /\ Taking(op, it, fl)

Staged(st, j) == \E x \in Items(st) : j \in Items(x.batch)

SameUpdate(op, i, j) == op[i] = op[j] /\ op[i].kind = "update"

\* What was executed, ex, is neither queued nor in a statement to come, and
\* the updates there are to come are younger.
Executed(op, it, st, ex) ==
  /\ ex \in Seq(DOMAIN op)
  /\ \A i \in Items(ex) : i \notin Items(it) /\ ~Staged(st, i)
  /\ \A i \in Items(ex) : \A j : (j \in Items(it) \/ Staged(st, j)) /\ SameUpdate(op, i, j) => i < j
  /\ \A i, j : Ahead(ex, i, j) => i # j /\ (SameUpdate(op, i, j) => i < j)

\* What was answered, an, and the failures fa of the flush under way.
Reported(op, it, fl, st, fa, ex, an) ==
  /\ fa \subseteq AllKinds
  /\ an \in [DOMAIN op -> {"none", "ok", "failed"}]
  /\ \A i \in DOMAIN op : an[i] = "none" <=> i \in Items(it) \cup Items(fl)
  /\ \A i \in DOMAIN op : op[i].kind = "insert" /\ an[i] = "ok" => i \in Items(ex)
  /\ \A i \in Items(fl) : op[i].kind = "insert" => i \in Items(ex) \/ fa # {} \/ Staged(st, i)

BatchKept(op, it, st, fl, fa, ex, an) ==
  /\ IsOperations(op)
  /\ Queued(op, it, fl)
  /\ Divided(KindOf(op), fl, st) /\ (st = <<>> <=> fl = <<>>)
  /\ Executed(op, it, st, ex)
  /\ Reported(op, it, fl, st, fa, ex, an)

LEMMA OperationsAre ==
  /\ \A o \in Batches!Operation :
       o.kind \in AllKinds /\ o.priority \in {1, 3} /\ (o.kind = "insert" => o.row = "none")
  /\ Batches!Normal = 1 /\ Batches!Critical = 3 /\ Batches!NoKey = "none"
BY DEF Batches!Operation, Batches!Normal, Batches!Critical, Batches!NoKey, AllKinds

\* The items of an array in which something more is known of an item, or less
\* taken from the statements that are left, are divided as before.
LEMMA DividedStays ==
  ASSUME NEW kd, NEW ke, NEW q, NEW js, Divided(kd, q, js),
         \A i \in Items(q) : ke[i] = kd[i]
  PROVE  Divided(ke, q, js)
<1> DEFINE R == [kind : AllKinds, batch : Seq(Items(q))]
<1>1. js \in Seq(R)
  BY DEF Divided
<1>2. ASSUME NEW x \in Items(js) PROVE Items(x.batch) \subseteq Items(q)
  <2>1. x \in R
    BY <1>1, ItemsOf
  <2>2. x.batch \in Seq(Items(q))
    BY <2>1
  <2> QED
    BY <2>2, ItemsOf
<1> QED
  BY <1>2 DEF Divided

LEMMA StagedIsIn ==
  ASSUME NEW kd, NEW q, NEW js, Divided(kd, q, js)
  PROVE  \A i : Staged(js, i) => i \in Items(q)
<1>1. js \in Seq([kind : AllKinds, batch : Seq(Items(q))])
  BY DEF Divided
<1>2. ASSUME NEW x \in Items(js) PROVE Items(x.batch) \subseteq Items(q)
  <2>1. x \in [kind : AllKinds, batch : Seq(Items(q))]
    BY <1>1, ItemsOf
  <2>2. x.batch \in Seq(Items(q))
    BY <2>1
  <2> QED
    BY <2>2, ItemsOf
<1> QED
  BY <1>2 DEF Staged

LEMMA DividedTail ==
  ASSUME NEW kd, NEW q, NEW js, Divided(kd, q, js), js # <<>>
  PROVE  /\ Divided(kd, q, Tail(js))
         /\ js[1].kind \in AllKinds /\ js[1].batch \in Seq(Items(q))
         /\ \A i \in Items(js[1].batch) : kd[i] = js[1].kind
         /\ \A i, j : Ahead(js[1].batch, i, j) => Ahead(q, i, j)
         /\ \A i : Staged(js, i) <=> i \in Items(js[1].batch) \/ Staged(Tail(js), i)
         /\ \A i \in Items(js[1].batch) : ~Staged(Tail(js), i)
         /\ \A i : Staged(Tail(js), i) /\ kd[i] = js[1].kind => kd[i] = "delete"
         /\ \A i : Staged(Tail(js), i) => i \in Items(q)
<1> DEFINE R == [kind : AllKinds, batch : Seq(Items(q))]
<1>1. js \in Seq(R)
  BY DEF Divided
<1>2. /\ js[1] \in R /\ Tail(js) \in Seq(R)
      /\ Items(js) = {js[1]} \cup Items(Tail(js))
      /\ \A i, j : Ahead(js, i, j) <=> Ahead(Tail(js), i, j) \/ (i = js[1] /\ j \in Items(Tail(js)))
  BY <1>1, ItemsOfTail
<1>3. js[1].kind \in AllKinds /\ js[1].batch \in Seq(Items(q))
  BY <1>2
<1>5. Divided(kd, q, Tail(js))
  BY <1>2 DEF Divided
<1>6. \A y \in Items(Tail(js)) : Items(js[1].batch) \cap Items(y.batch) = {}
        /\ (js[1].kind = y.kind => y.kind = "delete") /\ \A i \in Items(y.batch) : kd[i] = y.kind
  BY <1>2 DEF Divided
<1>7. \A i : Staged(Tail(js), i) => i \in Items(q)
  BY <1>5, StagedIsIn
<1> QED
  BY <1>2, <1>3, <1>5, <1>6, <1>7 DEF Divided, Staged

\* Nothing is staged when nothing is under way.
LEMMA NothingStaged == \A i : ~Staged(<<>>, i)
BY NoItems DEF Staged

\* An operation is queued.
LEMMA KeptQueueing ==
  ASSUME NEW op, NEW it, NEW st, NEW fl, NEW fa, NEW ex, NEW an,
         BatchKept(op, it, st, fl, fa, ex, an), NEW o \in Batches!Operation
  PROVE  BatchKept(Append(op, o), Append(it, Len(op) + 1), st, fl, fa, ex, Append(an, "none"))
<1> DEFINE n == Len(op) + 1
           oq == Append(op, o)
           iq == Append(it, n)
           aq == Append(an, "none")
<1>1. /\ op \in Seq(Batches!Operation) /\ DOMAIN op = 1 .. Len(op) /\ Len(op) \in Nat
      /\ it \in Seq(DOMAIN op) /\ fl \in Seq(DOMAIN op) /\ ex \in Seq(DOMAIN op)
      /\ an \in [DOMAIN op -> {"none", "ok", "failed"}]
  BY DEF BatchKept, IsOperations, Queued, Taking, Executed, Reported
<1>2. /\ oq \in Seq(Batches!Operation) /\ DOMAIN oq = (DOMAIN op) \cup {n} /\ n \notin DOMAIN op
      /\ oq[n] = o /\ \A i \in DOMAIN op : oq[i] = op[i] /\ i < n /\ i \in Nat
  BY <1>1
<1>3. Answered(an, Len(op), aq)
  BY <1>1, MoreAnswers DEF Replies
<1>4. /\ aq \in [DOMAIN oq -> {"none", "ok", "failed"}]
      /\ aq[n] = "none" /\ \A i \in DOMAIN op : aq[i] = an[i]
  <2>1. DOMAIN oq = 1 .. Len(op) + 1
    BY <1>1
  <2> QED
    BY <1>1, <1>3, <2>1 DEF Answered, Replies
<1> HIDE DEF n, oq, iq, aq
<1>5. /\ Items(it) \subseteq DOMAIN op /\ Items(fl) \subseteq DOMAIN op /\ Items(ex) \subseteq DOMAIN op
      /\ \A i, j : Ahead(fl, i, j) => i \in Items(fl) /\ j \in Items(fl)
      /\ \A i, j : Ahead(ex, i, j) => i \in Items(ex) /\ j \in Items(ex)
  BY <1>1, ItemsOf
<1>6. /\ it \in Seq(DOMAIN oq) /\ fl \in Seq(DOMAIN oq) /\ ex \in Seq(DOMAIN oq)
  BY <1>1, <1>2, SeqMonotonic
<1>7. /\ Append(it, n) \in Seq(DOMAIN oq)
      /\ Items(Append(it, n)) = Items(it) \cup {n}
      /\ \A i, j : Ahead(Append(it, n), i, j) <=> Ahead(it, i, j) \/ (i \in Items(it) /\ j = n)
  <2>1. n \in DOMAIN oq
    BY <1>2
  <2> QED
    BY <1>6, <2>1, ItemsOfAppend
<1>8. /\ iq \in Seq(DOMAIN oq) /\ Items(iq) = Items(it) \cup {n}
      /\ \A i, j : Ahead(iq, i, j) <=> Ahead(it, i, j) \/ (i \in Items(it) /\ j = n)
  BY <1>7 DEF iq
<1>9. IsOperations(oq)
  BY <1>2, OperationsAre DEF BatchKept, IsOperations
<1>10. Queued(oq, iq, fl)
  BY <1>1, <1>2, <1>5, <1>6, <1>8 DEF BatchKept, Queued, Taking
<1>11. Divided(KindOf(oq), fl, st) /\ (st = <<>> <=> fl = <<>>)
  <2>1. \A i \in Items(fl) : KindOf(oq)[i] = KindOf(op)[i]
    BY <1>2, <1>5 DEF KindOf
  <2> QED
    BY <2>1, DividedStays DEF BatchKept
<1>12. \A j : Staged(st, j) => j \in Items(fl)
  BY StagedIsIn DEF BatchKept
<1>13. Executed(oq, iq, st, ex)
  <2>1. \A i \in Items(ex) : i \notin Items(iq) /\ ~Staged(st, i)
    BY <1>2, <1>5, <1>8 DEF BatchKept, Executed
  <2>2. ASSUME NEW i \in Items(ex), NEW j, j \in Items(iq) \/ Staged(st, j), SameUpdate(oq, i, j)
        PROVE  i < j
    <3>1. CASE j = n
      BY <1>2, <1>5, <3>1
    <3>2. CASE j # n
      <4>1. j \in DOMAIN op /\ i \in DOMAIN op /\ (j \in Items(it) \/ Staged(st, j))
        BY <1>5, <1>8, <1>12, <2>2, <3>2
      <4>2. SameUpdate(op, i, j)
        BY <1>2, <2>2, <4>1 DEF SameUpdate
      <4> QED
        BY <4>1, <4>2 DEF BatchKept, Executed
    <3> QED
      BY <3>1, <3>2
  <2>3. ASSUME NEW i, NEW j, Ahead(ex, i, j)
        PROVE  i # j /\ (SameUpdate(oq, i, j) => i < j)
    <3>1. i \in DOMAIN op /\ j \in DOMAIN op
      BY <1>5, <2>3
    <3>2. SameUpdate(oq, i, j) <=> SameUpdate(op, i, j)
      BY <1>2, <3>1 DEF SameUpdate
    <3> QED
      BY <2>3, <3>2 DEF BatchKept, Executed
  <2> QED
    BY <1>6, <2>1, <2>2, <2>3 DEF Executed
<1>14. Reported(oq, iq, fl, st, fa, ex, aq)
  <2>1. \A i \in DOMAIN oq : aq[i] = "none" <=> i \in Items(iq) \cup Items(fl)
    BY <1>2, <1>4, <1>5, <1>8 DEF BatchKept, Reported
  <2>2. \A i \in DOMAIN oq : oq[i].kind = "insert" /\ aq[i] = "ok" => i \in Items(ex)
    BY <1>2, <1>4 DEF BatchKept, Reported
  <2>3. \A i \in Items(fl) : oq[i].kind = "insert" => i \in Items(ex) \/ fa # {} \/ Staged(st, i)
    BY <1>2, <1>5 DEF BatchKept, Reported
  <2> QED
    BY <1>4, <2>1, <2>2, <2>3 DEF BatchKept, Reported
<1>15. BatchKept(oq, iq, st, fl, fa, ex, aq)
  BY <1>9, <1>10, <1>11, <1>13, <1>14 DEF BatchKept
<1> QED
  BY <1>15 DEF oq, iq, aq, n

\* What a flush of the items ch takes of the items it queued.
Fits(op, it, ch) ==
  /\ ch \in Seq(Items(it)) /\ ch # <<>>
  /\ \A i, j : Ahead(ch, i, j) => i # j /\ (op[i].priority = op[j].priority => i < j)
  /\ \A i \in Items(ch), j \in Items(it) \ Items(ch) : op[i].priority = op[j].priority => i < j

LEMMA KeptStarting ==
  ASSUME NEW op, NEW it, NEW fa, NEW ex, NEW an,
         BatchKept(op, it, <<>>, <<>>, fa, ex, an), NEW ch, Fits(op, it, ch)
  PROVE  BatchKept(op, Among(it, Items(it) \ Items(ch)), Statements(KindOf(op), ch), ch, {}, ex, an)
<1> DEFINE left == Among(it, Items(it) \ Items(ch))
           st == Statements(KindOf(op), ch)
<1>1. /\ it \in Seq(DOMAIN op) /\ ch \in Seq(Items(it))
      /\ Items(it) \subseteq DOMAIN op /\ Items(ch) \subseteq Items(it)
  BY ItemsOf DEF BatchKept, Queued, Fits
<1>2. ch \in Seq(DOMAIN op)
  BY <1>1, SeqMonotonic
<1>3. /\ left \in Seq(DOMAIN op) /\ Items(left) = Items(it) \ Items(ch)
      /\ \A i, j : Ahead(left, i, j) => Ahead(it, i, j)
  <2>1. /\ left \in Seq(DOMAIN op) /\ Items(left) = Items(it) \cap (Items(it) \ Items(ch))
        /\ \A i, j : Ahead(left, i, j) => Ahead(it, i, j)
    BY <1>1, ItemsOfAmong
  <2> QED
    BY <2>1
<1>4. /\ Divided(KindOf(op), ch, st)
      /\ \A i \in Items(ch) : Staged(st, i)
      /\ st # <<>>
  <2>1. \A i \in Items(ch) : KindOf(op)[i] \in AllKinds
    BY <1>1 DEF BatchKept, IsOperations, KindOf
  <2>2. \A i : ~Ahead(ch, i, i)
    BY DEF Fits
  <2>3. ch # <<>>
    BY DEF Fits
  <2> QED
    BY <1>1, <2>1, <2>2, <2>3, StatementsAre DEF Staged
<1>5. \A i : Staged(st, i) => i \in Items(ch)
  BY <1>4, StagedIsIn
<1> HIDE DEF left, st
<1>6. Queued(op, left, ch)
  BY <1>2, <1>3 DEF BatchKept, Queued, Taking, Fits
<1>7. Executed(op, left, st, ex)
  <2>1. Executed(op, it, <<>>, ex)
    BY DEF BatchKept
  <2>2. \A j : j \in Items(left) \/ Staged(st, j) => j \in Items(it)
    BY <1>1, <1>3, <1>5
  <2> QED
    BY <2>1, <2>2 DEF Executed
<1>8. Reported(op, left, ch, st, {}, ex, an)
  <2>1. Reported(op, it, <<>>, <<>>, fa, ex, an)
    BY DEF BatchKept
  <2>2. Items(left) \cup Items(ch) = Items(it) \cup Items(<<>>)
    BY <1>1, <1>3, NoItems
  <2> QED
    BY <1>4, <2>1, <2>2 DEF Reported
<1>9. BatchKept(op, left, st, ch, {}, ex, an)
  BY <1>4, <1>6, <1>7, <1>8 DEF BatchKept, Fits
<1> QED
  BY <1>9 DEF left, st

\* A statement of the flush settles: what it executed, eff, and the statements
\* that are left.
LEMMA KeptExecuting ==
  ASSUME NEW op, NEW it, NEW st, NEW fl, NEW fa, NEW ex, NEW an,
         BatchKept(op, it, st, fl, fa, ex, an), st # <<>>,
         NEW eff \in Seq(Items(st[1].batch)),
         \A i, j : Ahead(eff, i, j) => Ahead(st[1].batch, i, j)
  PROVE  Executed(op, it, Tail(st), ex \o eff)
<1>1. /\ st[1].batch \in Seq(Items(fl))
      /\ \A i \in Items(st[1].batch) : KindOf(op)[i] = st[1].kind
      /\ \A i, j : Ahead(st[1].batch, i, j) => Ahead(fl, i, j)
      /\ \A i : Staged(st, i) <=> i \in Items(st[1].batch) \/ Staged(Tail(st), i)
      /\ \A i \in Items(st[1].batch) : ~Staged(Tail(st), i)
      /\ \A i : Staged(Tail(st), i) /\ KindOf(op)[i] = st[1].kind => KindOf(op)[i] = "delete"
      /\ \A i : Staged(Tail(st), i) => i \in Items(fl)
  BY DividedTail DEF BatchKept
<1>2. /\ fl \in Seq(DOMAIN op) /\ it \in Seq(DOMAIN op)
      /\ \A i, j : Ahead(fl, i, j) => i # j /\ (op[i].priority = op[j].priority => i < j)
      /\ \A i \in Items(fl), j \in Items(it) : op[i].priority = op[j].priority => i < j
      /\ Items(it) \cap Items(fl) = {}
  BY DEF BatchKept, Queued, Taking
<1>3. /\ Items(fl) \subseteq DOMAIN op /\ Items(it) \subseteq DOMAIN op
      /\ Items(eff) \subseteq Items(st[1].batch) /\ Items(st[1].batch) \subseteq Items(fl)
  BY <1>1, <1>2, ItemsOf
<1>4. Executed(op, it, st, ex)
  BY DEF BatchKept
<1>5. eff \in Seq(DOMAIN op) /\ ex \in Seq(DOMAIN op)
  <2>1. Items(st[1].batch) \subseteq DOMAIN op
    BY <1>3
  <2> QED
    BY <1>4, <2>1, SeqMonotonic DEF Executed
<1>6. /\ ex \o eff \in Seq(DOMAIN op) /\ Items(ex \o eff) = Items(ex) \cup Items(eff)
      /\ \A i, j : Ahead(ex \o eff, i, j) <=>
           Ahead(ex, i, j) \/ Ahead(eff, i, j) \/ (i \in Items(ex) /\ j \in Items(eff))
  BY <1>5, ItemsOfCat
<1>7. \A i \in DOMAIN op : KindOf(op)[i] = op[i].kind
  BY DEF KindOf
<1>8. \A i \in Items(ex \o eff) : i \notin Items(it) /\ ~Staged(Tail(st), i)
  BY <1>1, <1>2, <1>3, <1>4, <1>6 DEF Executed
<1>9. ASSUME NEW i \in Items(ex \o eff), NEW j, j \in Items(it) \/ Staged(Tail(st), j),
             SameUpdate(op, i, j)
      PROVE  i < j
  <2>1. CASE i \in Items(ex)
    BY <1>1, <1>4, <1>9, <2>1 DEF Executed
  <2>2. CASE i \in Items(eff) /\ j \in Items(it)
    BY <1>2, <1>3, <1>9, <2>2 DEF SameUpdate
  <2>3. CASE i \in Items(eff) /\ Staged(Tail(st), j)
    <3>1. KindOf(op)[i] = st[1].kind /\ i \in DOMAIN op /\ j \in DOMAIN op
      BY <1>1, <1>3, <2>3
    <3>2. KindOf(op)[j] = "update" /\ KindOf(op)[i] = "update"
      BY <1>7, <1>9, <3>1 DEF SameUpdate
    <3> QED
      BY <1>1, <2>3, <3>1, <3>2
  <2> QED
    BY <1>6, <1>9, <2>1, <2>2, <2>3
<1>10. ASSUME NEW i, NEW j, Ahead(ex \o eff, i, j)
       PROVE  i # j /\ (SameUpdate(op, i, j) => i < j)
  <2>1. CASE Ahead(ex, i, j)
    BY <1>4, <2>1 DEF Executed
  <2>2. CASE Ahead(eff, i, j)
    BY <1>1, <1>2, <2>2 DEF SameUpdate
  <2>3. CASE i \in Items(ex) /\ j \in Items(eff)
    <3>1. Staged(st, j)
      BY <1>1, <1>3, <2>3
    <3> QED
      BY <1>4, <2>3, <3>1 DEF Executed
  <2> QED
    BY <1>6, <1>10, <2>1, <2>2, <2>3
<1> QED
  BY <1>6, <1>8, <1>9, <1>10 DEF Executed

\* A flush that goes on after a statement, one that is over, and what its
\* callbacks are then told.
LEMMA KeptGoingOn ==
  ASSUME NEW op, NEW it, NEW st, NEW fl, NEW fa, NEW ex, NEW an,
         BatchKept(op, it, st, fl, fa, ex, an), st # <<>>, Tail(st) # <<>>,
         NEW ok \in BOOLEAN, NEW eff \in Seq(Items(st[1].batch)),
         \A i, j : Ahead(eff, i, j) => Ahead(st[1].batch, i, j),
         st[1].kind = "insert" => eff = st[1].batch
  PROVE  BatchKept(op, it, Tail(st), fl, IF ok THEN fa ELSE fa \cup {st[1].kind},
                   IF ok THEN ex \o eff ELSE ex, an)
<1> DEFINE failed == IF ok THEN fa ELSE fa \cup {st[1].kind}
           exq == IF ok THEN ex \o eff ELSE ex
<1>1. /\ Divided(KindOf(op), fl, Tail(st)) /\ st[1].kind \in AllKinds
      /\ st[1].batch \in Seq(Items(fl))
      /\ \A i \in Items(st[1].batch) : KindOf(op)[i] = st[1].kind
      /\ \A i : Staged(st, i) <=> i \in Items(st[1].batch) \/ Staged(Tail(st), i)
  BY DividedTail DEF BatchKept
<1>2. /\ Executed(op, it, Tail(st), ex \o eff) /\ Executed(op, it, st, ex)
      /\ Reported(op, it, fl, st, fa, ex, an)
  BY KeptExecuting DEF BatchKept
<1>3. /\ Items(fl) \subseteq DOMAIN op /\ Items(st[1].batch) \subseteq Items(fl)
      /\ Items(eff) \subseteq Items(st[1].batch)
  BY <1>1, ItemsOf DEF BatchKept, Queued, Taking
<1>4. Items(ex \o eff) = Items(ex) \cup Items(eff)
  <2>1. eff \in Seq(DOMAIN op) /\ ex \in Seq(DOMAIN op)
    BY <1>2, <1>3, SeqMonotonic DEF Executed
  <2> QED
    BY <2>1, ItemsOfCat
<1>5. Executed(op, it, Tail(st), exq)
  BY <1>1, <1>2 DEF Executed
<1>6. Items(ex) \subseteq Items(exq) /\ (ok => Items(exq) = Items(ex) \cup Items(eff))
  BY <1>4
<1> HIDE DEF exq
<1>7. ASSUME NEW i \in Items(fl), op[i].kind = "insert"
      PROVE  i \in Items(exq) \/ failed # {} \/ Staged(Tail(st), i)
  <2>1. i \in Items(ex) \/ fa # {} \/ Staged(st, i)
    BY <1>2, <1>7 DEF Reported
  <2>2. CASE i \in Items(st[1].batch) /\ ok
    <3>1. KindOf(op)[i] = "insert"
      BY <1>3, <1>7 DEF KindOf
    <3>2. eff = st[1].batch
      BY <1>1, <2>2, <3>1
    <3> QED
      BY <1>6, <2>2, <3>2
  <2>3. CASE ~ok
    BY <2>3
  <2> QED
    BY <1>1, <1>6, <2>1, <2>2, <2>3
<1>8. failed \subseteq AllKinds
  BY <1>1, <1>2 DEF Reported
<1>9. Reported(op, it, fl, Tail(st), failed, exq, an)
  BY <1>2, <1>6, <1>7, <1>8 DEF Reported
<1>10. fl # <<>>
  BY DEF BatchKept
<1>11. BatchKept(op, it, Tail(st), fl, failed, exq, an)
  BY <1>1, <1>5, <1>9, <1>10 DEF BatchKept
<1> QED
  BY <1>11 DEF exq

\* What the callbacks of the items is are told, when how[i] is told of item i.
Reply(op, is, how, an) == [i \in DOMAIN op |-> IF i \in is THEN how[i] ELSE an[i]]

LEMMA KeptEnding ==
  ASSUME NEW op, NEW it, NEW st, NEW fl, NEW fa, NEW ex, NEW an,
         BatchKept(op, it, st, fl, fa, ex, an), st # <<>>,
         NEW ok \in BOOLEAN, NEW eff \in Seq(Items(st[1].batch)),
         \A i, j : Ahead(eff, i, j) => Ahead(st[1].batch, i, j),
         st[1].kind = "insert" => eff = st[1].batch,
         ok => Tail(st) = <<>>,
         NEW how \in [DOMAIN op -> {"ok", "failed"}],
         \A i \in DOMAIN op : op[i].kind = "insert" /\ how[i] = "ok" => ok /\ fa = {}
  PROVE  BatchKept(op, it, <<>>, <<>>, {}, IF ok THEN ex \o eff ELSE ex, Reply(op, Items(fl), how, an))
<1> DEFINE exq == IF ok THEN ex \o eff ELSE ex
           anq == Reply(op, Items(fl), how, an)
<1>1. /\ Divided(KindOf(op), fl, Tail(st)) /\ st[1].kind \in AllKinds
      /\ st[1].batch \in Seq(Items(fl))
      /\ \A i \in Items(st[1].batch) : KindOf(op)[i] = st[1].kind
      /\ \A i : Staged(st, i) <=> i \in Items(st[1].batch) \/ Staged(Tail(st), i)
  BY DividedTail DEF BatchKept
<1>2. /\ Executed(op, it, Tail(st), ex \o eff) /\ Executed(op, it, st, ex)
      /\ Reported(op, it, fl, st, fa, ex, an)
  BY KeptExecuting DEF BatchKept
<1>3. /\ Items(fl) \subseteq DOMAIN op /\ Items(st[1].batch) \subseteq Items(fl)
      /\ Items(eff) \subseteq Items(st[1].batch)
  BY <1>1, ItemsOf DEF BatchKept, Queued, Taking
<1>4. Items(ex \o eff) = Items(ex) \cup Items(eff)
  <2>1. eff \in Seq(DOMAIN op) /\ ex \in Seq(DOMAIN op)
    BY <1>2, <1>3, SeqMonotonic DEF Executed
  <2> QED
    BY <2>1, ItemsOfCat
<1>5. Executed(op, it, <<>>, exq)
  BY <1>2, NothingStaged DEF Executed
<1>6. Items(ex) \subseteq Items(exq) /\ (ok => Items(exq) = Items(ex) \cup Items(eff))
  BY <1>4
<1>7. /\ anq \in [DOMAIN op -> {"none", "ok", "failed"}]
      /\ \A i \in DOMAIN op : anq[i] = IF i \in Items(fl) THEN how[i] ELSE an[i]
  BY <1>2 DEF Reply, Reported
<1> HIDE DEF exq, anq
<1>8. ASSUME NEW i \in DOMAIN op, op[i].kind = "insert", anq[i] = "ok"
      PROVE  i \in Items(exq)
  <2>1. CASE i \in Items(fl)
    <3>1. ok /\ fa = {} /\ ~Staged(Tail(st), i)
      BY <1>7, <1>8, <2>1, NothingStaged
    <3>2. i \in Items(ex) \/ i \in Items(st[1].batch)
      BY <1>1, <1>2, <1>8, <2>1, <3>1 DEF Reported
    <3>3. CASE i \in Items(st[1].batch)
      <4>1. KindOf(op)[i] = "insert"
        BY <1>8 DEF KindOf
      <4>2. eff = st[1].batch
        BY <1>1, <3>3, <4>1
      <4> QED
        BY <1>6, <3>1, <3>3, <4>2
    <3> QED
      BY <1>6, <3>2, <3>3
  <2>2. CASE i \notin Items(fl)
    BY <1>2, <1>6, <1>7, <1>8, <2>2 DEF Reported
  <2> QED
    BY <2>1, <2>2
<1>9. Reported(op, it, <<>>, <<>>, {}, exq, anq)
  <2>1. ASSUME NEW i \in DOMAIN op
        PROVE  anq[i] = "none" <=> i \in Items(it)
    <3>1. i \in Items(fl) => i \notin Items(it) /\ anq[i] # "none"
      BY <1>7 DEF BatchKept, Queued
    <3> QED
      BY <1>2, <1>7, <3>1 DEF Reported
  <2> QED
    BY <1>7, <1>8, <2>1, NoItems DEF Reported
<1>10. Divided(KindOf(op), <<>>, <<>>)
  <2>1. <<>> \in Seq([kind : AllKinds, batch : Seq(Items(<<>>))])
    OBVIOUS
  <2> QED
    BY <2>1, NoItems DEF Divided
<1>11. Queued(op, it, <<>>)
  <2>1. <<>> \in Seq(DOMAIN op)
    OBVIOUS
  <2> QED
    BY <2>1, NoItems DEF BatchKept, Queued, Taking
<1>12. BatchKept(op, it, <<>>, <<>>, {}, exq, anq)
  BY <1>5, <1>9, <1>10, <1>11 DEF BatchKept
<1> QED
  BY <1>12 DEF exq, anq

\* The queued items are dropped and told so.
LEMMA KeptClearing ==
  ASSUME NEW op, NEW it, NEW st, NEW fl, NEW fa, NEW ex, NEW an,
         BatchKept(op, it, st, fl, fa, ex, an)
  PROVE  BatchKept(op, <<>>, st, fl, fa, ex,
                   Reply(op, Items(it), [i \in DOMAIN op |-> "failed"], an))
<1> DEFINE how == [i \in DOMAIN op |-> "failed"]
           anq == Reply(op, Items(it), how, an)
<1>1. /\ anq \in [DOMAIN op -> {"none", "ok", "failed"}]
      /\ \A i \in DOMAIN op : anq[i] = IF i \in Items(it) THEN "failed" ELSE an[i]
  BY DEF Reply, BatchKept, Reported
<1> HIDE DEF anq
<1>2. Queued(op, <<>>, fl)
  <2>1. <<>> \in Seq(DOMAIN op)
    OBVIOUS
  <2> QED
    BY <2>1, NoItems DEF BatchKept, Queued, Taking
<1>3. Executed(op, <<>>, st, ex)
  BY NoItems DEF BatchKept, Executed
<1>4. Reported(op, <<>>, fl, st, fa, ex, anq)
  <2>1. Items(it) \cap Items(fl) = {}
    BY DEF BatchKept, Queued
  <2> QED
    BY <1>1, <2>1, NoItems DEF BatchKept, Reported
<1>5. BatchKept(op, <<>>, st, fl, fa, ex, anq)
  BY <1>2, <1>3, <1>4 DEF BatchKept
<1> QED
  BY <1>5 DEF anq

-----------------------------------------------------------------------------
(* BatchQueue: what a flush takes.                                         *)

OfPriorityIn(op, q, p) == Among(q, {i \in Items(q) : op[i].priority = p})

SortedIn(op, q) == OfPriorityIn(op, q, 3) \o OfPriorityIn(op, q, 1)

\* All the items of q of some priorities, the older first within each.
Wanted(op, q, w) ==
  /\ w \in Seq(Items(q))
  /\ \A i, j : Ahead(w, i, j) => i # j /\ (op[i].priority = op[j].priority => i < j)
  /\ \A i \in Items(w), j \in Items(q) : op[i].priority = op[j].priority => j \in Items(w)

LEMMA WantedOfPriority ==
  ASSUME NEW S, NEW q \in Seq(S), NEW op, NEW p,
         \A i, j : Ahead(q, i, j) => i < j /\ i # j
  PROVE  /\ Wanted(op, q, OfPriorityIn(op, q, p))
         /\ Items(OfPriorityIn(op, q, p)) = {i \in Items(q) : op[i].priority = p}
<1> DEFINE is == {i \in Items(q) : op[i].priority = p}
<1>1. q \in Seq(Items(q))
  BY ItemsOf
<1>2. /\ Among(q, is) \in Seq(Items(q)) /\ Items(Among(q, is)) = Items(q) \cap is
      /\ \A i, j : Ahead(Among(q, is), i, j) <=> Ahead(q, i, j) /\ i \in is /\ j \in is
  BY <1>1, ItemsOfAmong
<1>3. Among(q, is) = OfPriorityIn(op, q, p)
  BY DEF OfPriorityIn
<1> QED
  BY <1>2, <1>3 DEF Wanted

LEMMA WantedSorted ==
  ASSUME NEW S, NEW q \in Seq(S), NEW op, \A i \in Items(q) : op[i].priority \in {1, 3},
         \A i, j : Ahead(q, i, j) => i < j /\ i # j
  PROVE  Wanted(op, q, SortedIn(op, q)) /\ Items(SortedIn(op, q)) = Items(q)
<1> DEFINE a == OfPriorityIn(op, q, 3)
           b == OfPriorityIn(op, q, 1)
<1>1. /\ Wanted(op, q, a) /\ Items(a) = {i \in Items(q) : op[i].priority = 3}
      /\ Wanted(op, q, b) /\ Items(b) = {i \in Items(q) : op[i].priority = 1}
  BY WantedOfPriority
<1> HIDE DEF a, b
<1>2. /\ a \o b \in Seq(Items(q)) /\ Items(a \o b) = Items(a) \cup Items(b)
      /\ \A i, j : Ahead(a \o b, i, j) <=>
           Ahead(a, i, j) \/ Ahead(b, i, j) \/ (i \in Items(a) /\ j \in Items(b))
  <2>1. a \in Seq(Items(q)) /\ b \in Seq(Items(q))
    BY <1>1 DEF Wanted
  <2> QED
    BY <2>1, ItemsOfCat
<1>3. Items(a \o b) = Items(q)
  BY <1>1, <1>2
<1>4. \A i \in Items(a), j \in Items(b) : op[i].priority # op[j].priority
  <2>1. 3 # 1
    OBVIOUS
  <2> QED
    BY <1>1, <2>1
<1>5. \A i, j : Ahead(a \o b, i, j) => i # j /\ (op[i].priority = op[j].priority => i < j)
  BY <1>1, <1>2, <1>4 DEF Wanted
<1>6. Wanted(op, q, a \o b)
  BY <1>2, <1>3, <1>5 DEF Wanted
<1> QED
  BY <1>3, <1>6 DEF SortedIn, a, b

LEMMA WantedAmong ==
  ASSUME NEW op, NEW q, NEW w, Wanted(op, q, w), NEW ps
  PROVE  Wanted(op, q, Among(w, {i \in Items(q) : op[i].priority \in ps}))
<1> DEFINE is == {i \in Items(q) : op[i].priority \in ps}
<1>1. /\ Among(w, is) \in Seq(Items(q)) /\ Items(Among(w, is)) = Items(w) \cap is
      /\ \A i, j : Ahead(Among(w, is), i, j) <=> Ahead(w, i, j) /\ i \in is /\ j \in is
  BY ItemsOfAmong DEF Wanted
<1> QED
  BY <1>1 DEF Wanted

LEMMA WantedFits ==
  ASSUME NEW op, NEW q, NEW w, Wanted(op, q, w), w # <<>>
  PROVE  Fits(op, q, w)
BY DEF Wanted, Fits

LEMMA WantedFirstFits ==
  ASSUME NEW op, NEW q, NEW w, Wanted(op, q, w), NEW n \in Nat, Batches!TakeFirst(w, n) # <<>>
  PROVE  Fits(op, q, Batches!TakeFirst(w, n))
<1> DEFINE m == IF n < Len(w) THEN n ELSE Len(w)
           a == SubSeq(w, 1, m)
           b == SubSeq(w, m + 1, Len(w))
<1>1. w \in Seq(Items(q))
  BY DEF Wanted
<1>2. m \in 0 .. Len(w)
  BY <1>1
<1>3. a = Batches!TakeFirst(w, n)
  BY DEF Batches!TakeFirst
<1> HIDE DEF m
<1>4. /\ a \in Seq(Items(q)) /\ b \in Seq(Items(q)) /\ Items(w) = Items(a) \cup Items(b)
      /\ \A i, j : Ahead(w, i, j) <=>
           Ahead(a, i, j) \/ Ahead(b, i, j) \/ (i \in Items(a) /\ j \in Items(b))
  BY <1>1, <1>2, SplitAt
<1> HIDE DEF a, b
<1>5. ASSUME NEW i \in Items(a), NEW j \in Items(q) \ Items(a), op[i].priority = op[j].priority
      PROVE  i < j
  <2>1. j \in Items(b)
    BY <1>4, <1>5 DEF Wanted
  <2>2. Ahead(w, i, j)
    BY <1>4, <2>1
  <2> QED
    BY <1>5, <2>2 DEF Wanted
<1>6. Fits(op, q, a)
  BY <1>3, <1>4, <1>5 DEF Fits, Wanted
<1> QED
  BY <1>3, <1>6

-----------------------------------------------------------------------------
(* BatchQueue: its steps.                                                  *)

BatchInv ==
  /\ BatchKept(ops, items, stages, flushing, failures, executed, opAnswered)
  /\ autoFlush \in BOOLEAN

LEMMA BatchNames ==
  /\ \A q : Batches!Items(q) = Items(q)
  /\ \A q, is : Batches!Among(q, is) = Among(q, is)
  /\ \A T : Batches!Cardinality(T) = Cardinality(T)
<1>1. \A q : Batches!Items(q) = Items(q)
  BY DEF Batches!Items, Items
<1>2. \A q, is : Batches!Among(q, is) = Among(q, is)
  BY DEF Batches!Among, Among
<1>3. \A T : Batches!Cardinality(T) = Cardinality(T)
  BY DEF Batches!Cardinality, Cardinality, Batches!IsFiniteSet, IsFiniteSet
<1> QED
  BY <1>1, <1>2, <1>3

LEMMA BatchStages ==
  ASSUME NEW q \in Seq(DOMAIN ops')
  PROVE  Batches!StagesOf(q) = Statements(KindOf(ops'), q)
<1>1. ASSUME NEW kind
      PROVE  Batches!OfKind(q, kind) = Chosen(KindOf(ops'), q, kind)
  <2>1. {i \in Items(q) : ops'[i].kind = kind} = {i \in Items(q) : KindOf(ops')[i] = kind}
    BY ItemsOf DEF KindOf
  <2> QED
    BY <2>1, BatchNames DEF Batches!OfKind, Chosen
<1>2. /\ Batches!OfKind(q, "insert") = Chosen(KindOf(ops'), q, "insert")
      /\ Batches!OfKind(q, "update") = Chosen(KindOf(ops'), q, "update")
      /\ Batches!OfKind(q, "delete") = Chosen(KindOf(ops'), q, "delete")
  BY <1>1
<1> HIDE <1>1
<1> QED
  BY <1>2, Zenon DEF Batches!StagesOf, Statements, Together, Apart

LEMMA BatchPriorities ==
  /\ \A q, p : Batches!OfPriority(q, p) = OfPriorityIn(ops', q, p)
  /\ \A q : Batches!ByPriority(q) = SortedIn(ops', q)
  /\ Batches!Critical = 3
<1>1. \A q, p : Batches!OfPriority(q, p) = OfPriorityIn(ops', q, p)
  BY BatchNames DEF Batches!OfPriority, OfPriorityIn
<1> QED
  BY <1>1, OperationsAre DEF Batches!ByPriority, SortedIn

LEMMA BatchStarts ==
  ASSUME NEW q, NEW an,
         BatchKept(ops', q, stages, flushing, failures, executed, an),
         NEW ch, Batches!StartFlush(q, ch), ch # <<>> => Fits(ops', q, ch)
  PROVE  BatchKept(ops', items', stages', flushing', failures', executed, an)
<1>1. CASE flushing # <<>> \/ ch = <<>>
  BY <1>1 DEF Batches!StartFlush
<1>2. CASE flushing = <<>> /\ ch # <<>>
  <2>1. stages = <<>> /\ Fits(ops', q, ch)
    BY <1>2 DEF BatchKept
  <2>2. ch \in Seq(DOMAIN ops')
    <3>1. Items(q) \subseteq DOMAIN ops'
      BY ItemsOf DEF BatchKept, Queued
    <3> QED
      BY <2>1, <3>1, SeqMonotonic DEF Fits
  <2>3. /\ items' = Among(q, Items(q) \ Items(ch)) /\ flushing' = ch
        /\ stages' = Statements(KindOf(ops'), ch) /\ failures' = {}
    BY <1>2, <2>2, BatchNames, BatchStages DEF Batches!StartFlush
  <2>4. BatchKept(ops', q, <<>>, <<>>, failures, executed, an)
    BY <1>2, <2>1
  <2> QED
    BY <2>1, <2>3, <2>4, KeptStarting
<1> QED
  BY <1>1, <1>2

\* The queue is of items in the order of their numbers, of two priorities.
LEMMA BatchOrdered ==
  ASSUME NEW op, NEW it, NEW st, NEW fl, NEW fa, NEW ex, NEW an,
         BatchKept(op, it, st, fl, fa, ex, an)
  PROVE  /\ it \in Seq(DOMAIN op) /\ Items(it) \subseteq DOMAIN op
         /\ \A i, j : Ahead(it, i, j) => i < j /\ i # j
         /\ \A i \in Items(it) : op[i].priority \in {1, 3}
<1>1. it \in Seq(DOMAIN op) /\ Items(it) \subseteq DOMAIN op
  BY ItemsOf DEF BatchKept, Queued
<1>2. \A i \in DOMAIN op : i \in Nat
  BY DEF BatchKept, IsOperations
<1>3. ASSUME NEW i, NEW j, Ahead(it, i, j) PROVE i < j /\ i # j
  <2>1. i \in Items(it) /\ j \in Items(it)
    BY <1>1, <1>3, ItemsOf
  <2>2. i \in Nat /\ j \in Nat /\ i < j
    BY <1>1, <1>2, <1>3, <2>1 DEF BatchKept, Queued
  <2> QED
    BY <2>2
<1> QED
  BY <1>1, <1>3 DEF BatchKept, IsOperations

LEMMA BatchQueues ==
  ASSUME BatchInv, NEW o \in Batches!Operation, Batches!Queue(o)
  PROVE  BatchInv'
<1> DEFINE n == Len(ops) + 1
           q == Append(items, n)
           ch == Batches!Requested(q, n)
<1>1. /\ ops' = Append(ops, o) /\ opAnswered' = Append(opAnswered, "none")
      /\ Batches!StartFlush(q, ch) /\ executed' = executed /\ autoFlush' = autoFlush
  BY DEF Batches!Queue
<1>2. BatchKept(ops', q, stages, flushing, failures, executed, opAnswered')
  BY <1>1, KeptQueueing DEF BatchInv
<1>3. /\ q \in Seq(DOMAIN ops') /\ \A i, j : Ahead(q, i, j) => i < j /\ i # j
      /\ \A i \in Items(q) : ops'[i].priority \in {1, 3}
  BY <1>2, BatchOrdered
<1>4. ASSUME ch # <<>> PROVE Fits(ops', q, ch)
  <2>1. CASE ch = Batches!ByPriority(q)
    BY <1>3, <1>4, <2>1, BatchPriorities, WantedSorted, WantedFits
  <2>2. CASE ch = Batches!OfPriority(q, Batches!Critical)
    BY <1>3, <1>4, <2>2, BatchPriorities, WantedOfPriority, WantedFits
  <2> QED
    BY <1>4, <2>1, <2>2 DEF Batches!Requested
<1> HIDE DEF n, q, ch
<1>5. BatchKept(ops', items', stages', flushing', failures', executed, opAnswered')
  BY <1>1, <1>2, <1>4, BatchStarts
<1> QED
  BY <1>1, <1>5 DEF BatchInv

LEMMA BatchFlushes ==
  ASSUME BatchInv, NEW ps, NEW n \in Nat, Batches!Flush(ps, n)
  PROVE  BatchInv'
<1>1. /\ ops' = ops /\ opAnswered' = opAnswered /\ executed' = executed /\ autoFlush' = autoFlush
  BY DEF Batches!Flush
<1> DEFINE is == {i \in Items(items) : ops[i].priority \in ps}
           w == Among(Batches!ByPriority(items), is)
           ch == Batches!TakeFirst(w, n)
<1>2. Batches!StartFlush(items, ch)
  BY BatchNames DEF Batches!Flush
<1>3. BatchKept(ops', items, stages, flushing, failures, executed, opAnswered)
  BY <1>1 DEF BatchInv
<1>4. /\ items \in Seq(DOMAIN ops') /\ \A i, j : Ahead(items, i, j) => i < j /\ i # j
      /\ \A i \in Items(items) : ops'[i].priority \in {1, 3}
  BY <1>3, BatchOrdered
<1>5. Wanted(ops', items, Batches!ByPriority(items))
  BY <1>4, BatchPriorities, WantedSorted
<1>6. is = {i \in Items(items) : ops'[i].priority \in ps}
  BY <1>1
<1>7. Wanted(ops', items, w)
  BY <1>5, <1>6, WantedAmong
<1> HIDE DEF w, is
<1>8. ch # <<>> => Fits(ops', items, ch)
  BY <1>7, WantedFirstFits
<1> HIDE DEF ch
<1>9. BatchKept(ops', items', stages', flushing', failures', executed, opAnswered)
  BY <1>2, <1>3, <1>8, BatchStarts
<1> QED
  BY <1>1, <1>9 DEF BatchInv

LEMMA BatchShutsDown ==
  ASSUME BatchInv, Batches!Shutdown
  PROVE  BatchInv'
<1> DEFINE ch == Batches!ByPriority(items)
<1>1. /\ ops' = ops /\ opAnswered' = opAnswered /\ executed' = executed /\ autoFlush' \in BOOLEAN
      /\ Batches!StartFlush(items, ch)
  BY DEF Batches!Shutdown
<1>2. BatchKept(ops', items, stages, flushing, failures, executed, opAnswered)
  BY <1>1 DEF BatchInv
<1>3. /\ items \in Seq(DOMAIN ops') /\ \A i, j : Ahead(items, i, j) => i < j /\ i # j
      /\ \A i \in Items(items) : ops'[i].priority \in {1, 3}
  BY <1>2, BatchOrdered
<1>4. ch # <<>> => Fits(ops', items, ch)
  BY <1>3, BatchPriorities, WantedSorted, WantedFits
<1> HIDE DEF ch
<1>5. BatchKept(ops', items', stages', flushing', failures', executed, opAnswered)
  BY <1>1, <1>2, <1>4, BatchStarts
<1> QED
  BY <1>1, <1>5 DEF BatchInv

LEMMA BatchEffective ==
  ASSUME NEW S, NEW s, s.batch \in Seq(S)
  PROVE  /\ Batches!Effective(s) \in Seq(Items(s.batch))
         /\ \A i, j : Ahead(Batches!Effective(s), i, j) => Ahead(s.batch, i, j)
         /\ s.kind = "insert" => Batches!Effective(s) = s.batch
<1>1. s.batch \in Seq(Items(s.batch))
  BY ItemsOf
<1>2. CASE s.kind # "update"
  BY <1>1, <1>2 DEF Batches!Effective
<1>3. CASE s.kind = "update"
  <2>1. PICK is : Batches!Effective(s) = Among(s.batch, is)
    BY <1>3, BatchNames DEF Batches!Effective
  <2>2. "update" # "insert"
    OBVIOUS
  <2> QED
    BY <1>1, <1>3, <2>1, <2>2, ItemsOfAmong
<1> QED
  BY <1>2, <1>3

LEMMA BatchSettles ==
  ASSUME BatchInv, NEW ok \in BOOLEAN, Batches!Settle(ok)
  PROVE  BatchInv'
<1> DEFINE s == stages[1]
           eff == Batches!Effective(s)
           failed == IF ok THEN failures ELSE failures \cup {s.kind}
           left == IF ~ok /\ s.kind = "delete" THEN <<>> ELSE Tail(stages)
           exq == IF ok THEN executed \o eff ELSE executed
           how == [i \in DOMAIN ops |-> Batches!Outcome(i, failed)]
<1>1. /\ flushing # <<>> /\ executed' = exq /\ stages' = left
      /\ left # <<>> => failures' = failed /\ UNCHANGED <<flushing, opAnswered>>
      /\ left = <<>> => flushing' = <<>> /\ failures' = {}
      /\ UNCHANGED <<ops, items, autoFlush>>
  BY DEF Batches!Settle
<1>2. ASSUME left = <<>>
      PROVE  opAnswered' = Reply(ops, Items(flushing), how, opAnswered)
  <2>1. opAnswered' = [i \in DOMAIN ops |->
          IF i \in Items(flushing) THEN Batches!Outcome(i, failed) ELSE opAnswered[i]]
    BY <1>2, BatchNames DEF Batches!Settle
  <2>2. \A i \in DOMAIN ops : how[i] = Batches!Outcome(i, failed)
    OBVIOUS
  <2> HIDE DEF how, failed
  <2> QED
    BY <2>1, <2>2 DEF Reply
<1>3. BatchKept(ops, items, stages, flushing, failures, executed, opAnswered)
  BY DEF BatchInv
<1>4. stages # <<>> /\ Divided(KindOf(ops), flushing, stages)
  BY <1>1, <1>3 DEF BatchKept
<1>5. s.batch \in Seq(Items(flushing))
  BY <1>4, DividedTail
<1>6. /\ eff \in Seq(Items(s.batch)) /\ \A i, j : Ahead(eff, i, j) => Ahead(s.batch, i, j)
      /\ s.kind = "insert" => eff = s.batch
  BY <1>5, BatchEffective
<1>7. CASE left # <<>>
  <2>1. left = Tail(stages)
    BY <1>7
  <2> HIDE DEF eff, left
  <2>2. BatchKept(ops, items, Tail(stages), flushing, failed, exq, opAnswered)
    BY <1>3, <1>4, <1>6, <1>7, <2>1, KeptGoingOn
  <2> QED
    BY <1>1, <1>7, <2>1, <2>2 DEF BatchInv
<1>8. CASE left = <<>>
  <2>1. ok => Tail(stages) = <<>>
    BY <1>8
  <2>2. how \in [DOMAIN ops -> {"ok", "failed"}]
    BY DEF Batches!Outcome
  <2>3. ASSUME NEW i \in DOMAIN ops, ops[i].kind = "insert", how[i] = "ok"
        PROVE  ok /\ failures = {}
    <3>1. ops[i].row = Batches!NoKey
      BY <1>3, <2>3, OperationsAre DEF BatchKept, IsOperations
    <3>2. failed = {}
      BY <2>3, <3>1 DEF Batches!Outcome
    <3> QED
      BY <3>2
  <2> HIDE DEF eff, left, how
  <2>4. BatchKept(ops, items, <<>>, <<>>, {}, exq, Reply(ops, Items(flushing), how, opAnswered))
    BY <1>3, <1>4, <1>6, <2>1, <2>2, <2>3, KeptEnding
  <2>5. stages' = <<>>
    BY <1>1, <1>8
  <2> QED
    BY <1>1, <1>2, <1>8, <2>4, <2>5 DEF BatchInv
<1> QED
  BY <1>7, <1>8

LEMMA BatchClears == ASSUME BatchInv, Batches!Clear PROVE BatchInv'
<1> DEFINE how == [i \in DOMAIN ops |-> "failed"]
<1>1. /\ items' = <<>> /\ UNCHANGED <<ops, stages, flushing, failures, executed, autoFlush>>
      /\ opAnswered' = [i \in DOMAIN ops |->
           IF i \in Items(items) THEN "failed" ELSE opAnswered[i]]
  BY BatchNames DEF Batches!Clear
<1>2. \A i \in DOMAIN ops : how[i] = "failed"
  OBVIOUS
<1>3. BatchKept(ops, <<>>, stages, flushing, failures, executed, Reply(ops, Items(items), how, opAnswered))
  BY KeptClearing DEF BatchInv
<1>4. opAnswered' = Reply(ops, Items(items), how, opAnswered)
  <2> HIDE DEF how
  <2> QED
    BY <1>1, <1>2 DEF Reply
<1> QED
  BY <1>1, <1>3, <1>4 DEF BatchInv

LEMMA BatchBegins == ASSUME Batches!Init PROVE BatchInv
<1>1. /\ ops = <<>> /\ items = <<>> /\ stages = <<>> /\ flushing = <<>> /\ failures = {}
      /\ executed = <<>> /\ opAnswered = <<>> /\ autoFlush = TRUE
  BY DEF Batches!Init
<1>2. /\ <<>> \in Seq(Batches!Operation) /\ DOMAIN <<>> = {} /\ <<>> \in Seq(DOMAIN <<>>)
      /\ <<>> \in [DOMAIN <<>> -> {"none", "ok", "failed"}]
  OBVIOUS
<1>3. IsOperations(<<>>)
  BY <1>2 DEF IsOperations
<1>4. Queued(<<>>, <<>>, <<>>)
  BY <1>2, NoItems DEF Queued, Taking
<1>5. Divided(KindOf(<<>>), <<>>, <<>>)
  <2>1. <<>> \in Seq([kind : AllKinds, batch : Seq(Items(<<>>))])
    OBVIOUS
  <2> QED
    BY <2>1, NoItems DEF Divided
<1>6. Executed(<<>>, <<>>, <<>>, <<>>)
  BY <1>2, NoItems, NothingStaged DEF Executed
<1>7. Reported(<<>>, <<>>, <<>>, <<>>, {}, <<>>, <<>>)
  BY <1>2, NoItems DEF Reported
<1> QED
  BY <1>1, <1>3, <1>4, <1>5, <1>6, <1>7 DEF BatchInv, BatchKept

LEMMA BatchStep == ASSUME BatchInv, Batches!Next PROVE BatchInv'
<1>1. ASSUME NEW o \in Batches!Operation, Batches!Queue(o) PROVE BatchInv'
  BY <1>1, BatchQueues
<1>2. Len(items) \in Nat
  BY DEF BatchInv, BatchKept, Queued
<1>3. ASSUME NEW ps, NEW n \in 1 .. Len(items), Batches!Flush(ps, n) PROVE BatchInv'
  <2>1. n \in Nat
    BY <1>2
  <2> QED
    BY <1>3, <2>1, BatchFlushes
<1>4. CASE Batches!AutoFlush
  BY <1>2, <1>4, BatchFlushes DEF Batches!AutoFlush
<1>5. ASSUME NEW ok \in BOOLEAN, Batches!Settle(ok) PROVE BatchInv'
  BY <1>5, BatchSettles
<1>6. CASE Batches!Clear
  BY <1>6, BatchClears
<1>7. CASE Batches!Shutdown
  BY <1>7, BatchShutsDown
<1> QED
  BY <1>1, <1>3, <1>4, <1>5, <1>6, <1>7 DEF Batches!Next

\* A set of at most one element.
LEMMA AtMostOne ==
  ASSUME NEW T, \A x, y \in T : x = y
  PROVE  Cardinality(T) <= 1
<1>1. CASE T = {}
  <2>1. Cardinality(T) = 0
    BY <1>1, FS_EmptySet
  <2> QED
    BY <2>1
<1>2. CASE T # {}
  <2>1. PICK x : T = {x}
    BY <1>2
  <2>2. Cardinality(T) = 1
    BY <2>1, FS_Singleton
  <2> QED
    BY <2>2
<1> QED
  BY <1>1, <1>2

LEMMA BatchMeans ==
  ASSUME BatchInv
  PROVE  /\ Batches!TypeOK /\ Batches!NothingForgotten
         /\ Batches!InsertedWhenTold /\ Batches!UpdatesInOrder
<1>1. /\ IsOperations(ops) /\ Queued(ops, items, flushing)
      /\ Divided(KindOf(ops), flushing, stages) /\ (stages = <<>> <=> flushing = <<>>)
      /\ Executed(ops, items, stages, executed)
      /\ Reported(ops, items, flushing, stages, failures, executed, opAnswered)
      /\ autoFlush \in BOOLEAN
  BY DEF BatchInv, BatchKept
<1>2. /\ items \in Seq(DOMAIN ops) /\ flushing \in Seq(DOMAIN ops) /\ executed \in Seq(DOMAIN ops)
  BY <1>1 DEF Queued, Taking, Executed
<1>3. ASSUME NEW k \in DOMAIN stages PROVE stages[k].batch \in Seq(DOMAIN ops)
  <2>1. stages \in Seq([kind : AllKinds, batch : Seq(Items(flushing))])
    BY <1>1 DEF Divided
  <2>2. stages[k].batch \in Seq(Items(flushing))
    <3>1. stages[k] \in [kind : AllKinds, batch : Seq(Items(flushing))]
      BY <1>3, <2>1, LenProperties
    <3> QED
      BY <3>1
  <2>3. Items(flushing) \subseteq DOMAIN ops
    BY <1>2, ItemsOf
  <2> QED
    BY <2>2, <2>3, SeqMonotonic
<1>4. Batches!TypeOK
  BY <1>1, <1>2, <1>3 DEF Batches!TypeOK, IsOperations, Reported, AllKinds
<1>5. ASSUME NEW i \in DOMAIN ops
      PROVE  Cardinality({k \in DOMAIN executed : executed[k] = i}) <= 1
  <2> DEFINE T == {k \in DOMAIN executed : executed[k] = i}
  <2>1. \A k, l \in T : ~(k < l)
    BY <1>1 DEF Executed, Ahead
  <2>2. \A k \in T : k \in Nat
    BY <1>2
  <2>3. \A k, l \in T : k = l
    BY <2>1, <2>2
  <2> QED
    BY <2>3, AtMostOne
<1>6. Batches!NothingForgotten
  <2> SUFFICES ASSUME NEW i \in DOMAIN ops
               PROVE  /\ opAnswered[i] = "none" <=> i \in Items(items) \cup Items(flushing)
                      /\ ~(i \in Items(items) /\ i \in Items(flushing) \cup Items(executed))
                      /\ Cardinality({k \in DOMAIN executed : executed[k] = i}) <= 1
    BY BatchNames DEF Batches!NothingForgotten
  <2> QED
    BY <1>1, <1>5 DEF Queued, Executed, Reported
<1>7. Batches!InsertedWhenTold
  BY <1>1, BatchNames DEF Batches!InsertedWhenTold, Reported
<1>8. Batches!UpdatesInOrder
  <2> SUFFICES ASSUME NEW k \in DOMAIN executed, NEW l \in DOMAIN executed,
                      ops[executed[k]].kind = "update", ops[executed[k]] = ops[executed[l]], k < l
               PROVE  executed[k] < executed[l]
    BY DEF Batches!UpdatesInOrder
  <2>1. Ahead(executed, executed[k], executed[l])
    BY DEF Ahead
  <2> QED
    BY <1>1, <2>1 DEF Executed, SameUpdate
<1> QED
  BY <1>4, <1>6, <1>7, <1>8

-----------------------------------------------------------------------------
(* AsyncFlushQueue: where its items are.                                   *)

PriorityOf(as) == [i \in DOMAIN as |-> as[i].priority]

SlotSet == 1 .. MaxConcurrent + 1

\* Items whose order counts: inserts, or updates, of one priority.
Alike(kd, pr, i, j) == kd[i] = kd[j] /\ pr[i] = pr[j] /\ kd[i] # "delete"

InTurn(kd, pr, q) == \A i, j : Ahead(q, i, j) /\ Alike(kd, pr, i, j) => i < j

\* The jobs of a slot are what is left of a batch q; c says that the order counts.
Working(kd, pr, js, c) ==
  \E q \in Seq(DOMAIN kd) :
    (\A i : ~Ahead(q, i, i)) /\ (c => InTurn(kd, pr, q)) /\ Divided(kd, q, js)

Apartness(qu, re, jb) ==
  /\ \A i : ~Ahead(qu, i, i) /\ ~Ahead(re, i, i)
  /\ Items(qu) \cap Items(re) = {}
  /\ \A s \in SlotSet : \A i : Staged(jb[s], i) => i \notin Items(qu) /\ i \notin Items(re)
  /\ \A s, t \in SlotSet : \A i : Staged(jb[s], i) /\ Staged(jb[t], i) => s = t

Waits(qu, re, jb, i) == i \in Items(qu) \/ i \in Items(re) \/ \E s \in SlotSet : Staged(jb[s], i)

Orderly(kd, pr, qu, re, jb) ==
  /\ \A i \in Items(re) : kd[i] = "delete"
  /\ InTurn(kd, pr, qu)
  /\ \A s \in SlotSet : \A i, j :
       Staged(jb[s], i) /\ j \in Items(qu) /\ Alike(kd, pr, i, j) => i < j

\* The queue qu, the retries re and the jobs jb of the slots, of items of the
\* kinds kd and priorities pr; an is what was answered.
Placed(kd, pr, qu, re, jb, an, c) ==
  /\ qu \in Seq(DOMAIN kd) /\ re \in Seq(DOMAIN kd)
  /\ an \in [DOMAIN kd -> Replies]
  /\ DOMAIN jb = SlotSet /\ \A s \in SlotSet : Working(kd, pr, jb[s], c)
  /\ Apartness(qu, re, jb)
  /\ \A i \in DOMAIN kd : an[i] = "none" <=> Waits(qu, re, jb, i)
  /\ \A i, j : Ahead(qu, i, j) => pr[i] >= pr[j]
  /\ c => Orderly(kd, pr, qu, re, jb)

\* What is answered of the items is.
Say(kd, is, how, an) == [i \in DOMAIN kd |-> IF i \in is THEN how ELSE an[i]]

LEMMA WorkingStays ==
  ASSUME NEW kd, NEW pr, NEW js, NEW c, Working(kd, pr, js, c), NEW d, d => c
  PROVE  Working(kd, pr, js, d)
BY DEF Working

LEMMA WorkingNothing ==
  ASSUME NEW kd, NEW pr, NEW c
  PROVE  Working(kd, pr, <<>>, c)
<1>1. <<>> \in Seq(DOMAIN kd) /\ <<>> \in Seq([kind : AllKinds, batch : Seq(Items(<<>>))])
  OBVIOUS
<1>2. Divided(kd, <<>>, <<>>)
  BY <1>1, NoItems DEF Divided
<1> QED
  BY <1>1, <1>2, NoItems DEF Working, InTurn

\* The first job of a slot and the others.
LEMMA WorkingTail ==
  ASSUME NEW kd, NEW pr, NEW js, NEW c, Working(kd, pr, js, c), js # <<>>
  PROVE  /\ Working(kd, pr, Tail(js), c)
         /\ js[1].kind \in AllKinds /\ js[1].batch \in Seq(DOMAIN kd)
         /\ \A i \in Items(js[1].batch) : kd[i] = js[1].kind
         /\ \A i : ~Ahead(js[1].batch, i, i)
         /\ c => InTurn(kd, pr, js[1].batch)
         /\ \A i : Staged(js, i) <=> i \in Items(js[1].batch) \/ Staged(Tail(js), i)
         /\ \A i \in Items(js[1].batch) : ~Staged(Tail(js), i)
         /\ \A i : Staged(Tail(js), i) /\ kd[i] = js[1].kind => kd[i] = "delete"
<1>1. PICK q \in Seq(DOMAIN kd) :
        (\A i : ~Ahead(q, i, i)) /\ (c => InTurn(kd, pr, q)) /\ Divided(kd, q, js)
  BY DEF Working
<1>2. /\ Divided(kd, q, Tail(js))
      /\ js[1].kind \in AllKinds /\ js[1].batch \in Seq(Items(q))
      /\ \A i \in Items(js[1].batch) : kd[i] = js[1].kind
      /\ \A i, j : Ahead(js[1].batch, i, j) => Ahead(q, i, j)
      /\ \A i : Staged(js, i) <=> i \in Items(js[1].batch) \/ Staged(Tail(js), i)
      /\ \A i \in Items(js[1].batch) : ~Staged(Tail(js), i)
      /\ \A i : Staged(Tail(js), i) /\ kd[i] = js[1].kind => kd[i] = "delete"
  BY <1>1, DividedTail
<1>3. js[1].batch \in Seq(DOMAIN kd)
  <2>1. Items(q) \subseteq DOMAIN kd
    BY <1>1, ItemsOf
  <2> QED
    BY <1>2, <2>1, SeqMonotonic
<1> QED
  BY <1>1, <1>2, <1>3 DEF Working, InTurn

LEMMA WorkingIsIn ==
  ASSUME NEW kd, NEW pr, NEW js, NEW c, Working(kd, pr, js, c)
  PROVE  \A i : Staged(js, i) => i \in DOMAIN kd
<1>1. PICK q \in Seq(DOMAIN kd) : Divided(kd, q, js)
  BY DEF Working
<1> QED
  BY <1>1, StagedIsIn, ItemsOf

\* A batch begins.
LEMMA WorkingBegins ==
  ASSUME NEW kd, NEW pr, NEW c, NEW q \in Seq(DOMAIN kd), \A i \in DOMAIN kd : kd[i] \in AllKinds,
         \A i : ~Ahead(q, i, i), c => InTurn(kd, pr, q), q # <<>>
  PROVE  /\ Working(kd, pr, Statements(kd, q), c) /\ Statements(kd, q) # <<>>
         /\ \A i : Staged(Statements(kd, q), i) <=> i \in Items(q)
<1>1. \A i \in Items(q) : kd[i] \in AllKinds
  BY ItemsOf
<1>2. /\ Divided(kd, q, Statements(kd, q)) /\ Statements(kd, q) # <<>>
      /\ \A i \in Items(q) : Staged(Statements(kd, q), i)
  BY <1>1, StatementsAre DEF Staged
<1> QED
  BY <1>2, StagedIsIn DEF Working

\* The first job of slot s is over: its items retried wait for their retry,
\* the others are answered.
LEMMA PlacedJobOver ==
  ASSUME NEW kd, NEW pr, NEW qu, NEW re, NEW jb, NEW an, NEW c,
         Placed(kd, pr, qu, re, jb, an, c), NEW s \in SlotSet, jb[s] # <<>>,
         NEW retried \in SUBSET Items(jb[s][1].batch), NEW how \in {"ok", "failed"},
         NEW d, d => c, d /\ retried # {} => jb[s][1].kind = "delete"
  PROVE  Placed(kd, pr, qu, re \o Among(jb[s][1].batch, retried), [jb EXCEPT ![s] = Tail(jb[s])],
                Say(kd, Items(jb[s][1].batch) \ retried, how, an), d)
<1> DEFINE hb == jb[s][1].batch
           jq == [jb EXCEPT ![s] = Tail(jb[s])]
           anq == Say(kd, Items(hb) \ retried, how, an)
           more == Among(hb, retried)
           req == re \o more
<1>1. /\ Working(kd, pr, Tail(jb[s]), c) /\ hb \in Seq(DOMAIN kd)
      /\ \A i \in Items(hb) : kd[i] = jb[s][1].kind
      /\ \A i : ~Ahead(hb, i, i)
      /\ \A i : Staged(jb[s], i) <=> i \in Items(hb) \/ Staged(Tail(jb[s]), i)
      /\ \A i \in Items(hb) : ~Staged(Tail(jb[s]), i)
  BY WorkingTail DEF Placed
<1>2. /\ DOMAIN jq = SlotSet /\ jq[s] = Tail(jb[s])
      /\ \A t \in SlotSet : t # s => jq[t] = jb[t]
  BY DEF Placed
<1>3. /\ anq \in [DOMAIN kd -> Replies]
      /\ \A i \in DOMAIN kd : anq[i] = IF i \in Items(hb) \ retried THEN how ELSE an[i]
  BY DEF Say, Placed, Replies
<1>4. /\ more \in Seq(DOMAIN kd) /\ Items(more) = retried /\ \A i : ~Ahead(more, i, i)
  <2>1. Items(more) = Items(hb) \cap retried
    BY <1>1, ItemsOfAmong
  <2> QED
    BY <1>1, <2>1, ItemsOfAmong
<1> HIDE DEF hb, jq, anq, more
<1>5. /\ req \in Seq(DOMAIN kd) /\ Items(req) = Items(re) \cup retried
      /\ \A i, j : Ahead(req, i, j) <=>
           Ahead(re, i, j) \/ Ahead(more, i, j) \/ (i \in Items(re) /\ j \in retried)
  <2>1. re \in Seq(DOMAIN kd)
    BY DEF Placed
  <2> QED
    BY <1>4, <2>1, ItemsOfCat
<1> HIDE DEF req
<1>6. retried \subseteq Items(hb) /\ Items(hb) \subseteq DOMAIN kd
  BY <1>1, ItemsOf DEF hb
<1>7. \A t \in SlotSet : Working(kd, pr, jq[t], d)
  BY <1>1, <1>2, WorkingStays DEF Placed
<1>8. /\ \A i : Staged(jq[s], i) <=> Staged(jb[s], i) /\ i \notin Items(hb)
      /\ \A t \in SlotSet : t # s => \A i : Staged(jq[t], i) <=> Staged(jb[t], i)
  BY <1>1, <1>2
<1>9. Apartness(qu, re, jb)
  BY DEF Placed
<1>10. \A i \in Items(hb) : Staged(jb[s], i) /\ i \notin Items(qu) /\ i \notin Items(re)
  BY <1>1, <1>9 DEF Apartness
<1>11. Apartness(qu, req, jq)
  <2>1. \A i : ~Ahead(qu, i, i) /\ ~Ahead(req, i, i)
    BY <1>4, <1>5, <1>6, <1>9, <1>10 DEF Apartness
  <2>2. Items(qu) \cap Items(req) = {}
    BY <1>5, <1>6, <1>9, <1>10 DEF Apartness
  <2>3. ASSUME NEW t \in SlotSet, NEW i, Staged(jq[t], i)
        PROVE  Staged(jb[t], i) /\ i \notin Items(qu) /\ i \notin Items(req)
    <3>1. Staged(jb[t], i) /\ i \notin Items(hb)
      <4>1. CASE t = s
        BY <1>8, <2>3, <4>1
      <4>2. CASE t # s
        BY <1>8, <1>9, <1>10, <2>3, <4>2 DEF Apartness
      <4> QED
        BY <4>1, <4>2
    <3> QED
      BY <1>5, <1>6, <1>9, <3>1 DEF Apartness
  <2>4. \A t, u \in SlotSet : \A i : Staged(jq[t], i) /\ Staged(jq[u], i) => t = u
    BY <1>9, <2>3 DEF Apartness
  <2> QED
    BY <2>1, <2>2, <2>3, <2>4 DEF Apartness
<1>12. ASSUME NEW i \in DOMAIN kd
       PROVE  anq[i] = "none" <=> Waits(qu, req, jq, i)
  <2>1. an[i] = "none" <=> Waits(qu, re, jb, i)
    BY DEF Placed
  <2>2. CASE i \in Items(hb) \ retried
    <3>1. anq[i] # "none"
      BY <1>3, <2>2
    <3>2. \A t \in SlotSet : ~Staged(jq[t], i)
      BY <1>8, <1>9, <1>10, <2>2 DEF Apartness
    <3> QED
      BY <1>5, <1>10, <2>2, <3>1, <3>2 DEF Waits
  <2>3. CASE i \in retried
    <3>1. anq[i] = an[i] /\ Waits(qu, re, jb, i)
      BY <1>3, <1>6, <1>10, <2>3 DEF Waits
    <3> QED
      BY <1>5, <2>1, <2>3, <3>1 DEF Waits
  <2>4. CASE i \notin Items(hb)
    <3>1. \A t \in SlotSet : Staged(jq[t], i) <=> Staged(jb[t], i)
      BY <1>8, <2>4
    <3>2. i \notin retried /\ anq[i] = an[i]
      BY <1>3, <1>6, <2>4
    <3> QED
      BY <1>5, <2>1, <3>1, <3>2 DEF Waits
  <2> QED
    BY <2>2, <2>3, <2>4
<1>13. ASSUME d PROVE Orderly(kd, pr, qu, req, jq)
  <2>1. Orderly(kd, pr, qu, re, jb)
    BY <1>13 DEF Placed
  <2>2. \A i \in Items(req) : kd[i] = "delete"
    BY <1>1, <1>5, <1>6, <1>13, <2>1 DEF Orderly
  <2>3. \A t \in SlotSet : \A i : Staged(jq[t], i) => Staged(jb[t], i)
    BY <1>8
  <2> QED
    BY <2>1, <2>2, <2>3 DEF Orderly
<1>14. Placed(kd, pr, qu, req, jq, anq, d)
  BY <1>2, <1>3, <1>5, <1>7, <1>11, <1>12, <1>13 DEF Placed
<1> QED
  BY <1>14 DEF hb, jq, anq, more, req

LEMMA PlacedStays ==
  ASSUME NEW kd, NEW pr, NEW qu, NEW re, NEW jb, NEW an, NEW c,
         Placed(kd, pr, qu, re, jb, an, c), NEW d, d => c
  PROVE  Placed(kd, pr, qu, re, jb, an, d)
BY WorkingStays DEF Placed

LEMMA AsyncTake ==
  ASSUME NEW S, NEW q \in Seq(S), NEW n \in Nat \ {0}, q # <<>>
  PROVE  LET a == Async!TakeFirst(q, n)
             b == Async!TakeRest(q, n)
         IN  /\ a \in Seq(S) /\ b \in Seq(S) /\ a # <<>>
             /\ Items(q) = Items(a) \cup Items(b)
             /\ \A i, j : Ahead(q, i, j) <=>
                  Ahead(a, i, j) \/ Ahead(b, i, j) \/ (i \in Items(a) /\ j \in Items(b))
<1> DEFINE m == IF n < Len(q) THEN n ELSE Len(q)
           a == SubSeq(q, 1, m)
           b == SubSeq(q, m + 1, Len(q))
<1>1. Len(q) \in Nat \ {0} /\ m \in 0 .. Len(q) /\ m # 0
  BY LenProperties, EmptySeq
<1>2. a = Async!TakeFirst(q, n)
  BY DEF Async!TakeFirst
<1>3. b = Async!TakeRest(q, n)
  <2>1. CASE n < Len(q)
    BY <2>1 DEF Async!TakeRest
  <2>2. CASE ~(n < Len(q))
    <3>1. /\ m = Len(q) /\ Len(q) < m + 1 /\ Len(q) < n + 1
          /\ m + 1 \in Int /\ n + 1 \in Int /\ Len(q) \in Int
      BY <1>1, <2>2
    <3> HIDE DEF m
    <3>2. SubSeq(q, m + 1, Len(q)) = <<>>
      BY <3>1, SubSeqEmpty
    <3>3. SubSeq(q, n + 1, Len(q)) = <<>>
      BY <3>1, SubSeqEmpty
    <3> QED
      BY <3>2, <3>3 DEF Async!TakeRest
  <2> QED
    BY <2>1, <2>2
<1> HIDE DEF m
<1>4. /\ a \in Seq(S) /\ b \in Seq(S) /\ Items(q) = Items(a) \cup Items(b) /\ Len(a) = m
      /\ \A i, j : Ahead(q, i, j) <=>
           Ahead(a, i, j) \/ Ahead(b, i, j) \/ (i \in Items(a) /\ j \in Items(b))
  BY <1>1, SplitAt
<1> HIDE DEF a, b
<1>5. a # <<>>
  BY <1>1, <1>4, EmptySeq
<1> QED
  BY <1>2, <1>3, <1>4, <1>5

\* A batch is taken from the queue into the free slot s.
LEMMA PlacedTaking ==
  ASSUME NEW kd, NEW pr, NEW qu, NEW re, NEW jb, NEW an, NEW c,
         Placed(kd, pr, qu, re, jb, an, c), NEW s \in SlotSet, jb[s] = <<>>,
         NEW n \in Nat \ {0}, qu # <<>>, \A i \in DOMAIN kd : kd[i] \in AllKinds
  PROVE  LET todo == Statements(kd, Async!TakeFirst(qu, n)) IN
         /\ todo # <<>>
         /\ Placed(kd, pr, Async!TakeRest(qu, n), re, [jb EXCEPT ![s] = todo], an, c)
<1> DEFINE a == Async!TakeFirst(qu, n)
           b == Async!TakeRest(qu, n)
           todo == Statements(kd, a)
           jq == [jb EXCEPT ![s] = todo]
<1>1. qu \in Seq(DOMAIN kd) /\ Apartness(qu, re, jb)
  BY DEF Placed
<1>2. /\ a \in Seq(DOMAIN kd) /\ b \in Seq(DOMAIN kd) /\ a # <<>>
      /\ Items(qu) = Items(a) \cup Items(b)
      /\ \A i, j : Ahead(qu, i, j) <=>
           Ahead(a, i, j) \/ Ahead(b, i, j) \/ (i \in Items(a) /\ j \in Items(b))
  BY <1>1, AsyncTake
<1>3. /\ DOMAIN jq = SlotSet /\ jq[s] = todo
      /\ \A t \in SlotSet : t # s => jq[t] = jb[t]
  BY DEF Placed
<1> HIDE DEF a, b, jq
<1>4. /\ \A i : ~Ahead(a, i, i)
      /\ c => InTurn(kd, pr, a)
  BY <1>1, <1>2 DEF Apartness, Placed, Orderly, InTurn
<1>5. /\ Working(kd, pr, todo, c) /\ todo # <<>>
      /\ \A i : Staged(todo, i) <=> i \in Items(a)
  BY <1>2, <1>4, WorkingBegins
<1> HIDE DEF todo
<1>6. \A t \in SlotSet : Working(kd, pr, jq[t], c)
  BY <1>3, <1>5 DEF Placed
<1>7. \A i : ~Staged(jb[s], i)
  BY NothingStaged
<1>8. \A t \in SlotSet : \A i : Staged(jq[t], i) <=> (IF t = s THEN i \in Items(a) ELSE Staged(jb[t], i))
  BY <1>3, <1>5
<1>9. \A i : i \in Items(a) => i \in Items(qu) /\ i \notin Items(b)
  BY <1>1, <1>2 DEF Apartness
<1>10. Apartness(b, re, jq)
  BY <1>1, <1>2, <1>8, <1>9 DEF Apartness
<1>11. \A i \in DOMAIN kd : Waits(b, re, jq, i) <=> Waits(qu, re, jb, i)
  BY <1>2, <1>7, <1>8 DEF Waits
<1>12. c => Orderly(kd, pr, b, re, jq)
  BY <1>2, <1>8 DEF Placed, Orderly, InTurn
<1>13. Placed(kd, pr, b, re, jq, an, c)
  BY <1>2, <1>3, <1>6, <1>10, <1>11, <1>12 DEF Placed
<1> QED
  BY <1>5, <1>13 DEF a, b, jq, todo

\* The retries moved go back to the queue, in the order of their priorities.
LEMMA PlacedReturning ==
  ASSUME NEW kd, NEW pr, NEW qu, NEW re, NEW jb, NEW an, NEW c,
         Placed(kd, pr, qu, re, jb, an, c),
         NEW quq \in Seq(DOMAIN kd), NEW moved \in Seq(DOMAIN kd), NEW left \in Seq(DOMAIN kd),
         Items(re) = Items(moved) \cup Items(left), Items(moved) \cap Items(left) = {},
         \A i : ~Ahead(moved, i, i) /\ ~Ahead(left, i, i),
         Items(quq) = Items(qu) \cup Items(moved),
         \A i \in DOMAIN kd : pr[i] \in Nat,
         \A i, j : Ahead(quq, i, j) =>
           pr[i] > pr[j] \/ (pr[i] = pr[j] /\ Ahead(qu \o moved, i, j))
  PROVE  Placed(kd, pr, quq, left, jb, an, c)
<1>1. qu \in Seq(DOMAIN kd) /\ Apartness(qu, re, jb)
  BY DEF Placed
<1>2. \A i, j : Ahead(qu \o moved, i, j) <=>
        Ahead(qu, i, j) \/ Ahead(moved, i, j) \/ (i \in Items(qu) /\ j \in Items(moved))
  BY <1>1, ItemsOfCat
<1>3. \A i, j : Ahead(quq, i, j) => i \in DOMAIN kd /\ j \in DOMAIN kd
  BY ItemsOf
<1>4. \A i, j : Ahead(quq, i, j) => pr[i] >= pr[j]
  BY <1>3
<1>5. \A i : ~Ahead(quq, i, i)
  <2> SUFFICES ASSUME NEW i, Ahead(quq, i, i) PROVE FALSE
    OBVIOUS
  <2>1. i \in DOMAIN kd /\ ~(pr[i] > pr[i])
    BY <1>3
  <2>2. Ahead(qu \o moved, i, i)
    BY <2>1
  <2> QED
    BY <1>1, <1>2, <2>2 DEF Apartness
<1>6. Apartness(quq, left, jb)
  BY <1>1, <1>5 DEF Apartness
<1>7. \A i : Waits(quq, left, jb, i) <=> Waits(qu, re, jb, i)
  BY DEF Waits
<1>8. ASSUME c PROVE Orderly(kd, pr, quq, left, jb)
  <2>1. Orderly(kd, pr, qu, re, jb)
    BY <1>8 DEF Placed
  <2>2. ASSUME NEW i, NEW j, Ahead(quq, i, j), Alike(kd, pr, i, j)
        PROVE  i < j
    <3>1. Ahead(qu \o moved, i, j) /\ kd[j] # "delete"
      <4>1. i \in DOMAIN kd /\ ~(pr[i] > pr[j]) /\ kd[j] # "delete"
        BY <1>3, <2>2 DEF Alike
      <4> QED
        BY <2>2, <4>1
    <3>2. j \notin Items(moved)
      BY <2>1, <3>1 DEF Orderly
    <3>3. Ahead(qu, i, j)
      BY <1>2, <3>1, <3>2, ItemsOf
    <3> QED
      BY <2>1, <2>2, <3>3 DEF Orderly, InTurn
  <2>3. ASSUME NEW s \in SlotSet, NEW i, NEW j, Staged(jb[s], i), j \in Items(quq), Alike(kd, pr, i, j)
        PROVE  i < j
    <3>1. j \notin Items(moved)
      BY <2>1, <2>3 DEF Orderly, Alike
    <3> QED
      BY <2>1, <2>3, <3>1 DEF Orderly
  <2> QED
    BY <2>1, <2>2, <2>3 DEF Orderly, InTurn
<1> QED
  BY <1>4, <1>6, <1>7, <1>8 DEF Placed

\* What is queued or waits for a retry is rejected.
LEMMA PlacedRejecting ==
  ASSUME NEW kd, NEW pr, NEW qu, NEW re, NEW jb, NEW an, NEW c,
         Placed(kd, pr, qu, re, jb, an, c)
  PROVE  Placed(kd, pr, <<>>, <<>>, jb, Say(kd, Items(qu) \cup Items(re), "failed", an), c)
<1> DEFINE anq == Say(kd, Items(qu) \cup Items(re), "failed", an)
<1>1. /\ anq \in [DOMAIN kd -> Replies]
      /\ \A i \in DOMAIN kd : anq[i] = IF i \in Items(qu) \cup Items(re) THEN "failed" ELSE an[i]
  BY DEF Say, Placed, Replies
<1> HIDE DEF anq
<1>2. <<>> \in Seq(DOMAIN kd)
  OBVIOUS
<1>3. Apartness(qu, re, jb)
  BY DEF Placed
<1>4. Apartness(<<>>, <<>>, jb)
  BY <1>3, NoItems DEF Apartness
<1>5. \A i \in DOMAIN kd : anq[i] = "none" <=> Waits(<<>>, <<>>, jb, i)
  BY <1>1, <1>3, NoItems DEF Placed, Waits, Apartness
<1>6. c => Orderly(kd, pr, <<>>, <<>>, jb)
  BY NoItems DEF Orderly, InTurn
<1>7. Placed(kd, pr, <<>>, <<>>, jb, anq, c)
  BY <1>1, <1>2, <1>4, <1>5, <1>6, NoItems DEF Placed
<1> QED
  BY <1>7 DEF anq

-----------------------------------------------------------------------------
(* AsyncFlushQueue: its queue is in the order of the priorities.           *)

\* The items of all, of four priorities, the higher first, and in their order
\* within one.
LEMMA FourPriorities ==
  ASSUME NEW S, NEW all \in Seq(S), NEW as, \A i \in Items(all) : as[i].priority \in 0 .. 3
  PROVE  LET r == OfPriorityIn(as, all, 3) \o OfPriorityIn(as, all, 2)
                    \o OfPriorityIn(as, all, 1) \o OfPriorityIn(as, all, 0)
         IN  /\ r \in Seq(S) /\ Items(r) = Items(all)
             /\ \A i, j : Ahead(r, i, j) =>
                  \/ as[i].priority > as[j].priority
                  \/ as[i].priority = as[j].priority /\ Ahead(all, i, j)
<1> DEFINE o(p) == OfPriorityIn(as, all, p)
           Group(q, ps) ==
             /\ q \in Seq(S) /\ Items(q) = {i \in Items(all) : as[i].priority \in ps}
             /\ \A i, j : Ahead(q, i, j) =>
                  \/ as[i].priority > as[j].priority
                  \/ as[i].priority = as[j].priority /\ Ahead(all, i, j)
<1>1. ASSUME NEW p
      PROVE  /\ o(p) \in Seq(S) /\ Items(o(p)) = {i \in Items(all) : as[i].priority = p}
             /\ \A i, j : Ahead(o(p), i, j) =>
                  as[i].priority = p /\ as[j].priority = p /\ Ahead(all, i, j)
  <2> DEFINE is == {i \in Items(all) : as[i].priority = p}
  <2>1. /\ Among(all, is) \in Seq(S) /\ Items(Among(all, is)) = Items(all) \cap is
        /\ \A i, j : Ahead(Among(all, is), i, j) <=> Ahead(all, i, j) /\ i \in is /\ j \in is
    BY ItemsOfAmong
  <2>2. o(p) = Among(all, is)
    BY DEF OfPriorityIn
  <2> HIDE DEF o
  <2> QED
    BY <2>1, <2>2
<1> HIDE DEF o
<1>2. Group(o(3), {3})
  <2>1. /\ o(3) \in Seq(S) /\ Items(o(3)) = {i \in Items(all) : as[i].priority = 3}
        /\ \A i, j : Ahead(o(3), i, j) =>
             as[i].priority = 3 /\ as[j].priority = 3 /\ Ahead(all, i, j)
    BY <1>1
  <2>2. {i \in Items(all) : as[i].priority = 3} = {i \in Items(all) : as[i].priority \in {3}}
    OBVIOUS
  <2> QED
    BY <2>1, <2>2
<1>3. ASSUME NEW q, NEW ps, NEW p, Group(q, ps), \A r \in ps : r > p
      PROVE  Group(q \o o(p), ps \cup {p})
  <2>1. /\ o(p) \in Seq(S) /\ Items(o(p)) = {i \in Items(all) : as[i].priority = p}
        /\ \A i, j : Ahead(o(p), i, j) =>
             as[i].priority = p /\ as[j].priority = p /\ Ahead(all, i, j)
    BY <1>1
  <2>2. q \in Seq(S) /\ Items(q) = {i \in Items(all) : as[i].priority \in ps}
    BY <1>3
  <2>3. /\ q \o o(p) \in Seq(S) /\ Items(q \o o(p)) = Items(q) \cup Items(o(p))
        /\ \A i, j : Ahead(q \o o(p), i, j) <=>
             Ahead(q, i, j) \/ Ahead(o(p), i, j) \/ (i \in Items(q) /\ j \in Items(o(p)))
    BY <2>1, <2>2, ItemsOfCat
  <2>4. \A i \in Items(q), j \in Items(o(p)) : as[i].priority > as[j].priority
    BY <1>3, <2>1, <2>2
  <2>5. Items(q \o o(p)) = {i \in Items(all) : as[i].priority \in ps \cup {p}}
    BY <2>1, <2>2, <2>3
  <2>6. ASSUME NEW i, NEW j, Ahead(q \o o(p), i, j)
        PROVE  \/ as[i].priority > as[j].priority
               \/ as[i].priority = as[j].priority /\ Ahead(all, i, j)
    BY <1>3, <2>1, <2>3, <2>4, <2>6
  <2> QED
    BY <2>3, <2>5, <2>6
<1> HIDE DEF Group
<1>4. Group(o(3) \o o(2), {3} \cup {2})
  <2>1. \A r \in {3} : r > 2
    OBVIOUS
  <2> QED
    BY <1>2, <1>3, <2>1
<1>5. Group(o(3) \o o(2) \o o(1), ({3} \cup {2}) \cup {1})
  <2>1. \A r \in {3} \cup {2} : r > 1
    OBVIOUS
  <2> QED
    BY <1>3, <1>4, <2>1
<1>6. Group(o(3) \o o(2) \o o(1) \o o(0), (({3} \cup {2}) \cup {1}) \cup {0})
  <2>1. \A r \in ({3} \cup {2}) \cup {1} : r > 0
    OBVIOUS
  <2> QED
    BY <1>3, <1>5, <2>1
<1>7. {i \in Items(all) : as[i].priority \in (({3} \cup {2}) \cup {1}) \cup {0}} = Items(all)
  <2>1. 0 .. 3 \subseteq (({3} \cup {2}) \cup {1}) \cup {0}
    OBVIOUS
  <2> QED
    BY <2>1
<1> QED
  BY <1>6, <1>7 DEF Group, o

LEMMA AsyncNames ==
  /\ \A q : Async!Items(q) = Items(q)
  /\ \A q, is : Async!Among(q, is) = Among(q, is)
  /\ \A T : Async!Cardinality(T) = Cardinality(T)
  /\ Async!Slots = SlotSet /\ Async!ForceSlot = MaxConcurrent + 1 /\ Async!NoSlot = 0
  /\ Async!Kinds = AllKinds
<1>1. \A q : Async!Items(q) = Items(q)
  BY DEF Async!Items, Items
<1>2. \A q, is : Async!Among(q, is) = Among(q, is)
  BY DEF Async!Among, Among
<1>3. \A T : Async!Cardinality(T) = Cardinality(T)
  BY DEF Async!Cardinality, Cardinality, Async!IsFiniteSet, IsFiniteSet
<1>4. /\ Async!Slots = SlotSet /\ Async!ForceSlot = MaxConcurrent + 1 /\ Async!NoSlot = 0
      /\ Async!Kinds = AllKinds
  BY DEF Async!Slots, SlotSet, Async!ForceSlot, Async!NoSlot, Async!Kinds, AllKinds
<1> QED
  BY <1>1, <1>2, <1>3, <1>4

LEMMA AsyncReinserts ==
  ASSUME NEW S, NEW q \in Seq(S), NEW r \in Seq(S), \A i \in S : asked[i].priority \in 0 .. 3
  PROVE  /\ Async!Reinsert(q, r) \in Seq(S) /\ Items(Async!Reinsert(q, r)) = Items(q) \cup Items(r)
         /\ \A i, j : Ahead(Async!Reinsert(q, r), i, j) =>
              \/ asked[i].priority > asked[j].priority
              \/ asked[i].priority = asked[j].priority /\ Ahead(q \o r, i, j)
<1> DEFINE all == q \o r
<1>1. all \in Seq(S) /\ Items(all) = Items(q) \cup Items(r)
  BY ItemsOfCat
<1>2. \A i \in Items(all) : asked[i].priority \in 0 .. 3
  BY <1>1, ItemsOf
<1>3. \A p : Async!OfPriority(all, p) = OfPriorityIn(asked, all, p)
  BY AsyncNames DEF Async!OfPriority, OfPriorityIn
<1>4. Async!Reinsert(q, r) =
        OfPriorityIn(asked, all, 3) \o OfPriorityIn(asked, all, 2)
          \o OfPriorityIn(asked, all, 1) \o OfPriorityIn(asked, all, 0)
  <2>1. Async!Reinsert(q, r) =
          Async!OfPriority(all, 3) \o Async!OfPriority(all, 2)
            \o Async!OfPriority(all, 1) \o Async!OfPriority(all, 0)
    BY DEF Async!Reinsert
  <2>2. /\ Async!OfPriority(all, 3) = OfPriorityIn(asked, all, 3)
        /\ Async!OfPriority(all, 2) = OfPriorityIn(asked, all, 2)
        /\ Async!OfPriority(all, 1) = OfPriorityIn(asked, all, 1)
        /\ Async!OfPriority(all, 0) = OfPriorityIn(asked, all, 0)
    BY <1>3
  <2> HIDE <1>3
  <2> HIDE DEF all
  <2> QED
    BY <2>1, <2>2, Zenon
<1> HIDE DEF all
<1>5. /\ Async!Reinsert(q, r) \in Seq(S) /\ Items(Async!Reinsert(q, r)) = Items(all)
      /\ \A i, j : Ahead(Async!Reinsert(q, r), i, j) =>
           \/ asked[i].priority > asked[j].priority
           \/ asked[i].priority = asked[j].priority /\ Ahead(all, i, j)
  BY <1>1, <1>2, <1>4, FourPriorities
<1> QED
  BY <1>1, <1>5 DEF all

\* A new item goes before the first of a lower priority.
Inserted(S, q, r, e, p) ==
  \E a, b \in Seq(S) :
    /\ q = a \o b /\ r = a \o <<e>> \o b
    /\ \A i \in Items(a) : ~(asked[i].priority < p)
    /\ b # <<>> => asked[b[1]].priority < p

LEMMA AsyncInserts ==
  ASSUME NEW S, NEW q \in Seq(S), NEW e, NEW p
  PROVE  Inserted(S, q, Async!InsertByPriority(q, e, p), e, p)
<1> DEFINE T == {k \in 1 .. Len(q) : asked[q[k]].priority < p}
           n == IF T # {} THEN Async!Min(T) ELSE 0
           m == IF n = 0 THEN Len(q) + 1 ELSE n
           a == SubSeq(q, 1, m - 1)
           b == SubSeq(q, m, Len(q))
<1>1. Len(q) \in Nat /\ \A k \in 1 .. Len(q) : q[k] \in S
  BY LenProperties
<1>2. Async!InsertByPriority(q, e, p) = Async!InsertAt(q, m, e)
  BY DEF Async!InsertByPriority, Async!SelectInSeq
<1>3. T # {} => n \in T /\ \A k \in T : n <= k
  <2> SUFFICES ASSUME T # {} PROVE Async!Min(T) \in T /\ \A k \in T : Async!Min(T) <= k
    OBVIOUS
  <2>1. T \in SUBSET Nat
    BY <1>1
  <2>2. \E x \in T : \A y \in T : x <= y
    BY <2>1, LeastOf
  <2> QED
    BY <2>2 DEF Async!Min
<1>4. /\ m \in 1 .. Len(q) + 1 /\ \A k \in 1 .. m - 1 : k \in 1 .. Len(q) /\ k \notin T
      /\ m <= Len(q) => m \in T
  <2>1. CASE T = {}
    <3>1. m = Len(q) + 1
      BY <2>1
    <3> HIDE DEF T, m
    <3> QED
      BY <1>1, <2>1, <3>1
  <2>2. CASE T # {}
    <3>1. n \in T /\ n \in 1 .. Len(q)
      BY <1>3, <2>2
    <3>2. m = n
      BY <3>1
    <3>3. \A k \in 1 .. m - 1 : k \in 1 .. Len(q) /\ ~(n <= k)
      BY <1>1, <3>1, <3>2
    <3> HIDE DEF T, m, n
    <3> QED
      BY <1>1, <1>3, <2>2, <3>1, <3>2, <3>3
  <2> QED
    BY <2>1, <2>2
<1>5. Async!InsertAt(q, m, e) = a \o <<e>> \o b
  BY DEF Async!InsertAt
<1> HIDE DEF m, n
<1>6. m - 1 \in 0 .. Len(q) /\ m - 1 + 1 = m
  BY <1>1, <1>4
<1>7. /\ a \in Seq(S) /\ b \in Seq(S) /\ q = a \o b /\ Len(a) = m - 1
  <2>1. /\ SubSeq(q, 1, m - 1) \in Seq(S) /\ SubSeq(q, m - 1 + 1, Len(q)) \in Seq(S)
        /\ Len(SubSeq(q, 1, m - 1)) = m - 1
        /\ q = SubSeq(q, 1, m - 1) \o SubSeq(q, m - 1 + 1, Len(q))
    BY <1>6, SplitAt
  <2> QED
    BY <1>6, <2>1
<1>8. \A k \in 1 .. m - 1 : a[k] = q[k]
  <2>1. \A k \in 1 .. m - 1 : q[k] \in S
    BY <1>1, <1>4
  <2>2. \A k \in 1 .. m - 1 - 1 + 1 : a[k] = q[1 + k - 1]
    BY <1>6, <2>1, SubSeqProperties
  <2> QED
    BY <1>6, <2>2
<1>9. ASSUME b # <<>> PROVE asked[b[1]].priority < p
  <2>1. \A k \in m .. Len(q) : q[k] \in S
    BY <1>1, <1>4
  <2>2. /\ Len(b) = IF m <= Len(q) THEN Len(q) - m + 1 ELSE 0
        /\ \A k \in 1 .. Len(q) - m + 1 : b[k] = q[m + k - 1]
    BY <1>1, <1>4, <2>1, SubSeqProperties
  <2>3. Len(b) # 0
    BY <1>7, <1>9, EmptySeq
  <2>4. m <= Len(q) /\ b[1] = q[m]
    BY <1>1, <1>4, <2>2, <2>3
  <2> QED
    BY <1>4, <2>4
<1>10. ASSUME NEW i \in Items(a) PROVE ~(asked[i].priority < p)
  <2>1. PICK k \in 1 .. m - 1 : i = a[k]
    BY <1>7, LenProperties DEF Items
  <2>2. k \in 1 .. Len(q) /\ k \notin T /\ i = q[k]
    BY <1>4, <1>8, <2>1
  <2> QED
    BY <2>2
<1> HIDE DEF a, b, T
<1> QED
  BY <1>2, <1>5, <1>7, <1>9, <1>10 DEF Inserted

\* Kinds and priorities of one item more.
Extends(kd, pr, n, ke, pq) ==
  /\ DOMAIN ke = (DOMAIN kd) \cup {n} /\ n \notin DOMAIN kd /\ n \in Nat
  /\ \A i \in DOMAIN kd : i \in Nat /\ i < n /\ ke[i] = kd[i] /\ pq[i] = pr[i]

LEMMA WorkingGrows ==
  ASSUME NEW kd, NEW pr, NEW n, NEW ke, NEW pq, Extends(kd, pr, n, ke, pq),
         NEW js, NEW c, Working(kd, pr, js, c)
  PROVE  Working(ke, pq, js, c)
<1>1. PICK q \in Seq(DOMAIN kd) :
        (\A i : ~Ahead(q, i, i)) /\ (c => InTurn(kd, pr, q)) /\ Divided(kd, q, js)
  BY DEF Working
<1>2. q \in Seq(DOMAIN ke)
  BY SeqMonotonic DEF Extends
<1>3. Items(q) \subseteq DOMAIN kd /\ \A i, j : Ahead(q, i, j) => i \in Items(q) /\ j \in Items(q)
  BY ItemsOf
<1>4. Divided(ke, q, js)
  BY <1>1, <1>3, DividedStays DEF Extends
<1>5. c => InTurn(ke, pq, q)
  BY <1>1, <1>3 DEF Extends, InTurn, Alike
<1> QED
  BY <1>1, <1>2, <1>4, <1>5 DEF Working

\* An item n is queued, between those of a priority not lower, a, and those of
\* a lower one, b.
Between(pr, pq, n, a, b) ==
  (\A i \in Items(a) : ~(pr[i] < pq[n])) /\ (b # <<>> => pr[b[1]] < pq[n])

AnswersMore(kd, ke, n, an, anq) ==
  anq \in [DOMAIN ke -> Replies] /\ anq[n] = "none" /\ \A i \in DOMAIN kd : anq[i] = an[i]

Numbered(ke, pq) == \A i \in DOMAIN ke : pq[i] \in Nat

LEMMA PlacedQueueing ==
  ASSUME NEW kd, NEW pr, NEW qu, NEW re, NEW jb, NEW an, NEW c,
         Placed(kd, pr, qu, re, jb, an, c),
         NEW n, NEW ke, NEW pq, Extends(kd, pr, n, ke, pq),
         Numbered(ke, pq), NEW a \in Seq(DOMAIN kd), NEW b \in Seq(DOMAIN kd), qu = a \o b,
         Between(pr, pq, n, a, b), NEW anq, AnswersMore(kd, ke, n, an, anq)
  PROVE  Placed(ke, pq, a \o <<n>> \o b, re, jb, anq, c)
<1> DEFINE quq == a \o <<n>> \o b
<1> USE DEF Between, AnswersMore, Numbered
<1>1. /\ qu \in Seq(DOMAIN kd) /\ re \in Seq(DOMAIN kd) /\ Apartness(qu, re, jb)
      /\ \A i, j : Ahead(qu, i, j) => pr[i] >= pr[j]
  BY DEF Placed
<1>2. /\ Items(qu) = Items(a) \cup Items(b)
      /\ \A i, j : Ahead(qu, i, j) <=>
           Ahead(a, i, j) \/ Ahead(b, i, j) \/ (i \in Items(a) /\ j \in Items(b))
  BY ItemsOfCat
<1>3. /\ a \in Seq(DOMAIN ke) /\ b \in Seq(DOMAIN ke) /\ re \in Seq(DOMAIN ke)
      /\ <<n>> \in Seq(DOMAIN ke)
  <2>1. n \in DOMAIN ke
    BY DEF Extends
  <2> QED
    BY <1>1, <2>1, SeqMonotonic DEF Extends
<1>4. Items(<<n>>) = {n} /\ \A i, j : ~Ahead(<<n>>, i, j)
  BY OneItem
<1>5. /\ a \o <<n>> \in Seq(DOMAIN ke) /\ Items(a \o <<n>>) = Items(a) \cup {n}
      /\ \A i, j : Ahead(a \o <<n>>, i, j) <=> Ahead(a, i, j) \/ (i \in Items(a) /\ j = n)
  <2>1. /\ a \o <<n>> \in Seq(DOMAIN ke) /\ Items(a \o <<n>>) = Items(a) \cup Items(<<n>>)
        /\ \A i, j : Ahead(a \o <<n>>, i, j) <=>
             Ahead(a, i, j) \/ Ahead(<<n>>, i, j) \/ (i \in Items(a) /\ j \in Items(<<n>>))
    BY <1>3, ItemsOfCat
  <2> QED
    BY <1>4, <2>1
<1>6. /\ quq \in Seq(DOMAIN ke) /\ Items(quq) = Items(a \o <<n>>) \cup Items(b)
      /\ \A i, j : Ahead(quq, i, j) <=>
           Ahead(a \o <<n>>, i, j) \/ Ahead(b, i, j) \/ (i \in Items(a \o <<n>>) /\ j \in Items(b))
  BY <1>3, <1>5, ItemsOfCat
<1>7. /\ quq \in Seq(DOMAIN ke) /\ Items(quq) = Items(qu) \cup {n}
      /\ \A i, j : Ahead(quq, i, j) =>
           Ahead(qu, i, j) \/ (i \in Items(a) /\ j = n) \/ (i = n /\ j \in Items(b))
  BY <1>2, <1>5, <1>6
<1> HIDE DEF quq
<1>8. /\ Items(qu) \subseteq DOMAIN kd /\ Items(re) \subseteq DOMAIN kd
      /\ Items(a) \subseteq DOMAIN kd /\ Items(b) \subseteq DOMAIN kd
      /\ \A i, j : Ahead(qu, i, j) => i \in DOMAIN kd /\ j \in DOMAIN kd
  BY <1>1, ItemsOf
<1>9. \A s \in SlotSet : \A i : Staged(jb[s], i) => i \in DOMAIN kd
  BY WorkingIsIn DEF Placed
<1>10. n \notin DOMAIN kd /\ n \in DOMAIN ke /\ n \in Nat /\ DOMAIN ke = (DOMAIN kd) \cup {n}
  BY DEF Extends
<1>11. ASSUME NEW i \in Items(b)
       PROVE  pr[i] < pq[n]
  <2>1. b # <<>>
    BY <1>11, NoItems
  <2>2. /\ Items(b) = {b[1]} \cup Items(Tail(b))
        /\ \A j \in Items(Tail(b)) : Ahead(b, b[1], j)
    BY <2>1, ItemsOfTail
  <2>3. CASE i = b[1]
    BY <2>1, <2>3
  <2>4. CASE Ahead(b, b[1], i)
    <3>1. pr[b[1]] >= pr[i] /\ pr[b[1]] < pq[n]
      BY <1>1, <1>2, <2>1, <2>4
    <3>2. i \in DOMAIN kd /\ b[1] \in DOMAIN kd
      BY <1>8, <2>2
    <3>3. pr[i] \in Nat /\ pr[b[1]] \in Nat /\ pq[n] \in Nat
      BY <1>10, <3>2 DEF Extends
    <3> QED
      BY <3>1, <3>3
  <2> QED
    BY <1>11, <2>2, <2>3, <2>4
<1>12. Apartness(quq, re, jb)
  <2>1. \A i : ~Ahead(quq, i, i)
    BY <1>1, <1>7, <1>8, <1>10 DEF Apartness
  <2>2. Items(quq) \cap Items(re) = {}
    BY <1>1, <1>7, <1>8, <1>10 DEF Apartness
  <2>3. \A s \in SlotSet : \A i : Staged(jb[s], i) => i \notin Items(quq) /\ i \notin Items(re)
    BY <1>1, <1>7, <1>9, <1>10 DEF Apartness
  <2> QED
    BY <1>1, <2>1, <2>2, <2>3 DEF Apartness
<1>13. \A i \in DOMAIN ke : anq[i] = "none" <=> Waits(quq, re, jb, i)
  BY <1>7, <1>10 DEF Placed, Waits
<1>14. ASSUME NEW i, NEW j, Ahead(quq, i, j)
       PROVE  pq[i] >= pq[j] /\ (Ahead(qu, i, j) \/ (i \in DOMAIN kd /\ j = n) \/ pq[i] # pq[j])
  <2>1. CASE Ahead(qu, i, j)
    BY <1>1, <1>8, <2>1 DEF Extends
  <2>2. CASE i \in Items(a) /\ j = n
    <3>1. i \in DOMAIN kd /\ pq[i] = pr[i] /\ ~(pr[i] < pq[n])
      BY <1>8, <2>2 DEF Extends
    <3>2. pq[i] \in Nat /\ pq[n] \in Nat
      BY <1>10, <3>1
    <3> QED
      BY <2>2, <3>1, <3>2
  <2>3. CASE i = n /\ j \in Items(b)
    <3>1. j \in DOMAIN kd /\ pq[j] = pr[j] /\ pr[j] < pq[n]
      BY <1>8, <1>11, <2>3 DEF Extends
    <3>2. pq[j] \in Nat /\ pq[n] \in Nat
      BY <1>10, <3>1
    <3> QED
      BY <2>3, <3>1, <3>2
  <2> QED
    BY <1>7, <1>14, <2>1, <2>2, <2>3
<1>15. ASSUME c PROVE Orderly(ke, pq, quq, re, jb)
  <2>1. Orderly(kd, pr, qu, re, jb)
    BY <1>15 DEF Placed
  <2>2. \A i \in Items(re) : ke[i] = "delete"
    BY <1>8, <2>1 DEF Orderly, Extends
  <2>3. ASSUME NEW i, NEW j, Ahead(quq, i, j), Alike(ke, pq, i, j)
        PROVE  i < j
    <3>1. CASE Ahead(qu, i, j)
      <4>1. Alike(kd, pr, i, j)
        BY <1>8, <2>3, <3>1 DEF Alike, Extends
      <4> QED
        BY <2>1, <3>1, <4>1 DEF Orderly, InTurn
    <3>2. CASE i \in DOMAIN kd /\ j = n
      BY <3>2 DEF Extends
    <3> QED
      BY <1>14, <2>3, <3>1, <3>2 DEF Alike
  <2>4. ASSUME NEW s \in SlotSet, NEW i, NEW j,
               Staged(jb[s], i), j \in Items(quq), Alike(ke, pq, i, j)
        PROVE  i < j
    <3>1. i \in DOMAIN kd
      BY <1>9, <2>4
    <3>2. CASE j = n
      BY <3>1, <3>2 DEF Extends
    <3>3. CASE j \in Items(qu)
      <4>1. Alike(kd, pr, i, j)
        BY <1>8, <2>4, <3>1, <3>3 DEF Alike, Extends
      <4> QED
        BY <2>1, <2>4, <3>3, <4>1 DEF Orderly
    <3> QED
      BY <1>7, <2>4, <3>2, <3>3
  <2> QED
    BY <2>2, <2>3, <2>4 DEF Orderly, InTurn
<1>16. \A s \in SlotSet : Working(ke, pq, jb[s], c)
  BY WorkingGrows DEF Placed
<1>17. Placed(ke, pq, quq, re, jb, anq, c)
  BY <1>3, <1>7, <1>12, <1>13, <1>14, <1>15, <1>16 DEF Placed
<1> QED
  BY <1>17 DEF quq

-----------------------------------------------------------------------------
(* AsyncFlushQueue: its statements.                                        *)

StatementOf(D) == [slot : 0 .. MaxConcurrent + 1, kind : AllKinds, batch : Seq(D)]

\* Statement x carries the first job of its slot.
Serves(jb, x) ==
  /\ jb[x.slot] # <<>> /\ x.kind = jb[x.slot][1].kind
  /\ Items(jb[x.slot][1].batch) \subseteq Items(x.batch)

\* Every slot with jobs has one of the statements sts, but those in out none.
Sent(D, sts, jb, out) ==
  /\ sts \in Seq(StatementOf(D))
  /\ \A x \in Items(sts) : x.slot # 0 => x.slot \in SlotSet \ out /\ Serves(jb, x)
  /\ \A x, y : Ahead(sts, x, y) => x.slot = 0 \/ x.slot # y.slot
  /\ \A t \in SlotSet \ out : jb[t] # <<>> => \E x \in Items(sts) : x.slot = t

\* One statement at a time, of its own batch, and nothing pending without it.
Alone(sts, ps, jb) ==
  /\ Len(sts) <= 1
  /\ \A x \in Items(sts) : x.slot # 0 /\ x.batch = jb[x.slot][1].batch
  /\ \A kind \in {"insert", "update"} : ps[kind] = <<>> \/ \E x \in Items(sts) : x.kind = kind

\* A sequence without the element at k.
LEMMA WithoutOne ==
  ASSUME NEW S, NEW q \in Seq(S), NEW k \in DOMAIN q
  PROVE  LET r == Async!RemoveAt(q, k) IN
         /\ r \in Seq(S) /\ Items(q) = Items(r) \cup {q[k]} /\ q[k] \in S
         /\ \A x, y : Ahead(r, x, y) => Ahead(q, x, y)
         /\ \A x \in Items(r) : Ahead(q, x, q[k]) \/ Ahead(q, q[k], x)
         /\ Len(q) <= 1 => r = <<>>
<1> DEFINE a == SubSeq(q, 1, k - 1)
           b == SubSeq(q, k + 1, Len(q))
           c == SubSeq(q, k, Len(q))
           r == Async!RemoveAt(q, k)
<1>1. Len(q) \in Nat /\ k \in 1 .. Len(q) /\ \A l \in 1 .. Len(q) : q[l] \in S
  BY LenProperties
<1>2. k - 1 \in 0 .. Len(q) /\ k - 1 + 1 = k
  BY <1>1
<1>3. /\ a \in Seq(S) /\ c \in Seq(S) /\ Len(a) = k - 1
      /\ Items(q) = Items(a) \cup Items(c)
      /\ \A x, y : Ahead(q, x, y) <=>
           Ahead(a, x, y) \/ Ahead(c, x, y) \/ (x \in Items(a) /\ y \in Items(c))
  <2>1. /\ SubSeq(q, 1, k - 1) \in Seq(S) /\ SubSeq(q, k - 1 + 1, Len(q)) \in Seq(S)
        /\ Len(SubSeq(q, 1, k - 1)) = k - 1
        /\ Items(q) = Items(SubSeq(q, 1, k - 1)) \cup Items(SubSeq(q, k - 1 + 1, Len(q)))
        /\ \A x, y : Ahead(q, x, y) <=>
             \/ Ahead(SubSeq(q, 1, k - 1), x, y) \/ Ahead(SubSeq(q, k - 1 + 1, Len(q)), x, y)
             \/ x \in Items(SubSeq(q, 1, k - 1)) /\ y \in Items(SubSeq(q, k - 1 + 1, Len(q)))
    BY <1>2, SplitAt
  <2> QED
    BY <1>2, <2>1
<1>4. /\ b \in Seq(S) /\ <<q[k]>> \in Seq(S) /\ q[k] \in S /\ c = <<q[k]>> \o b
      /\ Len(b) = Len(q) - k
  <2>1. k \in 1 .. Len(q) /\ Len(q) \in k .. Len(q)
    BY <1>1
  <2>2. c = <<q[k]>> \o b
    BY <2>1, SubSeqRecursiveFirst
  <2>3. \A l \in k + 1 .. Len(q) : q[l] \in S
    BY <1>1
  <2>4. b \in Seq(S) /\ Len(b) = IF k + 1 <= Len(q) THEN Len(q) - (k + 1) + 1 ELSE 0
    BY <1>1, <2>3, SubSeqProperties
  <2>5. Len(b) = Len(q) - k
    BY <1>1, <2>4
  <2> QED
    BY <1>1, <2>2, <2>4, <2>5
<1>5. r = a \o b
  BY DEF Async!RemoveAt
<1> HIDE DEF a, b, c, r
<1>6. /\ Items(c) = {q[k]} \cup Items(b)
      /\ \A x, y : Ahead(c, x, y) <=> Ahead(b, x, y) \/ (x = q[k] /\ y \in Items(b))
  <2>1. /\ Items(<<q[k]>> \o b) = Items(<<q[k]>>) \cup Items(b)
        /\ \A x, y : Ahead(<<q[k]>> \o b, x, y) <=>
             Ahead(<<q[k]>>, x, y) \/ Ahead(b, x, y) \/ (x \in Items(<<q[k]>>) /\ y \in Items(b))
    BY <1>4, ItemsOfCat
  <2>2. Items(<<q[k]>>) = {q[k]} /\ \A x, y : ~Ahead(<<q[k]>>, x, y)
    BY OneItem
  <2> QED
    BY <1>4, <2>1, <2>2
<1>7. /\ a \o b \in Seq(S) /\ Items(a \o b) = Items(a) \cup Items(b)
      /\ \A x, y : Ahead(a \o b, x, y) <=>
           Ahead(a, x, y) \/ Ahead(b, x, y) \/ (x \in Items(a) /\ y \in Items(b))
  BY <1>3, <1>4, ItemsOfCat
<1>8. Len(q) <= 1 => r = <<>>
  <2>1. Len(a \o b) = Len(a) + Len(b)
    BY <1>3, <1>4, ConcatProperties
  <2>2. Len(r) = Len(q) - 1
    BY <1>1, <1>3, <1>4, <1>5, <2>1
  <2>3. r \in Seq(S)
    BY <1>5, <1>7
  <2>4. Len(q) <= 1 => Len(r) = 0
    BY <1>1, <2>2
  <2> QED
    BY <2>3, <2>4, EmptySeq
<1> QED
  BY <1>3, <1>4, <1>5, <1>6, <1>7, <1>8 DEF r

\* The statement at k is over, and its slot without one.
LEMMA SentOver ==
  ASSUME NEW D, NEW sts, NEW jb, Sent(D, sts, jb, {}), NEW k \in DOMAIN sts
  PROVE  Sent(D, Async!RemoveAt(sts, k), jb, {sts[k].slot} \ {0})
<1> DEFINE r == Async!RemoveAt(sts, k)
           s == sts[k].slot
<1>1. /\ r \in Seq(StatementOf(D)) /\ Items(sts) = Items(r) \cup {sts[k]}
      /\ \A x, y : Ahead(r, x, y) => Ahead(sts, x, y)
      /\ \A x \in Items(r) : Ahead(sts, x, sts[k]) \/ Ahead(sts, sts[k], x)
  BY WithoutOne DEF Sent
<1> HIDE DEF r
<1>2. \A x \in Items(r) : x.slot # 0 => x.slot # s
  BY <1>1 DEF Sent
<1>3. \A x \in Items(r) : x.slot # 0 => x.slot \in SlotSet \ ({s} \ {0}) /\ Serves(jb, x)
  BY <1>1, <1>2 DEF Sent
<1>4. ASSUME NEW t \in SlotSet \ ({s} \ {0}), jb[t] # <<>>
      PROVE  \E x \in Items(r) : x.slot = t
  <2>1. PICK x \in Items(sts) : x.slot = t
    BY <1>4 DEF Sent
  <2>2. t # 0
    BY BatchingAssumption DEF SlotSet
  <2> QED
    BY <1>1, <1>4, <2>1, <2>2
<1>5. Sent(D, r, jb, {s} \ {0})
  BY <1>1, <1>3, <1>4 DEF Sent
<1> QED
  BY <1>5 DEF r

\* The batch of the statement at k gives it up.
LEMMA SentGivenUp ==
  ASSUME NEW D, NEW sts, NEW jb, Sent(D, sts, jb, {}), NEW k \in DOMAIN sts
  PROVE  Sent(D, [sts EXCEPT ![k].slot = 0], jb, {sts[k].slot} \ {0})
<1> DEFINE s == sts[k].slot
           x0 == [sts[k] EXCEPT !.slot = 0]
           r == [sts EXCEPT ![k] = x0]
<1>1. sts \in Seq(StatementOf(D)) /\ DOMAIN sts = 1 .. Len(sts) /\ Len(sts) \in Nat
  BY LenProperties DEF Sent
<1>2. \A l \in DOMAIN sts : sts[l] \in StatementOf(D) /\ sts[l] \in Items(sts)
  BY <1>1, LenProperties DEF Items
<1>3. x0 \in StatementOf(D) /\ x0.slot = 0
  <2>1. sts[k] \in StatementOf(D)
    BY <1>2
  <2>2. 0 \in 0 .. MaxConcurrent + 1
    BY BatchingAssumption
  <2> QED
    BY <2>1, <2>2 DEF StatementOf
<1> HIDE DEF x0
<1>4. /\ r \in Seq(StatementOf(D)) /\ DOMAIN r = DOMAIN sts
      /\ r[k] = x0 /\ \A l \in DOMAIN sts : l # k => r[l] = sts[l]
  BY <1>1, <1>3, ExceptSeq
<1>5. r = [sts EXCEPT ![k].slot = 0]
  BY DEF x0
<1> HIDE DEF r
<1>6. ASSUME NEW x \in Items(r), x.slot # 0
      PROVE  /\ x \in Items(sts) /\ x.slot # s
             /\ x.slot \in SlotSet \ ({s} \ {0}) /\ Serves(jb, x)
  <2>1. PICK l \in DOMAIN sts : x = r[l] /\ l # k
    BY <1>3, <1>4, <1>6 DEF Items
  <2>2. x = sts[l] /\ x \in Items(sts)
    BY <1>2, <1>4, <2>1
  <2>3. Ahead(sts, x, sts[k]) \/ Ahead(sts, sts[k], x)
    BY <1>1, <2>1, <2>2 DEF Ahead
  <2>4. x.slot # s
    BY <1>6, <2>3 DEF Sent
  <2> QED
    BY <1>6, <2>2, <2>4 DEF Sent
<1>7. ASSUME NEW x, NEW y, Ahead(r, x, y)
      PROVE  x.slot = 0 \/ x.slot # y.slot
  <2>1. PICK l \in DOMAIN sts, m \in DOMAIN sts : l < m /\ r[l] = x /\ r[m] = y
    BY <1>4, <1>7 DEF Ahead
  <2>2. CASE l = k
    BY <1>3, <1>4, <2>1, <2>2
  <2>3. CASE l # k /\ m = k
    BY <1>3, <1>4, <2>1, <2>3
  <2>4. CASE l # k /\ m # k
    <3>1. Ahead(sts, x, y)
      BY <1>4, <2>1, <2>4 DEF Ahead
    <3> QED
      BY <3>1 DEF Sent
  <2> QED
    BY <2>2, <2>3, <2>4
<1>8. ASSUME NEW t \in SlotSet \ ({s} \ {0}), jb[t] # <<>>
      PROVE  \E x \in Items(r) : x.slot = t
  <2>1. PICK x \in Items(sts) : x.slot = t
    BY <1>8 DEF Sent
  <2>2. t # 0
    BY BatchingAssumption DEF SlotSet
  <2>3. PICK l \in DOMAIN sts : x = sts[l]
    BY DEF Items
  <2>4. l # k
    BY <1>8, <2>1, <2>2, <2>3
  <2>5. r[l] = x /\ r[l] \in Items(r)
    BY <1>4, <2>3, <2>4 DEF Items
  <2> QED
    BY <2>1, <2>5
<1>9. Sent(D, r, jb, {s} \ {0})
  BY <1>4, <1>6, <1>7, <1>8 DEF Sent
<1> QED
  BY <1>5, <1>9

\* Slot s, without a statement, gets one for its first job, or has no job.
LEMMA SentAgain ==
  ASSUME NEW D, NEW sts, NEW jb, NEW s \in SlotSet, Sent(D, sts, jb, {s}),
         NEW jq, \A t \in SlotSet : t # s => jq[t] = jb[t],
         jq[s] # <<>>, jq[s][1].kind \in AllKinds,
         NEW bt \in Seq(D), Items(jq[s][1].batch) \subseteq Items(bt)
  PROVE  Sent(D, Append(sts, [slot |-> s, kind |-> jq[s][1].kind, batch |-> bt]), jq, {})
<1> DEFINE z == [slot |-> s, kind |-> jq[s][1].kind, batch |-> bt]
           r == Append(sts, z)
<1>1. z \in StatementOf(D) /\ z.slot = s /\ s # 0 /\ Serves(jq, z)
  BY BatchingAssumption DEF StatementOf, SlotSet, Serves
<1> HIDE DEF z
<1>2. /\ r \in Seq(StatementOf(D)) /\ Items(r) = Items(sts) \cup {z}
      /\ \A x, y : Ahead(r, x, y) <=> Ahead(sts, x, y) \/ (x \in Items(sts) /\ y = z)
  BY <1>1, ItemsOfAppend DEF Sent
<1> HIDE DEF r
<1>3. \A x \in Items(sts) : x.slot # 0 => x.slot \in SlotSet /\ x.slot # s /\ Serves(jq, x)
  BY DEF Sent, Serves
<1>4. Sent(D, r, jq, {})
  BY <1>1, <1>2, <1>3 DEF Sent
<1> QED
  BY <1>4 DEF r, z

LEMMA SentNoMore ==
  ASSUME NEW D, NEW sts, NEW jb, NEW s \in SlotSet, Sent(D, sts, jb, {s}),
         NEW jq, \A t \in SlotSet : t # s => jq[t] = jb[t], jq[s] = <<>>
  PROVE  Sent(D, sts, jq, {})
BY DEF Sent, Serves

LEMMA SentFree ==
  ASSUME NEW D, NEW sts, NEW jb, Sent(D, sts, jb, {}), NEW s \in SlotSet, jb[s] = <<>>
  PROVE  Sent(D, sts, jb, {s})
BY DEF Sent, Serves

LEMMA SentGrows ==
  ASSUME NEW D, NEW sts, NEW jb, NEW out, Sent(D, sts, jb, out), NEW E, D \subseteq E
  PROVE  Sent(E, sts, jb, out)
<1>1. StatementOf(D) \subseteq StatementOf(E)
  <2>1. Seq(D) \subseteq Seq(E)
    BY SeqMonotonic
  <2> QED
    BY <2>1 DEF StatementOf
<1>2. sts \in Seq(StatementOf(E))
  BY <1>1, SeqMonotonic DEF Sent
<1> QED
  BY <1>2 DEF Sent

-----------------------------------------------------------------------------
(* AsyncFlushQueue: what its statements wrote.                             *)

\* What was written is answered, once and, of items that are alike, before
\* what is not answered.
LoggedOnce(kd, pr, wr, an) ==
  /\ \A x \in Items(wr) : InTurn(kd, pr, x.batch)
  /\ \A x \in Items(wr) : \A i \in Items(x.batch) : an[i] # "none"
  /\ \A x \in Items(wr) : \A i \in Items(x.batch) : \A j \in DOMAIN kd :
       an[j] = "none" /\ Alike(kd, pr, i, j) => i < j
  /\ \A x, y : Ahead(wr, x, y) => \A i \in Items(x.batch), j \in Items(y.batch) :
       i # j /\ (Alike(kd, pr, i, j) => i < j)

WriteOf(D) == [kind : AllKinds, batch : Seq(D)]

\* The statements wr that succeeded, when an was answered.
Logged(kd, pr, wr, an, c) ==
  /\ wr \in Seq(WriteOf(DOMAIN kd))
  /\ \A i \in DOMAIN kd : an[i] = "ok" => \E x \in Items(wr) : i \in Items(x.batch)
  /\ c => LoggedOnce(kd, pr, wr, an)

LEMMA LoggedFailing ==
  ASSUME NEW kd, NEW pr, NEW wr, NEW an, NEW c, Logged(kd, pr, wr, an, c),
         NEW is, NEW d, d => c
  PROVE  Logged(kd, pr, wr, Say(kd, is, "failed", an), d)
<1> DEFINE anq == Say(kd, is, "failed", an)
<1>1. \A i \in DOMAIN kd : anq[i] = IF i \in is THEN "failed" ELSE an[i]
  BY DEF Say
<1> HIDE DEF anq
<1>2. \A x \in Items(wr) : Items(x.batch) \subseteq DOMAIN kd
  <2> SUFFICES ASSUME NEW x \in Items(wr) PROVE Items(x.batch) \subseteq DOMAIN kd
    OBVIOUS
  <2>1. x \in WriteOf(DOMAIN kd)
    BY ItemsOf DEF Logged
  <2>2. x.batch \in Seq(DOMAIN kd)
    BY <2>1 DEF WriteOf
  <2> QED
    BY <2>2, ItemsOf
<1>3. \A i \in DOMAIN kd : (anq[i] = "ok" => an[i] = "ok") /\ (anq[i] = "none" <=> an[i] = "none" /\ i \notin is)
  BY <1>1
<1>4. d => LoggedOnce(kd, pr, wr, anq)
  BY <1>2, <1>3 DEF Logged, LoggedOnce
<1>5. Logged(kd, pr, wr, anq, d)
  BY <1>3, <1>4 DEF Logged
<1> QED
  BY <1>5 DEF anq

\* A statement with the items own of its batch succeeds.
LEMMA LoggedWriting ==
  ASSUME NEW kd, NEW pr, NEW wr, NEW an, NEW c, Logged(kd, pr, wr, an, c),
         NEW kind \in AllKinds, NEW b \in Seq(DOMAIN kd), NEW own \in SUBSET Items(b), NEW d, d => c,
         d => Items(b) \subseteq own /\ InTurn(kd, pr, b) /\ \A i \in own : an[i] = "none",
         d => \A i \in own, j \in DOMAIN kd :
                an[j] = "none" /\ j \notin own /\ Alike(kd, pr, i, j) => i < j
  PROVE  Logged(kd, pr, Append(wr, [kind |-> kind, batch |-> b]), Say(kd, own, "ok", an), d)
<1> DEFINE anq == Say(kd, own, "ok", an)
           z == [kind |-> kind, batch |-> b]
           wrq == Append(wr, z)
<1>1. \A i \in DOMAIN kd : anq[i] = IF i \in own THEN "ok" ELSE an[i]
  BY DEF Say
<1>2. z \in WriteOf(DOMAIN kd) /\ z.batch = b
  BY DEF WriteOf
<1> HIDE DEF anq, z
<1>3. /\ wrq \in Seq(WriteOf(DOMAIN kd)) /\ Items(wrq) = Items(wr) \cup {z}
      /\ \A x, y : Ahead(wrq, x, y) <=> Ahead(wr, x, y) \/ (x \in Items(wr) /\ y = z)
  BY <1>2, ItemsOfAppend DEF Logged
<1> HIDE DEF wrq
<1>4. \A x \in Items(wr) : Items(x.batch) \subseteq DOMAIN kd
  <2> SUFFICES ASSUME NEW x \in Items(wr) PROVE Items(x.batch) \subseteq DOMAIN kd
    OBVIOUS
  <2>1. x \in WriteOf(DOMAIN kd)
    BY ItemsOf DEF Logged
  <2>2. x.batch \in Seq(DOMAIN kd)
    BY <2>1 DEF WriteOf
  <2> QED
    BY <2>2, ItemsOf
<1>5. Items(b) \subseteq DOMAIN kd
  BY ItemsOf
<1>6. \A i \in DOMAIN kd : anq[i] = "ok" => \E x \in Items(wrq) : i \in Items(x.batch)
  BY <1>1, <1>2, <1>3 DEF Logged
<1>7. ASSUME d PROVE LoggedOnce(kd, pr, wrq, anq)
  <2>1. LoggedOnce(kd, pr, wr, an) /\ own = Items(b) /\ InTurn(kd, pr, b)
    BY <1>7 DEF Logged
  <2>2. \A i \in own : an[i] = "none" /\ i \in DOMAIN kd
    BY <1>5, <1>7
  <2>3. \A x \in Items(wrq) : InTurn(kd, pr, x.batch)
    BY <1>2, <1>3, <2>1 DEF LoggedOnce
  <2>4. \A x \in Items(wrq) : \A i \in Items(x.batch) : anq[i] # "none"
    BY <1>1, <1>2, <1>3, <1>4, <1>5, <2>1 DEF LoggedOnce
  <2>5. ASSUME NEW x \in Items(wrq), NEW i \in Items(x.batch), NEW j \in DOMAIN kd,
               anq[j] = "none", Alike(kd, pr, i, j)
        PROVE  i < j
    <3>1. an[j] = "none" /\ j \notin own
      BY <1>1, <2>5
    <3>2. CASE x \in Items(wr)
      BY <2>1, <2>5, <3>1, <3>2 DEF LoggedOnce
    <3>3. CASE x = z
      BY <1>2, <1>7, <2>1, <2>5, <3>1, <3>3
    <3> QED
      BY <1>3, <3>2, <3>3
  <2>6. ASSUME NEW x, NEW y, Ahead(wrq, x, y), NEW i \in Items(x.batch), NEW j \in Items(y.batch)
        PROVE  i # j /\ (Alike(kd, pr, i, j) => i < j)
    <3>1. CASE Ahead(wr, x, y)
      BY <2>1, <2>6, <3>1 DEF LoggedOnce
    <3>2. CASE x \in Items(wr) /\ y = z
      <4>1. j \in own /\ an[j] = "none" /\ j \in DOMAIN kd
        BY <1>2, <2>1, <2>2, <2>6, <3>2
      <4> QED
        BY <2>1, <2>6, <3>2, <4>1 DEF LoggedOnce
    <3> QED
      BY <1>3, <2>6, <3>1, <3>2
  <2> QED
    BY <2>3, <2>4, <2>5, <2>6 DEF LoggedOnce
<1>8. Logged(kd, pr, wrq, anq, d)
  BY <1>3, <1>6, <1>7 DEF Logged
<1> QED
  BY <1>8 DEF wrq, anq, z

LEMMA LoggedGrows ==
  ASSUME NEW kd, NEW pr, NEW wr, NEW an, NEW c, Logged(kd, pr, wr, an, c),
         NEW n, NEW ke, NEW pq, Extends(kd, pr, n, ke, pq),
         NEW anq, anq[n] = "none", \A i \in DOMAIN kd : anq[i] = an[i]
  PROVE  Logged(ke, pq, wr, anq, c)
<1>1. wr \in Seq(WriteOf(DOMAIN kd)) /\ DOMAIN kd \subseteq DOMAIN ke
  BY DEF Logged, Extends
<1>2. wr \in Seq(WriteOf(DOMAIN ke))
  <2>1. Seq(DOMAIN kd) \subseteq Seq(DOMAIN ke)
    BY <1>1, SeqMonotonic
  <2>2. WriteOf(DOMAIN kd) \subseteq WriteOf(DOMAIN ke)
    BY <2>1 DEF WriteOf
  <2> QED
    BY <1>1, <2>2, SeqMonotonic
<1>3. ASSUME NEW x \in Items(wr)
      PROVE  Items(x.batch) \subseteq DOMAIN kd /\ \A i, j : Ahead(x.batch, i, j) => i \in DOMAIN kd /\ j \in DOMAIN kd
  <2>1. x \in WriteOf(DOMAIN kd)
    BY <1>1, ItemsOf
  <2>2. x.batch \in Seq(DOMAIN kd)
    BY <2>1 DEF WriteOf
  <2> QED
    BY <2>2, ItemsOf
<1>4. \A i \in DOMAIN ke : anq[i] = "ok" => \E x \in Items(wr) : i \in Items(x.batch)
  BY DEF Logged, Extends
<1>5. ASSUME c PROVE LoggedOnce(ke, pq, wr, anq)
  <2>1. LoggedOnce(kd, pr, wr, an)
    BY <1>5 DEF Logged
  <2>2. \A i, j \in DOMAIN kd : Alike(ke, pq, i, j) <=> Alike(kd, pr, i, j)
    BY DEF Alike, Extends
  <2>3. \A x \in Items(wr) : InTurn(ke, pq, x.batch)
    BY <1>3, <2>1, <2>2 DEF LoggedOnce, InTurn
  <2>4. \A x \in Items(wr) : \A i \in Items(x.batch) : anq[i] # "none"
    BY <1>3, <2>1 DEF LoggedOnce
  <2>5. ASSUME NEW x \in Items(wr), NEW i \in Items(x.batch), NEW j \in DOMAIN ke,
               anq[j] = "none", Alike(ke, pq, i, j)
        PROVE  i < j
    <3>1. i \in DOMAIN kd
      BY <1>3
    <3>2. CASE j \in DOMAIN kd
      BY <2>1, <2>2, <2>5, <3>1, <3>2 DEF LoggedOnce
    <3>3. CASE j = n
      BY <3>1, <3>3 DEF Extends
    <3> QED
      BY <3>2, <3>3 DEF Extends
  <2>6. ASSUME NEW x, NEW y, Ahead(wr, x, y), NEW i \in Items(x.batch), NEW j \in Items(y.batch)
        PROVE  i # j /\ (Alike(ke, pq, i, j) => i < j)
    <3>1. x \in Items(wr) /\ y \in Items(wr)
      BY <1>1, <2>6, ItemsOf
    <3>2. i \in DOMAIN kd /\ j \in DOMAIN kd
      BY <1>3, <3>1
    <3> QED
      BY <2>1, <2>2, <2>6, <3>2 DEF LoggedOnce
  <2> QED
    BY <2>3, <2>4, <2>5, <2>6 DEF LoggedOnce
<1> QED
  BY <1>2, <1>4, <1>5 DEF Logged

-----------------------------------------------------------------------------
(* AsyncFlushQueue: a batch is sent.                                       *)

AskedItem == [kind : AllKinds, priority : Priority, retryCount : 0 .. MaxRetries]

AskedOK(al) ==
  /\ al \in Seq(AskedItem)
  /\ Len(al) <= MaxItems

LEMMA AskedIs ==
  ASSUME NEW al, AskedOK(al)
  PROVE  /\ DOMAIN al = 1 .. Len(al) /\ Len(al) \in Nat
         /\ DOMAIN KindOf(al) = DOMAIN al /\ DOMAIN PriorityOf(al) = DOMAIN al
         /\ \A i \in DOMAIN al :
              /\ i \in Nat /\ KindOf(al)[i] = al[i].kind /\ al[i].kind \in AllKinds
              /\ PriorityOf(al)[i] = al[i].priority /\ al[i].priority \in 0 .. 3
<1>1. DOMAIN al = 1 .. Len(al) /\ Len(al) \in Nat /\ \A i \in DOMAIN al : al[i] \in AskedItem
  BY LenProperties DEF AskedOK
<1>2. \A i \in DOMAIN al : al[i].kind \in AllKinds /\ al[i].priority \in 0 .. 3
  BY <1>1, BatchingAssumption DEF AskedItem
<1> QED
  BY <1>1, <1>2 DEF KindOf, PriorityOf

\* The inserts and the updates that are pending.
PendingOf(D) == [{"insert", "update"} -> Seq(D)]

NothingPending(ps) == \A kind \in {"insert", "update"} : ps[kind] = <<>>

LEMMA AsyncStages ==
  ASSUME NEW q \in Seq(DOMAIN asked)
  PROVE  Async!JobsOf(q) = Statements(KindOf(asked), q)
<1> DEFINE of(kind) == Among(q, {i \in Items(q) : asked[i].kind = kind})
<1>1. ASSUME NEW kind
      PROVE  Async!Among(q, {i \in Async!Items(q) : asked[i].kind = kind}) = Chosen(KindOf(asked), q, kind)
  <2>1. {i \in Items(q) : asked[i].kind = kind} = {i \in Items(q) : KindOf(asked)[i] = kind}
    BY ItemsOf DEF KindOf
  <2> QED
    BY <2>1, AsyncNames DEF Chosen
<1>2. /\ Async!Among(q, {i \in Async!Items(q) : asked[i].kind = "insert"}) = Chosen(KindOf(asked), q, "insert")
      /\ Async!Among(q, {i \in Async!Items(q) : asked[i].kind = "update"}) = Chosen(KindOf(asked), q, "update")
      /\ Async!Among(q, {i \in Async!Items(q) : asked[i].kind = "delete"}) = Chosen(KindOf(asked), q, "delete")
  BY <1>1
<1> HIDE <1>1
<1> QED
  BY <1>2, Zenon DEF Async!JobsOf, Statements, Together, Apart

\* What a statement sends: its batch, and what was pending of the others'.
LEMMA AsyncSends ==
  ASSUME NEW D, NEW s, NEW job, job.kind \in AllKinds, job.batch \in Seq(D),
         NEW sts, NEW ps \in PendingOf(D), Async!Send(s, job, sts, ps)
  PROVE  /\ pending' \in PendingOf(D)
         /\ \E bt \in Seq(D) :
              /\ statements' = Append(sts, [slot |-> s, kind |-> job.kind, batch |-> bt])
              /\ Items(job.batch) \subseteq Items(bt)
              /\ NothingPending(ps) =>
                   bt = job.batch /\ \A kind \in {"insert", "update"} : pending'[kind] = <<>> \/ kind = job.kind
<1>1. CASE job.kind = "delete"
  <2>1. /\ statements' = Append(sts, [slot |-> s, kind |-> job.kind, batch |-> job.batch])
        /\ pending' = ps
    BY <1>1 DEF Async!Send
  <2> QED
    BY <2>1 DEF NothingPending
<1>2. CASE job.kind # "delete"
  <2> DEFINE bt == ps[job.kind] \o job.batch
  <2>1. job.kind \in {"insert", "update"} /\ ps[job.kind] \in Seq(D)
    BY <1>2 DEF AllKinds, PendingOf
  <2>2. /\ statements' = Append(sts, [slot |-> s, kind |-> job.kind, batch |-> bt])
        /\ pending' = [ps EXCEPT ![job.kind] = bt]
    BY <1>2 DEF Async!Send
  <2>3. bt \in Seq(D) /\ Items(bt) = Items(ps[job.kind]) \cup Items(job.batch)
    BY <2>1, ItemsOfCat
  <2>4. ASSUME NothingPending(ps) PROVE bt = job.batch
    <3>1. ps[job.kind] = <<>>
      BY <2>1, <2>4 DEF NothingPending
    <3> QED
      BY <3>1
  <2> HIDE DEF bt
  <2>5. pending' \in PendingOf(D)
    BY <2>1, <2>2, <2>3 DEF PendingOf
  <2>6. NothingPending(ps) => \A kind \in {"insert", "update"} : pending'[kind] = <<>> \/ kind = job.kind
    BY <2>1, <2>2 DEF PendingOf, NothingPending
  <2> QED
    BY <2>2, <2>3, <2>4, <2>5, <2>6
<1> QED
  BY <1>1, <1>2

\* The statement sent is the only one when no other was on its way.
LEMMA AloneSends ==
  ASSUME NEW D, NEW s \in SlotSet, NEW sts, NEW jq, NEW bt, NEW psq, NEW kind,
         sts = <<>>, bt = jq[s][1].batch,
         \A k \in {"insert", "update"} : psq[k] = <<>> \/ k = kind
  PROVE  Alone(Append(sts, [slot |-> s, kind |-> kind, batch |-> bt]), psq, jq)
<1> DEFINE z == [slot |-> s, kind |-> kind, batch |-> bt]
<1>1. z.slot = s /\ z.kind = kind /\ z.batch = bt /\ s # 0
  BY BatchingAssumption DEF SlotSet
<1> HIDE DEF z
<1>2. Append(sts, z) = <<z>> /\ Len(<<z>>) = 1
  OBVIOUS
<1>3. Items(<<z>>) = {z}
  BY OneItem
<1>4. Alone(<<z>>, psq, jq)
  BY <1>1, <1>2, <1>3 DEF Alone
<1> QED
  BY <1>2, <1>4 DEF z

LEMMA AloneNothing ==
  ASSUME NEW ps, NEW jb, NothingPending(ps)
  PROVE  Alone(<<>>, ps, jb)
BY NoItems DEF Alone, NothingPending

\* The statements sts, what is pending, ps, and the jobs jb of the slots.
Flowing(D, sts, ps, jb, c) ==
  /\ Sent(D, sts, jb, {})
  /\ ps \in PendingOf(D)
  /\ c => Alone(sts, ps, jb)

\* Slot s sends its first job.
LEMMA AsyncFlows ==
  ASSUME NEW D, NEW s \in SlotSet, NEW sts, NEW jb, Sent(D, sts, jb, {s}),
         NEW ps \in PendingOf(D), NEW c, c => sts = <<>> /\ NothingPending(ps),
         NEW jq, \A t \in SlotSet : t # s => jq[t] = jb[t], jq[s] # <<>>,
         jq[s][1].kind \in AllKinds, jq[s][1].batch \in Seq(D), Async!Send(s, jq[s][1], sts, ps)
  PROVE  Flowing(D, statements', pending', jq, c)
<1> DEFINE job == jq[s][1]
<1>1. /\ pending' \in PendingOf(D)
      /\ \E bt \in Seq(D) :
           /\ statements' = Append(sts, [slot |-> s, kind |-> job.kind, batch |-> bt])
           /\ Items(job.batch) \subseteq Items(bt)
           /\ NothingPending(ps) =>
                bt = job.batch /\ \A kind \in {"insert", "update"} : pending'[kind] = <<>> \/ kind = job.kind
  <2> HIDE DEF job
  <2>1. job.kind \in AllKinds /\ job.batch \in Seq(D) /\ Async!Send(s, job, sts, ps)
    BY DEF job
  <2> QED
    BY <2>1, AsyncSends
<1>2. PICK bt \in Seq(D) :
        /\ statements' = Append(sts, [slot |-> s, kind |-> job.kind, batch |-> bt])
        /\ Items(job.batch) \subseteq Items(bt)
        /\ NothingPending(ps) =>
             bt = job.batch /\ \A kind \in {"insert", "update"} : pending'[kind] = <<>> \/ kind = job.kind
  BY <1>1
<1>3. Sent(D, statements', jq, {})
  BY <1>2, SentAgain
<1>4. ASSUME c PROVE Alone(statements', pending', jq)
  <2>1. /\ sts = <<>> /\ bt = jq[s][1].batch
        /\ \A k \in {"insert", "update"} : pending'[k] = <<>> \/ k = job.kind
    BY <1>2, <1>4
  <2>2. Alone(Append(sts, [slot |-> s, kind |-> job.kind, batch |-> bt]), pending', jq)
    BY <2>1, AloneSends
  <2> QED
    BY <1>2, <2>2
<1> QED
  BY <1>1, <1>3, <1>4 DEF Flowing

\* A batch begins in slot s, which has no job in jb.
LEMMA AsyncStarts ==
  ASSUME AskedOK(asked), NEW qu, NEW re, NEW jb, NEW an, NEW c,
         Placed(KindOf(asked), PriorityOf(asked), qu, re, jb, an, c),
         NEW s \in SlotSet, jb[s] = <<>>, qu # <<>>,
         DOMAIN jobs = SlotSet, \A t \in SlotSet : t # s => jb[t] = jobs[t],
         NEW sts, Sent(DOMAIN asked, sts, jobs, {s}),
         NEW ps \in PendingOf(DOMAIN asked), c => sts = <<>> /\ NothingPending(ps),
         Async!Begin(s, Async!TakeFirst(qu, BatchSize), sts, ps)
  PROVE  /\ Placed(KindOf(asked), PriorityOf(asked), Async!TakeRest(qu, BatchSize), re, jobs', an, c)
         /\ Flowing(DOMAIN asked, statements', pending', jobs', c)
         /\ DOMAIN jobs' = SlotSet /\ jobs'[s] # <<>> /\ \A t \in SlotSet : t # s => jobs'[t] = jobs[t]
<1> DEFINE kd == KindOf(asked)
           pr == PriorityOf(asked)
           D == DOMAIN asked
           b == Async!TakeFirst(qu, BatchSize)
           todo == Statements(kd, b)
<1>1. DOMAIN kd = D /\ \A i \in DOMAIN kd : kd[i] \in AllKinds
  BY AskedIs
<1>2. BatchSize \in Nat \ {0}
  BY BatchingAssumption
<1>3. /\ todo # <<>>
      /\ Placed(kd, pr, Async!TakeRest(qu, BatchSize), re, [jb EXCEPT ![s] = todo], an, c)
  <2> HIDE DEF kd, pr
  <2>1. Placed(kd, pr, qu, re, jb, an, c)
    BY DEF kd, pr
  <2> QED
    BY <1>1, <1>2, <2>1, PlacedTaking
<1>4. b \in Seq(D)
  <2>1. qu \in Seq(D)
    BY <1>1 DEF Placed
  <2> QED
    BY <1>2, <2>1, AsyncTake
<1>5. jobs' = [jobs EXCEPT ![s] = todo] /\ Async!Send(s, todo[1], sts, ps)
  <2>1. Async!JobsOf(b) = todo
    BY <1>4, AsyncStages
  <2> QED
    BY <2>1 DEF Async!Begin
<1> HIDE DEF kd, pr, D, b, todo
<1>6. /\ DOMAIN jobs' = SlotSet /\ jobs'[s] = todo /\ \A t \in SlotSet : t # s => jobs'[t] = jobs[t]
      /\ [jb EXCEPT ![s] = todo] = jobs'
  <2>1. DOMAIN jb = SlotSet
    BY DEF Placed
  <2> QED
    BY <1>5, <2>1
<1>7. Placed(kd, pr, Async!TakeRest(qu, BatchSize), re, jobs', an, c)
  BY <1>3, <1>6
<1>8. jobs'[s][1].kind \in AllKinds /\ jobs'[s][1].batch \in Seq(D)
  <2>1. Working(kd, pr, jobs'[s], c)
    BY <1>7 DEF Placed
  <2> QED
    BY <1>1, <1>3, <1>6, <2>1, WorkingTail
<1>9. Flowing(D, statements', pending', jobs', c)
  <2>1. Sent(D, sts, jobs, {s}) /\ ps \in PendingOf(D)
    BY DEF D
  <2> QED
    BY <1>3, <1>5, <1>6, <1>8, <2>1, AsyncFlows
<1> QED
  BY <1>3, <1>6, <1>7, <1>9 DEF kd, pr, D

\* A queue and what waits for a retry are one queue again.
LEMMA AsyncReturns ==
  ASSUME AskedOK(asked), NEW qu, NEW re, NEW jb, NEW an, NEW c,
         Placed(KindOf(asked), PriorityOf(asked), qu, re, jb, an, c),
         NEW moved \in Seq(DOMAIN asked), NEW left \in Seq(DOMAIN asked),
         Items(re) = Items(moved) \cup Items(left), Items(moved) \cap Items(left) = {},
         \A i : ~Ahead(moved, i, i) /\ ~Ahead(left, i, i)
  PROVE  Placed(KindOf(asked), PriorityOf(asked), Async!Reinsert(qu, moved), left, jb, an, c)
<1> DEFINE kd == KindOf(asked)
           pr == PriorityOf(asked)
           D == DOMAIN asked
           quq == Async!Reinsert(qu, moved)
<1>1. /\ DOMAIN kd = D /\ DOMAIN pr = D
      /\ \A i \in D : pr[i] = asked[i].priority /\ asked[i].priority \in 0 .. 3
  BY AskedIs
<1>2. qu \in Seq(D)
  BY <1>1 DEF Placed
<1>3. /\ quq \in Seq(D) /\ Items(quq) = Items(qu) \cup Items(moved)
      /\ \A i, j : Ahead(quq, i, j) =>
           \/ asked[i].priority > asked[j].priority
           \/ asked[i].priority = asked[j].priority /\ Ahead(qu \o moved, i, j)
  BY <1>1, <1>2, AsyncReinserts
<1> HIDE DEF quq, kd, pr
<1>4. \A i, j : Ahead(quq, i, j) =>
        pr[i] > pr[j] \/ (pr[i] = pr[j] /\ Ahead(qu \o moved, i, j))
  <2> SUFFICES ASSUME NEW i, NEW j, Ahead(quq, i, j)
               PROVE  pr[i] > pr[j] \/ (pr[i] = pr[j] /\ Ahead(qu \o moved, i, j))
    OBVIOUS
  <2>1. i \in D /\ j \in D
    BY <1>3, ItemsOf
  <2> QED
    BY <1>1, <1>3, <2>1
<1>5. /\ \A i \in DOMAIN kd : pr[i] \in Nat
      /\ quq \in Seq(DOMAIN kd) /\ moved \in Seq(DOMAIN kd) /\ left \in Seq(DOMAIN kd)
  BY <1>1, <1>3
<1>6. Placed(kd, pr, qu, re, jb, an, c)
  BY DEF kd, pr
<1>7. Placed(kd, pr, quq, left, jb, an, c)
  BY <1>3, <1>4, <1>5, <1>6, PlacedReturning
<1> QED
  BY <1>7 DEF kd, pr, quq

\* The first job of slot s is over, and its batch goes on.
LEMMA AsyncGoesOn ==
  ASSUME AskedOK(asked), NEW s \in SlotSet, jobs[s] # <<>>, DOMAIN jobs = SlotSet,
         NEW re, NEW an, NEW c,
         Placed(KindOf(asked), PriorityOf(asked), queue, re, [jobs EXCEPT ![s] = Tail(jobs[s])], an, c),
         NEW sts, Sent(DOMAIN asked, sts, jobs, {s}),
         NEW ps \in PendingOf(DOMAIN asked), c => sts = <<>> /\ NothingPending(ps),
         forcing \in BOOLEAN, forcing <=> jobs[MaxConcurrent + 1] # <<>>,
         Async!GoOn(s, sts, ps, re)
  PROVE  /\ Placed(KindOf(asked), PriorityOf(asked), queue', retryQueue', jobs', an, c)
         /\ Flowing(DOMAIN asked, statements', pending', jobs', c)
         /\ forcing' \in BOOLEAN /\ (forcing' <=> jobs'[MaxConcurrent + 1] # <<>>)
<1> DEFINE kd == KindOf(asked)
           pr == PriorityOf(asked)
           D == DOMAIN asked
           left == Tail(jobs[s])
           jq == [jobs EXCEPT ![s] = left]
           all == Async!Reinsert(queue, re)
<1>1. DOMAIN kd = D /\ \A i \in DOMAIN kd : kd[i] \in AllKinds
  BY AskedIs
<1>2. Placed(kd, pr, queue, re, jq, an, c)
  OBVIOUS
<1>3. MaxConcurrent + 1 \in SlotSet
  BY BatchingAssumption DEF SlotSet
<1>4. /\ DOMAIN jq = SlotSet /\ jq[s] = left
      /\ \A t \in SlotSet : t # s => jq[t] = jobs[t]
  OBVIOUS
<1>5. /\ Async!ForceSlot = MaxConcurrent + 1
      /\ \/ /\ left # <<>> /\ jobs' = jq /\ Async!Send(s, left[1], sts, ps)
            /\ retryQueue' = re /\ queue' = queue /\ forcing' = forcing
         \/ /\ left = <<>> /\ s = MaxConcurrent + 1 /\ all # <<>>
            /\ Async!Begin(s, Async!TakeFirst(all, BatchSize), sts, ps)
            /\ queue' = Async!TakeRest(all, BatchSize) /\ retryQueue' = <<>> /\ forcing' = forcing
         \/ /\ left = <<>> /\ jobs' = [jobs EXCEPT ![s] = <<>>] /\ statements' = sts /\ pending' = ps
            /\ retryQueue' = re /\ queue' = queue /\ forcing' = (forcing /\ s # MaxConcurrent + 1)
  <2>1. Async!ForceSlot = MaxConcurrent + 1
    BY AsyncNames
  <2> HIDE DEF all, left
  <2>2. left = Tail(jobs[s]) /\ all = Async!Reinsert(queue, re)
    BY DEF left, all
  <2> QED
    BY <2>1, <2>2 DEF Async!GoOn
<1> HIDE DEF kd, pr, left, jq, all
<1>6. CASE /\ left # <<>> /\ jobs' = jq /\ Async!Send(s, left[1], sts, ps)
           /\ retryQueue' = re /\ queue' = queue /\ forcing' = forcing
  <2>1. jq[s][1].kind \in AllKinds /\ jq[s][1].batch \in Seq(D)
    <3>1. Working(kd, pr, jq[s], c) /\ jq[s] # <<>>
      BY <1>2, <1>4, <1>6 DEF Placed
    <3> QED
      BY <1>1, <3>1, WorkingTail
  <2>2. Flowing(D, statements', pending', jq, c)
    BY <1>4, <1>6, <2>1, AsyncFlows
  <2>3. Placed(kd, pr, queue', retryQueue', jobs', an, c)
    BY <1>2, <1>6
  <2>4. forcing' <=> jobs'[MaxConcurrent + 1] # <<>>
    BY <1>3, <1>4, <1>6
  <2> QED
    BY <1>6, <2>2, <2>3, <2>4 DEF kd, pr
<1>7. CASE /\ left = <<>> /\ s = MaxConcurrent + 1 /\ all # <<>>
           /\ Async!Begin(s, Async!TakeFirst(all, BatchSize), sts, ps)
           /\ queue' = Async!TakeRest(all, BatchSize) /\ retryQueue' = <<>> /\ forcing' = forcing
  <2>1. Placed(kd, pr, all, <<>>, jq, an, c)
    <3>1. re \in Seq(D) /\ Apartness(queue, re, jq)
      BY <1>1, <1>2 DEF Placed
    <3>2. /\ <<>> \in Seq(D) /\ Items(<<>>) = {} /\ \A i : ~Ahead(<<>>, i, i)
          /\ \A i : ~Ahead(re, i, i)
      BY <3>1, NoItems DEF Apartness
    <3>3. Items(re) = Items(re) \cup Items(<<>>) /\ Items(re) \cap Items(<<>>) = {}
      BY <3>2
    <3>4. Placed(KindOf(asked), PriorityOf(asked), queue, re, jq, an, c)
      BY <1>2 DEF kd, pr
    <3> HIDE DEF D
    <3>5. Placed(KindOf(asked), PriorityOf(asked), Async!Reinsert(queue, re), <<>>, jq, an, c)
      BY <3>1, <3>2, <3>3, <3>4, AsyncReturns DEF D
    <3> QED
      BY <3>5 DEF kd, pr, all
  <2>2. jq[s] = <<>>
    BY <1>4, <1>7
  <2>3. /\ Placed(kd, pr, Async!TakeRest(all, BatchSize), <<>>, jobs', an, c)
        /\ Flowing(D, statements', pending', jobs', c)
        /\ DOMAIN jobs' = SlotSet /\ jobs'[s] # <<>> /\ \A t \in SlotSet : t # s => jobs'[t] = jobs[t]
    BY <1>4, <1>7, <2>1, <2>2, AsyncStarts DEF kd, pr
  <2> QED
    BY <1>7, <2>3 DEF kd, pr
<1>8. CASE /\ left = <<>> /\ jobs' = [jobs EXCEPT ![s] = <<>>] /\ statements' = sts /\ pending' = ps
           /\ retryQueue' = re /\ queue' = queue /\ forcing' = (forcing /\ s # MaxConcurrent + 1)
  <2>1. jobs' = jq /\ jq[s] = <<>>
    BY <1>4, <1>8 DEF jq
  <2>2. Sent(D, statements', jobs', {})
    BY <1>4, <1>8, <2>1, SentNoMore
  <2>3. c => Alone(statements', pending', jobs')
    BY <1>8, AloneNothing
  <2>4. forcing' <=> jobs'[MaxConcurrent + 1] # <<>>
    BY <1>3, <1>4, <1>8, <2>1
  <2> QED
    BY <1>2, <1>8, <2>1, <2>2, <2>3, <2>4 DEF kd, pr, Flowing
<1> QED
  BY <1>5, <1>6, <1>7, <1>8

-----------------------------------------------------------------------------
(* AsyncFlushQueue: the invariant, and the end of a statement.             *)

Calm == timeouts = 0 /\ ~overlapped

AsyncFlags ==
  /\ timeouts \in Nat /\ overlapped \in BOOLEAN /\ running \in BOOLEAN
  /\ looping \in BOOLEAN /\ forcing \in BOOLEAN /\ closing \in {"no", "shutdown", "closed"}
  /\ forcing <=> jobs[MaxConcurrent + 1] # <<>>
  /\ looping => queue # <<>> /\ Cardinality(Async!Busy) < MaxConcurrent
  /\ closing = "closed" => \A i \in DOMAIN asked : answered[i] = "none" => i \in stranded

AsyncInv ==
  /\ AskedOK(asked)
  /\ Placed(KindOf(asked), PriorityOf(asked), queue, retryQueue, jobs, answered, Calm)
  /\ Flowing(DOMAIN asked, statements, pending, jobs, Calm)
  /\ Logged(KindOf(asked), PriorityOf(asked), written, answered, Calm)
  /\ AsyncFlags

\* The retries of the items are counted.
Retried(al, is) ==
  [i \in DOMAIN al |-> IF i \in is THEN [al[i] EXCEPT !.retryCount = @ + 1] ELSE al[i]]

LEMMA AsyncRetries ==
  ASSUME NEW al, AskedOK(al), NEW is, \A i \in is : i \in DOMAIN al => al[i].retryCount < MaxRetries
  PROVE  /\ AskedOK(Retried(al, is)) /\ DOMAIN Retried(al, is) = DOMAIN al
         /\ KindOf(Retried(al, is)) = KindOf(al) /\ PriorityOf(Retried(al, is)) = PriorityOf(al)
<1> DEFINE aq == Retried(al, is)
<1>1. DOMAIN al = 1 .. Len(al) /\ Len(al) \in Nat /\ \A i \in 1 .. Len(al) : al[i] \in AskedItem
  BY AskedIs, LenProperties DEF AskedOK
<1>2. aq = [i \in 1 .. Len(al) |->
              IF i \in is THEN [al[i] EXCEPT !.retryCount = @ + 1] ELSE al[i]]
  BY <1>1 DEF Retried
<1>3. ASSUME NEW i \in 1 .. Len(al)
      PROVE  /\ (IF i \in is THEN [al[i] EXCEPT !.retryCount = @ + 1] ELSE al[i]) \in AskedItem
             /\ (IF i \in is THEN [al[i] EXCEPT !.retryCount = @ + 1] ELSE al[i]).kind = al[i].kind
             /\ (IF i \in is THEN [al[i] EXCEPT !.retryCount = @ + 1] ELSE al[i]).priority = al[i].priority
  <2>1. al[i] \in AskedItem
    BY <1>1
  <2>2. CASE i \in is
    <3>1. al[i].retryCount \in 0 .. MaxRetries /\ al[i].retryCount < MaxRetries /\ MaxRetries \in Nat
      BY <1>1, <2>1, <2>2, BatchingAssumption DEF AskedItem
    <3>2. al[i].retryCount + 1 \in 0 .. MaxRetries
      BY <3>1
    <3> QED
      BY <2>1, <2>2, <3>2 DEF AskedItem
  <2>3. CASE i \notin is
    BY <2>1, <2>3
  <2> QED
    BY <2>2, <2>3
<1>4. aq \in [1 .. Len(al) -> AskedItem] /\ DOMAIN aq = 1 .. Len(al)
      /\ \A i \in 1 .. Len(al) : aq[i].kind = al[i].kind /\ aq[i].priority = al[i].priority
  BY <1>2, <1>3
<1> HIDE DEF aq
<1>5. aq \in Seq(AskedItem) /\ Len(aq) = Len(al)
  BY <1>1, <1>4, LenProperties
<1>6. AskedOK(aq)
  BY <1>5 DEF AskedOK
<1>7. KindOf(aq) = KindOf(al) /\ PriorityOf(aq) = PriorityOf(al)
  BY <1>1, <1>4 DEF KindOf, PriorityOf
<1> QED
  BY <1>1, <1>4, <1>6, <1>7 DEF aq

\* The items of a batch b were not answered, and are older than the others that
\* are not and are like them.
NextToWrite(kd, pr, an, b) ==
  /\ InTurn(kd, pr, b)
  /\ \A i \in Items(b) : an[i] = "none"
  /\ \A i \in Items(b), j \in DOMAIN kd :
       an[j] = "none" /\ j \notin Items(b) /\ Alike(kd, pr, i, j) => i < j

LEMMA AloneLater ==
  ASSUME NEW kd, NEW pr, NEW qu, NEW re, NEW jb, NEW an,
         Placed(kd, pr, qu, re, jb, an, TRUE),
         NEW D, NEW sts, Sent(D, sts, jb, {}), Len(sts) <= 1,
         NEW st \in Items(sts), st.slot # 0
  PROVE  NextToWrite(kd, pr, an, jb[st.slot][1].batch)
<1> DEFINE s == st.slot
           own == Items(jb[s][1].batch)
<1>1. s \in SlotSet /\ jb[s] # <<>>
  BY DEF Sent, Serves
<1>2. Working(kd, pr, jb[s], TRUE)
  BY <1>1 DEF Placed
<1>3. /\ jb[s][1].batch \in Seq(DOMAIN kd) /\ jb[s][1].kind \in AllKinds
      /\ \A i \in own : kd[i] = jb[s][1].kind
      /\ InTurn(kd, pr, jb[s][1].batch)
      /\ \A i : Staged(jb[s], i) <=> i \in own \/ Staged(Tail(jb[s]), i)
      /\ \A i : Staged(Tail(jb[s]), i) /\ kd[i] = jb[s][1].kind => kd[i] = "delete"
  <2> DEFINE js == jb[s]
  <2>1. Working(kd, pr, js, TRUE) /\ js # <<>>
    BY <1>1, <1>2
  <2> HIDE DEF js
  <2>2. /\ js[1].batch \in Seq(DOMAIN kd) /\ js[1].kind \in AllKinds
        /\ \A i \in Items(js[1].batch) : kd[i] = js[1].kind
        /\ TRUE => InTurn(kd, pr, js[1].batch)
        /\ \A i : Staged(js, i) <=> i \in Items(js[1].batch) \/ Staged(Tail(js), i)
        /\ \A i : Staged(Tail(js), i) /\ kd[i] = js[1].kind => kd[i] = "delete"
    BY <2>1, WorkingTail
  <2> QED
    BY <2>2 DEF js
<1>4. own \subseteq DOMAIN kd
  BY <1>3, ItemsOf
<1>5. \A x \in Items(sts) : x = st
  <2>1. sts \in Seq(StatementOf(D))
    BY DEF Sent
  <2>2. DOMAIN sts = 1 .. Len(sts) /\ Len(sts) \in Nat
    BY <2>1, LenProperties
  <2>3. \A k, l \in DOMAIN sts : k = l
    BY <2>2
  <2> QED
    BY <2>3 DEF Items
<1>6. \A t \in SlotSet : jb[t] # <<>> => t = s
  BY <1>5 DEF Sent
<1> HIDE DEF own, s
<1>7. \A i \in own : an[i] = "none"
  BY <1>1, <1>3, <1>4 DEF Placed, Waits
<1>8. ASSUME NEW i \in own, NEW j \in DOMAIN kd, an[j] = "none", j \notin own, Alike(kd, pr, i, j)
      PROVE  i < j
  <2>1. Waits(qu, re, jb, j) /\ Orderly(kd, pr, qu, re, jb)
    BY <1>8 DEF Placed
  <2>2. kd[j] = jb[s][1].kind /\ kd[j] # "delete"
    BY <1>3, <1>8 DEF Alike
  <2>3. j \notin Items(re)
    BY <2>1, <2>2 DEF Orderly
  <2>4. ASSUME NEW t \in SlotSet, Staged(jb[t], j) PROVE FALSE
    <3>1. t = s
      BY <1>6, <2>4, NothingStaged
    <3> QED
      BY <1>3, <1>8, <2>2, <2>4, <3>1
  <2>5. j \in Items(qu)
    BY <2>1, <2>3, <2>4 DEF Waits
  <2> QED
    BY <1>1, <1>3, <1>8, <2>1, <2>5 DEF Orderly
<1> QED
  BY <1>3, <1>7, <1>8 DEF own, s, NextToWrite

\* What a statement that is over leaves pending.
LEMMA AsyncCleared ==
  ASSUME NEW D, pending \in PendingOf(D), NEW kind
  PROVE  /\ Async!Cleared(kind) \in PendingOf(D)
         /\ (\A k \in {"insert", "update"} : pending[k] = <<>> \/ k = kind)
              => NothingPending(Async!Cleared(kind))
<1>1. <<>> \in Seq(D)
  OBVIOUS
<1>2. CASE kind = "delete"
  BY <1>2 DEF Async!Cleared, NothingPending
<1>3. CASE kind # "delete"
  <2>1. Async!Cleared(kind) = [pending EXCEPT ![kind] = <<>>]
    BY <1>3 DEF Async!Cleared
  <2> QED
    BY <1>1, <2>1 DEF PendingOf, NothingPending
<1> QED
  BY <1>2, <1>3

\* Whether the order still counts after a step, and what is told.
LEMMA AsyncTells ==
  ASSUME NEW is, NEW how
  PROVE  Async!Told(is, how) = Say(KindOf(asked), is, how, answered)
BY DEF Async!Told, Say, KindOf

\* A statement settles that no batch waits for.
LEMMA AsyncSettlesNone ==
  ASSUME AsyncInv, ~looping, NEW k \in DOMAIN statements, NEW ok \in BOOLEAN, Async!Settle(k, ok),
         statements[k].slot = 0
  PROVE  AsyncInv'
<1> DEFINE kd == KindOf(asked)
           pr == PriorityOf(asked)
           D == DOMAIN asked
           st == statements[k]
           how == Async!Result(st, ok)
           others == Async!RemoveAt(statements, k)
<1>1. /\ AskedOK(asked) /\ Placed(kd, pr, queue, retryQueue, jobs, answered, Calm)
      /\ Sent(D, statements, jobs, {}) /\ pending \in PendingOf(D) /\ (Calm => Alone(statements, pending, jobs))
      /\ Logged(kd, pr, written, answered, Calm) /\ AsyncFlags
  BY DEF AsyncInv, Flowing
<1>2. st \in Items(statements) /\ st.kind \in AllKinds /\ st.batch \in Seq(D)
  <2>1. st \in StatementOf(D)
    BY <1>1, LenProperties DEF Sent
  <2> QED
    BY <2>1 DEF StatementOf, Items
<1>3. ~Calm
  BY <1>1, <1>2 DEF Alone
<1>4. /\ written' = IF ok THEN Append(written, [kind |-> st.kind, batch |-> st.batch]) ELSE written
      /\ answered' = Async!Told({} \ ({} \cap Async!Again({})), how)
      /\ asked' = [i \in DOMAIN asked |-> IF i \in {} \cap Async!Again({})
                     THEN [asked[i] EXCEPT !.retryCount = @ + 1] ELSE asked[i]]
      /\ statements' = others /\ pending' = Async!Cleared(st.kind)
      /\ UNCHANGED <<queue, retryQueue, jobs, forcing>>
      /\ Async!SendingNow /\ UNCHANGED <<running, looping, closing, timeouts, stranded>>
  <2>1. st.slot = Async!NoSlot
    BY AsyncNames
  <2> HIDE DEF st
  <2>2. st = statements[k]
    BY DEF st
  <2>3. /\ (IF st.slot = Async!NoSlot THEN {} ELSE Async!Items(Head(jobs[st.slot]).batch)) = {}
        /\ (IF st.kind = "delete" /\ ~ok THEN {} ELSE {}) = {}
    BY <2>1
  <2> QED
    BY <2>1, <2>2, <2>3 DEF Async!Settle
<1> HIDE DEF st, how, others
<1>5. asked' = asked
  <2>1. asked' = [i \in DOMAIN asked |-> asked[i]]
    BY <1>4
  <2> QED
    BY <1>1, <2>1, AskedIs DEF AskedOK
<1>6. answered' = Say(kd, {}, how, answered) /\ answered' = answered
  <2>1. answered' = Say(kd, {}, how, answered)
    BY <1>4, AsyncTells
  <2>2. answered \in [D -> Replies]
    BY <1>1, AskedIs DEF Placed
  <2>3. Say(kd, {}, how, answered) = [i \in D |-> answered[i]]
    BY <1>1, AskedIs DEF Say
  <2> QED
    BY <2>1, <2>2, <2>3
<1>7. ~Calm'
  BY <1>1, <1>3, <1>4 DEF Calm, Async!SendingNow, AsyncFlags
<1> DEFINE d == Calm'
<1> HIDE DEF d
<1>8. d => Calm
  BY <1>7 DEF d
<1>9. Placed(kd, pr, queue, retryQueue, jobs, answered, d)
  <2> HIDE DEF kd, pr
  <2> QED
    BY <1>1, <1>8, PlacedStays
<1>10. Flowing(D, others, Async!Cleared(st.kind), jobs, d)
  <2>1. Sent(D, others, jobs, {st.slot} \ {0})
    BY <1>1, SentOver DEF st, others
  <2>2. {st.slot} \ {0} = {}
    BY DEF st
  <2>3. Async!Cleared(st.kind) \in PendingOf(D)
    BY <1>1, AsyncCleared
  <2> QED
    BY <1>7, <2>1, <2>2, <2>3 DEF Flowing, d
<1>11. Logged(kd, pr, written', answered', d)
  <2>1. CASE ok
    <3>1. how = "ok"
      BY <2>1 DEF how, Async!Result
    <3>2. {} \in SUBSET Items(st.batch) /\ st.batch \in Seq(DOMAIN kd)
      BY <1>1, <1>2, AskedIs
    <3>3. ~d
      BY <1>7 DEF d
    <3> HIDE DEF kd, pr
    <3>4. Logged(kd, pr, Append(written, [kind |-> st.kind, batch |-> st.batch]),
                 Say(kd, {}, "ok", answered), d)
      BY <1>1, <1>2, <1>8, <3>2, <3>3, LoggedWriting
    <3> QED
      BY <1>4, <1>6, <2>1, <3>1, <3>4
  <2>2. CASE ~ok
    <3>1. how = "failed"
      BY <2>2 DEF how, Async!Result
    <3> HIDE DEF kd, pr
    <3>2. Logged(kd, pr, written, Say(kd, {}, "failed", answered), d)
      BY <1>1, <1>8, LoggedFailing
    <3> QED
      BY <1>4, <1>6, <2>2, <3>1, <3>2
  <2> QED
    BY <2>1, <2>2
<1>12. AsyncFlags'
  <2>1. Async!Busy' = Async!Busy
    BY <1>4 DEF Async!Busy
  <2>2. overlapped' \in BOOLEAN
    BY <1>4 DEF Async!SendingNow
  <2> QED
    BY <1>1, <1>4, <1>5, <1>6, <2>1, <2>2 DEF AsyncFlags
<1> QED
  BY <1>1, <1>4, <1>5, <1>6, <1>9, <1>10, <1>11, <1>12 DEF AsyncInv, d

\* The flags after the end of a statement whose batch waited for it.
LEMMA AsyncFlagsKept ==
  ASSUME AskedOK(asked), AsyncFlags, ~looping, DOMAIN asked' = DOMAIN asked,
         NEW is, NEW how, how \in {"ok", "failed"}, answered' = Say(KindOf(asked), is, how, answered),
         timeouts' \in Nat, overlapped' \in BOOLEAN,
         forcing' \in BOOLEAN, forcing' <=> jobs'[MaxConcurrent + 1] # <<>>,
         UNCHANGED <<running, looping, closing, stranded>>
  PROVE  AsyncFlags'
<1>1. \A i \in DOMAIN asked : answered'[i] = "none" => answered[i] = "none"
  BY AskedIs DEF Say
<1>2. looping' = looping /\ closing' = closing /\ stranded' = stranded /\ running' = running
  OBVIOUS
<1> QED
  BY <1>1, <1>2 DEF AsyncFlags

\* A statement settles that a batch waits for.
LEMMA AsyncSettlesOne ==
  ASSUME AsyncInv, ~looping, NEW k \in DOMAIN statements, NEW ok \in BOOLEAN, Async!Settle(k, ok),
         statements[k].slot # 0
  PROVE  AsyncInv'
<1> DEFINE kd == KindOf(asked)
           pr == PriorityOf(asked)
           D == DOMAIN asked
           st == statements[k]
           s == statements[k].slot
           hb == jobs[s][1].batch
           own == Items(hb)
           retried == (IF st.kind = "delete" /\ ~ok THEN own ELSE {}) \cap Async!Again(own)
           how == Async!Result(st, ok)
           others == Async!RemoveAt(statements, k)
           ps == Async!Cleared(st.kind)
           req == retryQueue \o Among(hb, retried)
           d == Calm'
<1>1. /\ AskedOK(asked) /\ Placed(kd, pr, queue, retryQueue, jobs, answered, Calm)
      /\ Sent(D, statements, jobs, {}) /\ pending \in PendingOf(D) /\ (Calm => Alone(statements, pending, jobs))
      /\ Logged(kd, pr, written, answered, Calm) /\ AsyncFlags
  BY DEF AsyncInv, Flowing
<1>2. /\ st \in Items(statements) /\ st.kind \in AllKinds /\ st.batch \in Seq(D) /\ s = st.slot /\ s # 0
      /\ s \in SlotSet /\ jobs[s] # <<>> /\ st.kind = jobs[s][1].kind /\ own \subseteq Items(st.batch)
  <2>1. st \in StatementOf(D) /\ st \in Items(statements)
    BY <1>1, LenProperties DEF Sent, Items
  <2>2. s \in SlotSet /\ Serves(jobs, st)
    BY <1>1, <2>1 DEF Sent
  <2> QED
    BY <2>1, <2>2 DEF StatementOf, Serves
<1>3. DOMAIN kd = D /\ DOMAIN jobs = SlotSet
  BY <1>1, AskedIs DEF Placed
<1>4. /\ written' = IF ok THEN Append(written, [kind |-> st.kind, batch |-> st.batch]) ELSE written
      /\ answered' = Async!Told(own \ retried, how)
      /\ asked' = Retried(asked, retried)
      /\ Async!GoOn(s, others, ps, req)
      /\ Async!SendingNow /\ UNCHANGED <<running, looping, closing, timeouts, stranded>>
  <2>1. s # Async!NoSlot
    BY <1>2, AsyncNames
  <2>2. Head(jobs[s]) = jobs[s][1]
    OBVIOUS
  <2>3. (IF s = Async!NoSlot THEN {} ELSE Async!Items(Head(jobs[s]).batch)) = own
    BY <2>1, <2>2, AsyncNames
  <2>4. Async!Among(Head(jobs[s]).batch, retried) = Among(hb, retried)
    BY <2>2, AsyncNames
  <2>5. /\ written' = IF ok THEN Append(written, [kind |-> st.kind, batch |-> st.batch]) ELSE written
        /\ answered' = Async!Told(own \ retried, how)
        /\ asked' = [i \in DOMAIN asked |-> IF i \in retried
                       THEN [asked[i] EXCEPT !.retryCount = @ + 1] ELSE asked[i]]
        /\ Async!GoOn(s, others, ps, retryQueue \o Async!Among(Head(jobs[s]).batch, retried))
        /\ Async!SendingNow /\ UNCHANGED <<running, looping, closing, timeouts, stranded>>
    <3> DEFINE got == IF st.slot = Async!NoSlot THEN {} ELSE Async!Items(Head(jobs[st.slot]).batch)
    <3>1. got = own
      BY <2>3
    <3> HIDE DEF got, own
    <3>2. /\ written' = IF ok THEN Append(written, [kind |-> st.kind, batch |-> st.batch]) ELSE written
          /\ answered' = Async!Told(got \ ((IF st.kind = "delete" /\ ~ok THEN got ELSE {}) \cap Async!Again(got)), how)
          /\ asked' = [i \in DOMAIN asked |->
               IF i \in (IF st.kind = "delete" /\ ~ok THEN got ELSE {}) \cap Async!Again(got)
               THEN [asked[i] EXCEPT !.retryCount = @ + 1] ELSE asked[i]]
          /\ Async!GoOn(s, others, ps, retryQueue \o Async!Among(Head(jobs[s]).batch,
               (IF st.kind = "delete" /\ ~ok THEN got ELSE {}) \cap Async!Again(got)))
          /\ Async!SendingNow /\ UNCHANGED <<running, looping, closing, timeouts, stranded>>
      BY <2>1, Zenon DEF Async!Settle, got
    <3> QED
      BY <3>1, <3>2
  <2>6. retryQueue \o Async!Among(Head(jobs[s]).batch, retried) = req
    BY <2>4
  <2> HIDE DEF retried, own, others, ps, how, req, hb, s, st
  <2> QED
    BY <2>5, <2>6 DEF Retried
<1>5. /\ AskedOK(asked') /\ DOMAIN asked' = D /\ KindOf(asked') = kd /\ PriorityOf(asked') = pr
  <2>1. \A i \in retried : i \in DOMAIN asked => asked[i].retryCount < MaxRetries
    BY DEF Async!Again
  <2> HIDE DEF retried
  <2> QED
    BY <1>1, <1>4, <2>1, AsyncRetries
<1>6. /\ retried \subseteq own /\ (retried # {} => st.kind = "delete" /\ ~ok)
      /\ how = IF ok THEN "ok" ELSE "failed"
  BY DEF Async!Result
<1>7. answered' = Say(kd, own \ retried, how, answered)
  <2> HIDE DEF own, retried, how
  <2> QED
    BY <1>4, AsyncTells
<1> HIDE DEF retried, how
<1>8. d => Calm
  BY <1>1, <1>4 DEF Calm, Async!SendingNow, AsyncFlags
<1> HIDE DEF d
<1>9. Placed(kd, pr, queue, req, [jobs EXCEPT ![s] = Tail(jobs[s])], answered', d)
  <2>1. retried \in SUBSET Items(jobs[s][1].batch) /\ how \in {"ok", "failed"}
    BY <1>6
  <2>2. d /\ retried # {} => jobs[s][1].kind = "delete"
    BY <1>2, <1>6
  <2>4. Placed(kd, pr, queue, retryQueue, jobs, answered, Calm) /\ s \in SlotSet /\ jobs[s] # <<>>
    BY <1>1, <1>2
  <2> HIDE DEF kd, pr, s, D, st, hb, own, others, ps, req
  <2>3. Placed(kd, pr, queue, retryQueue \o Among(jobs[s][1].batch, retried),
               [jobs EXCEPT ![s] = Tail(jobs[s])],
               Say(kd, Items(jobs[s][1].batch) \ retried, how, answered), d)
    BY <1>8, <2>1, <2>2, <2>4, PlacedJobOver
  <2> QED
    BY <1>7, <2>3 DEF own, hb, req
<1>10. Sent(D, others, jobs, {s})
  <2>1. Sent(D, others, jobs, {s} \ {0})
    BY <1>1, SentOver
  <2>2. {s} \ {0} = {s}
    BY <1>2
  <2> QED
    BY <2>1, <2>2
<1>11. ps \in PendingOf(D)
  BY <1>1, AsyncCleared
<1>12. ASSUME d
       PROVE  /\ others = <<>> /\ NothingPending(ps) /\ st.batch = hb /\ Len(statements) <= 1
  <2>1. Alone(statements, pending, jobs)
    BY <1>1, <1>8, <1>12
  <2>2. Len(statements) <= 1 /\ st.batch = hb
    BY <1>2, <2>1 DEF Alone
  <2>3. others = <<>> /\ Items(statements) = Items(others) \cup {st}
    BY <1>1, <2>2, WithoutOne DEF Sent
  <2>4. Items(statements) = {st}
    BY <2>3, NoItems
  <2>5. \A kind \in {"insert", "update"} : pending[kind] = <<>> \/ kind = st.kind
    BY <2>1, <2>4 DEF Alone
  <2> QED
    BY <1>1, <2>2, <2>3, <2>5, AsyncCleared
<1> HIDE DEF others, ps, req
<1>13. /\ Placed(kd, pr, queue', retryQueue', jobs', answered', d)
       /\ Flowing(D, statements', pending', jobs', d)
       /\ forcing' \in BOOLEAN /\ (forcing' <=> jobs'[MaxConcurrent + 1] # <<>>)
  <2>1. forcing \in BOOLEAN /\ (forcing <=> jobs[MaxConcurrent + 1] # <<>>)
    BY <1>1 DEF AsyncFlags
  <2>2. d => others = <<>> /\ NothingPending(ps)
    BY <1>12
  <2> HIDE DEF s
  <2> QED
    BY <1>1, <1>2, <1>3, <1>4, <1>9, <1>10, <1>11, <2>1, <2>2, AsyncGoesOn
<1>14. Logged(kd, pr, written', answered', d)
  <2>1. CASE ok
    <3>1. how = "ok" /\ retried = {} /\ own \ retried = own
      BY <1>6, <2>1
    <3>2. st.batch \in Seq(DOMAIN kd) /\ own \in SUBSET Items(st.batch) /\ st.kind \in AllKinds
      BY <1>2, <1>3
    <3>3. ASSUME d
          PROVE  /\ Items(st.batch) \subseteq own /\ InTurn(kd, pr, st.batch)
                 /\ \A i \in own : answered[i] = "none"
                 /\ \A i \in own, j \in DOMAIN kd :
                      answered[j] = "none" /\ j \notin own /\ Alike(kd, pr, i, j) => i < j
      <4> HIDE DEF kd, pr
      <4>1. Placed(kd, pr, queue, retryQueue, jobs, answered, TRUE)
        BY <1>1, <1>8, <3>3, PlacedStays
      <4>2. st.batch = hb /\ Len(statements) <= 1
        BY <1>12, <3>3
      <4>3. NextToWrite(kd, pr, answered, jobs[st.slot][1].batch)
        <5>1. st \in Items(statements) /\ st.slot # 0 /\ Sent(D, statements, jobs, {})
          BY <1>1, <1>2
        <5> HIDE DEF D, st, s, hb, own
        <5> QED
          BY <4>1, <4>2, <5>1, AloneLater
      <4> QED
        BY <4>2, <4>3 DEF NextToWrite
    <3> HIDE DEF kd, pr, own, st
    <3>4. Logged(kd, pr, Append(written, [kind |-> st.kind, batch |-> st.batch]),
                 Say(kd, own, "ok", answered), d)
      BY <1>1, <1>8, <3>2, <3>3, LoggedWriting
    <3> QED
      BY <1>4, <1>7, <2>1, <3>1, <3>4
  <2>2. CASE ~ok
    <3>1. how = "failed"
      BY <1>6, <2>2
    <3> HIDE DEF kd, pr, own
    <3>2. Logged(kd, pr, written, Say(kd, own \ retried, "failed", answered), d)
      BY <1>1, <1>8, LoggedFailing
    <3> QED
      BY <1>4, <1>7, <2>2, <3>1, <3>2
  <2> QED
    BY <2>1, <2>2
<1>15. AsyncFlags'
  <2>1. timeouts' \in Nat /\ overlapped' \in BOOLEAN
    BY <1>1, <1>4 DEF AsyncFlags, Async!SendingNow
  <2>2. how \in {"ok", "failed"}
    BY <1>6
  <2> HIDE DEF own
  <2> QED
    BY <1>1, <1>4, <1>5, <1>7, <1>13, <2>1, <2>2, AsyncFlagsKept
<1> QED
  BY <1>5, <1>13, <1>14, <1>15 DEF AsyncInv, d

\* A batch gives its statement up.
LEMMA AsyncTimesOut ==
  ASSUME AsyncInv, ~looping, NEW k \in DOMAIN statements, Async!Timeout(k)
  PROVE  AsyncInv'
<1> DEFINE kd == KindOf(asked)
           pr == PriorityOf(asked)
           D == DOMAIN asked
           s == statements[k].slot
           hb == jobs[s][1].batch
           own == Items(hb)
           retried == own \cap Async!Again(own)
           others == [statements EXCEPT ![k].slot = 0]
           req == retryQueue \o Among(hb, retried)
           d == Calm'
<1>1. /\ AskedOK(asked) /\ Placed(kd, pr, queue, retryQueue, jobs, answered, Calm)
      /\ Sent(D, statements, jobs, {}) /\ pending \in PendingOf(D)
      /\ Logged(kd, pr, written, answered, Calm) /\ AsyncFlags
  BY DEF AsyncInv, Flowing
<1>2. s # 0 /\ s \in SlotSet /\ jobs[s] # <<>>
  <2>1. s # 0
    BY AsyncNames DEF Async!Timeout
  <2>2. statements[k] \in Items(statements)
    BY DEF Items
  <2> QED
    BY <1>1, <2>1, <2>2 DEF Sent, Serves
<1>3. DOMAIN kd = D /\ DOMAIN jobs = SlotSet
  BY <1>1, AskedIs DEF Placed
<1>4. /\ timeouts' = timeouts + 1
      /\ answered' = Async!Told(own \ retried, "failed")
      /\ asked' = Retried(asked, retried)
      /\ Async!GoOn(s, others, pending, req)
      /\ Async!SendingNow /\ UNCHANGED <<running, looping, closing, written, stranded>>
  <2>1. Head(jobs[s]) = jobs[s][1] /\ Async!NoSlot = 0
    BY AsyncNames
  <2>2. Async!Items(Head(jobs[s]).batch) = own
    BY <2>1, AsyncNames
  <2>3. Async!Among(Head(jobs[s]).batch, retried) = Among(hb, retried)
    BY <2>1, AsyncNames
  <2> DEFINE got == Async!Items(Head(jobs[s]).batch)
  <2>4. got = own
    BY <2>2
  <2> HIDE DEF got, own
  <2>5. /\ timeouts' = timeouts + 1
        /\ answered' = Async!Told(got \ (got \cap Async!Again(got)), "failed")
        /\ asked' = [i \in DOMAIN asked |-> IF i \in got \cap Async!Again(got)
                       THEN [asked[i] EXCEPT !.retryCount = @ + 1] ELSE asked[i]]
        /\ Async!GoOn(s, [statements EXCEPT ![k].slot = Async!NoSlot], pending,
             retryQueue \o Async!Among(Head(jobs[s]).batch, got \cap Async!Again(got)))
        /\ Async!SendingNow /\ UNCHANGED <<running, looping, closing, written, stranded>>
    BY Zenon DEF Async!Timeout, got
  <2> QED
    BY <2>1, <2>3, <2>4, <2>5 DEF Retried
<1>5. /\ AskedOK(asked') /\ DOMAIN asked' = D /\ KindOf(asked') = kd /\ PriorityOf(asked') = pr
  <2>1. \A i \in retried : i \in DOMAIN asked => asked[i].retryCount < MaxRetries
    BY DEF Async!Again
  <2> HIDE DEF retried
  <2> QED
    BY <1>1, <1>4, <2>1, AsyncRetries
<1>6. retried \subseteq own
  OBVIOUS
<1>7. answered' = Say(kd, own \ retried, "failed", answered)
  <2> HIDE DEF own, retried
  <2> QED
    BY <1>4, AsyncTells
<1> HIDE DEF retried
<1>8. ~d
  BY <1>1, <1>4 DEF Calm, AsyncFlags
<1> HIDE DEF d
<1>9. Placed(kd, pr, queue, req, [jobs EXCEPT ![s] = Tail(jobs[s])], answered', d)
  <2>1. retried \in SUBSET Items(jobs[s][1].batch)
    BY <1>6
  <2>2. (d => Calm) /\ (d /\ retried # {} => jobs[s][1].kind = "delete")
    BY <1>8
  <2>4. Placed(kd, pr, queue, retryQueue, jobs, answered, Calm) /\ s \in SlotSet /\ jobs[s] # <<>>
    BY <1>1, <1>2
  <2> HIDE DEF kd, pr, s, D, hb, own, others, req
  <2>3. Placed(kd, pr, queue, retryQueue \o Among(jobs[s][1].batch, retried),
               [jobs EXCEPT ![s] = Tail(jobs[s])],
               Say(kd, Items(jobs[s][1].batch) \ retried, "failed", answered), d)
    BY <2>1, <2>2, <2>4, PlacedJobOver
  <2> QED
    BY <1>7, <2>3 DEF own, hb, req
<1>10. Sent(D, others, jobs, {s})
  <2>1. Sent(D, others, jobs, {s} \ {0})
    BY <1>1, SentGivenUp
  <2>2. {s} \ {0} = {s}
    BY <1>2
  <2> QED
    BY <2>1, <2>2
<1> HIDE DEF others, req
<1>13. /\ Placed(kd, pr, queue', retryQueue', jobs', answered', d)
       /\ Flowing(D, statements', pending', jobs', d)
       /\ forcing' \in BOOLEAN /\ (forcing' <=> jobs'[MaxConcurrent + 1] # <<>>)
  <2>1. forcing \in BOOLEAN /\ (forcing <=> jobs[MaxConcurrent + 1] # <<>>)
    BY <1>1 DEF AsyncFlags
  <2>2. d => others = <<>> /\ NothingPending(pending)
    BY <1>8
  <2> HIDE DEF s
  <2> QED
    BY <1>1, <1>2, <1>3, <1>4, <1>9, <1>10, <2>1, <2>2, AsyncGoesOn
<1>14. Logged(kd, pr, written', answered', d)
  <2> HIDE DEF kd, pr, own
  <2>1. Logged(kd, pr, written, Say(kd, own \ retried, "failed", answered), d)
    BY <1>1, <1>8, LoggedFailing
  <2> QED
    BY <1>4, <1>7, <2>1
<1>15. AsyncFlags'
  <2>1. timeouts' \in Nat /\ overlapped' \in BOOLEAN
    BY <1>1, <1>4 DEF AsyncFlags, Async!SendingNow
  <2>2. "failed" \in {"ok", "failed"}
    OBVIOUS
  <2> HIDE DEF own
  <2> QED
    BY <1>1, <1>4, <1>5, <1>7, <1>13, <2>1, <2>2, AsyncFlagsKept
<1> QED
  BY <1>5, <1>13, <1>14, <1>15 DEF AsyncInv, d

-----------------------------------------------------------------------------
(* AsyncFlushQueue: the other steps.                                       *)

\* A batch that begins sends one statement more.
LEMMA OneMoreStatement ==
  ASSUME NEW S, NEW sts \in Seq(S), NEW s, NEW b, NEW ps, Async!Begin(s, b, sts, ps)
  PROVE  Len(statements') = Len(sts) + 1
<1>1. \A x : Len(Append(sts, x)) = Len(sts) + 1
  <2> SUFFICES ASSUME NEW x PROVE Len(Append(sts, x)) = Len(sts) + 1
    OBVIOUS
  <2>1. S \subseteq S \cup {x}
    OBVIOUS
  <2>2. sts \in Seq(S \cup {x}) /\ x \in S \cup {x}
    BY <2>1, SeqMonotonic
  <2> QED
    BY <2>2
<1>2. \E x : statements' = Append(sts, x)
  BY DEF Async!Begin, Async!Send
<1> QED
  BY <1>1, <1>2

\* A batch begins in the free slot s, with the items of the queue qu first.
LEMMA AsyncBatch ==
  ASSUME AsyncInv, NEW qu, NEW re,
         Placed(KindOf(asked), PriorityOf(asked), qu, re, jobs, answered, Calm), qu # <<>>,
         NEW s \in SlotSet, jobs[s] = <<>>,
         Async!Begin(s, Async!TakeFirst(qu, BatchSize), statements, pending),
         queue' = Async!TakeRest(qu, BatchSize), retryQueue' = re,
         Async!SendingNow, UNCHANGED <<asked, written, answered, timeouts>>
  PROVE  /\ AskedOK(asked')
         /\ Placed(KindOf(asked'), PriorityOf(asked'), queue', retryQueue', jobs', answered', Calm')
         /\ Flowing(DOMAIN asked', statements', pending', jobs', Calm')
         /\ Logged(KindOf(asked'), PriorityOf(asked'), written', answered', Calm')
         /\ jobs'[s] # <<>> /\ \A t \in SlotSet : t # s => jobs'[t] = jobs[t]
<1> DEFINE kd == KindOf(asked)
           pr == PriorityOf(asked)
           D == DOMAIN asked
           d == Calm'
<1>1. /\ AskedOK(asked) /\ Sent(D, statements, jobs, {}) /\ pending \in PendingOf(D)
      /\ (Calm => Alone(statements, pending, jobs))
      /\ Logged(kd, pr, written, answered, Calm) /\ AsyncFlags
      /\ DOMAIN jobs = SlotSet /\ statements \in Seq(StatementOf(D))
  BY DEF AsyncInv, Flowing, Placed, Sent
<1>2. Len(statements') = Len(statements) + 1 /\ Len(statements) \in Nat
  BY <1>1, OneMoreStatement
<1>3. d => Calm /\ Len(statements) = 0
  <2>1. overlapped' = (overlapped \/ Len(statements') > 1) /\ timeouts' = timeouts
    BY DEF Async!SendingNow
  <2>2. d => Calm /\ ~(Len(statements') > 1)
    BY <2>1 DEF Calm
  <2>3. Len(statements) # 0 => Len(statements') > 1
    BY <1>2
  <2> QED
    BY <2>2, <2>3
<1> HIDE DEF d
<1>4. ASSUME d PROVE statements = <<>> /\ NothingPending(pending)
  <2>1. statements = <<>> /\ Alone(statements, pending, jobs)
    BY <1>1, <1>3, <1>4
  <2> QED
    BY <2>1, NoItems DEF Alone, NothingPending
<1>5. Placed(kd, pr, qu, re, jobs, answered, d)
  <2> HIDE DEF kd, pr
  <2>1. Placed(kd, pr, qu, re, jobs, answered, Calm)
    BY DEF kd, pr
  <2> QED
    BY <1>3, <2>1, PlacedStays
<1>6. Sent(D, statements, jobs, {s})
  BY <1>1, SentFree
<1>7. /\ Placed(kd, pr, queue', re, jobs', answered, d)
      /\ Flowing(D, statements', pending', jobs', d)
      /\ jobs'[s] # <<>> /\ \A t \in SlotSet : t # s => jobs'[t] = jobs[t]
  <2>1. \A t \in SlotSet : t # s => jobs[t] = jobs[t]
    OBVIOUS
  <2> QED
    BY <1>1, <1>4, <1>5, <1>6, <2>1, AsyncStarts
<1>8. Logged(kd, pr, written, answered, d)
  BY <1>1, <1>3 DEF Logged
<1> QED
  BY <1>1, <1>7, <1>8 DEF d

LEMMA AsyncBusy ==
  /\ Async!Busy \subseteq SlotSet /\ IsFiniteSet(Async!Busy) /\ Cardinality(Async!Busy) \in Nat
  /\ Async!Busy = {s \in SlotSet : jobs[s] # <<>>}
<1>1. Async!Busy = {s \in SlotSet : jobs[s] # <<>>}
  BY AsyncNames DEF Async!Busy
<1>2. IsFiniteSet(SlotSet)
  <2>1. 1 \in Int /\ MaxConcurrent + 1 \in Int
    BY BatchingAssumption
  <2>2. IsFiniteSet(1 .. MaxConcurrent + 1)
    BY <2>1, FS_Interval
  <2> QED
    BY <2>2 DEF SlotSet
<1>3. IsFiniteSet(Async!Busy)
  BY <1>1, <1>2, FS_Subset
<1> QED
  BY <1>1, <1>3, FS_CardinalityType

\* Unless as many batches as may be are under way, a slot is free.
LEMMA AsyncFree ==
  ASSUME Cardinality(Async!Busy) < MaxConcurrent
  PROVE  LET s == CHOOSE t \in Async!Free : \A u \in Async!Free : t <= u IN
         s \in SlotSet /\ s # MaxConcurrent + 1 /\ s \notin Async!Busy
<1>1. MaxConcurrent \in Nat
  BY BatchingAssumption
<1>2. Async!Free = (SlotSet \ {MaxConcurrent + 1}) \ Async!Busy
  BY AsyncNames DEF Async!Free
<1>3. Async!Free # {}
  <2> SUFFICES ASSUME Async!Free = {} PROVE FALSE
    OBVIOUS
  <2>1. 1 .. MaxConcurrent \subseteq Async!Busy
    BY <1>1, <1>2 DEF SlotSet
  <2>2. Cardinality(1 .. MaxConcurrent) = MaxConcurrent
    BY <1>1, FS_Interval
  <2>3. Cardinality(1 .. MaxConcurrent) <= Cardinality(Async!Busy)
    BY <2>1, AsyncBusy, FS_Subset
  <2> QED
    BY <1>1, <2>2, <2>3, AsyncBusy
<1>4. Async!Free \in SUBSET Nat
  BY <1>1, <1>2 DEF SlotSet
<1>5. \E t \in Async!Free : \A u \in Async!Free : t <= u
  BY <1>3, <1>4, LeastOf
<1> QED
  BY <1>2, <1>5

LEMMA AsyncTakesBatch == ASSUME AsyncInv, Async!TakeBatch PROVE AsyncInv'
<1> DEFINE s == CHOOSE t \in Async!Free : \A u \in Async!Free : t <= u
<1>1. /\ looping /\ Async!Begin(s, Async!TakeFirst(queue, BatchSize), statements, pending)
      /\ queue' = Async!TakeRest(queue, BatchSize)
      /\ looping' = (queue' # <<>> /\ Cardinality(Async!Busy) + 1 < MaxConcurrent)
      /\ Async!SendingNow
      /\ UNCHANGED <<asked, retryQueue, running, forcing, closing, written, answered, timeouts, stranded>>
  BY AsyncNames DEF Async!TakeBatch
<1>2. /\ AsyncFlags /\ queue # <<>> /\ Cardinality(Async!Busy) < MaxConcurrent
      /\ Placed(KindOf(asked), PriorityOf(asked), queue, retryQueue, jobs, answered, Calm)
  BY <1>1 DEF AsyncInv, AsyncFlags
<1>3. s \in SlotSet /\ s # MaxConcurrent + 1 /\ s \notin Async!Busy
  BY <1>2, AsyncFree
<1> HIDE DEF s
<1>4. jobs[s] = <<>>
  BY <1>3, AsyncBusy
<1>5. /\ AskedOK(asked')
      /\ Placed(KindOf(asked'), PriorityOf(asked'), queue', retryQueue', jobs', answered', Calm')
      /\ Flowing(DOMAIN asked', statements', pending', jobs', Calm')
      /\ Logged(KindOf(asked'), PriorityOf(asked'), written', answered', Calm')
      /\ jobs'[s] # <<>> /\ \A t \in SlotSet : t # s => jobs'[t] = jobs[t]
  BY <1>1, <1>2, <1>3, <1>4, AsyncBatch
<1>6. Cardinality(Async!Busy') = Cardinality(Async!Busy) + 1
  <2>1. Async!Busy' = {t \in SlotSet : jobs'[t] # <<>>}
    BY AsyncNames DEF Async!Busy
  <2>2. Async!Busy' = Async!Busy \cup {s}
    BY <1>3, <1>5, <2>1, AsyncBusy
  <2> QED
    BY <1>3, <2>2, AsyncBusy, FS_AddElement
<1>7. MaxConcurrent + 1 \in SlotSet
  BY BatchingAssumption DEF SlotSet
<1>8. /\ looping' \in BOOLEAN
      /\ looping' => queue' # <<>> /\ Cardinality(Async!Busy') < MaxConcurrent
  BY <1>1, <1>6
<1>9. AsyncFlags'
  BY <1>1, <1>2, <1>3, <1>5, <1>7, <1>8 DEF AsyncFlags, Async!SendingNow
<1> QED
  BY <1>5, <1>9 DEF AsyncInv

LEMMA AsyncForcesFlush == ASSUME AsyncInv, ~looping, Async!ForceFlush PROVE AsyncInv'
<1> DEFINE kd == KindOf(asked)
           pr == PriorityOf(asked)
           s == MaxConcurrent + 1
           all == Async!Reinsert(queue, retryQueue)
<1>1. /\ ~forcing /\ (queue # <<>> \/ retryQueue # <<>>) /\ forcing' = TRUE
      /\ Async!Begin(s, Async!TakeFirst(all, BatchSize), statements, pending)
      /\ queue' = Async!TakeRest(all, BatchSize) /\ retryQueue' = <<>> /\ Async!SendingNow
      /\ UNCHANGED <<asked, running, looping, closing, written, answered, timeouts, stranded>>
  BY AsyncNames DEF Async!ForceFlush
<1>2. /\ AsyncFlags /\ AskedOK(asked) /\ DOMAIN kd = DOMAIN asked
      /\ Placed(kd, pr, queue, retryQueue, jobs, answered, Calm)
  BY AskedIs DEF AsyncInv
<1>3. s \in SlotSet /\ jobs[s] = <<>>
  BY <1>1, <1>2, BatchingAssumption DEF SlotSet, AsyncFlags
<1>4. /\ retryQueue \in Seq(DOMAIN asked) /\ queue \in Seq(DOMAIN asked)
      /\ <<>> \in Seq(DOMAIN asked) /\ Items(<<>>) = {}
      /\ \A i : ~Ahead(retryQueue, i, i) /\ ~Ahead(<<>>, i, i)
  BY <1>2, NoItems DEF Placed, Apartness
<1>5. Placed(kd, pr, all, <<>>, jobs, answered, Calm)
  <2>1. /\ Items(retryQueue) = Items(retryQueue) \cup Items(<<>>)
        /\ Items(retryQueue) \cap Items(<<>>) = {}
    BY <1>4
  <2> QED
    BY <1>2, <1>4, <2>1, AsyncReturns
<1>6. all # <<>>
  <2>1. \A i \in DOMAIN asked : asked[i].priority \in 0 .. 3
    BY <1>2, AskedIs
  <2>2. all \in Seq(DOMAIN asked) /\ Items(all) = Items(queue) \cup Items(retryQueue)
    BY <1>4, <2>1, AsyncReinserts
  <2>3. Items(queue) # {} \/ Items(retryQueue) # {}
    BY <1>1, <1>4, ItemsOf
  <2> HIDE DEF all
  <2> QED
    BY <2>2, <2>3, NoItems
<1> HIDE DEF all, s
<1>7. /\ AskedOK(asked')
      /\ Placed(KindOf(asked'), PriorityOf(asked'), queue', retryQueue', jobs', answered', Calm')
      /\ Flowing(DOMAIN asked', statements', pending', jobs', Calm')
      /\ Logged(KindOf(asked'), PriorityOf(asked'), written', answered', Calm')
      /\ jobs'[s] # <<>>
  BY <1>1, <1>3, <1>5, <1>6, AsyncBatch
<1>8. AsyncFlags'
  BY <1>1, <1>2, <1>7 DEF AsyncFlags, Async!SendingNow, s
<1> QED
  BY <1>7, <1>8 DEF AsyncInv

LEMMA AsyncProcesses ==
  ASSUME AsyncInv, ~looping, NEW due \in SUBSET Async!Items(retryQueue), Async!ProcessQueue(due)
  PROVE  AsyncInv'
<1> DEFINE kd == KindOf(asked)
           pr == PriorityOf(asked)
           moved == Among(retryQueue, due)
           left == Among(retryQueue, Items(retryQueue) \ due)
<1>1. /\ Cardinality(Async!Busy) < MaxConcurrent /\ due \subseteq Items(retryQueue)
      /\ queue # <<>> \/ due # {}
      /\ queue' = Async!Reinsert(queue, moved) /\ retryQueue' = left /\ looping' = TRUE
      /\ UNCHANGED <<asked, pending, statements, jobs, running, forcing, closing, written, answered,
                     timeouts, overlapped, stranded>>
  BY AsyncNames DEF Async!ProcessQueue
<1>2. /\ AsyncFlags /\ AskedOK(asked) /\ DOMAIN kd = DOMAIN asked
      /\ Placed(kd, pr, queue, retryQueue, jobs, answered, Calm)
  BY AskedIs DEF AsyncInv
<1>3. /\ retryQueue \in Seq(DOMAIN asked) /\ queue \in Seq(DOMAIN asked)
      /\ \A i : ~Ahead(retryQueue, i, i)
  BY <1>2 DEF Placed, Apartness
<1>4. /\ moved \in Seq(DOMAIN asked) /\ Items(moved) = due /\ \A i : ~Ahead(moved, i, i)
  <2>1. Items(moved) = Items(retryQueue) \cap due
    BY <1>3, ItemsOfAmong
  <2> QED
    BY <1>1, <1>3, <2>1, ItemsOfAmong
<1>5. /\ left \in Seq(DOMAIN asked) /\ Items(left) = Items(retryQueue) \ due /\ \A i : ~Ahead(left, i, i)
  <2>1. Items(left) = Items(retryQueue) \cap (Items(retryQueue) \ due)
    BY <1>3, ItemsOfAmong
  <2> QED
    BY <1>3, <2>1, ItemsOfAmong
<1> HIDE DEF moved, left
<1>6. Placed(kd, pr, queue', retryQueue', jobs, answered, Calm)
  <2>1. Items(retryQueue) = Items(moved) \cup Items(left) /\ Items(moved) \cap Items(left) = {}
    BY <1>1, <1>4, <1>5
  <2> QED
    BY <1>1, <1>2, <1>4, <1>5, <2>1, AsyncReturns
<1>7. queue' # <<>>
  <2>1. \A i \in DOMAIN asked : asked[i].priority \in 0 .. 3
    BY <1>2, AskedIs
  <2>2. Items(queue') = Items(queue) \cup due
    BY <1>1, <1>3, <1>4, <2>1, AsyncReinserts
  <2>3. Items(queue) # {} \/ due # {}
    BY <1>1, <1>3, ItemsOf
  <2> QED
    BY <2>2, <2>3, NoItems
<1>8. Calm' = Calm /\ Async!Busy' = Async!Busy
  BY <1>1 DEF Calm, Async!Busy
<1>9. AsyncFlags'
  BY <1>1, <1>2, <1>7, <1>8 DEF AsyncFlags
<1> QED
  BY <1>1, <1>6, <1>8, <1>9 DEF AsyncInv

\* One item more was asked for.
LEMMA AskedMore ==
  ASSUME NEW al, AskedOK(al), Len(al) < MaxItems, NEW kind \in AllKinds, NEW p \in Priority
  PROVE  LET aq == Append(al, [kind |-> kind, priority |-> p, retryCount |-> 0])
             n == Len(al) + 1
         IN  /\ AskedOK(aq) /\ Extends(KindOf(al), PriorityOf(al), n, KindOf(aq), PriorityOf(aq))
             /\ DOMAIN al \subseteq DOMAIN aq /\ DOMAIN aq = 1 .. n /\ PriorityOf(aq)[n] = p
<1> DEFINE x == [kind |-> kind, priority |-> p, retryCount |-> 0]
           aq == Append(al, x)
           n == Len(al) + 1
<1>1. /\ al \in Seq(AskedItem) /\ DOMAIN al = 1 .. Len(al) /\ Len(al) \in Nat
      /\ DOMAIN KindOf(al) = 1 .. Len(al) /\ DOMAIN PriorityOf(al) = 1 .. Len(al)
      /\ \A i \in DOMAIN al : KindOf(al)[i] = al[i].kind /\ PriorityOf(al)[i] = al[i].priority
  BY AskedIs DEF AskedOK
<1>2. x \in AskedItem /\ x.priority = p
  BY BatchingAssumption DEF AskedItem
<1> HIDE DEF x
<1>3. /\ aq \in Seq(AskedItem) /\ Len(aq) = n /\ DOMAIN aq = 1 .. n /\ aq[n] = x
      /\ \A i \in 1 .. Len(al) : aq[i] = al[i]
  BY <1>1, <1>2
<1> HIDE DEF aq
<1>4. AskedOK(aq)
  BY <1>1, <1>3, BatchingAssumption DEF AskedOK
<1>5. /\ DOMAIN KindOf(aq) = 1 .. n /\ DOMAIN PriorityOf(aq) = 1 .. n
      /\ \A i \in 1 .. n : KindOf(aq)[i] = aq[i].kind /\ PriorityOf(aq)[i] = aq[i].priority
  BY <1>3 DEF KindOf, PriorityOf
<1>6. n \in Nat /\ n \notin 1 .. Len(al) /\ 1 .. n = (1 .. Len(al)) \cup {n} /\ n \in 1 .. n
      /\ \A i \in 1 .. Len(al) : i \in Nat /\ i < n /\ i \in 1 .. n
  BY <1>1
<1>7. \A i \in 1 .. Len(al) : KindOf(aq)[i] = KindOf(al)[i] /\ PriorityOf(aq)[i] = PriorityOf(al)[i]
  BY <1>1, <1>3, <1>5, <1>6
<1> HIDE DEF n
<1>8. Extends(KindOf(al), PriorityOf(al), n, KindOf(aq), PriorityOf(aq))
  BY <1>1, <1>5, <1>6, <1>7 DEF Extends
<1> QED
  BY <1>1, <1>2, <1>3, <1>4, <1>5, <1>6, <1>8 DEF aq, n, x

LEMMA AsyncEnqueues ==
  ASSUME AsyncInv, ~looping, NEW kind \in AllKinds, NEW p \in Priority, Async!Enqueue(kind, p)
  PROVE  AsyncInv'
<1> DEFINE kd == KindOf(asked)
           pr == PriorityOf(asked)
           D == DOMAIN asked
           n == Len(asked) + 1
           aq == Append(asked, [kind |-> kind, priority |-> p, retryCount |-> 0])
           ke == KindOf(aq)
           pq == PriorityOf(aq)
           anq == Append(answered, "none")
<1>1. /\ Len(asked) < MaxItems /\ closing = "no" /\ asked' = aq /\ answered' = anq
      /\ queue' = Async!InsertByPriority(queue, n, p) /\ running' = TRUE
      /\ UNCHANGED <<retryQueue, pending, statements, jobs, looping, forcing, closing, written, timeouts,
                     overlapped, stranded>>
  BY DEF Async!Enqueue
<1>2. /\ AskedOK(asked) /\ Placed(kd, pr, queue, retryQueue, jobs, answered, Calm)
      /\ Sent(D, statements, jobs, {}) /\ pending \in PendingOf(D) /\ (Calm => Alone(statements, pending, jobs))
      /\ Logged(kd, pr, written, answered, Calm) /\ AsyncFlags
  BY DEF AsyncInv, Flowing
<1>3. /\ AskedOK(aq) /\ Extends(kd, pr, n, ke, pq) /\ D \subseteq DOMAIN aq /\ DOMAIN aq = 1 .. n /\ pq[n] = p
  BY <1>1, <1>2, AskedMore
<1>4. /\ DOMAIN kd = D /\ D = 1 .. Len(asked) /\ Len(asked) \in Nat
      /\ \A i \in D : pr[i] = asked[i].priority
  BY <1>2, AskedIs
<1>5. DOMAIN ke = DOMAIN aq /\ \A i \in DOMAIN aq : pq[i] \in Nat
  <2> HIDE DEF aq
  <2> QED
    BY <1>3, AskedIs
<1>6. /\ anq \in [DOMAIN ke -> Replies] /\ anq[n] = "none" /\ \A i \in DOMAIN kd : anq[i] = answered[i]
  <2>1. answered \in [1 .. Len(asked) -> Replies]
    BY <1>2, <1>4 DEF Placed
  <2>2. Answered(answered, Len(asked), anq)
    BY <1>4, <2>1, MoreAnswers
  <2> QED
    BY <1>3, <1>4, <1>5, <2>2 DEF Answered
<1> HIDE DEF aq, ke, pq, anq, kd, pr
<1>7. Inserted(D, queue, Async!InsertByPriority(queue, n, p), n, p)
  <2>1. queue \in Seq(D)
    BY <1>2, <1>4 DEF Placed
  <2> QED
    BY <2>1, AsyncInserts
<1>8. PICK a \in Seq(D), b \in Seq(D) :
           /\ queue = a \o b /\ Async!InsertByPriority(queue, n, p) = a \o <<n>> \o b
           /\ \A i \in Items(a) : ~(asked[i].priority < p)
           /\ b # <<>> => asked[b[1]].priority < p
  BY <1>7 DEF Inserted
<1>9. /\ \A i \in Items(a) : ~(pr[i] < pq[n])
      /\ b # <<>> => pr[b[1]] < pq[n]
  <2>1. Items(a) \subseteq D
    BY ItemsOf
  <2>2. b # <<>> => b[1] \in D
    BY ItemsOfTail
  <2> QED
    BY <1>3, <1>4, <1>8, <2>1, <2>2
<1>10. Placed(ke, pq, queue', retryQueue, jobs, anq, Calm)
  <2>1. a \in Seq(DOMAIN kd) /\ b \in Seq(DOMAIN kd) /\ queue = a \o b
    BY <1>4, <1>8
  <2>2. queue' = a \o <<n>> \o b
    BY <1>1, <1>8
  <2>4. Between(pr, pq, n, a, b) /\ Numbered(ke, pq) /\ AnswersMore(kd, ke, n, answered, anq)
    BY <1>5, <1>6, <1>9 DEF Between, Numbered, AnswersMore
  <2> HIDE DEF n
  <2>3. Placed(ke, pq, a \o <<n>> \o b, retryQueue, jobs, anq, Calm)
    BY <1>2, <1>3, <2>1, <2>4, PlacedQueueing
  <2> QED
    BY <2>2, <2>3
<1>11. Logged(ke, pq, written, anq, Calm)
  BY <1>2, <1>3, <1>6, LoggedGrows
<1>12. Flowing(DOMAIN aq, statements, pending, jobs, Calm)
  <2>1. Sent(DOMAIN aq, statements, jobs, {})
    BY <1>2, <1>3, SentGrows
  <2>2. pending \in PendingOf(DOMAIN aq)
    <3>1. Seq(D) \subseteq Seq(DOMAIN aq)
      BY <1>3, SeqMonotonic
    <3> QED
      BY <1>2, <3>1 DEF PendingOf
  <2> QED
    BY <1>2, <2>1, <2>2 DEF Flowing
<1>13. Calm' = Calm
  BY <1>1 DEF Calm
<1>14. AsyncFlags'
  BY <1>1, <1>2 DEF AsyncFlags
<1> QED
  BY <1>1, <1>3, <1>10, <1>11, <1>12, <1>13, <1>14 DEF AsyncInv, ke, pq

LEMMA AsyncStops == ASSUME AsyncInv, Async!Stop \/ Async!Shutdown PROVE AsyncInv'
<1>1. /\ UNCHANGED <<asked, queue, retryQueue, pending, statements, jobs, looping, forcing, written, answered,
                     timeouts, overlapped, stranded>>
      /\ running' \in BOOLEAN
      /\ closing' = closing \/ (closing' = "shutdown" /\ closing = "no")
  BY DEF Async!Stop, Async!Shutdown, AsyncInv, AsyncFlags
<1>2. Calm' = Calm /\ Async!Busy' = Async!Busy
  BY <1>1 DEF Calm, Async!Busy
<1>3. AsyncFlags'
  <2>1. AsyncFlags
    BY DEF AsyncInv
  <2> QED
    BY <1>1, <1>2, <2>1 DEF AsyncFlags
<1> QED
  BY <1>1, <1>2, <1>3 DEF AsyncInv

\* What is queued or waits for a retry is rejected, by Clear or by Close.
LEMMA AsyncRejects ==
  ASSUME AsyncInv, Async!RejectAll, UNCHANGED <<asked, pending, statements, jobs, written, timeouts, overlapped>>
  PROVE  /\ AskedOK(asked')
         /\ Placed(KindOf(asked'), PriorityOf(asked'), queue', retryQueue', jobs', answered', Calm')
         /\ Flowing(DOMAIN asked', statements', pending', jobs', Calm')
         /\ Logged(KindOf(asked'), PriorityOf(asked'), written', answered', Calm')
         /\ answered' = Say(KindOf(asked), Items(queue) \cup Items(retryQueue), "failed", answered)
         /\ queue' = <<>> /\ retryQueue' = <<>>
<1> DEFINE kd == KindOf(asked)
           pr == PriorityOf(asked)
           is == Items(queue) \cup Items(retryQueue)
<1>1. /\ AskedOK(asked) /\ Placed(kd, pr, queue, retryQueue, jobs, answered, Calm)
      /\ Flowing(DOMAIN asked, statements, pending, jobs, Calm) /\ Logged(kd, pr, written, answered, Calm)
  BY DEF AsyncInv
<1>2. answered' = Say(kd, is, "failed", answered) /\ queue' = <<>> /\ retryQueue' = <<>>
  <2>1. answered' = Async!Told(is, "failed") /\ queue' = <<>> /\ retryQueue' = <<>>
    BY AsyncNames DEF Async!RejectAll
  <2> HIDE DEF is
  <2> QED
    BY <2>1, AsyncTells
<1>3. Calm' = Calm
  BY DEF Calm
<1>4. Placed(kd, pr, <<>>, <<>>, jobs, Say(kd, is, "failed", answered), Calm)
  <2> HIDE DEF kd, pr
  <2> QED
    BY <1>1, PlacedRejecting
<1>5. Logged(kd, pr, written, Say(kd, is, "failed", answered), Calm)
  <2> HIDE DEF kd, pr, is
  <2> QED
    BY <1>1, LoggedFailing
<1> QED
  BY <1>1, <1>2, <1>3, <1>4, <1>5

LEMMA AsyncClears == ASSUME AsyncInv, ~looping, Async!Clear PROVE AsyncInv'
<1>1. /\ Async!RejectAll
      /\ UNCHANGED <<asked, pending, statements, jobs, running, looping, forcing, closing, written, timeouts,
                     overlapped, stranded>>
  BY DEF Async!Clear
<1>2. /\ AskedOK(asked')
      /\ Placed(KindOf(asked'), PriorityOf(asked'), queue', retryQueue', jobs', answered', Calm')
      /\ Flowing(DOMAIN asked', statements', pending', jobs', Calm')
      /\ Logged(KindOf(asked'), PriorityOf(asked'), written', answered', Calm')
      /\ answered' = Say(KindOf(asked), Items(queue) \cup Items(retryQueue), "failed", answered)
  BY <1>1, AsyncRejects
<1>3. AsyncFlags'
  <2>1. AsyncFlags /\ AskedOK(asked)
    BY DEF AsyncInv
  <2>2. timeouts' \in Nat /\ overlapped' \in BOOLEAN /\ "failed" \in {"ok", "failed"}
        /\ forcing' \in BOOLEAN /\ (forcing' <=> jobs'[MaxConcurrent + 1] # <<>>)
    BY <1>1, <2>1 DEF AsyncFlags
  <2> DEFINE is == Items(queue) \cup Items(retryQueue)
  <2>3. answered' = Say(KindOf(asked), is, "failed", answered)
    BY <1>2
  <2> HIDE DEF is
  <2> QED
    BY <1>1, <2>1, <2>2, <2>3, AsyncFlagsKept
<1> QED
  BY <1>2, <1>3 DEF AsyncInv

LEMMA AsyncCloses == ASSUME AsyncInv, ~looping, Async!Close PROVE AsyncInv'
<1>1. /\ closing' = "closed" /\ running' = FALSE /\ stranded' = Async!Underway /\ Async!RejectAll
      /\ UNCHANGED <<asked, pending, statements, jobs, looping, forcing, written, timeouts, overlapped>>
  BY DEF Async!Close
<1>2. /\ AskedOK(asked')
      /\ Placed(KindOf(asked'), PriorityOf(asked'), queue', retryQueue', jobs', answered', Calm')
      /\ Flowing(DOMAIN asked', statements', pending', jobs', Calm')
      /\ Logged(KindOf(asked'), PriorityOf(asked'), written', answered', Calm')
      /\ queue' = <<>> /\ retryQueue' = <<>>
  BY <1>1, AsyncRejects
<1>3. ASSUME NEW i \in DOMAIN asked', answered'[i] = "none"
      PROVE  i \in stranded'
  <2>1. i \in DOMAIN KindOf(asked')
    BY <1>2, AskedIs
  <2>2. Waits(<<>>, <<>>, jobs, i)
    BY <1>1, <1>2, <1>3, <2>1 DEF Placed
  <2>3. PICK s \in SlotSet : Staged(jobs[s], i)
    BY <2>2, NoItems DEF Waits
  <2>4. PICK n \in DOMAIN jobs[s] : i \in Items(jobs[s][n].batch)
    BY <2>3 DEF Staged, Items
  <2> QED
    BY <1>1, <2>4, AsyncNames DEF Async!Underway
<1>4. AsyncFlags'
  <2>1. AsyncFlags
    BY DEF AsyncInv
  <2> QED
    BY <1>1, <1>3, <2>1 DEF AsyncFlags
<1> QED
  BY <1>2, <1>4 DEF AsyncInv

LEMMA AsyncInitially == ASSUME Async!Init PROVE AsyncInv
<1>1. /\ asked = <<>> /\ queue = <<>> /\ retryQueue = <<>> /\ statements = <<>> /\ written = <<>>
      /\ answered = <<>> /\ pending = [kind \in {"insert", "update"} |-> <<>>]
      /\ jobs = [s \in SlotSet |-> <<>>] /\ timeouts = 0 /\ overlapped = FALSE
      /\ running = FALSE /\ looping = FALSE /\ forcing = FALSE /\ closing = "no"
  BY AsyncNames DEF Async!Init
<1>2. AskedOK(<<>>)
  <2>1. <<>> \in Seq(AskedItem) /\ Len(<<>>) = 0
    OBVIOUS
  <2> QED
    BY <2>1, BatchingAssumption DEF AskedOK
<1>3. /\ <<>> \in Seq({}) /\ DOMAIN <<>> = {} /\ <<>> \in [{} -> Replies]
      /\ DOMAIN KindOf(<<>>) = {}
  BY DEF KindOf
<1>4. Placed(KindOf(<<>>), PriorityOf(<<>>), <<>>, <<>>, jobs, <<>>, Calm)
  <2>1. DOMAIN jobs = SlotSet /\ \A s \in SlotSet : jobs[s] = <<>>
    BY <1>1
  <2>2. \A s \in SlotSet : Working(KindOf(<<>>), PriorityOf(<<>>), jobs[s], Calm)
    BY <2>1, WorkingNothing
  <2>3. Apartness(<<>>, <<>>, jobs)
    BY <2>1, NoItems, NothingStaged DEF Apartness
  <2>4. Orderly(KindOf(<<>>), PriorityOf(<<>>), <<>>, <<>>, jobs)
    BY NoItems DEF Orderly, InTurn
  <2> QED
    BY <1>3, <2>1, <2>2, <2>3, <2>4, NoItems DEF Placed
<1>5. Logged(KindOf(<<>>), PriorityOf(<<>>), <<>>, <<>>, Calm)
  <2>1. <<>> \in Seq(WriteOf(DOMAIN KindOf(<<>>)))
    OBVIOUS
  <2> QED
    BY <1>3, <2>1, NoItems DEF Logged, LoggedOnce
<1>6. Flowing({}, <<>>, pending, jobs, Calm)
  <2>1. <<>> \in Seq(StatementOf({}))
    OBVIOUS
  <2>2. pending \in PendingOf({}) /\ NothingPending(pending)
    <3>1. <<>> \in Seq({})
      OBVIOUS
    <3> QED
      BY <1>1, <3>1 DEF PendingOf, NothingPending
  <2>3. Sent({}, <<>>, jobs, {})
    BY <1>1, <2>1, NoItems DEF Sent
  <2> QED
    BY <2>2, <2>3, AloneNothing DEF Flowing
<1>7. AsyncFlags
  <2>1. MaxConcurrent + 1 \in SlotSet
    BY BatchingAssumption DEF SlotSet
  <2> QED
    BY <1>1, <2>1 DEF AsyncFlags
<1> QED
  BY <1>1, <1>2, <1>3, <1>4, <1>5, <1>6, <1>7 DEF AsyncInv

LEMMA AsyncStep == ASSUME AsyncInv, Async!Next PROVE AsyncInv'
<1>1. CASE Async!TakeBatch
  BY <1>1, AsyncTakesBatch
<1>2. ASSUME ~looping, NEW kind \in Async!Kinds, NEW p \in Priority, Async!Enqueue(kind, p) PROVE AsyncInv'
  BY <1>2, AsyncNames, AsyncEnqueues
<1>3. ASSUME ~looping, NEW due \in SUBSET Async!Items(retryQueue), Async!ProcessQueue(due) PROVE AsyncInv'
  BY <1>3, AsyncProcesses
<1>4. ASSUME ~looping, NEW k \in DOMAIN statements, NEW ok \in BOOLEAN, Async!Settle(k, ok) PROVE AsyncInv'
  BY <1>4, AsyncSettlesOne, AsyncSettlesNone
<1>5. ASSUME ~looping, NEW k \in DOMAIN statements, Async!Timeout(k) PROVE AsyncInv'
  BY <1>5, AsyncTimesOut
<1>6. CASE ~looping /\ Async!ForceFlush
  BY <1>6, AsyncForcesFlush
<1>7. CASE ~looping /\ Async!Clear
  BY <1>7, AsyncClears
<1>8. CASE ~looping /\ Async!Close
  BY <1>8, AsyncCloses
<1>9. CASE Async!Stop \/ Async!Shutdown
  BY <1>9, AsyncStops
<1> QED
  BY <1>1, <1>2, <1>3, <1>4, <1>5, <1>6, <1>7, <1>8, <1>9 DEF Async!Next, Async!Elsewhere

-----------------------------------------------------------------------------
(* AsyncFlushQueue: what the invariant says of the properties.             *)

\* A queue without repetitions is no longer than the set of its items is large.
LEMMA NoRepetitions ==
  ASSUME NEW S, IsFiniteSet(S), NEW q \in Seq(S), \A i : ~Ahead(q, i, i)
  PROVE  Len(q) <= Cardinality(S)
<1>1. q \in [1 .. Len(q) -> S] /\ Len(q) \in Nat
  BY LenProperties
<1>2. \A k, l \in 1 .. Len(q) : q[k] = q[l] => k = l
  <2> SUFFICES ASSUME NEW k \in 1 .. Len(q), NEW l \in 1 .. Len(q), q[k] = q[l], k # l PROVE FALSE
    OBVIOUS
  <2>1. k < l \/ l < k
    BY <1>1
  <2> QED
    BY <1>1, <2>1 DEF Ahead
<1>3. q \in Injection(1 .. Len(q), S)
  BY <1>1, <1>2 DEF Injection, IsInjective
<1>4. Cardinality(1 .. Len(q)) <= Cardinality(S)
  BY <1>3, FS_Injection
<1>5. 1 \in Int /\ Len(q) \in Int
  BY <1>1
<1>6. Cardinality(1 .. Len(q)) = IF 1 > Len(q) THEN 0 ELSE Len(q) - 1 + 1
  BY <1>5, FS_Interval
<1> QED
  BY <1>1, <1>4, <1>6

\* An item is at one position of a queue at most.
LEMMA OnePosition ==
  ASSUME NEW S, NEW q \in Seq(S), NEW i, ~Ahead(q, i, i)
  PROVE  IF i \in Items(q) THEN \E k : {n \in DOMAIN q : q[n] = i} = {k} ELSE {n \in DOMAIN q : q[n] = i} = {}
<1>1. DOMAIN q = 1 .. Len(q) /\ Len(q) \in Nat
  BY LenProperties
<1>2. CASE i \in Items(q)
  <2>1. PICK k \in DOMAIN q : q[k] = i
    BY <1>2 DEF Items
  <2>2. ASSUME NEW n \in DOMAIN q, q[n] = i PROVE n = k
    <3>1. ~(n < k) /\ ~(k < n)
      BY <2>1, <2>2 DEF Ahead
    <3> QED
      BY <1>1, <3>1
  <2>3. {n \in DOMAIN q : q[n] = i} = {k}
    BY <2>1, <2>2
  <2> QED
    BY <1>2, <2>3
<1> QED
  BY <1>2 DEF Items

\* An item is in one of the jobs of a slot at most.
LEMMA OneJob ==
  ASSUME NEW kd, NEW pr, NEW js, NEW c, Working(kd, pr, js, c), NEW i
  PROVE  IF Staged(js, i) THEN \E k : {n \in DOMAIN js : i \in Items(js[n].batch)} = {k}
         ELSE {n \in DOMAIN js : i \in Items(js[n].batch)} = {}
<1>1. PICK q : Divided(kd, q, js)
  BY DEF Working
<1>2. DOMAIN js = 1 .. Len(js) /\ Len(js) \in Nat
  BY <1>1, LenProperties DEF Divided
<1>3. CASE Staged(js, i)
  <2>1. PICK k \in DOMAIN js : i \in Items(js[k].batch)
    BY <1>3 DEF Items, Staged
  <2>2. ASSUME NEW n \in DOMAIN js, i \in Items(js[n].batch) PROVE n = k
    <3>1. ~Ahead(js, js[n], js[k]) /\ ~Ahead(js, js[k], js[n])
      BY <1>1, <2>1, <2>2 DEF Divided
    <3>2. ~(n < k) /\ ~(k < n)
      BY <3>1 DEF Ahead
    <3> QED
      BY <1>2, <3>2
  <2>3. {n \in DOMAIN js : i \in Items(js[n].batch)} = {k}
    BY <2>1, <2>2
  <2> QED
    BY <1>3, <2>3
<1>4. CASE ~Staged(js, i)
  <2>1. \A n \in DOMAIN js : js[n] \in Items(js)
    BY DEF Items
  <2>2. \A n \in DOMAIN js : i \notin Items(js[n].batch)
    BY <1>4, <2>1 DEF Staged
  <2> QED
    BY <1>4, <2>2
<1> QED
  BY <1>3, <1>4

LEMMA AsyncOnePlace == ASSUME AsyncInv PROVE Async!OnePlace
<1> DEFINE inQueue(i) == {<<"queue", 0, k>> : k \in {k \in DOMAIN queue : queue[k] = i}}
           inRetries(i) == {<<"retryQueue", 0, k>> : k \in {k \in DOMAIN retryQueue : retryQueue[k] = i}}
           inJobs(i) == UNION {{<<"jobs", s, n>> : n \in {n \in DOMAIN jobs[s] : i \in Items(jobs[s][n].batch)}}
                               : s \in SlotSet}
<1>1. /\ Placed(KindOf(asked), PriorityOf(asked), queue, retryQueue, jobs, answered, Calm)
      /\ DOMAIN KindOf(asked) = DOMAIN asked
  BY AskedIs DEF AsyncInv
<1>2. /\ queue \in Seq(DOMAIN asked) /\ retryQueue \in Seq(DOMAIN asked)
      /\ Apartness(queue, retryQueue, jobs)
      /\ \A s \in SlotSet : Working(KindOf(asked), PriorityOf(asked), jobs[s], Calm)
  BY <1>1 DEF Placed
<1> SUFFICES ASSUME NEW i \in DOMAIN asked
             PROVE  IF answered[i] = "none" THEN \E p \in Async!Places(i) : Async!Places(i) = {p}
                    ELSE Async!Places(i) = {}
  BY DEF Async!OnePlace
<1>3. answered[i] = "none" <=> Waits(queue, retryQueue, jobs, i)
  BY <1>1 DEF Placed
<1>4. Async!Places(i) = inQueue(i) \cup inRetries(i) \cup inJobs(i)
  BY AsyncNames DEF Async!Places
<1>5. IF i \in Items(queue) THEN \E p : inQueue(i) = {p} ELSE inQueue(i) = {}
  <2>1. IF i \in Items(queue) THEN \E k : {n \in DOMAIN queue : queue[n] = i} = {k}
        ELSE {n \in DOMAIN queue : queue[n] = i} = {}
    BY <1>2, OnePosition DEF Apartness
  <2>2. CASE i \in Items(queue)
    <3>1. PICK k : {n \in DOMAIN queue : queue[n] = i} = {k}
      BY <2>1, <2>2
    <3>2. inQueue(i) = {<<"queue", 0, k>>}
      BY <3>1
    <3> QED
      BY <2>2, <3>2
  <2> QED
    BY <2>1, <2>2
<1>6. IF i \in Items(retryQueue) THEN \E p : inRetries(i) = {p} ELSE inRetries(i) = {}
  <2>1. IF i \in Items(retryQueue) THEN \E k : {n \in DOMAIN retryQueue : retryQueue[n] = i} = {k}
        ELSE {n \in DOMAIN retryQueue : retryQueue[n] = i} = {}
    BY <1>2, OnePosition DEF Apartness
  <2>2. CASE i \in Items(retryQueue)
    <3>1. PICK k : {n \in DOMAIN retryQueue : retryQueue[n] = i} = {k}
      BY <2>1, <2>2
    <3>2. inRetries(i) = {<<"retryQueue", 0, k>>}
      BY <3>1
    <3> QED
      BY <2>2, <3>2
  <2> QED
    BY <2>1, <2>2
<1>7. IF \E s \in SlotSet : Staged(jobs[s], i) THEN \E p : inJobs(i) = {p} ELSE inJobs(i) = {}
  <2> DEFINE at(s) == {n \in DOMAIN jobs[s] : i \in Items(jobs[s][n].batch)}
  <2>1. \A s \in SlotSet : IF Staged(jobs[s], i) THEN \E k : at(s) = {k} ELSE at(s) = {}
    BY <1>2, OneJob
  <2>2. CASE \E s \in SlotSet : Staged(jobs[s], i)
    <3>1. PICK s \in SlotSet : Staged(jobs[s], i)
      BY <2>2
    <3>2. PICK k : at(s) = {k}
      BY <2>1, <3>1
    <3>3. \A t \in SlotSet : t # s => at(t) = {}
      BY <1>2, <2>1, <3>1 DEF Apartness
    <3>4. inJobs(i) = UNION {{<<"jobs", t, n>> : n \in at(t)} : t \in SlotSet}
      OBVIOUS
    <3> HIDE DEF at, inJobs
    <3>5. inJobs(i) = {<<"jobs", s, k>>}
      BY <3>2, <3>3, <3>4
    <3> QED
      BY <2>2, <3>5
  <2>3. CASE ~\E s \in SlotSet : Staged(jobs[s], i)
    <3>1. \A t \in SlotSet : at(t) = {}
      BY <2>1, <2>3
    <3>2. inJobs(i) = UNION {{<<"jobs", t, n>> : n \in at(t)} : t \in SlotSet}
      OBVIOUS
    <3> HIDE DEF at, inJobs
    <3>3. inJobs(i) = {}
      BY <3>1, <3>2
    <3> QED
      BY <2>3, <3>3
  <2> QED
    BY <2>2, <2>3
<1> HIDE DEF inQueue, inRetries, inJobs
<1>8. CASE i \in Items(queue)
  <2>1. i \notin Items(retryQueue) /\ ~\E s \in SlotSet : Staged(jobs[s], i)
    BY <1>2, <1>8 DEF Apartness
  <2>2. PICK p : inQueue(i) = {p}
    BY <1>5, <1>8
  <2>3. Async!Places(i) = {p}
    BY <1>4, <1>6, <1>7, <2>1, <2>2
  <2> QED
    BY <1>3, <1>8, <2>3 DEF Waits
<1>9. CASE i \in Items(retryQueue)
  <2>1. i \notin Items(queue) /\ ~\E s \in SlotSet : Staged(jobs[s], i)
    BY <1>2, <1>9 DEF Apartness
  <2>2. PICK p : inRetries(i) = {p}
    BY <1>6, <1>9
  <2>3. Async!Places(i) = {p}
    BY <1>4, <1>5, <1>7, <2>1, <2>2
  <2> QED
    BY <1>3, <1>9, <2>3 DEF Waits
<1>10. CASE \E s \in SlotSet : Staged(jobs[s], i)
  <2>1. i \notin Items(queue) /\ i \notin Items(retryQueue)
    BY <1>2, <1>10 DEF Apartness
  <2>2. PICK p : inJobs(i) = {p}
    BY <1>7, <1>10
  <2>3. Async!Places(i) = {p}
    BY <1>4, <1>5, <1>6, <2>1, <2>2
  <2> QED
    BY <1>3, <1>10, <2>3 DEF Waits
<1>11. CASE ~Waits(queue, retryQueue, jobs, i)
  BY <1>3, <1>4, <1>5, <1>6, <1>7, <1>11 DEF Waits
<1> QED
  BY <1>8, <1>9, <1>10, <1>11 DEF Waits

LEMMA AsyncOnceInTurn == ASSUME AsyncInv PROVE Async!OnceInTurn
<1> DEFINE kd == KindOf(asked)
           pr == PriorityOf(asked)
<1> SUFFICES ASSUME timeouts = 0, ~overlapped, NEW i \in DOMAIN asked
             PROVE  /\ Cardinality(Async!WrittenIn(i)) <= 1
                    /\ \A j \in 1 .. i - 1 :
                         asked[i] = asked[j] /\ asked[i].kind # "delete" => ~Async!Before(i, j)
  BY AsyncNames DEF Async!OnceInTurn
<1>1. Calm
  BY DEF Calm
<1>2. LoggedOnce(kd, pr, written, answered) /\ written \in Seq(WriteOf(DOMAIN kd)) /\ AskedOK(asked)
  BY <1>1 DEF AsyncInv, Logged
<1>3. DOMAIN written = 1 .. Len(written) /\ Len(written) \in Nat
  BY <1>2, LenProperties
<1>4. ASSUME NEW m \in DOMAIN written, NEW n \in DOMAIN written,
             i \in Items(written[m].batch), i \in Items(written[n].batch)
      PROVE  m = n
  <2>1. ~Ahead(written, written[m], written[n]) /\ ~Ahead(written, written[n], written[m])
    BY <1>2, <1>4 DEF LoggedOnce
  <2>2. ~(m < n) /\ ~(n < m)
    BY <2>1 DEF Ahead
  <2> QED
    BY <1>3, <2>2
<1>5. Cardinality(Async!WrittenIn(i)) <= 1
  <2>1. \A m, n \in Async!WrittenIn(i) : m = n
    BY <1>4, AsyncNames DEF Async!WrittenIn
  <2> QED
    BY <2>1, AtMostOne
<1>6. ASSUME NEW j \in 1 .. i - 1, asked[i] = asked[j], asked[i].kind # "delete", Async!Before(i, j)
      PROVE  FALSE
  <2>1. i \in 1 .. Len(asked) /\ j \in 1 .. Len(asked) /\ ~(i < j) /\ Len(asked) \in Nat
    BY <1>2, <1>6, AskedIs
  <2>2. Alike(kd, pr, i, j)
    BY <1>2, <1>6, <2>1, AskedIs DEF Alike
  <2>3. PICK m \in DOMAIN written, n \in DOMAIN written :
          /\ i \in Items(written[m].batch) /\ j \in Items(written[n].batch)
          /\ \/ m < n
             \/ m = n /\ \E k, l \in DOMAIN written[m].batch :
                  k < l /\ written[m].batch[k] = i /\ written[m].batch[l] = j
    BY <1>6, AsyncNames DEF Async!Before
  <2>4. CASE m < n
    <3>1. Ahead(written, written[m], written[n])
      BY <2>4 DEF Ahead
    <3> QED
      BY <1>2, <2>1, <2>2, <2>3, <3>1 DEF LoggedOnce
  <2>5. CASE Ahead(written[m].batch, i, j)
    <3>1. written[m] \in Items(written)
      BY DEF Items
    <3>2. InTurn(kd, pr, written[m].batch)
      BY <1>2, <3>1 DEF LoggedOnce
    <3> QED
      BY <2>1, <2>2, <2>5, <3>2 DEF InTurn
  <2> QED
    BY <2>3, <2>4, <2>5 DEF Ahead
<1> QED
  BY <1>5, <1>6

LEMMA AsyncTypes == ASSUME AsyncInv PROVE Async!TypeOK
<1>1. /\ AskedOK(asked) /\ AsyncFlags /\ DOMAIN KindOf(asked) = DOMAIN asked
      /\ DOMAIN asked = 1 .. Len(asked) /\ Len(asked) \in Nat
      /\ Placed(KindOf(asked), PriorityOf(asked), queue, retryQueue, jobs, answered, Calm)
      /\ Sent(DOMAIN asked, statements, jobs, {})
  BY AskedIs DEF AsyncInv, Flowing
<1>2. asked \in Seq([kind : Async!Kinds, priority : Priority, retryCount : 0 .. MaxRetries])
  BY <1>1, AsyncNames DEF AskedOK, AskedItem
<1>3. queue \in Seq(DOMAIN asked) /\ retryQueue \in Seq(DOMAIN asked) /\ \A i : ~Ahead(queue, i, i)
  BY <1>1 DEF Placed, Apartness
<1>4. Len(queue) <= MaxItems
  <2>1. IsFiniteSet(DOMAIN asked) /\ Cardinality(DOMAIN asked) = Len(asked)
    <3>1. 1 \in Int /\ Len(asked) \in Int
      BY <1>1
    <3>2. /\ IsFiniteSet(1 .. Len(asked))
          /\ Cardinality(1 .. Len(asked)) = IF 1 > Len(asked) THEN 0 ELSE Len(asked) - 1 + 1
      BY <3>1, FS_Interval
    <3> QED
      BY <1>1, <3>2
  <2>2. Len(queue) <= Len(asked) /\ Len(queue) \in Nat
    BY <1>3, <2>1, NoRepetitions
  <2> QED
    BY <1>1, <2>2, BatchingAssumption DEF AskedOK
<1>5. ASSUME NEW k \in DOMAIN statements
      PROVE  /\ statements[k].slot \in {Async!NoSlot} \cup Async!Busy
             /\ statements[k].batch \in Seq(DOMAIN asked)
  <2>1. statements[k] \in StatementOf(DOMAIN asked) /\ statements[k] \in Items(statements)
    BY <1>1, LenProperties DEF Sent, Items
  <2>2. statements[k].slot # 0 => statements[k].slot \in SlotSet /\ jobs[statements[k].slot] # <<>>
    BY <1>1, <2>1 DEF Sent, Serves
  <2> QED
    BY <2>1, <2>2, AsyncNames, AsyncBusy DEF StatementOf
<1>6. answered \in [DOMAIN asked -> {"none", "ok", "failed"}]
  BY <1>1 DEF Placed, Replies
<1> QED
  BY <1>1, <1>2, <1>3, <1>4, <1>5, <1>6 DEF Async!TypeOK, AsyncFlags

LEMMA AsyncMeans ==
  ASSUME AsyncInv
  PROVE  /\ Async!TypeOK /\ Async!WrittenWhenTold /\ Async!OnePlace
         /\ Async!OnceInTurn /\ Async!ClosedIsSettled
<1>1. Async!WrittenWhenTold
  <2> SUFFICES ASSUME NEW i \in DOMAIN asked, answered[i] = "ok" PROVE Async!WrittenIn(i) # {}
    BY DEF Async!WrittenWhenTold
  <2>1. PICK x \in Items(written) : i \in Items(x.batch)
    BY AskedIs DEF AsyncInv, Logged
  <2>2. PICK n \in DOMAIN written : x = written[n]
    BY DEF Items
  <2> QED
    BY <2>1, <2>2, AsyncNames DEF Async!WrittenIn
<1>2. Async!ClosedIsSettled
  BY DEF AsyncInv, AsyncFlags, Async!ClosedIsSettled
<1> QED
  BY <1>1, <1>2, AsyncTypes, AsyncOnePlace, AsyncOnceInTurn

-----------------------------------------------------------------------------
(* The four classes together: a behaviour uses one and leaves the others   *)
(* as they were made.                                                      *)

BatchingInv == IInv /\ CoalescerInv /\ BatchInv /\ AsyncInv

LEMMA CoalescerStays == ASSUME CoalescerInv, UNCHANGED coalescerVars PROVE CoalescerInv'
<1>1. /\ writesPending' = writesPending /\ flights' = flights /\ rows' = rows /\ writes' = writes
      /\ writeAnswered' = writeAnswered /\ detached' = detached /\ raced' = raced
      /\ timers' = timers /\ rest' = rest /\ flushLoop' = flushLoop
  BY DEF coalescerVars
<1> QED
  BY <1>1 DEF CoalescerInv, CoalescerKept

LEMMA BatchStays == ASSUME BatchInv, UNCHANGED batchVars PROVE BatchInv'
<1>1. /\ ops' = ops /\ items' = items /\ stages' = stages /\ flushing' = flushing
      /\ failures' = failures /\ executed' = executed /\ opAnswered' = opAnswered
      /\ autoFlush' = autoFlush
  BY DEF batchVars
<1> QED
  BY <1>1 DEF BatchInv

LEMMA AsyncStays == ASSUME AsyncInv, UNCHANGED asyncVars PROVE AsyncInv'
<1>1. /\ asked' = asked /\ queue' = queue /\ retryQueue' = retryQueue /\ pending' = pending
      /\ statements' = statements /\ jobs' = jobs /\ running' = running /\ looping' = looping
      /\ forcing' = forcing /\ closing' = closing /\ written' = written /\ answered' = answered
      /\ timeouts' = timeouts /\ overlapped' = overlapped /\ stranded' = stranded
  BY DEF asyncVars
<1>2. Calm' = Calm
  BY <1>1 DEF Calm
<1>3. AsyncFlags'
  <2>1. Async!Busy' = Async!Busy
    BY <1>1 DEF Async!Busy, Async!Slots
  <2> QED
    BY <1>1, <2>1 DEF AsyncInv, AsyncFlags
<1>4. AskedOK(asked')
  BY <1>1 DEF AsyncInv
<1>5. Placed(KindOf(asked'), PriorityOf(asked'), queue', retryQueue', jobs', answered', Calm')
  BY <1>1, <1>2 DEF AsyncInv
<1>6. Flowing(DOMAIN asked', statements', pending', jobs', Calm')
  BY <1>1, <1>2 DEF AsyncInv
<1>7. Logged(KindOf(asked'), PriorityOf(asked'), written', answered', Calm')
  BY <1>1, <1>2 DEF AsyncInv
<1> QED
  BY <1>3, <1>4, <1>5, <1>6, <1>7 DEF AsyncInv

LEMMA TrackerStays == ASSUME IInv, UNCHANGED vars PROVE IInv'
BY InvStep

LEMMA BatchingBegins == BatchingInit => BatchingInv
BY InvInit, CoalescerBegins, BatchBegins, AsyncInitially DEF BatchingInit, BatchingInv

LEMMA BatchingStep == BatchingInv /\ [BatchingNext]_allVars => BatchingInv'
<1> SUFFICES ASSUME IInv, CoalescerInv, BatchInv, AsyncInv, [BatchingNext]_allVars
             PROVE  BatchingInv'
  BY DEF BatchingInv
<1>1. CASE TrackerNext
  <2>1. IInv'
    BY <1>1, InvStep DEF TrackerNext
  <2>2. UNCHANGED <<coalescerVars, batchVars, asyncVars>>
    BY <1>1 DEF TrackerNext
  <2> QED
    BY <2>1, <2>2, CoalescerStays, BatchStays, AsyncStays DEF BatchingInv
<1>2. CASE OfCoalescer(Coalescer!Next)
  <2>1. CoalescerInv'
    BY <1>2, CoalescerStep DEF OfCoalescer
  <2>2. UNCHANGED <<vars, batchVars, asyncVars>>
    BY <1>2 DEF OfCoalescer
  <2> QED
    BY <2>1, <2>2, TrackerStays, BatchStays, AsyncStays DEF BatchingInv
<1>3. CASE OfBatches(Batches!Next)
  <2>1. BatchInv'
    BY <1>3, BatchStep DEF OfBatches
  <2>2. UNCHANGED <<vars, coalescerVars, asyncVars>>
    BY <1>3 DEF OfBatches
  <2> QED
    BY <2>1, <2>2, TrackerStays, CoalescerStays, AsyncStays DEF BatchingInv
<1>4. CASE OfAsync(Async!Next)
  <2>1. AsyncInv'
    BY <1>4, AsyncStep DEF OfAsync
  <2>2. UNCHANGED <<vars, coalescerVars, batchVars>>
    BY <1>4 DEF OfAsync
  <2> QED
    BY <2>1, <2>2, TrackerStays, CoalescerStays, BatchStays DEF BatchingInv
<1>5. CASE UNCHANGED allVars
  <2>1. UNCHANGED <<vars, coalescerVars, batchVars, asyncVars>>
    BY <1>5 DEF allVars
  <2> QED
    BY <2>1, TrackerStays, CoalescerStays, BatchStays, AsyncStays DEF BatchingInv
<1> QED
  BY <1>1, <1>2, <1>3, <1>4, <1>5 DEF BatchingNext

\* In every reachable state the invariants of the four classes hold.
THEOREM BatchingInvariant == BatchingSpec => []BatchingInv
BY BatchingBegins, BatchingStep, PTL DEF BatchingSpec

\* The arrays, maps and flags of the four classes hold what their code can
\* put there, whatever the limits, and however calls, timers, answers of the
\* database and time-outs interleave (batch-queue.ts:31, write-coalescer.ts:92,
\* async-flush-queue.ts:96, dirty-tracker.ts:80).
THEOREM BatchingTypeOK == BatchingSpec => []ClassesTypeOK
<1>1. BatchingInv => ClassesTypeOK
  BY CoalescerMeans, BatchMeans, AsyncMeans DEF BatchingInv, IInv, ClassesTypeOK
<1> QED
  BY <1>1, BatchingInvariant, PTL

\* Until its caller is answered, a write of a row is pending or in a call of
\* onFlush (unless its entry went into a detached map, write-coalescer.ts:162),
\* an operation is queued or in the flush under way, and executed once at most
\* (batch-queue.ts:180), and an item is in one place and in one only: queue,
\* batch or retry map (async-flush-queue.ts:237, :282, :476, :507).
THEOREM BatchingForgetsNothing == BatchingSpec => []NothingForgotten
<1>1. BatchingInv => NothingForgotten
  BY CoalescerMeans, BatchMeans, AsyncMeans DEF BatchingInv, NothingForgotten
<1> QED
  BY <1>1, BatchingInvariant, PTL

\* Whoever is told of success is told of what the database has done: inserts of
\* a BatchQueue (batch-queue.ts:229), which reports every update and delete as
\* done, and all items of an AsyncFlushQueue (async-flush-queue.ts:377).
THEOREM BatchingTellsTheTruth == BatchingSpec => []ToldIsDone
<1>1. BatchingInv => ToldIsDone
  BY BatchMeans, AsyncMeans DEF BatchingInv, ToldIsDone
<1> QED
  BY <1>1, BatchingInvariant, PTL

\* A row all writes of which were reported as stored holds the newest of them,
\* unless two calls of onFlush had it at once, in whichever order timers, flushes
\* of a row, a table or everything and answers come (write-coalescer.ts:223,
\* :282, :344).
THEOREM CoalescerStoresNewest == BatchingSpec => []NewestStored
<1>1. BatchingInv => NewestStored
  BY CoalescerMeans DEF BatchingInv, NewestStored
<1> QED
  BY <1>1, BatchingInvariant, PTL

\* The updates of a BatchQueue, and the items of an AsyncFlushQueue whose
\* statements neither overlap nor time out, are written in the order in which
\* they were asked for, although both sort by priority and the second puts items
\* back for a retry (batch-queue.ts:254, async-flush-queue.ts:237, :507).
THEOREM BatchingWritesInOrder == BatchingSpec => []WrittenInOrder
<1>1. BatchingInv => WrittenInOrder
  BY BatchMeans, AsyncMeans DEF BatchingInv, WrittenInOrder
<1> QED
  BY <1>1, BatchingInvariant, PTL

\* A promise that shutdown leaves open is one of a batch that was under way
\* when it gave up waiting (async-flush-queue.ts:616).
THEOREM ClosedSettles == BatchingSpec => []ClosedIsSettled
<1>1. BatchingInv => ClosedIsSettled
  BY AsyncMeans DEF BatchingInv, ClosedIsSettled
<1> QED
  BY <1>1, BatchingInvariant, PTL
=============================================================================
