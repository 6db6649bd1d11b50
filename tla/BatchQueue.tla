----------------------------- MODULE BatchQueue -----------------------------
(***************************************************************************)
(* BatchQueue, packages/database/src/batch/batch-queue.ts, with the        *)
(* BatchInserter and BatchUpdater it flushes through: operations on one    *)
(* table are queued and written in batches, one flush at a time, inserts   *)
(* before updates before deletes.  An item is its number.  A statement     *)
(* succeeds, or fails for good after the retries of its chunk.             *)
(***************************************************************************)
EXTENDS Naturals, Sequences, FiniteSets, Selection

CONSTANTS
  DbRow,    \* the rows that updates and deletes name by their key
  MaxSize,  \* config.maxSize, the threshold of a forced flush
  MaxItems  \* bound on the operations queued in a behaviour

VARIABLES
  ops,        \* every operation queued so far
  items,      \* this.items: the numbers of those queued, in order
  stages,     \* the statements the flush under way has left, the first one running
  flushing,   \* the items of the flush under way, <<>> when isFlushing is false
  failures,   \* the kinds of its statements that failed
  executed,   \* history: the items the database has executed, in order
  answered,   \* what onComplete was told of each item: "none", "ok" or "failed"
  autoFlush   \* flushTimer is set

vars == <<ops, items, stages, flushing, failures, executed, answered, autoFlush>>

-----------------------------------------------------------------------------
Normal == 1
Critical == 3

NoKey == "none"

\* An insert carries no key.
Operation ==
  [kind : {"insert"}, row : {NoKey}, priority : {Normal, Critical}]
    \cup [kind : {"update", "delete"}, row : DbRow, priority : {Normal, Critical}]

Init ==
  /\ ops = <<>>
  /\ items = <<>>
  /\ stages = <<>>
  /\ flushing = <<>>
  /\ failures = {}
  /\ executed = <<>>
  /\ answered = <<>>
  /\ autoFlush = TRUE

-----------------------------------------------------------------------------
OfKind(q, kind) == Among(q, {i \in Items(q) : ops'[i].kind = kind})

\* One statement for the inserts and one for the updates, then the deletes,
\* each on its own.
StagesOf(q) ==
  LET batch(kind) == IF OfKind(q, kind) = <<>> THEN <<>>
                     ELSE <<[kind |-> kind, batch |-> OfKind(q, kind)]>>
      deletes == OfKind(q, "delete")
  IN  batch("insert") \o batch("update")
        \o [i \in DOMAIN deletes |-> [kind |-> "delete", batch |-> <<deletes[i]>>]]

\* getItemsToFlush: the higher priority first, the older first within one.
OfPriority(q, p) == Among(q, {i \in Items(q) : ops'[i].priority = p})

ByPriority(q) == OfPriority(q, Critical) \o OfPriority(q, Normal)

\* Mutant: flush does not ask whether one is running.
StartRegardless(q, chosen) ==
  /\ items' = Among(q, Items(q) \ Items(chosen))
  /\ flushing' = chosen
  /\ stages' = StagesOf(chosen)
  /\ failures' = {}

\* flush of the items chosen, while q are queued: nothing happens when one is
\* under way already.
StartFlush(q, chosen) ==
  IF flushing # <<>> \/ chosen = <<>>
  THEN items' = q /\ UNCHANGED <<stages, flushing, failures>>
  ELSE /\ items' = Among(q, Items(q) \ Items(chosen))
       /\ flushing' = chosen
       /\ stages' = StagesOf(chosen)
       /\ failures' = {}

\* The items that queueing item i asks to flush: all of them at the
\* threshold, else the critical ones when it is critical.  A critical flush
\* that follows one at the threshold finds it running.
Requested(q, i) ==
  IF Len(q) >= MaxSize THEN ByPriority(q)
  ELSE IF ops'[i].priority = Critical
       THEN OfPriority(q, Critical)
  ELSE <<>>

Queue(o) ==
  /\ Len(ops) < MaxItems
  /\ ops' = Append(ops, o)
  /\ answered' = Append(answered, "none")
  /\ LET i == Len(ops) + 1
         q == Append(items, i)
     IN  StartFlush(q, Requested(q, i))
  /\ UNCHANGED <<executed, autoFlush>>

TakeFirst(q, n) == SubSeq(q, 1, IF n < Len(q) THEN n ELSE Len(q))

\* flush by a caller, of the items of a priority and up to a number.
Flush(priorities, maxItems) ==
  /\ flushing = <<>> /\ items # <<>>
  /\ UNCHANGED <<ops, executed, answered, autoFlush>>
  /\ \E wanted \in {Among(ByPriority(items),
                         {i \in Items(items) : ops[i].priority \in priorities})} :
       StartFlush(items, TakeFirst(wanted, maxItems))

\* Mutant: the periodic flush leaves the items of normal priority.
FlushCritical ==
  /\ autoFlush
  /\ Flush({Critical}, Len(items))

\* The periodic flush.
AutoFlush ==
  /\ autoFlush
  /\ Flush({Normal, Critical}, Len(items))

\* The updates of one statement are coalesced: of those of a row the last counts.
Effective(s) ==
  IF s.kind # "update" THEN s.batch
  ELSE Among(s.batch, {i \in Items(s.batch) : \A j \in Items(s.batch) :
         ops[j].row = ops[i].row =>
           \E k, l \in DOMAIN s.batch : s.batch[k] = j /\ s.batch[l] = i /\ k <= l})

\* What the callback of an item is told.  The errors of a statement carry no
\* key, so they are taken for those of the items without one, the inserts.
Outcome(i, failed) ==
  IF ops[i].row = NoKey /\ failed # {} THEN "failed" ELSE "ok"

\* The statement that runs settles; a delete that fails ends the deletes.
\* After the last one the callbacks are told, and isFlushing is reset.
Settle(ok) ==
  /\ flushing # <<>>
  /\ LET s == stages[1]
         failed == IF ok THEN failures ELSE failures \cup {s.kind}
         left == IF ~ok /\ s.kind = "delete" THEN <<>> ELSE Tail(stages)
     IN  /\ executed' = IF ok THEN executed \o Effective(s) ELSE executed
         /\ stages' = left
         /\ IF left # <<>>
            THEN failures' = failed /\ UNCHANGED <<flushing, answered>>
            ELSE /\ flushing' = <<>> /\ failures' = {}
                 /\ answered' = [i \in DOMAIN ops |->
                      IF i \in Items(flushing) THEN Outcome(i, failed) ELSE answered[i]]
  /\ UNCHANGED <<ops, items, autoFlush>>

\* clear: what is queued is dropped and its callbacks are told.
Clear ==
  /\ items # <<>>
  /\ answered' = [i \in DOMAIN ops |-> IF i \in Items(items) THEN "failed" ELSE answered[i]]
  /\ items' = <<>>
  /\ UNCHANGED <<ops, stages, flushing, failures, executed, autoFlush>>

\* shutdown: the timer is stopped, and a last flush asked for, which does
\* nothing while another is under way.
Shutdown ==
  /\ autoFlush
  /\ autoFlush' = FALSE
  /\ UNCHANGED <<ops, executed, answered>>
  /\ StartFlush(items, ByPriority(items))

Next ==
  \/ \E o \in Operation : Queue(o)
  \/ \E priorities \in {{Critical}, {Normal, Critical}}, n \in 1 .. Len(items) :
       Flush(priorities, n)
  \/ AutoFlush
  \/ \E ok \in BOOLEAN : Settle(ok)
  \/ Clear
  \/ Shutdown

SomeSettle == \E ok \in BOOLEAN : Settle(ok)

-----------------------------------------------------------------------------
(* Properties. *)

TypeOK ==
  /\ ops \in Seq(Operation)
  /\ items \in Seq(DOMAIN ops)
  /\ flushing \in Seq(DOMAIN ops)
  /\ \A k \in DOMAIN stages : stages[k].batch \in Seq(DOMAIN ops)
  /\ (stages = <<>>) <=> (flushing = <<>>)
  /\ failures \subseteq {"insert", "update", "delete"}
  /\ executed \in Seq(DOMAIN ops)
  /\ answered \in [DOMAIN ops -> {"none", "ok", "failed"}]
  /\ autoFlush \in BOOLEAN

\* An operation is in one place, queued or in the flush under way, until its
\* callback is told, and executed at most once.
NothingForgotten ==
  \A i \in DOMAIN ops :
    /\ answered[i] = "none" <=> i \in Items(items) \cup Items(flushing)
    /\ ~(i \in Items(items) /\ i \in Items(flushing) \cup Items(executed))
    /\ Cardinality({k \in DOMAIN executed : executed[k] = i}) <= 1

\* A callback of an insert that is told of success is told the truth.
InsertedWhenTold ==
  \A i \in DOMAIN ops :
    ops[i].kind = "insert" /\ answered[i] = "ok" => i \in Items(executed)

\* Of the updates of one row and one priority a later one is never overtaken:
\* what the row ends with is not an older value.
UpdatesInOrder ==
  \A k, l \in DOMAIN executed :
    LET a == ops[executed[k]]
        b == ops[executed[l]]
    IN  a.kind = "update" /\ a = b /\ k < l => executed[k] < executed[l]
=============================================================================
