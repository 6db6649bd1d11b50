-------------------------- MODULE MCWriteBatching --------------------------
(***************************************************************************)
(* The four write-batching classes of packages/database/src/batch for TLC. *)
(* Nothing in the repository composes them, so a behaviour uses one of     *)
(* them, named by part, and leaves the others as they were made.           *)
(***************************************************************************)
EXTENDS DirtyTracker, Sequences

CONSTANTS
  Table, MaxPendingWrites, MaxCoalescedWrites, MaxWrites,
  DbRow, MaxSize, MaxQueued,
  MaxConcurrent, BatchSize, MaxQueueSize, MaxRetries, MaxItems, MaxTimeouts

ASSUME BatchingAssumption ==
  /\ MaxPendingWrites \in 1 .. 19
  /\ MaxCoalescedWrites \in Nat \ {0, 1}
  /\ Priority \subseteq 0 .. 3
  /\ {MaxSize, MaxConcurrent, BatchSize, MaxQueueSize} \subseteq Nat \ {0}
  /\ {MaxWrites, MaxQueued, MaxRetries, MaxItems, MaxTimeouts} \subseteq Nat

VARIABLES
  part,
  writesPending, timers, flights, rest, flushLoop, rows, writes, writeAnswered,
  detached, raced,
  ops, items, stages, flushing, failures, executed, opAnswered, autoFlush,
  asked, queue, retryQueue, pending, statements, jobs, running, looping, forcing,
  closing, written, answered, timeouts, overlapped, stranded

Coalescer == INSTANCE WriteCoalescer WITH
  pending <- writesPending, looping <- flushLoop, answered <- writeAnswered

Batches == INSTANCE BatchQueue WITH
  answered <- opAnswered, MaxItems <- MaxQueued

Async == INSTANCE AsyncFlushQueue

coalescerVars == <<writesPending, timers, flights, rest, flushLoop, rows, writes,
                   writeAnswered, detached, raced>>

batchVars == <<ops, items, stages, flushing, failures, executed, opAnswered, autoFlush>>

asyncVars == <<asked, queue, retryQueue, pending, statements, jobs, running, looping,
               forcing, closing, written, answered, timeouts, overlapped, stranded>>

allVars == <<part, vars, coalescerVars, batchVars, asyncVars>>

BatchingInit ==
  /\ part \in {"tracker", "coalescer", "batches", "async"}
  /\ Init /\ Coalescer!Init /\ Batches!Init /\ Async!Init

TrackerNext ==
  /\ part = "tracker" /\ Next
  /\ UNCHANGED <<part, coalescerVars, batchVars, asyncVars>>

OfCoalescer(A) ==
  part = "coalescer" /\ A /\ UNCHANGED <<part, vars, batchVars, asyncVars>>

OfBatches(A) ==
  part = "batches" /\ A /\ UNCHANGED <<part, vars, coalescerVars, asyncVars>>

OfAsync(A) ==
  part = "async" /\ A /\ UNCHANGED <<part, vars, coalescerVars, batchVars>>

BatchingNext ==
  \/ TrackerNext
  \/ OfCoalescer(Coalescer!Next)
  \/ OfBatches(Batches!Next)
  \/ OfAsync(Async!Next)

\* Timers fire, and the database answers, sooner or later: the fairness of
\* the event loop and of a connection that has time-outs of its own.
Fairness ==
  /\ \A t \in Table, o \in Object :
       WF_allVars(OfCoalescer(Coalescer!TimerFires(<<t, o>>)))
  /\ WF_allVars(OfCoalescer(Coalescer!SomeAnswer))
  /\ WF_allVars(OfBatches(Batches!AutoFlush))
  /\ WF_allVars(OfBatches(Batches!SomeSettle))

BatchingSpec == BatchingInit /\ [][BatchingNext]_allVars /\ Fairness

-----------------------------------------------------------------------------
(* Properties. *)

\* The queues, buffers and tables of the four classes hold what the code can
\* put there.
ClassesTypeOK == TypeOK /\ Coalescer!TypeOK /\ Batches!TypeOK /\ Async!TypeOK

\* What a class was given is in one of its places until its caller is
\* answered: a write is pending or on its way, an operation queued or in the
\* flush under way, an item queued, in a batch or waiting for its retry; only
\* writes whose entry went into a detached map are forgotten.
NothingForgotten ==
  Coalescer!NothingForgotten /\ Batches!NothingForgotten /\ Async!OnePlace

\* Who is told of success is told the truth: the insert of a BatchQueue was
\* executed, the item of an AsyncFlushQueue was written, through failures,
\* time-outs, retries and batches that send each other's items.
ToldIsDone == Batches!InsertedWhenTold /\ Async!WrittenWhenTold

\* WriteCoalescer: a row all of whose writes were reported as stored holds the
\* newest of them, unless two calls of onFlush had it at once.
NewestStored == Coalescer!NewestStored

\* The updates of one row and priority in a BatchQueue, and the operations of
\* one kind and priority in an AsyncFlushQueue without time-outs and
\* overlapping statements, reach the database in the order they were asked for.
WrittenInOrder == Batches!UpdatesInOrder /\ Async!OnceInTurn

\* AsyncFlushQueue: after shutdown the only promises left are those of the
\* batches it did not wait for.
ClosedIsSettled == Async!ClosedIsSettled

\* WriteCoalescer and BatchQueue: whoever hands a write over hears of it, if
\* the coalescer did not lose its entry, and the periodic flush of the queue
\* is not stopped.
EventuallyAnswered ==
  /\ \A w \in 1 .. MaxWrites :
       w \in DOMAIN writes ~>
         w \in detached \/ (w \in DOMAIN writes /\ writeAnswered[w] # "none")
  /\ \A i \in 1 .. MaxQueued :
       i \in DOMAIN ops ~> ~autoFlush \/ (i \in DOMAIN ops /\ opAnswered[i] # "none")
=============================================================================
