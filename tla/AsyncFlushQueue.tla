--------------------------- MODULE AsyncFlushQueue ---------------------------
(***************************************************************************)
(* AsyncFlushQueue, packages/database/src/batch/async-flush-queue.ts, with *)
(* the one BatchInserter and the one BatchUpdater that all its batches     *)
(* share.  Several batches are written at a time; the statement of a batch *)
(* settles, or times out and goes on in the background, where nobody waits *)
(* for it any more.  An item is its number; all are of one table.          *)
(***************************************************************************)
EXTENDS Naturals, Sequences, FiniteSets, SequencesExt, Selection

CONSTANTS
  Priority,       \* the priorities in use, of LOW = 0 to CRITICAL = 3
  MaxConcurrent,  \* config.maxConcurrent
  BatchSize,      \* config.batchSize
  MaxQueueSize,   \* config.maxQueueSize
  MaxRetries,     \* config.maxRetries
  MaxItems,       \* bound on the operations asked for in a behaviour
  MaxTimeouts     \* bound on the statements that time out

VARIABLES
  asked,      \* every item accepted so far: its kind, priority and retryCount
  queue,      \* this.queue
  retryQueue, \* this.retryQueue, oldest first
  pending,    \* BatchInserter.pending and BatchUpdater.pending
  statements, \* the statements not settled: the batch that waits and the items written
  jobs,       \* what each batch under way has left to do, its first job in a statement
  running,    \* isRunning
  looping,    \* the loop of processQueue is under way
  forcing,    \* a forceFlush is under way
  closing,    \* shutdown: "no", "shutdown" while it waits, "closed" when it is done
  written,    \* history: the items each statement that succeeded has written, in order
  answered,   \* how the promise of each item settled: "none", "ok" or "failed"
  timeouts,   \* statements that timed out so far
  overlapped, \* history: a statement was sent while another was not answered
  stranded    \* history: the items of the batches under way when shutdown was done

vars == <<asked, queue, retryQueue, pending, statements, jobs, running, looping, forcing, closing, written, answered,
          timeouts, overlapped, stranded>>

-----------------------------------------------------------------------------
Kinds == {"insert", "update", "delete"}

\* The batch of forceFlush is one more than those of processQueue; a
\* statement nobody waits for has no slot.
Slots == 1 .. MaxConcurrent + 1
ForceSlot == MaxConcurrent + 1
NoSlot == 0

Busy == {s \in Slots : jobs[s] # <<>>}

Free == (Slots \ {ForceSlot}) \ Busy

Init ==
  /\ asked = <<>> /\ queue = <<>> /\ retryQueue = <<>>
  /\ pending = [kind \in {"insert", "update"} |-> <<>>]
  /\ statements = <<>>
  /\ jobs = [s \in Slots |-> <<>>]
  /\ running = FALSE /\ looping = FALSE /\ forcing = FALSE /\ closing = "no"
  /\ written = <<>> /\ answered = <<>>
  /\ timeouts = 0 /\ overlapped = FALSE /\ stranded = {}

-----------------------------------------------------------------------------
\* insertByPriority: an item of priority p goes before the first of a lower one.
InsertByPriority(q, i, p) ==
  LET n == SelectInSeq(q, LAMBDA j : asked[j].priority < p)
  IN  InsertAt(q, IF n = 0 THEN Len(q) + 1 ELSE n, i)

OfPriority(q, p) == Among(q, {i \in Items(q) : asked[i].priority = p})

\* insertByPriority of each of the items of retries: q is in order already.
Reinsert(q, retries) ==
  LET all == q \o retries IN
  OfPriority(all, 3) \o OfPriority(all, 2) \o OfPriority(all, 1) \o OfPriority(all, 0)

\* A job of the batch in slot s starts, while the statements sts run and ps
\* are pending.  Its inserts or updates join those that are pending, and flush
\* sends all of them, those of the other batches' too; a delete is sent alone.
Send(s, job, sts, ps) ==
  IF job.kind = "delete"
  THEN /\ statements' = Append(sts, [slot |-> s, kind |-> "delete", batch |-> job.batch])
       /\ pending' = ps
  ELSE /\ statements' = Append(sts, [slot |-> s, kind |-> job.kind,
                                    batch |-> ps[job.kind] \o job.batch])
       /\ pending' = [ps EXCEPT ![job.kind] = @ \o job.batch]

\* processBatch: the inserts, then the updates, then the deletes one by one.
JobsOf(batch) ==
  LET of(kind) == Among(batch, {i \in Items(batch) : asked[i].kind = kind})
      together(kind) == IF of(kind) = <<>> THEN <<>>
                        ELSE <<[kind |-> kind, batch |-> of(kind)]>>
  IN  together("insert") \o together("update")
        \o [k \in DOMAIN of("delete") |-> [kind |-> "delete", batch |-> <<of("delete")[k]>>]]

Begin(s, batch, sts, ps) ==
  LET todo == JobsOf(batch) IN
  jobs' = [jobs EXCEPT ![s] = todo] /\ Send(s, todo[1], sts, ps)

SendingNow == overlapped' = (overlapped \/ Len(statements') > 1)

TakeFirst(q, n) == SubSeq(q, 1, IF n < Len(q) THEN n ELSE Len(q))

TakeRest(q, n) == SubSeq(q, n + 1, Len(q))

\* processQueue, on its timer or by shutdown: processRetries moves the items
\* whose time has come, due, back to the queue.  The loop that follows is not
\* interrupted: looping holds everything else up.
ProcessQueue(due) ==
  /\ running /\ Cardinality(Busy) < MaxConcurrent
  /\ due \subseteq Items(retryQueue)
  /\ queue # <<>> \/ due # {}
  /\ queue' = Reinsert(queue, Among(retryQueue, due))
  /\ retryQueue' = Among(retryQueue, Items(retryQueue) \ due)
  /\ looping' = TRUE
  /\ UNCHANGED <<asked, pending, statements, jobs, running, forcing, closing, written, answered, timeouts,
                 overlapped, stranded>>

\* An iteration of the loop: takeBatch and processBatch, in a free slot.
TakeBatch ==
  LET s == CHOOSE t \in Free : \A u \in Free : t <= u
  IN  /\ looping
      /\ Begin(s, TakeFirst(queue, BatchSize), statements, pending)
      /\ queue' = TakeRest(queue, BatchSize)
      /\ looping' = (queue' # <<>> /\ Cardinality(Busy) + 1 < MaxConcurrent)
      /\ SendingNow
      /\ UNCHANGED <<asked, retryQueue, running, forcing, closing, written, answered,
                     timeouts, stranded>>

\* enqueue: refused when shutting down or full; it starts the queue.
Enqueue(kind, p) ==
  /\ Len(asked) < MaxItems
  /\ closing = "no" /\ Len(queue) < MaxQueueSize
  /\ asked' = Append(asked, [kind |-> kind, priority |-> p, retryCount |-> 0])
  /\ answered' = Append(answered, "none")
  /\ queue' = InsertByPriority(queue, Len(asked) + 1, p)
  /\ running' = TRUE
  /\ UNCHANGED <<retryQueue, pending, statements, jobs, looping, forcing, closing, written, timeouts, overlapped, stranded>>

\* stop: the timer is cleared; the batches under way go on.
Stop ==
  /\ running
  /\ running' = FALSE
  /\ UNCHANGED <<asked, queue, retryQueue, pending, statements, jobs, looping, forcing, closing, written, answered,
                 timeouts, overlapped, stranded>>

-----------------------------------------------------------------------------
(* The end of a statement. *)

\* Mutant: an item is retried however often it was.
RetryAll(is) == is

\* handleItemError of the items of a batch: again, or rejected.
Again(is) == {i \in is : asked[i].retryCount < MaxRetries}

Told(is, how) == [i \in DOMAIN asked |-> IF i \in is THEN how ELSE answered[i]]

\* The first job of slot s is over; the batch goes on with its next job.  A
\* forceFlush whose batch is over moves the retries to the queue and takes
\* the next batch, until both are empty.
GoOn(s, sts, ps, retries) ==
  LET left == Tail(jobs[s])
      all == Reinsert(queue, retries)
  IN  IF left # <<>>
      THEN /\ jobs' = [jobs EXCEPT ![s] = left]
           /\ Send(s, left[1], sts, ps)
           /\ retryQueue' = retries
           /\ UNCHANGED <<queue, forcing>>
      ELSE IF s = ForceSlot /\ all # <<>>
      THEN /\ Begin(s, TakeFirst(all, BatchSize), sts, ps)
           /\ queue' = TakeRest(all, BatchSize)
           /\ retryQueue' = <<>>
           /\ UNCHANGED forcing
      ELSE /\ jobs' = [jobs EXCEPT ![s] = <<>>]
           /\ statements' = sts /\ pending' = ps
           /\ retryQueue' = retries
           /\ forcing' = (forcing /\ s # ForceSlot)
           /\ UNCHANGED queue

\* Mutant: a flush leaves what it sent pending.
NotCleared(kind) == pending

\* The pending items of its kind are cleared when a flush ends, however it ended.
Cleared(kind) ==
  IF kind = "delete" THEN pending ELSE [pending EXCEPT ![kind] = <<>>]

\* Mutant: the items of a batch are told of success however its statement went.
Success(st, ok) == "ok"

\* What the items of a batch are told when its flush returns: the result of
\* the statement, which never throws for inserts and updates.
Result(st, ok) == IF ok THEN "ok" ELSE "failed"

\* A statement settles.  If its batch still waits for it, its items are told,
\* or retried when it was a delete that failed; the batch goes on.
Settle(k, ok) ==
  LET st == statements[k]
      others == RemoveAt(statements, k)
      own == IF st.slot = NoSlot THEN {} ELSE Items(Head(jobs[st.slot]).batch)
      failed == IF st.kind = "delete" /\ ~ok THEN own ELSE {}
      retried == failed \cap Again(own)
  IN  /\ written' = IF ok THEN Append(written, [kind |-> st.kind, batch |-> st.batch]) ELSE written
      /\ answered' = Told(own \ retried, Result(st, ok))
      /\ asked' = [i \in DOMAIN asked |-> IF i \in retried
                     THEN [asked[i] EXCEPT !.retryCount = @ + 1] ELSE asked[i]]
      /\ IF st.slot = NoSlot
         THEN /\ statements' = others /\ pending' = Cleared(st.kind)
              /\ UNCHANGED <<queue, retryQueue, jobs, forcing>>
         ELSE GoOn(st.slot, others, Cleared(st.kind), retryQueue \o Among(Head(jobs[st.slot]).batch, retried))
      /\ SendingNow
      /\ UNCHANGED <<running, looping, closing, timeouts, stranded>>

\* withTimeout gives the statement up: the items of its batch are retried or
\* rejected, and the statement goes on without a batch.
Timeout(k) ==
  LET st == statements[k]
      own == Items(Head(jobs[st.slot]).batch)
      retried == own \cap Again(own)
      others == [statements EXCEPT ![k].slot = NoSlot]
  IN  /\ st.slot # NoSlot /\ timeouts < MaxTimeouts
      /\ timeouts' = timeouts + 1
      /\ answered' = Told(own \ retried, "failed")
      /\ asked' = [i \in DOMAIN asked |-> IF i \in retried
                     THEN [asked[i] EXCEPT !.retryCount = @ + 1] ELSE asked[i]]
      /\ GoOn(st.slot, others, pending, retryQueue \o Among(Head(jobs[st.slot]).batch, retried))
      /\ SendingNow
      /\ UNCHANGED <<running, looping, closing, written, stranded>>

-----------------------------------------------------------------------------
\* forceFlush, one call at a time: it does not ask for a free slot.
ForceFlush ==
  /\ ~forcing /\ (queue # <<>> \/ retryQueue # <<>>)
  /\ forcing' = TRUE
  /\ LET all == Reinsert(queue, retryQueue) IN
     /\ Begin(ForceSlot, TakeFirst(all, BatchSize), statements, pending)
     /\ queue' = TakeRest(all, BatchSize)
  /\ retryQueue' = <<>>
  /\ SendingNow
  /\ UNCHANGED <<asked, running, looping, closing, written, answered, timeouts, stranded>>

\* What is queued or waits for a retry is rejected.
RejectAll ==
  /\ answered' = Told(Items(queue) \cup Items(retryQueue), "failed")
  /\ queue' = <<>> /\ retryQueue' = <<>>

Clear ==
  /\ queue # <<>> \/ retryQueue # <<>>
  /\ RejectAll
  /\ UNCHANGED <<asked, pending, statements, jobs, running, looping, forcing, closing, written, timeouts, overlapped, stranded>>

\* shutdown: nothing is accepted any more; it goes on processing the queue,
\* as the timer does.
Shutdown ==
  /\ closing = "no"
  /\ closing' = "shutdown"
  /\ UNCHANGED <<asked, queue, retryQueue, pending, statements, jobs, running, looping, forcing, written, answered,
                 timeouts, overlapped, stranded>>

\* The items of the batches under way.
Underway ==
  UNION {UNION {Items(jobs[s][n].batch) : n \in DOMAIN jobs[s]} : s \in Slots}

\* Mutant: what waits for a retry is not rejected.
CloseQueue ==
  /\ closing = "shutdown"
  /\ closing' = "closed"
  /\ running' = FALSE
  /\ stranded' = Underway
  /\ answered' = Told(Items(queue), "failed")
  /\ queue' = <<>>
  /\ UNCHANGED <<asked, retryQueue, pending, statements, jobs, looping, forcing, written, timeouts, overlapped>>

\* The end of shutdown, when all is done or its time is over: the queue stops
\* and what is left in it is rejected, but not what the batches still write.
Close ==
  /\ closing = "shutdown"
  /\ closing' = "closed"
  /\ running' = FALSE
  /\ stranded' = Underway
  /\ RejectAll
  /\ UNCHANGED <<asked, pending, statements, jobs, looping, forcing, written, timeouts, overlapped>>

Elsewhere ==
  \/ \E kind \in Kinds, p \in Priority : Enqueue(kind, p)
  \/ \E due \in SUBSET Items(retryQueue) : ProcessQueue(due)
  \/ Stop
  \/ \E k \in DOMAIN statements, ok \in BOOLEAN : Settle(k, ok)
  \/ \E k \in DOMAIN statements : Timeout(k)
  \/ ForceFlush
  \/ Clear
  \/ Shutdown
  \/ Close

Next == TakeBatch \/ (~looping /\ Elsewhere)

-----------------------------------------------------------------------------
(* Properties. *)

TypeOK ==
  /\ asked \in Seq([kind : Kinds, priority : Priority, retryCount : 0 .. MaxRetries])
  /\ queue \in Seq(DOMAIN asked) /\ Len(queue) <= MaxItems
  /\ retryQueue \in Seq(DOMAIN asked)
  /\ \A k \in DOMAIN statements :
       /\ statements[k].slot \in {NoSlot} \cup Busy
       /\ statements[k].batch \in Seq(DOMAIN asked)
  /\ running \in BOOLEAN /\ looping \in BOOLEAN /\ forcing \in BOOLEAN
  /\ closing \in {"no", "shutdown", "closed"}
  /\ answered \in [DOMAIN asked -> {"none", "ok", "failed"}]
  /\ overlapped \in BOOLEAN

WrittenIn(i) == {n \in DOMAIN written : i \in Items(written[n].batch)}

\* An item that is told it was written has been written, through time-outs,
\* retries and batches that send each other's items.
WrittenWhenTold ==
  \A i \in DOMAIN asked : answered[i] = "ok" => WrittenIn(i) # {}

Places(i) ==
  {<<"queue", 0, k>> : k \in {k \in DOMAIN queue : queue[k] = i}}
    \cup {<<"retryQueue", 0, k>> : k \in {k \in DOMAIN retryQueue : retryQueue[k] = i}}
    \cup UNION {{<<"jobs", s, n>> : n \in {n \in DOMAIN jobs[s] : i \in Items(jobs[s][n].batch)}}
                : s \in Slots}

\* An item is in one place, queued, waiting for a retry or in a batch, as long
\* as its promise has not settled, and nowhere after that.
OnePlace ==
  \A i \in DOMAIN asked :
    IF answered[i] = "none" THEN \E place \in Places(i) : Places(i) = {place}
    ELSE Places(i) = {}

\* The order of the database's writes: the statement, and the place in it.
Before(i, j) ==
  \E m, n \in DOMAIN written :
    /\ i \in Items(written[m].batch) /\ j \in Items(written[n].batch)
    /\ \/ m < n
       \/ m = n /\ \E k, l \in DOMAIN written[m].batch :
            k < l /\ written[m].batch[k] = i /\ written[m].batch[l] = j

\* Without time-outs and overlapping statements an item is written once, and
\* the inserts, or the updates, of one priority in the order they were asked for.
OnceInTurn ==
  timeouts = 0 /\ ~overlapped =>
    \A i \in DOMAIN asked :
      /\ Cardinality(WrittenIn(i)) <= 1
      /\ \A j \in 1 .. i - 1 :
           asked[i] = asked[j] /\ asked[i].kind # "delete" => ~Before(i, j)

\* After shutdown the only promises left are those of the batches it did not
\* wait for.
ClosedIsSettled ==
  closing = "closed" =>
    \A i \in DOMAIN asked : answered[i] = "none" => i \in stranded
=============================================================================
