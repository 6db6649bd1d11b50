--------------------------- MODULE WriteCoalescer ---------------------------
(***************************************************************************)
(* WriteCoalescer, packages/database/src/batch/write-coalescer.ts: the     *)
(* writes to one row within a window are merged and handed to onFlush      *)
(* together.  A write is its number; what is pending for a row is the      *)
(* sequence of the writes merged, the last of which gives the row's value. *)
(* onFlush is the caller's: a call of it stores its rows and succeeds, or  *)
(* fails, at any time and in any order with the others.                    *)
(***************************************************************************)
EXTENDS Naturals, Sequences, FiniteSets

CONSTANTS
  Table,              \* table names
  Object,             \* object ids
  MaxPendingWrites,   \* config.maxPendingWrites, below 20
  MaxCoalescedWrites, \* config.maxCoalescedWrites
  MaxWrites           \* bound on the calls of write of a behaviour

Row == Table \X Object

VARIABLES
  pending,   \* pending, by row: the numbers of the writes merged, <<>> for no entry
  timers,    \* flushTimers: the rows with one
  flights,   \* the calls of onFlush that have not settled
  rest,      \* the tables a running flush() has still to visit
  looping,   \* a flush() is running
  rows,      \* what the database holds of each row: the newest write stored
  writes,    \* the row of every write so far
  answered,  \* what onComplete was told of each write: "none", "ok" or "failed"
  detached,  \* history: the writes whose entry went into a map that was no longer pending
  raced      \* history: the rows that were in two calls of onFlush at once

vars == <<pending, timers, flights, rest, looping, rows, writes, answered, detached, raced>>

-----------------------------------------------------------------------------
PendingRows == {r \in Row : pending[r] # <<>>}

InFlight(r) == {f \in flights : r \in DOMAIN f.entries}

Members(q) == {q[i] : i \in DOMAIN q}

Init ==
  /\ pending = [r \in Row |-> <<>>]
  /\ timers = {}
  /\ flights = {}
  /\ rest = {}
  /\ looping = FALSE
  /\ rows = [r \in Row |-> 0]
  /\ writes = <<>>
  /\ answered = <<>>
  /\ detached = {}
  /\ raced = {}

-----------------------------------------------------------------------------
Flight(entries, rs, loop) == [entries |-> [r \in rs |-> entries[r]], loop |-> loop]

\* The rows rs leave the pending writes, as entries has them, for a call of
\* onFlush; without rows it is not called.
Depart(entries, rs, loop) ==
  /\ flights' = IF rs = {} THEN flights ELSE flights \cup {Flight(entries, rs, loop)}
  /\ raced' = raced \cup {r \in rs : InFlight(r) # {}}

Without(entries, rs) == [r \in Row |-> IF r \in rs THEN <<>> ELSE entries[r]]

\* flushOldest, up to its first await: a tenth of the writes, here one.
Oldest == {r \in PendingRows : \A s \in PendingRows : pending[r][1] <= pending[s][1]}

\* The rows that must go before a new one is added.
Evicted == IF Cardinality(PendingRows) >= MaxPendingWrites THEN Oldest ELSE {}

\* A write merged into the pending one of its row: its data win, and its
\* callback is chained.
Coalesced(entries, r, w) == [entries EXCEPT ![r] = Append(@, w)]

\* write, for a row with a pending write.
WriteExisting(r, w) ==
  /\ pending[r] # <<>>
  /\ LET merged == Coalesced(pending, r, w)
         full == {s \in {r} : Len(pending[s]) + 1 >= MaxCoalescedWrites}
     IN  /\ pending' = Without(merged, full)
         /\ timers' = timers \ full
         /\ Depart(merged, full, FALSE)
  /\ UNCHANGED detached

\* write, for a row without one.  It looks its table's map up before the
\* oldest write is flushed, which takes an emptied map out of pending: the
\* new entry is then lost with it, and its timer will find nothing.
WriteNew(r, w) ==
  /\ pending[r] = <<>>
  /\ LET kept == Without(pending, Evicted)
         emptied == /\ \E s \in Evicted : s[1] = r[1]
                    /\ \A s \in PendingRows \ Evicted : s[1] # r[1]
     IN  /\ pending' = IF emptied THEN kept ELSE Coalesced(kept, r, w)
         /\ detached' = IF emptied THEN detached \cup {w} ELSE detached
  /\ timers' = (timers \ Evicted) \cup {r}
  /\ Depart(pending, Evicted, FALSE)

Write(r) ==
  /\ Len(writes) < MaxWrites
  /\ writes' = Append(writes, r)
  /\ answered' = Append(answered, "none")
  /\ WriteExisting(r, Len(writes) + 1) \/ WriteNew(r, Len(writes) + 1)
  /\ UNCHANGED <<rest, looping, rows>>

\* The rows of a flushObject, by its caller or its timer, or of a flushTable.
Flush(rs) ==
  /\ rs # {} /\ rs \subseteq PendingRows
  /\ pending' = Without(pending, rs)
  /\ timers' = timers \ rs
  /\ Depart(pending, rs, FALSE)
  /\ UNCHANGED <<rest, looping, rows, writes, answered, detached>>

FlushObject(r) == Flush({r})

FlushTable(t) == Flush({r \in PendingRows : r[1] = t})

\* A timer whose row has nothing pending: it was lost.
TimerFindsNothing(r) ==
  /\ r \in timers \ PendingRows
  /\ timers' = timers \ {r}
  /\ UNCHANGED <<pending, flights, rest, looping, rows, writes, answered, detached, raced>>

\* The loop of flush(): it goes to the next of the tables ts with something
\* pending, and awaits the call of onFlush, or it is done.  armed are the
\* timers and calls the flights there are.
NextTable(ts, armed, calls) ==
  LET found == {t \in ts : \E r \in PendingRows : r[1] = t} IN
  \/ /\ found = {}
     /\ looping' = FALSE /\ rest' = {}
     /\ timers' = armed /\ flights' = calls
     /\ UNCHANGED <<pending, raced>>
  \/ \E t \in found :
       LET rs == {r \in PendingRows : r[1] = t} IN
       /\ looping' = TRUE /\ rest' = ts \ {t}
       /\ timers' = armed \ rs
       /\ pending' = Without(pending, rs)
       /\ flights' = calls \cup {Flight(pending, rs, TRUE)}
       /\ raced' = raced \cup {r \in rs : \E f \in calls : r \in DOMAIN f.entries}

\* flush, of all tables one after the other; one of its calls runs at a time.
FlushAll ==
  /\ ~looping /\ PendingRows # {}
  /\ NextTable({r[1] : r \in PendingRows}, timers, flights)
  /\ UNCHANGED <<rows, writes, answered, detached>>

\* shutdown: no timers any more, and a flush() of what is pending.
Shutdown ==
  /\ ~looping /\ PendingRows # {}
  /\ NextTable({r[1] : r \in PendingRows}, {}, flights)
  /\ UNCHANGED <<rows, writes, answered, detached>>

\* Mutant: a stored row keeps the oldest of the writes merged.
FirstOf(q) == q[1]

Newest(q) == q[Len(q)]

\* A call of onFlush settles: its rows are stored if it succeeded, and the
\* callbacks of all the writes merged are told; the flush() that awaits it
\* goes on.
Answer(f, ok) ==
  /\ f \in flights
  /\ rows' = [r \in Row |-> IF ok /\ r \in DOMAIN f.entries
                            THEN Newest(f.entries[r]) ELSE rows[r]]
  /\ answered' = [w \in DOMAIN writes |->
       IF \E r \in DOMAIN f.entries : w \in Members(f.entries[r])
       THEN IF ok THEN "ok" ELSE "failed"
       ELSE answered[w]]
  /\ IF f.loop
     THEN NextTable(rest, timers, flights \ {f})
     ELSE /\ flights' = flights \ {f}
          /\ UNCHANGED <<pending, timers, rest, looping, raced>>
  /\ UNCHANGED <<writes, detached>>

\* The writes of the rows rs are told that they will not happen.
Refuse(rs) ==
  /\ pending' = Without(pending, rs)
  /\ answered' = [w \in DOMAIN writes |->
       IF \E r \in rs : w \in Members(pending[r]) THEN "failed" ELSE answered[w]]
  /\ UNCHANGED <<flights, rest, looping, rows, writes, detached, raced>>

Cancel(r) == r \in PendingRows /\ Refuse({r}) /\ timers' = timers \ {r}

Clear == PendingRows # {} /\ Refuse(PendingRows) /\ timers' = {}

Next ==
  \/ \E r \in Row : Write(r)
  \/ \E r \in Row : FlushObject(r)
  \/ \E t \in Table : FlushTable(t)
  \/ \E r \in Row : TimerFindsNothing(r)
  \/ FlushAll
  \/ Shutdown
  \/ \E f \in flights, ok \in BOOLEAN : Answer(f, ok)
  \/ \E r \in Row : Cancel(r)
  \/ Clear

\* A timer fires: its flushObject, or nothing.
TimerFires(r) == r \in timers /\ (FlushObject(r) \/ TimerFindsNothing(r))

\* Some call of onFlush settles.
SomeAnswer == \E f \in flights, ok \in BOOLEAN : Answer(f, ok)

Spec == Init /\ [][Next]_vars

-----------------------------------------------------------------------------
(* Properties. *)

TypeOK ==
  /\ pending \in [Row -> Seq(DOMAIN writes)]
  /\ timers \subseteq Row
  /\ \A f \in flights : DOMAIN f.entries \subseteq Row /\ f.loop \in BOOLEAN
  /\ rest \subseteq Table
  /\ looping \in BOOLEAN
  /\ rows \in [Row -> {0} \cup DOMAIN writes]
  /\ writes \in Seq(Row)
  /\ answered \in [DOMAIN writes -> {"none", "ok", "failed"}]
  /\ detached \subseteq DOMAIN writes
  /\ raced \subseteq Row

Carried(w) ==
  \/ \E r \in PendingRows : w \in Members(pending[r])
  \/ \E f \in flights : \E r \in DOMAIN f.entries : w \in Members(f.entries[r])

\* Every write is pending, on its way or answered, however writes are merged,
\* flushed and cancelled: only one that came to a full buffer whose oldest
\* entry was the last of its own table is forgotten.
NothingForgotten ==
  \A w \in DOMAIN writes : answered[w] = "none" /\ ~Carried(w) => w \in detached

\* A row with nothing pending or on its way, all writes of which were stored,
\* holds the newest of them, unless two calls of onFlush had the row at once.
NewestStored ==
  \A r \in Row \ raced :
    LET own == {w \in DOMAIN writes : writes[w] = r}
    IN  own # {} /\ (\A w \in own : answered[w] = "ok")
          => \A w \in own : w <= rows[r]
=============================================================================
