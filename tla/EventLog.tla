------------------------------- MODULE EventLog -------------------------------
(* An event stream and its write-behind persistence.  append gives the event the *)
(* next sequence number under the stream's lock and hands it to the writer's      *)
(* queue after it; the writer commits what the queue holds in one batch, or row    *)
(* by row when the batch fails.  A restart loads the rows up to the first gap,      *)
(* deletes the rest and goes on numbering from there.                              *)
EXTENDS Naturals, Sequences

CONSTANTS
    Appenders,     \* threads that call append
    Ids,           \* event ids: no two events share one
    NoEvent

VARIABLES
    events,        \* EventStream._events; position n has seq n - 1
    unborn,        \* ids no event has yet
    appended,      \* per thread: the event it committed and has not enqueued
    write_queue,         \* _write_queue
    batch,         \* what the writer took and has not finished
    retrying,      \* the batch failed: its rows are written one by one
    table,         \* domain_events
    stream_closed         \* shutdown was called

eventVars == <<events, unborn, appended, write_queue, batch, retrying, table, stream_closed>>

Event == [seq : Nat \ {0}, id : Ids]
Seqs(batched) == {r.seq : r \in batched}

EventInit ==
    /\ events = <<>>
    /\ unborn = Ids
    /\ appended = [a \in Appenders |-> NoEvent]
    /\ write_queue = <<>>
    /\ batch = <<>>
    /\ retrying = FALSE
    /\ table = {}
    /\ stream_closed = FALSE

\* An unknown type or a payload that is no JSON object raises before the lock;
\* a thread inside an observer may not append (the notification follows the hand-over).
AppendEvent(a) ==
    /\ appended[a] = NoEvent
    /\ \E e \in unborn :
         /\ unborn' = unborn \ {e}
         /\ events' = Append(events, e)
         /\ appended' = [appended EXCEPT ![a] = [seq |-> Len(events) + 1, id |-> e]]
    /\ UNCHANGED <<write_queue, batch, retrying, table, stream_closed>>

\* After shutdown an event stays in memory only.
Enqueue(a) ==
    /\ appended[a] # NoEvent
    /\ write_queue' = IF stream_closed THEN write_queue ELSE Append(write_queue, appended[a])
    /\ appended' = [appended EXCEPT ![a] = NoEvent]
    /\ UNCHANGED <<events, unborn, batch, retrying, table, stream_closed>>

TakeBatch ==
    /\ batch = <<>>
    /\ write_queue # <<>>
    /\ batch' = write_queue
    /\ write_queue' = <<>>
    /\ UNCHANGED <<events, unborn, appended, retrying, table, stream_closed>>

\* INSERT OR IGNORE: a row with the sequence number of another one is dropped.
Insert(batched) == table \cup {r \in batched : r.seq \notin Seqs(table)}

EventRows(s) == {s[i] : i \in DOMAIN s}

FlushBatch ==
    /\ batch # <<>>
    /\ ~retrying
    /\ table' = Insert(EventRows(batch))
    /\ batch' = <<>>
    /\ UNCHANGED <<events, unborn, appended, write_queue, retrying, stream_closed>>

\* The batch is rolled back.
BatchFails ==
    /\ batch # <<>>
    /\ ~retrying
    /\ retrying' = TRUE
    /\ UNCHANGED <<events, unborn, appended, write_queue, batch, table, stream_closed>>

\* Each row of a failed batch is committed or, when it fails again, given up.
RetryRow ==
    /\ retrying
    /\ table' \in {table, Insert({Head(batch)})}
    /\ batch' = Tail(batch)
    /\ retrying' = (Len(batch) > 1)
    /\ UNCHANGED <<events, unborn, appended, write_queue, stream_closed>>

Shutdown ==
    /\ ~stream_closed
    /\ stream_closed' = TRUE
    /\ UNCHANGED <<events, unborn, appended, write_queue, batch, retrying, table>>

\* Mutant: the rows behind the gap are skipped and not deleted.
KeptAll(n) == table

\* The rows the loader keeps: those before position n + 1, the first one missing.
Kept(n) == {r \in table : r.seq <= n}

\* load_stream and restore_events in a new process: memory, queue and the batch under
\* way are gone.
RestartStream ==
    /\ \E n \in 0..Len(events) :
         /\ 1..n \subseteq Seqs(table)
         /\ n + 1 \notin Seqs(table)
         /\ events' = [i \in 1..n |-> (CHOOSE r \in table : r.seq = i).id]
         /\ table' = Kept(n)
    /\ appended' = [a \in Appenders |-> NoEvent]
    /\ write_queue' = <<>>
    /\ batch' = <<>>
    /\ retrying' = FALSE
    /\ stream_closed' = FALSE
    /\ UNCHANGED unborn

EventNext ==
    \/ \E a \in Appenders : AppendEvent(a) \/ Enqueue(a)
    \/ TakeBatch \/ FlushBatch \/ BatchFails \/ RetryRow
    \/ Shutdown
    \/ RestartStream

EventSpec == EventInit /\ [][EventNext]_eventVars

EventTypeOK ==
    /\ events \in Seq(Ids)
    /\ unborn \subseteq Ids
    /\ appended \in [Appenders -> Event \cup {NoEvent}]
    /\ write_queue \in Seq(Event)
    /\ batch \in Seq(Event)
    /\ retrying \in BOOLEAN
    /\ retrying => batch # <<>>
    /\ table \subseteq Event
    /\ stream_closed \in BOOLEAN

-----------------------------------------------------------------------------
Durable == INSTANCE DurableLog WITH log <- events, saved <- Seqs(table)

\* The stream is a log whose restart keeps exactly the gapless prefix that was
\* written: whatever the order in which appenders reach the queue, whichever rows
\* fail and wherever the process ends, no event of an earlier run comes back under
\* the sequence number of a later one, and no row is dropped as a duplicate of one.
ImplementsDurableLog == Durable!LogSpec

\* Every row of the table is the event the stream has at that position, so a
\* projection of the reloaded stream shows what observers were told.
RowsAreEvents == \A r \in table :
    /\ r.seq \in 1..Len(events)
    /\ events[r.seq] = r.id
=============================================================================
