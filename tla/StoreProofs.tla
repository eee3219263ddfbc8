----------------------------- MODULE StoreProofs -----------------------------
(* What is kept on disk. The event stream implements a durable log, and StateManager  *)
(* a versioned register for every key whose callers wait for each other, for any       *)
(* appenders, ids, keys, values, threads and retry limit. An interrupted desktop       *)
(* process is always found by the next one, and an interrupted migration, of the       *)
(* schema or of a persona, is finished or taken back by the next opener. The knowledge  *)
(* base has a vector for every row, and what it fuses is in order.                      *)
EXTENDS Services, EventLog, StateStore, FiniteSetTheorems, WellFoundedInduction, TLAPS

(***************************************************************************)
(* The event stream                                                        *)
(***************************************************************************)

\* r is a row for the event the stream l has at that position.
RowOf(r, l) == r.seq \in 1..Len(l) /\ l[r.seq] = r.id

\* Whatever is on its way to the table is about the events in memory, not about those of
\* an earlier process that had the same sequence numbers.
PendingAreEvents ==
    /\ \A a \in Appenders : appended[a] # NoEvent => RowOf(appended[a], events)
    /\ \A i \in DOMAIN write_queue : RowOf(write_queue[i], events)
    /\ \A i \in DOMAIN batch : RowOf(batch[i], events)

LogInv == EventTypeOK /\ RowsAreEvents /\ PendingAreEvents

\* Growing the stream keeps every row.
LEMMA RowStays ==
    ASSUME NEW l \in Seq(Ids), NEW e \in Ids, NEW r, RowOf(r, l)
    PROVE  RowOf(r, Append(l, e))
  BY DEF RowOf

\* What Insert adds to the table are rows of the batch, and no sequence number is lost.
LEMMA InsertAdds ==
    ASSUME NEW b
    PROVE  /\ table \subseteq Insert(b)
           /\ Insert(b) \subseteq table \cup b
           /\ Seqs(table) \subseteq Seqs(Insert(b))
  BY DEF Insert, Seqs

\* The type invariant, the rows and what is pending agree with the events: inductive.
THEOREM LogInvariant == EventSpec => []LogInv
<1>1. EventInit => LogInv
  <2> SUFFICES ASSUME EventInit PROVE LogInv
    OBVIOUS
  <2>1. EventTypeOK
    <3>1. /\ events \in Seq(Ids) /\ write_queue \in Seq(Event) /\ batch \in Seq(Event)
          /\ unborn \subseteq Ids /\ table \subseteq Event
      BY DEF EventInit
    <3>2. appended \in [Appenders -> Event \cup {NoEvent}]
      BY DEF EventInit
    <3>3. retrying = FALSE /\ stream_closed = FALSE
      BY DEF EventInit
    <3> QED BY <3>1, <3>2, <3>3 DEF EventTypeOK
  <2>2. RowsAreEvents /\ PendingAreEvents
    BY DEF EventInit, RowsAreEvents, PendingAreEvents
  <2> QED BY <2>1, <2>2 DEF LogInv
<1>2. LogInv /\ [EventNext]_eventVars => LogInv'
  <2> SUFFICES ASSUME LogInv, [EventNext]_eventVars PROVE LogInv'
    OBVIOUS
  <2> USE DEF LogInv, RowsAreEvents, PendingAreEvents
  <2>1. ASSUME NEW a \in Appenders, AppendEvent(a) PROVE LogInv'
    <3>1. PICK e \in unborn : /\ unborn' = unborn \ {e}
                              /\ events' = Append(events, e)
                              /\ appended' = [appended EXCEPT ![a] = [seq |-> Len(events) + 1, id |-> e]]
      BY <2>1 DEF AppendEvent
    <3>2. e \in Ids /\ events \in Seq(Ids) BY DEF EventTypeOK
    <3>3. EventTypeOK'
      BY <2>1, <3>1, <3>2 DEF AppendEvent, EventTypeOK, Event
    <3>4. RowOf([seq |-> Len(events) + 1, id |-> e], events')
      BY <3>1, <3>2 DEF RowOf
    <3>5. PendingAreEvents'
      BY <2>1, <3>1, <3>2, <3>4, RowStays DEF AppendEvent, EventTypeOK
    <3>6. RowsAreEvents'
      BY <2>1, <3>1, <3>2, RowStays DEF AppendEvent, RowOf
    <3> QED BY <3>3, <3>5, <3>6
  <2>2. ASSUME NEW a \in Appenders, Enqueue(a) PROVE LogInv'
    <3>1. appended[a] \in Event /\ RowOf(appended[a], events)
      BY <2>2 DEF Enqueue, EventTypeOK
    <3>2. EventTypeOK'
      BY <2>2, <3>1 DEF Enqueue, EventTypeOK
    <3>3. \A i \in DOMAIN write_queue' : RowOf(write_queue'[i], events)
      <4>1. CASE stream_closed
        BY <2>2, <4>1 DEF Enqueue
      <4>2. CASE ~stream_closed
        BY <2>2, <3>1, <4>2 DEF Enqueue, EventTypeOK
      <4> QED BY <4>1, <4>2
    <3>4. \A b \in Appenders : appended'[b] # NoEvent => RowOf(appended'[b], events)
      BY <2>2 DEF Enqueue, EventTypeOK
    <3> QED BY <2>2, <3>2, <3>3, <3>4 DEF Enqueue
  <2>3. CASE TakeBatch
    <3>1. EventTypeOK'
      BY <2>3 DEF TakeBatch, EventTypeOK
    <3> QED BY <2>3, <3>1 DEF TakeBatch
  <2>4. CASE FlushBatch
    <3>1. EventRows(batch) \subseteq Event /\ \A r \in EventRows(batch) : RowOf(r, events)
      BY DEF EventRows, EventTypeOK
    <3>2. EventTypeOK'
      BY <2>4, <3>1, InsertAdds DEF FlushBatch, EventTypeOK
    <3>3. RowsAreEvents'
      BY <2>4, <3>1, InsertAdds DEF FlushBatch, RowOf
    <3> QED BY <2>4, <3>2, <3>3 DEF FlushBatch
  <2>5. CASE BatchFails
    <3>1. EventTypeOK'
      BY <2>5 DEF BatchFails, EventTypeOK
    <3> QED BY <2>5, <3>1 DEF BatchFails
  <2>6. CASE RetryRow
    <3>1. batch # <<>> /\ batch \in Seq(Event)
      BY <2>6 DEF RetryRow, EventTypeOK
    <3>2. Head(batch) \in Event /\ RowOf(Head(batch), events)
      BY <3>1
    <3>3. table' \subseteq table \cup {Head(batch)}
      BY <2>6, InsertAdds DEF RetryRow
    <3>4. /\ batch' \in Seq(Event)
          /\ \A i \in DOMAIN batch' : RowOf(batch'[i], events)
          /\ Len(batch) > 1 => batch' # <<>>
      <4>1. batch' = Tail(batch) /\ Len(batch) \in Nat \ {0}
        BY <2>6, <3>1 DEF RetryRow
      <4>2. /\ batch' \in Seq(Event)
            /\ Len(batch') = Len(batch) - 1
            /\ \A i \in 1..Len(batch') : batch'[i] = batch[i + 1] /\ i + 1 \in DOMAIN batch
        BY <3>1, <4>1
      <4> QED BY <4>1, <4>2
    <3>5. EventTypeOK'
      <4>1. retrying' \in BOOLEAN
        <5>1. CASE Len(batch) > 1
          BY <2>6, <5>1 DEF RetryRow
        <5>2. CASE ~(Len(batch) > 1)
          BY <2>6, <5>2 DEF RetryRow
        <5> QED BY <5>1, <5>2
      <4>2. retrying' => batch' # <<>>
        BY <2>6, <3>4 DEF RetryRow
      <4>3. table' \subseteq Event
        BY <3>2, <3>3 DEF EventTypeOK
      <4> QED BY <2>6, <3>4, <4>1, <4>2, <4>3, Zenon DEF RetryRow, EventTypeOK
    <3>6. RowsAreEvents'
      <4>1. UNCHANGED events
        BY <2>6 DEF RetryRow
      <4> QED BY <3>2, <3>3, <4>1 DEF RowOf
    <3> QED BY <2>6, <3>4, <3>5, <3>6 DEF RetryRow
  <2>7. CASE Shutdown
    <3>1. EventTypeOK'
      BY <2>7 DEF Shutdown, EventTypeOK
    <3> QED BY <2>7, <3>1 DEF Shutdown
  <2>8. CASE RestartStream
    <3>1. PICK n \in 0..Len(events) :
            /\ 1..n \subseteq Seqs(table)
            /\ events' = [i \in 1..n |-> (CHOOSE r \in table : r.seq = i).id]
            /\ table' = Kept(n)
      BY <2>8 DEF RestartStream
    <3>2. n \in Nat /\ n <= Len(events) /\ events \in Seq(Ids) BY DEF EventTypeOK
    <3>3. ASSUME NEW i \in 1..n PROVE (CHOOSE r \in table : r.seq = i).id = events[i]
      <4>1. \E r \in table : r.seq = i BY <3>1 DEF Seqs
      <4> QED BY <4>1
    <3>4. events' = [i \in 1..n |-> events[i]]
      BY <3>1, <3>3
    <3>5. events' \in Seq(Ids) /\ Len(events') = n
      BY <3>2, <3>4
    <3>6. EventTypeOK'
      <4>1. table' \subseteq Event
        BY <3>1 DEF EventTypeOK, Kept
      <4>2. /\ unborn' \subseteq Ids
            /\ appended' \in [Appenders -> Event \cup {NoEvent}]
            /\ write_queue' \in Seq(Event) /\ batch' \in Seq(Event)
        BY <2>8 DEF RestartStream, EventTypeOK
      <4>3. retrying' = FALSE /\ stream_closed' = FALSE
        BY <2>8 DEF RestartStream
      <4> QED BY <3>5, <4>1, <4>2, <4>3 DEF EventTypeOK
    <3>7. RowsAreEvents'
      BY <3>1, <3>2, <3>4, <3>5 DEF Kept
    <3> QED BY <2>8, <3>6, <3>7 DEF RestartStream
  <2>9. CASE UNCHANGED eventVars
    BY <2>9 DEF eventVars, EventTypeOK
  <2> QED BY <2>1, <2>2, <2>3, <2>4, <2>5, <2>6, <2>7, <2>8, <2>9 DEF EventNext
<1> QED BY <1>1, <1>2, PTL DEF EventSpec

\* EventStream with its writer implements DurableLog: appending extends the log, the
\* writer's commits save positions of it, and load_stream keeps exactly the gapless prefix.
THEOREM StreamImplementsLog == EventSpec => ImplementsDurableLog
<1>1. EventInit => Durable!LogInit
  BY DEF EventInit, Durable!LogInit, Seqs
<1>2. LogInv /\ [EventNext]_eventVars => [Durable!LogNext]_<<events, Seqs(table)>>
  <2> SUFFICES ASSUME LogInv, [EventNext]_eventVars
               PROVE  [Durable!LogNext]_<<events, Seqs(table)>>
    OBVIOUS
  <2> USE DEF LogInv
  <2> DEFINE Same == UNCHANGED <<events, Seqs(table)>>
  <2>1. ASSUME NEW a \in Appenders, AppendEvent(a) PROVE Durable!Extend
    BY <2>1 DEF AppendEvent, Durable!Extend, EventTypeOK, Seqs
  <2>2. ASSUME NEW b, b \subseteq Event, \A r \in b : RowOf(r, events),
               table' \in {table, Insert(b)}, events' = events
        PROVE  Durable!Save
    <3>1. Seqs(table) \subseteq Seqs(table')
      BY <2>2, InsertAdds DEF Seqs
    <3>2. Seqs(table') \subseteq 1..Len(events)
      BY <2>2, InsertAdds DEF Seqs, RowsAreEvents, RowOf
    <3> QED BY <2>2, <3>1, <3>2 DEF Durable!Save, Seqs
  <2>3. CASE FlushBatch
    <3>1. EventRows(batch) \subseteq Event /\ \A r \in EventRows(batch) : RowOf(r, events)
      BY DEF EventRows, EventTypeOK, PendingAreEvents
    <3> QED BY <2>2, <2>3, <3>1 DEF FlushBatch, Durable!LogNext
  <2>4. CASE RetryRow
    <3>1. batch # <<>> /\ batch \in Seq(Event)
      BY <2>4 DEF RetryRow, EventTypeOK
    <3>2. {Head(batch)} \subseteq Event /\ \A r \in {Head(batch)} : RowOf(r, events)
      BY <3>1 DEF PendingAreEvents
    <3> QED BY <2>2, <2>4, <3>2 DEF RetryRow, Durable!LogNext
  <2>5. CASE RestartStream
    <3>1. PICK n \in 0..Len(events) :
            /\ 1..n \subseteq Seqs(table)
            /\ n + 1 \notin Seqs(table)
            /\ events' = [i \in 1..n |-> (CHOOSE r \in table : r.seq = i).id]
            /\ table' = Kept(n)
      BY <2>5 DEF RestartStream
    <3>2. n \in Nat /\ n <= Len(events) /\ events \in Seq(Ids) BY DEF EventTypeOK
    <3>3. ASSUME NEW i \in 1..n PROVE (CHOOSE r \in table : r.seq = i).id = events[i]
      <4>1. \E r \in table : r.seq = i BY <3>1 DEF Seqs
      <4> QED BY <4>1 DEF RowsAreEvents
    <3>4. events' = SubSeq(events, 1, n)
      BY <3>1, <3>2, <3>3
    <3>5. Seqs(table)' = 1..n
      BY <3>1, <3>2 DEF Kept, Seqs, RowsAreEvents
    <3>6. Durable!FirstGap(n)
      BY <3>1 DEF Durable!FirstGap
    <3> QED BY <3>4, <3>5, <3>6 DEF Durable!Lose, Durable!LogNext
  <2>6. ASSUME NEW a \in Appenders, Enqueue(a) PROVE Same
    BY <2>6 DEF Enqueue, Seqs
  <2>7. CASE TakeBatch \/ BatchFails \/ Shutdown \/ UNCHANGED eventVars
    <3>1. Same
      BY <2>7 DEF TakeBatch, BatchFails, Shutdown, eventVars, Seqs
    <3> QED BY <3>1
  <2> QED BY <2>1, <2>3, <2>4, <2>5, <2>6, <2>7 DEF EventNext, Durable!LogNext
<1>3. EventSpec => []LogInv
  BY LogInvariant
<1> QED BY <1>1, <1>2, <1>3, PTL DEF EventSpec, ImplementsDurableLog, Durable!LogSpec

(***************************************************************************)
(* The state manager                                                       *)
(***************************************************************************)

Phase == {"expect", "read", "fill_expected", "fill", "expected", "check", "old", "commit",
          "cache", "report"}
MaybeRecord == Record \cup {Absent}
Called == [pc : Phase, op : Ops, key : Keys, value : Values \cup {Absent}, expected : Nat,
           found : MaybeRecord, old : MaybeRecord, tries : Nat]

Held(t) == call[t].pc # "idle"

CallsTypeOK ==
    /\ serialized \subseteq Keys
    /\ state_row \in [Keys -> MaybeRecord]
    /\ cached \in [Keys -> MaybeRecord]
    /\ call \in [StateThreads -> Called \cup {NoCommit}]

\* A call that writes has something to write, and room for one more version.
ArgsOK == \A t \in StateThreads :
    /\ call[t] \in Called /\ call[t].op \in Writes => call[t].value \in Values
    /\ call[t].pc \in {"old", "commit", "cache", "report"} => call[t].op # "get"
    /\ call[t].pc \in {"commit", "cache"} /\ call[t].op # "delete"
         => Version(call[t].old) < MaxVersion

\* The callers of a serialized key wait for each other.
SerialOK == \A t, u \in StateThreads :
    t # u /\ Held(t) /\ Held(u) /\ call[t].key \in serialized => call[u].key # call[t].key

\* Row and cache of a serialized key agree, except while its one caller is between them;
\* what that caller took for the old record is still the cached one.
FreshOK == \A t \in StateThreads : Held(t) /\ call[t].key \in serialized =>
    LET k == call[t].key IN
    /\ call[t].pc \notin {"fill_expected", "fill"}
    /\ call[t].pc \in {"commit", "cache"} => call[t].old = cached[k]
    /\ state_row[k] = IF call[t].pc = "cache" THEN NewRecord(t) ELSE cached[k]

IdleOK == \A k \in serialized :
    (\A t \in StateThreads : Held(t) => call[t].key # k) => state_row[k] = cached[k]

StateInv == CallsTypeOK /\ ArgsOK /\ SerialOK /\ FreshOK /\ IdleOK

\* A thread is idle or has a complete call.
LEMMA BusyIsCalled ==
    ASSUME CallsTypeOK, NEW t \in StateThreads
    PROVE  /\ Held(t) <=> call[t] \in Called
           /\ call[t].pc \in Phase => call[t] \in Called
  BY DEF CallsTypeOK, Held, Called, NoCommit, Phase

\* What a write leaves is a record.
LEMMA NewRecordType ==
    ASSUME StateInv, NEW t \in StateThreads, call[t].pc \in {"commit", "cache"}
    PROVE  /\ NewRecord(t) \in MaybeRecord
           /\ \/ NewRecord(t) = Absent
              \/ \E v \in Values :
                    NewRecord(t) = [value |-> v, version |-> Version(call[t].old) + 1]
<1>1. call[t] \in Called
  BY BusyIsCalled DEF StateInv, Phase
<1>2. call[t].op # "get" /\ (call[t].op \in Writes => call[t].value \in Values)
  BY <1>1 DEF StateInv, ArgsOK
<1>3. CASE call[t].op = "delete"
  BY <1>3 DEF NewRecord, MaybeRecord
<1>4. CASE call[t].op # "delete"
  <2>1. call[t].value \in Values
    BY <1>1, <1>2, <1>4 DEF Called, Ops, Writes
  <2>2. Version(call[t].old) \in Nat /\ Version(call[t].old) < MaxVersion
    BY <1>1, <1>4, StateAssumption DEF StateInv, ArgsOK, Called, MaybeRecord, Record, Version
  <2>3. [value |-> call[t].value, version |-> Version(call[t].old) + 1] \in Record
    BY <2>1, <2>2, StateAssumption DEF Record
  <2> QED BY <1>4, <2>1, <2>3 DEF NewRecord, MaybeRecord
<1> QED BY <1>3, <1>4

\* A step of t that touches neither row nor cache and keeps to its key.
LEMMA LocalStep ==
    ASSUME StateInv, NEW t \in StateThreads, call[t] \in Called, call[t].pc # "cache",
           NEW c \in Called \cup {NoCommit},
           call' = [call EXCEPT ![t] = c],
           UNCHANGED <<serialized, state_row, cached>>,
           c \in Called =>
             /\ c.key = call[t].key
             /\ c.pc # "cache"
             /\ c.op \in Writes => c.value \in Values
             /\ c.pc \in {"old", "commit", "report"} => c.op # "get"
             /\ c.pc = "commit" => /\ c.old = cached[c.key]
                                   /\ c.op # "delete" => Version(c.old) < MaxVersion
             /\ c.key \in serialized => c.pc \notin {"fill_expected", "fill"}
    PROVE  StateInv'
<1> USE DEF StateInv
<1>1. CallsTypeOK'
  BY DEF CallsTypeOK
<1>2. /\ call'[t] = c
      /\ \A u \in StateThreads : u # t => call'[u] = call[u]
      /\ serialized' = serialized /\ state_row' = state_row /\ cached' = cached
  BY DEF CallsTypeOK
<1>3. c = NoCommit \/ c \in Called
  OBVIOUS
<1>4. NoCommit.pc = "idle" /\ NoCommit \notin Called
  BY DEF NoCommit, Called
<1>5. ArgsOK'
  BY <1>2, <1>3, <1>4 DEF ArgsOK
<1>6. Held(t)
  BY BusyIsCalled
<1>7. SerialOK'
  BY <1>2, <1>3, <1>4, <1>6 DEF SerialOK, Held
<1>8. FreshOK'
  <2> SUFFICES ASSUME NEW u \in StateThreads, Held(u)', (call[u].key \in serialized)'
               PROVE  LET k == call'[u].key IN
                      /\ call'[u].pc \notin {"fill_expected", "fill"}
                      /\ call'[u].pc \in {"commit", "cache"} => call'[u].old = cached'[k]
                      /\ state_row'[k] = IF call'[u].pc = "cache" THEN NewRecord(u)' ELSE cached'[k]
    BY DEF FreshOK
  <2>1. CASE u = t
    <3>1. c \in Called /\ c.key = call[t].key
      BY <1>2, <1>3, <1>4, <2>1 DEF Held
    <3>2. state_row[c.key] = cached[c.key]
      BY <1>2, <1>6, <2>1, <3>1 DEF FreshOK
    <3> QED BY <1>2, <2>1, <3>1, <3>2
  <2>2. CASE u # t
    <3>1. call'[u] = call[u] /\ NewRecord(u)' = NewRecord(u)
      BY <1>2, <2>2 DEF NewRecord
    <3> QED BY <1>2, <3>1 DEF FreshOK, Held
  <2> QED BY <2>1, <2>2
<1>9. IdleOK'
  <2> SUFFICES ASSUME NEW k \in serialized,
                      \A u \in StateThreads : Held(u)' => call'[u].key # k
               PROVE  state_row[k] = cached[k]
    BY <1>2 DEF IdleOK
  <2>1. \A u \in StateThreads : u # t => (Held(u) => call[u].key # k)
    BY <1>2 DEF Held
  <2>2. CASE call[t].key = k
    BY <1>6, <2>2 DEF FreshOK
  <2>3. CASE call[t].key # k
    BY <2>1, <2>3 DEF IdleOK
  <2> QED BY <2>2, <2>3
<1> QED BY <1>1, <1>5, <1>7, <1>8, <1>9

\* Rows, caches and calls agree as StateInv says: inductive.
THEOREM StateInvariant == StateSpec => []StateInv
<1>1. StateInit => StateInv
  BY DEF StateInit, StateInv, CallsTypeOK, ArgsOK, SerialOK, FreshOK, IdleOK, Held, NoCommit,
         MaybeRecord, Called
<1>2. StateInv /\ [StateNext]_stateVars => StateInv'
  <2> SUFFICES ASSUME StateInv, [StateNext]_stateVars PROVE StateInv'
    OBVIOUS
  <2> USE DEF StateInv
  <2>0. \A t \in StateThreads : call[t].pc \in Phase => call[t] \in Called
    BY BusyIsCalled
  <2>1. ASSUME NEW t \in StateThreads, NEW op \in Ops, NEW k \in Keys,
               NEW v \in Values \cup {Absent}, NEW n \in 0..1, CallState(t, op, k, v, n)
        PROVE  StateInv'
    <3> DEFINE c == [pc |-> CASE op = "set" -> "old"
                              [] op = "delete" -> "old"
                              [] op = "set_with_retry" -> "expect"
                              [] OTHER -> "read",
                     op |-> op, key |-> k, value |-> v, expected |-> n,
                     found |-> Absent, old |-> Absent, tries |-> 0]
    <3>1. /\ ~Held(t)
          /\ k \in serialized => \A u \in StateThreads : Held(u) => call[u].key # k
          /\ op \in Writes => v \in Values
          /\ call' = [call EXCEPT ![t] = c]
          /\ serialized' = serialized /\ state_row' = state_row /\ cached' = cached
      BY <2>1 DEF CallState, Held
    <3>2. c.pc \in {"old", "expect", "read"} /\ (op = "get" => c.pc = "read")
      BY DEF Ops
    <3>3. c \in Called /\ c.key = k /\ c.op = op /\ c.value = v
      BY <3>2 DEF Called, Phase, MaybeRecord
    <3> HIDE DEF c
    <3>4. CallsTypeOK'
      BY <3>1, <3>3 DEF CallsTypeOK
    <3>5. call'[t] = c /\ \A u \in StateThreads : u # t => call'[u] = call[u]
      BY <3>1 DEF CallsTypeOK
    <3>6. ArgsOK'
      BY <3>1, <3>2, <3>3, <3>5 DEF ArgsOK
    <3>7. SerialOK'
      BY <3>1, <3>3, <3>5 DEF SerialOK, Held
    <3>8. k \in serialized => state_row[k] = cached[k]
      BY <3>1 DEF IdleOK
    <3>9. \A u \in StateThreads : u # t => NewRecord(u)' = NewRecord(u)
      BY <3>5 DEF NewRecord
    <3>10. FreshOK'
      BY <3>1, <3>2, <3>3, <3>5, <3>8, <3>9 DEF FreshOK, Held
    <3>11. IdleOK'
      BY <3>1, <3>5 DEF IdleOK, Held
    <3> QED BY <3>4, <3>6, <3>7, <3>10, <3>11
  <2>2. ASSUME NEW t \in StateThreads, GetRecord(t) PROVE StateInv'
    <3>1. call[t] \in Called /\ call[t].pc \in {"expect", "read"}
      BY <2>0, <2>2 DEF GetRecord, Phase
    <3>2. cached[call[t].key] \in MaybeRecord /\ state_row[call[t].key] \in MaybeRecord
      BY <3>1 DEF CallsTypeOK, Called
    <3>3. CASE cached[call[t].key] # Absent \/ state_row[call[t].key] = Absent
      <4> DEFINE c == [call[t] EXCEPT !.found = cached[call[t].key],
                         !.pc = IF call[t].pc = "expect" THEN "expected" ELSE "check"]
      <4>1. c \in Called /\ c.key = call[t].key /\ c.pc \in {"expected", "check"}
            /\ c.op = call[t].op /\ c.value = call[t].value
        BY <3>1, <3>2 DEF Called, Phase
      <4>2. call' = [call EXCEPT ![t] = c]
        BY <2>2, <3>3 DEF GetRecord
      <4> QED BY <2>2, <3>1, <4>1, <4>2, LocalStep DEF GetRecord, ArgsOK
    <3>4. CASE ~(cached[call[t].key] # Absent \/ state_row[call[t].key] = Absent)
      <4> DEFINE c == [call[t] EXCEPT !.found = state_row[call[t].key],
                         !.pc = IF call[t].pc = "expect" THEN "fill_expected" ELSE "fill"]
      <4>1. c \in Called /\ c.key = call[t].key /\ c.pc \in {"fill_expected", "fill"}
            /\ c.op = call[t].op /\ c.value = call[t].value
        BY <3>1, <3>2 DEF Called, Phase
      <4>2. call' = [call EXCEPT ![t] = c]
        BY <2>2, <3>4 DEF GetRecord
      <4>3. call[t].key \notin serialized
        BY <3>1, <3>4, BusyIsCalled DEF FreshOK
      <4> QED BY <2>2, <3>1, <4>1, <4>2, <4>3, LocalStep DEF GetRecord, ArgsOK
    <3> QED BY <3>3, <3>4
  <2>3. ASSUME NEW t \in StateThreads, FillCache(t) PROVE StateInv'
    <3>1. call[t] \in Called /\ call[t].pc \in {"fill_expected", "fill"}
      BY <2>0, <2>3 DEF FillCache, Phase
    <3>2. call[t].key \notin serialized /\ Held(t) /\ call[t].key \in Keys
      BY <3>1, BusyIsCalled DEF FreshOK, Called
    <3> DEFINE c == [call[t] EXCEPT !.pc = IF call[t].pc = "fill" THEN "check" ELSE "expected"]
    <3>3. c \in Called /\ c.key = call[t].key /\ c.pc \in {"check", "expected"}
          /\ c.op = call[t].op /\ c.value = call[t].value
      BY <3>1 DEF Called, Phase
    <3>4. /\ call' = [call EXCEPT ![t] = c]
          /\ cached' = [cached EXCEPT ![call[t].key] = call[t].found]
          /\ serialized' = serialized /\ state_row' = state_row
      BY <2>3 DEF FillCache, GoesTo, PutRecord
    <3> HIDE DEF c
    <3>5. CallsTypeOK'
      BY <3>1, <3>3, <3>4 DEF CallsTypeOK, Called
    <3>6. /\ call'[t] = c /\ \A u \in StateThreads : u # t => call'[u] = call[u]
          /\ \A k \in serialized : cached'[k] = cached[k]
      BY <3>2, <3>4 DEF CallsTypeOK
    <3>7. ArgsOK'
      BY <3>1, <3>3, <3>6 DEF ArgsOK
    <3>8. SerialOK'
      BY <3>2, <3>3, <3>4, <3>6 DEF SerialOK, Held
    <3>9. \A u \in StateThreads : u # t => NewRecord(u)' = NewRecord(u)
      BY <3>6 DEF NewRecord
    <3>10. FreshOK'
      BY <3>2, <3>3, <3>4, <3>6, <3>9 DEF FreshOK, Held
    <3>11. IdleOK'
      BY <3>2, <3>4, <3>6 DEF IdleOK, Held
    <3> QED BY <3>5, <3>7, <3>8, <3>10, <3>11
  <2>4. ASSUME NEW t \in StateThreads, ExpectedVersion(t) PROVE StateInv'
    <3>1. call[t] \in Called /\ call[t].pc = "expected"
      BY <2>0, <2>4 DEF ExpectedVersion, Phase
    <3>2. Version(call[t].found) \in Nat
      BY <3>1, StateAssumption DEF Called, MaybeRecord, Record, Version
    <3> DEFINE c == [call[t] EXCEPT !.expected = Version(call[t].found), !.pc = "read"]
    <3>3. c \in Called /\ c.key = call[t].key /\ c.pc = "read"
          /\ c.op = call[t].op /\ c.value = call[t].value
      BY <3>1, <3>2 DEF Called, Phase
    <3>4. call' = [call EXCEPT ![t] = c]
      BY <2>4 DEF ExpectedVersion
    <3> QED BY <2>4, <3>1, <3>3, <3>4, LocalStep DEF ExpectedVersion, ArgsOK
  <2>5. ASSUME NEW t \in StateThreads, CheckVersion(t) PROVE StateInv'
    <3>1. call[t] \in Called /\ call[t].pc = "check"
      BY <2>0, <2>5 DEF CheckVersion, Phase
    <3>2. CASE CallReturns(t)
      BY <2>5, <3>1, <3>2, LocalStep DEF CheckVersion, CallReturns, Called, NoCommit
    <3>3. CASE call[t].op # "get" /\ GoesTo(t, "old")
      <4> DEFINE c == [call[t] EXCEPT !.pc = "old"]
      <4>1. c \in Called /\ c.key = call[t].key /\ c.pc = "old"
            /\ c.op = call[t].op /\ c.value = call[t].value
        BY <3>1 DEF Called, Phase
      <4>2. call' = [call EXCEPT ![t] = c]
        BY <3>3 DEF GoesTo
      <4> QED BY <2>5, <3>1, <3>3, <4>1, <4>2, LocalStep DEF CheckVersion, ArgsOK
    <3>4. CASE call' = [call EXCEPT ![t].tries = @ + 1, ![t].pc = "expect"]
      <4> DEFINE c == [call[t] EXCEPT !.tries = call[t].tries + 1, !.pc = "expect"]
      <4>1. c \in Called /\ c.key = call[t].key /\ c.pc = "expect"
            /\ c.op = call[t].op /\ c.value = call[t].value
        <5>1. call[t].tries + 1 \in Nat
          BY <3>1 DEF Called
        <5> QED BY <3>1, <5>1 DEF Called, Phase
      <4>2. call' = [call EXCEPT ![t] = c]
        BY <3>4
      <4> QED BY <2>5, <3>1, <4>1, <4>2, LocalStep DEF CheckVersion, ArgsOK
    <3> QED BY <2>5, <3>2, <3>3, <3>4 DEF CheckVersion
  <2>6. ASSUME NEW t \in StateThreads, ReadOld(t) PROVE StateInv'
    <3>1. call[t] \in Called /\ call[t].pc = "old"
      BY <2>0, <2>6 DEF ReadOld, Phase
    <3>2. cached[call[t].key] \in MaybeRecord
      BY <3>1 DEF CallsTypeOK, Called
    <3> DEFINE c == [call[t] EXCEPT !.old = cached[call[t].key], !.pc = "commit"]
    <3>3. c \in Called /\ c.key = call[t].key /\ c.pc = "commit"
          /\ c.op = call[t].op /\ c.value = call[t].value /\ c.old = cached[c.key]
      BY <3>1, <3>2 DEF Called, Phase
    <3>4. call' = [call EXCEPT ![t] = c]
      BY <2>6 DEF ReadOld
    <3>5. c.op # "delete" => Version(c.old) < MaxVersion
      BY <2>6, <3>3 DEF ReadOld
    <3>6. c.op # "get" /\ (c.op \in Writes => c.value \in Values)
      BY <3>1, <3>3 DEF ArgsOK
    <3>7. UNCHANGED <<serialized, state_row, cached>>
      BY <2>6 DEF ReadOld
    <3> HIDE DEF c
    <3> QED BY <3>1, <3>3, <3>4, <3>5, <3>6, <3>7, LocalStep
  <2>7. ASSUME NEW t \in StateThreads, CommitRow(t) PROVE StateInv'
    <3>1. call[t] \in Called /\ call[t].pc = "commit" /\ Held(t) /\ call[t].key \in Keys
      BY <2>0, <2>7 DEF CommitRow, Phase, Held, Called
    <3>2. NewRecord(t) \in MaybeRecord
      BY <3>1, NewRecordType
    <3> DEFINE c == [call[t] EXCEPT !.pc = "cache"]
    <3>3. c \in Called /\ c.key = call[t].key /\ c.pc = "cache"
          /\ c.op = call[t].op /\ c.value = call[t].value /\ c.old = call[t].old
      BY <3>1 DEF Called, Phase
    <3>4. /\ call' = [call EXCEPT ![t] = c]
          /\ state_row' = [state_row EXCEPT ![call[t].key] = NewRecord(t)]
          /\ serialized' = serialized /\ cached' = cached
      BY <2>7 DEF CommitRow, GoesTo, PutRecord
    <3> HIDE DEF c
    <3>5. CallsTypeOK'
      BY <3>2, <3>3, <3>4 DEF CallsTypeOK
    <3>6. /\ call'[t] = c /\ \A u \in StateThreads : u # t => call'[u] = call[u]
          /\ state_row'[call[t].key] = NewRecord(t)
          /\ \A k \in Keys : k # call[t].key => state_row'[k] = state_row[k]
      BY <3>1, <3>4 DEF CallsTypeOK
    <3>7. NewRecord(t)' = NewRecord(t)
          /\ \A u \in StateThreads : u # t => NewRecord(u)' = NewRecord(u)
      BY <3>3, <3>6 DEF NewRecord
    <3>8. ArgsOK'
      BY <3>1, <3>3, <3>6 DEF ArgsOK
    <3>9. SerialOK'
      BY <3>1, <3>3, <3>4, <3>6 DEF SerialOK, Held
    <3>10. FreshOK'
      <4>1. call[t].key \in serialized => call[t].old = cached[call[t].key]
        BY <3>1 DEF FreshOK
      <4>2. \A u \in StateThreads : u # t /\ Held(u) /\ call[u].key \in serialized =>
                                     call[u].key # call[t].key /\ call[u].key \in Keys
        BY <3>1 DEF SerialOK, CallsTypeOK
      <4> QED BY <3>3, <3>4, <3>6, <3>7, <4>1, <4>2 DEF FreshOK, Held
    <3>11. IdleOK'
      BY <3>1, <3>3, <3>4, <3>6 DEF IdleOK, Held, CallsTypeOK
    <3> QED BY <3>5, <3>8, <3>9, <3>10, <3>11
  <2>8. ASSUME NEW t \in StateThreads, UpdateCache(t) PROVE StateInv'
    <3>1. call[t] \in Called /\ call[t].pc = "cache" /\ Held(t) /\ call[t].key \in Keys
      BY <2>0, <2>8 DEF UpdateCache, Phase, Held, Called
    <3>2. NewRecord(t) \in MaybeRecord
      BY <3>1, NewRecordType
    <3>3. /\ cached' = [cached EXCEPT ![call[t].key] = NewRecord(t)]
          /\ serialized' = serialized /\ state_row' = state_row
      BY <2>8 DEF UpdateCache, PutRecord
    <3>4. PICK c \in Called \cup {NoCommit} :
             /\ call' = [call EXCEPT ![t] = c]
             /\ c # NoCommit => /\ c.key = call[t].key /\ c.pc = "report"
                                /\ c.op = call[t].op /\ c.value = call[t].value
      <4>1. CASE CallReturns(t)
        BY <4>1 DEF CallReturns
      <4>2. CASE GoesTo(t, "report")
        <5> DEFINE c == [call[t] EXCEPT !.pc = "report"]
        <5>1. c \in Called /\ c.key = call[t].key /\ c.pc = "report"
              /\ c.op = call[t].op /\ c.value = call[t].value
          BY <3>1 DEF Called, Phase
        <5>2. call' = [call EXCEPT ![t] = c]
          BY <4>2 DEF GoesTo
        <5> HIDE DEF c
        <5> QED BY <5>1, <5>2
      <4> QED BY <2>8, <4>1, <4>2 DEF UpdateCache
    <3>5. CallsTypeOK'
      BY <3>2, <3>3, <3>4 DEF CallsTypeOK
    <3>6. /\ call'[t] = c /\ \A u \in StateThreads : u # t => call'[u] = call[u]
          /\ cached'[call[t].key] = NewRecord(t)
          /\ \A k \in Keys : k # call[t].key => cached'[k] = cached[k]
      BY <3>1, <3>3, <3>4 DEF CallsTypeOK
    <3>7. \A u \in StateThreads : u # t => NewRecord(u)' = NewRecord(u)
      BY <3>6 DEF NewRecord
    <3>8. NoCommit.pc = "idle" /\ NoCommit \notin Called
      BY DEF NoCommit, Called
    <3>9. ArgsOK'
      BY <3>1, <3>4, <3>6, <3>8 DEF ArgsOK
    <3>10. SerialOK'
      BY <3>1, <3>3, <3>4, <3>6, <3>8 DEF SerialOK, Held
    <3>11. call[t].key \in serialized => state_row[call[t].key] = NewRecord(t)
      BY <3>1 DEF FreshOK
    <3>12. FreshOK'
      <4>1. \A u \in StateThreads : u # t /\ Held(u) /\ call[u].key \in serialized =>
                                     call[u].key # call[t].key /\ call[u].key \in Keys
        BY <3>1 DEF SerialOK, CallsTypeOK
      <4> QED BY <3>3, <3>4, <3>6, <3>7, <3>8, <3>11, <4>1 DEF FreshOK, Held
    <3>13. IdleOK'
      BY <3>1, <3>3, <3>4, <3>6, <3>8, <3>11 DEF IdleOK, Held, CallsTypeOK
    <3> QED BY <3>5, <3>9, <3>10, <3>12, <3>13
  <2>9. ASSUME NEW t \in StateThreads, Report(t) PROVE StateInv'
    <3>1. call[t] \in Called /\ call[t].pc = "report"
      BY <2>0, <2>9 DEF Report, Phase
    <3> QED BY <2>9, <3>1, LocalStep DEF Report, CallReturns, Called, NoCommit
  <2>10. CASE RestartState
    BY <2>10 DEF RestartState, CallsTypeOK, ArgsOK, SerialOK, FreshOK, IdleOK, Held, NoCommit,
                 Called
  <2>11. CASE UNCHANGED stateVars
    BY <2>11 DEF stateVars, CallsTypeOK, ArgsOK, SerialOK, FreshOK, IdleOK, Held, NewRecord
  <2> QED BY <2>1, <2>2, <2>3, <2>4, <2>5, <2>6, <2>7, <2>8, <2>9, <2>10, <2>11 DEF StateNext
<1> QED BY <1>1, <1>2, PTL DEF StateSpec

\* StateManager implements VersionedState: what readers see of a serialized key changes when
\* a write reaches the cache, by one version, or when a restart (_warm_cache) completes a
\* write that had committed its row.
THEOREM ManagerImplementsRegister == StateSpec => ImplementsRegister
<1> DEFINE visible == [k \in Keys |-> IF k \in serialized THEN cached[k] ELSE Absent]
<1>1. StateInit => Register!RegisterInit
  BY DEF StateInit, Register!RegisterInit
<1>2. StateInv /\ [StateNext]_stateVars => [Register!RegisterNext]_visible
  <2> SUFFICES ASSUME StateInv, [StateNext]_stateVars
               PROVE  Register!RegisterNext \/ UNCHANGED visible
    OBVIOUS
  <2> USE DEF StateInv
  <2>1. ASSUME serialized' = serialized, cached' = cached PROVE UNCHANGED visible
    BY <2>1
  <2>2. ASSUME serialized' = serialized,
               \A k \in serialized : \/ cached'[k] = cached[k]
                                     \/ \E t \in StateThreads :
                                          /\ call[t].pc = "cache" /\ call[t].key = k
                                          /\ cached'[k] = NewRecord(t)
        PROVE  Register!RegisterNext
    <3>1. visible' = [k \in Keys |-> visible'[k]]
      OBVIOUS
    <3>2. ASSUME NEW k \in Keys
          PROVE  visible'[k] = visible[k] \/ Register!Written(k) \/ Register!Removed(k)
      <4>1. CASE k \notin serialized
        BY <2>2, <4>1
      <4>2. CASE k \in serialized /\ cached'[k] = cached[k]
        BY <2>2, <4>2
      <4>3. ASSUME NEW t \in StateThreads, k \in serialized, call[t].pc = "cache",
                   call[t].key = k, cached'[k] = NewRecord(t)
            PROVE  Register!Written(k) \/ Register!Removed(k)
        <5>1. call[t].old = cached[k]
          BY <4>3 DEF FreshOK, Held
        <5>2. \/ NewRecord(t) = Absent
              \/ \E v \in Values : NewRecord(t) = [value |-> v, version |-> Version(cached[k]) + 1]
          BY <4>3, <5>1, NewRecordType
        <5> QED BY <2>2, <4>3, <5>2 DEF Register!Written, Register!Removed, Register!VersionOf, Version
      <4> QED BY <2>2, <4>1, <4>2, <4>3
    <3> QED BY <3>1, <3>2 DEF Register!RegisterNext
  <2>3. ASSUME NEW t \in StateThreads, FillCache(t) PROVE Register!RegisterNext
    <3>1. call[t].key \notin serialized
      BY <2>3 DEF FillCache, FreshOK, Held
    <3>2. \A k \in serialized : cached'[k] = cached[k]
      BY <2>3, <3>1 DEF FillCache, PutRecord, CallsTypeOK
    <3> QED BY <2>2, <2>3, <3>2 DEF FillCache
  <2>4. ASSUME NEW t \in StateThreads, UpdateCache(t) PROVE Register!RegisterNext
    <3>1. \A k \in serialized : cached'[k] = IF k = call[t].key THEN NewRecord(t) ELSE cached[k]
      BY <2>4 DEF UpdateCache, PutRecord, CallsTypeOK
    <3> QED BY <2>2, <2>4, <3>1 DEF UpdateCache
  <2>5. CASE RestartState
    <3>1. ASSUME NEW k \in serialized
          PROVE  \/ state_row[k] = cached[k]
                 \/ \E t \in StateThreads : /\ call[t].pc = "cache" /\ call[t].key = k
                                            /\ state_row[k] = NewRecord(t)
      BY DEF FreshOK, IdleOK, Held
    <3> QED BY <2>2, <2>5, <3>1 DEF RestartState
  <2>6. ASSUME NEW t \in StateThreads,
               \/ \E op \in Ops, k \in Keys, v \in Values \cup {Absent}, n \in 0..1 :
                     CallState(t, op, k, v, n)
               \/ GetRecord(t) \/ ExpectedVersion(t) \/ CheckVersion(t) \/ ReadOld(t)
               \/ CommitRow(t) \/ Report(t)
        PROVE  UNCHANGED visible
    BY <2>1, <2>6 DEF CallState, GetRecord, ExpectedVersion, CheckVersion, ReadOld, CommitRow, Report
  <2>7. CASE UNCHANGED stateVars
    BY <2>1, <2>7 DEF stateVars
  <2> HIDE DEF visible
  <2> QED BY <2>3, <2>4, <2>5, <2>6, <2>7 DEF StateNext
<1>3. StateSpec => []StateInv
  BY StateInvariant
<1> QED BY <1>1, <1>2, <1>3, PTL DEF StateSpec, ImplementsRegister, Register!RegisterSpec

(***************************************************************************)
(* The desktop process                                                     *)
(***************************************************************************)

\* A set of numbers with a bound has a greatest one.
LEMMA MaxExists ==
    ASSUME NEW S \in SUBSET Nat, S # {}, NEW b \in Nat, \A x \in S : x <= b
    PROVE  Max(S) \in S /\ \A x \in S : x <= Max(S)
<1> DEFINE T == {b - x : x \in S}
           R == OpToRel(<, Nat)
<1>1. T \in SUBSET Nat /\ T # {}
  <2>1. \A x \in S : b - x \in Nat OBVIOUS
  <2>2. PICK x \in S : TRUE OBVIOUS
  <2>3. b - x \in T OBVIOUS
  <2> QED BY <2>1, <2>3
<1>2. PICK t \in T : \A u \in T : ~(<<u, t>> \in R)
  <2>1. IsWellFoundedOn(R, Nat) BY NatLessThanWellFounded
  <2> HIDE DEF T, R
  <2> QED BY <1>1, <2>1, WFMin
<1>3. PICK m \in S : t = b - m BY <1>2
<1>4. \A x \in S : x <= m
  <2> SUFFICES ASSUME NEW x \in S, x > m PROVE FALSE BY SMT
  <2>1. b - x \in T /\ b - x \in Nat /\ b - m \in Nat /\ b - x < b - m BY <1>3
  <2>2. <<b - x, t>> \in R BY <1>3, <2>1 DEF OpToRel
  <2> QED BY <1>2, <2>1, <2>2
<1> QED BY <1>3, <1>4 DEF Max

LEMMA MaxIs ==
    ASSUME NEW S \in SUBSET Nat, NEW m \in S, \A x \in S : x <= m
    PROVE  Max(S) = m
<1>1. m \in Nat OBVIOUS
<1>2. Max(S) \in S /\ \A x \in S : x <= Max(S) BY <1>1, MaxExists
<1>3. Max(S) <= m /\ m <= Max(S) /\ Max(S) \in Nat BY <1>2
<1> QED BY <1>1, <1>3

RunRecord == [at : Live \cup {"unborn", "handed_off", "ended"}, pending : Nat,
              marked : {"never", "started", "stopped"}]

Marked(r) == desktop_runs[r].marked # "never"
MarkedRuns == {r \in Runs : Marked(r)}

HostData ==
    /\ desktop_runs \in [Runs -> RunRecord]
    /\ clock \in Nat \ {0} /\ sentinel \in Nat /\ overlapped \in BOOLEAN
    /\ pid_file \in 0..MaxRuns
    /\ sentinel < clock /\ clock <= LastLogTime + 1 + Cardinality(MarkedRuns)
    /\ crash_logs \subseteq [time : 1..LastLogTime, writer : Runs]
    /\ \A l \in crash_logs : l.time < clock /\ Marked(l.writer)

\* What a run did to the sentinel follows from where it is.
MarkedOK == \A r \in Runs :
    /\ desktop_runs[r].at = "unborn" => desktop_runs[r] = Unborn
    /\ desktop_runs[r].at \in {"unborn", "handed_off", "check", "mark"} =>
          desktop_runs[r].marked = "never"
    /\ desktop_runs[r].at \in Live \ {"check", "mark", "leave"} => desktop_runs[r].marked = "started"
    /\ desktop_runs[r].at = "leave" => desktop_runs[r].marked = "stopped"

\* Runs start in their order, and one that is up is the last that did not hand off.
StartOrderOK == \A r \in Runs : desktop_runs[r].at = "unborn" =>
    \A q \in Runs : q >= r => desktop_runs[q].at = "unborn"
AloneOK == \A r \in Runs : Alive(r) =>
    \A q \in Runs : q > r => desktop_runs[q].at \in {"unborn", "handed_off"}

\* The sentinel is what the last run that marked it left, and a log as young as the
\* sentinel of a run that did not quit is that run's.
LastMarked(r) == r \in Runs /\ Marked(r) /\ \A q \in Runs : q > r => ~Marked(q)
SentinelOK ==
    /\ (\A r \in Runs : ~Marked(r)) => sentinel = 0
    /\ \A r \in Runs : LastMarked(r) =>
          /\ desktop_runs[r].marked = "stopped" => sentinel = 0
          /\ desktop_runs[r].marked = "started" =>
                sentinel # 0 /\ \A l \in crash_logs : l.time >= sentinel <=> l.writer = r

\* What a run is to offer.
Offered(r) ==
    LET q == Predecessor(r)
    IN  IF q = 0 \/ desktop_runs[q].marked = "stopped" THEN 0 ELSE Max({0} \cup LogsOf(q))
OfferOK == \A r \in Runs : desktop_runs[r].at \in {"mark", "bootstrap"} =>
    desktop_runs[r].pending = Offered(r)

HostAlone == AloneOK /\ SentinelOK /\ OfferOK
HostInv == HostData /\ MarkedOK /\ StartOrderOK /\ (~overlapped => HostAlone)

\* The last earlier run that marked its start, when there is one.
LEMMA PredecessorIs ==
    ASSUME HostData, NEW r \in Runs
    PROVE  /\ Predecessor(r) \in 0..r - 1
           /\ Predecessor(r) = 0 => \A q \in 1..r - 1 : ~Marked(q)
           /\ Predecessor(r) # 0 => Marked(Predecessor(r))
           /\ \A q \in 1..r - 1 : q > Predecessor(r) => ~Marked(q)
<1> DEFINE S == {0} \cup {q \in 1..r - 1 : desktop_runs[q].marked # "never"}
<1>1. r \in Nat /\ r >= 1 /\ MaxRuns \in Nat BY HostAssumption DEF Runs
<1>2. S \in SUBSET Nat /\ S # {} /\ \A x \in S : x <= r - 1 /\ x \in 0..r - 1 BY <1>1
<1>3. Predecessor(r) = Max(S) BY DEF Predecessor
<1>4. r - 1 \in Nat BY <1>1
<1> HIDE DEF S
<1>5. Max(S) \in S /\ \A x \in S : x <= Max(S) BY <1>2, <1>4, MaxExists
<1>6. \A q \in 1..r - 1 : Marked(q) => q \in S BY DEF S, Marked
<1>7. Max(S) # 0 => Marked(Max(S)) BY <1>5 DEF S, Marked
<1>8. \A q \in 1..r - 1 : q > Max(S) => ~Marked(q)
  <2> SUFFICES ASSUME NEW q \in 1..r - 1, q > Max(S), Marked(q) PROVE FALSE OBVIOUS
  <2>1. q \in S /\ q <= Max(S) BY <1>5, <1>6
  <2>2. Max(S) \in Nat BY <1>2, <1>5
  <2>3. q \in Nat OBVIOUS
  <2> QED BY <2>1, <2>2, <2>3
<1>9. Max(S) = 0 => \A q \in 1..r - 1 : ~Marked(q) BY <1>8
<1>10. Max(S) \in 0..r - 1 BY <1>2, <1>5
<1> HIDE DEF Marked
<1> QED BY <1>3, <1>7, <1>8, <1>9, <1>10

\* The times of a run's logs.
LEMMA LogTimes ==
    ASSUME HostData, NEW r
    PROVE  LogsOf(r) \in SUBSET Nat /\ \A t \in LogsOf(r) : t <= LastLogTime /\ t >= 1
BY HostAssumption DEF HostData, LogsOf

\* A process up alone that looks for a crash finds what its predecessor left.
LEMMA LookFindsIt ==
    ASSUME HostInv, ~overlapped, NEW r \in Runs, desktop_runs[r].at = "check"
    PROVE  Offered(r) = IF sentinel = 0 \/ Eligible = {} THEN 0 ELSE Max({l.time : l \in Eligible})
<1> DEFINE q == Predecessor(r)
<1>1. HostData /\ MarkedOK /\ AloneOK /\ SentinelOK /\ Alive(r) /\ ~Marked(r)
  BY DEF HostInv, HostAlone, Alive, Live, MarkedOK, Marked
<1>2. r \in Nat /\ Runs = 1..MaxRuns /\ MaxRuns \in Nat /\ 1..r - 1 \subseteq Runs
  BY HostAssumption DEF Runs
<1>3. /\ q \in 0..r - 1 /\ (q = 0 => \A p \in 1..r - 1 : ~Marked(p)) /\ (q # 0 => Marked(q))
      /\ \A p \in 1..r - 1 : p > q => ~Marked(p)
  BY <1>1, PredecessorIs
<1> HIDE DEF q
<1>4. \A p \in Runs : p > r => ~Marked(p)
  BY <1>1 DEF AloneOK, MarkedOK, Marked
<1>5. \A p \in Runs : p > q => ~Marked(p)
  <2> SUFFICES ASSUME NEW p \in Runs, p > q PROVE ~Marked(p) OBVIOUS
  <2>1. p \in 1..r - 1 \/ p = r \/ p > r BY <1>2
  <2> QED BY <1>1, <1>3, <1>4, <2>1
<1>6. CASE q = 0
  <2>1. \A p \in Runs : ~Marked(p) BY <1>2, <1>5, <1>6
  <2> QED BY <1>1, <1>6, <2>1 DEF SentinelOK, Offered, q
<1>7. CASE q # 0
  <2>1. LastMarked(q) /\ q \in Runs /\ q # 0 BY <1>2, <1>3, <1>5, <1>7 DEF LastMarked
  <2>2. CASE desktop_runs[q].marked = "stopped"
    BY <1>1, <2>1, <2>2 DEF SentinelOK, Offered, q
  <2>3. CASE desktop_runs[q].marked = "started"
    <3>1. sentinel # 0 /\ \A l \in crash_logs : l.time >= sentinel <=> l.writer = q
      BY <1>1, <2>1, <2>3 DEF SentinelOK
    <3>2. {l.time : l \in Eligible} = LogsOf(q) BY <3>1 DEF Eligible, LogsOf
    <3>3. Offered(r) = Max({0} \cup LogsOf(q)) BY <2>1, <2>3 DEF Offered, q
    <3>4. LogsOf(q) \in SUBSET Nat /\ \A t \in LogsOf(q) : t <= LastLogTime /\ t >= 1
      BY <1>1, LogTimes
    <3>5. CASE Eligible = {}
      <4>1. {0} \cup LogsOf(q) = {0} BY <3>2, <3>5
      <4>2. Max({0}) = 0 BY MaxIs
      <4> QED BY <3>3, <3>5, <4>1, <4>2
    <3>6. CASE Eligible # {}
      <4>1. LogsOf(q) # {} BY <3>2, <3>6
      <4> DEFINE m == Max(LogsOf(q))
      <4>2. m \in LogsOf(q) /\ \A t \in LogsOf(q) : t <= m BY <3>4, <4>1, HostAssumption, MaxExists
      <4> HIDE DEF m
      <4>3. m \in {0} \cup LogsOf(q) /\ \A t \in {0} \cup LogsOf(q) : t <= m BY <3>4, <4>2
      <4>4. Max({0} \cup LogsOf(q)) = m
        <5>1. {0} \cup LogsOf(q) \in SUBSET Nat BY <3>4
        <5> QED BY <4>3, <5>1, MaxIs
      <4> QED BY <3>1, <3>2, <3>3, <3>6, <4>4 DEF m
    <3> QED BY <3>5, <3>6
  <2> QED BY <1>1, <2>1, <2>2, <2>3 DEF HostData, RunRecord, Marked, LastMarked
<1> QED BY <1>6, <1>7

\* What a run is to offer depends on the earlier runs and their logs.
LEMMA OfferStays ==
    ASSUME HostData, NEW r \in Runs,
           \A q \in 1..r - 1 : desktop_runs'[q] = desktop_runs[q] /\ LogsOf(q)' = LogsOf(q)
    PROVE  Offered(r)' = Offered(r)
<1>1. r \in Nat BY HostAssumption DEF Runs
<1>2. PICK q \in 0..r - 1 : Predecessor(r) = q BY PredecessorIs
<1>3. Predecessor(r)' = q BY <1>2 DEF Predecessor
<1>4. q = 0 \/ q \in 1..r - 1 BY <1>1
<1>5. Offered(r) = IF q = 0 \/ desktop_runs[q].marked = "stopped" THEN 0 ELSE Max({0} \cup LogsOf(q))
  BY <1>2 DEF Offered
<1>6. Offered(r)' = IF q = 0 \/ desktop_runs'[q].marked = "stopped" THEN 0
                    ELSE Max({0} \cup LogsOf(q)')
  BY <1>3 DEF Offered
<1>7. CASE q = 0 BY <1>5, <1>6, <1>7
<1>8. CASE q \in 1..r - 1
  <2>1. desktop_runs'[q] = desktop_runs[q] /\ LogsOf(q)' = LogsOf(q) BY <1>8
  <2> QED BY <1>5, <1>6, <2>1
<1> QED BY <1>4, <1>7, <1>8

\* What a step of a run that is up does to its record.
RunStep(r, rec) ==
    /\ Alive(r) /\ rec \in RunRecord
    /\ desktop_runs' = [desktop_runs EXCEPT ![r] = rec]
    /\ rec.at \in Live \cup {"ended"}
    /\ rec.at \in {"check", "mark"} => rec.marked = "never"
    /\ rec.at \in Live \ {"check", "mark", "leave"} => rec.marked = "started"
    /\ rec.at = "leave" => rec.marked = "stopped"
    /\ Marked(r) => rec.marked # "never"
    /\ overlapped' = overlapped

LEMMA RunMoves ==
    ASSUME HostData, NEW r \in Runs, NEW rec, RunStep(r, rec)
    PROVE  /\ desktop_runs' \in [Runs -> RunRecord]
           /\ \A q \in Runs : desktop_runs'[q] = IF q = r THEN rec ELSE desktop_runs[q]
BY DEF HostData, RunStep

LEMMA OrderKept ==
    ASSUME HostInv, NEW r \in Runs, NEW rec, RunStep(r, rec)
    PROVE  MarkedOK' /\ StartOrderOK' /\ (AloneOK => AloneOK')
<1>1. \A q \in Runs : desktop_runs'[q] = IF q = r THEN rec ELSE desktop_runs[q]
  BY RunMoves DEF HostInv
<1>2. MarkedOK' BY <1>1 DEF HostInv, MarkedOK, RunStep, Live
<1>3. StartOrderOK' BY <1>1 DEF HostInv, StartOrderOK, RunStep, Live, Alive
<1>4. AloneOK => AloneOK' BY <1>1 DEF AloneOK, RunStep, Live, Alive
<1> QED BY <1>2, <1>3, <1>4

LEMMA MarksCounted ==
    /\ IsFiniteSet(Runs) /\ \A S \in SUBSET Runs : IsFiniteSet(S) /\ Cardinality(S) \in 0..MaxRuns
<1>1. IsFiniteSet(Runs) /\ Cardinality(Runs) = MaxRuns
  BY HostAssumption, FS_Interval DEF Runs
<1>2. \A S \in SUBSET Runs : IsFiniteSet(S) /\ Cardinality(S) <= MaxRuns BY <1>1, FS_Subset
<1>3. \A S \in SUBSET Runs : Cardinality(S) \in Nat BY <1>2, FS_CardinalityType
<1> QED BY <1>1, <1>2, <1>3, HostAssumption

\* Types and times stay, whatever a marked run logs or archives.
LEMMA DataKept ==
    ASSUME HostInv, NEW r \in Runs, NEW rec, RunStep(r, rec), Marked(r) \/ UNCHANGED crash_logs,
           pid_file' \in 0..MaxRuns, sentinel' \in {0, sentinel},
           \/ clock' = clock /\ crash_logs' \subseteq crash_logs
           \/ WriteLog(r)
    PROVE  HostData'
<1>1. /\ \A q \in Runs : desktop_runs'[q] = IF q = r THEN rec ELSE desktop_runs[q]
      /\ desktop_runs' \in [Runs -> RunRecord] /\ HostData
  BY RunMoves DEF HostInv
<1>2. \A q \in Runs : Marked(q) => Marked(q)' BY <1>1 DEF Marked, RunStep
<1>3. Cardinality(MarkedRuns) <= Cardinality(MarkedRuns')
      /\ Cardinality(MarkedRuns) \in Nat /\ Cardinality(MarkedRuns') \in Nat
  <2>1. MarkedRuns \subseteq MarkedRuns' BY <1>2 DEF MarkedRuns
  <2>2. MarkedRuns \in SUBSET Runs /\ MarkedRuns' \in SUBSET Runs BY DEF MarkedRuns, Runs
  <2>3. IsFiniteSet(MarkedRuns') /\ Cardinality(MarkedRuns) \in Nat /\ Cardinality(MarkedRuns') \in Nat
    BY <2>2, MarksCounted
  <2> QED BY <2>1, <2>3, FS_Subset
<1>4. /\ clock' \in Nat \ {0} /\ clock' >= clock /\ clock' <= LastLogTime + 1 + Cardinality(MarkedRuns')
      /\ \A l \in crash_logs' : l \in crash_logs \/ (l = [time |-> clock, writer |-> r] /\ clock' = clock + 1
                                                   /\ clock <= LastLogTime /\ Marked(r))
  <2>1. CASE WriteLog(r) BY <1>1, <1>3, <2>1, HostAssumption DEF WriteLog, HostData
  <2>2. CASE ~WriteLog(r) BY <1>1, <1>3, <2>2, HostAssumption DEF HostData
  <2> QED BY <2>1, <2>2
<1>5. sentinel' \in Nat /\ sentinel' < clock' BY <1>1, <1>4 DEF HostData
<1>6. crash_logs' \subseteq [time : 1..LastLogTime, writer : Runs]
  BY <1>1, <1>4, HostAssumption DEF HostData
<1>7. \A l \in crash_logs' : l.time < clock' /\ Marked(l.writer)'
  <2> SUFFICES ASSUME NEW l \in crash_logs' PROVE l.time < clock' /\ Marked(l.writer)' OBVIOUS
  <2>1. CASE l \in crash_logs
    <3>1. l.time < clock /\ Marked(l.writer) /\ l.time \in Nat /\ l.writer \in Runs /\ clock \in Nat
      BY <1>1, <2>1, HostAssumption DEF HostData
    <3> QED BY <1>2, <1>4, <3>1
  <2>2. CASE l = [time |-> clock, writer |-> r] /\ clock' = clock + 1 /\ Marked(r)
    BY <1>1, <1>2, <2>2 DEF HostData
  <2> QED BY <1>4, <2>1, <2>2
<1>8. overlapped' \in BOOLEAN BY <1>1 DEF HostData, RunStep
<1> QED BY <1>1, <1>4, <1>5, <1>6, <1>7, <1>8 DEF HostData

\* As long as nobody else is up: a run that leaves the sentinel alone or takes it away when it
\* stops, and offers what it should.
LEMMA AloneKept ==
    ASSUME HostInv, ~overlapped, NEW r \in Runs, NEW rec, RunStep(r, rec),
           Marked(r) \/ UNCHANGED crash_logs,
           \/ UNCHANGED sentinel /\ rec.marked = desktop_runs[r].marked
           \/ sentinel' = 0 /\ rec.marked = "stopped",
           \/ crash_logs' \subseteq crash_logs
           \/ WriteLog(r),
           rec.at \in {"mark", "bootstrap"} => rec.pending = Offered(r)'
    PROVE  HostAlone'
<1>1. /\ \A q \in Runs : desktop_runs'[q] = IF q = r THEN rec ELSE desktop_runs[q]
      /\ AloneOK /\ MarkedOK /\ SentinelOK /\ HostData /\ Alive(r)
      /\ desktop_runs' \in [Runs -> RunRecord]
  BY RunMoves DEF HostInv, HostAlone, RunStep
<1>2. AloneOK' BY <1>1, OrderKept
<1>3. \A q \in Runs : q > r => ~Marked(q) /\ ~Marked(q)'
  BY <1>1 DEF AloneOK, MarkedOK, Marked, Runs
<1>4. SentinelOK'
  <2>1. CASE rec.marked = "stopped" /\ sentinel' = 0
    <3>1. \A p \in Runs : LastMarked(p)' => p = r
      BY <1>1, <1>3, <2>1, HostAssumption DEF LastMarked, Marked, Runs
    <3> QED BY <1>1, <2>1, <3>1 DEF SentinelOK
  <2>2. CASE UNCHANGED sentinel /\ rec.marked = desktop_runs[r].marked
    <3>1. \A p \in Runs : desktop_runs'[p].marked = desktop_runs[p].marked /\ (Marked(p)' <=> Marked(p))
      BY <1>1, <2>2 DEF Marked
    <3>2. (\A p \in Runs : ~Marked(p)') => sentinel' = 0 BY <1>1, <2>2, <3>1 DEF SentinelOK
    <3>3. ASSUME NEW p \in Runs, LastMarked(p)', desktop_runs'[p].marked = "started"
          PROVE  \A l \in crash_logs' : l.time >= sentinel' <=> l.writer = p
      <4>1. LastMarked(p) /\ desktop_runs[p].marked = "started" BY <3>1, <3>3 DEF LastMarked, Runs
      <4>2. \A l \in crash_logs : l.time >= sentinel <=> l.writer = p BY <1>1, <4>1 DEF SentinelOK
      <4>3. CASE crash_logs' \subseteq crash_logs BY <2>2, <4>2, <4>3
      <4>4. CASE WriteLog(r) /\ Marked(r)
        <5>1. p = r BY <1>3, <4>1, <4>4, HostAssumption DEF LastMarked, Runs
        <5>2. clock >= sentinel BY <1>1 DEF HostData
        <5> QED BY <2>2, <4>2, <4>4, <5>1, <5>2 DEF WriteLog
      <4> QED BY <4>3, <4>4
    <3>4. ASSUME NEW p \in Runs, LastMarked(p)'
          PROVE  /\ desktop_runs'[p].marked = "stopped" => sentinel' = 0
                 /\ desktop_runs'[p].marked = "started" => sentinel' # 0
      <4>1. LastMarked(p) BY <3>1, <3>4 DEF LastMarked, Runs
      <4> QED BY <1>1, <2>2, <3>1, <4>1 DEF SentinelOK
    <3> QED BY <3>2, <3>3, <3>4 DEF SentinelOK
  <2> QED BY <2>1, <2>2
<1>5. OfferOK'
  <2> SUFFICES ASSUME NEW p \in Runs, desktop_runs'[p].at \in {"mark", "bootstrap"}
               PROVE  desktop_runs'[p].pending = Offered(p)'
    BY DEF OfferOK, Runs
  <2>1. p = r
    <3> SUFFICES ASSUME p # r PROVE FALSE OBVIOUS
    <3>1. desktop_runs[p].at \in {"mark", "bootstrap"} /\ Alive(p) BY <1>1 DEF Alive, Live
    <3>2. p > r \/ r > p BY HostAssumption DEF Runs
    <3> QED BY <1>1, <3>1, <3>2 DEF AloneOK, Alive, Live
  <2> QED BY <1>1, <2>1
<1> QED BY <1>2, <1>4, <1>5 DEF HostAlone

\* A step that leaves the sentinel alone or takes it away keeps the invariant.
LEMMA QuietStep ==
    ASSUME HostInv, NEW r \in Runs, NEW rec, RunStep(r, rec), Marked(r) \/ UNCHANGED crash_logs,
           \/ UNCHANGED sentinel /\ rec.marked = desktop_runs[r].marked
           \/ sentinel' = 0 /\ rec.marked = "stopped",
           pid_file' \in 0..MaxRuns,
           \/ clock' = clock /\ crash_logs' \subseteq crash_logs
           \/ WriteLog(r),
           rec.at \in {"mark", "bootstrap"} /\ ~overlapped => rec.pending = Offered(r)'
    PROVE  HostInv'
<1>1. MarkedOK' /\ StartOrderOK' BY OrderKept
<1>2. HostData' BY DataKept
<1>3. overlapped' = overlapped BY DEF RunStep
<1>4. ~overlapped => HostAlone' BY AloneKept
<1> QED BY <1>1, <1>2, <1>3, <1>4 DEF HostInv

\* The earlier runs and their logs stay, so the offer does.
LEMMA OwnLogs ==
    ASSUME HostInv, NEW r \in Runs, NEW rec, RunStep(r, rec), UNCHANGED crash_logs \/ WriteLog(r)
    PROVE  Offered(r)' = Offered(r)
<1>1. HostData /\ \A q \in Runs : desktop_runs'[q] = IF q = r THEN rec ELSE desktop_runs[q]
  BY RunMoves DEF HostInv
<1>2. r \in Nat /\ \A q \in 1..r - 1 : q \in Runs /\ q # r BY HostAssumption DEF Runs
<1>3. \A q \in 1..r - 1 : LogsOf(q)' = LogsOf(q)
  <2> SUFFICES ASSUME NEW q \in 1..r - 1 PROVE LogsOf(q)' = LogsOf(q) OBVIOUS
  <2>1. {k \in crash_logs' : k.writer = q} = {k \in crash_logs : k.writer = q}
    BY <1>2 DEF WriteLog
  <2> QED BY <2>1 DEF LogsOf
<1> QED BY <1>1, <1>2, <1>3, OfferStays

\* A run begins.
LEMMA StartStep ==
    ASSUME HostInv, NEW r \in Runs, StartRun(r)
    PROVE  HostInv'
<1> DEFINE to == IF \E q \in Runs : Listening(q) THEN "handed_off" ELSE "check"
<1>1. /\ HostData /\ MarkedOK /\ StartOrderOK
      /\ desktop_runs[r] = Unborn /\ desktop_runs[r].at = "unborn" /\ desktop_runs[r].marked = "never"
      /\ desktop_runs' = [desktop_runs EXCEPT ![r].at = to]
      /\ UNCHANGED <<clock, sentinel, crash_logs>> /\ pid_file' \in 0..MaxRuns
  <2>1. HostData /\ MarkedOK /\ StartOrderOK BY DEF HostInv
  <2>2. pid_file' = 0 \/ pid_file' = pid_file BY DEF StartRun
  <2>3. 0 \in 0..MaxRuns /\ pid_file \in 0..MaxRuns BY <2>1, HostAssumption DEF HostData
  <2>4. /\ desktop_runs[r] = Unborn /\ desktop_runs' = [desktop_runs EXCEPT ![r].at = to]
        /\ UNCHANGED <<clock, sentinel, crash_logs>>
    BY DEF StartRun, RunGoesTo
  <2> HIDE DEF to
  <2> QED BY <2>1, <2>2, <2>3, <2>4 DEF Unborn
<1>1a. \A q \in 1..r - 1 : desktop_runs[q].at # "unborn"
  <2> SUFFICES ASSUME NEW q \in 1..r - 1, desktop_runs[q].at = "unborn" PROVE FALSE OBVIOUS
  <2>1. q \in Runs /\ r >= q BY HostAssumption DEF Runs
  <2>2. desktop_runs[q] # Unborn BY DEF StartRun
  <2> QED BY <1>1, <2>1, <2>2 DEF MarkedOK
<1>2. /\ desktop_runs' \in [Runs -> RunRecord]
      /\ \A q \in Runs : q # r => desktop_runs'[q] = desktop_runs[q]
      /\ desktop_runs'[r].at = to /\ desktop_runs'[r].marked = "never"
      /\ \A q \in Runs : desktop_runs'[q].marked = desktop_runs[q].marked
  BY <1>1 DEF HostData, RunRecord, Live
<1>3. to \in {"handed_off", "check"} /\ (to = "check" => \A q \in Runs : ~Listening(q)) OBVIOUS
<1> HIDE DEF to
<1>4. MarkedOK' BY <1>1, <1>2, <1>3 DEF MarkedOK, Live
<1>5. StartOrderOK'
  <2> SUFFICES ASSUME NEW p \in Runs, desktop_runs'[p].at = "unborn", NEW q \in Runs, q >= p
               PROVE  desktop_runs'[q].at = "unborn"
    BY DEF StartOrderOK, Runs
  <2>1. p # r /\ desktop_runs[p].at = "unborn" BY <1>2, <1>3
  <2>2. p > r BY <1>1a, <2>1, HostAssumption DEF Runs
  <2>3. q # r /\ desktop_runs[q].at = "unborn"
    BY <1>1, <2>1, <2>2, HostAssumption DEF StartOrderOK, Runs
  <2> QED BY <1>2, <2>3
<1>6. HostData'
  <2>1. MarkedRuns' = MarkedRuns /\ \A q \in Runs : Marked(q)' <=> Marked(q)
    BY <1>2 DEF MarkedRuns, Marked, Runs
  <2>2. overlapped' \in BOOLEAN BY <1>1 DEF StartRun, HostData
  <2>3. \A l \in crash_logs : Marked(l.writer)' BY <1>1, <2>1 DEF HostData
  <2> QED BY <1>1, <1>2, <2>1, <2>2, <2>3 DEF HostData
<1>7. ASSUME ~overlapped' PROVE HostAlone'
  <2>1. /\ AloneOK /\ SentinelOK /\ OfferOK
        /\ (\E q \in Runs : Alive(q)) <=> (\E q \in Runs : Listening(q))
    BY <1>1, <1>7 DEF StartRun, HostInv, HostAlone, HostData
  <2>2. AloneOK'
    <3> SUFFICES ASSUME NEW p \in Runs, Alive(p)', NEW q \in Runs, q > p
                 PROVE  desktop_runs'[q].at \in {"unborn", "handed_off"}
      BY DEF AloneOK, Runs
    <3>1. CASE p = r
      <4>1. q # r /\ q >= r BY <3>1, HostAssumption DEF Runs
      <4> QED BY <1>1, <1>2, <4>1 DEF StartOrderOK
    <3>2. CASE p # r
      <4>1. Alive(p) BY <1>2, <3>2 DEF Alive
      <4>2. to = "handed_off" BY <1>3, <2>1, <4>1
      <4> QED BY <1>2, <2>1, <4>1, <4>2 DEF AloneOK
    <3> QED BY <3>1, <3>2
  <2>3. SentinelOK'
    <3>1. \A p \in Runs : (Marked(p)' <=> Marked(p)) /\ (LastMarked(p)' <=> LastMarked(p))
      BY <1>2 DEF LastMarked, Marked, Runs
    <3> QED BY <1>1, <1>2, <2>1, <3>1 DEF SentinelOK, Runs
  <2>4. OfferOK'
    <3> SUFFICES ASSUME NEW p \in Runs, desktop_runs'[p].at \in {"mark", "bootstrap"}
                 PROVE  desktop_runs'[p].pending = Offered(p)'
      BY DEF OfferOK, Runs
    <3>1. p # r BY <1>2, <1>3
    <3>2. desktop_runs'[p] = desktop_runs[p] /\ desktop_runs[p].pending = Offered(p)
      BY <1>2, <2>1, <3>1 DEF OfferOK
    <3>3. p \in Nat /\ r \in Nat BY HostAssumption DEF Runs
    <3>4. p < r
      <4> SUFFICES ASSUME p > r PROVE FALSE BY <3>1, <3>3
      <4>1. desktop_runs[p].at = "unborn" BY <1>1, <3>3 DEF StartOrderOK
      <4> QED BY <3>2, <4>1
    <3>5. \A q \in 1..p - 1 : desktop_runs'[q] = desktop_runs[q] /\ LogsOf(q)' = LogsOf(q)
      <4>1. \A q \in 1..p - 1 : q \in Runs /\ q # r BY <3>3, <3>4, HostAssumption DEF Runs
      <4> QED BY <1>1, <1>2, <4>1 DEF LogsOf
    <3> QED BY <1>1, <3>2, <3>5, OfferStays
  <2> QED BY <2>2, <2>3, <2>4 DEF HostAlone
<1> QED BY <1>4, <1>5, <1>6, <1>7 DEF HostInv

\* A run marks its start: its logs will be the young ones.
LEMMA MarkStep ==
    ASSUME HostInv, NEW r \in Runs, mark_app_started(r)
    PROVE  HostInv'
<1> DEFINE rec == [desktop_runs[r] EXCEPT !.at = "bootstrap", !.marked = "started"]
<1>1. /\ HostData /\ desktop_runs[r] \in RunRecord /\ desktop_runs[r].at = "mark" /\ ~Marked(r)
      /\ sentinel' = clock /\ clock' = clock + 1 /\ UNCHANGED <<pid_file, crash_logs, overlapped>>
      /\ Alive(r)
  BY DEF mark_app_started, HostInv, HostData, MarkedOK, Marked, Alive, Live
<1>2. desktop_runs' = [desktop_runs EXCEPT ![r] = rec] BY <1>1 DEF mark_app_started, HostData
<1>3. rec \in RunRecord /\ rec.at = "bootstrap" /\ rec.marked = "started"
      /\ rec.pending = desktop_runs[r].pending
  BY <1>1 DEF RunRecord, Live
<1> HIDE DEF rec
<1>4. RunStep(r, rec) BY <1>1, <1>2, <1>3 DEF RunStep, Live
<1>5. /\ \A q \in Runs : desktop_runs'[q] = IF q = r THEN rec ELSE desktop_runs[q]
      /\ desktop_runs' \in [Runs -> RunRecord]
  BY <1>1, <1>4, RunMoves
<1>6. MarkedOK' /\ StartOrderOK' /\ (AloneOK => AloneOK') BY <1>4, OrderKept
<1>7. \A q \in Runs : Marked(q)' <=> (q = r \/ Marked(q)) BY <1>3, <1>5 DEF Marked
<1>8. HostData'
  <2>1. MarkedRuns' = MarkedRuns \cup {r} /\ r \notin MarkedRuns BY <1>1, <1>7 DEF MarkedRuns, Runs
  <2>2. IsFiniteSet(MarkedRuns) /\ Cardinality(MarkedRuns) \in Nat
    <3>1. MarkedRuns \in SUBSET Runs BY DEF MarkedRuns
    <3> QED BY <3>1, MarksCounted
  <2>3. Cardinality(MarkedRuns') = Cardinality(MarkedRuns) + 1 BY <2>1, <2>2, FS_AddElement
  <2>4. \A l \in crash_logs : l.time < clock + 1 /\ Marked(l.writer)'
    <3> SUFFICES ASSUME NEW l \in crash_logs PROVE l.time < clock + 1 /\ Marked(l.writer)' OBVIOUS
    <3>1. l.time < clock /\ Marked(l.writer) /\ l.writer \in Runs /\ l.time \in Nat /\ clock \in Nat
      BY <1>1, HostAssumption DEF HostData
    <3> QED BY <1>7, <3>1
  <2> QED BY <1>1, <1>5, <2>2, <2>3, <2>4, HostAssumption DEF HostData
<1>9. ASSUME ~overlapped PROVE HostAlone'
  <2>1. AloneOK /\ OfferOK /\ MarkedOK BY <1>9 DEF HostInv, HostAlone
  <2>2. \A q \in Runs : q > r => ~Marked(q)' BY <1>7, <1>1, <2>1, HostAssumption DEF AloneOK, MarkedOK, Marked, Runs
  <2>3. SentinelOK'
    <3>1. \A p \in Runs : LastMarked(p)' => p = r
      BY <1>7, <2>2, HostAssumption DEF LastMarked, Runs
    <3>2. \A l \in crash_logs : l.time < clock /\ l.writer # r /\ l.time \in Nat /\ clock \in Nat
      BY <1>1, HostAssumption DEF HostData
    <3>3. \A l \in crash_logs' : l.time >= sentinel' <=> l.writer = r BY <1>1, <3>2
    <3>4. sentinel' # 0 BY <1>1 DEF HostData
    <3>5. desktop_runs'[r].marked = "started" BY <1>3, <1>5
    <3> QED BY <1>7, <3>1, <3>3, <3>4, <3>5 DEF SentinelOK
  <2>4. OfferOK'
    <3> SUFFICES ASSUME NEW p \in Runs, desktop_runs'[p].at \in {"mark", "bootstrap"}
                 PROVE  desktop_runs'[p].pending = Offered(p)'
      BY DEF OfferOK, Runs
    <3>1. p = r
      <4> SUFFICES ASSUME p # r PROVE FALSE OBVIOUS
      <4>1. desktop_runs[p].at \in {"mark", "bootstrap"} /\ Alive(p) BY <1>5 DEF Alive, Live
      <4>2. p > r \/ r > p BY HostAssumption DEF Runs
      <4> QED BY <1>1, <2>1, <4>1, <4>2 DEF AloneOK, Alive, Live
    <3>2. Offered(r)' = Offered(r) BY <1>1, <1>4, OwnLogs
    <3> QED BY <1>1, <1>3, <1>5, <2>1, <3>1, <3>2 DEF OfferOK
  <2> QED BY <1>6, <2>1, <2>3, <2>4 DEF HostAlone
<1> QED BY <1>1, <1>6, <1>8, <1>9 DEF HostInv

\* check_previous_crash finds what is to be offered.
LEMMA CheckStep ==
    ASSUME HostInv, NEW r \in Runs, check_previous_crash(r)
    PROVE  HostInv'
<1> DEFINE found == IF sentinel = 0 \/ Eligible = {} THEN 0 ELSE Max({l.time : l \in Eligible})
           rec == [desktop_runs[r] EXCEPT !.at = "mark", !.pending = found]
<1>1. /\ HostData /\ desktop_runs[r] \in RunRecord /\ desktop_runs[r].at = "check"
      /\ desktop_runs[r].marked = "never" /\ Alive(r)
      /\ UNCHANGED <<clock, sentinel, pid_file, crash_logs, overlapped>>
  BY DEF check_previous_crash, HostInv, HostData, MarkedOK, Alive, Live
<1>2. desktop_runs' = [desktop_runs EXCEPT ![r] = rec] BY <1>1 DEF check_previous_crash, HostData
<1>3. found \in Nat
  <2> DEFINE T == {l.time : l \in Eligible}
  <2>1. CASE Eligible = {} BY <2>1
  <2>2. CASE Eligible # {}
    <3>1. T \in SUBSET Nat /\ T # {} /\ \A t \in T : t <= LastLogTime
      BY <1>1, <2>2, HostAssumption DEF HostData, Eligible
    <3> HIDE DEF T
    <3>2. Max(T) \in Nat BY <3>1, HostAssumption, MaxExists
    <3> QED BY <3>2 DEF T
  <2> QED BY <2>1, <2>2
<1>4. ~overlapped => found = Offered(r) BY <1>1, LookFindsIt
<1> HIDE DEF found
<1>5. rec \in RunRecord /\ rec.at = "mark" /\ rec.marked = "never" /\ rec.pending = found
  BY <1>1, <1>3 DEF RunRecord, Live
<1> HIDE DEF rec
<1>6. RunStep(r, rec) BY <1>1, <1>2, <1>5 DEF RunStep, Live, Marked
<1>7. Offered(r)' = Offered(r) BY <1>1, <1>6, OwnLogs
<1> QED BY <1>1, <1>4, <1>5, <1>6, <1>7, QuietStep DEF HostData

\* A run goes to another place and does nothing else to its record.
LEMMA RunGoesOn ==
    ASSUME HostInv, NEW r \in Runs, Alive(r), NEW place, RunGoesTo(r, place), UNCHANGED overlapped,
           place \in Live \cup {"ended"}, place \notin {"mark", "bootstrap"},
           place = "check" => desktop_runs[r].marked = "never",
           place \in Live \ {"check", "leave"} => desktop_runs[r].marked = "started",
           place = "leave" => desktop_runs[r].marked = "stopped",
           Marked(r) \/ UNCHANGED crash_logs,
           UNCHANGED sentinel, pid_file' \in 0..MaxRuns,
           (clock' = clock /\ crash_logs' \subseteq crash_logs) \/ WriteLog(r)
    PROVE  HostInv'
<1> DEFINE rec == [desktop_runs[r] EXCEPT !.at = place]
<1>1. HostData /\ desktop_runs[r] \in RunRecord BY DEF HostInv, HostData
<1>2. desktop_runs' = [desktop_runs EXCEPT ![r] = rec] BY <1>1 DEF RunGoesTo, HostData
<1>3. rec \in RunRecord /\ rec.at = place /\ rec.marked = desktop_runs[r].marked
  BY <1>1 DEF RunRecord, Live
<1> HIDE DEF rec
<1>4. RunStep(r, rec) BY <1>2, <1>3 DEF RunStep, Live, Marked
<1> QED BY <1>3, <1>4, QuietStep

LEMMA HostStep == HostInv /\ [HostNext]_hostVars => HostInv'
<1> SUFFICES ASSUME HostInv, [HostNext]_hostVars PROVE HostInv' OBVIOUS
<1>0. HostData /\ MarkedOK BY DEF HostInv
<1>1. CASE UNCHANGED hostVars
  BY <1>1 DEF hostVars, HostInv, HostData, MarkedOK, StartOrderOK, HostAlone, AloneOK, SentinelOK, OfferOK,
     MarkedRuns, Marked, LastMarked, Alive, Offered, Predecessor, LogsOf
<1>2. ASSUME NEW r \in Runs,
             \/ StartRun(r) \/ check_previous_crash(r) \/ mark_app_started(r) \/ Bootstrap(r)
             \/ write_pid_file(r) \/ start_activation_listener(r) \/ ThreadRaises(r) \/ StartRaises(r)
             \/ archive_pending_crash(r) \/ RequestQuit(r) \/ remove_pid_file(r)
             \/ _shutdown_runtime(r) \/ mark_app_stopped(r) \/ LeaveRun(r) \/ Killed(r)
      PROVE HostInv'
  <2> DEFINE q == desktop_runs[r]
  <2>0. /\ q \in RunRecord /\ desktop_runs \in [Runs -> RunRecord] /\ pid_file \in 0..MaxRuns
        /\ q.at \in {"check", "mark"} => q.marked = "never"
        /\ q.at \in Live \ {"check", "mark", "leave"} => q.marked = "started"
        /\ q.at = "leave" => q.marked = "stopped"
        /\ 0 \in 0..MaxRuns /\ r \in 0..MaxRuns
    BY <1>0, HostAssumption DEF HostData, MarkedOK, Runs
  <2>1. CASE Bootstrap(r)
    <3>1. CASE RunGoesTo(r, "register") /\ UNCHANGED sentinel
      BY <2>0, <2>1, <3>1, RunGoesOn DEF Bootstrap, Alive, Live
    <3>2. CASE ~(RunGoesTo(r, "register") /\ UNCHANGED sentinel)
      <4> DEFINE rec == [q EXCEPT !.at = "ended", !.marked = "stopped"]
      <4>1. /\ desktop_runs' = [desktop_runs EXCEPT ![r] = rec] /\ sentinel' = 0
            /\ UNCHANGED <<clock, pid_file, crash_logs, overlapped>> /\ Alive(r)
        BY <2>0, <2>1, <3>2 DEF Bootstrap, Alive, Live
      <4>2. rec \in RunRecord /\ rec.at = "ended" /\ rec.marked = "stopped" BY <2>0 DEF RunRecord
      <4> HIDE DEF rec
      <4>3. RunStep(r, rec) BY <4>1, <4>2 DEF RunStep, Live
      <4> QED BY <2>0, <4>1, <4>2, <4>3, QuietStep
    <3> QED BY <3>1, <3>2
  <2>2. CASE write_pid_file(r)
    BY <2>0, <2>2, RunGoesOn DEF write_pid_file, Alive, Live
  <2>3. CASE start_activation_listener(r)
    <3>1. Alive(r) /\ q.marked = "started" /\ Marked(r) /\ UNCHANGED <<sentinel, pid_file, overlapped>>
      BY <2>0, <2>3 DEF start_activation_listener, Alive, Live, Marked
    <3>2. CASE RunGoesTo(r, "up") /\ UNCHANGED <<clock, crash_logs>>
      BY <2>0, <3>1, <3>2, RunGoesOn DEF Live
    <3>3. CASE WriteLog(r) /\ RunGoesTo(r, "ended")
      BY <2>0, <3>1, <3>3, RunGoesOn DEF Live
    <3> QED BY <2>3, <3>2, <3>3 DEF start_activation_listener
  <2>4. CASE ThreadRaises(r)
    <3>1. /\ q.at \in {"bootstrap", "register", "listen", "up", "quit_runtime"}
          /\ WriteLog(r) /\ UNCHANGED <<desktop_runs, sentinel, pid_file, overlapped>>
      BY <2>4 DEF ThreadRaises
    <3>2. desktop_runs' = [desktop_runs EXCEPT ![r] = q] BY <2>0, <3>1
    <3>3. RunStep(r, q) /\ Marked(r) BY <2>0, <3>1, <3>2 DEF RunStep, Alive, Live, Marked
    <3>4. Offered(r)' = Offered(r) BY <3>1, <3>3, OwnLogs
    <3>5. q.at \in {"mark", "bootstrap"} /\ ~overlapped => q.pending = Offered(r)'
      BY <3>4 DEF HostInv, HostAlone, OfferOK
    <3> HIDE DEF q
    <3> QED BY <2>0, <3>1, <3>3, <3>5, QuietStep DEF q
  <2>5. CASE StartRaises(r)
    BY <2>0, <2>5, RunGoesOn DEF StartRaises, Alive, Live, Marked
  <2>6. CASE archive_pending_crash(r)
    <3> DEFINE rec == [q EXCEPT !.pending = 0]
    <3>1. /\ q.at = "up" /\ crash_logs' \subseteq crash_logs /\ desktop_runs' = [desktop_runs EXCEPT ![r] = rec]
          /\ UNCHANGED <<clock, sentinel, pid_file, overlapped>>
      BY <2>0, <2>6 DEF archive_pending_crash
    <3>2. rec \in RunRecord /\ rec.at = "up" /\ rec.marked = "started" /\ q.marked = "started"
      BY <2>0, <3>1 DEF RunRecord, Live
    <3> HIDE DEF rec
    <3>3. RunStep(r, rec) /\ Marked(r) BY <3>1, <3>2 DEF RunStep, Alive, Live, Marked
    <3> QED BY <2>0, <3>1, <3>2, <3>3, QuietStep
  <2>7. CASE RequestQuit(r)
    BY <2>0, <2>7, RunGoesOn DEF RequestQuit, begin_quit, Alive, Live
  <2>8. CASE remove_pid_file(r)
    BY <2>0, <2>8, RunGoesOn DEF remove_pid_file, Alive, Live
  <2>9. CASE _shutdown_runtime(r)
    BY <2>0, <2>9, RunGoesOn DEF _shutdown_runtime, Alive, Live
  <2>10. CASE mark_app_stopped(r)
    <3> DEFINE rec == [q EXCEPT !.at = "leave", !.marked = "stopped"]
    <3>1. /\ desktop_runs' = [desktop_runs EXCEPT ![r] = rec] /\ sentinel' = 0
          /\ UNCHANGED <<clock, pid_file, crash_logs, overlapped>> /\ Alive(r)
      BY <2>0, <2>10 DEF mark_app_stopped, Alive, Live
    <3>2. rec \in RunRecord /\ rec.at = "leave" /\ rec.marked = "stopped" BY <2>0 DEF RunRecord, Live
    <3> HIDE DEF rec
    <3>3. RunStep(r, rec) BY <3>1, <3>2 DEF RunStep, Live
    <3> QED BY <2>0, <3>1, <3>2, <3>3, QuietStep
  <2>11. CASE LeaveRun(r)
    <3>1. Alive(r) /\ q.marked = "stopped" /\ Marked(r) /\ RunGoesTo(r, "ended")
          /\ UNCHANGED <<sentinel, pid_file, overlapped>>
          /\ (UNCHANGED <<clock, crash_logs>> \/ WriteLog(r))
      BY <2>0, <2>11 DEF LeaveRun, Alive, Live, Marked
    <3> QED BY <2>0, <3>1, RunGoesOn DEF Live
  <2>12. CASE Killed(r)
    BY <2>0, <2>12, RunGoesOn DEF Killed, Live
  <2> QED BY <1>2, <2>1, <2>2, <2>3, <2>4, <2>5, <2>6, <2>7, <2>8, <2>9, <2>10, <2>11, <2>12,
          StartStep, CheckStep, MarkStep
<1> QED BY <1>1, <1>2 DEF HostNext

LEMMA HostStart == HostInit => HostInv
<1> SUFFICES ASSUME HostInit PROVE HostInv OBVIOUS
<1>1. /\ \A r \in Runs : desktop_runs[r] = Unborn
      /\ desktop_runs = [r \in Runs |-> Unborn] /\ Unborn \in RunRecord
      /\ Unborn.at = "unborn" /\ Unborn.marked = "never"
  BY DEF HostInit, Unborn, RunRecord
<1>2. MarkedRuns = {} /\ Cardinality(MarkedRuns) = 0
  BY <1>1, FS_EmptySet DEF MarkedRuns, Marked
<1>3. HostData
  <2>1. desktop_runs \in [Runs -> RunRecord] BY <1>1
  <2>2. /\ clock = 1 /\ sentinel = 0 /\ pid_file = 0 /\ crash_logs = {} /\ overlapped = FALSE
    BY DEF HostInit
  <2>3. MaxRuns \in Nat /\ LastLogTime \in Nat BY HostAssumption
  <2>4. overlapped \in BOOLEAN BY <2>2
  <2>7. clock \in Nat \ {0} /\ sentinel \in Nat /\ sentinel < clock BY <2>2
  <2>8. pid_file \in 0..MaxRuns BY <2>2, <2>3
  <2>5. clock <= LastLogTime + 1 + Cardinality(MarkedRuns) BY <1>2, <2>2, <2>3
  <2>6. /\ crash_logs \subseteq [time : 1..LastLogTime, writer : Runs]
        /\ \A l \in crash_logs : l.time < clock /\ Marked(l.writer)
    BY <2>2
  <2> QED BY <2>1, <2>4, <2>5, <2>6, <2>7, <2>8 DEF HostData
<1>4. MarkedOK /\ StartOrderOK BY <1>1 DEF MarkedOK, StartOrderOK, Live
<1>5. HostAlone
  BY <1>1 DEF HostAlone, AloneOK, SentinelOK, OfferOK, Alive, Live, LastMarked, Marked, HostInit
<1> QED BY <1>3, <1>4, <1>5 DEF HostInv

\* Types of the desktop's processes, and the bounds on file times and logs.
THEOREM HostTypeCorrect == HostSpec => []HostTypeOK
<1>1. HostInv => HostTypeOK
  <2> SUFFICES ASSUME HostInv PROVE HostTypeOK OBVIOUS
  <2>1. MarkedRuns \in SUBSET Runs BY DEF MarkedRuns
  <2>2. Cardinality(MarkedRuns) \in 0..MaxRuns BY <2>1, MarksCounted
  <2> QED BY <2>2, HostAssumption DEF HostInv, HostData, RunRecord, HostTypeOK
<1> QED BY <1>1, HostStart, HostStep, PTL DEF HostSpec

\* Whatever run raised, was killed or handed over before, in any number of them, a process
\* that was never up beside another offers the last log of the last process that did not
\* quit, and nothing of those that did (crash_reporting.check_previous_crash,
\* mark_app_started, mark_app_stopped).
THEOREM CrashStaysOffered == HostSpec => []CrashIsOffered
<1>1. HostInv => CrashIsOffered
  BY DEF HostInv, HostAlone, OfferOK, Offered, CrashIsOffered
<1> QED BY <1>1, HostStart, HostStep, PTL DEF HostSpec

(***************************************************************************)
(* The statements of a migration step                                      *)
(***************************************************************************)

StatementKinds == {"read", "column", "table", "rows"}
Parents == {"memory_chunks", "messages", "job_tasks"}
IsRead(s) == s.kind = "read"
IsColumn(s) == s.kind = "column"
Blank == ""
NewTables ==
    {"sessions", "messages", "memory_chunks", "memory_fts", "consent_artifacts", "memory_drafts",
     "job_tasks", "message_execution_records", "dead_letter_queue", "extension_status",
     "personas", "plans", "plan_steps", "stream_events", "semantic_events",
     "desktop_session_state", "persona_migration_state", "snapshot_sources"}
NewColumns ==
    {"embedding_blob", "embedding_model", "embedding_dim", "content", "body", "memory_type",
     "status", "source", "created_at", "modified_at", "metadata", "meta_json", "emotion", "error",
     "message_status", "persona_snapshot_json", "persona_snapshot_schema",
     "persona_snapshot_sha256", "persona_snapshot_source", "switch_request_id",
     "derived_traits_json", "derived_levels_json", "derived_cutpoint_version"}
SomeName == NewTables \cup NewColumns
SomeStatement == [kind : StatementKinds, name : SomeName \cup {Blank}]

\* Only what is a column is looked up, in the columns read before in the same step; what
\* the step adds in between are other columns.
WellFormed(S) ==
    /\ S \in Seq(SomeStatement)
    /\ \A i \in 1..Len(S) :
         /\ IsRead(S[i]) <=> S[i].name = Blank
         /\ ~(IsRead(S[i]) /\ IsColumn(S[i]))
         /\ IsColumn(S[i]) => S[i].name \notin Parents /\ \E r \in 1..i - 1 : IsRead(S[r])
    /\ \A r, i, k \in 1..Len(S) :
         IsRead(S[r]) /\ IsColumn(S[k]) /\ r < i /\ i < k =>
            IsColumn(S[i]) /\ S[i].name # S[k].name

\* ... and a step does not end with the look.
StepShape(S) == WellFormed(S) /\ Len(S) > 0 /\ ~IsRead(S[Len(S)])

Naming(names) == names \in Seq(SomeName) /\ \A i \in 1..Len(names) : names[i] # Blank
Columned(names) ==
    /\ Naming(names) /\ Len(names) > 0
    /\ \A i \in 1..Len(names) : names[i] \notin Parents
    /\ \A i, j \in 1..Len(names) : i # j => names[i] # names[j]

\* One statement.
LEMMA StatementIs ==
    ASSUME NEW n \in SomeName, NEW k \in {"column", "table", "rows"}, n # Blank
    PROVE  /\ [kind |-> k, name |-> n] \in SomeStatement
           /\ ~IsRead([kind |-> k, name |-> n])
           /\ IsColumn([kind |-> k, name |-> n]) <=> k = "column"
           /\ [kind |-> k, name |-> n].name = n
  BY DEF SomeStatement, StatementKinds, IsRead, IsColumn

LEMMA LookIs ==
    /\ [kind |-> "read", name |-> ""] \in SomeStatement
    /\ IsRead([kind |-> "read", name |-> ""]) /\ ~IsColumn([kind |-> "read", name |-> ""])
    /\ [kind |-> "read", name |-> ""].name = Blank
<1>1. [kind |-> "read", name |-> ""] \in SomeStatement
  <2>1. "read" \in StatementKinds BY DEF StatementKinds
  <2> QED BY <2>1 DEF SomeStatement, Blank
<1>2. IsRead([kind |-> "read", name |-> ""]) BY DEF IsRead
<1>3. ~IsColumn([kind |-> "read", name |-> ""]) BY DEF IsColumn
<1>4. [kind |-> "read", name |-> ""].name = Blank BY DEF Blank
<1> QED BY <1>1, <1>2, <1>3, <1>4

\* Concatenations.
LEMMA Joined ==
    ASSUME NEW S \in Seq(SomeStatement), NEW T \in Seq(SomeStatement)
    PROVE  /\ S \o T \in Seq(SomeStatement) /\ Len(S \o T) = Len(S) + Len(T)
           /\ Len(S) \in Nat /\ Len(T) \in Nat
           /\ \A i \in 1..Len(S) : (S \o T)[i] = S[i]
           /\ \A i \in Len(S) + 1..Len(S) + Len(T) : (S \o T)[i] = T[i - Len(S)]
OBVIOUS

LEMMA TablesAre ==
    ASSUME NEW names, Naming(names)
    PROVE  /\ Tables(names) \in Seq(SomeStatement)
           /\ Len(names) \in Nat /\ Len(Tables(names)) = Len(names)
           /\ \A i \in 1..Len(names) : /\ ~IsRead(Tables(names)[i]) /\ ~IsColumn(Tables(names)[i])
                                       /\ Tables(names)[i].name = names[i]
<1>1. /\ Len(names) \in Nat
      /\ \A i \in 1..Len(names) : names[i] \in SomeName /\ names[i] # Blank
  BY DEF Naming
<1>2. \A i \in 1..Len(names) : /\ Tables(names)[i] \in SomeStatement
                               /\ ~IsRead(Tables(names)[i]) /\ ~IsColumn(Tables(names)[i])
                               /\ Tables(names)[i].name = names[i]
  <2> TAKE i \in 1..Len(names)
  <2>1. Tables(names)[i] = [kind |-> "table", name |-> names[i]] BY DEF Tables
  <2>2. "table" \in {"column", "table", "rows"} /\ "table" # "column" OBVIOUS
  <2> QED BY <1>1, <2>1, <2>2, StatementIs
<1>3. Tables(names) = [i \in 1..Len(names) |-> Tables(names)[i]] BY DEF Tables
<1>4. Tables(names) \in Seq(SomeStatement) /\ Len(Tables(names)) = Len(names)
  BY <1>1, <1>2, <1>3
<1> QED BY <1>1, <1>2, <1>4

LEMMA ColumnsAre ==
    ASSUME NEW names, Columned(names)
    PROVE  /\ Columns(names) \in Seq(SomeStatement)
           /\ Len(names) \in Nat /\ Len(Columns(names)) = Len(names) + 1
           /\ IsRead(Columns(names)[1]) /\ ~IsColumn(Columns(names)[1])
           /\ Columns(names)[1].name = Blank
           /\ \A i \in 2..Len(names) + 1 : /\ ~IsRead(Columns(names)[i])
                                           /\ IsColumn(Columns(names)[i])
                                           /\ Columns(names)[i].name = names[i - 1]
<1> DEFINE look == <<[kind |-> "read", name |-> ""]>>
           added == [i \in 1..Len(names) |-> [kind |-> "column", name |-> names[i]]]
<1>1. /\ Len(names) \in Nat
      /\ \A i \in 1..Len(names) : names[i] \in SomeName /\ names[i] # Blank
  BY DEF Columned, Naming
<1>2. \A i \in 1..Len(names) : /\ added[i] \in SomeStatement
                               /\ ~IsRead(added[i]) /\ IsColumn(added[i])
                               /\ added[i].name = names[i]
  <2> TAKE i \in 1..Len(names)
  <2>1. added[i] = [kind |-> "column", name |-> names[i]] OBVIOUS
  <2>2. "column" \in {"column", "table", "rows"} OBVIOUS
  <2> HIDE DEF added
  <2> QED BY <1>1, <2>1, <2>2, StatementIs
<1>3. added = [i \in 1..Len(names) |-> added[i]] OBVIOUS
<1>4. look \in Seq(SomeStatement) /\ Len(look) = 1 /\ look[1] = [kind |-> "read", name |-> ""]
  <2> DEFINE r == [kind |-> "read", name |-> ""]
  <2>1. r \in SomeStatement BY LookIs
  <2> HIDE DEF r
  <2>2. <<r>> \in Seq(SomeStatement) /\ Len(<<r>>) = 1 /\ <<r>>[1] = r BY <2>1
  <2> QED BY <2>2 DEF r
<1>5. Columns(names) = look \o added BY DEF Columns
<1> HIDE DEF look, added
<1>6. added \in Seq(SomeStatement) /\ Len(added) = Len(names)
  BY <1>1, <1>2, <1>3
<1>7. /\ look \o added \in Seq(SomeStatement) /\ Len(look \o added) = Len(names) + 1
      /\ (look \o added)[1] = look[1]
      /\ \A i \in 2..Len(names) + 1 : (look \o added)[i] = added[i - 1]
  <2>1. /\ look \o added \in Seq(SomeStatement) /\ Len(look \o added) = Len(look) + Len(added)
        /\ \A i \in 1..Len(look) : (look \o added)[i] = look[i]
        /\ \A i \in Len(look) + 1..Len(look) + Len(added) : (look \o added)[i] = added[i - Len(look)]
    BY <1>4, <1>6, Joined
  <2>2. Len(look) = 1 /\ Len(added) = Len(names) BY <1>4, <1>6
  <2> QED BY <1>1, <2>1, <2>2
<1>8. \A i \in 2..Len(names) + 1 : i - 1 \in 1..Len(names) BY <1>1
<1>9. IsRead(look[1]) /\ ~IsColumn(look[1]) /\ look[1].name = Blank BY <1>4, LookIs
<1>10. ASSUME NEW i \in 2..Len(names) + 1
       PROVE  /\ ~IsRead(Columns(names)[i]) /\ IsColumn(Columns(names)[i])
              /\ Columns(names)[i].name = names[i - 1]
  BY <1>2, <1>5, <1>7, <1>8
<1> QED BY <1>1, <1>5, <1>7, <1>9, <1>10

LEMMA TablesFormed ==
    ASSUME NEW names, Naming(names)
    PROVE  WellFormed(Tables(names))
<1> DEFINE S == Tables(names)
<1>1. /\ S \in Seq(SomeStatement) /\ Len(S) \in Nat
      /\ \A i \in 1..Len(S) : ~IsRead(S[i]) /\ ~IsColumn(S[i]) /\ S[i].name # Blank
  BY TablesAre DEF Naming
<1> HIDE DEF S
<1>2. WellFormed(S) BY <1>1 DEF WellFormed
<1> QED BY <1>2 DEF S

LEMMA ColumnsFormed ==
    ASSUME NEW names, Columned(names)
    PROVE  StepShape(Columns(names))
<1> DEFINE S == Columns(names)
           n == Len(names)
<1>1. /\ n \in Nat \ {0} /\ S \in Seq(SomeStatement) /\ Len(S) = n + 1
      /\ IsRead(S[1]) /\ ~IsColumn(S[1]) /\ S[1].name = Blank
      /\ \A i \in 2..n + 1 : ~IsRead(S[i]) /\ IsColumn(S[i]) /\ S[i].name = names[i - 1]
  BY ColumnsAre DEF Columned
<1>2. /\ \A i \in 1..n : names[i] # Blank /\ names[i] \notin Parents
      /\ \A i, j \in 1..n : i # j => names[i] # names[j]
  BY DEF Columned, Naming
<1> HIDE DEF S, n
<1>3. ASSUME NEW i \in 1..Len(S)
      PROVE  /\ IsRead(S[i]) <=> S[i].name = Blank
             /\ ~(IsRead(S[i]) /\ IsColumn(S[i]))
             /\ IsColumn(S[i]) => S[i].name \notin Parents /\ \E r \in 1..i - 1 : IsRead(S[r])
  <2>1. CASE i = 1 BY <2>1, <1>1
  <2>2. CASE i # 1
    <3>1. i \in 2..n + 1 /\ i - 1 \in 1..n /\ 1 \in 1..i - 1 BY <1>1, <2>2
    <3> QED BY <1>1, <1>2, <3>1
  <2> QED BY <2>1, <2>2
<1>4. ASSUME NEW r \in 1..Len(S), NEW i \in 1..Len(S), NEW k \in 1..Len(S),
             IsRead(S[r]), IsColumn(S[k]), r < i, i < k
      PROVE  IsColumn(S[i]) /\ S[i].name # S[k].name
  <2>1. i \in 2..n + 1 /\ k \in 2..n + 1 BY <1>1, <1>4
  <2>2. i - 1 \in 1..n /\ k - 1 \in 1..n /\ i - 1 # k - 1 BY <1>1, <1>4
  <2>3. S[i].name = names[i - 1] /\ S[k].name = names[k - 1] /\ IsColumn(S[i])
    BY <1>1, <2>1
  <2> QED BY <1>2, <2>2, <2>3
<1>5. Len(S) > 0 /\ ~IsRead(S[Len(S)])
  <2>1. n + 1 \in 2..n + 1 BY <1>1
  <2> QED BY <1>1, <2>1
<1>6. WellFormed(S) BY <1>1, <1>3, <1>4 DEF WellFormed
<1> QED BY <1>5, <1>6 DEF StepShape, S

\* A step may begin with tables, ...
LEMMA TablesFirst ==
    ASSUME NEW names, Naming(names), NEW T, StepShape(T)
    PROVE  StepShape(Tables(names) \o T)
<1> DEFINE S == Tables(names)
           m == Len(S)
           U == S \o T
<1>1. /\ S \in Seq(SomeStatement) /\ T \in Seq(SomeStatement) /\ Len(T) > 0
      /\ \A i \in 1..m : ~IsRead(S[i]) /\ ~IsColumn(S[i]) /\ S[i].name # Blank
  BY TablesAre DEF StepShape, WellFormed, Naming
<1>2. /\ U \in Seq(SomeStatement) /\ Len(U) = m + Len(T) /\ m \in Nat /\ Len(T) \in Nat
      /\ \A i \in 1..m : U[i] = S[i]
      /\ \A i \in m + 1..m + Len(T) : U[i] = T[i - m]
  BY <1>1, Joined
<1> HIDE DEF S, m, U
<1>3. \A i \in 1..m : ~IsRead(U[i]) /\ ~IsColumn(U[i]) /\ U[i].name # Blank
  BY <1>1, <1>2
<1>4. \A i \in m + 1..Len(U) : i - m \in 1..Len(T) /\ U[i] = T[i - m]
  BY <1>2
<1>5. ASSUME NEW i \in 1..Len(U)
      PROVE  /\ IsRead(U[i]) <=> U[i].name = Blank
             /\ ~(IsRead(U[i]) /\ IsColumn(U[i]))
             /\ IsColumn(U[i]) => U[i].name \notin Parents /\ \E r \in 1..i - 1 : IsRead(U[r])
  <2>1. CASE i <= m
    <3>1. i \in 1..m BY <1>2, <2>1
    <3> QED BY <1>3, <3>1
  <2>2. CASE ~(i <= m)
    <3>1. i \in m + 1..Len(U) BY <1>2, <2>2
    <3>2. i - m \in 1..Len(T) /\ U[i] = T[i - m] BY <1>4, <3>1
    <3>3. IsColumn(U[i]) => \E r \in 1..i - 1 : IsRead(U[r])
      <4> SUFFICES ASSUME IsColumn(T[i - m]) PROVE \E r \in 1..i - 1 : IsRead(U[r])
        BY <3>2
      <4>1. PICK r \in 1..i - m - 1 : IsRead(T[r]) BY <3>2 DEF StepShape, WellFormed
      <4>2. r + m \in m + 1..Len(U) /\ r + m \in 1..i - 1 /\ r + m - m = r BY <1>2, <4>1, <3>2
      <4>3. ASSUME NEW q \in m + 1..Len(U), q = r + m PROVE U[q] = T[r]
        <5>1. q - m = r BY <1>2, <4>1, <4>3
        <5> QED BY <1>4, <5>1
      <4>4. U[r + m] = T[r] BY <4>2, <4>3
      <4> QED BY <4>1, <4>2, <4>4
    <3> QED BY <3>2, <3>3 DEF StepShape, WellFormed
  <2> QED BY <2>1, <2>2
<1>6. ASSUME NEW r \in 1..Len(U), NEW i \in 1..Len(U), NEW k \in 1..Len(U),
             IsRead(U[r]), IsColumn(U[k]), r < i, i < k
      PROVE  IsColumn(U[i]) /\ U[i].name # U[k].name
  <2>1. ~(r <= m) BY <1>2, <1>3, <1>6
  <2>2. r \in m + 1..Len(U) /\ i \in m + 1..Len(U) /\ k \in m + 1..Len(U)
    BY <1>2, <1>6, <2>1
  <2>3. /\ r - m \in 1..Len(T) /\ i - m \in 1..Len(T) /\ k - m \in 1..Len(T)
        /\ r - m < i - m /\ i - m < k - m
    BY <1>2, <1>6, <2>2
  <2>4. U[r] = T[r - m] /\ U[i] = T[i - m] /\ U[k] = T[k - m] BY <1>4, <2>2
  <2> QED BY <1>6, <2>3, <2>4 DEF StepShape, WellFormed
<1>7. Len(U) > 0 /\ ~IsRead(U[Len(U)])
  <2>1. Len(U) \in m + 1..Len(U) /\ Len(U) - m = Len(T) BY <1>1, <1>2
  <2>2. U[Len(U)] = T[Len(T)] BY <1>4, <2>1
  <2> QED BY <1>1, <1>2, <2>2 DEF StepShape
<1>8. WellFormed(U) BY <1>2, <1>5, <1>6 DEF WellFormed
<1> QED BY <1>7, <1>8 DEF StepShape, U, S

\* ... and end with some.
LEMMA TablesLast ==
    ASSUME NEW S, StepShape(S), NEW names, Naming(names), Len(names) > 0
    PROVE  StepShape(S \o Tables(names))
<1> DEFINE T == Tables(names)
           m == Len(S)
           U == S \o T
<1>1. /\ S \in Seq(SomeStatement) /\ T \in Seq(SomeStatement) /\ Len(T) > 0
      /\ \A i \in 1..Len(T) : ~IsRead(T[i]) /\ ~IsColumn(T[i]) /\ T[i].name # Blank
  BY TablesAre DEF StepShape, WellFormed, Naming
<1>2. /\ U \in Seq(SomeStatement) /\ Len(U) = m + Len(T) /\ m \in Nat /\ Len(T) \in Nat
      /\ \A i \in 1..m : U[i] = S[i]
      /\ \A i \in m + 1..m + Len(T) : U[i] = T[i - m]
  BY <1>1, Joined
<1> HIDE DEF T, U
<1>3. \A i \in m + 1..Len(U) : ~IsRead(U[i]) /\ ~IsColumn(U[i]) /\ U[i].name # Blank
  <2> TAKE i \in m + 1..Len(U)
  <2>1. i - m \in 1..Len(T) /\ U[i] = T[i - m] BY <1>2
  <2> QED BY <1>1, <2>1
<1>5. ASSUME NEW i \in 1..Len(U)
      PROVE  /\ IsRead(U[i]) <=> U[i].name = Blank
             /\ ~(IsRead(U[i]) /\ IsColumn(U[i]))
             /\ IsColumn(U[i]) => U[i].name \notin Parents /\ \E r \in 1..i - 1 : IsRead(U[r])
  <2>1. CASE i <= m
    <3>1. i \in 1..m /\ U[i] = S[i] BY <1>2, <2>1
    <3>2. IsColumn(U[i]) => \E r \in 1..i - 1 : IsRead(U[r])
      <4> SUFFICES ASSUME IsColumn(S[i]) PROVE \E r \in 1..i - 1 : IsRead(U[r])
        BY <3>1
      <4>1. PICK r \in 1..i - 1 : IsRead(S[r]) BY <3>1 DEF StepShape, WellFormed
      <4>2. r \in 1..m BY <1>2, <3>1, <4>1
      <4> QED BY <1>2, <4>1, <4>2
    <3> QED BY <3>1, <3>2 DEF StepShape, WellFormed
  <2>2. CASE ~(i <= m)
    <3>1. i \in m + 1..Len(U) BY <1>2, <2>2
    <3> QED BY <1>3, <3>1
  <2> QED BY <2>1, <2>2
<1>6. ASSUME NEW r \in 1..Len(U), NEW i \in 1..Len(U), NEW k \in 1..Len(U),
             IsRead(U[r]), IsColumn(U[k]), r < i, i < k
      PROVE  IsColumn(U[i]) /\ U[i].name # U[k].name
  <2>1. k <= m
    <3>1. k \in m + 1..Len(U) \/ k <= m BY <1>2
    <3> QED BY <1>3, <1>6, <3>1
  <2>2. r \in 1..m /\ i \in 1..m /\ k \in 1..m BY <1>2, <1>6, <2>1
  <2>3. U[r] = S[r] /\ U[i] = S[i] /\ U[k] = S[k] BY <1>2, <2>2
  <2> QED BY <1>6, <2>2, <2>3 DEF StepShape, WellFormed
<1>7. Len(U) > 0 /\ ~IsRead(U[Len(U)])
  <2>1. Len(U) \in m + 1..Len(U) BY <1>1, <1>2
  <2> QED BY <1>1, <1>2, <1>3, <2>1
<1>8. WellFormed(U) BY <1>2, <1>5, <1>6 DEF WellFormed
<1> QED BY <1>7, <1>8 DEF StepShape, U, T

LEMMA OnlyTables ==
    ASSUME NEW names, Naming(names), Len(names) > 0
    PROVE  StepShape(Tables(names))
<1>1. Len(Tables(names)) = Len(names) /\ Len(names) \in Nat BY TablesAre
<1>2. ~IsRead(Tables(names)[Len(names)])
  <2>1. Len(names) \in 1..Len(names) BY <1>1
  <2> QED BY <2>1, TablesAre
<1> QED BY <1>1, <1>2, TablesFormed DEF StepShape

LEMMA Tabled == NewTables \subseteq SomeName \ {Blank}
  BY DEF SomeName, NewTables, Blank

LEMMA ColumnsApart == NewColumns \subseteq SomeName \ {Blank} /\ NewColumns \cap Parents = {}
  BY DEF SomeName, NewColumns, Blank, Parents

\* Lists of names, by their length.
LEMMA OneTables ==
    ASSUME NEW a \in NewTables
    PROVE  Naming(<<a>>) /\ Len(<<a>>) > 0
  BY Tabled DEF Naming

LEMMA TwoTables ==
    ASSUME NEW a \in NewTables, NEW b \in NewTables
    PROVE  Naming(<<a, b>>) /\ Len(<<a, b>>) > 0
  BY Tabled DEF Naming

LEMMA ThreeTables ==
    ASSUME NEW a \in NewTables, NEW b \in NewTables, NEW c \in NewTables
    PROVE  Naming(<<a, b, c>>) /\ Len(<<a, b, c>>) > 0
  BY Tabled DEF Naming

LEMMA FiveTables ==
    ASSUME NEW a \in NewTables, NEW b \in NewTables, NEW c \in NewTables, NEW d \in NewTables, NEW e \in NewTables
    PROVE  Naming(<<a, b, c, d, e>>) /\ Len(<<a, b, c, d, e>>) > 0
  BY Tabled DEF Naming

LEMMA OneColumns ==
    ASSUME NEW a \in NewColumns
    PROVE  Columned(<<a>>)
<1> DEFINE n == <<a>>
<1>1. n \in Seq(NewColumns) /\ Len(n) = 1 OBVIOUS
<1>2. \A i, j \in 1..1 : i # j => n[i] # n[j] OBVIOUS
<1>3. \A i \in 1..1 : n[i] \in NewColumns OBVIOUS
<1> HIDE DEF n
<1>4. n \in Seq(SomeName) BY <1>1, ColumnsApart
<1>5. Naming(n) BY <1>1, <1>3, <1>4, ColumnsApart DEF Naming
<1> QED BY <1>1, <1>2, <1>3, <1>5, ColumnsApart DEF Columned, n

LEMMA ThreeColumns ==
    ASSUME NEW a \in NewColumns, NEW b \in NewColumns, NEW c \in NewColumns,
           a # b, a # c, b # c
    PROVE  Columned(<<a, b, c>>)
<1> DEFINE n == <<a, b, c>>
<1>1. n \in Seq(NewColumns) /\ Len(n) = 3 OBVIOUS
<1>2. \A i, j \in 1..3 : i # j => n[i] # n[j] OBVIOUS
<1>3. \A i \in 1..3 : n[i] \in NewColumns OBVIOUS
<1> HIDE DEF n
<1>4. n \in Seq(SomeName) BY <1>1, ColumnsApart
<1>5. Naming(n) BY <1>1, <1>3, <1>4, ColumnsApart DEF Naming
<1> QED BY <1>1, <1>2, <1>3, <1>5, ColumnsApart DEF Columned, n

LEMMA FiveColumns ==
    ASSUME NEW a \in NewColumns, NEW b \in NewColumns, NEW c \in NewColumns, NEW d \in NewColumns, NEW e \in NewColumns,
           a # b, a # c, a # d, a # e, b # c, b # d, b # e, c # d, c # e, d # e
    PROVE  Columned(<<a, b, c, d, e>>)
<1> DEFINE n == <<a, b, c, d, e>>
<1>1. n \in Seq(NewColumns) /\ Len(n) = 5 OBVIOUS
<1>2. \A i, j \in 1..5 : i # j => n[i] # n[j] OBVIOUS
<1>3. \A i \in 1..5 : n[i] \in NewColumns OBVIOUS
<1> HIDE DEF n
<1>4. n \in Seq(SomeName) BY <1>1, ColumnsApart
<1>5. Naming(n) BY <1>1, <1>3, <1>4, ColumnsApart DEF Naming
<1> QED BY <1>1, <1>2, <1>3, <1>5, ColumnsApart DEF Columned, n

LEMMA TableNames ==
    /\ Naming(<<"sessions", "messages", "memory_chunks", "memory_fts", "consent_artifacts">>) /\ Len(<<"sessions", "messages", "memory_chunks", "memory_fts", "consent_artifacts">>) > 0
    /\ Naming(<<"memory_drafts">>) /\ Len(<<"memory_drafts">>) > 0
    /\ Naming(<<"job_tasks", "message_execution_records", "dead_letter_queue">>) /\ Len(<<"job_tasks", "message_execution_records", "dead_letter_queue">>) > 0
    /\ Naming(<<"extension_status">>) /\ Len(<<"extension_status">>) > 0
    /\ Naming(<<"personas">>) /\ Len(<<"personas">>) > 0
    /\ Naming(<<"plans", "plan_steps">>) /\ Len(<<"plans", "plan_steps">>) > 0
    /\ Naming(<<"stream_events">>) /\ Len(<<"stream_events">>) > 0
    /\ Naming(<<"semantic_events">>) /\ Len(<<"semantic_events">>) > 0
    /\ Naming(<<"desktop_session_state">>) /\ Len(<<"desktop_session_state">>) > 0
    /\ Naming(<<"persona_migration_state">>) /\ Len(<<"persona_migration_state">>) > 0
<1>1. Naming(<<"sessions", "messages", "memory_chunks", "memory_fts", "consent_artifacts">>) /\ Len(<<"sessions", "messages", "memory_chunks", "memory_fts", "consent_artifacts">>) > 0
  <2>1. "sessions" \in NewTables /\ "messages" \in NewTables /\ "memory_chunks" \in NewTables /\ "memory_fts" \in NewTables /\ "consent_artifacts" \in NewTables BY DEF NewTables
  <2> QED BY <2>1, FiveTables
<1>2. Naming(<<"memory_drafts">>) /\ Len(<<"memory_drafts">>) > 0
  <2>1. "memory_drafts" \in NewTables BY DEF NewTables
  <2> QED BY <2>1, OneTables
<1>3. Naming(<<"job_tasks", "message_execution_records", "dead_letter_queue">>) /\ Len(<<"job_tasks", "message_execution_records", "dead_letter_queue">>) > 0
  <2>1. "job_tasks" \in NewTables /\ "message_execution_records" \in NewTables /\ "dead_letter_queue" \in NewTables BY DEF NewTables
  <2> QED BY <2>1, ThreeTables
<1>4. Naming(<<"extension_status">>) /\ Len(<<"extension_status">>) > 0
  <2>1. "extension_status" \in NewTables BY DEF NewTables
  <2> QED BY <2>1, OneTables
<1>5. Naming(<<"personas">>) /\ Len(<<"personas">>) > 0
  <2>1. "personas" \in NewTables BY DEF NewTables
  <2> QED BY <2>1, OneTables
<1>6. Naming(<<"plans", "plan_steps">>) /\ Len(<<"plans", "plan_steps">>) > 0
  <2>1. "plans" \in NewTables /\ "plan_steps" \in NewTables BY DEF NewTables
  <2> QED BY <2>1, TwoTables
<1>7. Naming(<<"stream_events">>) /\ Len(<<"stream_events">>) > 0
  <2>1. "stream_events" \in NewTables BY DEF NewTables
  <2> QED BY <2>1, OneTables
<1>8. Naming(<<"semantic_events">>) /\ Len(<<"semantic_events">>) > 0
  <2>1. "semantic_events" \in NewTables BY DEF NewTables
  <2> QED BY <2>1, OneTables
<1>9. Naming(<<"desktop_session_state">>) /\ Len(<<"desktop_session_state">>) > 0
  <2>1. "desktop_session_state" \in NewTables BY DEF NewTables
  <2> QED BY <2>1, OneTables
<1>10. Naming(<<"persona_migration_state">>) /\ Len(<<"persona_migration_state">>) > 0
  <2>1. "persona_migration_state" \in NewTables BY DEF NewTables
  <2> QED BY <2>1, OneTables
<1> QED BY <1>1, <1>2, <1>3, <1>4, <1>5, <1>6, <1>7, <1>8, <1>9, <1>10

LEMMA ColumnNames ==
    /\ Columned(<<"embedding_blob">>)
    /\ Columned(<<"embedding_blob", "embedding_model", "embedding_dim">>)
    /\ Columned(<<"emotion">>)
    /\ Columned(<<"error">>)
    /\ Columned(<<"message_status">>)
    /\ Columned(<<"derived_traits_json", "derived_levels_json", "derived_cutpoint_version">>)
    /\ Columned(<<"persona_snapshot_json", "persona_snapshot_schema", "persona_snapshot_sha256", "persona_snapshot_source", "switch_request_id">>)
<1>1. Columned(<<"embedding_blob">>)
  <2>1. "embedding_blob" \in NewColumns BY DEF NewColumns
  <2> QED BY <2>1, OneColumns
<1>2. Columned(<<"embedding_blob", "embedding_model", "embedding_dim">>)
  <2>1. "embedding_blob" \in NewColumns /\ "embedding_model" \in NewColumns /\ "embedding_dim" \in NewColumns BY DEF NewColumns
  <2> QED BY <2>1, ThreeColumns
<1>3. Columned(<<"emotion">>)
  <2>1. "emotion" \in NewColumns BY DEF NewColumns
  <2> QED BY <2>1, OneColumns
<1>4. Columned(<<"error">>)
  <2>1. "error" \in NewColumns BY DEF NewColumns
  <2> QED BY <2>1, OneColumns
<1>5. Columned(<<"message_status">>)
  <2>1. "message_status" \in NewColumns BY DEF NewColumns
  <2> QED BY <2>1, OneColumns
<1>6. Columned(<<"derived_traits_json", "derived_levels_json", "derived_cutpoint_version">>)
  <2>1. "derived_traits_json" \in NewColumns /\ "derived_levels_json" \in NewColumns /\ "derived_cutpoint_version" \in NewColumns BY DEF NewColumns
  <2> QED BY <2>1, ThreeColumns
<1>7. Columned(<<"persona_snapshot_json", "persona_snapshot_schema", "persona_snapshot_sha256", "persona_snapshot_source", "switch_request_id">>)
  <2>1. "persona_snapshot_json" \in NewColumns /\ "persona_snapshot_schema" \in NewColumns /\ "persona_snapshot_sha256" \in NewColumns /\ "persona_snapshot_source" \in NewColumns /\ "switch_request_id" \in NewColumns BY DEF NewColumns
  <2> QED BY <2>1, FiveColumns
<1> QED BY <1>1, <1>2, <1>3, <1>4, <1>5, <1>6, <1>7

LEMMA ChunkNames == Columned(ChunkColumns)
<1>1. ChunkColumns \in Seq(NewColumns) /\ Len(ChunkColumns) = 9
  BY DEF ChunkColumns, NewColumns
<1>2. \A i, j \in 1..9 : i # j => ChunkColumns[i] # ChunkColumns[j] BY DEF ChunkColumns
<1>3. \A i \in 1..9 : ChunkColumns[i] \in NewColumns BY DEF ChunkColumns, NewColumns
<1>4. ChunkColumns \in Seq(SomeName) BY <1>1, ColumnsApart
<1>5. Naming(ChunkColumns) BY <1>1, <1>3, <1>4, ColumnsApart DEF Naming
<1> QED BY <1>1, <1>2, <1>3, <1>5, ColumnsApart DEF Columned

LEMMA RowsStep == StepShape(init_v14)
<1> DEFINE r == [kind |-> "rows", name |-> "snapshot_sources"]
<1>1. r \in SomeStatement /\ ~IsRead(r) /\ ~IsColumn(r) /\ r.name # Blank
  <2>1. "rows" \in {"column", "table", "rows"} /\ "rows" # "column" OBVIOUS
  <2>2. "snapshot_sources" \in SomeName /\ "snapshot_sources" # Blank
    BY DEF Blank, SomeName, NewTables
  <2> QED BY <2>1, <2>2, StatementIs
<1>2. init_v14 = <<r>> BY DEF init_v14
<1> HIDE DEF r
<1>3. <<r>> \in Seq(SomeStatement) /\ Len(<<r>>) = 1 /\ <<r>>[1] = r BY <1>1
<1>4. WellFormed(<<r>>) BY <1>1, <1>3 DEF WellFormed
<1> QED BY <1>1, <1>2, <1>3, <1>4 DEF StepShape

LEMMA EveryStep ==
    /\ StepShape(init_v1) /\ StepShape(init_v2) /\ StepShape(init_v3) /\ StepShape(init_v4)
    /\ StepShape(init_v5) /\ StepShape(init_v6) /\ StepShape(init_v7) /\ StepShape(init_v8)
    /\ StepShape(init_v9) /\ StepShape(init_v10) /\ StepShape(init_v11) /\ StepShape(init_v12)
    /\ StepShape(init_v13) /\ StepShape(init_v14) /\ StepShape(init_v15)
<1>1. StepShape(init_v1) BY TableNames, OnlyTables DEF init_v1
<1>2. StepShape(init_v2) BY TableNames, OnlyTables DEF init_v2
<1>3. StepShape(init_v3) BY ColumnNames, ColumnsFormed DEF init_v3
<1>4. StepShape(init_v4) BY ChunkNames, ColumnsFormed DEF init_v4
<1>5. StepShape(init_v5) BY ColumnNames, ColumnsFormed DEF init_v5
<1>6. StepShape(init_v6) BY ColumnNames, ColumnsFormed DEF init_v6
<1>7. StepShape(init_v7) BY TableNames, ColumnNames, ColumnsFormed, TablesFirst DEF init_v7
<1>8. StepShape(init_v8) BY TableNames, OnlyTables DEF init_v8
<1>9. StepShape(init_v9) BY TableNames, OnlyTables DEF init_v9
<1>10. StepShape(init_v10) BY TableNames, OnlyTables DEF init_v10
<1>11. StepShape(init_v11) BY TableNames, ColumnNames, ColumnsFormed, TablesLast DEF init_v11
<1>12. StepShape(init_v12) BY TableNames, OnlyTables DEF init_v12
<1>13. StepShape(init_v13) BY TableNames, ColumnNames, ColumnsFormed, TablesLast DEF init_v13
<1>15. StepShape(init_v15)
  <2> DEFINE c == Columns(<<"derived_traits_json", "derived_levels_json",
                            "derived_cutpoint_version">>)
             p == Tables(<<"personas">>)
             t == Tables(<<"persona_migration_state">>)
  <2>1. StepShape(c) BY ColumnNames, ColumnsFormed
  <2>2. StepShape(p \o c) BY <2>1, TableNames, TablesFirst
  <2>3. StepShape((p \o c) \o t) BY <2>2, TableNames, TablesLast
  <2>4. init_v15 = (p \o c) \o t \/ init_v15 = p \o (c \o t) BY DEF init_v15, init_v9
  <2> QED BY <2>3, <2>4 DEF init_v15, init_v9
<1> QED BY <1>1, <1>2, <1>3, <1>4, <1>5, <1>6, <1>7, <1>8, <1>9, <1>10, <1>11, <1>12, <1>13,
           <1>15, RowsStep

LEMMA StepShapes == \A v \in 1..SCHEMA_VERSION : StepShape(Statements[v])
<1>1. SUFFICES ASSUME NEW v \in 1..15 PROVE StepShape(Statements[v])
  BY DEF SCHEMA_VERSION
<1>2. \/ v = 1 \/ v = 2 \/ v = 3 \/ v = 4 \/ v = 5 \/ v = 6 \/ v = 7 \/ v = 8
      \/ v = 9 \/ v = 10 \/ v = 11 \/ v = 12 \/ v = 13 \/ v = 14 \/ v = 15
  OBVIOUS
<1>3. \/ Statements[v] = init_v1 \/ Statements[v] = init_v2 \/ Statements[v] = init_v3
      \/ Statements[v] = init_v4 \/ Statements[v] = init_v5 \/ Statements[v] = init_v6
      \/ Statements[v] = init_v7 \/ Statements[v] = init_v8 \/ Statements[v] = init_v9
      \/ Statements[v] = init_v10 \/ Statements[v] = init_v11 \/ Statements[v] = init_v12
      \/ Statements[v] = init_v13 \/ Statements[v] = init_v14 \/ Statements[v] = init_v15
  BY <1>2 DEF Statements
<1> QED BY <1>3, EveryStep

\* A column is not created with columns of its own, and a table only with columns.
LEMMA CreatedColumns ==
    /\ \A n : n \notin Parents => CreatedWith(n) = {}
    /\ \A n : \A c \in CreatedWith(n) : c \notin Parents /\ c # Blank
<1>1. \A n : n \notin Parents => CreatedWith(n) = {} BY DEF CreatedWith, Parents
<1>2. \A c \in {ChunkColumns[i] : i \in 1..Len(ChunkColumns)} : c \notin Parents /\ c # Blank
  BY ChunkNames DEF Columned, Naming
<1>3. {"emotion"} \cap (Parents \cup {Blank}) = {} /\ {"error"} \cap (Parents \cup {Blank}) = {}
  BY DEF Parents, Blank
<1>4. ASSUME NEW n, NEW c \in CreatedWith(n) PROVE c \notin Parents /\ c # Blank
  <2>1. n \in Parents BY <1>1
  <2>2. \/ CreatedWith(n) = {ChunkColumns[i] : i \in 1..Len(ChunkColumns)}
        \/ CreatedWith(n) = {"emotion"} \/ CreatedWith(n) = {"error"}
    BY <2>1 DEF Parents, CreatedWith
  <2> QED BY <1>2, <1>3, <2>2
<1> QED BY <1>1, <1>4

(***************************************************************************)
(* The migration                                                           *)
(***************************************************************************)

\* The first n statements of step w have run, the steps up to v are done.
Have(w, n) == \A i \in 1..n : Statements[w][i].name \in db \cup {Blank}
Past(v) == \A w \in 1..v : Have(w, Len(Statements[w]))

OpenerRecord == [at : {"closed", "step", "open", "failed"}, step : 1..SCHEMA_VERSION + 1,
                 statement : Nat, cols : SUBSET Holds(SCHEMA_VERSION)]

SchemaData ==
    /\ opener \in [Openers -> OpenerRecord]
    /\ db \subseteq Holds(SCHEMA_VERSION)
    /\ version \in 0..SCHEMA_VERSION
    /\ raced \subseteq Openers
    /\ crashed \in 0..MaxCrashes

\* What is there came with its columns; what the version says is there.
DbOK == (\A n \in db : CreatedWith(n) \subseteq db) /\ Past(version)

\* A process has done what is behind it.
PlacedOK(o) ==
    /\ opener[o].cols \subseteq db
    /\ opener[o].at = "open" => Past(SCHEMA_VERSION)
    /\ Migrating(o) => Past(opener[o].step - 1)
    /\ Migrating(o) /\ opener[o].step <= SCHEMA_VERSION =>
          /\ opener[o].statement \in 1..Len(Statements[opener[o].step])
          /\ Have(opener[o].step, opener[o].statement - 1)

\* Only one with company sees less than there is.
RacedOK(o) ==
    /\ opener[o].at = "failed" => o \in raced
    /\ Migrating(o) => \A q \in Openers \ {o} : Migrating(q) => o \in raced

AccurateOK(o) ==
    Migrating(o) /\ o \notin raced /\ opener[o].step <= SCHEMA_VERSION =>
        LET S == Statements[opener[o].step]
        IN  \A r, k \in 1..Len(S) :
              IsRead(S[r]) /\ IsColumn(S[k]) /\ r < opener[o].statement /\ opener[o].statement <= k
                 /\ S[k].name \in db => S[k].name \in opener[o].cols

SchemaInv ==
    /\ SchemaData
    /\ DbOK
    /\ \A o \in Openers : PlacedOK(o) /\ RacedOK(o) /\ AccurateOK(o)

LEMMA VersionIs ==
    ASSUME NEW v \in 1..SCHEMA_VERSION
    PROVE  v \in Nat \ {0} /\ v <= SCHEMA_VERSION /\ SCHEMA_VERSION \in Nat
  BY DEF SCHEMA_VERSION

LEMMA HoldsAre ==
    ASSUME NEW v \in 0..SCHEMA_VERSION, NEW n
    PROVE  n \in Holds(v) <=>
              /\ n # Blank
              /\ \E w \in 1..v : \E i \in 1..Len(Statements[w]) :
                    n = Statements[w][i].name \/ n \in CreatedWith(Statements[w][i].name)
<1> DEFINE of(w) == {Statements[w][i] : i \in 1..Len(Statements[w])}
           all == UNION {of(w) : w \in 1..v}
<1>1. \A x : x \in all <=> \E w \in 1..v : x \in of(w) OBVIOUS
<1>2. \A x : x \in all <=> \E w \in 1..v : \E i \in 1..Len(Statements[w]) : x = Statements[w][i]
  BY <1>1
<1>3. Holds(v) = (UNION {{x.name} \cup CreatedWith(x.name) : x \in all}) \ {Blank} BY DEF Holds, Blank
<1> HIDE DEF all
<1>4. n \in Holds(v) <=> n # Blank /\ \E x \in all : n = x.name \/ n \in CreatedWith(x.name)
  <2> DEFINE family == {{x.name} \cup CreatedWith(x.name) : x \in all}
  <2>1. Holds(v) = (UNION family) \ {Blank} BY <1>3
  <2>2. n \in Holds(v) <=> n # Blank /\ \E X \in family : n \in X BY <2>1
  <2>3. ASSUME NEW X \in family, n \in X
        PROVE  \E x \in all : n = x.name \/ n \in CreatedWith(x.name)
    BY <2>3
  <2>4. ASSUME NEW x \in all, n = x.name \/ n \in CreatedWith(x.name)
        PROVE  \E X \in family : n \in X
    <3>1. {x.name} \cup CreatedWith(x.name) \in family OBVIOUS
    <3> QED BY <2>4, <3>1
  <2> HIDE DEF family
  <2> QED BY <2>2, <2>3, <2>4
<1> QED BY <1>2, <1>4

\* What every statement of every step is.
LEMMA StepIs ==
    ASSUME NEW v \in 1..SCHEMA_VERSION
    PROVE  /\ Len(Statements[v]) \in Nat \ {0}
           /\ \A i \in 1..Len(Statements[v]) :
                 /\ IsRead(Statements[v][i]) <=> Statements[v][i].name = Blank
                 /\ ~(IsRead(Statements[v][i]) /\ IsColumn(Statements[v][i]))
                 /\ IsColumn(Statements[v][i]) =>
                       /\ Statements[v][i].name \notin Parents
                       /\ \E r \in 1..i - 1 : IsRead(Statements[v][r])
           /\ \A r, i, k \in 1..Len(Statements[v]) :
                 IsRead(Statements[v][r]) /\ IsColumn(Statements[v][k]) /\ r < i /\ i < k =>
                    IsColumn(Statements[v][i]) /\ Statements[v][i].name # Statements[v][k].name
           /\ ~IsRead(Statements[v][Len(Statements[v])])
<1> DEFINE S == Statements[v]
<1>1. StepShape(S) BY StepShapes
<1> HIDE DEF S
<1>2. S \in Seq(SomeStatement) /\ Len(S) > 0 BY <1>1 DEF StepShape, WellFormed
<1>3. Len(S) \in Nat \ {0} BY <1>2
<1>4. /\ \A i \in 1..Len(S) :
            /\ IsRead(S[i]) <=> S[i].name = Blank
            /\ ~(IsRead(S[i]) /\ IsColumn(S[i]))
            /\ IsColumn(S[i]) => S[i].name \notin Parents /\ \E r \in 1..i - 1 : IsRead(S[r])
  BY <1>1 DEF StepShape, WellFormed
<1>5. /\ \A r, i, k \in 1..Len(S) :
            IsRead(S[r]) /\ IsColumn(S[k]) /\ r < i /\ i < k =>
               IsColumn(S[i]) /\ S[i].name # S[k].name
      /\ ~IsRead(S[Len(S)])
  BY <1>1 DEF StepShape, WellFormed
<1> QED BY ONLY <1>3, <1>4, <1>5 DEF S

\* A database that every step has run on and that nothing else was put into is complete.
LEMMA Complete ==
    ASSUME SchemaData, DbOK, Past(SCHEMA_VERSION)
    PROVE  db = Holds(SCHEMA_VERSION)
<1>1. SUFFICES ASSUME NEW n \in Holds(SCHEMA_VERSION) PROVE n \in db BY DEF SchemaData
<1>2. SCHEMA_VERSION \in 0..SCHEMA_VERSION BY DEF SCHEMA_VERSION
<1>6. PICK w \in 1..SCHEMA_VERSION : \E i \in 1..Len(Statements[w]) :
         /\ n # Blank
         /\ n = Statements[w][i].name \/ n \in CreatedWith(Statements[w][i].name)
  BY <1>1, <1>2, HoldsAre
<1>3. PICK i \in 1..Len(Statements[w]) :
         /\ n # Blank
         /\ n = Statements[w][i].name \/ n \in CreatedWith(Statements[w][i].name)
  BY <1>6
<1>4. Statements[w][i].name \in db \cup {Blank} BY <1>3 DEF Past, Have
<1>5. CreatedWith(Blank) = {} BY CreatedColumns DEF Blank, Parents
<1> QED BY <1>3, <1>4, <1>5 DEF DbOK

\* What a database of an old version holds.
LEMMA OldHolds ==
    ASSUME NEW v \in 0..SCHEMA_VERSION
    PROVE  /\ Holds(v) \subseteq Holds(SCHEMA_VERSION)
           /\ \A n \in Holds(v) : CreatedWith(n) \subseteq Holds(v)
           /\ \A w \in 1..v : \A i \in 1..Len(Statements[w]) :
                 Statements[w][i].name \in Holds(v) \cup {Blank}
<1>1. SCHEMA_VERSION \in 0..SCHEMA_VERSION /\ 1..v \subseteq 1..SCHEMA_VERSION
  BY DEF SCHEMA_VERSION
<1>2. Holds(v) \subseteq Holds(SCHEMA_VERSION)
  <2> SUFFICES ASSUME NEW n \in Holds(v) PROVE n \in Holds(SCHEMA_VERSION) OBVIOUS
  <2>0. PICK w \in 1..v : \E i \in 1..Len(Statements[w]) :
           /\ n # Blank
           /\ n = Statements[w][i].name \/ n \in CreatedWith(Statements[w][i].name)
    BY HoldsAre
  <2>1. PICK i \in 1..Len(Statements[w]) :
           /\ n # Blank
           /\ n = Statements[w][i].name \/ n \in CreatedWith(Statements[w][i].name)
    BY <2>0
  <2>2. w \in 1..SCHEMA_VERSION BY <1>1
  <2> QED BY <1>1, <2>1, <2>2, HoldsAre
<1>3. ASSUME NEW n \in Holds(v), NEW c \in CreatedWith(n) PROVE c \in Holds(v)
  <2>0. PICK w \in 1..v : \E i \in 1..Len(Statements[w]) :
           /\ n # Blank
           /\ n = Statements[w][i].name \/ n \in CreatedWith(Statements[w][i].name)
    BY HoldsAre
  <2>1. PICK i \in 1..Len(Statements[w]) :
           /\ n # Blank
           /\ n = Statements[w][i].name \/ n \in CreatedWith(Statements[w][i].name)
    BY <2>0
  <2>2. c # Blank BY CreatedColumns
  <2>3. n = Statements[w][i].name BY <2>1, CreatedColumns
  <2> QED BY <2>2, <2>3, HoldsAre
<1>4. ASSUME NEW w \in 1..v, NEW i \in 1..Len(Statements[w])
      PROVE  Statements[w][i].name \in Holds(v) \cup {Blank}
  BY HoldsAre
<1> QED BY <1>2, <1>3, <1>4

LEMMA SchemaStart == SchemaInit => SchemaInv
<1> SUFFICES ASSUME SchemaInit PROVE SchemaInv OBVIOUS
<1>1. version \in 0..SCHEMA_VERSION /\ db = Holds(version) BY SchemaAssumption DEF SchemaInit
<1>2. /\ opener = [o \in Openers |-> Closed] /\ Closed \in OpenerRecord
      /\ Closed.at = "closed" /\ Closed.cols = {}
  BY DEF SchemaInit, Closed, OpenerRecord, SCHEMA_VERSION
<1>3. SchemaData
  <2>1. raced = {} /\ crashed = 0 BY DEF SchemaInit
  <2> QED BY <1>1, <1>2, <2>1, OldHolds, SchemaAssumption DEF SchemaData
<1>4. DbOK BY <1>1, OldHolds DEF DbOK, Past, Have
<1>5. ASSUME NEW o \in Openers PROVE PlacedOK(o) /\ RacedOK(o) /\ AccurateOK(o)
  <2>1. opener[o].at = "closed" /\ opener[o].cols = {} BY <1>2
  <2> QED BY <2>1 DEF PlacedOK, RacedOK, AccurateOK, Migrating
<1> QED BY <1>3, <1>4, <1>5 DEF SchemaInv

\* What was there stays there.
LEMMA HaveGrows ==
    ASSUME db \subseteq db'
    PROVE  /\ \A w, n : Have(w, n) => Have(w, n)'
           /\ \A v : Past(v) => Past(v)'
  BY DEF Have, Past

\* A process stays where it is while another one runs a statement.
LEMMA OtherPlaced ==
    ASSUME NEW o, PlacedOK(o), db \subseteq db', opener'[o] = opener[o]
    PROVE  PlacedOK(o)'
  BY HaveGrows DEF PlacedOK, Migrating

\* A process that does not migrate.
LEMMA ResettingStep ==
    ASSUME SchemaInv, NEW p \in Openers, NEW rec \in OpenerRecord,
           opener' = [opener EXCEPT ![p] = rec], db' = db, version' \in {version, SCHEMA_VERSION},
           version' = SCHEMA_VERSION => Past(SCHEMA_VERSION),
           rec.at # "step", rec.cols \subseteq db, rec.at = "open" => Past(SCHEMA_VERSION),
           rec.at = "failed" => p \in raced, raced' = raced, crashed' \in 0..MaxCrashes
    PROVE  SchemaInv'
<1>1. /\ opener'[p] = rec /\ \A o \in Openers \ {p} : opener'[o] = opener[o]
      /\ opener' \in [Openers -> OpenerRecord]
  BY DEF SchemaInv, SchemaData
<1>2. SchemaData'
  BY <1>1 DEF SchemaInv, SchemaData, SCHEMA_VERSION
<1>3. DbOK' BY HaveGrows DEF SchemaInv, DbOK
<1>4. ASSUME NEW o \in Openers \ {p} PROVE PlacedOK(o)' /\ RacedOK(o)' /\ AccurateOK(o)'
  <2>1. PlacedOK(o)' BY <1>1, OtherPlaced DEF SchemaInv
  <2>2. RacedOK(o)' BY <1>1 DEF SchemaInv, RacedOK, Migrating
  <2>3. AccurateOK(o)' BY <1>1 DEF SchemaInv, AccurateOK, Migrating
  <2> QED BY <2>1, <2>2, <2>3
<1>5. PlacedOK(p)' /\ RacedOK(p)' /\ AccurateOK(p)'
  <2>1. ~Migrating(p)' BY <1>1 DEF Migrating
  <2>2. PlacedOK(p)' BY <1>1, <2>1, HaveGrows DEF PlacedOK
  <2> QED BY <1>1, <2>1, <2>2 DEF RacedOK, AccurateOK
<1> QED BY <1>2, <1>3, <1>4, <1>5 DEF SchemaInv

LEMMA ConnectStep ==
    ASSUME SchemaInv, NEW p \in Openers, Connect(p)
    PROVE  SchemaInv'
<1> DEFINE rec == [Closed EXCEPT !.at = "step", !.step = version + 1]
           others == {q \in Openers \ {p} : Migrating(q)}
<1>1. /\ opener[p].at = "closed" /\ opener' = [opener EXCEPT ![p] = rec]
      /\ raced' = IF others = {} THEN raced \ {p} ELSE raced \cup others \cup {p}
      /\ db' = db /\ version' = version /\ crashed' = crashed
  BY DEF Connect
<1>2. /\ rec.at = "step" /\ rec.step = version + 1 /\ rec.statement = 1 /\ rec.cols = {}
      /\ rec \in OpenerRecord
  <2>1. Closed \in OpenerRecord /\ Closed.statement = 1 /\ Closed.cols = {}
    BY DEF Closed, OpenerRecord, SCHEMA_VERSION
  <2>2. version + 1 \in 1..SCHEMA_VERSION + 1 BY DEF SchemaInv, SchemaData, SCHEMA_VERSION
  <2>3. rec \in OpenerRecord BY <2>1, <2>2 DEF OpenerRecord
  <2>4. rec.at = "step" /\ rec.step = version + 1 BY <2>1 DEF OpenerRecord
  <2>5. rec.statement = Closed.statement /\ rec.cols = Closed.cols BY <2>1 DEF OpenerRecord
  <2> QED BY <2>1, <2>3, <2>4, <2>5
<1> HIDE DEF rec
<1>3. /\ opener'[p] = rec /\ \A o \in Openers \ {p} : opener'[o] = opener[o]
      /\ opener' \in [Openers -> OpenerRecord]
  BY <1>1, <1>2 DEF SchemaInv, SchemaData
<1>4. SchemaData' BY <1>1, <1>3 DEF SchemaInv, SchemaData
<1>5. DbOK' BY <1>1, HaveGrows DEF SchemaInv, DbOK
<1>6. ASSUME NEW o \in Openers \ {p} PROVE PlacedOK(o)' /\ RacedOK(o)' /\ AccurateOK(o)'
  <2>1. PlacedOK(o)' BY <1>1, <1>3, OtherPlaced DEF SchemaInv
  <2>2. Migrating(o)' = Migrating(o) /\ (o \in raced => o \in raced') /\ (Migrating(o) => o \in raced')
    BY <1>1, <1>3 DEF Migrating
  <2>3. RacedOK(o)' BY <1>3, <2>2 DEF SchemaInv, RacedOK
  <2>4. AccurateOK(o)' BY <2>2 DEF AccurateOK
  <2> QED BY <2>1, <2>3, <2>4
<1>7. PlacedOK(p)' /\ RacedOK(p)' /\ AccurateOK(p)'
  <2>1. version \in 0..SCHEMA_VERSION /\ opener'[p].step - 1 = version /\ Past(version)'
    BY <1>1, <1>2, <1>3, HaveGrows DEF SchemaInv, SchemaData, DbOK
  <2>2. /\ opener'[p].statement = 1 /\ opener'[p].cols = {} /\ opener'[p].step = version + 1
        /\ opener'[p].at = "step"
    BY <1>2, <1>3
  <2>3. version + 1 <= SCHEMA_VERSION => Len(Statements[version + 1]) \in Nat \ {0}
    <3>1. version + 1 <= SCHEMA_VERSION => version + 1 \in 1..SCHEMA_VERSION
      BY <2>1 DEF SCHEMA_VERSION
    <3> QED BY <3>1, StepIs
  <2>4. Have(version + 1, 1 - 1)' BY DEF Have
  <2>5. PlacedOK(p)'
    <3>1. version + 1 <= SCHEMA_VERSION => 1 \in 1..Len(Statements[version + 1]) BY <2>3
    <3>2. opener'[p].cols \subseteq db' /\ opener'[p].at # "open" BY <2>2
    <3>3. Past(opener[p].step - 1)' BY <1>1, <2>1 DEF Past
    <3>4. (opener[p].step <= SCHEMA_VERSION)' =>
            /\ (opener[p].statement \in 1..Len(Statements[opener[p].step]))'
            /\ Have(opener[p].step, opener[p].statement - 1)'
      <4>1. Have(opener[p].step, opener[p].statement - 1)' BY <2>2 DEF Have
      <4> QED BY <1>1, <2>2, <3>1, <4>1
    <3> QED BY <3>2, <3>3, <3>4 DEF PlacedOK
  <2>6. RacedOK(p)'
    <3>1. \A q \in Openers \ {p} : Migrating(q)' => q \in others BY <1>3 DEF Migrating
    <3> QED BY <1>1, <2>2, <3>1 DEF RacedOK
  <2>7. AccurateOK(p)'
    <3>1. \A r \in 1..Len(Statements[version + 1]) : ~(r < 1) OBVIOUS
    <3> QED BY <2>2, <3>1 DEF AccurateOK
  <2> QED BY <2>5, <2>6, <2>7
<1> QED BY <1>4, <1>5, <1>6, <1>7 DEF SchemaInv

\* Going on to the next statement, or to the next step.
LEMMA AdvancedIs ==
    ASSUME SchemaInv, NEW p \in Openers, Migrating(p), opener[p].step <= SCHEMA_VERSION,
           NEW rec, rec = Advanced(p) \/ rec = [Advanced(p) EXCEPT !.cols = db]
    PROVE  /\ rec \in OpenerRecord /\ rec.at = "step"
           /\ \/ /\ opener[p].statement < Len(Statements[opener[p].step])
                 /\ rec.step = opener[p].step /\ rec.statement = opener[p].statement + 1
              \/ /\ ~(opener[p].statement < Len(Statements[opener[p].step]))
                 /\ rec.step = opener[p].step + 1 /\ rec.statement = 1
           /\ rec = Advanced(p) =>
                 rec.cols = opener[p].cols \/ (rec.cols = {} /\ rec.step # opener[p].step)
           /\ rec = [Advanced(p) EXCEPT !.cols = db] => rec.cols = db
<1> DEFINE q == opener[p]
           a1 == [q EXCEPT !.statement = @ + 1]
           a2 == [q EXCEPT !.step = @ + 1, !.statement = 1, !.cols = {}]
<1>1. q \in OpenerRecord /\ q.at = "step" /\ q.step + 1 \in 1..SCHEMA_VERSION + 1
  BY DEF SchemaInv, SchemaData, Migrating, OpenerRecord, SCHEMA_VERSION
<1>2. a1 \in OpenerRecord /\ a1.at = "step" /\ a1.step = q.step /\ a1.statement = q.statement + 1
      /\ a1.cols = q.cols
  BY <1>1 DEF OpenerRecord
<1>3. a2 \in OpenerRecord /\ a2.at = "step" /\ a2.step = q.step + 1 /\ a2.statement = 1
      /\ a2.cols = {}
  BY <1>1 DEF OpenerRecord
<1>4. Advanced(p) = IF q.statement < Len(Statements[q.step]) THEN a1 ELSE a2
  BY DEF Advanced
<1> HIDE DEF a1, a2, q
<1>5. ASSUME NEW a \in OpenerRecord
      PROVE  LET b == [a EXCEPT !.cols = db]
             IN  /\ b \in OpenerRecord /\ b.at = a.at /\ b.step = a.step
                 /\ b.statement = a.statement /\ b.cols = db
  BY DEF OpenerRecord, SchemaInv, SchemaData
<1> DEFINE a == Advanced(p)
<1>6. /\ a \in OpenerRecord /\ a.at = "step"
      /\ \/ q.statement < Len(Statements[q.step]) /\ a.step = q.step /\ a.statement = q.statement + 1
            /\ a.cols = q.cols
         \/ ~(q.statement < Len(Statements[q.step])) /\ a.step = q.step + 1 /\ a.statement = 1
            /\ a.cols = {} /\ a.step # q.step
  <2>1. q.step + 1 # q.step BY <1>1 DEF OpenerRecord, SCHEMA_VERSION
  <2> QED BY <1>2, <1>3, <1>4, <2>1
<1> HIDE DEF a
<1>7. rec = a \/ rec = [a EXCEPT !.cols = db] BY DEF a
<1>8. /\ rec \in OpenerRecord /\ rec.at = a.at /\ rec.step = a.step /\ rec.statement = a.statement
      /\ rec = a => rec.cols = a.cols
      /\ rec = [a EXCEPT !.cols = db] => rec.cols = db
  BY <1>5, <1>6, <1>7
<1> QED BY <1>6, <1>8 DEF q, a

\* The process that ran its statement.
LEMMA RunnerStep ==
    ASSUME SchemaInv, NEW p \in Openers, Migrating(p), opener[p].step <= SCHEMA_VERSION,
           NEW rec \in OpenerRecord, opener' = [opener EXCEPT ![p] = rec], rec.at = "step",
           \/ /\ opener[p].statement < Len(Statements[opener[p].step])
              /\ rec.step = opener[p].step /\ rec.statement = opener[p].statement + 1
           \/ /\ ~(opener[p].statement < Len(Statements[opener[p].step]))
              /\ rec.step = opener[p].step + 1 /\ rec.statement = 1,
           rec.cols \subseteq db', db \subseteq db', db' \subseteq Holds(SCHEMA_VERSION),
           Statements[opener[p].step][opener[p].statement].name \in db' \cup {Blank},
           \A n \in db' : CreatedWith(n) \subseteq db',
           UNCHANGED <<version, raced, crashed>>,
           p \notin raced /\ rec.step = opener[p].step =>
              LET S == Statements[opener[p].step]
              IN  \A r, k \in 1..Len(S) :
                    IsRead(S[r]) /\ IsColumn(S[k]) /\ r < rec.statement /\ rec.statement <= k
                       /\ S[k].name \in db' => S[k].name \in rec.cols
    PROVE  SchemaInv'
<1>1. /\ opener'[p] = rec /\ \A o \in Openers \ {p} : opener'[o] = opener[o]
      /\ opener' \in [Openers -> OpenerRecord]
  BY DEF SchemaInv, SchemaData
<1>2. SchemaData' BY <1>1 DEF SchemaInv, SchemaData
<1>3. DbOK' BY HaveGrows DEF SchemaInv, DbOK
<1>4. ASSUME NEW o \in Openers \ {p} PROVE PlacedOK(o)' /\ RacedOK(o)' /\ AccurateOK(o)'
  <2>1. PlacedOK(o)' BY <1>1, OtherPlaced DEF SchemaInv
  <2>2. \A q \in Openers : Migrating(q)' => Migrating(q) BY <1>1 DEF Migrating
  <2>3. RacedOK(o)' BY <1>1, <2>2 DEF SchemaInv, RacedOK
  <2>4. Migrating(o) => o \in raced BY DEF SchemaInv, RacedOK
  <2>5. AccurateOK(o)' BY <2>2, <2>4 DEF AccurateOK
  <2> QED BY <2>1, <2>3, <2>5
<1>5. RacedOK(p)'
  <2>1. \A q \in Openers : Migrating(q)' => Migrating(q) BY <1>1 DEF Migrating
  <2> QED BY <1>1, <2>1 DEF SchemaInv, RacedOK
<1> PICK v, n : v = opener[p].step /\ n = opener[p].statement OBVIOUS
<1>6. /\ v \in 1..SCHEMA_VERSION /\ n \in 1..Len(Statements[v]) /\ Have(v, n - 1) /\ Past(v - 1)
      /\ Len(Statements[v]) \in Nat
  <2>1. v \in 1..SCHEMA_VERSION BY DEF SchemaInv, SchemaData, OpenerRecord, SCHEMA_VERSION
  <2> QED BY <2>1, StepIs DEF SchemaInv, PlacedOK
<1>10. v \in Nat \ {0} /\ n \in Nat \ {0} /\ v <= SCHEMA_VERSION /\ SCHEMA_VERSION \in Nat
  <2>1. v \in 1..SCHEMA_VERSION /\ n \in 1..Len(Statements[v]) BY <1>6
  <2>2. n \in Nat \ {0} BY <2>1
  <2> QED BY <2>1, <2>2, VersionIs
<1>7. Have(v, n)'
  <2>1. Have(v, n - 1)' BY <1>6, HaveGrows
  <2>2. \A i \in 1..n : i \in 1..n - 1 \/ i = n BY <1>6
  <2> QED BY <2>1, <2>2 DEF Have
<1>8. AccurateOK(p)'
  <2>1. SUFFICES ASSUME p \notin raced, rec.step <= SCHEMA_VERSION,
                        NEW r \in 1..Len(Statements[rec.step]), NEW k \in 1..Len(Statements[rec.step]),
                        IsRead(Statements[rec.step][r]), IsColumn(Statements[rec.step][k]),
                        r < rec.statement, rec.statement <= k, Statements[rec.step][k].name \in db'
                 PROVE  Statements[rec.step][k].name \in rec.cols
    BY <1>1 DEF AccurateOK
  <2>2. rec.step = v BY <2>1
  <2> QED BY <2>1, <2>2
<1>9. PlacedOK(p)'
  <2>1. CASE n < Len(Statements[v])
    <3>1. opener'[p].step = v /\ opener'[p].statement = n + 1 /\ n + 1 \in 1..Len(Statements[v])
          /\ opener'[p].at = "step"
      BY <1>1, <1>6, <2>1
    <3>2. Have(v, n + 1 - 1)' /\ Past(v - 1)' BY <1>6, <1>7, HaveGrows DEF Have
    <3>3. Have(opener[p].step, opener[p].statement - 1)'
      <4>1. n + 1 - 1 = n BY <1>10
      <4>2. opener'[p].step = v /\ opener'[p].statement - 1 = n BY <1>10, <3>1
      <4>3. Have(v, n)' <=> \A i \in 1..n : Statements[v][i].name \in db' \cup {Blank} BY DEF Have
      <4>4. Have(opener[p].step, opener[p].statement - 1)'
              <=> \A i \in 1..opener'[p].statement - 1 :
                    Statements[opener'[p].step][i].name \in db' \cup {Blank}
        BY DEF Have
      <4> QED BY <1>7, <4>2, <4>3, <4>4
    <3>4. Past(opener[p].step - 1)' BY <3>1, <3>2 DEF Past
    <3> QED BY <1>1, <3>1, <3>3, <3>4 DEF PlacedOK
  <2>2. CASE ~(n < Len(Statements[v]))
    <3>1. opener'[p].step = v + 1 /\ opener'[p].statement = 1 /\ n = Len(Statements[v])
          /\ opener'[p].at = "step"
      BY <1>1, <1>6, <2>2
    <3>2. Past(v)'
      <4>1. Past(v - 1)' BY <1>6, HaveGrows
      <4>2. \A w \in 1..v : w \in 1..v - 1 \/ w = v BY <1>10
      <4> QED BY <1>7, <3>1, <4>1, <4>2 DEF Past
    <3>3. Past(opener[p].step - 1)'
      <4>1. opener'[p].step - 1 = v BY <1>10, <3>1
      <4> QED BY <3>2, <4>1 DEF Past
    <3>4. opener'[p].step <= SCHEMA_VERSION => 1 \in 1..Len(Statements[opener'[p].step])
      <4> SUFFICES ASSUME v + 1 <= SCHEMA_VERSION PROVE 1 \in 1..Len(Statements[v + 1])
        BY <3>1
      <4>1. v + 1 \in 1..SCHEMA_VERSION BY <1>10
      <4> QED BY <4>1, StepIs
    <3>5. Have(opener[p].step, opener[p].statement - 1)' BY <3>1 DEF Have
    <3> QED BY <1>1, <3>1, <3>3, <3>4, <3>5 DEF PlacedOK
  <2> QED BY <2>1, <2>2
<1> QED BY <1>2, <1>3, <1>4, <1>5, <1>8, <1>9 DEF SchemaInv

LEMMA StatementStep ==
    ASSUME SchemaInv, NEW p \in Openers, RunStatement(p)
    PROVE  SchemaInv'
<1> PICK v, n : v = opener[p].step /\ n = opener[p].statement OBVIOUS
<1> DEFINE S == Statements[v]
           s == S[n]
           duplicate == s.kind = "column" /\ ~SkipsColumn(p) /\ s.name \in db
<1>1. /\ Migrating(p) /\ v \in 1..SCHEMA_VERSION /\ n \in 1..Len(S) /\ Len(S) \in Nat \ {0}
      /\ opener[p] \in OpenerRecord /\ opener[p].cols \subseteq db
  <2>1. Migrating(p) /\ v \in 1..SCHEMA_VERSION /\ opener[p] \in OpenerRecord
    BY DEF RunStatement, SchemaInv, SchemaData, OpenerRecord, SCHEMA_VERSION
  <2>2. Len(S) \in Nat \ {0} BY <2>1, StepIs
  <2> QED BY <2>1, <2>2 DEF SchemaInv, PlacedOK, RunStatement
<1>2. /\ IsRead(s) <=> s.name = Blank
      /\ ~(IsRead(s) /\ IsColumn(s))
      /\ IsColumn(s) => s.name \notin Parents /\ \E r \in 1..n - 1 : IsRead(S[r])
      /\ \A r, k \in 1..Len(S) :
            IsRead(S[r]) /\ IsColumn(S[k]) /\ r < n /\ n < k => IsColumn(s) /\ s.name # S[k].name
      /\ ~IsRead(S[Len(S)])
  <2>1. /\ \A r, i, k \in 1..Len(S) :
              IsRead(S[r]) /\ IsColumn(S[k]) /\ r < i /\ i < k =>
                 IsColumn(S[i]) /\ S[i].name # S[k].name
        /\ ~IsRead(S[Len(S)])
    BY <1>1, StepIs
  <2>2. \A i \in 1..Len(S) :
           /\ IsRead(S[i]) <=> S[i].name = Blank
           /\ ~(IsRead(S[i]) /\ IsColumn(S[i]))
           /\ IsColumn(S[i]) => S[i].name \notin Parents /\ \E r \in 1..i - 1 : IsRead(S[r])
    BY <1>1, StepIs
  <2> HIDE DEF S
  <2> QED BY <1>1, <2>1, <2>2
<1>3. /\ opener' = [opener EXCEPT ![p] =
                      IF duplicate THEN [opener[p] EXCEPT !.at = "failed"]
                      ELSE IF IsRead(s) THEN [Advanced(p) EXCEPT !.cols = db] ELSE Advanced(p)]
      /\ db' = IF IsRead(s) \/ duplicate THEN db
               ELSE db \cup ({s.name} \cup IF s.name \in db THEN {} ELSE CreatedWith(s.name))
      /\ UNCHANGED <<version, raced, crashed>>
      /\ SkipsColumn(p) <=> s.name \in opener[p].cols
  BY DEF RunStatement, Statement, IsRead, SkipsColumn
<1>4. duplicate <=> IsColumn(s) /\ s.name \notin opener[p].cols /\ s.name \in db
  BY <1>3 DEF IsColumn
<1> HIDE DEF duplicate, S, s
<1>5. CASE duplicate
  <2> DEFINE rec == [opener[p] EXCEPT !.at = "failed"]
  <2>1. rec \in OpenerRecord /\ rec.at = "failed" /\ rec.cols = opener[p].cols
    BY <1>1 DEF OpenerRecord
  <2>2. opener' = [opener EXCEPT ![p] = rec] /\ db' = db /\ UNCHANGED <<version, raced, crashed>>
    BY <1>3, <1>5
  <2> HIDE DEF rec
  <2>3. p \in raced
    <3>1. PICK r \in 1..n - 1 : IsRead(S[r]) BY <1>2, <1>4, <1>5
    <3>2. r \in 1..Len(S) /\ r < n /\ n <= n BY <1>1, <3>1
    <3>3. p \notin raced => s.name \in opener[p].cols
      <4>1. v <= SCHEMA_VERSION BY <1>1, VersionIs
      <4>2. AccurateOK(p) BY DEF SchemaInv
      <4>3. ASSUME p \notin raced
            PROVE  \A k \in 1..Len(S) : IsColumn(S[k]) /\ n <= k /\ S[k].name \in db
                                          => S[k].name \in opener[p].cols
        BY <1>1, <3>1, <3>2, <4>1, <4>2, <4>3 DEF AccurateOK, S
      <4>4. n \in Nat BY <1>1
      <4> QED BY <1>1, <1>4, <1>5, <4>3, <4>4 DEF s
    <3> QED BY <1>4, <1>5, <3>3
  <2>4. /\ crashed' \in 0..MaxCrashes /\ version' \in {version, SCHEMA_VERSION}
        /\ rec.cols \subseteq db
    BY <1>1, <2>1, <2>2 DEF SchemaInv, SchemaData
  <2>5. version' = SCHEMA_VERSION => Past(SCHEMA_VERSION) BY <2>2 DEF SchemaInv, DbOK
  <2> QED BY <2>1, <2>2, <2>3, <2>4, <2>5, ResettingStep
<1>6. CASE ~duplicate
  <2> DEFINE rec == IF IsRead(s) THEN [Advanced(p) EXCEPT !.cols = db] ELSE Advanced(p)
             added == {s.name} \cup IF s.name \in db THEN {} ELSE CreatedWith(s.name)
  <2>1. opener' = [opener EXCEPT ![p] = rec] /\ db' = (IF IsRead(s) THEN db ELSE db \cup added)
    BY <1>3, <1>6
  <2>2. /\ db \subseteq db' /\ s.name \in db' \cup {Blank}
        /\ IsColumn(s) => db' \subseteq db \cup {s.name}
    BY <1>2, <2>1, CreatedColumns
  <2>3. db' \subseteq Holds(SCHEMA_VERSION)
    <3>1. \A m \in added : m = s.name \/ m \in CreatedWith(s.name) OBVIOUS
    <3>2. ~IsRead(s) => \A m \in added : m # Blank BY <1>2, <3>1, CreatedColumns
    <3>3. SCHEMA_VERSION \in 0..SCHEMA_VERSION BY DEF SCHEMA_VERSION
    <3>4. ~IsRead(s) => \A m \in added : m \in Holds(SCHEMA_VERSION)
      BY <1>1, <3>1, <3>2, <3>3, HoldsAre DEF s, S
    <3> QED BY <2>1, <3>4 DEF SchemaInv, SchemaData
  <2>4. \A m \in db' : CreatedWith(m) \subseteq db'
    <3> SUFFICES ASSUME NEW m \in db', NEW c \in CreatedWith(m) PROVE c \in db' OBVIOUS
    <3>1. CASE m \in db BY <2>2, <3>1 DEF SchemaInv, DbOK
    <3>2. CASE m \notin db
      <4>1. ~IsRead(s) /\ m \in added BY <2>1, <3>2
      <4>2. m = s.name BY <4>1, CreatedColumns
      <4> QED BY <2>1, <3>2, <4>1, <4>2
    <3> QED BY <3>1, <3>2
  <2>5. /\ opener[p].step = v /\ opener[p].statement = n /\ v <= SCHEMA_VERSION
        /\ db \in SUBSET Holds(SCHEMA_VERSION)
    BY <1>1 DEF SCHEMA_VERSION, SchemaInv, SchemaData
  <2> HIDE DEF added
  <2>6. /\ rec \in OpenerRecord /\ rec.at = "step"
        /\ \/ n < Len(S) /\ rec.step = v /\ rec.statement = n + 1
           \/ ~(n < Len(S)) /\ rec.step = v + 1 /\ rec.statement = 1
        /\ IF IsRead(s) THEN rec.cols = db
           ELSE rec.cols = opener[p].cols \/ (rec.cols = {} /\ rec.step # v)
    <3>1. /\ rec = Advanced(p) \/ rec = [Advanced(p) EXCEPT !.cols = db]
          /\ IF IsRead(s) THEN rec = [Advanced(p) EXCEPT !.cols = db] ELSE rec = Advanced(p)
      OBVIOUS
    <3> HIDE DEF rec
    <3>2. /\ rec \in OpenerRecord /\ rec.at = "step"
          /\ \/ /\ opener[p].statement < Len(Statements[opener[p].step])
                /\ rec.step = opener[p].step /\ rec.statement = opener[p].statement + 1
             \/ /\ ~(opener[p].statement < Len(Statements[opener[p].step]))
                /\ rec.step = opener[p].step + 1 /\ rec.statement = 1
          /\ rec = Advanced(p) =>
                rec.cols = opener[p].cols \/ (rec.cols = {} /\ rec.step # opener[p].step)
          /\ rec = [Advanced(p) EXCEPT !.cols = db] => rec.cols = db
      <4>1. opener[p].step <= SCHEMA_VERSION BY <2>5
      <4>2. Migrating(p) BY <1>1
      <4> QED BY <4>1, <4>2, <3>1, AdvancedIs
    <3> QED BY <2>5, <3>1, <3>2 DEF S
  <2>7. p \notin raced /\ rec.step = v =>
           \A r, k \in 1..Len(S) :
              IsRead(S[r]) /\ IsColumn(S[k]) /\ r < rec.statement /\ rec.statement <= k
                 /\ S[k].name \in db' => S[k].name \in rec.cols
    <3> HIDE DEF rec
    <3> SUFFICES ASSUME p \notin raced, rec.step = v, NEW r \in 1..Len(S), NEW k \in 1..Len(S),
                        IsRead(S[r]), IsColumn(S[k]), r < rec.statement, rec.statement <= k,
                        S[k].name \in db'
                 PROVE  S[k].name \in rec.cols
      OBVIOUS
    <3>1. n < Len(S) /\ rec.statement = n + 1 /\ v \in Nat BY <1>1, <2>6, VersionIs
    <3>2. CASE IsRead(s) BY <2>1, <2>6, <3>2
    <3>3. CASE ~IsRead(s)
      <4>1. r # n BY <3>3 DEF s
      <4>2. r < n /\ n < k /\ n <= k BY <1>1, <3>1, <4>1
      <4>3. IsColumn(s) /\ s.name # S[k].name BY <1>2, <4>2
      <4>4. S[k].name \in db BY <2>2, <4>3
      <4>5. v <= SCHEMA_VERSION /\ AccurateOK(p) BY <1>1, VersionIs DEF SchemaInv
      <4>6. S[k].name \in opener[p].cols BY <1>1, <4>2, <4>4, <4>5 DEF AccurateOK, S
      <4> QED BY <2>6, <3>3, <4>6
    <3> QED BY <3>2, <3>3
  <2> HIDE DEF rec
  <2>8. rec.cols \subseteq db' BY <1>1, <2>2, <2>6
  <2>9. opener' = [opener EXCEPT ![p] = rec] /\ UNCHANGED <<version, raced, crashed>> BY <1>3, <2>1
  <2>10. /\ opener[p].step <= SCHEMA_VERSION
         /\ \/ /\ opener[p].statement < Len(Statements[opener[p].step])
               /\ rec.step = opener[p].step /\ rec.statement = opener[p].statement + 1
            \/ /\ ~(opener[p].statement < Len(Statements[opener[p].step]))
               /\ rec.step = opener[p].step + 1 /\ rec.statement = 1
    BY <2>5, <2>6 DEF S
  <2>11. Statements[opener[p].step][opener[p].statement].name \in db' \cup {Blank}
    BY <2>2, <2>5 DEF s, S
  <2>12. p \notin raced /\ rec.step = opener[p].step =>
              LET T == Statements[opener[p].step]
              IN  \A r, k \in 1..Len(T) :
                    IsRead(T[r]) /\ IsColumn(T[k]) /\ r < rec.statement /\ rec.statement <= k
                       /\ T[k].name \in db' => T[k].name \in rec.cols
    BY <2>5, <2>7 DEF S
  <2> QED BY <1>1, <2>2, <2>3, <2>4, <2>6, <2>8, <2>9, <2>10, <2>11, <2>12, RunnerStep
<1> QED BY <1>5, <1>6

LEMMA VersionStep ==
    ASSUME SchemaInv, NEW p \in Openers, StoreVersion(p)
    PROVE  SchemaInv'
<1> DEFINE rec == [opener[p] EXCEPT !.at = "open"]
<1>1. opener[p] \in OpenerRecord /\ opener[p].cols \subseteq db
  BY DEF SchemaInv, SchemaData, PlacedOK
<1>2. rec \in OpenerRecord /\ rec.at = "open" /\ rec.cols = opener[p].cols
  BY <1>1 DEF OpenerRecord
<1>3. /\ opener' = [opener EXCEPT ![p] = rec] /\ db' = db /\ version' = SCHEMA_VERSION
      /\ raced' = raced /\ crashed' = crashed /\ crashed' \in 0..MaxCrashes
  BY DEF StoreVersion, SchemaInv, SchemaData
<1>4. Past(SCHEMA_VERSION)
  <2>1. Past(opener[p].step - 1) /\ opener[p].step = SCHEMA_VERSION + 1
    BY DEF StoreVersion, SchemaInv, PlacedOK
  <2>2. opener[p].step - 1 = SCHEMA_VERSION BY <2>1 DEF SCHEMA_VERSION
  <2> QED BY <2>1, <2>2
<1> HIDE DEF rec
<1> QED BY <1>1, <1>2, <1>3, <1>4, ResettingStep

LEMMA DieStep ==
    ASSUME SchemaInv, NEW p \in Openers, Die(p)
    PROVE  SchemaInv'
<1>1. Closed \in OpenerRecord /\ Closed.at = "closed" /\ Closed.cols = {}
  BY DEF Closed, OpenerRecord, SCHEMA_VERSION
<1>2. /\ opener' = [opener EXCEPT ![p] = Closed] /\ db' = db /\ version' = version
      /\ raced' = raced /\ crashed' \in 0..MaxCrashes
  BY SchemaAssumption DEF Die, SchemaInv, SchemaData
<1>3. version' = SCHEMA_VERSION => Past(SCHEMA_VERSION) BY <1>2 DEF SchemaInv, DbOK
<1> QED BY <1>1, <1>2, <1>3, ResettingStep

LEMMA SchemaStep == SchemaInv /\ [SchemaNext]_schemaVars => SchemaInv'
<1> SUFFICES ASSUME SchemaInv, [SchemaNext]_schemaVars PROVE SchemaInv' OBVIOUS
<1>1. CASE UNCHANGED schemaVars
  BY <1>1 DEF schemaVars, SchemaInv, SchemaData, DbOK, PlacedOK, RacedOK, AccurateOK, Migrating,
              Past, Have
<1>2. CASE SchemaNext
  BY <1>2, ConnectStep, StatementStep, VersionStep, DieStep DEF SchemaNext
<1> QED BY <1>1, <1>2

\* Types of the tables and columns there are, the version row and the openers.
THEOREM SchemaTypeCorrect == SchemaSpec => []SchemaTypeOK
<1>1. SchemaInv => SchemaTypeOK
  <2> SUFFICES ASSUME SchemaInv PROVE SchemaTypeOK OBVIOUS
  <2>1. ASSUME NEW o \in Openers
        PROVE  /\ opener[o].at \in {"closed", "step", "open", "failed"}
               /\ opener[o].step \in 1..SCHEMA_VERSION + 1
               /\ opener[o].statement \in Nat
               /\ opener[o].cols \subseteq db
    BY DEF SchemaInv, SchemaData, OpenerRecord, PlacedOK
  <2> QED BY <2>1 DEF SchemaInv, SchemaData, SchemaTypeOK
<1> QED BY <1>1, SchemaStart, SchemaStep, PTL DEF SchemaSpec

\* However many processes open an old database of any version and die at any statement of
\* it, one that gets through finds every table and column, and one that fails was not
\* alone (engine.connect, _init_v3 .. _init_v15).
THEOREM MigrationsHeal == SchemaSpec => []MigrationHeals
<1>1. SchemaInv => MigrationHeals
  BY Complete DEF SchemaInv, PlacedOK, RacedOK, MigrationHeals
<1> QED BY <1>1, SchemaStart, SchemaStep, PTL DEF SchemaSpec

(***************************************************************************)
(* The personas                                                            *)
(***************************************************************************)

PersonaRow == [traits : {"hand", "derived"}, ocean : Oceans, levels : Oceans \cup {NoLevels},
               builtin : BOOLEAN, active : BOOLEAN]

\* Where a process may be while there is no state row, and where it is after.
Early == {"down", "load", "read", "place", "write", "replace", "verify", "store", "refused"}
Late == {"unchanged", "sync", "status", "derive", "commit", "up"}
StarterRecord == [at : Early \cup Late, records : SUBSET ExportRecord,
                  status : {"", "exported", "completed"}]

PersonasData ==
    /\ DOMAIN personas \subseteq PersonaIds
    /\ personas \in [DOMAIN personas -> PersonaRow]
    /\ export \in {NoExport, Foreign} \cup SUBSET ExportRecord
    /\ migration \in {NoStateRow} \cup MigrationRow
    /\ starter \in [Processes -> StarterRecord]
    /\ starts \in 0..MaxStarts
    /\ deleting \subseteq PersonaIds

OneActive == \A i, j \in DOMAIN personas : personas[i].active /\ personas[j].active => i = j

\* The hand-written traits are in these records.
Faithful(records) == \A i \in Legacy : [id |-> i, traits |-> "hand", ocean |-> 0] \in records

\* Nothing touches the table before the state row is there ...
UntouchedOK ==
    migration = NoStateRow =>
        /\ Legacy \subseteq DOMAIN personas
        /\ \A i \in DOMAIN personas : personas[i].traits = "hand" /\ personas[i].ocean = 0
        /\ \A p \in Processes : starter[p].at \in Early

\* ... and it is there only with an export that keeps the traits.
ExportOK ==
    /\ export \in {NoExport, Foreign} \/ Faithful(export)
    /\ migration # NoStateRow => export \notin {NoExport, Foreign}

WriterOK(rec) ==
    /\ rec.at \in {"write", "replace", "verify"} => Faithful(rec.records)
    /\ rec.at = "place" /\ export = NoExport => Faithful(rec.records)
    /\ rec.at = "store" => export \notin {NoExport, Foreign}

Completed == migration # NoStateRow /\ migration.status = "completed"

LevelsOK ==
    /\ \A i \in DOMAIN personas : personas[i].builtin => personas[i].ocean = 1 /\ personas[i].levels = 1
    /\ Completed => LevelsCurrent
    /\ Up => Completed

\* What a process inside complete_persona_level_migration read is still so.
DeriveOK(rec) ==
    /\ rec.at = "derive" => rec.status # ""
    /\ rec.at = "derive" /\ rec.status = "completed" => Completed
    /\ rec.at = "commit" /\ ~Completed =>
          /\ \A r \in rec.records :
               r.id \in DOMAIN personas /\ r.ocean = personas[r.id].ocean
          /\ \A i \in DOMAIN personas :
               personas[i].levels # personas[i].ocean => \E r \in rec.records : r.id = i

PersonasInv ==
    /\ PersonasData
    /\ OneActive
    /\ UntouchedOK
    /\ ExportOK
    /\ LevelsOK
    /\ \A p \in Processes : WriterOK(starter[p]) /\ DeriveOK(starter[p])

LEMMA RecordsAre ==
    ASSUME PersonasData
    PROVE  /\ Records \in SUBSET ExportRecord
           /\ \A r \in Records : r.id \in DOMAIN personas /\ r.traits = personas[r.id].traits
                                /\ r.ocean = personas[r.id].ocean
           /\ \A i \in DOMAIN personas :
                 [id |-> i, traits |-> personas[i].traits, ocean |-> personas[i].ocean] \in Records
<1>1. \A i \in DOMAIN personas : i \in PersonaIds /\ personas[i] \in PersonaRow
  BY DEF PersonasData
<1>2. \A i \in DOMAIN personas :
         LET r == [id |-> i, traits |-> personas[i].traits, ocean |-> personas[i].ocean]
         IN  r \in ExportRecord /\ r.id = i /\ r.traits = personas[i].traits
             /\ r.ocean = personas[i].ocean
  BY <1>1 DEF PersonaRow, ExportRecord
<1> QED BY <1>2 DEF Records

LEMMA PersonasStart == PersonasInit => PersonasInv
<1> SUFFICES ASSUME PersonasInit PROVE PersonasInv OBVIOUS
<1>1. PICK ids \in {Legacy, Legacy \cup Presets}, head \in Legacy :
         personas = [i \in ids |-> LegacyRow(i = head)]
  BY DEF PersonasInit
<1>2. ASSUME NEW i \in ids
      PROVE  /\ personas[i] \in PersonaRow /\ personas[i].traits = "hand" /\ personas[i].ocean = 0
             /\ ~personas[i].builtin /\ (personas[i].active => i = head)
  <2>1. personas[i] = [traits |-> "hand", ocean |-> 0, levels |-> NoLevels, builtin |-> FALSE,
                       active |-> (i = head)]
    BY <1>1 DEF LegacyRow, Row
  <2>2. 0 \in Oceans /\ NoLevels \in Oceans \cup {NoLevels} /\ (i = head) \in BOOLEAN BY DEF Oceans
  <2>3. personas[i] \in PersonaRow BY <2>1, <2>2 DEF PersonaRow
  <2>4. personas[i].active = (i = head) BY <2>1
  <2>5. personas[i].traits = "hand" /\ personas[i].ocean = 0 BY <2>1
  <2>6. personas[i].builtin = FALSE BY <2>1
  <2> QED BY <2>3, <2>4, <2>5, <2>6
<1>3. DOMAIN personas = ids /\ ids \subseteq PersonaIds /\ Legacy \subseteq ids
  BY <1>1 DEF PersonaIds
<1>4. personas \in [DOMAIN personas -> PersonaRow] BY <1>1, <1>2
<1>5. ASSUME NEW p \in Processes
      PROVE  starter[p] \in StarterRecord /\ starter[p].at = "down"
  BY DEF PersonasInit, StarterRecord, Early
<1>6. starter \in [Processes -> StarterRecord] BY <1>5 DEF PersonasInit
<1>7. /\ export \in {NoExport, Foreign} /\ migration = NoStateRow /\ starts = 0 /\ deleting = {}
  BY DEF PersonasInit
<1>8. PersonasData
  <2>1. starts \in 0..MaxStarts BY <1>7, PersonasAssumption
  <2> QED BY <1>3, <1>4, <1>6, <1>7, <2>1 DEF PersonasData
<1>9. OneActive BY <1>2, <1>3 DEF OneActive
<1>10. UntouchedOK BY <1>2, <1>3, <1>5 DEF UntouchedOK, Early
<1>11. ExportOK BY <1>7 DEF ExportOK
<1>12. LevelsOK
  <2>1. ~Completed BY <1>7 DEF Completed
  <2>2. ~Up BY <1>5 DEF Up, StarterAt, Processes
  <2> QED BY <1>2, <1>3, <2>1, <2>2 DEF LevelsOK
<1>13. ASSUME NEW p \in Processes PROVE WriterOK(starter[p]) /\ DeriveOK(starter[p])
  BY <1>5 DEF WriterOK, DeriveOK
<1> QED BY <1>8, <1>9, <1>10, <1>11, <1>12, <1>13 DEF PersonasInv

\* A process goes on; the table, the export and the state row stay.
LEMMA StarterStep ==
    ASSUME PersonasInv, NEW p \in Processes, NEW rec \in StarterRecord,
           starter' = [starter EXCEPT ![p] = rec], UNCHANGED <<personas, export, migration>>,
           starts' \in 0..MaxStarts, deleting' \subseteq PersonaIds,
           migration = NoStateRow => rec.at \in Early, rec.at = "up" => Completed,
           WriterOK(rec), DeriveOK(rec)
    PROVE  PersonasInv'
<1>1. /\ starter' \in [Processes -> StarterRecord]
      /\ \A q \in Processes : starter'[q] = IF q = p THEN rec ELSE starter[q]
  BY DEF PersonasInv, PersonasData
<1>2. PersonasData' BY <1>1 DEF PersonasInv, PersonasData
<1>3. OneActive' BY DEF PersonasInv, OneActive
<1>4. UntouchedOK' BY <1>1 DEF PersonasInv, UntouchedOK
<1>5. ExportOK' BY DEF PersonasInv, ExportOK, Faithful
<1>6. Completed' = Completed BY DEF Completed
<1>7. LevelsOK'
  <2>1. Up' => Completed BY <1>1 DEF Up, StarterAt, Processes, PersonasInv, LevelsOK
  <2> QED BY <1>6, <2>1 DEF PersonasInv, LevelsOK, LevelsCurrent
<1>8. ASSUME NEW q \in Processes PROVE WriterOK(starter[q])' /\ DeriveOK(starter[q])'
  <2>1. WriterOK(starter'[q]) /\ DeriveOK(starter'[q]) BY <1>1 DEF PersonasInv
  <2> QED BY <2>1, <1>6 DEF WriterOK, DeriveOK, Faithful
<1> QED BY <1>2, <1>3, <1>4, <1>5, <1>7, <1>8 DEF PersonasInv

\* The rows change once the state row is there.
LEMMA TableStep ==
    ASSUME PersonasInv, migration # NoStateRow, UNCHANGED <<export, migration, starts>>,
           deleting' \subseteq PersonaIds, starter' \in [Processes -> StarterRecord],
           \A p \in Processes : starter'[p] = starter[p] \/ starter'[p].at \in {"status", "refused"},
           DOMAIN personas' \subseteq PersonaIds, personas' \in [DOMAIN personas' -> PersonaRow],
           OneActive',
           \A i \in DOMAIN personas' :
              personas'[i].builtin => personas'[i].ocean = 1 /\ personas'[i].levels = 1,
           Completed => LevelsCurrent',
           ~Completed => \A p \in Processes : DeriveOK(starter[p])'
    PROVE  PersonasInv'
<1>1. PersonasData' BY DEF PersonasInv, PersonasData
<1>2. UntouchedOK' BY DEF UntouchedOK
<1>3. ExportOK' BY DEF PersonasInv, ExportOK, Faithful
<1>4. Completed' = Completed BY DEF Completed
<1>5. LevelsOK'
  <2>1. Up' => Up BY DEF Up, StarterAt, Processes
  <2> QED BY <1>4, <2>1 DEF PersonasInv, LevelsOK
<1>6. ASSUME NEW p \in Processes PROVE WriterOK(starter[p])' /\ DeriveOK(starter[p])'
  <2>1. CASE starter'[p] = starter[p]
    <3>1. WriterOK(starter[p])' BY <2>1 DEF PersonasInv, WriterOK, Faithful
    <3>2. Completed => DeriveOK(starter[p])' BY <1>4, <2>1 DEF PersonasInv, DeriveOK
    <3> QED BY <3>1, <3>2
  <2>2. CASE starter'[p].at \in {"status", "refused"}
    BY <2>2 DEF WriterOK, DeriveOK
  <2> QED BY <2>1, <2>2
<1> QED BY <1>1, <1>2, <1>3, <1>5, <1>6 DEF PersonasInv

\* What a process keeps of its record.
LEMMA Starts ==
    ASSUME PersonasInv, NEW p \in Processes, NEW place \in Early \cup Late
    PROVE  LET rec == [starter[p] EXCEPT !.at = place]
           IN  /\ rec \in StarterRecord /\ rec.at = place /\ rec.records = starter[p].records
               /\ rec.status = starter[p].status
               /\ [starter EXCEPT ![p].at = place] = [starter EXCEPT ![p] = rec]
  BY DEF PersonasInv, PersonasData, StarterRecord

LEMMA StartGoesOn ==
    ASSUME PersonasInv, NEW p \in Processes, NEW place \in Early \cup Late, StarterGoes(p, place),
           UNCHANGED <<personas, export, migration>>, starts' \in 0..MaxStarts, deleting' = deleting,
           migration = NoStateRow => place \in Early, place # "up" /\ place # "derive" /\ place # "commit",
           place \in {"write", "replace", "verify"} => Faithful(starter[p].records),
           place = "place" /\ export = NoExport => Faithful(starter[p].records),
           place = "store" => export \notin {NoExport, Foreign}
    PROVE  PersonasInv'
<1> DEFINE rec == [starter[p] EXCEPT !.at = place]
<1>1. /\ rec \in StarterRecord /\ rec.at = place /\ rec.records = starter[p].records
      /\ starter' = [starter EXCEPT ![p] = rec]
  BY Starts DEF StarterGoes
<1> HIDE DEF rec
<1>2. WriterOK(rec) /\ DeriveOK(rec) BY <1>1 DEF WriterOK, DeriveOK
<1>3. deleting' \subseteq PersonaIds BY DEF PersonasInv, PersonasData
<1> QED BY <1>1, <1>2, <1>3, StarterStep

\* No state row, no step of the second half.
LEMMA LateHasRow ==
    ASSUME PersonasInv, NEW p \in Processes, starter[p].at \in Late
    PROVE  migration \in MigrationRow /\ migration # NoStateRow
  BY DEF PersonasInv, PersonasData, UntouchedOK, Early, Late

\* The head half of a start.
LEMMA EarlySteps ==
    ASSUME PersonasInv, NEW p \in Processes,
           \/ StartProcess(p) \/ ProcessDies(p) \/ LoadState(p) \/ ValidateUnchanged(p)
           \/ ReadLegacy(p) \/ PlaceExport(p) \/ CheckFree(p) \/ VerifyExport(p)
    PROVE  PersonasInv'
<1>1. starter[p] \in StarterRecord /\ starts \in 0..MaxStarts /\ MaxStarts \in Nat
      /\ deleting \subseteq PersonaIds
  BY PersonasAssumption DEF PersonasInv, PersonasData
<1>2. WriterOK(starter[p]) /\ ExportOK /\ UntouchedOK BY DEF PersonasInv
<1>3. CASE StartProcess(p)
  <2>1. starts' \in 0..MaxStarts BY <1>1, <1>3 DEF StartProcess
  <2>2. "load" \in Early BY DEF Early
  <2> QED BY <1>3, <2>1, <2>2, StartGoesOn DEF StartProcess
<1>4. CASE ProcessDies(p)
  <2> DEFINE rec == [at |-> "down", records |-> {}, status |-> ""]
  <2>1. rec \in StarterRecord /\ rec.at = "down" /\ rec.at \in Early BY DEF StarterRecord, Early
  <2>2. starter' = [starter EXCEPT ![p] = rec] /\ UNCHANGED <<personas, export, migration, starts>>
        /\ deleting' \subseteq PersonaIds
    BY <1>1, <1>4 DEF ProcessDies
  <2> HIDE DEF rec
  <2>3. WriterOK(rec) /\ DeriveOK(rec) BY <2>1 DEF WriterOK, DeriveOK
  <2> QED BY <1>1, <2>1, <2>2, <2>3, StarterStep
<1>5. CASE LoadState(p)
  <2>1. PICK place \in {"read", "refused", "unchanged", "sync"} :
           /\ starter' = [starter EXCEPT ![p].at = place]
           /\ migration = NoStateRow => place = "read"
    <3> DEFINE q == starter[p]
    <3>1. starter' = [starter EXCEPT ![p] =
                     IF migration = NoStateRow THEN [q EXCEPT !.at = "read"]
                     ELSE IF export # migration.digest THEN [q EXCEPT !.at = "refused"]
                     ELSE [q EXCEPT !.at = IF migration.status = "exported" THEN "unchanged"
                                           ELSE "sync"]]
      BY <1>5 DEF LoadState
    <3> QED BY <3>1
  <2>2. place \in Early \cup Late /\ place \notin {"up", "derive", "commit", "write", "replace", "verify",
                                              "place", "store"}
        /\ (migration = NoStateRow => place \in Early)
    BY <2>1 DEF Early, Late
  <2> QED BY <1>1, <1>5, <2>1, <2>2, StartGoesOn DEF LoadState, StarterGoes
<1>6. CASE ValidateUnchanged(p)
  <2>1. migration # NoStateRow BY <1>6, LateHasRow DEF ValidateUnchanged, StarterAt, Late
  <2>2. PICK place \in {"sync", "refused"} : StarterGoes(p, place)
    BY <1>6 DEF ValidateUnchanged
  <2>3. place \in Early \cup Late /\ place \notin {"up", "derive", "commit", "write", "replace", "verify",
                                              "place", "store"}
    BY <2>2 DEF Early, Late
  <2> QED BY <1>1, <1>6, <2>1, <2>2, <2>3, StartGoesOn DEF ValidateUnchanged
<1>7. CASE ReadLegacy(p)
  <2> DEFINE rec == [starter[p] EXCEPT !.records = Records, !.at = "place"]
  <2>1. Records \in SUBSET ExportRecord BY RecordsAre DEF PersonasInv
  <2>2. rec \in StarterRecord /\ rec.at = "place" /\ rec.records = Records /\ "place" \in Early
    BY <1>1, <2>1 DEF StarterRecord, Early
  <2>3. starter' = [starter EXCEPT ![p] = rec] /\ UNCHANGED <<personas, export, migration, starts, deleting>>
    BY <1>7 DEF ReadLegacy
  <2> HIDE DEF rec
  <2>4. export = NoExport => Faithful(Records)
    <3> SUFFICES ASSUME export = NoExport, NEW i \in Legacy
                 PROVE  [id |-> i, traits |-> "hand", ocean |-> 0] \in Records
      BY DEF Faithful
    <3>1. migration = NoStateRow BY <1>2 DEF ExportOK
    <3>2. i \in DOMAIN personas /\ personas[i].traits = "hand" /\ personas[i].ocean = 0
      BY <1>2, <3>1 DEF UntouchedOK
    <3>3. [id |-> i, traits |-> personas[i].traits, ocean |-> personas[i].ocean] \in Records
      BY <3>2, RecordsAre DEF PersonasInv
    <3> QED BY <3>2, <3>3
  <2>5. WriterOK(rec) /\ DeriveOK(rec) BY <2>2, <2>4 DEF WriterOK, DeriveOK
  <2> QED BY <1>1, <2>2, <2>3, <2>5, StarterStep
<1>8. CASE PlaceExport(p)
  <2>1. PICK place \in {"write", "store", "refused"} :
           /\ StarterGoes(p, place)
           /\ place = "write" => export = NoExport
           /\ place = "store" => export = starter[p].records
    BY <1>8 DEF PlaceExport, IsOurExport
  <2>2. starter[p].records \notin {NoExport, Foreign} BY <1>1, PersonasAssumption DEF StarterRecord
  <2>3. place = "write" => Faithful(starter[p].records)
    BY <1>2, <1>8, <2>1 DEF WriterOK, PlaceExport, StarterAt
  <2>4. place \in Early /\ place \notin {"up", "derive", "commit", "replace", "verify", "place"}
    BY <2>1 DEF Early
  <2> QED BY <1>1, <1>8, <2>1, <2>2, <2>3, <2>4, StartGoesOn DEF PlaceExport
<1>9. CASE CheckFree(p)
  <2>1. PICK place \in {"replace", "refused"} : StarterGoes(p, place) BY <1>9 DEF CheckFree
  <2>2. Faithful(starter[p].records) BY <1>2, <1>9 DEF WriterOK, CheckFree, StarterAt
  <2>3. place \in Early /\ place \notin {"up", "derive", "commit", "write", "verify", "place", "store"}
    BY <2>1 DEF Early
  <2> QED BY <1>1, <1>9, <2>1, <2>2, <2>3, StartGoesOn DEF CheckFree
<1>10. CASE VerifyExport(p)
  <2>1. PICK place \in {"store", "refused"} :
           StarterGoes(p, place) /\ (place = "store" => export = starter[p].records)
    BY <1>10 DEF VerifyExport
  <2>2. starter[p].records \notin {NoExport, Foreign} BY <1>1, PersonasAssumption DEF StarterRecord
  <2>3. place \in Early /\ place \notin {"up", "derive", "commit", "write", "replace", "verify", "place"}
    BY <2>1 DEF Early
  <2> QED BY <1>1, <1>10, <2>1, <2>2, <2>3, StartGoesOn DEF VerifyExport
<1> QED BY <1>3, <1>4, <1>5, <1>6, <1>7, <1>8, <1>9, <1>10

\* The export is put in its place: what is in it keeps the traits.
LEMMA ReplaceStep ==
    ASSUME PersonasInv, NEW p \in Processes, ReplaceExport(p)
    PROVE  PersonasInv'
<1> DEFINE rec == [starter[p] EXCEPT !.at = "verify"]
<1>1. starter[p] \in StarterRecord /\ starter[p].at = "replace" BY DEF PersonasInv, PersonasData, ReplaceExport, StarterAt
<1>2. /\ rec \in StarterRecord /\ rec.at = "verify" /\ rec.records = starter[p].records
      /\ starter' = [starter EXCEPT ![p] = rec] /\ "verify" \in Early
  <2>1. "verify" \in Early BY DEF Early
  <2> QED BY <2>1, Starts DEF ReplaceExport, StarterGoes
<1>3. Faithful(starter[p].records) BY <1>1 DEF PersonasInv, WriterOK
<1>4. /\ export' = starter[p].records /\ export' \in SUBSET ExportRecord
      /\ export' \notin {NoExport, Foreign} /\ UNCHANGED <<personas, migration, starts, deleting>>
  BY <1>1, PersonasAssumption DEF ReplaceExport, StarterRecord
<1> HIDE DEF rec
<1>5. /\ starter' \in [Processes -> StarterRecord]
      /\ \A q \in Processes : starter'[q] = IF q = p THEN rec ELSE starter[q]
  BY <1>2 DEF PersonasInv, PersonasData
<1>6. PersonasData' BY <1>4, <1>5 DEF PersonasInv, PersonasData
<1>7. OneActive' BY <1>4 DEF PersonasInv, OneActive
<1>8. UntouchedOK' BY <1>2, <1>4, <1>5 DEF PersonasInv, UntouchedOK
<1>9. ExportOK' BY <1>3, <1>4 DEF ExportOK, Faithful
<1>10. Completed' = Completed BY <1>4 DEF Completed
<1>11. LevelsOK'
  <2>1. Up' => Up BY <1>2, <1>5 DEF Up, StarterAt, Processes
  <2> QED BY <1>4, <1>10, <2>1 DEF PersonasInv, LevelsOK, LevelsCurrent
<1>12. ASSUME NEW q \in Processes PROVE WriterOK(starter[q])' /\ DeriveOK(starter[q])'
  <2>1. CASE q = p
    <3>1. starter'[q] = rec BY <1>5, <2>1
    <3> QED BY <1>2, <1>3, <3>1 DEF WriterOK, DeriveOK, Faithful
  <2>2. CASE q # p
    <3>1. starter'[q] = starter[q] BY <1>5, <2>2
    <3>2. WriterOK(starter[q]) /\ DeriveOK(starter[q]) BY DEF PersonasInv
    <3>3. WriterOK(starter[q])' BY <1>4, <3>1, <3>2 DEF WriterOK, Faithful
    <3>4. DeriveOK(starter[q])' BY <1>4, <1>10, <3>1, <3>2 DEF DeriveOK
    <3> QED BY <3>3, <3>4
  <2> QED BY <2>1, <2>2
<1> QED BY <1>6, <1>7, <1>8, <1>9, <1>11, <1>12 DEF PersonasInv

\* The state row is written.
LEMMA StoreStep ==
    ASSUME PersonasInv, NEW p \in Processes, StoreExported(p)
    PROVE  PersonasInv'
<1>1. starter[p] \in StarterRecord /\ starter[p].at = "store" /\ export \notin {NoExport, Foreign}
  BY DEF PersonasInv, PersonasData, StoreExported, StarterAt, WriterOK
<1>2. CASE migration # NoStateRow
  <2>1. StarterGoes(p, "refused") /\ UNCHANGED <<personas, export, migration, starts, deleting>>
    BY <1>2 DEF StoreExported
  <2>2. "refused" \in Early /\ starts \in 0..MaxStarts BY DEF Early, PersonasInv, PersonasData
  <2> QED BY <1>2, <2>1, <2>2, StartGoesOn
<1>3. CASE migration = NoStateRow
  <2> DEFINE rec == [starter[p] EXCEPT !.at = "sync"]
             row == [status |-> "exported", digest |-> export]
  <2>1. /\ rec \in StarterRecord /\ rec.at = "sync" /\ starter' = [starter EXCEPT ![p] = rec]
    <3>1. "sync" \in Late BY DEF Late
    <3> QED BY <1>3, <3>1, Starts DEF StoreExported, StarterGoes
  <2>2. export \in SUBSET ExportRecord BY <1>1 DEF PersonasInv, PersonasData
  <2>3. row \in MigrationRow /\ row # NoStateRow /\ row.status = "exported"
    <3>1. row \in MigrationRow BY <2>2 DEF MigrationRow
    <3> QED BY <3>1, PersonasAssumption
  <2>4. migration' = row /\ UNCHANGED <<personas, export, starts, deleting>>
    BY <1>3 DEF StoreExported
  <2> HIDE DEF rec, row
  <2>5. /\ starter' \in [Processes -> StarterRecord]
        /\ \A q \in Processes : starter'[q] = IF q = p THEN rec ELSE starter[q]
    BY <2>1 DEF PersonasInv, PersonasData
  <2>6. PersonasData' BY <2>3, <2>4, <2>5 DEF PersonasInv, PersonasData
  <2>7. OneActive' BY <2>4 DEF PersonasInv, OneActive
  <2>8. UntouchedOK' BY <2>3, <2>4 DEF UntouchedOK
  <2>9. ExportOK' BY <1>1, <2>4 DEF PersonasInv, ExportOK, Faithful
  <2>10. ~Completed /\ ~Completed' BY <1>3, <2>3, <2>4 DEF Completed
  <2>11. LevelsOK'
    <3>1. Up' => Up BY <2>1, <2>5 DEF Up, StarterAt, Processes
    <3> QED BY <2>4, <2>10, <3>1 DEF PersonasInv, LevelsOK
  <2>12. ASSUME NEW q \in Processes PROVE WriterOK(starter[q])' /\ DeriveOK(starter[q])'
    <3>1. CASE q = p
      <4>1. starter'[q].at = "sync" BY <2>1, <2>5, <3>1
      <4> QED BY <4>1 DEF WriterOK, DeriveOK
    <3>2. CASE q # p
      <4>1. starter'[q] = starter[q] BY <2>5, <3>2
      <4>2. WriterOK(starter[q]) /\ DeriveOK(starter[q]) BY DEF PersonasInv
      <4>3. WriterOK(starter[q])' BY <2>4, <4>1, <4>2 DEF WriterOK, Faithful
      <4>4. DeriveOK(starter[q])' BY <2>4, <2>10, <4>1, <4>2 DEF DeriveOK
      <4> QED BY <4>3, <4>4
    <3> QED BY <3>1, <3>2
  <2> QED BY <2>6, <2>7, <2>8, <2>9, <2>11, <2>12 DEF PersonasInv
<1> QED BY <1>2, <1>3

\* sync_builtin_personas.
LEMMA SyncStep ==
    ASSUME PersonasInv, NEW p \in Processes, SyncBuiltins(p)
    PROVE  PersonasInv'
<1> DEFINE conflict == \E i \in Presets \cap DOMAIN personas : ~personas[i].builtin
           preset(i) == Row("derived", 1, 1, TRUE,
                            IF i \in DOMAIN personas THEN personas[i].active ELSE FALSE)
           synced == [i \in DOMAIN personas \cup Presets |->
                        IF i \notin Presets THEN personas[i] ELSE preset(i)]
<1>1. PICK place \in {"refused", "status"} : StarterGoes(p, place) BY DEF SyncBuiltins
<1>2. /\ personas' = IF p = "cli" \/ conflict THEN personas ELSE synced
      /\ UNCHANGED <<export, migration, starts, deleting>>
      /\ migration # NoStateRow /\ starts \in 0..MaxStarts /\ deleting \subseteq PersonaIds
      /\ place \in Early \cup Late
  <2>1. starter[p].at \in Late BY DEF SyncBuiltins, StarterAt, Late
  <2> QED BY <1>1, <2>1, LateHasRow DEF SyncBuiltins, PersonasInv, PersonasData, Early, Late
<1>3. CASE p = "cli" \/ conflict
  BY <1>1, <1>2, <1>3, StartGoesOn
<1>4. CASE ~(p = "cli" \/ conflict)
  <2>1. personas' = synced /\ \A i \in Presets \cap DOMAIN personas : personas[i].builtin
    BY <1>2, <1>4
  <2>2. \A i \in DOMAIN personas : i \in PersonaIds /\ personas[i] \in PersonaRow
    BY DEF PersonasInv, PersonasData
  <2>3. ASSUME NEW i \in Presets
        PROVE  /\ preset(i) \in PersonaRow /\ preset(i).ocean = 1 /\ preset(i).levels = 1
               /\ preset(i).active => i \in DOMAIN personas /\ personas[i].active
    <3> DEFINE on == IF i \in DOMAIN personas THEN personas[i].active ELSE FALSE
    <3>1. on \in BOOLEAN /\ (on => i \in DOMAIN personas /\ personas[i].active)
      BY <2>2 DEF PersonaRow
    <3>2. preset(i) = [traits |-> "derived", ocean |-> 1, levels |-> 1, builtin |-> TRUE, active |-> on]
      BY DEF Row
    <3> HIDE DEF on, preset
    <3>3. 1 \in Oceans BY DEF Oceans
    <3>4. preset(i) \in PersonaRow BY <3>1, <3>2, <3>3 DEF PersonaRow
    <3>5. preset(i).ocean = 1 /\ preset(i).levels = 1 BY <3>2
    <3>6. preset(i).active = on BY <3>2
    <3> QED BY <3>1, <3>4, <3>5, <3>6
  <2> HIDE DEF preset
  <2>4. /\ DOMAIN personas' = DOMAIN personas \cup Presets
        /\ \A i \in DOMAIN personas \cup Presets :
              personas'[i] = IF i \notin Presets THEN personas[i] ELSE preset(i)
    BY <2>1
  <2>5. personas' \in [DOMAIN personas' -> PersonaRow] BY <2>1, <2>2, <2>3
  <2>6. DOMAIN personas' \subseteq PersonaIds BY <2>2, <2>4 DEF PersonaIds
  <2>7. OneActive' BY <2>3, <2>4 DEF PersonasInv, OneActive
  <2>8. \A i \in DOMAIN personas' :
              personas'[i].builtin => personas'[i].ocean = 1 /\ personas'[i].levels = 1
    BY <2>3, <2>4 DEF PersonasInv, LevelsOK
  <2>9. Completed => LevelsCurrent' BY <2>3, <2>4 DEF PersonasInv, LevelsOK, LevelsCurrent
  <2>10. \A i \in DOMAIN personas : personas'[i].ocean = personas[i].ocean
    BY <2>1, <2>3, <2>4 DEF PersonasInv, LevelsOK
  <2>11. Completed' = Completed BY <1>2 DEF Completed
  <2>12. starter' \in [Processes -> StarterRecord]
        /\ \A q \in Processes : starter'[q] = starter[q] \/ starter'[q].at \in {"status", "refused"}
    <3> DEFINE rec == [starter[p] EXCEPT !.at = place]
    <3>1. rec \in StarterRecord /\ rec.at = place /\ starter' = [starter EXCEPT ![p] = rec]
      BY <1>1, <1>2, Starts DEF StarterGoes
    <3> HIDE DEF rec
    <3> QED BY <1>1, <3>1 DEF PersonasInv, PersonasData
  <2>13. ASSUME ~Completed, NEW q \in Processes PROVE DeriveOK(starter[q])'
    <3>1. CASE starter'[q] = starter[q]
      <4>1. DeriveOK(starter[q]) BY DEF PersonasInv
      <4>2. starter[q].at = "commit" =>
               /\ \A r \in starter[q].records :
                    r.id \in DOMAIN personas' /\ r.ocean = personas'[r.id].ocean
               /\ \A i \in DOMAIN personas' :
                    personas'[i].levels # personas'[i].ocean => \E r \in starter[q].records : r.id = i
        BY <2>3, <2>4, <2>10, <2>13, <4>1 DEF DeriveOK
      <4> QED BY <2>11, <3>1, <4>1, <4>2 DEF DeriveOK
    <3>2. CASE starter'[q].at \in {"status", "refused"} BY <3>2 DEF DeriveOK
    <3> QED BY <2>12, <3>1, <3>2
  <2> HIDE DEF synced
  <2> QED BY <1>2, <2>5, <2>6, <2>7, <2>8, <2>9, <2>12, <2>13, TableStep
<1> QED BY <1>3, <1>4

\* complete_persona_level_migration reads.
LEMMA DeriveSteps ==
    ASSUME PersonasInv, NEW p \in Processes, LoadStatus(p) \/ DeriveLevels(p)
    PROVE  PersonasInv'
<1>1. /\ starter[p] \in StarterRecord /\ starts \in 0..MaxStarts /\ deleting \subseteq PersonaIds
      /\ DeriveOK(starter[p])
  BY DEF PersonasInv, PersonasData
<1>2. migration \in MigrationRow /\ migration # NoStateRow
  <2>1. starter[p].at \in Late BY DEF LoadStatus, DeriveLevels, StarterAt, Late
  <2> QED BY <2>1, LateHasRow
<1>3. CASE LoadStatus(p)
  <2> DEFINE rec == [starter[p] EXCEPT !.status = migration.status, !.at = "derive"]
  <2>1. migration.status \in {"exported", "completed"} BY <1>2 DEF MigrationRow
  <2>2. rec \in StarterRecord /\ rec.at = "derive" /\ rec.status = migration.status
    BY <1>1, <2>1 DEF StarterRecord, Late
  <2>3. starter' = [starter EXCEPT ![p] = rec] /\ UNCHANGED <<personas, export, migration, starts, deleting>>
    BY <1>3 DEF LoadStatus
  <2> HIDE DEF rec
  <2>4. WriterOK(rec) BY <2>2 DEF WriterOK
  <2>5. DeriveOK(rec) BY <1>2, <2>1, <2>2 DEF DeriveOK, Completed
  <2> QED BY <1>1, <1>2, <2>2, <2>3, <2>4, <2>5, StarterStep
<1>4. CASE DeriveLevels(p)
  <2> DEFINE place == IF starter[p].status = "exported" THEN "commit"
                      ELSE IF LevelsCurrent THEN "up" ELSE "refused"
             rec == [starter[p] EXCEPT !.records = Records, !.at = place]
  <2>1. place \in {"commit", "up", "refused"} /\ place \in Early \cup Late BY DEF Early, Late
  <2>2. place = "up" => Completed
    BY <1>1, <1>4 DEF DeriveOK, DeriveLevels, StarterAt, StarterRecord
  <2>3. starter' = [starter EXCEPT ![p] = rec] /\ UNCHANGED <<personas, export, migration, starts, deleting>>
    BY <1>4 DEF DeriveLevels
  <2> HIDE DEF place
  <2>4. Records \in SUBSET ExportRecord BY RecordsAre DEF PersonasInv
  <2>5. rec \in StarterRecord /\ rec.at = place /\ rec.records = Records
    BY <1>1, <2>1, <2>4 DEF StarterRecord
  <2> HIDE DEF rec
  <2>6. WriterOK(rec) BY <2>1, <2>5 DEF WriterOK
  <2>7. /\ \A r \in Records : r.id \in DOMAIN personas /\ r.ocean = personas[r.id].ocean
        /\ \A i \in DOMAIN personas : \E r \in Records : r.id = i
    BY RecordsAre DEF PersonasInv
  <2>8. DeriveOK(rec) BY <2>1, <2>5, <2>7 DEF DeriveOK
  <2> QED BY <1>1, <1>2, <2>1, <2>2, <2>3, <2>5, <2>6, <2>8, StarterStep
<1> QED BY <1>3, <1>4

\* ... and writes, unless another process has.
LEMMA CommitStep ==
    ASSUME PersonasInv, NEW p \in Processes, CommitLevels(p)
    PROVE  PersonasInv'
<1>1. /\ starter[p] \in StarterRecord /\ starter[p].at = "commit" /\ DeriveOK(starter[p])
      /\ starts \in 0..MaxStarts
  BY DEF PersonasInv, PersonasData, CommitLevels, StarterAt
<1>2. migration \in MigrationRow /\ migration # NoStateRow
  BY <1>1, LateHasRow DEF Late
<1>3. CASE ~MayComplete
  <2>1. StarterGoes(p, "refused") /\ UNCHANGED <<personas, export, migration, starts, deleting>>
    BY <1>3 DEF CommitLevels
  <2>2. "refused" \in Early BY DEF Early
  <2> QED BY <1>1, <1>2, <2>1, <2>2, StartGoesOn
<1>4. CASE MayComplete
  <2> DEFINE rec == [starter[p] EXCEPT !.at = "up"]
             row == [migration EXCEPT !.status = "completed"]
             read(i) == \E r \in starter[p].records : r.id = i
             level(i) == (CHOOSE r \in starter[p].records : r.id = i).ocean
             derived(i) == [personas[i] EXCEPT !.levels = level(i)]
  <2>1. /\ rec \in StarterRecord /\ rec.at = "up" /\ starter' = [starter EXCEPT ![p] = rec]
    <3>1. "up" \in Late BY DEF Late
    <3> QED BY <1>4, <3>1, Starts DEF CommitLevels, StarterGoes
  <2>2. /\ personas' = [i \in DOMAIN personas |-> IF read(i) THEN derived(i) ELSE personas[i]]
        /\ migration' = row /\ UNCHANGED <<export, starts, deleting>>
    BY <1>4 DEF CommitLevels
  <2>3. row \in MigrationRow /\ row # NoStateRow /\ row.status = "completed"
    <3>1. row \in MigrationRow /\ row.status = "completed" BY <1>2 DEF MigrationRow
    <3> QED BY <3>1, PersonasAssumption
  <2>4. ~Completed BY <1>4 DEF Completed, MayComplete
  <2>5. ASSUME NEW i \in DOMAIN personas
        PROVE  /\ personas'[i] \in PersonaRow /\ personas'[i].levels = personas'[i].ocean
               /\ personas'[i].ocean = personas[i].ocean /\ personas'[i].active = personas[i].active
               /\ personas'[i].builtin = personas[i].builtin
    <3>1. personas[i] \in PersonaRow BY DEF PersonasInv, PersonasData
    <3>2. CASE read(i)
      <4>1. level(i) = personas[i].ocean BY <1>1, <2>4, <3>2 DEF DeriveOK
      <4> HIDE DEF level
      <4>2. level(i) \in Oceans BY <3>1, <4>1 DEF PersonaRow
      <4>3. /\ derived(i) \in PersonaRow /\ derived(i).levels = level(i)
            /\ derived(i).ocean = personas[i].ocean /\ derived(i).active = personas[i].active
            /\ derived(i).builtin = personas[i].builtin
        BY <3>1, <4>2 DEF PersonaRow
      <4> HIDE DEF derived
      <4>4. personas'[i] = derived(i) BY <2>2, <3>2
      <4> QED BY <4>1, <4>3, <4>4
    <3>3. CASE ~read(i)
      <4>1. personas[i].levels = personas[i].ocean BY <1>1, <2>4, <3>3 DEF DeriveOK
      <4>2. personas'[i] = personas[i] BY <2>2, <3>3
      <4> QED BY <3>1, <4>1, <4>2
    <3> QED BY <3>2, <3>3
  <2>6. DOMAIN personas' = DOMAIN personas BY <2>2
  <2>7. personas' \in [DOMAIN personas' -> PersonaRow] BY <2>2, <2>5
  <2> HIDE DEF rec, row, read, level, derived
  <2>8. /\ starter' \in [Processes -> StarterRecord]
        /\ \A q \in Processes : starter'[q] = IF q = p THEN rec ELSE starter[q]
    BY <2>1 DEF PersonasInv, PersonasData
  <2>9. PersonasData'
    BY <2>2, <2>3, <2>6, <2>7, <2>8 DEF PersonasInv, PersonasData
  <2>10. OneActive' BY <2>5, <2>6 DEF PersonasInv, OneActive
  <2>11. UntouchedOK' BY <2>2, <2>3 DEF UntouchedOK
  <2>12. ExportOK' BY <1>2, <2>2 DEF PersonasInv, ExportOK, Faithful
  <2>13. Completed' BY <2>2, <2>3 DEF Completed
  <2>14. LevelsOK'
    BY <2>5, <2>6, <2>13 DEF PersonasInv, LevelsOK, LevelsCurrent
  <2>15. ASSUME NEW q \in Processes PROVE WriterOK(starter[q])' /\ DeriveOK(starter[q])'
    <3>1. CASE q = p
      <4>1. starter'[q].at = "up" BY <2>1, <2>8, <3>1
      <4> QED BY <4>1 DEF WriterOK, DeriveOK
    <3>2. CASE q # p
      <4>1. starter'[q] = starter[q] BY <2>8, <3>2
      <4>2. WriterOK(starter[q]) /\ DeriveOK(starter[q]) BY DEF PersonasInv
      <4>3. WriterOK(starter[q])' BY <2>2, <4>1, <4>2 DEF WriterOK, Faithful
      <4>4. DeriveOK(starter[q])' BY <2>13, <4>1, <4>2 DEF DeriveOK
      <4> QED BY <4>3, <4>4
    <3> QED BY <3>1, <3>2
  <2> QED BY <2>9, <2>10, <2>11, <2>12, <2>14, <2>15 DEF PersonasInv
<1> QED BY <1>3, <1>4

\* The endpoints, served by a desktop that is up.
LEMMA EndpointSteps ==
    ASSUME PersonasInv, NEW i \in PersonaIds,
           \/ \E o \in Oceans : create_persona(i, o) \/ update_persona(i, o)
           \/ check_delete(i) \/ delete_persona(i) \/ set_active_persona(i)
    PROVE  PersonasInv'
<1>1. /\ Up /\ Completed /\ LevelsCurrent /\ migration # NoStateRow
      /\ UNCHANGED <<export, migration, starter, starts>>
  BY DEF create_persona, update_persona, check_delete, delete_persona, set_active_persona,
         PersonasInv, LevelsOK, Completed
<1>2. /\ starter' \in [Processes -> StarterRecord] /\ \A p \in Processes : starter'[p] = starter[p]
      /\ deleting \subseteq PersonaIds /\ DOMAIN personas \subseteq PersonaIds
      /\ \A j \in DOMAIN personas : personas[j] \in PersonaRow
      /\ personas \in [DOMAIN personas -> PersonaRow]
  BY <1>1 DEF PersonasInv, PersonasData
<1>3. /\ \A j \in DOMAIN personas : personas[j].levels = personas[j].ocean
      /\ \A j \in DOMAIN personas :
            personas[j].builtin => personas[j].ocean = 1 /\ personas[j].levels = 1
      /\ \A j, k \in DOMAIN personas : personas[j].active /\ personas[k].active => j = k
  BY <1>1 DEF PersonasInv, LevelsOK, LevelsCurrent, OneActive
<1> DEFINE Whole ==
         /\ DOMAIN personas' \subseteq PersonaIds /\ personas' \in [DOMAIN personas' -> PersonaRow]
         /\ \A j \in DOMAIN personas' :
               /\ personas'[j].levels = personas'[j].ocean
               /\ personas'[j].builtin => personas'[j].ocean = 1 /\ personas'[j].levels = 1
         /\ \A j, k \in DOMAIN personas' : personas'[j].active /\ personas'[k].active => j = k
<1>4. SUFFICES deleting' \subseteq PersonaIds /\ Whole
  BY <1>1, <1>2, TableStep DEF OneActive, LevelsCurrent
<1>5. ASSUME NEW o \in Oceans, NEW on \in BOOLEAN
      PROVE  /\ Row("derived", o, o, FALSE, on) \in PersonaRow
             /\ Row("derived", o, o, FALSE, on).levels = Row("derived", o, o, FALSE, on).ocean
             /\ Row("derived", o, o, FALSE, on).builtin = FALSE
             /\ Row("derived", o, o, FALSE, on).active = on
  <2> DEFINE row == [traits |-> "derived", ocean |-> o, levels |-> o, builtin |-> FALSE, active |-> on]
  <2>1. row \in PersonaRow BY DEF PersonaRow
  <2>2. row.levels = row.ocean OBVIOUS
  <2>3. row.builtin = FALSE OBVIOUS
  <2>4. row.active = on OBVIOUS
  <2> QED BY <2>1, <2>2, <2>3, <2>4 DEF Row
<1>6. ASSUME NEW o \in Oceans, create_persona(i, o) PROVE deleting' \subseteq PersonaIds /\ Whole
  <2> DEFINE row == Row("derived", o, o, FALSE, FALSE)
  <2>1. /\ row \in PersonaRow /\ row.levels = row.ocean /\ row.builtin = FALSE /\ row.active = FALSE
    BY <1>5
  <2>2. /\ personas' = [j \in DOMAIN personas \cup {i} |-> IF j = i THEN row ELSE personas[j]]
        /\ deleting' = deleting
    BY <1>6 DEF create_persona
  <2> HIDE DEF row
  <2>3. DOMAIN personas' = DOMAIN personas \cup {i} BY <2>2
  <2>4. \A j \in DOMAIN personas' : personas'[j] = IF j = i THEN row ELSE personas[j] BY <2>2
  <2>5. personas' \in [DOMAIN personas' -> PersonaRow] BY <1>2, <2>1, <2>2
  <2> QED BY <1>2, <1>3, <2>1, <2>2, <2>3, <2>4, <2>5
<1>7. ASSUME NEW o \in Oceans, update_persona(i, o) PROVE deleting' \subseteq PersonaIds /\ Whole
  <2> DEFINE row == Row("derived", o, o, FALSE, personas[i].active)
  <2>1. i \in DOMAIN personas /\ personas[i].active \in BOOLEAN
    BY <1>2, <1>7 DEF update_persona, PersonaRow
  <2>2. /\ row \in PersonaRow /\ row.levels = row.ocean /\ row.builtin = FALSE
        /\ row.active = personas[i].active
    BY <1>5, <2>1
  <2>3. personas' = [personas EXCEPT ![i] = row] /\ deleting' = deleting
    BY <1>7 DEF update_persona
  <2> HIDE DEF row
  <2>4. DOMAIN personas' = DOMAIN personas BY <2>3
  <2>5. \A j \in DOMAIN personas' : personas'[j] = IF j = i THEN row ELSE personas[j] BY <1>2, <2>3
  <2>6. personas' \in [DOMAIN personas' -> PersonaRow] BY <1>2, <2>2, <2>3, <2>4
  <2> QED BY <1>2, <1>3, <2>1, <2>2, <2>3, <2>4, <2>5, <2>6
<1>8. ASSUME check_delete(i) PROVE deleting' \subseteq PersonaIds /\ Whole
  BY <1>2, <1>3, <1>8 DEF check_delete
<1>9. ASSUME delete_persona(i) PROVE deleting' \subseteq PersonaIds /\ Whole
  <2>1. personas' = [j \in DOMAIN personas \ {i} |-> personas[j]] /\ deleting' = {}
    BY <1>9 DEF delete_persona
  <2>2. /\ DOMAIN personas' = DOMAIN personas \ {i}
        /\ \A j \in DOMAIN personas' : personas'[j] = personas[j]
    BY <2>1
  <2>3. personas' \in [DOMAIN personas' -> PersonaRow] BY <1>2, <2>1
  <2> QED BY <1>2, <1>3, <2>1, <2>2, <2>3
<1>10. ASSUME set_active_persona(i) PROVE deleting' \subseteq PersonaIds /\ Whole
  <2> DEFINE turned(j) == [personas[j] EXCEPT !.active = (j = i)]
  <2>1. personas' = [j \in DOMAIN personas |-> turned(j)] /\ deleting' = deleting
    BY <1>10 DEF set_active_persona
  <2>2. ASSUME NEW j \in DOMAIN personas
        PROVE  /\ turned(j) \in PersonaRow /\ turned(j).levels = personas[j].levels
               /\ turned(j).ocean = personas[j].ocean /\ turned(j).builtin = personas[j].builtin
               /\ turned(j).active = (j = i)
    <3>1. personas[j] \in PersonaRow /\ (j = i) \in BOOLEAN BY <1>2
    <3> QED BY <3>1 DEF PersonaRow
  <2> HIDE DEF turned
  <2>3. /\ DOMAIN personas' = DOMAIN personas
        /\ \A j \in DOMAIN personas' : personas'[j] = turned(j)
    BY <2>1
  <2>4. personas' \in [DOMAIN personas' -> PersonaRow] BY <2>1, <2>2
  <2>5. \A j \in DOMAIN personas' :
           /\ personas'[j].levels = personas'[j].ocean
           /\ personas'[j].builtin => personas'[j].ocean = 1 /\ personas'[j].levels = 1
    BY <1>3, <2>2, <2>3
  <2>6. \A j \in DOMAIN personas' : personas'[j].active => j = i BY <2>2, <2>3
  <2>7. deleting' \subseteq PersonaIds /\ DOMAIN personas' \subseteq PersonaIds BY <1>2, <2>1, <2>3
  <2> QED BY <2>4, <2>5, <2>6, <2>7
<1> QED BY <1>6, <1>7, <1>8, <1>9, <1>10

LEMMA PersonasStep == PersonasInv /\ [PersonasNext]_personaVars => PersonasInv'
<1> SUFFICES ASSUME PersonasInv, [PersonasNext]_personaVars PROVE PersonasInv' OBVIOUS
<1>1. CASE UNCHANGED personaVars
  BY <1>1 DEF personaVars, PersonasInv, PersonasData, OneActive, UntouchedOK, ExportOK, LevelsOK,
              WriterOK, DeriveOK, Faithful, Completed, LevelsCurrent, Up, StarterAt
<1>2. ASSUME NEW p \in Processes, PersonaStep(p) PROVE PersonasInv'
  BY <1>2, EarlySteps, ReplaceStep, StoreStep, SyncStep, DeriveSteps, CommitStep DEF PersonaStep
<1> QED BY <1>1, <1>2, EndpointSteps DEF PersonasNext

\* Types of the personas, the export, the state row, the processes and the endpoints.
THEOREM PersonasTypeCorrect == PersonasSpec => []PersonasTypeOK
<1>1. PersonasInv => PersonasTypeOK
  <2> SUFFICES ASSUME PersonasInv PROVE PersonasTypeOK OBVIOUS
  <2>1. \A i \in DOMAIN personas : personas[i] \in PersonaRow BY DEF PersonasInv, PersonasData
  <2>2. migration = NoStateRow \/ migration.status \in {"exported", "completed"}
    BY DEF PersonasInv, PersonasData, MigrationRow
  <2> DEFINE active == {i \in DOMAIN personas : personas[i].active}
  <2>3. Cardinality(active) <= 1
    <3>1. CASE active = {} BY <3>1, FS_EmptySet
    <3>2. CASE active # {}
      <4>1. PICK i \in active : TRUE BY <3>2
      <4>2. active = {i} BY DEF PersonasInv, OneActive
      <4>3. Cardinality({i}) = 1 BY FS_Singleton
      <4> QED BY <4>2, <4>3
    <3> QED BY <3>1, <3>2
  <2>4. DOMAIN personas \subseteq PersonaIds /\ starts \in 0..MaxStarts /\ deleting \subseteq PersonaIds
    BY DEF PersonasInv, PersonasData
  <2> QED BY <2>1, <2>2, <2>3, <2>4 DEF PersonasTypeOK, PersonaRow
<1> QED BY <1>1, PersonasStart, PersonasStep, PTL DEF PersonasSpec

\* The hand-written traits survive every crash, every second process and every edit of the
\* desktop meanwhile, and a completed migration leaves every cached level that of its row
\* (prepare_persona_traits_migration, complete_persona_level_migration,
\* persona_store.create_persona, update_persona).
THEOREM TraitsStaySafe == PersonasSpec => []MigrationIsSafe
<1>1. PersonasInv => MigrationIsSafe
  <2> SUFFICES ASSUME PersonasInv PROVE MigrationIsSafe OBVIOUS
  <2>1. LegacyTraitsKept
    <3>1. CASE migration = NoStateRow
      BY <3>1 DEF PersonasInv, UntouchedOK, LegacyTraitsKept
    <3>2. CASE migration # NoStateRow
      BY <3>2 DEF PersonasInv, ExportOK, Faithful, LegacyTraitsKept
    <3> QED BY <3>1, <3>2
  <2> QED BY <2>1 DEF PersonasInv, LevelsOK, Completed, MigrationIsSafe
<1> QED BY <1>1, PersonasStart, PersonasStep, PTL DEF PersonasSpec

\* Both migrations together: an old database is brought up to date whatever dies on the way.
THEOREM MigrationsStaySafe == SchemaSpec /\ PersonasSpec => []MigrationsAreSafe
<1>1. MigrationHeals /\ MigrationIsSafe => MigrationsAreSafe BY DEF MigrationsAreSafe
<1> QED BY <1>1, MigrationsHeal, TraitsStaySafe, PTL

(***************************************************************************)
(* The knowledge base                                                      *)
(***************************************************************************)

Bodies == Range(OldChunks) \cup {line.body : line \in Range(KnowledgeFile) \ {BrokenLine}}
ChunkRow == [body : Bodies, title : BOOLEAN, vector : BOOLEAN]
Origins == {"knowledge", "memory"}
HitRecord == [source_type : Origins, source_id : Nat, snippet : Bodies \cup Range(Memories),
              title : BOOLEAN, metadata : Nat, rank : Nat \ {0}]

\* Hits that are of the same source say the same.
SoundHits(hits) ==
    /\ hits \in Seq(HitRecord)
    /\ \A i, j \in 1..Len(hits) :
          _primary_dedupe_key(hits[i]) = _primary_dedupe_key(hits[j]) => hits[i].snippet = hits[j].snippet

Said(hits, k) == {hits[i].snippet : i \in 1..k}

\* What merging the first k hits has made of them.
MergedOK(hits, k, acc) ==
    /\ DOMAIN acc.content_keys = Said(hits, k)
    /\ DOMAIN acc.by_key = {acc.content_keys[s] : s \in Said(hits, k)}
    /\ DOMAIN acc.fused_scores = DOMAIN acc.by_key
    /\ \A s \in Said(hits, k) :
          LET key == acc.content_keys[s]
          IN  /\ acc.by_key[key] \in HitRecord
              /\ acc.by_key[key].snippet = s
              /\ acc.fused_scores[key] = Weights(hits, s)[k]
              /\ \E i \in 1..k : hits[i].snippet = s /\ key = _primary_dedupe_key(hits[i])
              /\ \E i \in 1..k : /\ hits[i].snippet = s
                                 /\ _primary_dedupe_key(acc.by_key[key]) = _primary_dedupe_key(hits[i])

\* The recursion defines what it says, ...
LEMMA FusingIs ==
    ASSUME NEW hits, Len(hits) \in Nat
    PROVE  /\ Fusing(hits)[0] = NoHits
           /\ \A k \in 1..Len(hits) : Fusing(hits)[k] = FuseHit(Fusing(hits)[k - 1], hits[k])
<1> DEFINE body(f, n) == [k \in 0..n |-> IF k = 0 THEN NoHits ELSE FuseHit(f[k - 1], hits[k])]
           bad == {n \in 0..Len(hits) : ~\E f : f = body(f, n)}
<1>1. bad = {}
  <2>1. SUFFICES ASSUME bad # {} PROVE FALSE OBVIOUS
  <2>2. bad \subseteq Nat OBVIOUS
  <2> HIDE DEF bad
  <2>3. PICK n \in bad : \A m \in bad : ~(<<m, n>> \in OpToRel(<, Nat))
    BY <2>1, <2>2, NatLessThanWellFounded, WFMin
  <2>4. n \in Nat /\ \A m \in bad : ~(m < n) BY <2>2, <2>3 DEF OpToRel
  <2>5. n \in 0..Len(hits) /\ ~\E f : f = body(f, n) BY <2>3 DEF bad
  <2>6. CASE n = 0
    <3> DEFINE g == [k \in 0..0 |-> NoHits]
    <3>1. g = body(g, 0) OBVIOUS
    <3> QED BY <2>5, <2>6, <3>1
  <2>7. CASE n # 0
    <3>1. n - 1 \in 0..Len(hits) /\ n - 1 \notin bad BY <2>4, <2>5, <2>7
    <3>2. PICK f : f = body(f, n - 1) BY <3>1 DEF bad
    <3> DEFINE g == [k \in 0..n |-> IF k = n THEN FuseHit(f[n - 1], hits[n]) ELSE f[k]]
    <3>3. \A k \in 0..n : g[k] = IF k = 0 THEN NoHits ELSE FuseHit(g[k - 1], hits[k])
      <4> SUFFICES ASSUME NEW k \in 0..n
                   PROVE  g[k] = IF k = 0 THEN NoHits ELSE FuseHit(g[k - 1], hits[k])
        OBVIOUS
      <4>1. CASE k = n
        <5>1. n - 1 \in 0..n /\ n - 1 # n BY <2>4, <2>7
        <5> QED BY <2>7, <4>1, <5>1
      <4>2. CASE k # n
        <5>1. k \in 0..n - 1 /\ (k # 0 => k - 1 \in 0..n /\ k - 1 # n) BY <2>4, <4>2
        <5>2. g[k] = f[k] /\ (k # 0 => g[k - 1] = f[k - 1]) BY <4>2, <5>1
        <5>3. f[k] = IF k = 0 THEN NoHits ELSE FuseHit(f[k - 1], hits[k]) BY <3>2, <5>1
        <5> QED BY <5>2, <5>3
      <4> QED BY <4>1, <4>2
    <3>4. g = body(g, n) BY <3>3
    <3> QED BY <2>5, <3>4
  <2> QED BY <2>6, <2>7
<1>2. \E f : f = body(f, Len(hits)) BY <1>1
<1>3. Fusing(hits) = CHOOSE f : f = body(f, Len(hits)) BY DEF Fusing
<1>4. Fusing(hits) = body(Fusing(hits), Len(hits)) BY <1>2, <1>3
<1> QED BY <1>4

\* ... and so does the sum.
LEMMA WeightsIs ==
    ASSUME NEW hits, Len(hits) \in Nat, NEW s
    PROVE  /\ Weights(hits, s)[0] = 0
           /\ \A k \in 1..Len(hits) :
                 Weights(hits, s)[k]
                   = Weights(hits, s)[k - 1] + IF hits[k].snippet = s THEN Weight(hits[k].rank) ELSE 0
<1> DEFINE gain(k) == IF hits[k].snippet = s THEN Weight(hits[k].rank) ELSE 0
           body(f, n) == [k \in 0..n |-> IF k = 0 THEN 0 ELSE f[k - 1] + gain(k)]
           bad == {n \in 0..Len(hits) : ~\E f : f = body(f, n)}
<1>3. Weights(hits, s) = CHOOSE f : f = body(f, Len(hits)) BY DEF Weights
<1> HIDE DEF gain
<1>1. bad = {}
  <2>1. SUFFICES ASSUME bad # {} PROVE FALSE OBVIOUS
  <2>2. bad \subseteq Nat OBVIOUS
  <2> HIDE DEF bad
  <2>3. PICK n \in bad : \A m \in bad : ~(<<m, n>> \in OpToRel(<, Nat))
    BY <2>1, <2>2, NatLessThanWellFounded, WFMin
  <2>4. n \in Nat /\ \A m \in bad : ~(m < n) BY <2>2, <2>3 DEF OpToRel
  <2>5. n \in 0..Len(hits) /\ ~\E f : f = body(f, n) BY <2>3 DEF bad
  <2>6. CASE n = 0
    <3> DEFINE g == [k \in 0..0 |-> 0]
    <3>1. g = body(g, 0) OBVIOUS
    <3> QED BY <2>5, <2>6, <3>1
  <2>7. CASE n # 0
    <3>1. n - 1 \in 0..Len(hits) /\ n - 1 \notin bad BY <2>4, <2>5, <2>7
    <3>2. PICK f : f = body(f, n - 1) BY <3>1 DEF bad
    <3> DEFINE g == [k \in 0..n |-> IF k = n THEN f[n - 1] + gain(n) ELSE f[k]]
    <3>3. \A k \in 0..n : g[k] = IF k = 0 THEN 0 ELSE g[k - 1] + gain(k)
      <4> SUFFICES ASSUME NEW k \in 0..n PROVE g[k] = IF k = 0 THEN 0 ELSE g[k - 1] + gain(k)
        OBVIOUS
      <4>1. CASE k = n
        <5>1. n - 1 \in 0..n /\ n - 1 # n BY <2>4, <2>7
        <5> QED BY <2>7, <4>1, <5>1
      <4>2. CASE k # n
        <5>1. k \in 0..n - 1 /\ (k # 0 => k - 1 \in 0..n /\ k - 1 # n) BY <2>4, <4>2
        <5>2. g[k] = f[k] /\ (k # 0 => g[k - 1] = f[k - 1]) BY <4>2, <5>1
        <5>3. f[k] = IF k = 0 THEN 0 ELSE f[k - 1] + gain(k) BY <3>2, <5>1
        <5> QED BY <5>2, <5>3
      <4> QED BY <4>1, <4>2
    <3>4. g = body(g, n) BY <3>3
    <3> QED BY <2>5, <3>4
  <2> QED BY <2>6, <2>7
<1>2. \E f : f = body(f, Len(hits)) BY <1>1
<1>4. Weights(hits, s) = body(Weights(hits, s), Len(hits)) BY <1>2, <1>3
<1>5. \A k \in 0..Len(hits) : Weights(hits, s)[k] = IF k = 0 THEN 0 ELSE Weights(hits, s)[k - 1] + gain(k)
  BY <1>4
<1> QED BY <1>5 DEF gain

LEMMA WeightIsNat ==
    ASSUME NEW r \in Nat \ {0}
    PROVE  Weight(r) \in Nat
  BY DEF Weight

\* What is not said has no weight.
LEMMA WeightsAre ==
    ASSUME NEW hits \in Seq(HitRecord), NEW s
    PROVE  \A k \in 0..Len(hits) : /\ Weights(hits, s)[k] \in Nat
                                   /\ s \notin Said(hits, k) => Weights(hits, s)[k] = 0
<1> DEFINE good(k) == /\ Weights(hits, s)[k] \in Nat
                      /\ s \notin Said(hits, k) => Weights(hits, s)[k] = 0
           bad == {k \in 0..Len(hits) : ~good(k)}
<1>1. Len(hits) \in Nat OBVIOUS
<1>2. SUFFICES ASSUME bad # {} PROVE FALSE OBVIOUS
<1>3. bad \subseteq Nat OBVIOUS
<1>4. \A k \in bad : k \in 0..Len(hits) /\ ~good(k) OBVIOUS
<1>5. \A k \in 0..Len(hits) : ~good(k) => k \in bad OBVIOUS
<1> HIDE DEF bad
<1>6. PICK k \in bad : \A m \in bad : ~(<<m, k>> \in OpToRel(<, Nat))
  BY <1>2, <1>3, NatLessThanWellFounded, WFMin
<1>7. k \in Nat /\ k \in 0..Len(hits) /\ ~good(k) /\ \A m \in bad : ~(m < k)
  BY <1>3, <1>4, <1>6 DEF OpToRel
<1>8. CASE k = 0
  BY <1>1, <1>7, <1>8, WeightsIs
<1>9. CASE k # 0
  <2>1. k - 1 \in 0..Len(hits) /\ k - 1 \notin bad /\ k \in 1..Len(hits) BY <1>1, <1>7, <1>9
  <2>2. good(k - 1) BY <1>5, <2>1
  <2>3. hits[k] \in HitRecord BY <2>1
  <2>4. Weight(hits[k].rank) \in Nat BY <2>3, WeightIsNat DEF HitRecord
  <2>5. Weights(hits, s)[k]
          = Weights(hits, s)[k - 1] + IF hits[k].snippet = s THEN Weight(hits[k].rank) ELSE 0
    BY <1>1, <2>1, WeightsIs
  <2>6. Weights(hits, s)[k] \in Nat BY <2>2, <2>4, <2>5
  <2>7. ASSUME s \notin Said(hits, k) PROVE Weights(hits, s)[k] = 0
    <3>1. hits[k].snippet # s /\ s \notin Said(hits, k - 1)
      BY <2>1, <2>7, <1>7 DEF Said
    <3> QED BY <2>2, <2>5, <3>1
  <2> QED BY <1>7, <2>6, <2>7
<1> QED BY <1>8, <1>9

\* The entry kept of two that say the same says it too, and is one of them.
LEMMA MergedIs ==
    ASSUME NEW hit \in HitRecord, NEW current \in HitRecord, hit.snippet = current.snippet
    PROVE  /\ Merged(hit, current) \in HitRecord
           /\ Merged(hit, current).snippet = hit.snippet
           /\ \/ _primary_dedupe_key(Merged(hit, current)) = _primary_dedupe_key(hit)
              \/ _primary_dedupe_key(Merged(hit, current)) = _primary_dedupe_key(current)
<1> DEFINE better == IF hit.rank < current.rank THEN hit.rank ELSE current.rank
<1>1. Merged(hit, current) \in {[hit EXCEPT !.metadata = hit.metadata + 1], [current EXCEPT !.rank = better]}
  BY DEF Merged
<1>2. better \in Nat \ {0} BY DEF HitRecord
<1> HIDE DEF better
<1> QED BY <1>1, <1>2 DEF HitRecord, _primary_dedupe_key

LEMMA FuseHitIs ==
    ASSUME NEW acc, NEW hit
    PROVE  LET key == KeyOf(acc, hit)
               known == key \in DOMAIN acc.by_key
           IN  /\ FuseHit(acc, hit).content_keys = With(acc.content_keys, hit.snippet, key)
               /\ FuseHit(acc, hit).fused_scores
                    = With(acc.fused_scores, key,
                           Weight(hit.rank) + IF known THEN acc.fused_scores[key] ELSE 0)
               /\ FuseHit(acc, hit).by_key
                    = With(acc.by_key, key, IF known THEN Merged(hit, acc.by_key[key])
                                            ELSE [hit EXCEPT !.metadata = @ + 1])
  BY DEF FuseHit

\* Merging one hit more.
LEMMA MergeStep ==
    ASSUME NEW hits, SoundHits(hits), NEW k \in 0..Len(hits), k # Len(hits), NEW acc,
           MergedOK(hits, k, acc)
    PROVE  MergedOK(hits, k + 1, FuseHit(acc, hits[k + 1]))
<1> DEFINE hit == hits[k + 1]
           c == hit.snippet
           new == FuseHit(acc, hit)
           key == KeyOf(acc, hit)
           entry == new.by_key[key]
<1>1. hits \in Seq(HitRecord) /\ Len(hits) \in Nat /\ k \in Nat /\ k + 1 \in 1..Len(hits)
  BY DEF SoundHits
<1>2. hit \in HitRecord /\ c = hit.snippet BY <1>1
<1>3. Said(hits, k + 1) = Said(hits, k) \cup {c}
  <2>1. \A i : i \in 1..k + 1 <=> i \in 1..k \/ i = k + 1 BY <1>1
  <2> QED BY <2>1 DEF Said
<1>4. /\ \A i \in 1..k : i \in 1..k + 1 /\ i \in 1..Len(hits)
      /\ k + 1 \in 1..k + 1
  BY <1>1
<1>5. \A s : Weights(hits, s)[k + 1]
               = Weights(hits, s)[k] + IF c = s THEN Weight(hit.rank) ELSE 0
  <2>1. k + 1 - 1 = k BY <1>1
  <2> QED BY <1>1, <2>1, WeightsIs
<1>6. \A s : Weights(hits, s)[k] \in Nat /\ (s \notin Said(hits, k) => Weights(hits, s)[k] = 0)
  BY <1>1, WeightsAre
<1>7. Weight(hit.rank) \in Nat BY <1>2, WeightIsNat DEF HitRecord
<1>8. \A s \in Said(hits, k) : acc.content_keys[s] \in DOMAIN acc.by_key BY DEF MergedOK
\* Where the hit goes, and what becomes of it there.
<1>9. /\ key \in DOMAIN acc.by_key <=> c \in Said(hits, k)
      /\ c \in Said(hits, k) => key = acc.content_keys[c]
      /\ c \notin Said(hits, k) => key = _primary_dedupe_key(hit)
  <2>1. CASE c \in Said(hits, k)
    BY <1>8, <2>1 DEF KeyOf, MergedOK
  <2>2. CASE c \notin Said(hits, k)
    <3>1. key = _primary_dedupe_key(hit) BY <2>2 DEF KeyOf, MergedOK
    <3>2. ASSUME key \in DOMAIN acc.by_key PROVE FALSE
      <4>1. PICK s \in Said(hits, k) : key = acc.content_keys[s] BY <3>2 DEF MergedOK
      <4>2. PICK i \in 1..k : hits[i].snippet = s /\ key = _primary_dedupe_key(hits[i])
        BY <4>1 DEF MergedOK
      <4>3. hits[i].snippet = hits[k + 1].snippet
        BY <1>1, <1>4, <3>1, <4>2 DEF SoundHits
      <4> QED BY <2>2, <4>2, <4>3
    <3> QED BY <2>2, <3>1, <3>2
  <2> QED BY <2>1, <2>2
<1>10. /\ new.content_keys = With(acc.content_keys, c, key)
       /\ new.fused_scores = With(acc.fused_scores, key, Weights(hits, c)[k + 1])
  <2>1. CASE c \in Said(hits, k)
    <3>1. acc.fused_scores[key] = Weights(hits, c)[k] /\ key \in DOMAIN acc.by_key
      BY <1>9, <2>1 DEF MergedOK
    <3>2. Weight(hit.rank) + acc.fused_scores[key] = Weights(hits, c)[k + 1]
      BY <1>5, <1>6, <1>7, <3>1
    <3> QED BY <3>1, <3>2, FuseHitIs
  <2>2. CASE c \notin Said(hits, k)
    <3>1. key \notin DOMAIN acc.by_key BY <1>9, <2>2
    <3>2. Weight(hit.rank) + 0 = Weights(hits, c)[k + 1]
      BY <1>5, <1>6, <1>7, <2>2
    <3>3. new.fused_scores = With(acc.fused_scores, key, Weight(hit.rank) + 0) BY <3>1, FuseHitIs
    <3>4. new.content_keys = With(acc.content_keys, c, key) BY FuseHitIs
    <3> QED BY <3>2, <3>3, <3>4
  <2> QED BY <2>1, <2>2
<1>11. /\ new.by_key = With(acc.by_key, key, entry)
       /\ entry \in HitRecord /\ entry.snippet = c
       /\ \E i \in 1..k + 1 : hits[i].snippet = c /\ _primary_dedupe_key(entry) = _primary_dedupe_key(hits[i])
  <2>1. CASE c \in Said(hits, k)
    <3>1. acc.by_key[key] \in HitRecord /\ acc.by_key[key].snippet = c /\ key \in DOMAIN acc.by_key
      BY <1>9, <2>1 DEF MergedOK
    <3>2. new.by_key = With(acc.by_key, key, Merged(hit, acc.by_key[key])) BY <3>1, FuseHitIs
    <3>3. entry = Merged(hit, acc.by_key[key]) BY <3>2 DEF With
    <3>4. PICK i \in 1..k : hits[i].snippet = c
                            /\ _primary_dedupe_key(acc.by_key[key]) = _primary_dedupe_key(hits[i])
      BY <1>9, <2>1 DEF MergedOK
    <3>5. /\ entry \in HitRecord /\ entry.snippet = c
          /\ \/ _primary_dedupe_key(entry) = _primary_dedupe_key(hit)
             \/ _primary_dedupe_key(entry) = _primary_dedupe_key(acc.by_key[key])
      BY <1>2, <3>1, <3>3, MergedIs
    <3> QED BY <1>4, <3>2, <3>3, <3>4, <3>5
  <2>2. CASE c \notin Said(hits, k)
    <3>1. key \notin DOMAIN acc.by_key BY <1>9, <2>2
    <3>2. new.by_key = With(acc.by_key, key, [hit EXCEPT !.metadata = hit.metadata + 1])
      BY <3>1, FuseHitIs
    <3>3. entry = [hit EXCEPT !.metadata = hit.metadata + 1] BY <3>2 DEF With
    <3>4. entry \in HitRecord /\ entry.snippet = c /\ _primary_dedupe_key(entry) = _primary_dedupe_key(hit)
      BY <1>2, <3>3 DEF HitRecord, _primary_dedupe_key
    <3> QED BY <1>4, <3>2, <3>3, <3>4
  <2> QED BY <2>1, <2>2
<1> HIDE DEF new, key, entry, c, hit
<1>19. /\ DOMAIN new.content_keys = DOMAIN acc.content_keys \cup {c}
       /\ new.content_keys[c] = key
       /\ \A x \in DOMAIN acc.content_keys \ {c} : new.content_keys[x] = acc.content_keys[x]
  BY <1>10 DEF With
<1>20. /\ DOMAIN new.fused_scores = DOMAIN acc.fused_scores \cup {key}
       /\ new.fused_scores[key] = Weights(hits, c)[k + 1]
       /\ \A x \in DOMAIN acc.fused_scores \ {key} : new.fused_scores[x] = acc.fused_scores[x]
  BY <1>10 DEF With
<1>21. /\ DOMAIN new.by_key = DOMAIN acc.by_key \cup {key}
       /\ \A x \in DOMAIN acc.by_key \ {key} : new.by_key[x] = acc.by_key[x]
  BY <1>11 DEF With
<1>12. new.content_keys[c] = key
       /\ \A s \in Said(hits, k) \ {c} : new.content_keys[s] = acc.content_keys[s]
  BY <1>19 DEF MergedOK
<1>13. \A s \in Said(hits, k) : s # c => acc.content_keys[s] # key
  <2> SUFFICES ASSUME NEW s \in Said(hits, k), s # c, acc.content_keys[s] = key PROVE FALSE OBVIOUS
  <2>1. c \in Said(hits, k) BY <1>8, <1>9
  <2>2. acc.by_key[key].snippet = s /\ acc.by_key[key].snippet = c BY <1>9, <2>1 DEF MergedOK
  <2> QED BY <2>2
<1>14. DOMAIN new.content_keys = Said(hits, k + 1) BY <1>3, <1>19 DEF MergedOK
<1>15. DOMAIN new.by_key = {new.content_keys[s] : s \in Said(hits, k + 1)}
  <2>1. DOMAIN new.by_key = {acc.content_keys[s] : s \in Said(hits, k)} \cup {key}
    BY <1>21 DEF MergedOK
  <2>2. CASE c \in Said(hits, k)
    BY <1>3, <1>9, <1>12, <2>1, <2>2
  <2>3. CASE c \notin Said(hits, k)
    BY <1>3, <1>12, <2>1, <2>3
  <2> QED BY <2>2, <2>3
<1>16. DOMAIN new.fused_scores = DOMAIN new.by_key BY <1>20, <1>21 DEF MergedOK
<1>17. ASSUME NEW s \in Said(hits, k + 1)
       PROVE  LET own == new.content_keys[s]
              IN  /\ new.by_key[own] \in HitRecord
                  /\ new.by_key[own].snippet = s
                  /\ new.fused_scores[own] = Weights(hits, s)[k + 1]
                  /\ \E i \in 1..k + 1 : hits[i].snippet = s /\ own = _primary_dedupe_key(hits[i])
                  /\ \E i \in 1..k + 1 :
                        /\ hits[i].snippet = s
                        /\ _primary_dedupe_key(new.by_key[own]) = _primary_dedupe_key(hits[i])
  <2>1. CASE s = c
    <3>1. new.fused_scores[key] = Weights(hits, c)[k + 1] BY <1>20
    <3>2. \E i \in 1..k + 1 : hits[i].snippet = c /\ key = _primary_dedupe_key(hits[i])
      <4>1. CASE c \in Said(hits, k)
        <5>1. \E i \in 1..k : hits[i].snippet = c /\ key = _primary_dedupe_key(hits[i])
          BY <1>9, <4>1 DEF MergedOK
        <5> QED BY <1>4, <5>1
      <4>2. CASE c \notin Said(hits, k)
        BY <1>4, <1>9, <4>2 DEF c, hit
      <4> QED BY <4>1, <4>2
    <3>3. entry = new.by_key[key] BY DEF entry
    <3> QED BY <1>11, <1>12, <2>1, <3>1, <3>2, <3>3
  <2>2. CASE s # c
    <3>1. s \in Said(hits, k) BY <1>3, <2>2
    <3>2. PICK own : own = acc.content_keys[s] OBVIOUS
    <3>3. new.content_keys[s] = own /\ own # key /\ own \in DOMAIN acc.by_key
          /\ own \in DOMAIN acc.fused_scores
      BY <1>8, <1>12, <1>13, <2>2, <3>1, <3>2 DEF MergedOK
    <3>4. new.by_key[own] = acc.by_key[own] /\ new.fused_scores[own] = acc.fused_scores[own]
      BY <1>20, <1>21, <3>3
    <3>5. Weights(hits, s)[k + 1] = Weights(hits, s)[k] BY <1>5, <1>6, <2>2
    <3>6. /\ acc.by_key[own] \in HitRecord
          /\ acc.by_key[own].snippet = s
          /\ acc.fused_scores[own] = Weights(hits, s)[k]
          /\ \E i \in 1..k : hits[i].snippet = s /\ own = _primary_dedupe_key(hits[i])
          /\ \E i \in 1..k : /\ hits[i].snippet = s
                             /\ _primary_dedupe_key(acc.by_key[own]) = _primary_dedupe_key(hits[i])
      BY <3>1, <3>2 DEF MergedOK
    <3> QED BY <1>4, <3>3, <3>4, <3>5, <3>6
  <2> QED BY <2>1, <2>2
<1>18. MergedOK(hits, k + 1, new) BY <1>14, <1>15, <1>16, <1>17 DEF MergedOK
<1> QED BY <1>18 DEF new, hit

LEMMA MergedAll ==
    ASSUME NEW hits, SoundHits(hits)
    PROVE  MergedOK(hits, Len(hits), Fusing(hits)[Len(hits)])
<1> DEFINE good(k) == MergedOK(hits, k, Fusing(hits)[k])
           bad == {k \in 0..Len(hits) : ~good(k)}
<1>1. Len(hits) \in Nat BY DEF SoundHits
<1>2. SUFFICES ASSUME bad # {} PROVE FALSE BY <1>1
<1>3. bad \subseteq Nat OBVIOUS
<1>4. \A k \in bad : k \in 0..Len(hits) /\ ~good(k) OBVIOUS
<1>5. \A k \in 0..Len(hits) : ~good(k) => k \in bad OBVIOUS
<1> HIDE DEF bad
<1>6. PICK k \in bad : \A m \in bad : ~(<<m, k>> \in OpToRel(<, Nat))
  BY <1>2, <1>3, NatLessThanWellFounded, WFMin
<1>7. k \in Nat /\ k \in 0..Len(hits) /\ ~good(k) /\ \A m \in bad : ~(m < k)
  BY <1>3, <1>4, <1>6 DEF OpToRel
<1>8. CASE k = 0
  <2>1. Said(hits, 0) = {} BY DEF Said
  <2>2. Fusing(hits)[0] = NoHits BY <1>1, FusingIs
  <2>3. NoHits.content_keys = <<>> /\ NoHits.fused_scores = <<>> /\ NoHits.by_key = <<>> BY DEF NoHits
  <2>4. MergedOK(hits, 0, NoHits) BY <2>1, <2>3 DEF MergedOK
  <2> QED BY <1>7, <1>8, <2>2, <2>4
<1>9. CASE k # 0
  <2>1. k - 1 \in 0..Len(hits) /\ k - 1 # Len(hits) /\ k - 1 \notin bad /\ k \in 1..Len(hits)
        /\ k - 1 + 1 = k
    BY <1>1, <1>7, <1>9
  <2>2. good(k - 1) BY <1>5, <2>1
  <2>3. MergedOK(hits, k, FuseHit(Fusing(hits)[k - 1], hits[k]))
    <3>1. MergedOK(hits, k - 1 + 1, FuseHit(Fusing(hits)[k - 1], hits[k - 1 + 1]))
      BY <2>1, <2>2, MergeStep
    <3> QED BY <2>1, <3>1
  <2>4. Fusing(hits)[k] = FuseHit(Fusing(hits)[k - 1], hits[k]) BY <1>1, <2>1, FusingIs
  <2> QED BY <1>7, <2>3, <2>4
<1> QED BY <1>8, <1>9

InOrder(K, R) ==
    [i \in 1..Cardinality(K) |-> CHOOSE k \in K : Cardinality({j \in K : <<j, k>> \in R}) = i - 1]

\* Counting who comes before puts a finite set in order.
LEMMA Ordering ==
    ASSUME NEW K, IsFiniteSet(K), NEW R,
           \A j \in K : <<j, j>> \notin R,
           \A j, k \in K : j # k => <<j, k>> \in R \/ <<k, j>> \in R,
           \A i, j, k \in K : <<i, j>> \in R /\ <<j, k>> \in R => <<i, k>> \in R
    PROVE  /\ Cardinality(K) \in Nat /\ Len(InOrder(K, R)) = Cardinality(K)
           /\ \A i \in 1..Cardinality(K) : InOrder(K, R)[i] \in K
           /\ \A i, j \in 1..Cardinality(K) : i < j => <<InOrder(K, R)[i], InOrder(K, R)[j]>> \in R
           /\ \A k \in K : \E i \in 1..Cardinality(K) : InOrder(K, R)[i] = k
<1> DEFINE q == InOrder(K, R)
           n == Cardinality(K)
           before(k) == {j \in K : <<j, k>> \in R}
           place == [k \in K |-> Cardinality(before(k)) + 1]
<1>1. n \in Nat BY FS_CardinalityType
<1>2. \A k \in K : IsFiniteSet(before(k)) /\ Cardinality(before(k)) \in Nat
                   /\ before(k) \subseteq K /\ before(k) # K
  <2> SUFFICES ASSUME NEW k \in K
               PROVE  IsFiniteSet(before(k)) /\ Cardinality(before(k)) \in Nat
                      /\ before(k) \subseteq K /\ before(k) # K
    OBVIOUS
  <2>1. before(k) \in SUBSET K OBVIOUS
  <2>2. IsFiniteSet(before(k)) BY <2>1, FS_Subset
  <2>3. k \in K /\ k \notin before(k) OBVIOUS
  <2> HIDE DEF before
  <2> QED BY <2>1, <2>2, <2>3, FS_CardinalityType
<1>3. \A j, k \in K : <<j, k>> \in R => Cardinality(before(j)) < Cardinality(before(k))
  <2> SUFFICES ASSUME NEW j \in K, NEW k \in K, <<j, k>> \in R
               PROVE  Cardinality(before(j)) < Cardinality(before(k))
    OBVIOUS
  <2>1. before(j) \in SUBSET before(k) OBVIOUS
  <2>2. j \in before(k) /\ j \notin before(j) OBVIOUS
  <2> HIDE DEF before
  <2>3. Cardinality(before(j)) <= Cardinality(before(k))
        /\ (Cardinality(before(k)) = Cardinality(before(j)) => before(k) = before(j))
    BY <1>2, <2>1, FS_Subset
  <2> QED BY <1>2, <2>2, <2>3
<1>12. ASSUME NEW j \in K, NEW k \in K, Cardinality(before(j)) = Cardinality(before(k))
       PROVE  j = k
  <2>1. PICK m \in Nat : m = Cardinality(before(j)) /\ m = Cardinality(before(k)) BY <1>2, <1>12
  <2>2. ~(Cardinality(before(j)) < Cardinality(before(k))) BY <2>1
  <2>3. ~(Cardinality(before(k)) < Cardinality(before(j))) BY <2>1
  <2>4. <<j, k>> \in R => Cardinality(before(j)) < Cardinality(before(k)) BY <1>3
  <2>5. <<k, j>> \in R => Cardinality(before(k)) < Cardinality(before(j)) BY <1>3
  <2> QED BY <2>2, <2>3, <2>4, <2>5
<1>4. \A k \in K : Cardinality(before(k)) < n
  <2> SUFFICES ASSUME NEW k \in K PROVE Cardinality(before(k)) < n OBVIOUS
  <2> HIDE DEF before
  <2>1. before(k) \in SUBSET K /\ before(k) # K /\ Cardinality(before(k)) \in Nat BY <1>2
  <2>2. Cardinality(before(k)) <= n /\ (n = Cardinality(before(k)) => K = before(k))
    BY <2>1, FS_Subset
  <2> QED BY <1>1, <2>1, <2>2
<1> HIDE DEF before
<1>5. place \in Injection(K, 1..n)
  <2>1. \A k \in K : place[k] = Cardinality(before(k)) + 1 OBVIOUS
  <2>2. place \in [K -> 1..n] BY <1>1, <1>2, <1>4
  <2>3. ASSUME NEW j \in K, NEW k \in K, place[j] = place[k] PROVE j = k
    <3>1. Cardinality(before(j)) = Cardinality(before(k)) BY <1>2, <2>1, <2>3
    <3> QED BY <1>12, <3>1
  <2>4. IsInjective(place)
    <3>1. DOMAIN place = K OBVIOUS
    <3> HIDE DEF place
    <3> QED BY <2>3, <3>1 DEF IsInjective
  <2> HIDE DEF place
  <2> QED BY <2>2, <2>4 DEF Injection
<1>6. place \in Surjection(K, 1..n)
  <2>1. IsFiniteSet(1..n) /\ Cardinality(1..n) = n
    <3>1. 1 \in Int /\ n \in Int BY <1>1
    <3>2. IsFiniteSet(1..n) /\ Cardinality(1..n) = IF 1 > n THEN 0 ELSE n - 1 + 1
      BY <3>1, FS_Interval
    <3> QED BY <1>1, <3>2
  <2> HIDE DEF place
  <2> QED BY <1>5, <2>1, FS_Injection
<1>7. \A i \in 1..n : \E k \in K : Cardinality(before(k)) = i - 1
  <2> SUFFICES ASSUME NEW i \in 1..n PROVE \E k \in K : Cardinality(before(k)) = i - 1 OBVIOUS
  <2>1. PICK k \in K : place[k] = i BY <1>6 DEF Surjection
  <2> QED BY <1>1, <1>2, <2>1
<1>8. Len(q) = n /\ \A i \in 1..n : q[i] = CHOOSE k \in K : Cardinality(before(k)) = i - 1
  <2> DEFINE nth(i) == CHOOSE k \in K : Cardinality(before(k)) = i - 1
  <2>1. q = [i \in 1..n |-> nth(i)] BY DEF before, InOrder
  <2> HIDE DEF nth, q
  <2>2. Len(q) = n /\ \A i \in 1..n : q[i] = nth(i) BY <1>1, <2>1
  <2> QED BY <2>2 DEF nth
<1> HIDE DEF q
<1>9. \A i \in 1..n : q[i] \in K /\ Cardinality(before(q[i])) = i - 1 BY <1>7, <1>8
<1>10. ASSUME NEW i \in 1..n, NEW j \in 1..n, i < j PROVE <<q[i], q[j]>> \in R
  <2>1. q[i] \in K /\ q[j] \in K /\ Cardinality(before(q[i])) = i - 1
        /\ Cardinality(before(q[j])) = j - 1
    BY <1>9
  <2>2. ~(j - 1 < i - 1) /\ i - 1 # j - 1 BY <1>1, <1>10
  <2>3. <<q[j], q[i]>> \notin R
    <3> PICK x, y : x = q[i] /\ y = q[j] OBVIOUS
    <3>1. <<y, x>> \in R => Cardinality(before(y)) < Cardinality(before(x)) BY <1>3, <2>1
    <3> QED BY <2>1, <2>2, <3>1
  <2>4. q[i] # q[j] BY <2>1, <2>2
  <2> QED BY <2>1, <2>3, <2>4
<1>11. ASSUME NEW k \in K PROVE \E i \in 1..n : q[i] = k
  <2> DEFINE i == Cardinality(before(k)) + 1
  <2>1. i \in 1..n /\ i - 1 = Cardinality(before(k)) BY <1>1, <1>2, <1>4
  <2>2. q[i] \in K /\ Cardinality(before(q[i])) = Cardinality(before(k)) BY <1>9, <2>1
  <2>3. q[i] = k BY <1>12, <2>2
  <2> QED BY <2>1, <2>3
<1> QED BY <1>1, <1>8, <1>9, <1>10, <1>11 DEF q

\* The sort key is a strict order: score, rank, source type, source id.
Sortable(acc, k) ==
    /\ acc.fused_scores[k] \in Nat
    /\ acc.by_key[k].rank \in Nat /\ acc.by_key[k].source_id \in Nat
    /\ acc.by_key[k].source_type \in Origins

LEMMA PrecedesOrders ==
    ASSUME NEW acc, NEW i, NEW j, NEW k, Sortable(acc, i), Sortable(acc, j), Sortable(acc, k)
    PROVE  /\ ~Precedes(acc, i, i)
           /\ \/ acc.by_key[i].source_type # acc.by_key[j].source_type
              \/ acc.by_key[i].source_id # acc.by_key[j].source_id
              => Precedes(acc, i, j) \/ Precedes(acc, j, i)
           /\ Precedes(acc, i, j) /\ Precedes(acc, j, k) => Precedes(acc, i, k)
           /\ Precedes(acc, i, j) => acc.fused_scores[i] >= acc.fused_scores[j]
  BY DEF Precedes, Sortable, Origins

\* What the merged entries are, one for every content.
LEMMA EntriesAre ==
    ASSUME NEW hits, SoundHits(hits), NEW acc, MergedOK(hits, Len(hits), acc)
    PROVE  /\ IsFiniteSet(DOMAIN acc.by_key)
           /\ \A k \in DOMAIN acc.by_key :
                 /\ acc.by_key[k] \in HitRecord
                 /\ acc.by_key[k].snippet \in Said(hits, Len(hits))
                 /\ acc.content_keys[acc.by_key[k].snippet] = k
                 /\ acc.fused_scores[k] = Weights(hits, acc.by_key[k].snippet)[Len(hits)]
                 /\ acc.fused_scores[k] \in Nat
           /\ \A j, k \in DOMAIN acc.by_key : j # k =>
                 /\ acc.by_key[j].snippet # acc.by_key[k].snippet
                 /\ _primary_dedupe_key(acc.by_key[j]) # _primary_dedupe_key(acc.by_key[k])
           /\ \A s \in Said(hits, Len(hits)) : \E k \in DOMAIN acc.by_key : acc.by_key[k].snippet = s
<1> DEFINE n == Len(hits)
<1>1. hits \in Seq(HitRecord) /\ n \in Nat BY DEF SoundHits
<1>2. IsFiniteSet(DOMAIN acc.by_key)
  <2> DEFINE of(i) == acc.content_keys[hits[i].snippet]
  <2>1. IsFiniteSet(1..n)
    <3>1. 1 \in Int /\ n \in Int BY <1>1
    <3> QED BY <3>1, FS_Interval
  <2> DEFINE f == [i \in 1..n |-> of(i)]
  <2>2. f \in Surjection(1..n, DOMAIN acc.by_key)
    <3>1. DOMAIN acc.by_key = {of(i) : i \in 1..n} BY DEF MergedOK, Said
    <3> QED BY <3>1 DEF Surjection
  <2> HIDE DEF f
  <2> QED BY <2>1, <2>2, FS_Surjection
<1>3. ASSUME NEW k \in DOMAIN acc.by_key
      PROVE  /\ acc.by_key[k] \in HitRecord
             /\ acc.by_key[k].snippet \in Said(hits, n)
             /\ acc.content_keys[acc.by_key[k].snippet] = k
             /\ acc.fused_scores[k] = Weights(hits, acc.by_key[k].snippet)[n]
             /\ acc.fused_scores[k] \in Nat
             /\ \E i \in 1..n : /\ hits[i].snippet = acc.by_key[k].snippet
                                /\ _primary_dedupe_key(acc.by_key[k]) = _primary_dedupe_key(hits[i])
  <2>1. PICK s \in Said(hits, n) : k = acc.content_keys[s] BY DEF MergedOK
  <2>2. /\ acc.by_key[k] \in HitRecord /\ acc.by_key[k].snippet = s
        /\ acc.fused_scores[k] = Weights(hits, s)[n]
        /\ \E i \in 1..n : /\ hits[i].snippet = s
                           /\ _primary_dedupe_key(acc.by_key[k]) = _primary_dedupe_key(hits[i])
    BY <2>1 DEF MergedOK
  <2>3. Weights(hits, s)[n] \in Nat BY <1>1, WeightsAre
  <2> QED BY <2>1, <2>2, <2>3
<1>4. ASSUME NEW j \in DOMAIN acc.by_key, NEW k \in DOMAIN acc.by_key, j # k
      PROVE  /\ acc.by_key[j].snippet # acc.by_key[k].snippet
             /\ _primary_dedupe_key(acc.by_key[j]) # _primary_dedupe_key(acc.by_key[k])
  <2>1. acc.by_key[j].snippet # acc.by_key[k].snippet BY <1>3, <1>4
  <2>2. PICK i \in 1..n : /\ hits[i].snippet = acc.by_key[j].snippet
                          /\ _primary_dedupe_key(acc.by_key[j]) = _primary_dedupe_key(hits[i])
    BY <1>3
  <2>3. PICK m \in 1..n : /\ hits[m].snippet = acc.by_key[k].snippet
                          /\ _primary_dedupe_key(acc.by_key[k]) = _primary_dedupe_key(hits[m])
    BY <1>3
  <2>4. _primary_dedupe_key(hits[i]) # _primary_dedupe_key(hits[m]) BY <2>1, <2>2, <2>3 DEF SoundHits
  <2> QED BY <2>1, <2>2, <2>3, <2>4
<1>5. ASSUME NEW s \in Said(hits, n) PROVE \E k \in DOMAIN acc.by_key : acc.by_key[k].snippet = s
  BY DEF MergedOK
<1> QED BY <1>2, <1>3, <1>4, <1>5

\* The entries in order.
LEMMA RankedIs ==
    ASSUME NEW hits, SoundHits(hits), NEW acc, MergedOK(hits, Len(hits), acc)
    PROVE  /\ Len(Ranked(acc)) \in Nat
           /\ \A i \in 1..Len(Ranked(acc)) : Ranked(acc)[i] \in DOMAIN acc.by_key
           /\ \A i, j \in 1..Len(Ranked(acc)) : i < j =>
                 /\ Ranked(acc)[i] # Ranked(acc)[j]
                 /\ acc.fused_scores[Ranked(acc)[i]] >= acc.fused_scores[Ranked(acc)[j]]
           /\ \A k \in DOMAIN acc.by_key : \E i \in 1..Len(Ranked(acc)) : Ranked(acc)[i] = k
<1> DEFINE K == DOMAIN acc.by_key
           R == {p \in K \X K : Precedes(acc, p[1], p[2])}
           q == Ranked(acc)
<1>1. \A j, k \in K : <<j, k>> \in R <=> Precedes(acc, j, k) OBVIOUS
<1>2. \A k \in K : Sortable(acc, k)
  BY EntriesAre DEF HitRecord, Sortable
<1>3. \A j, k \in K : j # k => acc.by_key[j].source_type # acc.by_key[k].source_type
                               \/ acc.by_key[j].source_id # acc.by_key[k].source_id
  BY EntriesAre DEF _primary_dedupe_key
<1>4. IsFiniteSet(K) BY EntriesAre
<1>5. q = InOrder(K, R)
  <2>1. \A k \in K : {j \in K : <<j, k>> \in R} = {j \in K : Precedes(acc, j, k)} BY <1>1
  <2>2. \A i : (CHOOSE k \in K : Cardinality({j \in K : <<j, k>> \in R}) = i - 1)
                 = CHOOSE k \in K : Cardinality({j \in K : Precedes(acc, j, k)}) = i - 1
    BY <2>1
  <2>3. q = [i \in 1..Cardinality(K) |->
                CHOOSE k \in K : Cardinality({j \in K : Precedes(acc, j, k)}) = i - 1]
    BY DEF Ranked
  <2> QED BY <2>2, <2>3 DEF InOrder
<1> HIDE DEF R, K, q
<1>6. \A j \in K : <<j, j>> \notin R BY <1>1, <1>2, PrecedesOrders
<1>7. \A j, k \in K : j # k => <<j, k>> \in R \/ <<k, j>> \in R
  BY <1>1, <1>2, <1>3, PrecedesOrders
<1>8. \A i, j, k \in K : <<i, j>> \in R /\ <<j, k>> \in R => <<i, k>> \in R
  BY <1>1, <1>2, PrecedesOrders
<1>9. /\ Cardinality(K) \in Nat /\ Len(q) = Cardinality(K)
      /\ \A i \in 1..Cardinality(K) : q[i] \in K
      /\ \A i, j \in 1..Cardinality(K) : i < j => <<q[i], q[j]>> \in R
      /\ \A k \in K : \E i \in 1..Cardinality(K) : q[i] = k
  BY <1>4, <1>5, <1>6, <1>7, <1>8, Ordering
<1>11. \A j, k \in K : <<j, k>> \in R => acc.fused_scores[j] >= acc.fused_scores[k]
  BY <1>1, <1>2, PrecedesOrders
<1>12. \A i, j \in 1..Len(q) : i < j => q[i] # q[j] /\ acc.fused_scores[q[i]] >= acc.fused_scores[q[j]]
  BY <1>6, <1>9, <1>11
<1> QED BY <1>9, <1>12 DEF K, q

Fair(hits, fused) ==
    /\ \A i, j \in DOMAIN fused : i < j =>
          /\ fused[i].snippet # fused[j].snippet
          /\ _primary_dedupe_key(fused[i]) # _primary_dedupe_key(fused[j])
          /\ Weights(hits, fused[i].snippet)[Len(hits)] >= Weights(hits, fused[j].snippet)[Len(hits)]
    /\ \A s \in {hits[i].snippet : i \in DOMAIN hits} \ {fused[i].snippet : i \in DOMAIN fused} :
          /\ Len(fused) = final_limit
          /\ \A i \in DOMAIN fused :
                Weights(hits, fused[i].snippet)[Len(hits)] >= Weights(hits, s)[Len(hits)]

LEMMA FusingIsFair ==
    ASSUME NEW hits, SoundHits(hits)
    PROVE  Fair(hits, _rrf_fuse(hits))
<1> DEFINE acc == Fusing(hits)[Len(hits)]
           keys == Ranked(acc)
           n == Len(keys)
           m == Min({n, final_limit})
           fused == _rrf_fuse(hits)
           weight(s) == Weights(hits, s)[Len(hits)]
<1>1. MergedOK(hits, Len(hits), acc) BY MergedAll
<1>2. fused = [i \in 1..m |-> acc.by_key[keys[i]]] BY DEF _rrf_fuse
<1>3. /\ hits \in Seq(HitRecord) /\ Len(hits) \in Nat /\ DOMAIN hits = 1..Len(hits) BY DEF SoundHits
<1>4. /\ n \in Nat
      /\ \A i \in 1..n : keys[i] \in DOMAIN acc.by_key
      /\ \A i, j \in 1..n : i < j => /\ keys[i] # keys[j]
                                     /\ acc.fused_scores[keys[i]] >= acc.fused_scores[keys[j]]
      /\ \A k \in DOMAIN acc.by_key : \E i \in 1..n : keys[i] = k
  BY <1>1, RankedIs
<1>5. /\ \A k \in DOMAIN acc.by_key : acc.fused_scores[k] = weight(acc.by_key[k].snippet)
      /\ \A j, k \in DOMAIN acc.by_key : j # k =>
            /\ acc.by_key[j].snippet # acc.by_key[k].snippet
            /\ _primary_dedupe_key(acc.by_key[j]) # _primary_dedupe_key(acc.by_key[k])
      /\ \A s \in Said(hits, Len(hits)) : \E k \in DOMAIN acc.by_key : acc.by_key[k].snippet = s
  BY <1>1, EntriesAre
<1>6. m \in Nat /\ m <= n /\ (m = n \/ m = final_limit)
  <2>1. final_limit \in Nat BY KnowledgeAssumption
  <2>2. \E x \in {n, final_limit} : \A y \in {n, final_limit} : x <= y BY <1>4, <2>1
  <2>3. m = CHOOSE x \in {n, final_limit} : \A y \in {n, final_limit} : x <= y BY DEF Min
  <2>4. m \in {n, final_limit} /\ \A y \in {n, final_limit} : m <= y BY <2>2, <2>3
  <2> QED BY <1>4, <2>1, <2>4
<1> HIDE DEF acc, keys, n, m, fused, weight
<1>7. DOMAIN fused = 1..m /\ Len(fused) = m /\ \A i \in 1..m : fused[i] = acc.by_key[keys[i]] BY <1>2, <1>6
<1>8. ASSUME NEW i \in DOMAIN fused, NEW j \in DOMAIN fused, i < j
      PROVE  /\ fused[i].snippet # fused[j].snippet
             /\ _primary_dedupe_key(fused[i]) # _primary_dedupe_key(fused[j])
             /\ weight(fused[i].snippet) >= weight(fused[j].snippet)
  <2>1. i \in 1..n /\ j \in 1..n /\ i \in 1..m /\ j \in 1..m BY <1>4, <1>6, <1>7
  <2>2. PICK x, y \in DOMAIN acc.by_key : x = keys[i] /\ y = keys[j] /\ x # y
                                          /\ acc.fused_scores[x] >= acc.fused_scores[y]
    BY <1>4, <1>8, <2>1
  <2>3. fused[i] = acc.by_key[x] /\ fused[j] = acc.by_key[y] BY <1>7, <2>1, <2>2
  <2> QED BY <1>5, <2>2, <2>3
<1>9. ASSUME NEW s \in {hits[i].snippet : i \in DOMAIN hits} \ {fused[i].snippet : i \in DOMAIN fused}
      PROVE  Len(fused) = final_limit /\ \A i \in DOMAIN fused : weight(fused[i].snippet) >= weight(s)
  <2>1. s \in Said(hits, Len(hits)) BY <1>3 DEF Said
  <2>2. PICK k \in DOMAIN acc.by_key : acc.by_key[k].snippet = s BY <1>5, <2>1
  <2>3. PICK j \in 1..n : keys[j] = k BY <1>4
  <2>4. j \notin 1..m BY <1>7, <2>2, <2>3
  <2>5. m = final_limit /\ m < j BY <1>4, <1>6, <2>4
  <2>6. ASSUME NEW i \in DOMAIN fused PROVE weight(fused[i].snippet) >= weight(s)
    <3>1. i \in 1..m /\ i \in 1..n /\ i < j BY <1>4, <1>6, <1>7, <2>3, <2>5
    <3>2. PICK x \in DOMAIN acc.by_key : x = keys[i] /\ acc.fused_scores[x] >= acc.fused_scores[k]
      BY <1>4, <2>3, <3>1
    <3>3. fused[i] = acc.by_key[x] BY <1>7, <3>1, <3>2
    <3> QED BY <1>5, <2>2, <3>2, <3>3
  <2> QED BY <1>7, <2>5, <2>6
<1>10. Fair(hits, fused) BY <1>8, <1>9 DEF Fair, weight
<1> QED BY <1>10 DEF fused

\* The hits of one retrieval are rows, each with what its row says.
TrueHits ==
    {h \in HitRecord :
        \/ h.source_type = "knowledge" /\ h.snippet = knowledge_chunks[h.source_id].body
        \/ h.source_type = "memory" /\ h.snippet = Memories[h.source_id]}

LEMMA TrueHitsAreSound ==
    ASSUME NEW hits \in Seq(TrueHits)
    PROVE  SoundHits(hits)
<1>1. hits \in Seq(HitRecord) BY DEF TrueHits
<1>2. ASSUME NEW i \in 1..Len(hits), NEW j \in 1..Len(hits),
             _primary_dedupe_key(hits[i]) = _primary_dedupe_key(hits[j])
      PROVE  hits[i].snippet = hits[j].snippet
  <2>1. hits[i].source_type = hits[j].source_type /\ hits[i].source_id = hits[j].source_id
    BY <1>2 DEF _primary_dedupe_key
  <2>2. hits[i] \in TrueHits /\ hits[j] \in TrueHits OBVIOUS
  <2>3. "knowledge" # "memory" OBVIOUS
  <2> QED BY <2>1, <2>2, <2>3 DEF TrueHits
<1> QED BY <1>1, <1>2 DEF SoundHits

LEMMA FoundAre ==
    ASSUME NEW ids, NEW q \in Found(ids)
    PROVE  q \in Seq(ids)
<1>1. MaxHits \in Nat BY KnowledgeAssumption
<1>2. PICK m \in 0..MaxHits : q \in [1..m -> ids] BY <1>1 DEF Found, BoundedSeq, SeqOf
<1> QED BY <1>1, <1>2

LEMMA AdaptedAre ==
    ASSUME knowledge_chunks \in Seq(ChunkRow), NEW q \in Seq(DOMAIN knowledge_chunks)
    PROVE  _adapt_knowledge_hits(q) \in Seq(TrueHits)
<1>1. \A r \in 1..Len(q) : q[r] \in 1..Len(knowledge_chunks) /\ q[r] \in Nat
                           /\ knowledge_chunks[q[r]] \in ChunkRow
  OBVIOUS
<1>2. \A r \in 1..Len(q) :
         [source_type |-> "knowledge", source_id |-> q[r], snippet |-> knowledge_chunks[q[r]].body,
          title |-> knowledge_chunks[q[r]].title, metadata |-> 5, rank |-> r] \in TrueHits
  BY <1>1 DEF TrueHits, HitRecord, ChunkRow, Origins
<1>3. DOMAIN q = 1..Len(q) /\ Len(q) \in Nat OBVIOUS
<1> QED BY <1>2, <1>3 DEF _adapt_knowledge_hits

LEMMA RecalledAre ==
    ASSUME NEW q \in Seq(DOMAIN Memories)
    PROVE  _adapt_memory_hits(q) \in Seq(TrueHits)
<1>1. \A r \in 1..Len(q) : q[r] \in 1..Len(Memories) /\ q[r] \in Nat /\ Memories[q[r]] \in Range(Memories)
  BY KnowledgeAssumption
<1>2. \A r \in 1..Len(q) :
         [source_type |-> "memory", source_id |-> q[r], snippet |-> Memories[q[r]],
          title |-> FALSE, metadata |-> 4, rank |-> r] \in TrueHits
  BY <1>1 DEF TrueHits, HitRecord, Origins
<1>3. DOMAIN q = 1..Len(q) /\ Len(q) \in Nat OBVIOUS
<1> QED BY <1>2, <1>3 DEF _adapt_memory_hits

KnowledgeData ==
    /\ schema_version \in 0..2 /\ vector_columns \in BOOLEAN
    /\ knowledge_at \in {"closed", "columns", "fill", "ready", "line", "chunk", "answer"}
    /\ knowledge_chunks \in Seq(ChunkRow) /\ Len(knowledge_chunks) <= MaxChunks
    /\ import_line \in 0..Len(KnowledgeFile) + 1
    /\ search_log \in 0..MaxSearches /\ question \in {"none", "asked", "answered"}

\* Where the import is, with room for the row it is about.
ImportOK ==
    /\ knowledge_at \in {"line", "chunk"} => import_line >= 1
    /\ knowledge_at = "chunk" => /\ Len(knowledge_chunks) < MaxChunks
                                 /\ import_line <= Len(KnowledgeFile)
                                 /\ KnowledgeFile[import_line] # BrokenLine

\* The version is written when every row has its vector, and no later row lacks it.
FilledOK ==
    /\ knowledge_at \notin {"closed", "columns"} => vector_columns
    /\ knowledge_at \notin {"closed", "columns", "fill"} => schema_version = 2
    /\ schema_version = 2 => vector_columns /\ Unfilled = {}

KnowledgeInv == KnowledgeData /\ ImportOK /\ FilledOK /\ FusedIsFair

LEMMA KnowledgeStart == KnowledgeInit => KnowledgeInv
<1> SUFFICES ASSUME KnowledgeInit PROVE KnowledgeInv OBVIOUS
<1>1. knowledge_chunks \in Seq(ChunkRow) /\ Len(knowledge_chunks) <= MaxChunks
  <2>1. \A i \in 1..Len(OldChunks) : Chunk1(OldChunks[i]) \in ChunkRow
    BY KnowledgeAssumption DEF Chunk1, ChunkRow, Bodies
  <2>2. OldChunks \in Seq(Range(OldChunks)) /\ Len(OldChunks) <= MaxChunks /\ MaxChunks \in Nat
    BY KnowledgeAssumption
  <2>3. [i \in DOMAIN OldChunks |-> Chunk1(OldChunks[i])] \in Seq(ChunkRow)
        /\ Len([i \in DOMAIN OldChunks |-> Chunk1(OldChunks[i])]) = Len(OldChunks)
    BY <2>1, <2>2
  <2>4. CASE knowledge_chunks = <<>> BY <2>2, <2>4
  <2>5. CASE knowledge_chunks = [i \in DOMAIN OldChunks |-> Chunk1(OldChunks[i])] BY <2>2, <2>3, <2>5
  <2> QED BY <2>4, <2>5 DEF KnowledgeInit
<1>2. KnowledgeData
  <2>1. Len(KnowledgeFile) \in Nat /\ MaxSearches \in Nat BY KnowledgeAssumption
  <2>2. import_line \in 0..Len(KnowledgeFile) + 1 /\ search_log \in 0..MaxSearches
    BY <2>1 DEF KnowledgeInit
  <2>3. schema_version \in 0..2 BY DEF KnowledgeInit
  <2>4. knowledge_at = "closed" /\ question = "none" /\ vector_columns = FALSE BY DEF KnowledgeInit
  <2> QED BY <1>1, <2>2, <2>3, <2>4 DEF KnowledgeData
<1>3. ImportOK /\ FilledOK BY DEF KnowledgeInit, ImportOK, FilledOK
<1>4. FusedIsFair
  <2>1. retrieved.fused = <<>> /\ retrieved.hits = <<>> BY DEF KnowledgeInit, NothingRetrieved
  <2> QED BY <2>1 DEF FusedIsFair
<1> QED BY <1>2, <1>3, <1>4 DEF KnowledgeInv

LEMMA KnowledgeStep == KnowledgeInv /\ [KnowledgeNext]_knowledgeVars => KnowledgeInv'
<1> SUFFICES ASSUME KnowledgeInv, [KnowledgeNext]_knowledgeVars PROVE KnowledgeInv' OBVIOUS
<1> USE DEF KnowledgeInv
<1>0. /\ Len(KnowledgeFile) \in Nat /\ KnowledgeFile \in Seq(Range(KnowledgeFile))
      /\ MaxChunks \in Nat /\ MaxSearches \in Nat /\ MaxKnowledgeDeaths \in Nat
      /\ \A line \in Range(KnowledgeFile) \ {BrokenLine} : line.title \in BOOLEAN
  BY KnowledgeAssumption
<1>1. ASSUME UNCHANGED retrieved PROVE FusedIsFair' BY <1>1 DEF FusedIsFair
<1>2. ASSUME UNCHANGED knowledge_chunks PROVE Unfilled' = Unfilled BY <1>2 DEF Unfilled
<1>3. CASE UNCHANGED knowledgeVars
  BY <1>1, <1>2, <1>3 DEF knowledgeVars, versionVars, tableVars, searchVars, KnowledgeData, ImportOK,
     FilledOK
<1>4. CASE OpenKnowledge
  BY <1>1, <1>2, <1>4 DEF OpenKnowledge, versionVars, tableVars, searchVars, KnowledgeData, ImportOK,
     FilledOK
<1>5. CASE AddVectorColumns
  BY <1>1, <1>2, <1>5 DEF AddVectorColumns, tableVars, searchVars, KnowledgeData, ImportOK, FilledOK
<1>6. CASE FillVector
  <2>1. knowledge_chunks' \in Seq(ChunkRow) /\ Len(knowledge_chunks') = Len(knowledge_chunks)
    <3> DEFINE n == Min(Unfilled)
               new(i) == IF i = n THEN [knowledge_chunks[i] EXCEPT !.vector = TRUE] ELSE knowledge_chunks[i]
    <3>1. knowledge_chunks \in Seq(ChunkRow) BY DEF KnowledgeData
    <3>2. knowledge_chunks' = [knowledge_chunks EXCEPT ![n] = [knowledge_chunks[n] EXCEPT !.vector = TRUE]]
      BY <1>6 DEF FillVector
    <3> HIDE DEF n
    <3>3. knowledge_chunks' = [i \in 1..Len(knowledge_chunks) |-> new(i)]
      <4> PICK row : row = [knowledge_chunks[n] EXCEPT !.vector = TRUE] OBVIOUS
      <4>1. knowledge_chunks' = [knowledge_chunks EXCEPT ![n] = row] BY <3>2
      <4>2. knowledge_chunks' = [i \in 1..Len(knowledge_chunks) |->
                                   IF i = n THEN row ELSE knowledge_chunks[i]]
        <5>1. DOMAIN knowledge_chunks = 1..Len(knowledge_chunks) BY <3>1
        <5>2. knowledge_chunks' = [i \in DOMAIN knowledge_chunks |->
                                     IF i = n THEN row ELSE knowledge_chunks[i]]
          BY <4>1, Zenon
        <5> QED BY <5>1, <5>2
      <4>3. \A i \in 1..Len(knowledge_chunks) : (IF i = n THEN row ELSE knowledge_chunks[i]) = new(i)
        OBVIOUS
      <4> HIDE DEF new
      <4> QED BY <4>2, <4>3
    <3>4. \A i \in 1..Len(knowledge_chunks) : new(i) \in ChunkRow
      <4> SUFFICES ASSUME NEW i \in 1..Len(knowledge_chunks) PROVE new(i) \in ChunkRow OBVIOUS
      <4>1. knowledge_chunks[i] \in ChunkRow BY <3>1
      <4>2. [knowledge_chunks[i] EXCEPT !.vector = TRUE] \in ChunkRow BY <4>1 DEF ChunkRow
      <4> QED BY <4>1, <4>2
    <3> HIDE DEF new
    <3> QED BY <3>1, <3>3, <3>4
  <2>2. KnowledgeData' /\ ImportOK' BY <1>6, <2>1 DEF FillVector, versionVars, searchVars, KnowledgeData, ImportOK
  <2>3. FilledOK'
    <3>1. schema_version # 2 BY <1>6 DEF FillVector, FilledOK
    <3> QED BY <1>6, <3>1 DEF FillVector, versionVars, FilledOK
  <2> QED BY <1>1, <1>6, <2>2, <2>3 DEF FillVector, searchVars
<1>7. CASE WriteVersion
  BY <1>1, <1>2, <1>7 DEF WriteVersion, tableVars, searchVars, KnowledgeData, ImportOK, FilledOK
<1>8. CASE ingest_jsonl_file
  BY <1>0, <1>1, <1>2, <1>8 DEF ingest_jsonl_file, versionVars, tableVars, searchVars, KnowledgeData,
     ImportOK, FilledOK
<1>9. CASE EndImport
  BY <1>0, <1>1, <1>2, <1>9 DEF EndImport, versionVars, tableVars, searchVars, KnowledgeData, ImportOK,
     FilledOK
<1>10. CASE InsertDocument
  BY <1>1, <1>2, <1>10 DEF InsertDocument, versionVars, searchVars, KnowledgeData, ImportOK, FilledOK
<1>11. CASE InsertKnowledgeChunk
  <2> DEFINE line == KnowledgeFile[import_line]
             row == ingest_chunk(line)
  <2>1. import_line \in 1..Len(KnowledgeFile) /\ line # BrokenLine /\ Len(knowledge_chunks) < MaxChunks
    BY <1>0, <1>11 DEF InsertKnowledgeChunk, ImportOK, KnowledgeData
  <2>2. line \in Range(KnowledgeFile) \ {BrokenLine} BY <1>0, <2>1 DEF Range
  <2>3. row \in ChunkRow /\ row.vector = TRUE BY <1>0, <2>2 DEF ingest_chunk, ChunkRow, Bodies
  <2>4. knowledge_chunks' = Append(knowledge_chunks, row) BY <1>11 DEF InsertKnowledgeChunk
  <2> HIDE DEF row
  <2>5. knowledge_chunks' \in Seq(ChunkRow) /\ Len(knowledge_chunks') = Len(knowledge_chunks) + 1
    BY <2>3, <2>4 DEF KnowledgeData
  <2>6. KnowledgeData'
    BY <1>0, <1>11, <2>1, <2>5 DEF InsertKnowledgeChunk, versionVars, searchVars, KnowledgeData
  <2>7. ImportOK' BY <1>11, <2>1 DEF InsertKnowledgeChunk, ImportOK
  <2>8. Unfilled = {} BY <1>11 DEF InsertKnowledgeChunk, FilledOK
  <2>9. Unfilled' = {}
    <3> SUFFICES ASSUME NEW i \in DOMAIN knowledge_chunks' PROVE knowledge_chunks'[i].vector
      BY DEF Unfilled
    <3>1. i \in 1..Len(knowledge_chunks) \/ i = Len(knowledge_chunks) + 1 BY <2>5 DEF KnowledgeData
    <3>2. CASE i \in 1..Len(knowledge_chunks)
      <4>1. knowledge_chunks'[i] = knowledge_chunks[i] /\ i \in DOMAIN knowledge_chunks
        BY <2>4, <3>2 DEF KnowledgeData
      <4> QED BY <2>8, <4>1 DEF Unfilled
    <3>3. CASE i = Len(knowledge_chunks) + 1
      <4>1. knowledge_chunks'[i] = row BY <2>4, <3>3 DEF KnowledgeData
      <4> QED BY <2>3, <4>1
    <3> QED BY <3>1, <3>2, <3>3
  <2>10. FilledOK' BY <1>11, <2>9 DEF InsertKnowledgeChunk, versionVars, FilledOK
  <2> QED BY <1>1, <1>11, <2>6, <2>7, <2>10 DEF InsertKnowledgeChunk, searchVars
<1>12. CASE hybrid_retrieve
  <2>1. PICK lexical \in search_knowledge, semantic \in search_knowledge_semantic,
             memory \in Found(DOMAIN Memories) :
          LET hits == _adapt_knowledge_hits(lexical) \o _adapt_knowledge_hits(semantic)
                         \o _adapt_memory_hits(memory)
          IN  retrieved' = [hits |-> hits, fused |-> _rrf_fuse(hits)]
    BY <1>12 DEF hybrid_retrieve
  <2> DEFINE hits == _adapt_knowledge_hits(lexical) \o _adapt_knowledge_hits(semantic)
                        \o _adapt_memory_hits(memory)
  <2>2. knowledge_chunks \in Seq(ChunkRow) BY DEF KnowledgeData
  <2>3. lexical \in Seq(DOMAIN knowledge_chunks) BY FoundAre DEF search_knowledge
  <2>4. semantic \in Seq(DOMAIN knowledge_chunks)
    <3>1. semantic \in Seq(DOMAIN knowledge_chunks \ Unfilled) BY FoundAre DEF search_knowledge_semantic
    <3> QED BY <3>1
  <2>5. memory \in Seq(DOMAIN Memories) BY FoundAre
  <2>6. /\ _adapt_knowledge_hits(lexical) \in Seq(TrueHits)
        /\ _adapt_knowledge_hits(semantic) \in Seq(TrueHits)
        /\ _adapt_memory_hits(memory) \in Seq(TrueHits)
    BY <2>2, <2>3, <2>4, <2>5, AdaptedAre, RecalledAre
  <2>7. hits \in Seq(TrueHits) BY <2>6
  <2>8. retrieved'.hits = hits /\ retrieved'.fused = _rrf_fuse(hits) BY <2>1
  <2> HIDE DEF hits
  <2>9. Fair(hits, _rrf_fuse(hits)) BY <2>7, TrueHitsAreSound, FusingIsFair
  <2>10. FusedIsFair' BY <2>8, <2>9 DEF Fair, FusedIsFair
  <2>11. KnowledgeData' BY <1>0, <1>12 DEF hybrid_retrieve, versionVars, tableVars, KnowledgeData
  <2>12. ImportOK' /\ FilledOK'
    BY <1>2, <1>12 DEF hybrid_retrieve, versionVars, tableVars, ImportOK, FilledOK
  <2> QED BY <2>10, <2>11, <2>12
<1>13. CASE AppendAnswer
  BY <1>1, <1>2, <1>13 DEF AppendAnswer, versionVars, tableVars, KnowledgeData, ImportOK, FilledOK
<1>14. CASE KnowledgeDies
  <2>1. FusedIsFair'
    <3>1. retrieved'.fused = <<>> /\ retrieved'.hits = <<>>
      BY <1>14 DEF KnowledgeDies, NothingRetrieved
    <3> QED BY <3>1 DEF FusedIsFair
  <2> QED BY <1>0, <1>2, <1>14, <2>1 DEF KnowledgeDies, versionVars, tableVars, KnowledgeData, ImportOK,
             FilledOK
<1>15. ASSUME NEW answer \in BOOLEAN, run_knowledge_search(answer) PROVE KnowledgeInv'
  <2>1. /\ knowledge_at = "ready" /\ search_log' = search_log + 1 /\ search_log < MaxSearches
        /\ knowledge_at' \in {"ready", "answer"} /\ question' \in {"asked", question}
        /\ UNCHANGED <<schema_version, vector_columns, knowledge_documents, knowledge_chunks,
                       retrieved, import_line>>
    BY <1>15 DEF run_knowledge_search, versionVars, tableVars
  <2>2. KnowledgeData' BY <1>0, <2>1 DEF KnowledgeData
  <2>3. ImportOK' /\ FilledOK' BY <1>2, <2>1 DEF ImportOK, FilledOK
  <2> QED BY <1>1, <2>1, <2>2, <2>3
<1> QED BY <1>3, <1>4, <1>5, <1>6, <1>7, <1>8, <1>9, <1>10, <1>11, <1>12, <1>13, <1>14, <1>15 DEF KnowledgeNext

\* Types of the knowledge base, and its bounds.
THEOREM KnowledgeTypeCorrect == KnowledgeSpec => []KnowledgeTypeOK
<1>1. KnowledgeInv => KnowledgeTypeOK BY DEF KnowledgeInv, KnowledgeData, KnowledgeTypeOK
<1> QED BY <1>1, KnowledgeStart, KnowledgeStep, PTL DEF KnowledgeSpec

\* After any deaths in a migration or an import an open database has a vector for every row,
\* and whatever three lists of hits hybrid_retrieve gets, the list _rrf_fuse makes of them
\* repeats no content and no source and holds the contents with the greatest weight,
\* heaviest first.
THEOREM KnowledgeStaysFound == KnowledgeSpec => []KnowledgeIsFound
<1>1. KnowledgeInv => KnowledgeIsFound
  BY DEF KnowledgeInv, FilledOK, VectorsAreComplete, KnowledgeIsFound
<1> QED BY <1>1, KnowledgeStart, KnowledgeStep, PTL DEF KnowledgeSpec
=============================================================================
