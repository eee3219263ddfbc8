----------------------------- MODULE JobProofs -----------------------------
(***************************************************************************)
(* For every number of tasks and pool threads: the scheduler's state keeps *)
(* its types, no task is dispatched twice at the same time, and a one-    *)
(* shot task is completed only with its success on record.  The invariant  *)
(* says that while the executor is open a task with a job is not pending,  *)
(* so it cannot be promoted again; once it is closed nothing is submitted. *)
(***************************************************************************)
EXTENDS JobScheduler, TLAPS

\* A thread between taking its job and writing the outcome.
Busy(w) == worker[w].pc \in {"start", "alive", "handler", "finalize", "write"}
Fresh == {"unregistered", "pending"}

PlacesOK ==
    /\ \A w \in Pool : worker[w].pc # "idle" => worker[w].job \in Job
    /\ loop.at \in {"submit", "track"} => loop.cur \in Tasks

StopOK ==
    /\ stopping = "yes" => ~open
    /\ open /\ loop.at = "stopped" /\ stopping = "no" =>
            queue = <<>> /\ \A w \in Pool : ~Busy(w)

StatusOK ==
    open => /\ \A w \in Pool : Busy(w) => row[TaskOf(w)].status \notin Fresh
            /\ \A i \in 1..Len(queue) : row[queue[i][1]].status \notin Fresh
            /\ loop.at = "submit" => row[loop.cur].status \notin Fresh

UniqueOK ==
    /\ \A v, w \in Pool : v # w /\ Busy(v) /\ Busy(w) => TaskOf(v) # TaskOf(w)
    /\ \A i, j \in 1..Len(queue) : i # j => queue[i][1] # queue[j][1]
    /\ \A i \in 1..Len(queue), w \in Pool : Busy(w) => queue[i][1] # TaskOf(w)
    /\ open /\ loop.at = "submit" =>
            /\ \A w \in Pool : Busy(w) => TaskOf(w) # loop.cur
            /\ \A i \in 1..Len(queue) : queue[i][1] # loop.cur

RecordOK ==
    /\ CompletedIsRecorded
    /\ \A w \in Pool : /\ worker[w].pc \in {"finalize", "write"} /\ worker[w].ok
                       /\ Kind[TaskOf(w)] # "cron"
                       => TaskOf(w) \in record

JobInv == TypeOK /\ PlacesOK /\ StopOK /\ StatusOK /\ UniqueOK /\ RecordOK

-----------------------------------------------------------------------------
\* Initially nothing is registered, queued or running.
LEMMA InitJobs == Init => JobInv
<1> SUFFICES ASSUME Init PROVE JobInv
  OBVIOUS
<1>1. /\ Stopped \in Loop /\ Stopped.at = "stopped"
      /\ Idle \in Worker /\ Idle.pc = "idle"
  BY DEF Stopped, Idle, Loop, Worker, Job, NoJob
<1>2. queue \in Seq(Job) /\ Len(queue) = 0 /\ 1..Len(queue) = {}
  BY DEF Init
<1>3. \A w \in Pool : worker[w].pc = "idle"
  BY <1>1 DEF Init
<1>4. \A t \in Tasks : row[t].status = "unregistered"
  BY DEF Init
<1>5. TypeOK
  <2>1. row \in [Tasks -> Row]
    BY DEF Init, Row, Status
  <2>2. worker \in [Pool -> Worker] /\ loop \in Loop
    BY <1>1 DEF Init
  <2>3. future \in [Tasks -> Job \cup {NoJob}] /\ gen \in [Tasks -> {0, 1}]
    BY DEF Init
  <2> QED BY <2>1, <2>2, <2>3, <1>2 DEF TypeOK, Init
<1>6. loop.at = "stopped" /\ stopping = "no" /\ open
  BY <1>1 DEF Init
<1>7. PlacesOK
  BY <1>3, <1>6 DEF PlacesOK
<1>8. StopOK
  BY <1>3, <1>6 DEF StopOK, Busy, Init
<1>9. StatusOK
  BY <1>2, <1>3, <1>6 DEF StatusOK, Busy
<1>10. UniqueOK
  BY <1>2, <1>3, <1>6 DEF UniqueOK, Busy
<1>11. RecordOK
  BY <1>3, <1>4 DEF RecordOK, CompletedIsRecorded, status
<1> QED BY <1>5, <1>7, <1>8, <1>9, <1>10, <1>11 DEF JobInv

\* A task name of a thread's or the queue's job is a task.
LEMMA JobTasks ==
    ASSUME TypeOK, PlacesOK
    PROVE  /\ \A w \in Pool : Busy(w) \/ worker[w].pc = "pop" => TaskOf(w) \in Tasks
           /\ \A i \in 1..Len(queue) : queue[i] \in Job /\ queue[i][1] \in Tasks
<1>1. \A i \in 1..Len(queue) : queue[i] \in Job
  BY DEF TypeOK
<1> QED BY <1>1 DEF PlacesOK, Busy, TaskOf, Job

\* A step that only rewrites rows, and makes none of them fresh, keeps everything.
LEMMA RowsKept ==
    ASSUME JobInv, UNCHANGED <<record, stopping, threads>>,
           row' \in [Tasks -> Row],
           \A t \in Tasks : \/ row'[t].status = row[t].status
                            \/ row'[t].status \in {"failed", "deleted"}
                            \/ /\ row[t].status = "unregistered"
                               /\ row'[t].status = "pending",
           loop' \in Loop,
           loop'.at \in {"submit", "track"} => loop'.at = loop.at /\ loop'.cur = loop.cur,
           loop'.at = "stopped" => loop.at = "stopped"
    PROVE  JobInv'
<1> USE DEF JobInv, threads
<1>1. TypeOK' BY DEF TypeOK
<1>2. PlacesOK' BY DEF PlacesOK
<1>3. StopOK' BY DEF StopOK, Busy
<1>4. StatusOK'
  <2>1. \A w \in Pool : Busy(w) => TaskOf(w) \in Tasks BY JobTasks
  <2>2. \A i \in 1..Len(queue) : queue[i][1] \in Tasks BY JobTasks
  <2> QED BY <2>1, <2>2 DEF StatusOK, Busy, TaskOf, Fresh, PlacesOK
<1>5. UniqueOK' BY DEF UniqueOK, Busy, TaskOf
<1>6. RecordOK' BY DEF RecordOK, CompletedIsRecorded, status, TaskOf
<1> QED BY <1>1, <1>2, <1>3, <1>4, <1>5, <1>6

-----------------------------------------------------------------------------
(* The API and the clock. *)

\* register_task makes a row pending that had no job (its id is new).
LEMMA RegisterKeeps ==
    ASSUME JobInv, NEW t \in Tasks, NEW until \in {"none", "ahead", "past"},
           register_task(t, until)
    PROVE  JobInv'
<1>1. row' \in [Tasks -> Row]
  BY DEF register_task, JobInv, TypeOK, Row, Status
<1> QED BY <1>1, RowsKept DEF register_task, status, JobInv, TypeOK

\* unregister_task deletes a row; its jobs find it gone.
LEMMA UnregisterKeeps ==
    ASSUME JobInv, NEW t \in Tasks, unregister_task(t)
    PROVE  JobInv'
<1>1. row' \in [Tasks -> Row]
  BY DEF unregister_task, JobInv, TypeOK, Row, Status
<1> QED BY <1>1, RowsKept DEF unregister_task, JobInv, TypeOK

\* The clock changes no status.
LEMMA ClockKeeps ==
    ASSUME JobInv, NEW t \in Tasks, DelayElapses(t) \/ HeartbeatAges(t)
    PROVE  JobInv'
<1>1. row' \in [Tasks -> Row] /\ \A u \in Tasks : row'[u].status = row[u].status
  BY SMTT(20) DEF DelayElapses, HeartbeatAges, JobInv, TypeOK, Row
<1> QED BY <1>1, RowsKept DEF DelayElapses, HeartbeatAges, JobInv, TypeOK

\* Recovery makes running tasks pending again: with an open executor there is no job left.
LEMMA StartKeeps ==
    ASSUME JobInv, start
    PROVE  JobInv'
<1> USE DEF JobInv, start, threads
<1>1. row' \in [Tasks -> Row]
      /\ \A t \in Tasks : row'[t].status = "completed" => row[t].status = "completed"
  BY DEF TypeOK, recover, Row, Status, status
<1>2. loop' \in Loop /\ loop'.at = "fetch"
  BY DEF TypeOK, Loop
<1>3. TypeOK' BY <1>1, <1>2 DEF TypeOK
<1>4. PlacesOK' BY <1>2 DEF PlacesOK
<1>5. StopOK' BY <1>2 DEF StopOK
<1>6. StatusOK'
  <2> SUFFICES ASSUME open PROVE StatusOK'
    BY DEF StatusOK
  <2>1. stopping = "no"
    BY DEF StopOK, TypeOK
  <2>2. queue = <<>> /\ \A w \in Pool : ~Busy(w)
    BY <2>1 DEF StopOK
  <2>3. 1..Len(queue) = {}
    BY <2>2
  <2> QED BY <1>2, <2>2, <2>3 DEF StatusOK, Busy
<1>7. UniqueOK' BY <1>2 DEF UniqueOK, Busy, TaskOf
<1>8. RecordOK' BY <1>1 DEF RecordOK, CompletedIsRecorded, status, TaskOf
<1> QED BY <1>3, <1>4, <1>5, <1>6, <1>7, <1>8

\* stop sets its event; the loop and the threads go on.
LEMMA StopKeeps ==
    ASSUME JobInv, stop
    PROVE  JobInv'
<1> USE DEF JobInv, stop, threads
<1>1. TypeOK' BY DEF TypeOK
<1>2. PlacesOK' BY DEF PlacesOK
<1>3. StopOK' BY DEF StopOK
<1>4. StatusOK' BY DEF StatusOK, Busy, TaskOf
<1>5. UniqueOK' BY DEF UniqueOK, Busy, TaskOf
<1>6. RecordOK' BY DEF RecordOK, CompletedIsRecorded, status, TaskOf
<1> QED BY <1>1, <1>2, <1>3, <1>4, <1>5, <1>6

\* The executor is closed and its queue emptied; jobs in a thread go on.
LEMMA StopReturnsKeeps ==
    ASSUME JobInv, StopReturns
    PROVE  JobInv'
<1> USE DEF JobInv, StopReturns, shutdown
<1>1. queue' \in Seq(Job) /\ 1..Len(queue') = {}
  OBVIOUS
<1>2. TypeOK' BY <1>1 DEF TypeOK
<1>3. PlacesOK' BY DEF PlacesOK
<1>4. StopOK' BY DEF StopOK
<1>5. StatusOK' BY DEF StatusOK
<1>6. UniqueOK' BY <1>1 DEF UniqueOK, Busy, TaskOf
<1>7. RecordOK' BY DEF RecordOK, CompletedIsRecorded, status, TaskOf
<1> QED BY <1>2, <1>3, <1>4, <1>5, <1>6, <1>7

\* A new process has no threads, whatever the table says.
LEMMA CrashKeeps ==
    ASSUME JobInv, Crash
    PROVE  JobInv'
<1> USE DEF JobInv, Crash
<1>1. /\ Stopped \in Loop /\ Stopped.at = "stopped"
      /\ Idle \in Worker /\ Idle.pc = "idle"
  BY DEF Stopped, Idle, Loop, Worker, Job, NoJob
<1>2. queue' \in Seq(Job) /\ 1..Len(queue') = {}
  OBVIOUS
<1>3. \A w \in Pool : worker'[w].pc = "idle"
  BY <1>1
<1>4. worker' \in [Pool -> Worker] /\ loop' \in Loop
  BY <1>1
<1>5. future' \in [Tasks -> Job \cup {NoJob}] /\ gen' \in [Tasks -> {0, 1}]
  OBVIOUS
<1>6. TypeOK' BY <1>2, <1>4, <1>5 DEF TypeOK
<1>7. PlacesOK' BY <1>1, <1>3 DEF PlacesOK
<1>8. StopOK' BY <1>3 DEF StopOK, Busy
<1>9. StatusOK' BY <1>1, <1>2, <1>3 DEF StatusOK, Busy
<1>10. UniqueOK' BY <1>1, <1>2, <1>3 DEF UniqueOK, Busy
<1>11. RecordOK' BY <1>3 DEF RecordOK, CompletedIsRecorded, status
<1> QED BY <1>6, <1>7, <1>8, <1>9, <1>10, <1>11
-----------------------------------------------------------------------------
(* The scheduler loop. *)

\* The loop ends only when stop has set its event.
LEMMA LoopStopsKeeps ==
    ASSUME JobInv, LoopStops
    PROVE  JobInv'
<1> USE DEF JobInv, LoopStops, threads
<1>1. Stopped \in Loop /\ Stopped.at = "stopped"
  BY DEF Stopped, Loop
<1>2. stopping # "no" /\ stopping' # "no"
  OBVIOUS
<1>3. TypeOK' BY <1>1 DEF TypeOK
<1>4. PlacesOK' BY <1>1 DEF PlacesOK
<1>5. StopOK' BY <1>2 DEF StopOK
<1>6. StatusOK' BY <1>1 DEF StatusOK, Busy, TaskOf
<1>7. UniqueOK' BY <1>1 DEF UniqueOK, Busy, TaskOf
<1>8. RecordOK' BY DEF RecordOK, CompletedIsRecorded, status, TaskOf
<1> QED BY <1>3, <1>4, <1>5, <1>6, <1>7, <1>8

\* Reading the due rows changes the loop only.
LEMMA FetchDueKeeps ==
    ASSUME JobInv, FetchDue
    PROVE  JobInv'
<1>1. loop' \in Loop /\ loop'.at = "promote"
  BY DEF FetchDue, JobInv, TypeOK, Loop
<1> QED BY <1>1, RowsKept DEF FetchDue, JobInv, TypeOK

\* So do the ends of the three passes, and an exception in one of them.
LEMMA PassesKeep ==
    ASSUME JobInv, AllPromoted \/ AllRefreshed \/ AllSwept \/ SubmitRaises \/ IterationFails
    PROVE  JobInv'
<1>1. loop' \in Loop /\ loop'.at \in {"refresh", "sweep", "fetch"}
  <2>1. CASE AllPromoted
    BY <2>1 DEF AllPromoted, JobInv, TypeOK, Loop
  <2>2. CASE AllRefreshed
    BY <2>2 DEF AllRefreshed, JobInv, TypeOK, Loop
  <2>3. CASE AllSwept
    BY <2>3 DEF AllSwept, JobInv, TypeOK, Loop
  <2>4. CASE SubmitRaises
    BY <2>4 DEF SubmitRaises, JobInv, TypeOK, Loop
  <2>5. CASE IterationFails
    BY <2>5 DEF IterationFails, JobInv, TypeOK, Loop
  <2> QED BY <2>1, <2>2, <2>3, <2>4, <2>5
<1> QED
  BY <1>1, RowsKept DEF AllPromoted, AllRefreshed, AllSwept, SubmitRaises, IterationFails,
     JobInv, TypeOK

\* A row that is not pending any more is passed over.
LEMMA PassOverKeeps ==
    ASSUME JobInv, NEW t \in Tasks, PassOver(t)
    PROVE  JobInv'
<1>1. loop' \in Loop /\ loop'.at = "promote"
  BY DEF PassOver, JobInv, TypeOK, Loop
<1> QED BY <1>1, RowsKept DEF PassOver, JobInv, TypeOK

\* Marking a row failed: only its status and heartbeat change.
LEMMA MarkedFailed ==
    ASSUME TypeOK, NEW t \in Tasks, mark_failed(t)
    PROVE  /\ row' \in [Tasks -> Row]
           /\ \A u \in Tasks : row'[u].status = row[u].status \/ row'[u].status = "failed"
BY DEF mark_failed, Update, TypeOK, Row, Status

\* The sweeper fails rows and starts nothing.
LEMMA SweepKeeps ==
    ASSUME JobInv, NEW t \in Tasks, Sweep(t)
    PROVE  JobInv'
<1>1. loop' \in Loop /\ loop'.at = "sweep"
  BY DEF Sweep, JobInv, TypeOK, Loop
<1>2. TypeOK /\ mark_failed(t)
  BY DEF Sweep, JobInv
<1> QED BY <1>1, <1>2, MarkedFailed, RowsKept DEF Sweep, JobInv, TypeOK

\* A refresh changes heartbeats and the table of futures only.
LEMMA RefreshKeeps ==
    ASSUME JobInv, NEW t \in Tasks, Refresh(t)
    PROVE  JobInv'
<1> USE DEF JobInv, Refresh
<1>1. loop' \in Loop /\ loop'.at = "refresh" /\ loop.at = "refresh"
  BY DEF TypeOK, Loop
<1>2. row' \in [Tasks -> Row] /\ \A u \in Tasks : row'[u].status = row[u].status
  <2>1. row' = row \/ row' = [row EXCEPT ![t].beat = "fresh"]
    OBVIOUS
  <2>2. row \in [Tasks -> Row]
    BY DEF TypeOK
  <2> HIDE DEF JobInv, Refresh
  <2> QED BY <2>1, <2>2 DEF Row
<1>3. future' \in [Tasks -> Job \cup {NoJob}]
  BY DEF TypeOK
<1>4. TypeOK' BY <1>1, <1>2, <1>3 DEF TypeOK
<1>5. PlacesOK' BY <1>1 DEF PlacesOK
<1>6. StopOK' BY <1>1 DEF StopOK
<1>7. StatusOK'
  <2>1. \A w \in Pool : Busy(w) => TaskOf(w) \in Tasks BY JobTasks
  <2>2. \A i \in 1..Len(queue) : queue[i][1] \in Tasks BY JobTasks
  <2> QED BY <1>1, <1>2, <2>1, <2>2 DEF StatusOK, Busy, TaskOf
<1>8. UniqueOK' BY <1>1 DEF UniqueOK, Busy, TaskOf
<1>9. RecordOK' BY <1>2 DEF RecordOK, CompletedIsRecorded, status, TaskOf
<1> QED BY <1>4, <1>5, <1>6, <1>7, <1>8, <1>9

\* A promoted task was pending, so with an open executor it has no job.
LEMMA PromoteKeeps ==
    ASSUME JobInv, NEW t \in Tasks, Promote(t)
    PROVE  JobInv'
<1> USE DEF JobInv, Promote, threads
<1>1. loop' \in Loop /\ loop'.at = "submit" /\ loop'.cur = t
  BY DEF TypeOK, Loop
<1>2. /\ row' \in [Tasks -> Row] /\ row'[t].status = "running"
      /\ \A u \in Tasks : u # t => row'[u] = row[u]
  BY DEF TypeOK, Row, Status
<1>3. /\ \A w \in Pool : Busy(w) => TaskOf(w) \in Tasks
      /\ \A i \in 1..Len(queue) : queue[i][1] \in Tasks
  BY JobTasks
<1>4. open => /\ \A w \in Pool : Busy(w) => TaskOf(w) # t
              /\ \A i \in 1..Len(queue) : queue[i][1] # t
  BY DEF StatusOK, Fresh, status
<1>5. TypeOK' BY <1>1, <1>2 DEF TypeOK
<1>6. PlacesOK' BY <1>1 DEF PlacesOK
<1>7. StopOK' BY <1>1 DEF StopOK
<1>8. StatusOK'
  BY <1>1, <1>2, <1>3, <1>4 DEF StatusOK, Busy, TaskOf, Fresh
<1>9. UniqueOK' BY <1>1, <1>4 DEF UniqueOK, Busy, TaskOf
<1>10. RecordOK' BY <1>2 DEF RecordOK, CompletedIsRecorded, status, TaskOf
<1> QED BY <1>5, <1>6, <1>7, <1>8, <1>9, <1>10

\* What Append does, position by position.
LEMMA Appended ==
    ASSUME NEW S, NEW s \in Seq(S), NEW e \in S
    PROVE  /\ Append(s, e) \in Seq(S) /\ Len(Append(s, e)) = Len(s) + 1 /\ Len(s) \in Nat
           /\ \A i \in 1..Len(s) : Append(s, e)[i] = s[i]
           /\ Append(s, e)[Len(s) + 1] = e
OBVIOUS

\* The submitted task has no job yet (UniqueOK), so its job is the only one.
LEMMA SubmitKeeps ==
    ASSUME JobInv, Submit
    PROVE  JobInv'
<1> USE DEF JobInv, Submit
<1>1. loop.cur \in Tasks /\ open
  BY DEF PlacesOK
<1> DEFINE job == <<loop.cur, 1 - gen[loop.cur]>>
<1>2. job \in Job /\ job[1] = loop.cur
  <2>1. gen[loop.cur] \in {0, 1}
    BY <1>1 DEF TypeOK
  <2> HIDE DEF JobInv, Submit
  <2> QED BY <1>1, <2>1 DEF Job
<1>3. queue' = Append(queue, job)
  OBVIOUS
<1>4. loop' \in Loop /\ loop'.at = "track" /\ loop'.cur = loop.cur
  BY DEF TypeOK, Loop
<1>5. gen' \in [Tasks -> {0, 1}]
  BY <1>1 DEF TypeOK
<1> HIDE DEF job
<1>6. /\ queue' \in Seq(Job) /\ Len(queue') = Len(queue) + 1 /\ Len(queue) \in Nat
      /\ \A i \in 1..Len(queue) : queue'[i] = queue[i]
      /\ queue'[Len(queue) + 1] = job
  <2>1. queue \in Seq(Job)
    BY DEF TypeOK
  <2> HIDE DEF JobInv, Submit
  <2> QED BY <1>2, <1>3, <2>1, Appended
<1>7. \A i \in 1..Len(queue') :
          \/ i \in 1..Len(queue) /\ queue'[i] = queue[i]
          \/ i = Len(queue) + 1 /\ queue'[i][1] = loop.cur
  BY <1>2, <1>6
<1>8. TypeOK' BY <1>4, <1>5, <1>6 DEF TypeOK
<1>9. PlacesOK' BY <1>1, <1>4 DEF PlacesOK
<1>10. StopOK' BY <1>4 DEF StopOK
<1>11. StatusOK'
  <2>1. \A i \in 1..Len(queue') : row[queue'[i][1]].status \notin Fresh
    BY <1>1, <1>7 DEF StatusOK
  <2> QED BY <1>1, <1>4, <2>1 DEF StatusOK, Busy, TaskOf
<1>12. UniqueOK'
  <2>1. \A i, j \in 1..Len(queue') : i # j => queue'[i][1] # queue'[j][1]
    BY <1>1, <1>7 DEF UniqueOK
  <2>2. \A i \in 1..Len(queue'), w \in Pool : Busy(w) => queue'[i][1] # TaskOf(w)
    BY <1>1, <1>7 DEF UniqueOK
  <2> QED BY <1>4, <2>1, <2>2 DEF UniqueOK, Busy, TaskOf
<1>13. RecordOK' BY DEF RecordOK, CompletedIsRecorded, status, TaskOf
<1> QED BY <1>8, <1>9, <1>10, <1>11, <1>12, <1>13

\* Recording the future changes neither rows nor jobs.
LEMMA TrackKeeps ==
    ASSUME JobInv, Track
    PROVE  JobInv'
<1> USE DEF JobInv, Track
<1>1. loop' \in Loop /\ loop'.at = "promote"
  BY DEF TypeOK, Loop
<1>2. loop.cur \in Tasks
  BY DEF PlacesOK
<1>3. future' \in [Tasks -> Job \cup {NoJob}]
  BY <1>2 DEF TypeOK, Job
<1>4. TypeOK' BY <1>1, <1>3 DEF TypeOK
<1>5. PlacesOK' BY <1>1 DEF PlacesOK
<1>6. StopOK' BY <1>1 DEF StopOK
<1>7. StatusOK' BY <1>1 DEF StatusOK, Busy, TaskOf
<1>8. UniqueOK' BY <1>1 DEF UniqueOK, Busy, TaskOf
<1>9. RecordOK' BY DEF RecordOK, CompletedIsRecorded, status, TaskOf
<1> QED BY <1>4, <1>5, <1>6, <1>7, <1>8, <1>9
-----------------------------------------------------------------------------
(* The pool threads. *)

\* A thread that leaves its job, or goes on with it, without touching the rows: it is
\* busy afterwards only if it was busy before, with the same job.
LEMMA WorkerGoes ==
    ASSUME JobInv, NEW w \in Pool, NEW r \in Worker,
           worker' = [worker EXCEPT ![w] = r],
           UNCHANGED <<row, record, loop, stopping, open, queue, gen>>,
           future' \in [Tasks -> Job \cup {NoJob}],
           r.pc \in {"idle", "pop"} \/ Busy(w),
           r.pc # "idle" => r.job = worker[w].job /\ worker[w].pc # "idle",
           r.pc \in {"finalize", "write"} /\ r.ok /\ Kind[r.job[1]] # "cron"
               => r.job[1] \in record
    PROVE  JobInv'
<1> USE DEF JobInv
<1>1. worker' \in [Pool -> Worker] /\ worker'[w] = r
      /\ \A v \in Pool : v # w => worker'[v] = worker[v]
  BY DEF TypeOK
<1>2. \A v \in Pool : worker'[v].pc \in {"start", "alive", "handler", "finalize", "write"}
          => Busy(v) /\ worker'[v].job = worker[v].job
  BY <1>1 DEF Busy
<1>3. TypeOK' BY <1>1 DEF TypeOK
<1>4. PlacesOK' BY <1>1 DEF PlacesOK
<1>5. StopOK' BY <1>2 DEF StopOK, Busy
<1>6. StatusOK' BY <1>2 DEF StatusOK, Busy, TaskOf
<1>7. UniqueOK' BY <1>2 DEF UniqueOK, Busy, TaskOf
<1>8. RecordOK' BY <1>1 DEF RecordOK, CompletedIsRecorded, status, TaskOf
<1> QED BY <1>3, <1>4, <1>5, <1>6, <1>7, <1>8

\* The thread records of the steps below are thread records.
LEMMA WorkerRecords ==
    ASSUME TypeOK, NEW w \in Pool, NEW p \in {"start", "alive", "handler", "finalize", "write", "pop"},
           NEW ok \in BOOLEAN
    PROVE  /\ Idle \in Worker /\ Idle.pc = "idle"
           /\ [worker[w] EXCEPT !.pc = p] \in Worker
           /\ [worker[w] EXCEPT !.pc = p].pc = p
           /\ [worker[w] EXCEPT !.pc = p].job = worker[w].job
           /\ [worker[w] EXCEPT !.pc = p].ok = worker[w].ok
           /\ [worker[w] EXCEPT !.pc = p, !.ok = ok] \in Worker
           /\ [worker[w] EXCEPT !.pc = p, !.ok = ok].pc = p
           /\ [worker[w] EXCEPT !.pc = p, !.ok = ok].job = worker[w].job
           /\ [worker[w] EXCEPT !.pc = p, !.ok = ok].ok = ok
BY DEF TypeOK, Worker, Idle, NoJob

\* A thread goes on with its job, or drops it when the row is gone or unreadable.
LEMMA ReadRowKeeps ==
    ASSUME JobInv, NEW w \in Pool, ReadRow(w)
    PROVE  JobInv'
<1>1. TypeOK /\ future' \in [Tasks -> Job \cup {NoJob}] /\ Busy(w)
  BY DEF JobInv, TypeOK, ReadRow, Busy
<1>2. UNCHANGED <<row, record, loop, stopping, open, queue, gen>>
  BY DEF ReadRow, kept
<1>3. CASE Goes(w, "alive")
  <2>1. worker' = [worker EXCEPT ![w] = [worker[w] EXCEPT !.pc = "alive"]]
    BY <1>3 DEF Goes, Becomes
  <2> QED BY <1>1, <1>2, <2>1, WorkerRecords, WorkerGoes DEF Busy, ReadRow
<1>4. CASE Becomes(w, Idle)
  <2>1. worker' = [worker EXCEPT ![w] = Idle]
    BY <1>4 DEF Becomes
  <2> QED BY <1>1, <1>2, <2>1, WorkerRecords, WorkerGoes
<1> QED BY <1>3, <1>4 DEF ReadRow

\* A thread enters the handler, or takes the recorded success of its key.
LEMMA CallHandlerKeeps ==
    ASSUME JobInv, NEW w \in Pool, CallHandler(w)
    PROVE  JobInv'
<1>1. TypeOK /\ future' \in [Tasks -> Job \cup {NoJob}] /\ Busy(w) /\ worker[w].pc # "idle"
  BY DEF JobInv, TypeOK, CallHandler, Busy
<1>2. UNCHANGED <<row, record, loop, stopping, open, queue, gen>>
  BY DEF CallHandler, kept
<1>3. CASE TaskOf(w) \in record
  <2>1. worker' = [worker EXCEPT ![w] = [worker[w] EXCEPT !.pc = "finalize", !.ok = TRUE]]
    BY <1>3 DEF CallHandler, Becomes
  <2> QED BY <1>1, <1>2, <1>3, <2>1, WorkerRecords, WorkerGoes DEF TaskOf
<1>4. CASE TaskOf(w) \notin record
  <2>1. worker' = [worker EXCEPT ![w] = [worker[w] EXCEPT !.pc = "handler"]]
    BY <1>4 DEF CallHandler, Becomes, Goes
  <2> QED BY <1>1, <1>2, <2>1, WorkerRecords, WorkerGoes
<1> QED BY <1>3, <1>4

\* An exception: the thread goes to its finally clause.
LEMMA TriggerRaisesKeeps ==
    ASSUME JobInv, NEW w \in Pool, TriggerRaises(w)
    PROVE  JobInv'
<1>1. TypeOK /\ future' \in [Tasks -> Job \cup {NoJob}] /\ worker[w].pc # "idle"
  BY DEF JobInv, TypeOK, TriggerRaises
<1>2. /\ UNCHANGED <<row, record, loop, stopping, open, queue, gen>>
      /\ worker' = [worker EXCEPT ![w] = [worker[w] EXCEPT !.pc = "pop"]]
  BY DEF TriggerRaises, kept, Goes, Becomes
<1> QED BY <1>1, <1>2, WorkerRecords, WorkerGoes

\* _finalize_after_dispatch reads the status and goes on.
LEMMA ReadStatusKeeps ==
    ASSUME JobInv, NEW w \in Pool, ReadStatus(w)
    PROVE  JobInv'
<1>1. TypeOK /\ future' \in [Tasks -> Job \cup {NoJob}] /\ Busy(w) /\ worker[w].pc = "finalize"
  BY DEF JobInv, TypeOK, ReadStatus, Busy
<1>2. UNCHANGED <<row, record, loop, stopping, open, queue, gen>>
  BY DEF ReadStatus, kept
<1>3. PICK p \in {"write", "pop"} : worker' = [worker EXCEPT ![w] = [worker[w] EXCEPT !.pc = p]]
  <2>1. CASE InTable(TaskOf(w)) /\ status(TaskOf(w)) # "failed"
    BY <2>1 DEF ReadStatus, Goes, Becomes
  <2>2. CASE ~(InTable(TaskOf(w)) /\ status(TaskOf(w)) # "failed")
    BY <2>2 DEF ReadStatus, Goes, Becomes
  <2> QED BY <2>1, <2>2
<1>4. worker[w].ok /\ Kind[TaskOf(w)] # "cron" => TaskOf(w) \in record
  BY <1>1 DEF JobInv, RecordOK
<1> DEFINE r == [worker[w] EXCEPT !.pc = p]
<1>5. r \in Worker /\ r.pc = p /\ r.job = worker[w].job /\ r.ok = worker[w].ok
  <2>1. worker[w] \in Worker
    BY <1>1 DEF TypeOK
  <2> QED BY <2>1, <1>3 DEF Worker
<1>6. worker' = [worker EXCEPT ![w] = r]
  BY <1>3
<1> HIDE DEF r
<1> QED BY <1>1, <1>2, <1>4, <1>5, <1>6, WorkerGoes DEF TaskOf

\* The finally clause forgets the future and leaves the job.
LEMMA PopFutureKeeps ==
    ASSUME JobInv, NEW w \in Pool, PopFuture(w)
    PROVE  JobInv'
<1>1. TypeOK /\ future' \in [Tasks -> Job \cup {NoJob}]
  BY DEF JobInv, TypeOK, PopFuture
<1>2. /\ UNCHANGED <<row, record, loop, stopping, open, queue, gen>>
      /\ worker' = [worker EXCEPT ![w] = Idle]
  BY DEF PopFuture, kept, Becomes
<1> QED BY <1>1, <1>2, WorkerRecords, WorkerGoes
\* The record of completed keys only grows, and a success is in it before it is written.
LEMMA HandlerEndsKeeps ==
    ASSUME JobInv, NEW w \in Pool, NEW ok \in BOOLEAN, HandlerEnds(w, ok)
    PROVE  JobInv'
<1> DEFINE r == [worker[w] EXCEPT !.pc = "finalize", !.ok = ok]
<1>1. r \in Worker /\ r.pc = "finalize" /\ r.job = worker[w].job /\ r.ok = ok
  <2>1. worker[w] \in Worker
    BY DEF JobInv, TypeOK
  <2> QED BY <2>1 DEF Worker
<1>2. worker' = [worker EXCEPT ![w] = r]
  BY DEF HandlerEnds, Becomes
<1>3. /\ UNCHANGED <<row, loop, stopping, open, queue, gen, future>>
      /\ worker[w].pc = "handler" /\ Busy(w)
  BY DEF HandlerEnds, kept, Busy
<1>4. TaskOf(w) \in Tasks
  BY <1>3, JobTasks DEF JobInv
<1>5. /\ record \subseteq record' /\ record' \subseteq Tasks
      /\ ok /\ Kind[TaskOf(w)] # "cron" => TaskOf(w) \in record'
  BY <1>4 DEF HandlerEnds, JobInv, TypeOK
<1> HIDE DEF r
<1> USE DEF JobInv
<1>6. worker' \in [Pool -> Worker] /\ worker'[w] = r
      /\ \A v \in Pool : v # w => worker'[v] = worker[v]
  BY <1>1, <1>2 DEF TypeOK
<1>7. \A v \in Pool : worker'[v].pc \in {"start", "alive", "handler", "finalize", "write"}
          => Busy(v) /\ worker'[v].job = worker[v].job
  BY <1>1, <1>3, <1>6 DEF Busy
<1>8. TypeOK' BY <1>3, <1>5, <1>6 DEF TypeOK
<1>9. PlacesOK' BY <1>1, <1>3, <1>6 DEF PlacesOK
<1>10. StopOK' BY <1>3, <1>7 DEF StopOK, Busy
<1>11. StatusOK' BY <1>3, <1>7 DEF StatusOK, Busy, TaskOf
<1>12. UniqueOK' BY <1>3, <1>7 DEF UniqueOK, Busy, TaskOf
<1>13. RecordOK' BY <1>1, <1>3, <1>5, <1>6 DEF RecordOK, CompletedIsRecorded, status, TaskOf
<1> QED BY <1>8, <1>9, <1>10, <1>11, <1>12, <1>13

\* The head of the queue moves into a thread.
LEMMA TakeJobKeeps ==
    ASSUME JobInv, NEW w \in Pool, TakeJob(w)
    PROVE  JobInv'
<1>1. queue \in Seq(Job) /\ queue # <<>>
  BY DEF JobInv, TypeOK, TakeJob
<1>2. /\ Len(queue) \in Nat /\ 1 \in 1..Len(queue)
      /\ Head(queue) = queue[1] /\ Head(queue) \in Job
      /\ Tail(queue) \in Seq(Job)
      /\ \A i \in 1..Len(Tail(queue)) :
             i + 1 \in 1..Len(queue) /\ Tail(queue)[i] = queue[i + 1] /\ i + 1 # 1
      /\ \A i, j \in 1..Len(Tail(queue)) : i # j => i + 1 # j + 1
  BY <1>1
<1> DEFINE r == [pc |-> "start", job |-> Head(queue), ok |-> FALSE]
<1>3. r \in Worker /\ r.pc = "start" /\ r.job = queue[1] /\ ~r.ok
  BY <1>2 DEF Worker
<1>4. worker' = [worker EXCEPT ![w] = r] /\ queue' = Tail(queue) /\ worker[w].pc = "idle"
  BY DEF TakeJob, Becomes
<1>5. UNCHANGED <<row, record, future, loop, stopping, open, gen>>
  BY DEF TakeJob, kept
<1> HIDE DEF r
<1> USE DEF JobInv
<1>6. worker' \in [Pool -> Worker] /\ worker'[w] = r
      /\ \A v \in Pool : v # w => worker'[v] = worker[v]
  BY <1>3, <1>4 DEF TypeOK
<1>7. \A i \in 1..Len(queue') :
          i + 1 \in 1..Len(queue) /\ queue'[i] = queue[i + 1] /\ i + 1 # 1
  BY <1>2, <1>4
<1>8. \A v \in Pool : worker'[v].pc \in {"start", "alive", "handler", "finalize", "write"}
          => \/ v = w /\ worker'[v].job = queue[1]
             \/ v # w /\ Busy(v) /\ worker'[v].job = worker[v].job
  BY <1>3, <1>6 DEF Busy
<1>9. TypeOK' BY <1>2, <1>4, <1>5, <1>6 DEF TypeOK
<1>10. PlacesOK' BY <1>2, <1>3, <1>5, <1>6 DEF PlacesOK
<1>11. StopOK' BY <1>1, <1>5 DEF StopOK
<1>12. StatusOK' BY <1>2, <1>5, <1>7, <1>8 DEF StatusOK, Busy, TaskOf
<1>13. UniqueOK'
  <2>1. \A i, j \in 1..Len(queue') : i # j => queue'[i][1] # queue'[j][1]
    BY <1>2, <1>4, <1>7 DEF UniqueOK
  <2>2. \A u, v \in Pool : u # v /\ Busy(u)' /\ Busy(v)' => TaskOf(u)' # TaskOf(v)'
    BY <1>2, <1>8 DEF UniqueOK, Busy, TaskOf
  <2>3. \A i \in 1..Len(queue'), v \in Pool : Busy(v)' => queue'[i][1] # TaskOf(v)'
    BY <1>2, <1>7, <1>8 DEF UniqueOK, Busy, TaskOf
  <2>4. (open /\ loop.at = "submit")' =>
            /\ \A v \in Pool : Busy(v)' => TaskOf(v)' # loop'.cur
            /\ \A i \in 1..Len(queue') : queue'[i][1] # loop'.cur
    BY <1>2, <1>5, <1>7, <1>8 DEF UniqueOK, Busy, TaskOf
  <2> QED BY <2>1, <2>2, <2>3, <2>4 DEF UniqueOK
<1>14. RecordOK' BY <1>3, <1>5, <1>6 DEF RecordOK, CompletedIsRecorded, status, TaskOf
<1> QED BY <1>9, <1>10, <1>11, <1>12, <1>13, <1>14

\* A thread leaves its job and writes the task's row: no other job is of this task.
LEMMA OutcomeKeeps ==
    ASSUME JobInv, NEW w \in Pool, Busy(w), NEW x \in Row, Update(TaskOf(w), x), Goes(w, "pop"),
           UNCHANGED <<record, queue, future, kept>>,
           x.status = "completed" => TaskOf(w) \in record
    PROVE  JobInv'
<1> DEFINE t == TaskOf(w)
           r == [worker[w] EXCEPT !.pc = "pop"]
<1>1. r \in Worker /\ r.pc = "pop" /\ r.job = worker[w].job
  BY WorkerRecords DEF JobInv
<1>2. worker' = [worker EXCEPT ![w] = r]
  BY DEF Goes, Becomes
<1>3. t \in Tasks
  BY JobTasks DEF JobInv
<1>4. row' = row \/ row' = [row EXCEPT ![t] = x]
  BY DEF Update
<1>5. UNCHANGED <<record, queue, future, loop, stopping, open, gen>>
  BY DEF kept
<1> HIDE DEF r
<1> USE DEF JobInv
<1>6. worker' \in [Pool -> Worker] /\ worker'[w] = r
      /\ \A v \in Pool : v # w => worker'[v] = worker[v]
  BY <1>1, <1>2 DEF TypeOK
<1>7. \A v \in Pool : worker'[v].pc \in {"start", "alive", "handler", "finalize", "write"}
          => v # w /\ Busy(v) /\ worker'[v].job = worker[v].job /\ worker[v].job[1] # t
  BY <1>1, <1>6 DEF Busy, UniqueOK, TaskOf
<1>8. /\ row' \in [Tasks -> Row] /\ \A u \in Tasks : u # t => row'[u] = row[u]
      /\ row'[t].status = "completed" => row[t].status = "completed" \/ t \in record
  BY <1>3, <1>4 DEF TypeOK
<1>9. /\ \A v \in Pool : Busy(v) => worker[v].job[1] \in Tasks
      /\ \A i \in 1..Len(queue) : queue[i][1] \in Tasks /\ queue[i][1] # t
  BY JobTasks DEF UniqueOK, TaskOf
<1>10. TypeOK' BY <1>5, <1>6, <1>8 DEF TypeOK
<1>11. PlacesOK' BY <1>1, <1>5, <1>6 DEF PlacesOK, Busy
<1>12. StopOK' BY <1>5, <1>7 DEF StopOK, Busy
<1>13. StatusOK'
  <2>1. open /\ loop.at = "submit" => loop.cur # t /\ loop.cur \in Tasks
    BY DEF UniqueOK, PlacesOK
  <2> QED BY <1>5, <1>7, <1>8, <1>9, <2>1 DEF StatusOK, Busy, TaskOf
<1>14. UniqueOK' BY <1>5, <1>7 DEF UniqueOK, Busy, TaskOf
<1>15. RecordOK'
  BY <1>1, <1>3, <1>5, <1>6, <1>8 DEF RecordOK, CompletedIsRecorded, status, TaskOf
<1> QED BY <1>10, <1>11, <1>12, <1>13, <1>14, <1>15

\* What mark_failed writes.
LEMMA FailedRow ==
    ASSUME TypeOK, NEW t \in Tasks
    PROVE  /\ [row[t] EXCEPT !.status = "failed", !.beat = "fresh"] \in Row
           /\ [row[t] EXCEPT !.status = "failed", !.beat = "fresh"].status = "failed"
           /\ [row[t] EXCEPT !.status = "completed", !.beat = "fresh"] \in Row
BY DEF TypeOK, Row, Status

\* A dead skill fails the task.
LEMMA SkillIsDeadKeeps ==
    ASSUME JobInv, NEW w \in Pool, SkillIsDead(w)
    PROVE  JobInv'
<1> DEFINE x == [row[TaskOf(w)] EXCEPT !.status = "failed", !.beat = "fresh"]
<1>1. Busy(w) BY DEF SkillIsDead, Busy
<1>2. TaskOf(w) \in Tasks BY <1>1, JobTasks DEF JobInv
<1>3. x \in Row /\ x.status = "failed" BY <1>2, FailedRow DEF JobInv
<1>4. /\ Update(TaskOf(w), x) /\ Goes(w, "pop")
      /\ UNCHANGED <<record, queue, future, kept>>
  BY DEF SkillIsDead, mark_failed
<1> HIDE DEF x
<1> QED BY <1>1, <1>3, <1>4, OutcomeKeeps

\* _finalize_after_dispatch writes failed, pending (cron) or completed.
LEMMA WriteOutcomeKeeps ==
    ASSUME JobInv, NEW w \in Pool, WriteOutcome(w)
    PROVE  JobInv'
<1> DEFINE t == TaskOf(w)
           failed == [row[t] EXCEPT !.status = "failed", !.beat = "fresh"]
           again == [status |-> "pending", until |-> "ahead", beat |-> "fresh"]
           done == [row[t] EXCEPT !.status = "completed", !.beat = "fresh"]
<1>1. Busy(w) /\ worker[w].pc = "write" BY DEF WriteOutcome, Busy
<1>2. t \in Tasks BY <1>1, JobTasks DEF JobInv
<1>3. failed \in Row /\ failed.status = "failed" /\ done \in Row
  BY <1>2, FailedRow DEF JobInv
<1>4. again \in Row /\ again.status = "pending" BY DEF Row, Status
<1>5. Goes(w, "pop") /\ UNCHANGED <<record, queue, future, kept>>
  BY DEF WriteOutcome
<1>6. CASE ~Succeeded(w)
  <2>1. Update(TaskOf(w), failed) BY <1>6 DEF WriteOutcome, mark_failed
  <2> HIDE DEF failed
  <2> QED BY <1>1, <1>3, <1>5, <2>1, OutcomeKeeps
<1>7. CASE Succeeded(w) /\ Kind[t] = "cron"
  <2>1. Update(TaskOf(w), again) BY <1>7 DEF WriteOutcome
  <2> HIDE DEF again
  <2> QED BY <1>1, <1>4, <1>5, <2>1, OutcomeKeeps
<1>8. CASE Succeeded(w) /\ Kind[t] # "cron"
  <2>1. Update(TaskOf(w), done) BY <1>8 DEF WriteOutcome
  <2>2. TaskOf(w) \in record BY <1>1, <1>8 DEF JobInv, RecordOK, Succeeded
  <2> HIDE DEF done
  <2> QED BY <1>1, <1>3, <1>5, <2>1, <2>2, OutcomeKeeps
<1> QED BY <1>6, <1>7, <1>8

-----------------------------------------------------------------------------
\* Every step keeps the invariant.
LEMMA NextJobs ==
    ASSUME JobInv, [Next]_vars
    PROVE  JobInv'
<1>1. CASE LoopStep
  BY <1>1, LoopStopsKeeps, FetchDueKeeps, SubmitKeeps, TrackKeeps, PassesKeep, PromoteKeeps,
     PassOverKeeps, RefreshKeeps, SweepKeeps DEF LoopStep
<1>2. CASE Api
  BY <1>2, RegisterKeeps, UnregisterKeeps, StartKeeps, StopKeeps, StopReturnsKeeps DEF Api
<1>3. CASE Crash \/ IterationFails
  BY <1>3, CrashKeeps, PassesKeep
<1>4. ASSUME NEW w \in Pool, WorkerStep(w) PROVE JobInv'
  BY <1>4, TakeJobKeeps, ReadRowKeeps, SkillIsDeadKeeps, CallHandlerKeeps, HandlerEndsKeeps,
     TriggerRaisesKeeps, ReadStatusKeeps, WriteOutcomeKeeps, PopFutureKeeps DEF WorkerStep
<1>5. ASSUME NEW t \in Tasks, DelayElapses(t) \/ HeartbeatAges(t) PROVE JobInv'
  BY <1>5, ClockKeeps
<1>6. CASE UNCHANGED vars
  <2>1. loop' = loop /\ row' = row /\ UNCHANGED <<record, stopping, threads>>
    BY <1>6 DEF vars, threads
  <2> QED BY <2>1, RowsKept DEF JobInv, TypeOK
<1> QED BY <1>1, <1>2, <1>3, <1>4, <1>5, <1>6 DEF Next

\* The inductive invariant holds in every reachable state.
LEMMA JobsInvariant == Spec => []JobInv
<1>1. Init => JobInv BY InitJobs
<1>2. JobInv /\ [Next]_vars => JobInv' BY NextJobs
<1> QED BY <1>1, <1>2, PTL DEF Spec

\* The table, the loop, the pool, the queue and the futures keep their types.
THEOREM JobTypeCorrect == Spec => []TypeOK
<1>1. JobInv => TypeOK BY DEF JobInv
<1> QED BY <1>1, JobsInvariant, PTL

\* A task is never dispatched by two pool threads at the same time, whatever stops,
\* starts, sweeps and crashes happen (_mark_running, ThreadPoolExecutor.shutdown).
THEOREM DispatchesAreSingle == Spec => []OneDispatchPerTask
<1>1. JobInv => OneDispatchPerTask
  BY DEF JobInv, UniqueOK, Busy, OneDispatchPerTask
<1> QED BY <1>1, JobsInvariant, PTL

\* A task is completed only with its success on record (_finalize_after_dispatch).
THEOREM CompletionsAreRecorded == Spec => []CompletedIsRecorded
<1>1. JobInv => CompletedIsRecorded BY DEF JobInv, RecordOK
<1> QED BY <1>1, JobsInvariant, PTL
\* recover, the loop and the API leave a failed task failed or deleted: only a thread that
\* read its status before the sweeper did can bring it back (_finalize_after_dispatch).
THEOREM FailuresAreKept == Spec => FailedIsKept
<1> DEFINE Kept(t) == status(t) = "failed" =>
                          \/ row'[t].status \in {"failed", "deleted"}
                          \/ \E w \in Pool : worker[w].pc = "write" /\ TaskOf(w) = t
<1>1. ASSUME TypeOK, PlacesOK, Next, NEW t \in Tasks PROVE Kept(t)
  <2>1. ASSUME row' = row PROVE Kept(t)
    BY <2>1 DEF status
  <2>2. ASSUME NEW u \in Tasks, mark_failed(u) PROVE Kept(t)
    BY <1>1, <2>2 DEF mark_failed, Update, status, TypeOK, Row
  <2>3. CASE LoopStep
    <3>1. CASE LoopStops \/ FetchDue \/ Submit \/ SubmitRaises \/ Track
               \/ AllPromoted \/ AllRefreshed \/ AllSwept
      BY <3>1, <2>1 DEF LoopStops, FetchDue, Submit, SubmitRaises, Track, AllPromoted,
         AllRefreshed, AllSwept
    <3>2. ASSUME NEW u \in Tasks, PassOver(u) PROVE Kept(t)
      BY <3>2, <2>1 DEF PassOver
    <3>3. ASSUME NEW u \in Tasks, Sweep(u) PROVE Kept(t)
      BY <3>3, <2>2 DEF Sweep
    <3>4. ASSUME NEW u \in Tasks, Refresh(u) PROVE Kept(t)
      <4>1. row' = row \/ (row' = [row EXCEPT ![u].beat = "fresh"] /\ status(u) = "running")
        BY <3>4 DEF Refresh
      <4> QED BY <1>1, <4>1 DEF status, TypeOK
    <3>5. ASSUME NEW u \in Tasks, Promote(u) PROVE Kept(t)
      BY <1>1, <3>5 DEF Promote, status, TypeOK
    <3> QED BY <2>3, <3>1, <3>2, <3>3, <3>4, <3>5 DEF LoopStep
  <2>4. CASE Api
    <3>1. ASSUME NEW u \in Tasks, unregister_task(u) PROVE Kept(t)
      BY <1>1, <3>1 DEF unregister_task, status, TypeOK
    <3>2. ASSUME NEW u \in Tasks, NEW until \in {"none", "ahead", "past"},
                 register_task(u, until)
          PROVE  Kept(t)
      BY <1>1, <3>2 DEF register_task, status, TypeOK
    <3>3. CASE start
      BY <3>3 DEF start, recover, status
    <3>4. CASE stop \/ StopReturns
      BY <3>4, <2>1 DEF stop, StopReturns
    <3> QED BY <2>4, <3>1, <3>2, <3>3, <3>4 DEF Api
  <2>5. CASE Crash \/ IterationFails
    BY <2>5, <2>1 DEF Crash, IterationFails
  <2>6. ASSUME NEW w \in Pool, WorkerStep(w) PROVE Kept(t)
    <3>1. CASE \/ TakeJob(w) \/ ReadRow(w) \/ CallHandler(w) \/ TriggerRaises(w)
               \/ ReadStatus(w) \/ PopFuture(w)
               \/ \E ok \in BOOLEAN : HandlerEnds(w, ok)
      BY <3>1, <2>1 DEF TakeJob, ReadRow, CallHandler, TriggerRaises, ReadStatus, PopFuture,
         HandlerEnds
    <3>2. CASE SkillIsDead(w)
      <4>1. TaskOf(w) \in Tasks
        BY <1>1, <3>2, JobTasks DEF SkillIsDead, Busy
      <4> QED BY <4>1, <3>2, <2>2 DEF SkillIsDead
    <3>3. CASE WriteOutcome(w)
      <4>1. TaskOf(w) \in Tasks /\ worker[w].pc = "write"
        BY <1>1, <3>3, JobTasks DEF WriteOutcome, Busy
      <4>2. CASE TaskOf(w) = t
        BY <4>1, <4>2
      <4>3. CASE TaskOf(w) # t
        BY <1>1, <3>3, <4>1, <4>3 DEF WriteOutcome, mark_failed, Update, status, TypeOK
      <4> QED BY <4>2, <4>3
    <3> QED BY <2>6, <3>1, <3>2, <3>3 DEF WorkerStep
  <2>7. ASSUME NEW u \in Tasks, DelayElapses(u) \/ HeartbeatAges(u) PROVE Kept(t)
    BY <1>1, <2>7 DEF DelayElapses, HeartbeatAges, status, TypeOK, Row
  <2> QED BY <1>1, <2>3, <2>4, <2>5, <2>6, <2>7 DEF Next
<1>2. TypeOK /\ PlacesOK /\ [Next]_vars => [\A t \in Tasks : Kept(t)]_vars
  BY <1>1
<1>3. JobInv => TypeOK /\ PlacesOK
  BY DEF JobInv
<1> QED BY <1>2, <1>3, JobsInvariant, PTL DEF Spec, FailedIsKept
=============================================================================
