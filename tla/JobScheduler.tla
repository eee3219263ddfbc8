---------------------------- MODULE JobScheduler ----------------------------
(***************************************************************************)
(* JobScheduler: the job_tasks table, the scheduler loop (promote, refresh *)
(* heartbeats, sweep), the thread pool that triggers tasks, and start,     *)
(* stop and process restarts.  MessageRouter.dispatch is seen from here as *)
(* one handler execution guarded by the record of its idempotency key      *)
(* (module MessageRouter has its inside).  Wall clock time is two facts a  *)
(* step of the clock may change: a delay elapsed, a heartbeat grew old.    *)
(***************************************************************************)
EXTENDS Naturals, FiniteSets, Sequences

CONSTANTS
    Tasks,      \* task ids (fresh for every registration)
    Kind,       \* task_type of a task
    Pool,       \* threads of the executor
    NoTask,     \* an idle pool thread's task
    LoopErrors  \* whether a statement of the loop may fail

ASSUME SchedulerAssumption ==
    /\ IsFiniteSet(Tasks) /\ IsFiniteSet(Pool) /\ Pool # {} /\ NoTask \notin Tasks
    /\ LoopErrors \in BOOLEAN
    /\ Kind \in [Tasks -> {"cron", "delay", "long_running"}]

VARIABLES
    row,        \* job_tasks: status, delay_until and last_heartbeat by task
    record,     \* tasks whose key job:<id> is recorded as completed
    loop,       \* the scheduler thread: where it is, the tasks it has still to look at
    stopping,   \* _stop_event: clear, set while stop waits for the loop, set and stop is done
    open,       \* the executor accepts work
    queue,      \* submitted jobs no pool thread has taken yet
    worker,     \* pool threads
    future,     \* _running_futures: the job recorded for a task
    gen         \* number of the task's last job, modulo 2

vars == <<row, record, loop, stopping, open, queue, worker, future, gen>>

Status == {"unregistered", "pending", "running", "failed", "completed", "deleted"}
Row == [status : Status, until : {"none", "ahead", "past"}, beat : {"none", "fresh", "old"}]
Loop == [at : {"stopped", "fetch", "promote", "submit", "track", "refresh", "sweep"},
         todo : SUBSET Tasks, cur : Tasks \cup {NoTask}]
Job == Tasks \X {0, 1}
NoJob == <<NoTask, 0>>
Worker == [pc : {"idle", "start", "alive", "handler", "finalize", "write", "pop"},
           job : Job \cup {NoJob}, ok : BOOLEAN]

Stopped == [at |-> "stopped", todo |-> {}, cur |-> NoTask]
Idle == [pc |-> "idle", job |-> NoJob, ok |-> FALSE]

Init ==
    /\ row = [t \in Tasks |-> [status |-> "unregistered", until |-> "none", beat |-> "none"]]
    /\ record = {}
    /\ loop = Stopped
    /\ stopping = "no"
    /\ open = TRUE
    /\ queue = <<>>
    /\ worker = [w \in Pool |-> Idle]
    /\ future = [t \in Tasks |-> NoJob]
    /\ gen = [t \in Tasks |-> 0]

-----------------------------------------------------------------------------
status(t) == row[t].status
InTable(t) == status(t) \notin {"unregistered", "deleted"}

\* Jobs that are queued or in a pool thread: their future is not done().
Live == {queue[i] : i \in 1..Len(queue)} \cup {worker[w].job : w \in Pool}

\* UPDATE ... WHERE task_id = ?: no effect on a row that is gone.
Update(t, r) == row' = IF InTable(t) THEN [row EXCEPT ![t] = r] ELSE row

\* mutant: a status nobody knows.
mark_failed_Error(t) == Update(t, [row[t] EXCEPT !.status = "error", !.beat = "fresh"])
mark_failed(t) == Update(t, [row[t] EXCEPT !.status = "failed", !.beat = "fresh"])

threads == <<open, queue, worker, future, gen>>

-----------------------------------------------------------------------------
(* The API.                                                                *)

\* A delay task needs a delay_until, the others may have one.
register_task(t, until) ==
    /\ status(t) = "unregistered"
    /\ Kind[t] = "delay" => until # "none"
    /\ row' = [row EXCEPT ![t] = [status |-> "pending", until |-> until, beat |-> "none"]]
    /\ UNCHANGED <<record, loop, stopping, threads>>

unregister_task(t) ==
    /\ status(t) \in {"pending", "failed", "completed"}
    /\ row' = [row EXCEPT ![t] = [status |-> "deleted", until |-> "none", beat |-> "none"]]
    /\ UNCHANGED <<record, loop, stopping, threads>>

\* mutant: failed tasks are tried again as well.
recover_Failed ==
    row' = [t \in Tasks |-> IF status(t) \in {"running", "pending", "failed"}
                            THEN [row[t] EXCEPT !.status = "pending", !.beat = "none"]
                            ELSE row[t]]
recover ==
    row' = [t \in Tasks |-> IF status(t) \in {"running", "pending"}
                            THEN [row[t] EXCEPT !.status = "pending", !.beat = "none"]
                            ELSE row[t]]

\* A second start in the same process finds the executor as stop left it.  One thread
\* starts and stops the scheduler: stop has returned.
start ==
    /\ loop.at = "stopped" /\ stopping # "joining"
    /\ stopping' = "no"
    /\ recover
    /\ loop' = [loop EXCEPT !.at = "fetch"]
    /\ UNCHANGED <<record, threads>>

\* mutant: the executor goes on taking jobs.
shutdown_Open == UNCHANGED <<open, queue>>
\* executor.shutdown(wait=False, cancel_futures=True): jobs in a thread go on.
shutdown == open' = FALSE /\ queue' = <<>>

\* join gives the loop two seconds ...
stop ==
    /\ stopping = "no"
    /\ stopping' = "joining"
    /\ UNCHANGED <<row, record, loop, threads>>

\* ... then the executor is shut down in any case.
StopReturns ==
    /\ stopping = "joining"
    /\ stopping' = "yes"
    /\ shutdown
    /\ UNCHANGED <<row, record, loop, worker, future, gen>>

\* The process dies; a new one has a new executor and no threads.
Crash ==
    /\ loop' = Stopped /\ stopping' = "no" /\ open' = TRUE /\ queue' = <<>>
    /\ worker' = [w \in Pool |-> Idle]
    /\ future' = [t \in Tasks |-> NoJob]
    /\ gen' = [t \in Tasks |-> 0]
    /\ UNCHANGED <<row, record>>

-----------------------------------------------------------------------------
(* The scheduler loop.                                                     *)

\* The loop looks at its stop event between two iterations.
LoopStops ==
    /\ loop.at = "fetch" /\ stopping # "no"
    /\ loop' = Stopped
    /\ UNCHANGED <<row, record, stopping, threads>>

\* mutant: a long running task needs a delay_until as well.
IsDue_Long(t) == row[t].until = "past"
\* _fetch_due_tasks on a pending row; a cron task without delay_until is due once the
\* clock has passed the next match of its expression.
IsDue(t) == IF Kind[t] = "delay" THEN row[t].until = "past" ELSE row[t].until # "ahead"
WaitsForClock(t) == Kind[t] = "cron" /\ row[t].until = "none"

FetchDue ==
    /\ loop.at = "fetch" /\ stopping = "no"
    /\ LET due == {t \in Tasks : status(t) = "pending" /\ IsDue(t)}
       IN  \E early \in SUBSET {t \in due : WaitsForClock(t)} :
               loop' = [loop EXCEPT !.at = "promote", !.todo = due \ early]
    /\ UNCHANGED <<row, record, stopping, threads>>

\* _mark_running finds the row pending still.
Promote(t) ==
    /\ loop.at = "promote" /\ t \in loop.todo
    /\ status(t) = "pending"
    /\ row' = [row EXCEPT ![t] = [status |-> "running", until |-> "none", beat |-> "fresh"]]
    /\ loop' = [at |-> "submit", todo |-> loop.todo \ {t}, cur |-> t]
    /\ UNCHANGED <<record, stopping, threads>>

\* It was unregistered since it was fetched.
PassOver(t) ==
    /\ loop.at = "promote" /\ t \in loop.todo
    /\ status(t) # "pending"
    /\ loop' = [loop EXCEPT !.todo = @ \ {t}]
    /\ UNCHANGED <<row, record, stopping, threads>>

Submit ==
    /\ loop.at = "submit" /\ open
    /\ LET g == 1 - gen[loop.cur]
       IN  /\ queue' = Append(queue, <<loop.cur, g>>)
           /\ gen' = [gen EXCEPT ![loop.cur] = g]
    /\ loop' = [loop EXCEPT !.at = "track"]
    /\ UNCHANGED <<row, record, stopping, open, worker, future>>

\* submit raises on an executor that was shut down; the iteration ends there.
SubmitRaises ==
    /\ loop.at = "submit" /\ ~open
    /\ loop' = [at |-> "fetch", todo |-> {}, cur |-> NoTask]
    /\ UNCHANGED <<row, record, stopping, threads>>

Track ==
    /\ loop.at = "track"
    /\ future' = [future EXCEPT ![loop.cur] = <<loop.cur, gen[loop.cur]>>]
    /\ loop' = [loop EXCEPT !.at = "promote", !.cur = NoTask]
    /\ UNCHANGED <<row, record, stopping, open, queue, worker, gen>>

\* All are promoted: take the futures that are recorded now.
AllPromoted ==
    /\ loop.at = "promote" /\ loop.todo = {}
    /\ loop' = [loop EXCEPT !.at = "refresh", !.todo = {t \in Tasks : future[t] # NoJob}]
    /\ UNCHANGED <<row, record, stopping, threads>>

\* A done future is dropped, any other one is a heartbeat of its running task.
Refresh(t) ==
    /\ loop.at = "refresh" /\ t \in loop.todo
    /\ IF future[t] \in Live
       THEN /\ row' = IF status(t) = "running" THEN [row EXCEPT ![t].beat = "fresh"] ELSE row
            /\ UNCHANGED future
       ELSE UNCHANGED row /\ future' = [future EXCEPT ![t] = NoJob]
    /\ loop' = [loop EXCEPT !.todo = @ \ {t}]
    /\ UNCHANGED <<record, stopping, open, queue, worker, gen>>

\* mutant: only tasks whose future is known are looked at.
TimedOut_Tracked(t) == status(t) = "running" /\ row[t].beat = "old" /\ future[t] # NoJob
TimedOut(t) == status(t) = "running" /\ row[t].beat = "old"

\* _heartbeat_sweeper reads the rows, then marks them one by one.
AllRefreshed ==
    /\ loop.at = "refresh" /\ loop.todo = {}
    /\ loop' = [loop EXCEPT !.at = "sweep", !.todo = {t \in Tasks : TimedOut(t)}]
    /\ UNCHANGED <<row, record, stopping, threads>>

Sweep(t) ==
    /\ loop.at = "sweep" /\ t \in loop.todo
    /\ mark_failed(t)
    /\ loop' = [loop EXCEPT !.todo = @ \ {t}]
    /\ UNCHANGED <<record, stopping, threads>>

AllSwept ==
    /\ loop.at = "sweep" /\ loop.todo = {}
    /\ loop' = [loop EXCEPT !.at = "fetch"]
    /\ UNCHANGED <<row, record, stopping, threads>>

\* A statement raises sqlite3.Error: logged, and the rest of the iteration is left out.
IterationFails ==
    /\ LoopErrors
    /\ loop.at \in {"promote", "refresh", "sweep"}
    /\ loop' = [at |-> "fetch", todo |-> {}, cur |-> NoTask]
    /\ UNCHANGED <<row, record, stopping, threads>>

-----------------------------------------------------------------------------
(* _trigger_task on a pool thread.                                         *)

Becomes(w, r) == worker' = [worker EXCEPT ![w] = r]
Goes(w, place) == Becomes(w, [worker[w] EXCEPT !.pc = place])
TaskOf(w) == worker[w].job[1]
kept == <<loop, stopping, open, gen>>

TakeJob(w) ==
    /\ worker[w].pc = "idle" /\ queue # <<>>
    /\ Becomes(w, [pc |-> "start", job |-> Head(queue), ok |-> FALSE])
    /\ queue' = Tail(queue)
    /\ UNCHANGED <<row, record, future, kept>>

\* A row that is gone, or cannot be read, raises before the try: the future stays in
\* _running_futures.
ReadRow(w) ==
    /\ worker[w].pc = "start"
    /\ \/ InTable(TaskOf(w)) /\ Goes(w, "alive")
       \/ Becomes(w, Idle)
    /\ UNCHANGED <<row, record, queue, future, kept>>

SkillIsDead(w) ==
    /\ worker[w].pc = "alive"
    /\ mark_failed(TaskOf(w))
    /\ Goes(w, "pop")
    /\ UNCHANGED <<record, queue, future, kept>>

\* dispatch: a recorded key is skipped as a duplicate, a cron task has no key.
CallHandler(w) ==
    /\ worker[w].pc = "alive"
    /\ IF TaskOf(w) \in record
       THEN Becomes(w, [worker[w] EXCEPT !.pc = "finalize", !.ok = TRUE])
       ELSE Goes(w, "handler")
    /\ UNCHANGED <<row, record, queue, future, kept>>

\* dispatch returns completed, or failed or timeout.
HandlerEnds(w, ok) ==
    /\ worker[w].pc = "handler"
    /\ record' = IF ok /\ Kind[TaskOf(w)] # "cron" THEN record \cup {TaskOf(w)} ELSE record
    /\ Becomes(w, [worker[w] EXCEPT !.pc = "finalize", !.ok = ok])
    /\ UNCHANGED <<row, queue, future, kept>>

\* is_alive, dispatch or a statement raises: the finally clause runs, the row is left as it is.
TriggerRaises(w) ==
    /\ worker[w].pc \in {"alive", "handler", "finalize", "write"}
    /\ Goes(w, "pop")
    /\ UNCHANGED <<row, record, queue, future, kept>>

\* _finalize_after_dispatch reads the status first ...
ReadStatus(w) ==
    /\ worker[w].pc = "finalize"
    /\ Goes(w, IF InTable(TaskOf(w)) /\ status(TaskOf(w)) # "failed" THEN "write" ELSE "pop")
    /\ UNCHANGED <<row, record, queue, future, kept>>

Succeeded_Always(w) == TRUE                                   \* mutant
Succeeded(w) == worker[w].ok

\* ... and writes the outcome whatever it is by then.
WriteOutcome(w) ==
    /\ worker[w].pc = "write"
    /\ LET t == TaskOf(w)
       IN  IF ~Succeeded(w) THEN mark_failed(t)
           ELSE IF Kind[t] = "cron"
           THEN Update(t, [status |-> "pending", until |-> "ahead", beat |-> "fresh"])
           ELSE Update(t, [row[t] EXCEPT !.status = "completed", !.beat = "fresh"])
    /\ Goes(w, "pop")
    /\ UNCHANGED <<record, queue, future, kept>>

\* The finally clause drops the task's future, whichever job it belongs to.
PopFuture(w) ==
    /\ worker[w].pc = "pop"
    /\ future' = [future EXCEPT ![TaskOf(w)] = NoJob]
    /\ Becomes(w, Idle)
    /\ UNCHANGED <<row, record, queue, kept>>

-----------------------------------------------------------------------------
(* The clock.                                                              *)

DelayElapses(t) ==
    /\ row[t].until = "ahead"
    /\ row' = [row EXCEPT ![t].until = "past"]
    /\ UNCHANGED <<record, loop, stopping, threads>>

\* Only a running task's heartbeat is compared with the clock.
HeartbeatAges(t) ==
    /\ status(t) = "running" /\ row[t].beat = "fresh"
    /\ row' = [row EXCEPT ![t].beat = "old"]
    /\ UNCHANGED <<record, loop, stopping, threads>>

-----------------------------------------------------------------------------
LoopStep ==
    \/ LoopStops \/ FetchDue \/ Submit \/ SubmitRaises \/ Track
    \/ AllPromoted \/ AllRefreshed \/ AllSwept
    \/ \E t \in Tasks : Promote(t) \/ PassOver(t) \/ Refresh(t) \/ Sweep(t)

WorkerStep(w) ==
    \/ TakeJob(w) \/ ReadRow(w) \/ SkillIsDead(w) \/ CallHandler(w)
    \/ \E ok \in BOOLEAN : HandlerEnds(w, ok)
    \/ TriggerRaises(w) \/ ReadStatus(w) \/ WriteOutcome(w) \/ PopFuture(w)

Api ==
    \/ \E t \in Tasks : unregister_task(t)
    \/ \E t \in Tasks, until \in {"none", "ahead", "past"} : register_task(t, until)
    \/ start \/ stop \/ StopReturns

Next ==
    \/ LoopStep \/ IterationFails \/ Api \/ Crash
    \/ \E w \in Pool : WorkerStep(w)
    \/ \E t \in Tasks : DelayElapses(t) \/ HeartbeatAges(t)

Spec == Init /\ [][Next]_vars

\* The loop's thread and the pool's threads run, dispatch returns (it has a timeout),
\* and time passes.
FairSpec ==
    /\ Spec
    /\ WF_vars(LoopStep)
    /\ \A w \in Pool : WF_vars(WorkerStep(w))
    /\ \A t \in Tasks : WF_vars(DelayElapses(t)) /\ WF_vars(HeartbeatAges(t))

-----------------------------------------------------------------------------
(* Properties.                                                             *)

TypeOK ==
    /\ row \in [Tasks -> Row]
    /\ record \subseteq Tasks
    /\ loop \in Loop
    /\ stopping \in {"no", "joining", "yes"} /\ open \in BOOLEAN
    /\ queue \in Seq(Job)
    /\ worker \in [Pool -> Worker]
    /\ future \in [Tasks -> Job \cup {NoJob}]
    /\ gen \in [Tasks -> {0, 1}]

\* A task is never dispatched by two pool threads at the same time, over sweeps, cron rounds,
\* stop and start in one process and restarts (_mark_running, the closed executor).
OneDispatchPerTask ==
    \A v, w \in Pool : v # w /\ worker[v].pc = "handler" /\ worker[w].pc = "handler" =>
        TaskOf(v) # TaskOf(w)

\* A one-shot task is completed only when its handler's success is on record.
CompletedIsRecorded ==
    \A t \in Tasks : status(t) = "completed" => t \in record

\* A failed task stays failed, except for a thread that read its status before the
\* sweeper failed it (_finalize_after_dispatch): recovery never brings it back.
FailedIsKept ==
    [][\A t \in Tasks : status(t) = "failed" =>
           \/ row'[t].status \in {"failed", "deleted"}
           \/ \E w \in Pool : worker[w].pc = "write" /\ TaskOf(w) = t]_vars

\* A running task ends while the scheduler is up, also when its thread died, its row was
\* promoted into a closed executor or an exception left it running: the sweeper gets it.
RunningEnds ==
    \A t \in Tasks : status(t) = "running" ~> status(t) # "running" \/ loop.at = "stopped"

\* A pending long running task whose time has come is taken up while the scheduler is up.
DueIsTaken ==
    \A t \in Tasks :
        status(t) = "pending" /\ Kind[t] = "long_running" /\ row[t].until # "ahead"
            ~> status(t) # "pending" \/ loop.at = "stopped"

\* A pending task can become due: a task that was running when the process died can be
\* resumed after the restart.
PendingCanRun ==
    \A t \in Tasks : status(t) = "pending" /\ Kind[t] = "delay" => row[t].until # "none"
=============================================================================
