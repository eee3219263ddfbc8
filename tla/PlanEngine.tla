----------------------------- MODULE PlanEngine -----------------------------
(***************************************************************************)
(* PlanOrchestrator at work on one persisted plan.  Every caller (an SSE   *)
(* turn, the IdleThink thread, resume) is a worker: it loads its own copy  *)
(* of the TaskContext, drives PlanDAGEngine.run_until_blocked on that copy *)
(* and saves the whole snapshot back.  Between the load and the save other *)
(* workers and the pause / cancel / retry / consent endpoints run.         *)
(* store is the snapshot in StateManager, stage the rows of                *)
(* skill_executions, requests the A3 gateway's in-memory table.            *)
(***************************************************************************)
EXTENDS PlanContext

CONSTANTS
    Workers,    \* threads that may work on the plan
    Callers     \* which entry points are used: "stream", "idle", "resume", "manual"

VARIABLES
    store,      \* the persisted snapshot
    wk,         \* per worker: its control state and its copy of the context
    requests,   \* UIHostConsentGateway.pending, by the step asked for
    stage,      \* SkillExecutionTracker rows of the plan's session
    granted,    \* history: steps whose execution somebody allowed
    announced,  \* history: task.step_completed events per step (2 = more than one)
    outcomes,   \* history: record_plan_outcome calls (2 = more than one)
    verified    \* history: auto_verify_candidate was called

vars == <<store, wk, requests, stage, granted, announced, outcomes, verified>>
history == <<granted, announced, outcomes, verified>>

Modes == {"stream", "once", "run"}
Control == {"idle", "loop", "sched", "exec", "post", "publish"}

Worker ==
    [pc: Control,
     mode: Modes,                          \* SSE turn, one execute_next, or _run
     ctx: TaskContext,
     prev: [Steps -> StepStatus],          \* execute_next's previous_statuses
     cur: Steps \cup {NoStep},             \* the step being executed
     tries: Nat,                           \* attempts of execute_with_retry
     dry: BOOLEAN,                         \* the SSE loop saw no ready step
     pub: SUBSET Steps]                    \* step_completed events to publish

IdleWorker ==
    [pc |-> "idle", mode |-> "once", ctx |-> CreatedContext,
     prev |-> CreatedContext.step_status, cur |-> NoStep, tries |-> 0,
     dry |-> FALSE, pub |-> {}]

RequestState == {"none", "pending", "allowed", "denied"}
StageState == {"none", "executing", "completed", "failed"}

Init ==
    /\ store = CreatedContext
    /\ wk = [w \in Workers |-> IdleWorker]
    /\ requests = [s \in Steps |-> "none"]
    /\ stage = [k \in 1..NStages |-> "none"]
    /\ granted = {}
    /\ announced = [s \in Steps |-> 0]
    /\ outcomes = 0
    /\ verified = FALSE

-----------------------------------------------------------------------------
Go(w, r) == wk' = [wk EXCEPT ![w] = r]
Stop(w) == Go(w, IdleWorker)

\* A worker about to call execute_next on context c.
AtLoop(mode, c) ==
    [IdleWorker EXCEPT !.pc = "loop", !.mode = mode, !.ctx = c,
                       !.dry = (get_ready_steps(c) = {})]

\* One more event or call, counted up to two.
More(n) == IF n = 0 THEN 1 ELSE 2

\* record_plan_outcome and auto_verify_candidate, when feedback was applied just now.
RecordOutcome(old, new) ==
    IF new.feedback_applied /\ ~old.feedback_applied /\ new.status # "cancelled"
    THEN /\ outcomes' = More(outcomes)
         /\ verified' = (verified \/ AllGreen(new))
    ELSE UNCHANGED <<outcomes, verified>>

\* run_until_blocked on a context that is not terminal.
EngineStart(c) ==
    [c EXCEPT !.status = "running", !.paused_reason = "none", !.paused_step_id = NoStep]

-----------------------------------------------------------------------------
(* The hard gate and the stage tracker.                                    *)

\* mutant: a failed stage lets the next one start.
GateCloses_FailedPasses(s) ==
    StageOf[s] # 0 /\ \E k \in 1..(StageOf[s] - 1) : stage[k] \notin {"completed", "failed"}
\* HardGate.check: some stage before the step's own is not completed.
GateCloses(s) ==
    StageOf[s] # 0 /\ \E k \in 1..(StageOf[s] - 1) : stage[k] # "completed"

gate_blocked(c) ==
    get_ready_steps(c) # {} /\ GateCloses(FirstOf(get_ready_steps(c)))

check_hard_gate(c) ==
    LET s == FirstOf(get_ready_steps(c))
    IN  [SetStatus(c, {s}, "blocked") EXCEPT
            !.status = "paused", !.paused_reason = "hard_gate_blocked", !.paused_step_id = s]

Tracked(w, s) == wk[w].mode # "run" /\ StageOf[s] # 0

\* start_stage inserts a row; an existing row is left as it is.
start_stage(w, s) ==
    stage' = IF Tracked(w, s) /\ stage[StageOf[s]] = "none"
             THEN [stage EXCEPT ![StageOf[s]] = "executing"] ELSE stage

\* mutant: a success leaves the row executing.
finish_stage_FailedOnly(w, s, result) ==
    stage' = IF Tracked(w, s) /\ stage[StageOf[s]] = "executing" /\ result = "failed"
             THEN [stage EXCEPT ![StageOf[s]] = result] ELSE stage
\* complete_stage and fail_stage change an executing row only.
finish_stage(w, s, result) ==
    stage' = IF Tracked(w, s) /\ stage[StageOf[s]] = "executing"
             THEN [stage EXCEPT ![StageOf[s]] = result] ELSE stage

-----------------------------------------------------------------------------
(* Entry points.                                                           *)

\* execute_turn_stream(resume=True) on a plan that waits for no consent.
StreamStart(w) ==
    /\ "stream" \in Callers /\ wk[w].pc = "idle"
    /\ store.paused_reason # "waiting_consent"
    /\ Go(w, AtLoop("stream", store))
    /\ UNCHANGED <<store, requests, stage, history>>

\* execute_turn_stream(resume=True, consent_request_id) on a decided request.
StreamResume(w) ==
    /\ "stream" \in Callers /\ wk[w].pc = "idle"
    /\ WaitsForConsent(store)
    /\ LET r == get_step_consent_request(store, store.paused_step_id)
           c == IF requests[r] = "allowed"
                THEN [GrantConsent(store) EXCEPT !.status = "running"]
                ELSE DenyConsent(store)
       IN  /\ r # NoStep
           /\ requests[r] \in {"allowed", "denied"}
           /\ store' = c
           /\ IF requests[r] = "allowed"
              THEN /\ Go(w, AtLoop("stream", c))
                   /\ granted' = granted \cup {store.paused_step_id}
              ELSE UNCHANGED <<wk, granted>>
    /\ UNCHANGED <<requests, stage, announced, outcomes, verified>>

\* IdleThinkCoordinator._execute_plan_steps: one iteration of its loop.
IdleExecute(w) ==
    /\ "idle" \in Callers /\ wk[w].pc = "idle"
    /\ ~is_terminal(store)
    /\ ~(store.status = "paused" /\ store.paused_reason \notin {"none", "user_input"})
    /\ Go(w, AtLoop("once", store))
    /\ UNCHANGED <<store, requests, stage, history>>

\* POST /api/plan/<id>/execute past its own checks (a step without requires_auth, or
\* consent_granted in the request): execute_next, whatever the plan's status.
ManualExecute(w) ==
    /\ "manual" \in Callers /\ wk[w].pc = "idle"
    /\ Go(w, AtLoop("once", store))
    /\ UNCHANGED <<store, requests, stage, history>>

\* resume(consent_granted): TRUE, FALSE or None.
Resume(w, consent_granted) ==
    /\ "resume" \in Callers /\ wk[w].pc = "idle"
    /\ ~is_terminal(store)
    /\ LET waits == store.status = "paused" /\ WaitsForConsent(store)
           r == get_step_consent_request(store, store.paused_step_id)
           kept == IF waits /\ r # NoStep
                   THEN set_step_consent_request(store, store.paused_step_id, r) ELSE store
       IN  \/ /\ waits /\ consent_granted = "no"
              /\ LET c == apply_sample_terminal_feedback(DenyConsent(kept))
                 IN  store' = c /\ RecordOutcome(store, c)
              /\ UNCHANGED <<wk, granted>>
           \/ /\ ~(waits /\ consent_granted = "no")
              /\ LET grants == waits /\ consent_granted = "yes"
                     c == IF grants THEN GrantConsent(kept) ELSE kept
                 IN  /\ store' = c
                     /\ granted' = IF grants THEN granted \cup {store.paused_step_id} ELSE granted
                     /\ Go(w, [IdleWorker EXCEPT !.pc = "sched", !.mode = "run",
                                                 !.ctx = EngineStart(c)])
              /\ UNCHANGED <<outcomes, verified>>
    /\ UNCHANGED <<requests, stage, announced>>

-----------------------------------------------------------------------------
(* execute_next, up to the call of run_until_blocked.                      *)

\* The SSE loop ends on a terminal context.
StreamEnd(w) ==
    /\ wk[w].pc = "loop" /\ wk[w].mode = "stream" /\ is_terminal(wk[w].ctx)
    /\ Stop(w)
    /\ UNCHANGED <<store, requests, stage, history>>

Enters(w) == wk[w].pc = "loop" /\ ~(wk[w].mode = "stream" /\ is_terminal(wk[w].ctx))

\* The SSE loop returns to its head, or leaves after a pause or without progress;
\* a single execute_next returns.
LoopAgain(w, c) ==
    IF /\ wk[w].mode = "stream"
       /\ c.paused_reason \notin {"hard_gate_blocked", "waiting_consent"}
       /\ ~(wk[w].dry /\ ~is_terminal(c))
    THEN AtLoop("stream", c)
    ELSE IdleWorker

ReturnsEarly(c) == c.plan_status # "none" \/ c.status \in {"done", "cancelled"}
\* status FAILED and _finalize_plan_status(context) is not None.
FailsForGood(c) == ~ReturnsEarly(c) /\ c.status = "failed" /\ CanFinalize(c)

\* The early returns: save only when feedback was applied or a verdict cached.
ReturnEarly(w) ==
    /\ Enters(w)
    /\ LET c == wk[w].ctx
           f == apply_sample_terminal_feedback(
                    IF FailsForGood(c) THEN finalize_plan_status(c) ELSE c)
       IN  /\ ReturnsEarly(c) \/ FailsForGood(c)
           /\ store' = IF f.feedback_applied # c.feedback_applied \/ FailsForGood(c) THEN f ELSE store
           /\ RecordOutcome(c, f)
           /\ Go(w, LoopAgain(w, f))
    /\ UNCHANGED <<requests, stage, granted, announced>>

\* Past the early returns a FAILED plan that still has work runs again.
Revived(c) == IF c.status = "failed" THEN [c EXCEPT !.status = "running"] ELSE c
GateStands(c) == c.status = "paused" /\ c.paused_reason = "hard_gate_blocked"

\* A plan the hard gate paused is returned untouched, again and again.
StayGated(w) ==
    /\ Enters(w)
    /\ ~ReturnsEarly(wk[w].ctx) /\ ~FailsForGood(wk[w].ctx)
    /\ GateStands(Revived(wk[w].ctx))
    /\ Stop(w)
    /\ UNCHANGED <<store, requests, stage, history>>

\* The hard gate pauses the plan at its first ready step.
BecomeGated(w) ==
    /\ Enters(w)
    /\ ~ReturnsEarly(wk[w].ctx) /\ ~FailsForGood(wk[w].ctx)
    /\ LET c == Revived(wk[w].ctx)
       IN  /\ ~GateStands(c)
           /\ gate_blocked(c)
           /\ store' = check_hard_gate(c)
    /\ Stop(w)
    /\ UNCHANGED <<requests, stage, history>>

\* run_until_blocked(max_steps=1) begins.
EnterEngine(w) ==
    /\ Enters(w)
    /\ ~ReturnsEarly(wk[w].ctx) /\ ~FailsForGood(wk[w].ctx)
    /\ LET c == Revived(wk[w].ctx)
       IN  /\ ~GateStands(c)
           /\ ~gate_blocked(c)
           /\ Go(w, [wk[w] EXCEPT !.pc = "sched", !.ctx = EngineStart(c),
                                  !.prev = c.step_status])
    /\ UNCHANGED <<store, requests, stage, history>>
-----------------------------------------------------------------------------
(* run_until_blocked: the head of its loop.                                *)

Scheduling(w) == wk[w].pc = "sched"
ToPost(w, c) == Go(w, [wk[w] EXCEPT !.pc = "post", !.ctx = c, !.cur = NoStep, !.tries = 0])
ToSched(w, c) == Go(w, [wk[w] EXCEPT !.pc = "sched", !.ctx = c, !.cur = NoStep, !.tries = 0])

\* No ready step: the plan is done, has failed upstream, or waits.
Outcome(c) ==
    IF all_steps_final(c) THEN [c EXCEPT !.status = "done"]
    ELSE IF all_dependencies_failed(c)
    THEN [propagate_failure(c, StepsWith(c, DEPENDENCY_FAILED_STATUSES)) EXCEPT !.status = "failed"]
    ELSE [c EXCEPT !.status = "paused", !.paused_reason = "waiting_dependencies"]

NothingReady(w) ==
    /\ Scheduling(w)
    /\ get_ready_steps(wk[w].ctx) = {}
    /\ ToPost(w, Outcome(wk[w].ctx))
    /\ UNCHANGED <<store, requests, stage, history>>

MustAsk_Never(c, s) == FALSE                                 \* mutant
\* The first ready step needs a consent it has not got.
MustAsk(c, s) == s \in Consent /\ c.step_status[s] # "ready"

AskConsent(w) ==
    /\ Scheduling(w)
    /\ get_ready_steps(wk[w].ctx) # {}
    /\ LET c == wk[w].ctx
           s == FirstOf(get_ready_steps(c))
       IN  /\ MustAsk(c, s)
           /\ ToPost(w, [SetStatus(c, {s}, "blocked") EXCEPT
                            !.status = "paused", !.paused_reason = "waiting_consent",
                            !.paused_step_id = s])
    /\ UNCHANGED <<store, requests, stage, history>>

\* check_condition is false: skip the step and look at the next one.
SkipStep(w) ==
    /\ Scheduling(w)
    /\ get_ready_steps(wk[w].ctx) # {}
    /\ LET c == wk[w].ctx
           s == FirstOf(get_ready_steps(c))
       IN  /\ ~MustAsk(c, s)
           /\ s \in Conditional
           /\ ToSched(w, Settle(c, {s}, "skipped"))
    /\ UNCHANGED <<store, requests, stage, history>>

\* execute_with_retry makes its first attempt.
InvokeStep(w) ==
    /\ Scheduling(w)
    /\ get_ready_steps(wk[w].ctx) # {}
    /\ LET c == wk[w].ctx
           s == FirstOf(get_ready_steps(c))
       IN  /\ ~MustAsk(c, s)
           /\ Go(w, [wk[w] EXCEPT !.pc = "exec", !.ctx = SetStatus(c, {s}, "running"),
                                  !.cur = s, !.tries = 1])
           /\ start_stage(w, s)
    /\ UNCHANGED <<store, requests, history>>

-----------------------------------------------------------------------------
(* The step is executing; its skill, subagent or model answers or fails.   *)

\* max_steps=1 leaves the loop after one executed step, _run goes on.
AfterStep(w, c) ==
    IF wk[w].mode = "run" THEN ToSched(w, c)
    ELSE ToPost(w, IF all_steps_final(c) THEN [c EXCEPT !.status = "done"] ELSE c)

StepSucceeds(w) ==
    /\ wk[w].pc = "exec"
    /\ finish_stage(w, wk[w].cur, "completed")
    /\ AfterStep(w, Settle(wk[w].ctx, {wk[w].cur}, "done"))
    /\ UNCHANGED <<store, requests, history>>

\* The first result of a staged step is rejected: one retry with feedback, and
\* the context, step still running, is saved in between.
QualityRetry(w) ==
    /\ wk[w].pc = "exec"
    /\ Tracked(w, wk[w].cur)
    /\ wk[w].cur \notin wk[w].ctx.quality_retried
    /\ LET c == [wk[w].ctx EXCEPT !.quality_retried = @ \cup {wk[w].cur}]
       IN  store' = c /\ Go(w, [wk[w] EXCEPT !.ctx = c])
    /\ UNCHANGED <<requests, stage, history>>

\* A retryable error with attempts left: the executor is called again.
RetryStep(w) ==
    /\ wk[w].pc = "exec"
    /\ wk[w].tries < RetryMax[wk[w].cur]
    /\ Go(w, [wk[w] EXCEPT !.tries = @ + 1])
    /\ finish_stage(w, wk[w].cur, "failed")
    /\ UNCHANGED <<store, requests, history>>

\* Why a step fails for good: its second result was rejected as well, an error the
\* executor closure catches (and records with fail_stage), or any other exception.
Causes == {"rejected", "caught", "uncaught"}

\* The step is degraded, failed, or failed together with the plan.
FailedContext(c, s, cause) ==
    LET v == IF cause = "rejected"
             THEN [c EXCEPT !.paused_reason = "post_verification_failed", !.paused_step_id = s]
             ELSE c
    IN  IF s \in Degradable THEN Settle(v, {s}, "degraded")
        ELSE IF s \in FailFast
        THEN [Settle(v, {s}, "failed") EXCEPT !.status = "failed", !.paused_step_id = s]
        ELSE Settle(v, {s}, "failed")

StepFails(w, cause) ==
    /\ wk[w].pc = "exec"
    /\ cause = "rejected" => Tracked(w, wk[w].cur) /\ wk[w].cur \in wk[w].ctx.quality_retried
    /\ LET s == wk[w].cur
           c == FailedContext(wk[w].ctx, s, cause)
       IN  /\ IF s \in Degradable THEN AfterStep(w, c)
              ELSE IF s \notin FailFast /\ wk[w].mode = "run" THEN ToSched(w, c)
              ELSE ToPost(w, c)
           /\ IF cause = "uncaught" THEN UNCHANGED stage ELSE finish_stage(w, s, "failed")
    /\ UNCHANGED <<store, requests, history>>

-----------------------------------------------------------------------------
(* After the engine returns.                                               *)

\* The fallback controller takes the next route: the failed step is pending again.
FallsBack(w) ==
    /\ wk[w].pc = "post"
    /\ wk[w].ctx.status = "failed"
    /\ can_advance(wk[w].ctx)
    /\ wk[w].mode = "run" \/ FailedStep(wk[w].ctx) # NoStep

FallBack(w) ==
    /\ FallsBack(w)
    /\ LET c == [advance(wk[w].ctx) EXCEPT !.status = "running"]
       IN  store' = c /\ ToSched(w, EngineStart(c))
    /\ UNCHANGED <<requests, stage, history>>

\* What execute_next makes of the engine's result, before the consent request.
NextResult(w, U) ==
    LET c == propagate_failure(wk[w].ctx, StepsWith(wk[w].ctx, {"failed"}))
    IN  apply_sample_terminal_feedback(finalize_plan_status(propagate_unblock(c, U)))

\* What _run makes of it: a failure without a verdict leaves the plan running.
RunResult(w) ==
    LET c == wk[w].ctx
        f == finalize_plan_status(c)
    IN  apply_sample_terminal_feedback(
            IF ~CanFinalize(c) /\ c.status = "failed" THEN [c EXCEPT !.status = "running"] ELSE f)

\* The steps this execute_next completed: at most one, max_steps is 1.
NewlyDone(w) ==
    {s \in StepsWith(wk[w].ctx, {"done"}) : wk[w].prev[s] # "done"}

Unblocks(w, U) ==
    IF wk[w].mode = "run" \/ NewlyDone(w) = {} THEN U = {}
    ELSE IsUnblockedBy(propagate_failure(wk[w].ctx, StepsWith(wk[w].ctx, {"failed"})),
                       FirstOf(NewlyDone(w)), U)

EngineResults(w) ==
    IF wk[w].mode = "run" THEN {RunResult(w)}
    ELSE {NextResult(w, U) : U \in {V \in SUBSET Steps : Unblocks(w, V)}}

\* Register the consent request, collect the events, save the snapshot.
FinishRun(w) ==
    /\ wk[w].pc = "post"
    /\ ~FallsBack(w)
    /\ \E r \in EngineResults(w) :
        LET p == prepare_consent_pause(r)
            c == collect_step_events(p)
        IN  /\ requests' = IF NeedsNewRequest(r)
                           THEN [requests EXCEPT ![r.paused_step_id] = "pending"] ELSE requests
            /\ store' = c
            /\ RecordOutcome(wk[w].ctx, c)
            /\ Go(w, [wk[w] EXCEPT !.pc = "publish", !.ctx = c,
                         !.pub = UnpublishedSteps(p) \cap StepsWith(p, {"done"})])
    /\ UNCHANGED <<stage, granted, announced>>

\* The events go out after the save; then the caller goes on or returns.
PublishEvents(w) ==
    /\ wk[w].pc = "publish"
    /\ announced' = [s \in Steps |-> IF s \in wk[w].pub THEN More(announced[s]) ELSE announced[s]]
    /\ Go(w, LoopAgain(w, wk[w].ctx))
    /\ UNCHANGED <<store, requests, stage, granted, outcomes, verified>>

-----------------------------------------------------------------------------
(* Endpoints that load, change and save the snapshot at once.              *)

\* reason is "user_input" from IdleThink, "manual_pause" from the HTTP endpoint.
pause(reason) ==
    /\ ~is_terminal(store)
    /\ store' = [store EXCEPT !.status = "paused", !.paused_reason = reason,
                              !.paused_step_id = NoStep]
    /\ UNCHANGED <<wk, requests, stage, history>>

\* POST /api/plan/<id>/resume.
resume_plan ==
    /\ ~is_terminal(store)
    /\ store' = EngineStart(store)
    /\ UNCHANGED <<wk, requests, stage, history>>

cancel ==
    /\ LET open == {s \in Steps : store.step_status[s] \notin FINAL_STEP_STATUSES}
           c == apply_sample_terminal_feedback(
                    [Settle(store, open, "cancelled") EXCEPT !.status = "cancelled"])
       IN  store' = c /\ RecordOutcome(store, c)
    /\ UNCHANGED <<wk, requests, stage, granted, announced>>

CanRetry_AnyFinal(s) == store.step_status[s] \in FINAL_STEP_STATUSES   \* mutant
CanRetry(s) == store.step_status[s] = "failed"

\* What retry_failed_step keeps of the cached verdict: nothing.
VerdictAfterRetry_Kept(c) == c.plan_status                    \* mutant
VerdictAfterRetry(c) == "none"

retry_failed_step(s) ==
    /\ CanRetry(s)
    /\ LET clears == store.paused_step_id = s
       IN  store' = [SetStatus(store, {s}, "pending") EXCEPT
                        !.processed_steps = store.processed_steps \ {s},
                        !.published_step_events = store.published_step_events \ {s},
                        !.quality_retried = store.quality_retried \ {s},
                        !.paused_reason = IF clears THEN "none" ELSE @,
                        !.paused_step_id = IF clears THEN NoStep ELSE @,
                        !.status = "running",
                        !.plan_status = VerdictAfterRetry(store)]
    /\ UNCHANGED <<wk, requests, stage, history>>

\* POST /api/consent: a request may be decided again.
decide(r, allowed) ==
    /\ requests[r] # "none"
    /\ requests' = [requests EXCEPT ![r] = IF allowed THEN "allowed" ELSE "denied"]
    /\ UNCHANGED <<store, wk, stage, history>>

\* The process dies and restarts: copies in memory and the gateway's table are lost.
Restart ==
    /\ wk' = [w \in Workers |-> IdleWorker]
    /\ requests' = [s \in Steps |-> "none"]
    /\ UNCHANGED <<store, stage, history>>

-----------------------------------------------------------------------------
Engine(w) ==
    \/ StreamEnd(w) \/ ReturnEarly(w) \/ StayGated(w) \/ BecomeGated(w) \/ EnterEngine(w)
    \/ NothingReady(w) \/ AskConsent(w) \/ SkipStep(w) \/ InvokeStep(w)
    \/ StepSucceeds(w) \/ QualityRetry(w) \/ RetryStep(w)
    \/ \E cause \in Causes : StepFails(w, cause)
    \/ FallBack(w) \/ FinishRun(w) \/ PublishEvents(w)

Call(w) ==
    \/ StreamStart(w) \/ StreamResume(w) \/ IdleExecute(w) \/ ManualExecute(w)
    \/ \E g \in {"yes", "no", "none"} : Resume(w, g)

Endpoint ==
    \/ \E reason \in {"user_input", "manual_pause"} : pause(reason)
    \/ resume_plan \/ cancel
    \/ \E s \in Steps : retry_failed_step(s)
    \/ \E r \in Steps, allowed \in BOOLEAN : decide(r, allowed)

Next == (\E w \in Workers : Engine(w) \/ Call(w)) \/ Endpoint \/ Restart

Spec == Init /\ [][Next]_vars

\* A worker is a thread: the code it is in goes on, and the skill, subagent or
\* model call it waits for returns or raises.
FairSpec == Spec /\ \A w \in Workers : WF_vars(Engine(w))

-----------------------------------------------------------------------------
(* Properties.                                                             *)

TypeOK ==
    /\ store \in TaskContext
    /\ wk \in [Workers -> Worker]
    /\ requests \in [Steps -> RequestState]
    /\ stage \in [1..NStages -> StageState]
    /\ granted \subseteq Steps
    /\ announced \in [Steps -> 0..2]
    /\ outcomes \in 0..2
    /\ verified \in BOOLEAN

\* Every copy of the context: the persisted one and the workers' own.
Contexts == {store} \cup {wk[w].ctx : w \in Workers}

\* A step that has been executed (or is executing) in some copy has all its
\* dependencies satisfied in that copy, whatever fallbacks, retries, refusals
\* and races came before (get_ready_steps, advance, retry_failed_step).
RunsAfterDependencies ==
    \A c \in Contexts : \A s \in StepsWith(c, {"running", "done", "degraded", "failed"}) :
        \A d \in Deps[s] : c.step_status[d] \in DEPENDENCY_SATISFIED_STATUSES

\* A step with require_consent is executed only after somebody allowed it: an
\* approved request applied to it, or resume(consent_granted=True).
RunsOnlyGranted ==
    \A c \in Contexts : \A s \in Consent :
        c.step_status[s] \in {"ready", "running", "done", "degraded", "failed"} => s \in granted

\* A cached verdict tells the truth of the persisted plan: completed means every
\* step is done, failed or blocked that some step has failed or was cancelled.
VerdictIsTrue ==
    /\ store.plan_status = "completed" => \A s \in Steps : store.step_status[s] = "done"
    /\ store.plan_status \in {"failed", "blocked"} =>
            StepsWith(store, {"failed", "cancelled"}) # {}

\* A plan persisted as waiting for consent names the step it waits for, the step is
\* held back, and the context carries a request id for it.
ConsentPauseIsComplete ==
    store.status = "paused" /\ store.paused_reason = "waiting_consent" =>
        /\ store.paused_step_id \in Consent
        /\ store.step_status[store.paused_step_id] = "blocked"
        /\ store.step_consent_requests[store.paused_step_id] # NoStep

\* A step is announced as completed (task.step_completed) only when the persisted
\* snapshot says so: _run and execute_next save first and publish afterwards.
AnnouncedIsPersisted ==
    \A s \in Steps : announced[s] # 0 => store.step_status[s] = "done"

\* No step is announced as completed twice, over any number of resumptions,
\* retries and fallbacks (published_step_events), and the sample library is told
\* of the plan's outcome at most once (_sample_feedback_applied).
ReportedOnce == outcomes <= 1 /\ \A s \in Steps : announced[s] <= 1

\* A candidate sample is verified automatically only on a plan that is persisted
\* with every step done.
VerifiedIsGreen == verified => \A s \in Steps : store.step_status[s] = "done"

\* What is said about a plan is true and said once: the cached verdict, the step events
\* and what the sample library hears (evaluate_plan_status, collect_step_events,
\* _apply_sample_terminal_feedback), over retries, fallbacks and resumptions.
ReportsAreTrue == VerdictIsTrue /\ ReportedOnce /\ VerifiedIsGreen

\* Whatever holds a blocked step back still does: an upstream step that is not
\* satisfied, the consent it needs or the stage gate (propagate_unblock).
BlockedHasCause ==
    \A t \in StepsWith(store, {"blocked"}) :
        \/ \E u \in Steps : /\ t \in Downstream(u)
                            /\ store.step_status[u] \notin DEPENDENCY_SATISFIED_STATUSES
        \/ t \in Consent
        \/ StageOf[t] # 0

\* A staged step is executed only when every earlier stage is completed (HardGate).
GateRespected ==
    \A w \in Workers : wk[w].pc = "exec" /\ Tracked(w, wk[w].cur) =>
        \A k \in 1..(StageOf[wk[w].cur] - 1) : stage[k] = "completed"

\* A plan persisted as waiting for a step's consent carries that step's own request.
ConsentIsPerStep ==
    store.status = "paused" /\ WaitsForConsent(store) =>
        store.step_consent_requests[store.paused_step_id] = store.paused_step_id

\* The stage of a persisted done step is closed in the tracker, as completed or, when an
\* attempt had failed, as failed (complete_stage, fail_stage): never left executing.
DoneStageIsClosed ==
    \A s \in StepsWith(store, {"done"}) :
        StageOf[s] # 0 => stage[StageOf[s]] \in {"completed", "failed"}

\* Stages and blocked steps follow the plan through failures, fallbacks and retries: the
\* gate holds, what is blocked has a cause, what is done is closed (HardGate,
\* propagate_failure and propagate_unblock, SkillExecutionTracker).
StagesFollowThePlan == GateRespected /\ BlockedHasCause /\ DoneStageIsClosed

\* With no worker at the plan no step is persisted as running, so every step can
\* still be picked up.
NoOrphanedStep ==
    (\A w \in Workers : wk[w].pc = "idle") => StepsWith(store, {"running"}) = {}

\* Only a manual retry takes a plan out of "cancelled".
CancelIsFinal ==
    [][store.status = "cancelled" /\ store'.status # "cancelled" =>
           \E s \in Steps : retry_failed_step(s)]_vars

\* Whoever calls the engine gets it back: every turn ends.
TurnEnds == \A w \in Workers : wk[w].pc # "idle" ~> wk[w].pc = "idle"
=============================================================================
