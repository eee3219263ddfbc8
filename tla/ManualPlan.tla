----------------------------- MODULE ManualPlan -----------------------------
(* The plan card of the desktop (http_host.py, plan_repo.py): requests that    *)
(* decompose, show, execute, pause, resume, cancel or decline.  A request      *)
(* loads the snapshot, changes its copy, saves it, writes the rows the card    *)
(* is drawn from and, once the plan is over, appends the final reply to the    *)
(* conversation.  The operators on a context are PlanContext's; the engine     *)
(* call is one step here, PlanEngine takes it apart.                           *)
EXTENDS Naturals, FiniteSets

CONSTANTS
    ManualSteps,       \* the plan's steps, numbered in their order
    ManualDeps,        \* depends_on
    NeedsAuth,         \* steps with require_consent
    PlanRequests,      \* threads of the HTTP server
    NoManualPlan,      \* no snapshot, no row
    MaxManualCalls     \* bound: calls of the endpoints

VARIABLES
    snapshot,          \* the persisted context, and whether it names its two messages
    plan_row,          \* plans and plan_steps
    plan_consents,     \* A3 requests, by the step they were made for
    conversation,      \* how many messages of the plan: goal and final reply
    plan_calls,        \* what each thread is doing, with its copy of the context
    manual_calls,      \* calls so far
    entangled          \* two calls overlapped, or the process died in one

manualVars == <<snapshot, plan_row, plan_consents, conversation, plan_calls, manual_calls,
                entangled>>

None == 0              \* Python's None where a step number is expected

P == INSTANCE PlanContext WITH
        Steps <- ManualSteps, NoStep <- None, Pos <- [s \in ManualSteps |-> s],
        Deps <- ManualDeps, Consent <- NeedsAuth, FailFast <- ManualSteps, Degradable <- {},
        Conditional <- {}, RetryMax <- [s \in ManualSteps |-> 0],
        StageOf <- [s \in ManualSteps |-> 0], NStages <- 0, FallbackLen <- 0

\* A context as the endpoints keep it: two reasons to pause are theirs.
ManualContext ==
    [status : P!PlanStatus, step_status : [ManualSteps -> P!StepStatus],
     processed_steps : SUBSET ManualSteps, published_step_events : SUBSET ManualSteps,
     paused_reason : P!PausedReason \cup {"consent_declined", "timeout"},
     paused_step_id : ManualSteps \cup {None}, plan_status : P!Verdict,
     step_consent_requests : [ManualSteps -> ManualSteps \cup {None}],
     consent_request : ManualSteps \cup {None}, quality_retried : SUBSET ManualSteps,
     fallback_index : Nat, feedback_applied : BOOLEAN]
PlanCopy == [context : ManualContext, goal : BOOLEAN, reply : BOOLEAN]
PlanRow == [status : P!PlanStatus, steps : [ManualSteps -> P!StepStatus \cup {"consent"}],
            consent_request_id : [ManualSteps -> ManualSteps \cup {None}]]

ASSUME ManualAssumption ==
    /\ ManualSteps # {} /\ ManualSteps \subseteq Nat \ {0} /\ NeedsAuth \subseteq ManualSteps
    /\ ManualDeps \in [ManualSteps -> SUBSET ManualSteps]
    /\ MaxManualCalls \in Nat
    /\ NoManualPlan \notin PlanCopy \cup PlanRow

NoPlanCall == [at |-> "none", copy |-> NoManualPlan, then |-> "return"]

ManualInit ==
    /\ snapshot = NoManualPlan /\ plan_row = NoManualPlan
    /\ plan_consents = [s \in ManualSteps |-> "none"]
    /\ conversation = [goal |-> 0, reply |-> 0]
    /\ plan_calls = [r \in PlanRequests |-> NoPlanCall]
    /\ manual_calls = 0
    /\ entangled = FALSE

PlanCallAt(r, place) == plan_calls[r].at = place
CopyOf(r) == plan_calls[r].copy
WithContext(copy, c) == [copy EXCEPT !.context = c]

\* A call of an endpoint begins; it overlaps those that are under way.
CallBegins(r) ==
    /\ PlanCallAt(r, "none")
    /\ manual_calls < MaxManualCalls /\ manual_calls' = manual_calls + 1
    /\ entangled' = (entangled \/ \E q \in PlanRequests : plan_calls[q] # NoPlanCall)

CallContinues == UNCHANGED <<manual_calls, entangled>>

\* The thread goes on to its next write with this copy, and then returns, makes the final
\* reply (a call that may end the plan) or deletes the rows.
CallGoesOn(r, place, copy, then) ==
    plan_calls' = [plan_calls EXCEPT ![r] = [at |-> place, copy |-> copy, then |-> then]]
PlanCallReturns(r) == plan_calls' = [plan_calls EXCEPT ![r] = NoPlanCall]

-----------------------------------------------------------------------------
(* The projection and its table                                                *)

\* _manual_plan_projection: a blocked step the plan waits for shows as consent, a plan
\* that failed as paused.
_manual_plan_projection(c) ==
    [status |-> IF c.status = "failed" THEN "paused" ELSE c.status,
     steps |-> [s \in ManualSteps |->
        CASE c.step_status[s] = "blocked" /\ c.paused_reason = "waiting_consent"
                /\ c.paused_step_id = s -> "consent"
          [] c.step_status[s] = "degraded" -> "done"
          [] c.step_status[s] = "cancelled" -> "skipped"
          [] OTHER -> c.step_status[s]],
     consent_request_id |-> [s \in ManualSteps |-> P!get_step_consent_request(c, s)]]

\* save_plan replaces the plan's row and all its steps in one transaction.
save_plan(plan) == plan_row' = plan

\* The row is written from the copy in hand, whatever the snapshot is by then.
SaveRow(r) ==
    /\ PlanCallAt(r, "row")
    /\ save_plan(_manual_plan_projection(CopyOf(r).context))
    /\ IF plan_calls[r].then = "reply" THEN CallGoesOn(r, "reply", CopyOf(r), "return")
       ELSE PlanCallReturns(r)
    /\ CallContinues
    /\ UNCHANGED <<snapshot, plan_consents, conversation>>

-----------------------------------------------------------------------------
(* Decompose                                                                   *)

\* create_plan and the first save.
decompose_plan(r) ==
    /\ CallBegins(r) /\ snapshot = NoManualPlan
    /\ LET copy == [context |-> P!CreatedContext, goal |-> FALSE, reply |-> FALSE]
       IN  snapshot' = copy /\ CallGoesOn(r, "created", copy, "return")
    /\ UNCHANGED <<plan_row, plan_consents, conversation>>

SaveCreatedRow(r) ==
    /\ PlanCallAt(r, "created")
    /\ save_plan(_manual_plan_projection(CopyOf(r).context))
    /\ CallGoesOn(r, "goal", CopyOf(r), "return")
    /\ CallContinues
    /\ UNCHANGED <<snapshot, plan_consents, conversation>>

\* The goal becomes a message of the conversation, ...
AppendGoal(r) ==
    /\ PlanCallAt(r, "goal")
    /\ conversation' = [conversation EXCEPT !.goal = @ + 1]
    /\ CallGoesOn(r, "goal_id", [CopyOf(r) EXCEPT !.goal = TRUE], "return")
    /\ CallContinues
    /\ UNCHANGED <<snapshot, plan_row, plan_consents>>

\* ... and its id is saved with the context.
SaveGoalId(r) ==
    /\ PlanCallAt(r, "goal_id")
    /\ snapshot' = CopyOf(r)
    /\ PlanCallReturns(r)
    /\ CallContinues
    /\ UNCHANGED <<plan_row, plan_consents, conversation>>

\* GET status writes the row from the snapshot it read.
plan_status(r) ==
    /\ CallBegins(r) /\ snapshot # NoManualPlan
    /\ CallGoesOn(r, "row", snapshot, "return")
    /\ UNCHANGED <<snapshot, plan_row, plan_consents, conversation>>

-----------------------------------------------------------------------------
(* Execute                                                                     *)

\* Execute loads the context and works on its copy; the short endpoints load and save at
\* once.
LoadPlanContext(r) ==
    /\ CallBegins(r) /\ snapshot # NoManualPlan
    /\ CallGoesOn(r, "execute", snapshot, "return")
    /\ UNCHANGED <<snapshot, plan_row, plan_consents, conversation>>

\* The save, then the row.
SaveChanged(r, c, then) ==
    /\ snapshot' = WithContext(CopyOf(r), c)
    /\ CallGoesOn(r, "row", WithContext(CopyOf(r), c), then)

\* _next_executable_step, on the projection.
_next_executable_step(plan) ==
    {s \in ManualSteps : /\ plan.steps[s] = "pending"
                         /\ \A d \in ManualDeps[s] : plan.steps[d] = "done"}

\* No step is named and none can run: only the row, done if every step is, and the reply.
ExecuteNothing(r) ==
    /\ PlanCallAt(r, "execute")
    /\ LET plan == _manual_plan_projection(CopyOf(r).context)
           done == \A s \in ManualSteps : plan.steps[s] = "done"
       IN  /\ _next_executable_step(plan) = {}
           /\ save_plan([plan EXCEPT !.status = IF done THEN "done" ELSE @])
    /\ CallGoesOn(r, "reply", CopyOf(r), "return")
    /\ CallContinues
    /\ UNCHANGED <<snapshot, plan_consents, conversation>>

\* _is_plan_consent_allowed: the request is there, decided and allowed.
_is_plan_consent_allowed(request) == request # None /\ plan_consents[request] = "allowed"

\* The user refused: the step is skipped, which satisfies its successors.
Declined(c, s) ==
    [P!Settle(c, {s}, "skipped") EXCEPT !.status = "paused",
        !.paused_reason = "consent_declined", !.paused_step_id = s]

\* The card names a step, the next or the one the user pressed, and the request it shows
\* with it.
ExecuteDeclined(r) ==
    /\ PlanCallAt(r, "execute")
    /\ \E s \in ManualSteps :
          LET c == CopyOf(r).context
              request == P!get_step_consent_request(c, s)
          IN  /\ request # None /\ ~_is_plan_consent_allowed(request)
              /\ SaveChanged(r, Declined(c, s), "return")
    /\ CallContinues
    /\ UNCHANGED <<plan_row, plan_consents, conversation>>

\* Mutant: the request is submitted and not written to the context.
Asking_Unstored(c, s) ==
    [P!SetStatus(c, {s}, "blocked") EXCEPT !.status = "paused",
        !.paused_reason = "waiting_consent", !.paused_step_id = s]
Asking(c, s) ==
    [P!set_step_consent_request(P!SetStatus(c, {s}, "blocked"), s, s) EXCEPT
        !.status = "paused", !.paused_reason = "waiting_consent", !.paused_step_id = s]

\* _submit_plan_consent: a new A3 request for a step that needs one.
ExecuteAsks(r) ==
    /\ PlanCallAt(r, "execute")
    /\ \E s \in NeedsAuth :
          /\ plan_consents' = [plan_consents EXCEPT ![s] = "pending"]
          /\ SaveChanged(r, Asking(CopyOf(r).context, s), "return")
    /\ CallContinues
    /\ UNCHANGED <<plan_row, conversation>>

\* A timeout that is not positive fails the step and pauses the plan.
TimedOut(c, s) ==
    [P!SetStatus(c, {s}, "failed") EXCEPT !.status = "paused", !.paused_reason = "timeout",
        !.paused_step_id = s]

ExecuteTimesOut(r) ==
    /\ PlanCallAt(r, "execute")
    /\ \E s \in ManualSteps : SaveChanged(r, TimedOut(CopyOf(r).context, s), "return")
    /\ CallContinues
    /\ UNCHANGED <<plan_row, plan_consents, conversation>>

\* The context the engine is called with: as loaded, or with an allowed step ready.
Resumed(c, s) ==
    [P!SetStatus(c, {s}, "ready") EXCEPT !.status = "running", !.paused_reason = "none",
        !.paused_step_id = None]

EngineInputs(c) ==
    {c} \cup {Resumed(c, s) : s \in
                {t \in ManualSteps : _is_plan_consent_allowed(P!get_step_consent_request(c, t))}}

\* execute_next: nothing on a plan that is over, else at most one step of the engine.
IsOver(c) == c.plan_status # "none" \/ c.status \in {"done", "cancelled"}

Started(c) == [c EXCEPT !.status = "running", !.paused_reason = "none", !.paused_step_id = None]

NothingReadyIn(c) ==
    IF P!all_steps_final(c) THEN [c EXCEPT !.status = "done"]
    ELSE IF P!all_dependencies_failed(c)
    THEN [P!propagate_failure(c, P!StepsWith(c, P!DEPENDENCY_FAILED_STATUSES)) EXCEPT
            !.status = "failed"]
    ELSE [c EXCEPT !.status = "paused", !.paused_reason = "waiting_dependencies"]

\* The step asks for consent, is done, or fails and takes the plan with it.
RunOne(c, s) ==
    IF s \in NeedsAuth /\ c.step_status[s] # "ready"
    THEN {[P!SetStatus(c, {s}, "blocked") EXCEPT !.status = "paused",
             !.paused_reason = "waiting_consent", !.paused_step_id = s]}
    ELSE LET done == P!Settle(c, {s}, "done")
         IN  {IF P!all_steps_final(done) THEN [done EXCEPT !.status = "done"] ELSE done,
              [P!Settle(c, {s}, "failed") EXCEPT !.status = "failed", !.paused_step_id = s]}

EngineRuns(c) ==
    LET ready == P!get_ready_steps(Started(c))
    IN  IF ready = {} THEN {NothingReadyIn(Started(c))} ELSE RunOne(Started(c), P!FirstOf(ready))

\* The steps done by this run release what they had blocked.
Released(before, c) ==
    LET new == {s \in P!StepsWith(c, {"done"}) : before.step_status[s] # "done"}
    IN  IF new = {} THEN {c}
        ELSE {P!propagate_unblock(c, U) :
                U \in {V \in SUBSET ManualSteps : P!IsUnblockedBy(c, P!FirstOf(new), V)}}

execute_next(c) ==
    IF IsOver(c) THEN {c}
    ELSE IF c.status = "failed" /\ P!CanFinalize(c) THEN {P!finalize_plan_status(c)}
    ELSE UNION {{P!finalize_plan_status(d) :
                    d \in Released(c, P!propagate_failure(e, P!StepsWith(e, {"failed"})))} :
                    e \in EngineRuns(c)}

\* prepare_consent_pause, the save, the row and the final reply.
ExecuteStep(r) ==
    /\ PlanCallAt(r, "execute")
    /\ \E c \in UNION {execute_next(d) : d \in EngineInputs(CopyOf(r).context)} :
          /\ plan_consents' = IF P!NeedsNewRequest(c)
                              THEN [plan_consents EXCEPT ![c.paused_step_id] = "pending"]
                              ELSE plan_consents
          /\ SaveChanged(r, P!prepare_consent_pause(c), "reply")
    /\ CallContinues
    /\ UNCHANGED <<plan_row, conversation>>

-----------------------------------------------------------------------------
(* The final reply                                                             *)

\* build_final_reply: for a plan that is done, failed or cancelled; none while it is held up.
HasFinalReply(c) ==
    \/ c.status = "cancelled"
    \/ /\ c.status \in {"done", "failed"} /\ c.plan_status # "blocked"
       /\ c.paused_reason \notin {"hard_gate_blocked", "waiting_consent"}

AfterReply(r) ==
    IF plan_calls[r].then = "delete" THEN CallGoesOn(r, "delete", CopyOf(r), "return")
    ELSE PlanCallReturns(r)

\* A recorded reply is returned again; otherwise it is appended ...
AppendReply(r) ==
    /\ PlanCallAt(r, "reply")
    /\ IF CopyOf(r).reply \/ ~HasFinalReply(CopyOf(r).context)
       THEN AfterReply(r) /\ UNCHANGED conversation
       ELSE /\ conversation' = [conversation EXCEPT !.reply = @ + 1]
            /\ CallGoesOn(r, "reply_id", [CopyOf(r) EXCEPT !.reply = TRUE], plan_calls[r].then)
    /\ CallContinues
    /\ UNCHANGED <<snapshot, plan_row, plan_consents>>

\* ... and recorded in the snapshot.
SaveReplyId(r) ==
    /\ PlanCallAt(r, "reply_id")
    /\ snapshot' = CopyOf(r)
    /\ AfterReply(r)
    /\ CallContinues
    /\ UNCHANGED <<plan_row, plan_consents, conversation>>

-----------------------------------------------------------------------------
(* Pause, resume, cancel, the user's answer                                    *)

\* pause() and resume spare a plan that is over; the row is written all the same.
PausePlan(r) ==
    /\ CallBegins(r) /\ snapshot # NoManualPlan
    /\ LET c == snapshot.context
           d == IF P!is_terminal(c) THEN c
                ELSE [c EXCEPT !.status = "paused", !.paused_reason = "manual_pause",
                               !.paused_step_id = None]
       IN  /\ snapshot' = WithContext(snapshot, d)
           /\ CallGoesOn(r, "row", WithContext(snapshot, d), "return")
    /\ UNCHANGED <<plan_row, plan_consents, conversation>>

ResumePlan(r) ==
    /\ CallBegins(r) /\ snapshot # NoManualPlan
    /\ LET c == IF P!is_terminal(snapshot.context) THEN snapshot.context
                ELSE Started(snapshot.context)
       IN  /\ snapshot' = WithContext(snapshot, c)
           /\ CallGoesOn(r, "row", WithContext(snapshot, c), "return")
    /\ UNCHANGED <<plan_row, plan_consents, conversation>>

\* cancel(), the reply, and the rows are deleted.
CancelPlan(r) ==
    /\ CallBegins(r) /\ snapshot # NoManualPlan
    /\ LET c == snapshot.context
           open == {s \in ManualSteps : c.step_status[s] \notin P!FINAL_STEP_STATUSES}
           d == [P!Settle(c, open, "cancelled") EXCEPT !.status = "cancelled"]
       IN  /\ snapshot' = WithContext(snapshot, d)
           /\ CallGoesOn(r, "reply", WithContext(snapshot, d), "delete")
    /\ UNCHANGED <<plan_row, plan_consents, conversation>>

delete_plan(r) ==
    /\ PlanCallAt(r, "delete")
    /\ plan_row' = NoManualPlan
    /\ PlanCallReturns(r)
    /\ CallContinues
    /\ UNCHANGED <<snapshot, plan_consents, conversation>>

\* POST /api/consent decides the request, even a decided one; a refusal also skips the
\* step, found by its position in the request (step ids are step_0, step_1, ...).
decide_plan_consent(r) ==
    /\ CallBegins(r)
    /\ \E s \in ManualSteps, allowed \in BOOLEAN :
          /\ plan_consents[s] # "none"
          /\ plan_consents' = [plan_consents EXCEPT ![s] = IF allowed THEN "allowed" ELSE "denied"]
          /\ IF allowed THEN UNCHANGED <<snapshot, plan_calls>>
             ELSE LET c == Declined(snapshot.context, s)
                  IN  /\ snapshot' = WithContext(snapshot, c)
                      /\ CallGoesOn(r, "row", WithContext(snapshot, c), "return")
    /\ UNCHANGED <<plan_row, conversation>>

\* The requests of the A3 gateway are in memory only.
HostDies ==
    /\ manual_calls < MaxManualCalls /\ manual_calls' = manual_calls + 1
    /\ entangled' = (entangled \/ \E r \in PlanRequests : plan_calls[r] # NoPlanCall)
    /\ plan_calls' = [r \in PlanRequests |-> NoPlanCall]
    /\ plan_consents' = [s \in ManualSteps |-> "none"]
    /\ UNCHANGED <<snapshot, plan_row, conversation>>

ManualNext ==
    \/ \E r \in PlanRequests :
          \/ decompose_plan(r) \/ SaveCreatedRow(r) \/ AppendGoal(r) \/ SaveGoalId(r)
          \/ plan_status(r) \/ LoadPlanContext(r) \/ ExecuteNothing(r) \/ ExecuteDeclined(r)
          \/ ExecuteAsks(r) \/ ExecuteTimesOut(r) \/ ExecuteStep(r) \/ SaveRow(r)
          \/ AppendReply(r) \/ SaveReplyId(r) \/ PausePlan(r) \/ ResumePlan(r)
          \/ CancelPlan(r) \/ delete_plan(r) \/ decide_plan_consent(r)
    \/ HostDies

ManualSpec == ManualInit /\ [][ManualNext]_manualVars

-----------------------------------------------------------------------------
ManualTypeOK ==
    /\ snapshot \in PlanCopy \cup {NoManualPlan} /\ plan_row \in PlanRow \cup {NoManualPlan}
    /\ plan_consents \in [ManualSteps -> {"none", "pending", "allowed", "denied"}]
    /\ conversation \in [goal : Nat, reply : Nat]
    /\ plan_calls \in [PlanRequests ->
          [at : {"none", "created", "goal", "goal_id", "row", "execute", "reply", "reply_id",
                 "delete"},
           copy : PlanCopy \cup {NoManualPlan}, then : {"return", "reply", "delete"}]]
    /\ manual_calls \in 0..MaxManualCalls /\ entangled \in BOOLEAN

\* A message the snapshot names is in the conversation, also after a crash between the
\* append and the save; the reply is there once unless calls overlapped or one died.
MessagesAreKept ==
    /\ snapshot # NoManualPlan =>
          /\ snapshot.goal => conversation.goal > 0
          /\ snapshot.reply => conversation.reply > 0
    /\ ~entangled => conversation.goal <= 1 /\ conversation.reply <= 1

\* A step that shows as waiting for consent shows a request the user can answer.
ConsentIsAnswerable ==
    plan_row # NoManualPlan =>
        \A s \in ManualSteps : plan_row.steps[s] = "consent" => plan_row.consent_request_id[s] # None

\* Between calls the rows, where there are any, are the projection of the snapshot; only
\* a plan that was cancelled after its last step may show as done (execute with no step
\* left to run looks at the steps alone).
RowFollowsSnapshot ==
    (plan_row # NoManualPlan /\ ~entangled /\ \A r \in PlanRequests : plan_calls[r] = NoPlanCall)
        => LET plan == _manual_plan_projection(snapshot.context)
           IN  \/ plan_row = plan
               \/ plan.status = "cancelled" /\ plan_row = [plan EXCEPT !.status = "done"]

\* The card shows the plan as it is (http_host._manual_plan_projection, save_plan,
\* _manual_plan_final_reply).
CardShowsThePlan == MessagesAreKept /\ ConsentIsAnswerable /\ RowFollowsSnapshot
=============================================================================
