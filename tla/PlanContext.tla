----------------------------- MODULE PlanContext -----------------------------
(***************************************************************************)
(* The pure part of the plan engine: the plan's DAG, the persisted         *)
(* TaskContext and the functions of plan_dag_engine.py, plan_gateway.py    *)
(* and fallback_controller.py that read or rewrite one context.  Every     *)
(* operator takes a context record and returns a value or a new context;   *)
(* the state machine that calls them is module PlanEngine.                 *)
(***************************************************************************)
EXTENDS Naturals, FiniteSets, Sequences

CONSTANTS
    Steps,        \* the plan's step ids
    NoStep,       \* Python's None where a step id is expected
    Pos,          \* position of a step in the dict `steps` (insertion order)
    Deps,         \* depends_on
    Consent,      \* steps with require_consent
    FailFast,     \* steps with fail_fast
    Degradable,   \* steps with a degrade_value
    Conditional,  \* steps with a condition_key
    RetryMax,     \* retry_max
    StageOf,      \* index of the step's stage in skill_stages, 0 when it has none
    NStages,      \* length of skill_stages
    FallbackLen   \* length of fallback_chain, 0 when the plan has none

(***************************************************************************)
(* validate_dag: every dependency is a step and no set of steps is closed  *)
(* under "depends on one of us", which is the absence of a cycle.          *)
(***************************************************************************)
ValidDag ==
    /\ \A s \in Steps : Deps[s] \subseteq Steps
    /\ \A U \in SUBSET Steps : U # {} => \E s \in U : Deps[s] \cap U = {}

ASSUME PlanAssumption ==
    /\ IsFiniteSet(Steps) /\ Steps # {} /\ NoStep \notin Steps
    /\ Pos \in [Steps -> Nat]
    /\ \A s, t \in Steps : Pos[s] = Pos[t] => s = t
    /\ Deps \in [Steps -> SUBSET Steps]
    /\ ValidDag
    /\ Consent \subseteq Steps /\ FailFast \subseteq Steps
    /\ Degradable \subseteq Steps /\ Conditional \subseteq Steps
    /\ RetryMax \in [Steps -> Nat]
    /\ NStages \in Nat /\ StageOf \in [Steps -> 0..NStages]
    /\ FallbackLen \in Nat

-----------------------------------------------------------------------------
StepStatus == {"pending", "ready", "running", "done", "failed", "skipped",
               "degraded", "blocked", "cancelled"}
PlanStatus == {"pending", "running", "paused", "done", "failed", "cancelled"}

FINAL_STEP_STATUSES == {"done", "failed", "skipped", "degraded", "cancelled"}
DEPENDENCY_SATISFIED_STATUSES == {"done", "skipped", "degraded"}
DEPENDENCY_FAILED_STATUSES == {"failed", "blocked", "cancelled"}
FINAL_PLAN_STATUSES == {"done", "failed", "cancelled"}

PausedReason == {"none", "waiting_dependencies", "waiting_consent",
                 "hard_gate_blocked", "post_verification_failed", "user_input",
                 "manual_pause"}
Verdict == {"none", "completed", "failed", "blocked"}

\* A consent request is named by the step build_consent_request was called for.
TaskContext ==
    [status: PlanStatus,
     step_status: [Steps -> StepStatus],
     processed_steps: SUBSET Steps,
     published_step_events: SUBSET Steps,
     paused_reason: PausedReason,
     paused_step_id: Steps \cup {NoStep},
     plan_status: Verdict,
     step_consent_requests: [Steps -> Steps \cup {NoStep}],
     consent_request: Steps \cup {NoStep},        \* the legacy context var
     quality_retried: SUBSET Steps,               \* quality_retry_counts >= 1
     fallback_index: Nat,
     feedback_applied: BOOLEAN]                   \* _sample_feedback_applied

\* The context create_plan persists.
CreatedContext ==
    [status |-> "pending",
     step_status |-> [s \in Steps |-> "pending"],
     processed_steps |-> {},
     published_step_events |-> {},
     paused_reason |-> "none",
     paused_step_id |-> NoStep,
     plan_status |-> "none",
     step_consent_requests |-> [s \in Steps |-> NoStep],
     consent_request |-> NoStep,
     quality_retried |-> {},
     fallback_index |-> 0,
     feedback_applied |-> FALSE]

-----------------------------------------------------------------------------
is_terminal(c) == c.status \in FINAL_PLAN_STATUSES

\* _dependency_satisfied_set: a satisfied status never reverts, so the set the
\* code rebuilds and then grows is always this one.
dependency_satisfied_set_AnyStatus(c) == c.processed_steps   \* mutant
dependency_satisfied_set(c) ==
    {s \in c.processed_steps : c.step_status[s] \in DEPENDENCY_SATISFIED_STATUSES}

get_ready_steps(c) ==
    {s \in Steps : /\ c.step_status[s] \in {"pending", "ready"}
                   /\ Deps[s] \subseteq dependency_satisfied_set(c)}

\* ready_steps[0], and `next(... step_status.items() ...)`: the first in dict order.
FirstOf(S) == CHOOSE s \in S : \A t \in S : Pos[s] <= Pos[t]

all_steps_final(c) == \A s \in Steps : c.step_status[s] \in FINAL_STEP_STATUSES

dependency_failed(c, s) ==
    \E d \in Deps[s] : c.step_status[d] \in DEPENDENCY_FAILED_STATUSES

all_dependencies_failed(c) ==
    LET unfinished == {s \in Steps : c.step_status[s] \notin FINAL_STEP_STATUSES}
    IN  unfinished # {} /\ \A s \in unfinished : dependency_failed(c, s)

StepsWith(c, statuses) == {s \in Steps : c.step_status[s] \in statuses}

SetStatus(c, S, status) ==
    [c EXCEPT !.step_status = [s \in Steps |-> IF s \in S THEN status
                                               ELSE c.step_status[s]]]

\* step_status[s] = status followed by mark_processed / mark_dependency_satisfied.
Settle(c, S, status) ==
    [SetStatus(c, S, status) EXCEPT !.processed_steps = c.processed_steps \cup S]

-----------------------------------------------------------------------------
\* Every step reachable from s along _build_successors.
Successors(s) == {t \in Steps : s \in Deps[t]}
Downstream(s) ==
    {t \in Steps : \A U \in SUBSET Steps :
        (/\ Successors(s) \subseteq U
         /\ \A u \in U : Successors(u) \subseteq U) => t \in U}

\* propagate_failure called for each step of F: a later call only finds
\* successors of steps an earlier one blocked, which are downstream already.
propagate_failure(c, F) ==
    Settle(c, {t \in StepsWith(c, {"pending", "ready"}) :
                    \E f \in F : t \in Downstream(f)}, "blocked")

\* The order in which propagate_unblock's FIFO queue first visits the steps
\* downstream of s (a successor list is in dict order).
InDictOrder(S) ==
    CHOOSE q \in [1..Cardinality(S) -> S] :
        \A i, j \in 1..Cardinality(S) : i < j => Pos[q[i]] < Pos[q[j]]

VisitOrder(s) ==
    LET Visit(b) ==
            IF b.queue = <<>> THEN b
            ELSE LET t == Head(b.queue)
                 IN  IF \E i \in 1..Len(b.visited) : b.visited[i] = t
                     THEN [b EXCEPT !.queue = Tail(b.queue)]
                     ELSE [queue |-> Tail(b.queue) \o InDictOrder(Successors(t)),
                           visited |-> Append(b.visited, t)]
        bfs[n \in Nat] ==
            IF n = 0 THEN [queue |-> InDictOrder(Successors(s)), visited |-> <<>>]
            ELSE Visit(bfs[n - 1])
        edges == Cardinality({p \in Steps \X Steps : p[1] \in Deps[p[2]]})
    IN  bfs[edges].visited

VisitedBefore(s, d, t) ==
    LET q == VisitOrder(s)
    IN  \E i, j \in 1..Len(q) : i < j /\ q[i] = d /\ q[j] = t

\* U is the set of steps propagate_unblock(c, s) turns from blocked to pending: a
\* dependency blocks t unless it was itself unblocked before t was visited.
IsUnblockedBy(c, s, U) ==
    U = {t \in Downstream(s) :
            /\ c.step_status[t] = "blocked"
            /\ \A d \in Deps[t] :
                  \/ c.step_status[d] \notin DEPENDENCY_FAILED_STATUSES
                  \/ d \in U /\ VisitedBefore(s, d, t)}

propagate_unblock_Never(c, U) == c                           \* mutant
propagate_unblock(c, U) ==
    [SetStatus(c, U, "pending") EXCEPT
        !.processed_steps = c.processed_steps \ U,
        !.published_step_events = c.published_step_events \ U]

-----------------------------------------------------------------------------
evaluate_plan_status(c) ==
    LET statuses == {c.step_status[s] : s \in Steps}
    IN  CASE statuses = {"done"}                             -> "completed"
          [] statuses # {"done"} /\ "blocked" \in statuses   -> "blocked"
          [] "blocked" \notin statuses /\ "failed" \in statuses -> "failed"
          [] OTHER                                           -> "none"

\* Whether _finalize_plan_status caches a verdict.
CanFinalize(c) ==
    /\ c.plan_status = "none"
    /\ ~(c.status = "paused" /\ c.paused_reason \in {"waiting_consent", "hard_gate_blocked"})
    /\ StepsWith(c, {"pending", "ready", "running"}) = {}
    /\ evaluate_plan_status(c) # "none"
    /\ evaluate_plan_status(c) = "blocked" => StepsWith(c, {"failed", "cancelled"}) # {}

finalize_plan_status(c) ==
    IF CanFinalize(c)
    THEN [c EXCEPT !.plan_status = evaluate_plan_status(c),
                   !.status = IF evaluate_plan_status(c) = "completed" THEN "done" ELSE "failed"]
    ELSE c

apply_sample_terminal_feedback(c) ==
    IF is_terminal(c) /\ c.plan_status # "blocked"
    THEN [c EXCEPT !.feedback_applied = TRUE]
    ELSE c

AllGreen_PlanOnly(c) == c.status = "done" /\ c.quality_retried = {}   \* mutant
\* Every step status is done and no step needed a quality retry.
AllGreen(c) ==
    /\ c.status = "done"
    /\ \A s \in Steps : c.step_status[s] = "done"
    /\ c.quality_retried = {}

-----------------------------------------------------------------------------
\* get_step_consent_request: the step's own payload, else the legacy one.
get_step_consent_request(c, s) ==
    IF c.step_consent_requests[s] # NoStep THEN c.step_consent_requests[s]
    ELSE c.consent_request

set_step_consent_request(c, s, r) ==
    [c EXCEPT !.step_consent_requests[s] = r, !.consent_request = r]

WaitsForConsent(c) == c.paused_reason = "waiting_consent" /\ c.paused_step_id # NoStep

\* Whether prepare_consent_pause has to submit a request of its own.
NeedsNewRequest(c) ==
    WaitsForConsent(c) /\ get_step_consent_request(c, c.paused_step_id) = NoStep

\* mutant: the request id is not written to the context.
prepare_consent_pause_Unstored(c) ==
    IF WaitsForConsent(c) THEN [c EXCEPT !.status = "paused"] ELSE c
prepare_consent_pause(c) ==
    IF WaitsForConsent(c)
    THEN LET s == c.paused_step_id
             r == IF NeedsNewRequest(c) THEN s ELSE get_step_consent_request(c, s)
         IN  [set_step_consent_request(c, s, r) EXCEPT !.status = "paused"]
    ELSE c

\* The step becomes ready again: apply_consent_decision and resume(consent_granted=True).
GrantConsent(c) ==
    [SetStatus(c, {c.paused_step_id}, "ready") EXCEPT
        !.paused_reason = "none", !.paused_step_id = NoStep]

\* mutant: a status that is no StepStatus.
DenyConsent_Denied(c) ==
    [Settle(c, {c.paused_step_id}, "denied") EXCEPT !.status = "cancelled"]
\* The consent was refused: the step and the plan are cancelled.
DenyConsent(c) ==
    [Settle(c, {c.paused_step_id}, "cancelled") EXCEPT !.status = "cancelled"]

-----------------------------------------------------------------------------
\* The step whose failure ended the engine run.
FailedStep(c) ==
    IF c.paused_step_id # NoStep THEN c.paused_step_id
    ELSE IF StepsWith(c, {"failed"}) # {} THEN FirstOf(StepsWith(c, {"failed"}))
    ELSE NoStep

can_advance(c) == c.fallback_index + 1 < FallbackLen

\* mutant: fallback_index stays.
advance_SameRoute(c) ==
    IF FailedStep(c) = NoStep THEN c ELSE Settle(c, {FailedStep(c)}, "pending")
advance(c) ==
    LET f == FailedStep(c)
        reset == IF f = NoStep THEN c ELSE Settle(c, {f}, "pending")
    IN  [reset EXCEPT !.fallback_index = c.fallback_index + 1]

\* The steps _collect_step_events finds unpublished, and the context after it.
UnpublishedSteps(c) ==
    {s \in c.processed_steps \ c.published_step_events :
        c.step_status[s] \in {"done", "failed", "degraded", "blocked"}}

collect_step_events_Forgets(c) == c                          \* mutant
collect_step_events(c) ==
    [c EXCEPT !.published_step_events = c.published_step_events \cup UnpublishedSteps(c)]
=============================================================================
