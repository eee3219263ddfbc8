------------------------------ MODULE IdleThink ------------------------------
(***************************************************************************)
(* IdleThink: IdleDetector's thread notices that the user is away and runs *)
(* IdleThinkCoordinator.on_idle, which maintains samples, takes up the     *)
(* plan it paused or makes one for a due goal, and executes it step by     *)
(* step until the user touches the keyboard.  What a step does is          *)
(* PlanEngine's subject; a plan is here the state its context is in.       *)
(***************************************************************************)
EXTENDS Naturals, FiniteSets

CONSTANTS
    Loops,                \* detector threads that may be alive together
    MaxIdlePlans,         \* bound on the plans made
    max_steps_per_idle,
    NoPlan,               \* no plan in hand, no status written
    MaxIdleRestarts       \* bound on the restarts of the process

VARIABLES
    detecting,            \* IdleDetector._running (and not _stop_event)
    away,                 \* the last input is threshold_seconds old
    loop,                 \* per thread: where it is, its plan, the steps it has left
    idle_interrupted,          \* IdleThinkCoordinator._interrupted
    idle_think_status,    \* NoPlan or the plan and its status
    idle_plans,           \* per plan: the state of its context
    unheard,              \* steps begun since the first input of this round
    excused,              \* plans dropped by a crash, an exception or a late approval
    overlapping,          \* two rounds were once under way together
    idle_restarts

idleVars == <<detecting, away, loop, idle_interrupted, idle_think_status, idle_plans, unheard,
             excused, overlapping, idle_restarts>>

IdlePlanIds == 1..MaxIdlePlans
IdleStatus == [plan : IdlePlanIds, status : {"paused", "completed", "stopped", "failed"}]

ASSUME IdleAssumption ==
    /\ MaxIdlePlans \in Nat /\ max_steps_per_idle \in Nat /\ MaxIdleRestarts \in Nat
    /\ NoPlan \notin IdlePlanIds \cup IdleStatus

Unfinished == {"open", "waiting", "user_input"}
PlanStates == Unfinished \cup {"none", "done", "stopped"}
NoInput == max_steps_per_idle + 1      \* no input was made in this round

NoLoop == [at |-> "none", plan |-> NoPlan, left |-> 0]
Waiting == [NoLoop EXCEPT !.at = "wait"]

IdleInit ==
    /\ detecting = TRUE
    /\ away = FALSE
    /\ \E d \in Loops : loop = [e \in Loops |-> IF e = d THEN Waiting ELSE NoLoop]
    /\ idle_interrupted = FALSE
    /\ idle_think_status = NoPlan
    /\ idle_plans = [p \in IdlePlanIds |-> "none"]
    /\ unheard = NoInput
    /\ excused = {}
    /\ overlapping = FALSE
    /\ idle_restarts = 0

LoopAt(d, place) == loop[d].at = place
LoopGoes(d, place) == loop' = [loop EXCEPT ![d].at = place]
InRound(d) == loop[d].at \notin {"none", "wait"}

detector == <<detecting, away, overlapping, idle_restarts>>
coordinator == <<idle_interrupted, idle_think_status, unheard, excused>>

-----------------------------------------------------------------------------
(* IdleDetector                                                                *)

\* A thread inside on_idle outlives stop() and goes on looping after the next start().
StartDetector ==
    /\ ~detecting /\ detecting' = TRUE
    /\ \E d \in Loops : loop[d] = NoLoop /\ loop' = [loop EXCEPT ![d] = Waiting]
    /\ UNCHANGED <<away, overlapping, idle_restarts, coordinator, idle_plans>>

\* The event wakes a thread that waits; join() gives up on one that does not.
StopDetector ==
    /\ detecting /\ detecting' = FALSE
    /\ loop' = [d \in Loops |-> IF LoopAt(d, "wait") THEN NoLoop ELSE loop[d]]
    /\ UNCHANGED <<away, overlapping, idle_restarts, coordinator, idle_plans>>

\* The endpoints that switch IdleThink on and off.
idle_toggle == StartDetector \/ StopDetector

\* Time passes, or set_threshold moves the border.
TimePasses ==
    /\ away' = ~away
    /\ UNCHANGED <<detecting, overlapping, idle_restarts, loop, idle_interrupted, idle_think_status,
                   unheard, excused, idle_plans>>

\* touch and on_user_input.
touch ==
    /\ away' = FALSE
    /\ idle_interrupted' = TRUE
    /\ unheard' = IF unheard = NoInput THEN 0 ELSE unheard
    /\ UNCHANGED <<detecting, overlapping, idle_restarts, loop, idle_think_status,
                   excused, idle_plans>>

check_once(d) ==
    /\ LoopAt(d, "wait") /\ away
    /\ away' = FALSE
    /\ LoopGoes(d, "maintain")
    /\ overlapping' = (overlapping \/ \E e \in Loops \ {d} : InRound(e))
    /\ UNCHANGED <<detecting, idle_restarts, coordinator, idle_plans>>

\* on_idle has returned: the loop looks at _running again.
RoundReturns(d) ==
    /\ LoopAt(d, "finish")
    /\ loop' = [loop EXCEPT ![d] = IF detecting THEN Waiting ELSE NoLoop]
    /\ UNCHANGED <<detector, coordinator, idle_plans>>

-----------------------------------------------------------------------------
(* on_idle                                                                     *)

\* _run_sample_maintenance and the memory hook (Samples and Memory say what they do).
Maintain(d) ==
    /\ LoopAt(d, "maintain")
    /\ LoopGoes(d, "resume")
    /\ UNCHANGED <<detector, idle_interrupted, idle_think_status, unheard, excused,
                   idle_plans>>

\* _resume_paused_plan_if_any.
ResumePaused(d) ==
    /\ LoopAt(d, "resume")
    /\ IF idle_think_status # NoPlan /\ idle_think_status.status = "paused"
       THEN loop' = [loop EXCEPT ![d] = [at |-> "exec", plan |-> idle_think_status.plan,
                                         left |-> 0]]
       ELSE LoopGoes(d, "evaluate")
    /\ UNCHANGED <<detector, coordinator, idle_plans>>

\* What the evaluator reads of a goal; nothing in the program writes these rows.
Goal == [active : BOOLEAN, suppressed : BOOLEAN, cooling : BOOLEAN, capped : BOOLEAN,
         urgent : BOOLEAN, urgency : {"dropped", "low", "high"}]

\* GoalRepository.list_active: the row and the goal's own status are active.
IsListed(goal) == goal.active

\* is_suppressed, _in_cooldown, _exceeds_daily_cap.
IsHeldBack(goal) == goal.suppressed \/ goal.cooling \/ goal.capped

\* GoalEvaluator.evaluate; an urgency below 0.2 is dropped.
IsCandidate(goal) == IsListed(goal) /\ ~IsHeldBack(goal) /\ goal.urgency # "dropped"

\* _build_attention_context: focus mode from the settings, the time of the last status.
Attention == [focus_mode : BOOLEAN, cooldown : BOOLEAN, daily_cap : BOOLEAN]

\* AttentionGuard.filter: the context is idle, so the night adds nothing.
IsGated(attention) == attention.focus_mode \/ attention.cooldown \/ attention.daily_cap

\* AttentionGuard._evaluate_single in an idle context: ALLOW, or SILENT and SUPPRESS.
IsAllowed(goal, attention) == goal.urgency = "high" /\ (goal.urgent \/ ~IsGated(attention))

\* evaluate_reminders: something is shown, or nothing is.
EvaluateReminders(d) ==
    /\ LoopAt(d, "evaluate")
    /\ \E shown \in {IsCandidate(g) /\ IsAllowed(g, attention) :
                        g \in Goal, attention \in Attention} :
          LoopGoes(d, IF shown THEN "create" ELSE "publish")
    /\ UNCHANGED <<detector, coordinator, idle_plans>>

\* _maybe_create_idle_plan: not decomposable, a failure, or a new plan.
CreateIdlePlan(d) ==
    /\ LoopAt(d, "create")
    /\ \/ LoopGoes(d, "publish") /\ UNCHANGED idle_plans
       \/ \E p \in IdlePlanIds :
             /\ idle_plans[p] = "none" /\ \A q \in 1..p - 1 : idle_plans[q] # "none"
             /\ idle_plans' = [idle_plans EXCEPT ![p] = "open"]
             /\ loop' = [loop EXCEPT ![d].at = "publish", ![d].plan = p]
    /\ UNCHANGED <<detector, coordinator>>

\* idle_think_result is written; then the new plan is executed.
PublishResult(d) ==
    /\ LoopAt(d, "publish")
    /\ LoopGoes(d, IF loop[d].plan = NoPlan THEN "finish" ELSE "exec")
    /\ UNCHANGED <<detector, coordinator, idle_plans>>

\* A plan in hand that no status names is dropped with the round.
Dropped(d) == {p \in {loop[d].plan} \ {NoPlan} :
                  idle_think_status = NoPlan \/ idle_think_status.plan # p}

\* Anything above raises: on_idle logs it and returns.
RoundRaises(d) ==
    /\ loop[d].at \in {"maintain", "resume", "evaluate", "create", "publish"}
    /\ excused' = excused \cup Dropped(d)
    /\ loop' = [loop EXCEPT ![d] = [NoLoop EXCEPT !.at = "finish"]]
    /\ UNCHANGED <<detector, idle_interrupted, idle_think_status, unheard,
                   idle_plans>>

-----------------------------------------------------------------------------
(* _execute_plan_steps                                                         *)

WriteStatus(d, status) ==
    /\ idle_think_status' = [plan |-> loop[d].plan, status |-> status]
    /\ loop' = [loop EXCEPT ![d] = [NoLoop EXCEPT !.at = "finish"]]

\* The flag is cleared, with whatever it had heard before.
BeginSteps(d) ==
    /\ LoopAt(d, "exec")
    /\ idle_interrupted' = FALSE
    /\ unheard' = NoInput
    /\ loop' = [loop EXCEPT ![d].at = "check", ![d].left = max_steps_per_idle]
    /\ UNCHANGED <<detector, idle_think_status, excused, idle_plans>>

\* Mutant: nobody looks at the flag.
_is_interrupted_Never == FALSE
_is_interrupted == idle_interrupted

CheckInterrupted(d) ==
    /\ LoopAt(d, "check") /\ loop[d].left > 0
    /\ LoopGoes(d, IF _is_interrupted THEN "pause" ELSE "load")
    /\ UNCHANGED <<detector, coordinator, idle_plans>>

\* Mutant: an unfinished plan leaves the status its context has.
EndStatus_AsIs(state) == CASE state = "done" -> "completed" [] OTHER -> state

\* The status the round leaves behind: terminal states by name, all others paused.
EndStatus(state) == CASE state = "done" -> "completed"
                      [] state = "stopped" -> "stopped"
                      [] OTHER -> "paused"

\* The budget is used up.
BudgetSpent(d) ==
    /\ LoopAt(d, "check") /\ loop[d].left = 0
    /\ WriteStatus(d, EndStatus("open"))
    /\ UNCHANGED <<detector, idle_interrupted, unheard, excused, idle_plans>>

\* load_context: a plan that is over, or paused for another reason, ends the round.
LoadPlan(d) ==
    /\ LoopAt(d, "load")
    /\ LET state == idle_plans[loop[d].plan]
       IN  IF state \in {"open", "user_input"}
           THEN /\ LoopGoes(d, "step")
                /\ unheard' = IF unheard = NoInput THEN NoInput ELSE unheard + 1
                /\ UNCHANGED idle_think_status
           ELSE WriteStatus(d, EndStatus(state)) /\ UNCHANGED unheard
    /\ UNCHANGED <<detector, idle_interrupted, excused, idle_plans>>

\* execute_next saves its own context over whatever the plan has become.  An input
\* heard now pauses it, a plan that is over, waits or made no progress ends the round.
ExecuteNext(d) ==
    /\ LoopAt(d, "step")
    /\ \E state \in {"open", "waiting", "done", "stopped"}, progress \in BOOLEAN :
          /\ idle_plans' = [idle_plans EXCEPT ![loop[d].plan] = state]
          /\ IF _is_interrupted
             THEN LoopGoes(d, "pause") /\ UNCHANGED idle_think_status
             ELSE IF state = "open" /\ progress
             THEN /\ loop' = [loop EXCEPT ![d].at = "check", ![d].left = @ - 1]
                  /\ UNCHANGED idle_think_status
             ELSE WriteStatus(d, EndStatus(state))
    /\ UNCHANGED <<detector, idle_interrupted, unheard, excused>>

\* execute_next raises: the status is failed, whatever the plan is.
StepRaises(d) ==
    /\ LoopAt(d, "step")
    /\ excused' = excused \cup {loop[d].plan}
    /\ WriteStatus(d, "failed")
    /\ UNCHANGED <<detector, idle_interrupted, unheard, idle_plans>>

\* _pause_idle_plan: PlanOrchestrator.pause spares a plan that is over ...
PauseIdlePlan(d) ==
    /\ LoopAt(d, "pause")
    /\ idle_plans' = [idle_plans EXCEPT ![loop[d].plan] =
                         IF @ \in Unfinished THEN "user_input" ELSE @]
    /\ LoopGoes(d, "paused")
    /\ UNCHANGED <<detector, coordinator>>

\* ... and the status is written all the same.
WritePaused(d) ==
    /\ LoopAt(d, "paused")
    /\ WriteStatus(d, "paused")
    /\ UNCHANGED <<detector, idle_interrupted, unheard, excused, idle_plans>>

-----------------------------------------------------------------------------
\* The endpoints resume, execute or cancel a plan; an approval that comes late opens
\* a cancelled one again.
UserActs(p) ==
    /\ \/ idle_plans[p] \in Unfinished /\ UNCHANGED excused
       \/ idle_plans[p] = "stopped" /\ excused' = excused \cup {p}
    /\ \E state \in {"open", "waiting", "done", "stopped"} :
          idle_plans' = [idle_plans EXCEPT ![p] = state]
    /\ UNCHANGED <<detector, loop, idle_interrupted, idle_think_status,
                   unheard>>

RestartIdle ==
    /\ idle_restarts < MaxIdleRestarts /\ idle_restarts' = idle_restarts + 1
    /\ excused' = excused \cup UNION {Dropped(d) : d \in Loops}
    /\ detecting' \in BOOLEAN
    /\ loop' \in {[e \in Loops |-> IF detecting' /\ e = d THEN Waiting ELSE NoLoop] : d \in Loops}
    /\ away' = FALSE /\ idle_interrupted' = FALSE /\ unheard' = NoInput
    /\ UNCHANGED <<overlapping, idle_think_status, idle_plans>>

IdleNext ==
    \/ idle_toggle \/ TimePasses \/ touch \/ RestartIdle
    \/ \E d \in Loops :
          \/ check_once(d) \/ Maintain(d) \/ ResumePaused(d) \/ EvaluateReminders(d)
          \/ CreateIdlePlan(d) \/ PublishResult(d) \/ RoundRaises(d) \/ BeginSteps(d)
          \/ CheckInterrupted(d) \/ BudgetSpent(d) \/ LoadPlan(d) \/ ExecuteNext(d)
          \/ StepRaises(d) \/ PauseIdlePlan(d) \/ WritePaused(d) \/ RoundReturns(d)
    \/ \E p \in IdlePlanIds : UserActs(p)

IdleSpec == IdleInit /\ [][IdleNext]_idleVars

-----------------------------------------------------------------------------
IdleTypeOK ==
    /\ detecting \in BOOLEAN /\ away \in BOOLEAN /\ idle_interrupted \in BOOLEAN
    /\ loop \in [Loops ->
          [at : {"none", "wait", "maintain", "resume", "evaluate", "create", "publish",
                 "exec", "check", "load", "step", "pause", "paused", "finish"},
           plan : IdlePlanIds \cup {NoPlan}, left : 0..max_steps_per_idle]]
    /\ idle_think_status \in IdleStatus \cup {NoPlan}
    /\ idle_plans \in [IdlePlanIds -> PlanStates]
    /\ unheard \in 0..NoInput
    /\ excused \subseteq IdlePlanIds

\* A plan IdleThink made is in a thread's hands, or over, or named by a paused status
\* that the next idle period takes up, whatever the user does to the plan meanwhile;
\* a crash and an exception may drop it.
NoIdlePlanIsLost ==
    \A p \in IdlePlanIds : idle_plans[p] \in Unfinished =>
        \/ p \in excused
        \/ \E d \in Loops : loop[d].plan = p
        \/ idle_think_status = [plan |-> p, status |-> "paused"]

\* After the user's input a round begins at most one more step.
InputIsHeard == unheard = NoInput \/ unheard <= 1

\* IdleThink gives way to the user and loses nothing by it, as long as no second
\* detector thread outlived a stop (idle_think_coordinator._execute_plan_steps,
\* _pause_idle_plan, _resume_paused_plan_if_any).
IdleThinkGivesWay == ~overlapping => NoIdlePlanIsLost /\ InputIsHeard
=============================================================================
