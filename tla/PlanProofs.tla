----------------------------- MODULE PlanProofs -----------------------------
(* Machine-checked proofs about module PlanEngine, for every plan and any set of workers;   *)
(* what only one thread at a time keeps (OneWorker) and what only gated calls keep           *)
(* (GatedCalls) says so in its theorem.                                                      *)
EXTENDS PlanEngine, WellFoundedInduction, TLAPS

-----------------------------------------------------------------------------
(* The first step of a set in dict order exists.                           *)

\* A non-empty set of naturals has a least element.
LEMMA NatMinimum ==
    ASSUME NEW T, T \subseteq Nat, T # {}
    PROVE  \E x \in T : \A y \in T : x <= y
<1> DEFINE R == {p \in Nat \X Nat : p[1] < p[2]}
<1>1. IsWellFoundedOn(R, Nat)
  BY NatLessThanWellFounded DEF OpToRel
<1>2. \E x \in T : \A y \in T : ~(<<y, x>> \in R)
  <2> HIDE DEF R
  <2> QED BY <1>1, WFMin
<1>3. PICK x \in T : \A y \in T : ~(<<y, x>> \in R)
  BY <1>2
<1>4. ASSUME NEW y \in T PROVE x <= y
  <2>1. ~(<<y, x>> \in R) BY <1>3
  <2>2. x \in Nat /\ y \in Nat OBVIOUS
  <2> QED BY <2>1, <2>2
<1>5. QED BY <1>4

\* FirstOf picks a step of the set it is given.
LEMMA FirstOfIsMember ==
    ASSUME NEW S, S \subseteq Steps, S # {}
    PROVE  FirstOf(S) \in S
<1>1. {Pos[s] : s \in S} \subseteq Nat /\ {Pos[s] : s \in S} # {}
  BY PlanAssumption
<1>2. \E x \in {Pos[s] : s \in S} : \A y \in {Pos[s] : s \in S} : x <= y
  BY <1>1, NatMinimum
<1>3. \E s \in S : \A t \in S : Pos[s] <= Pos[t]
  BY <1>2
<1>4. QED BY <1>3 DEF FirstOf

-----------------------------------------------------------------------------
Sat == DEPENDENCY_SATISFIED_STATUSES
Ran == {"running", "done", "degraded", "failed"}

\* What is true of every copy of the context when the steps of G have been allowed.
DepsOK(c) ==
    \A s \in Steps : c.step_status[s] \in Ran =>
        \A d \in Deps[s] : c.step_status[d] \in Sat

GrantOK(c, G) ==
    \A s \in Consent : c.step_status[s] \in Ran \cup {"ready"} => s \in G

\* The step a plan waits at is not satisfied: a decision cannot undo a result.
WaitOK(c) == WaitsForConsent(c) => c.step_status[c.paused_step_id] \notin Sat

Good(c, G) == c \in TaskContext /\ DepsOK(c) /\ GrantOK(c, G) /\ WaitOK(c)

\* Along the engine's way: the step it executes is running, and the step it
\* stopped at when the plan failed has failed.
WorkerOK(r) ==
    /\ r.pc \in {"sched", "exec"} => r.ctx.paused_step_id = NoStep /\ r.ctx.status = "running"
    /\ r.pc = "exec" => r.cur \in Steps /\ r.ctx.step_status[r.cur] = "running"
    /\ r.pc = "post" /\ r.ctx.status = "failed" /\ r.ctx.paused_step_id # NoStep =>
            r.ctx.step_status[r.ctx.paused_step_id] = "failed"

IInv ==
    /\ Good(store, granted)
    /\ \A w \in Workers : Good(wk[w].ctx, granted) /\ WorkerOK(wk[w])
    /\ TypeOK

-----------------------------------------------------------------------------
(* Lemmas about the operators on contexts.                                 *)

\* Raising the set of allowed steps keeps a context good.
LEMMA GoodMonotone ==
    ASSUME NEW c, NEW G, NEW H, G \subseteq H, Good(c, G)
    PROVE  Good(c, H)
BY DEF Good, GrantOK

\* A change that leaves satisfied steps alone and starts nothing keeps a context good.
LEMMA SafeChange ==
    ASSUME NEW G, NEW c, NEW d \in TaskContext, Good(c, G), WaitOK(d),
           \A s \in Steps : \/ d.step_status[s] = c.step_status[s]
                            \/ /\ c.step_status[s] \notin Sat
                               /\ d.step_status[s] \notin Ran \cup {"ready"}
    PROVE  Good(d, G)
<1>1. DepsOK(d)
  BY PlanAssumption DEF Good, DepsOK
<1>2. GrantOK(d, G)
  BY PlanAssumption DEF Good, GrantOK
<1> QED BY <1>1, <1>2 DEF Good

\* SetStatus writes one status and nothing else.
LEMMA SetStatusLemma ==
    ASSUME NEW c \in TaskContext, NEW S, NEW x \in StepStatus
    PROVE  /\ SetStatus(c, S, x) \in TaskContext
           /\ \A s \in Steps : SetStatus(c, S, x).step_status[s] =
                                   IF s \in S THEN x ELSE c.step_status[s]
           /\ SetStatus(c, S, x).paused_step_id = c.paused_step_id
           /\ SetStatus(c, S, x).paused_reason = c.paused_reason
           /\ SetStatus(c, S, x).status = c.status
           /\ SetStatus(c, S, x).processed_steps = c.processed_steps
BY DEF SetStatus, TaskContext

\* Settle writes one status and marks the steps processed.
LEMMA SettleLemma ==
    ASSUME NEW c \in TaskContext, NEW S, S \subseteq Steps, NEW x \in StepStatus
    PROVE  /\ Settle(c, S, x) \in TaskContext
           /\ \A s \in Steps : Settle(c, S, x).step_status[s] =
                                   IF s \in S THEN x ELSE c.step_status[s]
           /\ Settle(c, S, x).paused_step_id = c.paused_step_id
           /\ Settle(c, S, x).paused_reason = c.paused_reason
           /\ Settle(c, S, x).status = c.status
<1>1. SetStatus(c, S, x) \in TaskContext BY SetStatusLemma
<1> QED BY <1>1, SetStatusLemma DEF Settle, TaskContext

\* A context that differs in neither step statuses nor the paused step is as good.
LEMMA SameStatuses ==
    ASSUME NEW G, NEW c, NEW d \in TaskContext, Good(c, G),
           d.step_status = c.step_status,
           \/ d.paused_step_id = NoStep
           \/ d.paused_reason = c.paused_reason /\ d.paused_step_id = c.paused_step_id
    PROVE  Good(d, G)
<1>1. WaitOK(d) BY DEF Good, WaitOK, WaitsForConsent
<1> QED BY <1>1, SafeChange

\* propagate_failure only blocks steps that wait.
LEMMA PropagateFailureGood ==
    ASSUME NEW G, NEW c, Good(c, G), NEW F
    PROVE  /\ Good(propagate_failure(c, F), G)
           /\ propagate_failure(c, F).status = c.status
           /\ propagate_failure(c, F).paused_step_id = c.paused_step_id
           /\ \A s \in Steps : c.step_status[s] = "failed" =>
                    propagate_failure(c, F).step_status[s] = "failed"
<1> DEFINE B == {t \in StepsWith(c, {"pending", "ready"}) : \E f \in F : t \in Downstream(f)}
           d == propagate_failure(c, F)
<1>1. B \subseteq Steps /\ \A s \in B : c.step_status[s] \in {"pending", "ready"}
  BY DEF StepsWith
<1>2. d = Settle(c, B, "blocked") BY DEF propagate_failure
<1>3. c \in TaskContext BY DEF Good
<1> HIDE DEF B, d
<1>4. /\ d \in TaskContext
      /\ \A s \in Steps : d.step_status[s] = IF s \in B THEN "blocked" ELSE c.step_status[s]
      /\ d.paused_step_id = c.paused_step_id /\ d.paused_reason = c.paused_reason
      /\ d.status = c.status
  BY <1>1, <1>2, <1>3, SettleLemma DEF StepStatus
<1>5. WaitOK(d)
  BY <1>1, <1>3, <1>4 DEF Good, WaitOK, WaitsForConsent, TaskContext, Sat, DEPENDENCY_SATISFIED_STATUSES
<1>6. Good(d, G)
  BY <1>1, <1>4, <1>5, SafeChange DEF Sat, Ran, DEPENDENCY_SATISFIED_STATUSES
<1> QED BY <1>1, <1>4, <1>6 DEF d

\* propagate_unblock only touches blocked steps.
LEMMA PropagateUnblockGood ==
    ASSUME NEW G, NEW c, Good(c, G), NEW U, U \subseteq Steps,
           \A t \in U : c.step_status[t] = "blocked"
    PROVE  Good(propagate_unblock(c, U), G)
<1> DEFINE d == propagate_unblock(c, U)
           e == SetStatus(c, U, "pending")
<1>1. c \in TaskContext BY DEF Good
<1>2. /\ e \in TaskContext
      /\ \A s \in Steps : e.step_status[s] = IF s \in U THEN "pending" ELSE c.step_status[s]
      /\ e.paused_step_id = c.paused_step_id /\ e.paused_reason = c.paused_reason
  BY <1>1, SetStatusLemma DEF StepStatus
<1>a. d = [e EXCEPT !.processed_steps = c.processed_steps \ U,
                    !.published_step_events = c.published_step_events \ U]
  BY DEF propagate_unblock
<1> HIDE DEF d, e
<1>3. /\ d \in TaskContext
      /\ \A s \in Steps : d.step_status[s] = IF s \in U THEN "pending" ELSE c.step_status[s]
      /\ d.paused_step_id = c.paused_step_id /\ d.paused_reason = c.paused_reason
  BY <1>1, <1>2, <1>a DEF TaskContext
<1>4. WaitOK(d)
  BY <1>1, <1>3 DEF Good, WaitOK, WaitsForConsent, TaskContext, Sat, DEPENDENCY_SATISFIED_STATUSES
<1>5. Good(d, G)
  BY <1>3, <1>4, SafeChange DEF Sat, Ran, DEPENDENCY_SATISFIED_STATUSES
<1> QED BY <1>5 DEF d

\* Caching a verdict, applying feedback, collecting events and registering a
\* consent request leave the steps alone.
LEMMA FinalizeGood ==
    ASSUME NEW G, NEW c, Good(c, G)
    PROVE  Good(finalize_plan_status(c), G)
<1>1. c \in TaskContext BY DEF Good
<1>2. CanFinalize(c) => evaluate_plan_status(c) \in Verdict
  BY DEF CanFinalize, evaluate_plan_status, Verdict
<1>3. CASE ~CanFinalize(c) BY <1>3 DEF finalize_plan_status
<1>4. CASE CanFinalize(c)
  <2> DEFINE v == evaluate_plan_status(c)
             x == IF v = "completed" THEN "done" ELSE "failed"
             d == [c EXCEPT !.plan_status = v, !.status = x]
  <2>1. finalize_plan_status(c) = d BY <1>4 DEF finalize_plan_status
  <2>2. v \in Verdict /\ x \in PlanStatus BY <1>2, <1>4 DEF PlanStatus
  <2> HIDE DEF v, x
  <2>3. d \in TaskContext /\ d.step_status = c.step_status
        /\ d.paused_reason = c.paused_reason /\ d.paused_step_id = c.paused_step_id
    BY <1>1, <2>2 DEF TaskContext
  <2> QED BY <2>1, <2>3, SameStatuses
<1> QED BY <1>3, <1>4

\* Applying the sample feedback only sets its flag.
LEMMA FeedbackGood ==
    ASSUME NEW G, NEW c, Good(c, G)
    PROVE  Good(apply_sample_terminal_feedback(c), G)
BY SameStatuses DEF apply_sample_terminal_feedback, TaskContext, Good

\* Collecting the step events only grows published_step_events.
LEMMA CollectGood ==
    ASSUME NEW G, NEW c, Good(c, G)
    PROVE  Good(collect_step_events(c), G)
<1>1. c \in TaskContext BY DEF Good
<1>2. UnpublishedSteps(c) \subseteq Steps BY <1>1 DEF UnpublishedSteps, TaskContext
<1> QED BY <1>1, <1>2, SameStatuses DEF collect_step_events, TaskContext

\* Storing a consent request leaves the steps' statuses alone.
LEMMA SetRequestGood ==
    ASSUME NEW G, NEW c, Good(c, G), NEW s \in Steps, NEW r \in Steps \cup {NoStep}
    PROVE  /\ Good(set_step_consent_request(c, s, r), G)
           /\ set_step_consent_request(c, s, r).step_status = c.step_status
           /\ set_step_consent_request(c, s, r).paused_step_id = c.paused_step_id
           /\ set_step_consent_request(c, s, r).paused_reason = c.paused_reason
<1> DEFINE d == set_step_consent_request(c, s, r)
<1>1. c \in TaskContext BY DEF Good
<1>2. /\ d \in TaskContext /\ d.step_status = c.step_status
      /\ d.paused_reason = c.paused_reason /\ d.paused_step_id = c.paused_step_id
  BY <1>1 DEF set_step_consent_request, TaskContext
<1> HIDE DEF d
<1>3. Good(d, G) BY <1>2, SameStatuses
<1> QED BY <1>2, <1>3 DEF d

\* A step's consent request is a step or none.
LEMMA RequestType ==
    ASSUME NEW c \in TaskContext, NEW s \in Steps
    PROVE  get_step_consent_request(c, s) \in Steps \cup {NoStep}
BY DEF get_step_consent_request, TaskContext

\* prepare_consent_pause keeps a context good: it stores a request and pauses.
LEMMA PrepareConsentGood ==
    ASSUME NEW G, NEW c, Good(c, G)
    PROVE  Good(prepare_consent_pause(c), G)
<1>1. c \in TaskContext BY DEF Good
<1>2. CASE ~WaitsForConsent(c) BY <1>2 DEF prepare_consent_pause
<1>3. CASE WaitsForConsent(c)
  <2> DEFINE s == c.paused_step_id
             r == IF NeedsNewRequest(c) THEN s ELSE get_step_consent_request(c, s)
             d == set_step_consent_request(c, s, r)
  <2>1. s \in Steps BY <1>1, <1>3 DEF WaitsForConsent, TaskContext
  <2>2. r \in Steps \cup {NoStep} BY <1>1, <2>1, RequestType
  <2> HIDE DEF s, r
  <2>3. Good(d, G) BY <2>1, <2>2, SetRequestGood
  <2>4. prepare_consent_pause(c) = [d EXCEPT !.status = "paused"]
    BY <1>3 DEF prepare_consent_pause, s, r
  <2> HIDE DEF d
  <2>5. d \in TaskContext BY <2>3 DEF Good
  <2> QED BY <2>3, <2>4, <2>5, SameStatuses DEF TaskContext, PlanStatus
<1> QED BY <1>2, <1>3

\* run_until_blocked's first assignments.
LEMMA EngineStartGood ==
    ASSUME NEW G, NEW c, Good(c, G)
    PROVE  /\ Good(EngineStart(c), G)
           /\ EngineStart(c).paused_step_id = NoStep
           /\ EngineStart(c).status = "running"
<1> DEFINE d == EngineStart(c)
<1>1. c \in TaskContext BY DEF Good
<1>2. /\ d \in TaskContext /\ d.step_status = c.step_status /\ d.paused_step_id = NoStep
      /\ d.status = "running"
  BY <1>1 DEF EngineStart, TaskContext, PlanStatus, PausedReason
<1> HIDE DEF d
<1>3. Good(d, G) BY <1>2, SameStatuses
<1> QED BY <1>2, <1>3 DEF d

\* A granted consent makes the waiting step ready, and it counts as allowed.
LEMMA GrantConsentGood ==
    ASSUME NEW G, NEW c, Good(c, G), WaitsForConsent(c)
    PROVE  Good(GrantConsent(c), G \cup {c.paused_step_id})
<1> DEFINE p == c.paused_step_id
           e == SetStatus(c, {p}, "ready")
           d == GrantConsent(c)
           H == G \cup {p}
<1>1. c \in TaskContext /\ p \in Steps BY DEF Good, WaitsForConsent, TaskContext
<1>2. e \in TaskContext /\ \A s \in Steps : e.step_status[s] = IF s = p THEN "ready" ELSE c.step_status[s]
  BY <1>1, SetStatusLemma DEF StepStatus
<1>3. d = [e EXCEPT !.paused_reason = "none", !.paused_step_id = NoStep]
  BY DEF GrantConsent
<1>4. c.step_status[p] \notin Sat BY DEF Good, WaitOK
<1>5. p \in H /\ G \subseteq H OBVIOUS
<1> HIDE DEF d, e, p, H
<1>6. /\ d \in TaskContext /\ d.paused_step_id = NoStep
      /\ \A s \in Steps : d.step_status[s] = IF s = p THEN "ready" ELSE c.step_status[s]
  BY <1>2, <1>3 DEF TaskContext, PausedReason
<1>7. DepsOK(d)
  BY <1>1, <1>4, <1>6, PlanAssumption DEF Good, DepsOK, Ran
<1>8. GrantOK(d, H)
  BY <1>5, <1>6, PlanAssumption DEF Good, GrantOK
<1>9. WaitOK(d) BY <1>6 DEF WaitOK, WaitsForConsent
<1> QED BY <1>6, <1>7, <1>8, <1>9 DEF Good, d, H, p

\* A refused consent cancels the waiting step.
LEMMA DenyConsentGood ==
    ASSUME NEW G, NEW c, Good(c, G), WaitsForConsent(c)
    PROVE  Good(DenyConsent(c), G)
<1> DEFINE p == c.paused_step_id
           e == Settle(c, {p}, "cancelled")
           d == DenyConsent(c)
<1>1. c \in TaskContext /\ p \in Steps BY DEF Good, WaitsForConsent, TaskContext
<1>2. /\ e \in TaskContext /\ e.paused_step_id = p
      /\ \A s \in Steps : e.step_status[s] = IF s = p THEN "cancelled" ELSE c.step_status[s]
  BY <1>1, SettleLemma DEF StepStatus
<1>3. d = [e EXCEPT !.status = "cancelled"] BY DEF DenyConsent
<1>4. c.step_status[p] \notin Sat BY DEF Good, WaitOK
<1> HIDE DEF d, e, p
<1>5. /\ d \in TaskContext /\ d.paused_step_id = p
      /\ \A s \in Steps : d.step_status[s] = IF s = p THEN "cancelled" ELSE c.step_status[s]
  BY <1>2, <1>3 DEF TaskContext, PlanStatus
<1>6. WaitOK(d) BY <1>1, <1>5 DEF WaitOK, Sat, DEPENDENCY_SATISFIED_STATUSES
<1>7. Good(d, G) BY <1>4, <1>5, <1>6, SafeChange DEF Ran
<1> QED BY <1>7 DEF d

\* The fallback controller resets a failed step only.
LEMMA AdvanceGood ==
    ASSUME NEW G, NEW c, Good(c, G),
           c.paused_step_id # NoStep => c.step_status[c.paused_step_id] = "failed"
    PROVE  Good([advance(c) EXCEPT !.status = "running"], G)
<1> DEFINE f == FailedStep(c)
           e == IF f = NoStep THEN c ELSE Settle(c, {f}, "pending")
           d == [advance(c) EXCEPT !.status = "running"]
<1>1. c \in TaskContext BY DEF Good
<1>2. f # NoStep => f \in Steps /\ c.step_status[f] = "failed"
  <2>1. CASE c.paused_step_id # NoStep
    BY <1>1, <2>1 DEF FailedStep, TaskContext
  <2>2. CASE c.paused_step_id = NoStep /\ StepsWith(c, {"failed"}) # {}
    <3>1. FirstOf(StepsWith(c, {"failed"})) \in StepsWith(c, {"failed"})
      BY <2>2, FirstOfIsMember DEF StepsWith
    <3> QED BY <2>2, <3>1 DEF FailedStep, StepsWith
  <2>3. CASE c.paused_step_id = NoStep /\ StepsWith(c, {"failed"}) = {}
    BY <2>3 DEF FailedStep
  <2> QED BY <2>1, <2>2, <2>3
<1>3. d = [[e EXCEPT !.fallback_index = c.fallback_index + 1] EXCEPT !.status = "running"]
  BY DEF advance
<1> HIDE DEF f, d
<1>4. /\ e \in TaskContext
      /\ e.paused_step_id = c.paused_step_id /\ e.paused_reason = c.paused_reason
      /\ \A s \in Steps : \/ e.step_status[s] = c.step_status[s]
                          \/ c.step_status[s] = "failed" /\ e.step_status[s] = "pending"
  BY <1>1, <1>2, SettleLemma DEF StepStatus
<1> HIDE DEF e
<1>5. /\ d \in TaskContext
      /\ d.paused_step_id = c.paused_step_id /\ d.paused_reason = c.paused_reason
      /\ d.step_status = e.step_status
  <2> DEFINE n == c.fallback_index + 1
             g == [e EXCEPT !.fallback_index = n]
  <2>1. n \in Nat BY <1>1 DEF TaskContext
  <2>2. d = [g EXCEPT !.status = "running"] BY <1>3
  <2> HIDE DEF n
  <2>3. /\ g \in TaskContext /\ g.step_status = e.step_status
        /\ g.paused_step_id = e.paused_step_id /\ g.paused_reason = e.paused_reason
    BY <1>4, <2>1 DEF TaskContext
  <2> HIDE DEF g
  <2> QED BY <1>4, <2>2, <2>3 DEF TaskContext, PlanStatus
<1>6. WaitOK(d)
  BY <1>1, <1>4, <1>5 DEF Good, WaitOK, WaitsForConsent, TaskContext, Sat, DEPENDENCY_SATISFIED_STATUSES
<1>7. Good(d, G)
  BY <1>4, <1>5, <1>6, SafeChange DEF Ran, Sat, DEPENDENCY_SATISFIED_STATUSES
<1> QED BY <1>7 DEF d

\* What the engine knows of the step it picks.
LEMMA ReadyStep ==
    ASSUME NEW G, NEW c, Good(c, G), get_ready_steps(c) # {}
    PROVE  /\ FirstOf(get_ready_steps(c)) \in Steps
           /\ c.step_status[FirstOf(get_ready_steps(c))] \in {"pending", "ready"}
           /\ \A d \in Deps[FirstOf(get_ready_steps(c))] : c.step_status[d] \in Sat
<1>1. FirstOf(get_ready_steps(c)) \in get_ready_steps(c)
  BY FirstOfIsMember DEF get_ready_steps
<1> QED BY <1>1 DEF get_ready_steps, dependency_satisfied_set, Sat

\* A step that may run starts or ends running, and stays allowed.
LEMMA RunGood ==
    ASSUME NEW G, NEW c, Good(c, G), NEW s \in Steps, NEW d \in TaskContext,
           \A t \in Steps : t # s => d.step_status[t] = c.step_status[t],
           c.step_status[s] \notin Sat, d.step_status[s] \in Ran,
           \A u \in Deps[s] : c.step_status[u] \in Sat,
           s \in Consent => s \in G,
           WaitOK(d)
    PROVE  Good(d, G)
<1>1. DepsOK(d) BY PlanAssumption DEF Good, DepsOK
<1>2. GrantOK(d, G) BY PlanAssumption DEF Good, GrantOK
<1> QED BY <1>1, <1>2 DEF Good

-----------------------------------------------------------------------------
(* The invariant, one lemma for each way a step changes the state.         *)

\* A worker moves to record r; whatever else changes stays well-formed.
LEMMA WorkerMoves ==
    ASSUME IInv, NEW w \in Workers, NEW r \in Worker, Go(w, r),
           granted \subseteq granted', granted' \subseteq Steps,
           Good(store', granted'), Good(r.ctx, granted'), WorkerOK(r),
           requests' \in [Steps -> RequestState], stage' \in [1..NStages -> StageState],
           announced' \in [Steps -> 0..2], outcomes' \in 0..2, verified' \in BOOLEAN
    PROVE  IInv'
<1>1. wk' \in [Workers -> Worker] /\ wk'[w] = r /\ \A v \in Workers : v # w => wk'[v] = wk[v]
  BY DEF IInv, TypeOK, Go
<1>2. ASSUME NEW v \in Workers PROVE Good(wk'[v].ctx, granted') /\ WorkerOK(wk'[v])
  <2>1. CASE v = w BY <1>1, <2>1
  <2>2. CASE v # w
    <3>1. Good(wk[v].ctx, granted) /\ WorkerOK(wk[v]) BY DEF IInv
    <3>2. Good(wk[v].ctx, granted') BY <3>1, GoodMonotone
    <3> QED BY <1>1, <2>2, <3>1, <3>2
  <2> QED BY <2>1, <2>2
<1>3. TypeOK'
  BY <1>1 DEF TypeOK, Good
<1> QED BY <1>2, <1>3 DEF IInv

\* An endpoint changes the snapshot, the workers go on as they were.
LEMMA StoreMoves ==
    ASSUME IInv, UNCHANGED wk,
           granted \subseteq granted', granted' \subseteq Steps, Good(store', granted'),
           requests' \in [Steps -> RequestState], stage' \in [1..NStages -> StageState],
           announced' \in [Steps -> 0..2], outcomes' \in 0..2, verified' \in BOOLEAN
    PROVE  IInv'
<1>1. ASSUME NEW v \in Workers PROVE Good(wk'[v].ctx, granted') /\ WorkerOK(wk'[v])
  <2>1. Good(wk[v].ctx, granted) /\ WorkerOK(wk[v]) BY DEF IInv
  <2>2. Good(wk[v].ctx, granted') BY <2>1, GoodMonotone
  <2> QED BY <2>1, <2>2
<1>2. TypeOK' BY DEF TypeOK, Good, IInv
<1> QED BY <1>1, <1>2 DEF IInv

\* The context create_plan persists is good, and so is a worker that waits.
LEMMA CreatedGood == ASSUME NEW G PROVE Good(CreatedContext, G)
<1>1. CreatedContext \in TaskContext
  BY PlanAssumption DEF CreatedContext, TaskContext, PlanStatus, StepStatus, PausedReason, Verdict
<1> QED BY <1>1, PlanAssumption DEF Good, DepsOK, GrantOK, WaitOK, WaitsForConsent, CreatedContext, Ran

\* The idle worker's copy is the created context, in which nothing ran.
LEMMA IdleWorkerOK ==
    /\ IdleWorker \in Worker /\ WorkerOK(IdleWorker) /\ IdleWorker.ctx = CreatedContext
<1>1. CreatedContext \in TaskContext BY CreatedGood DEF Good
<1>2. CreatedContext.step_status \in [Steps -> StepStatus] BY <1>1 DEF TaskContext
<1> QED BY <1>1, <1>2 DEF IdleWorker, Worker, WorkerOK, Control, Modes

\* A worker that starts its loop on a good context is a good worker.
LEMMA AtLoopOK ==
    ASSUME NEW c \in TaskContext, NEW m \in Modes
    PROVE  AtLoop(m, c) \in Worker /\ WorkerOK(AtLoop(m, c)) /\ AtLoop(m, c).ctx = c
<1>1. IdleWorker \in Worker BY IdleWorkerOK
<1> DEFINE q == (get_ready_steps(c) = {})
<1>2. q \in BOOLEAN OBVIOUS
<1>3. AtLoop(m, c) = [IdleWorker EXCEPT !.pc = "loop", !.mode = m, !.ctx = c, !.dry = q]
  BY DEF AtLoop
<1> HIDE DEF q
<1> QED BY <1>1, <1>2, <1>3 DEF Worker, WorkerOK, Control

\* More counts to two.
LEMMA MoreType == ASSUME NEW n PROVE More(n) \in 0..2
BY DEF More

\* What run_until_blocked makes of a context without ready steps is a context.
LEMMA OutcomeType ==
    ASSUME NEW x, NEW y, outcomes \in 0..2, verified \in BOOLEAN, RecordOutcome(x, y)
    PROVE  outcomes' \in 0..2 /\ verified' \in BOOLEAN
<1>1. CASE outcomes' = More(outcomes) /\ verified' = (verified \/ AllGreen(y))
  <2>1. outcomes' \in 0..2 BY <1>1, MoreType
  <2>2. verified' \in BOOLEAN BY <1>1, Zenon
  <2> QED BY <2>1, <2>2
<1>2. CASE UNCHANGED <<outcomes, verified>> BY <1>2
<1> QED BY <1>1, <1>2 DEF RecordOutcome

\* A worker that returns to its loop or to its caller stays a good worker.
LEMMA LoopAgainOK ==
    ASSUME NEW G, NEW c, Good(c, G), NEW w
    PROVE  /\ LoopAgain(w, c) \in Worker /\ WorkerOK(LoopAgain(w, c))
           /\ Good(LoopAgain(w, c).ctx, G)
<1>1. c \in TaskContext BY DEF Good
<1>2. CASE LoopAgain(w, c) = AtLoop("stream", c)
  BY <1>1, <1>2, AtLoopOK DEF Modes
<1>3. CASE LoopAgain(w, c) = IdleWorker
  BY <1>3, IdleWorkerOK, CreatedGood
<1> QED BY <1>2, <1>3 DEF LoopAgain

\* The engine leaves its loop with context c, or looks for the next step in it.
LEMMA ToPostKeeps ==
    ASSUME IInv, NEW w \in Workers, NEW c, Good(c, granted), ToPost(w, c),
           c.status = "failed" /\ c.paused_step_id # NoStep =>
               c.step_status[c.paused_step_id] = "failed",
           stage' \in [1..NStages -> StageState], UNCHANGED <<store, requests, history>>
    PROVE  IInv'
<1> DEFINE r == [wk[w] EXCEPT !.pc = "post", !.ctx = c, !.cur = NoStep, !.tries = 0]
<1>1. c \in TaskContext BY DEF Good
<1>2. wk[w] \in Worker BY DEF IInv, TypeOK
<1>3. r \in Worker /\ r.ctx = c /\ r.pc = "post" BY <1>1, <1>2 DEF Worker, Control
<1>4. Go(w, r) BY DEF ToPost
<1> HIDE DEF r
<1>5. WorkerOK(r) BY <1>3 DEF WorkerOK
<1>6. /\ granted' = granted /\ store' = store /\ granted \subseteq Steps /\ Good(store, granted)
      /\ requests' \in [Steps -> RequestState] /\ announced' \in [Steps -> 0..2]
      /\ outcomes' \in 0..2 /\ verified' \in BOOLEAN
  BY DEF IInv, TypeOK, history
<1> QED BY <1>3, <1>4, <1>5, <1>6, WorkerMoves

\* Going back to the scheduler with a good context keeps the invariant.
LEMMA ToSchedKeeps ==
    ASSUME IInv, NEW w \in Workers, NEW c, Good(c, granted), ToSched(w, c),
           c.paused_step_id = NoStep, c.status = "running", Good(store', granted),
           stage' \in [1..NStages -> StageState], UNCHANGED <<requests, history>>
    PROVE  IInv'
<1> DEFINE r == [wk[w] EXCEPT !.pc = "sched", !.ctx = c, !.cur = NoStep, !.tries = 0]
<1>1. c \in TaskContext BY DEF Good
<1>2. wk[w] \in Worker BY DEF IInv, TypeOK
<1>3. r \in Worker /\ r.ctx = c /\ r.pc = "sched" BY <1>1, <1>2 DEF Worker, Control
<1>4. Go(w, r) BY DEF ToSched
<1> HIDE DEF r
<1>5. WorkerOK(r) BY <1>3 DEF WorkerOK
<1>6. /\ granted' = granted /\ granted \subseteq Steps
      /\ requests' \in [Steps -> RequestState] /\ announced' \in [Steps -> 0..2]
      /\ outcomes' \in 0..2 /\ verified' \in BOOLEAN
  BY DEF IInv, TypeOK, history
<1> QED BY <1>3, <1>4, <1>5, <1>6, WorkerMoves

\* A worker that takes up a good context, or lays its own down.
LEMMA TakesUp ==
    ASSUME IInv, NEW w \in Workers, NEW r \in Worker, Go(w, r), WorkerOK(r),
           Good(r.ctx, granted), Good(store', granted),
           UNCHANGED <<requests, stage, granted, announced>>,
           outcomes' \in 0..2, verified' \in BOOLEAN
    PROVE  IInv'
<1>1. /\ granted' = granted /\ granted \subseteq Steps
      /\ requests' \in [Steps -> RequestState] /\ announced' \in [Steps -> 0..2]
      /\ stage' \in [1..NStages -> StageState]
  BY DEF IInv, TypeOK
<1> QED BY <1>1, WorkerMoves

-----------------------------------------------------------------------------
(* Entry points.                                                           *)

\* execute_turn_stream copies the good snapshot.
LEMMA StreamStartKeeps ==
    ASSUME IInv, NEW w \in Workers, StreamStart(w) PROVE IInv'
<1>1. Good(store, granted) /\ store \in TaskContext BY DEF IInv, Good
<1>2. /\ AtLoop("stream", store) \in Worker /\ WorkerOK(AtLoop("stream", store))
      /\ AtLoop("stream", store).ctx = store
  BY <1>1, AtLoopOK DEF Modes
<1>3. outcomes' \in 0..2 /\ verified' \in BOOLEAN BY DEF IInv, TypeOK, StreamStart, history
<1> QED BY <1>1, <1>2, <1>3, TakesUp DEF StreamStart, history

\* One IdleThink iteration, or a manual execution, copies the good snapshot.
LEMMA OnceKeeps ==
    ASSUME IInv, NEW w \in Workers, IdleExecute(w) \/ ManualExecute(w) PROVE IInv'
<1>1. Good(store, granted) /\ store \in TaskContext BY DEF IInv, Good
<1>2. /\ AtLoop("once", store) \in Worker /\ WorkerOK(AtLoop("once", store))
      /\ AtLoop("once", store).ctx = store
  BY <1>1, AtLoopOK DEF Modes
<1>3. outcomes' \in 0..2 /\ verified' \in BOOLEAN BY DEF IInv, TypeOK, IdleExecute, ManualExecute, history
<1> QED BY <1>1, <1>2, <1>3, TakesUp DEF IdleExecute, ManualExecute, history

\* The decided consent readies the paused step, which becomes granted in the
\* same step, or cancels it.
LEMMA StreamResumeKeeps ==
    ASSUME IInv, NEW w \in Workers, StreamResume(w) PROVE IInv'
<1> DEFINE p == store.paused_step_id
           r == get_step_consent_request(store, p)
           g == GrantConsent(store)
           c == [g EXCEPT !.status = "running"]
           H == granted \cup {p}
<1>1. /\ Good(store, granted) /\ store \in TaskContext /\ WaitsForConsent(store)
      /\ p \in Steps /\ granted \subseteq Steps
  BY DEF IInv, Good, StreamResume, TypeOK, TaskContext, WaitsForConsent
<1>2. Good(g, H) BY <1>1, GrantConsentGood
<1>3. /\ requests' \in [Steps -> RequestState] /\ announced' \in [Steps -> 0..2]
      /\ stage' \in [1..NStages -> StageState] /\ outcomes' \in 0..2 /\ verified' \in BOOLEAN
  BY DEF IInv, TypeOK, StreamResume
<1>4. CASE requests[r] = "allowed"
  <2>1. store' = c /\ Go(w, AtLoop("stream", c)) /\ granted' = H
    BY <1>4 DEF StreamResume
  <2> HIDE DEF g, H
  <2>2. Good(c, H)
    <3>1. g \in TaskContext BY <1>2 DEF Good
    <3>2. /\ c \in TaskContext /\ c.step_status = g.step_status
          /\ c.paused_step_id = g.paused_step_id /\ c.paused_reason = g.paused_reason
      BY <3>1 DEF TaskContext, PlanStatus
    <3> QED BY <1>2, <3>2, SameStatuses
  <2> HIDE DEF c
  <2>3. c \in TaskContext BY <2>2 DEF Good
  <2>4. AtLoop("stream", c) \in Worker /\ WorkerOK(AtLoop("stream", c)) /\ AtLoop("stream", c).ctx = c
    BY <2>3, AtLoopOK DEF Modes
  <2>5. granted \subseteq H /\ H \subseteq Steps BY <1>1 DEF H
  <2> QED BY <1>3, <2>1, <2>2, <2>4, <2>5, WorkerMoves
<1>5. CASE requests[r] # "allowed"
  <2>1. store' = DenyConsent(store) /\ UNCHANGED <<wk, granted>>
    BY <1>5 DEF StreamResume
  <2>2. Good(DenyConsent(store), granted) BY <1>1, DenyConsentGood
  <2> QED BY <1>1, <1>3, <2>1, <2>2, StoreMoves
<1> QED BY <1>4, <1>5

\* A worker of _run that starts on context c.
LEMMA RunStart ==
    ASSUME NEW G, NEW c, Good(c, G)
    PROVE  LET r == [IdleWorker EXCEPT !.pc = "sched", !.mode = "run", !.ctx = EngineStart(c)]
           IN  r \in Worker /\ WorkerOK(r) /\ Good(r.ctx, G)
<1> DEFINE e == EngineStart(c)
           r == [IdleWorker EXCEPT !.pc = "sched", !.mode = "run", !.ctx = e]
<1>1. Good(e, G) /\ e.paused_step_id = NoStep /\ e.status = "running" BY EngineStartGood
<1>2. e \in TaskContext BY <1>1 DEF Good
<1>3. IdleWorker \in Worker BY IdleWorkerOK
<1> HIDE DEF e
<1>4. r \in Worker /\ r.ctx = e /\ r.pc = "sched"
  BY <1>2, <1>3 DEF Worker, Control, Modes
<1>5. WorkerOK(r) BY <1>1, <1>4 DEF WorkerOK
<1> QED BY <1>1, <1>4, <1>5 DEF e

\* resume() grants or refuses the paused step, or leaves it, and enters the
\* engine.
LEMMA ResumeKeeps ==
    ASSUME IInv, NEW w \in Workers, NEW a, Resume(w, a) PROVE IInv'
<1> DEFINE p == store.paused_step_id
           waits == store.status = "paused" /\ WaitsForConsent(store)
           q == get_step_consent_request(store, p)
           kept == IF waits /\ q # NoStep THEN set_step_consent_request(store, p, q) ELSE store
<1>1. /\ Good(store, granted) /\ store \in TaskContext /\ granted \subseteq Steps
      /\ outcomes \in 0..2 /\ verified \in BOOLEAN
  BY DEF IInv, Good, TypeOK
<1>2. waits => p \in Steps BY <1>1 DEF TaskContext, WaitsForConsent
<1>3. /\ requests' \in [Steps -> RequestState] /\ announced' \in [Steps -> 0..2]
      /\ stage' \in [1..NStages -> StageState]
  BY DEF IInv, TypeOK, Resume
<1>4. /\ Good(kept, granted)
      /\ waits => WaitsForConsent(kept) /\ kept.paused_step_id = p
  <2>1. CASE waits /\ q # NoStep
    <3>1. q \in Steps \cup {NoStep} BY <1>1, <1>2, <2>1, RequestType
    <3> DEFINE x == set_step_consent_request(store, p, q)
    <3>2. Good(x, granted) /\ x.paused_step_id = p /\ x.paused_reason = store.paused_reason
      BY <1>1, <1>2, <2>1, <3>1, SetRequestGood
    <3>3. kept = x BY <2>1
    <3> QED BY <2>1, <3>2, <3>3 DEF WaitsForConsent
  <2>2. CASE ~(waits /\ q # NoStep) BY <1>1, <2>2
  <2> QED BY <2>1, <2>2
<1>5. CASE waits /\ a = "no"
  <2> DEFINE d == DenyConsent(kept)
             c == apply_sample_terminal_feedback(d)
  <2>1. store' = c /\ RecordOutcome(store, c) /\ UNCHANGED <<wk, granted>>
    BY <1>5 DEF Resume
  <2> HIDE DEF kept
  <2>2. Good(d, granted) BY <1>4, <1>5, DenyConsentGood
  <2> HIDE DEF d
  <2>3. Good(c, granted) BY <2>2, FeedbackGood
  <2> HIDE DEF c
  <2>4. outcomes' \in 0..2 /\ verified' \in BOOLEAN BY <1>1, <2>1, OutcomeType
  <2> QED BY <1>1, <1>3, <2>1, <2>3, <2>4, StoreMoves
<1>6. CASE ~(waits /\ a = "no")
  <2> DEFINE grants == waits /\ a = "yes"
             c == IF grants THEN GrantConsent(kept) ELSE kept
             H == IF grants THEN granted \cup {p} ELSE granted
             r == [IdleWorker EXCEPT !.pc = "sched", !.mode = "run", !.ctx = EngineStart(c)]
  <2>1. store' = c /\ granted' = H /\ Go(w, r) /\ UNCHANGED <<outcomes, verified>>
    BY <1>6 DEF Resume
  <2> HIDE DEF kept
  <2>2. Good(c, H) /\ granted \subseteq H /\ H \subseteq Steps
    <3>1. CASE grants
      BY <1>1, <1>2, <1>4, <3>1, GrantConsentGood
    <3>2. CASE ~grants BY <1>1, <1>4, <3>2
    <3> QED BY <3>1, <3>2
  <2> HIDE DEF c, H
  <2>3. r \in Worker /\ WorkerOK(r) /\ Good(r.ctx, H) BY <2>2, RunStart
  <2>4. outcomes' \in 0..2 /\ verified' \in BOOLEAN BY <1>1, <2>1
  <2> HIDE DEF r
  <2> QED BY <1>3, <2>1, <2>2, <2>3, <2>4, WorkerMoves
<1> QED BY <1>5, <1>6

-----------------------------------------------------------------------------
(* execute_next.                                                           *)

\* Returning to the caller keeps the invariant.
LEMMA StopKeeps ==
    ASSUME IInv, NEW w \in Workers, Stop(w), Good(store', granted),
           UNCHANGED <<requests, stage, history>>
    PROVE  IInv'
<1>1. outcomes' \in 0..2 /\ verified' \in BOOLEAN BY DEF IInv, TypeOK, history
<1> QED BY <1>1, IdleWorkerOK, CreatedGood, TakesUp DEF Stop, history

\* The early returns of execute_next save the context with its verdict and
\* feedback.
LEMMA ReturnEarlyKeeps ==
    ASSUME IInv, NEW w \in Workers, ReturnEarly(w) PROVE IInv'
<1> DEFINE c == wk[w].ctx
           v == IF FailsForGood(c) THEN finalize_plan_status(c) ELSE c
           f == apply_sample_terminal_feedback(v)
<1>1. /\ Good(c, granted) /\ Good(store, granted)
      /\ outcomes \in 0..2 /\ verified \in BOOLEAN
  BY DEF IInv, TypeOK
<1>2. /\ store' = f \/ store' = store
      /\ RecordOutcome(c, f) /\ Go(w, LoopAgain(w, f))
      /\ UNCHANGED <<requests, stage, granted, announced>>
  BY DEF ReturnEarly
<1>3. Good(v, granted) BY <1>1, FinalizeGood
<1> HIDE DEF v
<1>4. Good(f, granted) BY <1>3, FeedbackGood
<1> HIDE DEF c, f
<1>5. /\ LoopAgain(w, f) \in Worker /\ WorkerOK(LoopAgain(w, f))
      /\ Good(LoopAgain(w, f).ctx, granted)
  BY <1>4, LoopAgainOK
<1>6. outcomes' \in 0..2 /\ verified' \in BOOLEAN BY <1>1, <1>2, OutcomeType
<1>7. Good(store', granted) BY <1>1, <1>2, <1>4
<1> QED BY <1>2, <1>5, <1>6, <1>7, TakesUp

\* Setting a failed plan running again leaves its steps alone.
LEMMA RevivedGood ==
    ASSUME NEW G, NEW c, Good(c, G) PROVE Good(Revived(c), G)
<1>1. c \in TaskContext BY DEF Good
<1>2. CASE c.status # "failed" BY <1>2 DEF Revived
<1>3. CASE c.status = "failed"
  <2> DEFINE d == [c EXCEPT !.status = "running"]
  <2>1. /\ d \in TaskContext /\ d.step_status = c.step_status
        /\ d.paused_step_id = c.paused_step_id /\ d.paused_reason = c.paused_reason
    BY <1>1 DEF TaskContext, PlanStatus
  <2>2. Good(d, G) BY <2>1, SameStatuses
  <2> QED BY <1>3, <2>2 DEF Revived
<1> QED BY <1>2, <1>3

\* The hard gate blocks a step that has not run.
LEMMA GateGood ==
    ASSUME NEW G, NEW c, Good(c, G), get_ready_steps(c) # {}
    PROVE  Good(check_hard_gate(c), G)
<1> DEFINE s == FirstOf(get_ready_steps(c))
           e == SetStatus(c, {s}, "blocked")
           d == check_hard_gate(c)
<1>1. c \in TaskContext BY DEF Good
<1>2. s \in Steps /\ c.step_status[s] \in {"pending", "ready"} BY ReadyStep
<1>3. d = [e EXCEPT !.status = "paused", !.paused_reason = "hard_gate_blocked", !.paused_step_id = s]
  BY DEF check_hard_gate
<1> HIDE DEF s, d
<1>4. /\ e \in TaskContext
      /\ \A t \in Steps : e.step_status[t] = IF t = s THEN "blocked" ELSE c.step_status[t]
  BY <1>1, SetStatusLemma DEF StepStatus
<1> HIDE DEF e
<1>5. /\ d \in TaskContext /\ d.paused_reason = "hard_gate_blocked"
      /\ d.step_status = e.step_status
  BY <1>2, <1>3, <1>4 DEF TaskContext, PlanStatus, PausedReason
<1>6. WaitOK(d) BY <1>5 DEF WaitOK, WaitsForConsent
<1>7. Good(d, G)
  BY <1>2, <1>4, <1>5, <1>6, SafeChange DEF Ran, Sat, DEPENDENCY_SATISFIED_STATUSES
<1> QED BY <1>7 DEF d

\* The hard gate blocks a step that has not run.
LEMMA BecomeGatedKeeps ==
    ASSUME IInv, NEW w \in Workers, BecomeGated(w) PROVE IInv'
<1>1. Good(Revived(wk[w].ctx), granted) BY RevivedGood DEF IInv
<1>2. Good(check_hard_gate(Revived(wk[w].ctx)), granted)
  BY <1>1, GateGood DEF BecomeGated, gate_blocked
<1> QED BY <1>2, StopKeeps DEF BecomeGated

\* Entering the engine changes the plan's status only.
LEMMA EnterEngineKeeps ==
    ASSUME IInv, NEW w \in Workers, EnterEngine(w) PROVE IInv'
<1> DEFINE c == Revived(wk[w].ctx)
           e == EngineStart(c)
           st == c.step_status
           r == [wk[w] EXCEPT !.pc = "sched", !.ctx = e, !.prev = st]
<1>1. Good(c, granted) /\ wk[w] \in Worker /\ Good(store, granted)
  BY RevivedGood DEF IInv, TypeOK
<1>2. Go(w, r) /\ UNCHANGED <<store, requests, stage, history>> BY DEF EnterEngine
<1>3. st \in [Steps -> StepStatus] BY <1>1 DEF Good, TaskContext
<1> HIDE DEF c
<1>4. Good(e, granted) /\ e.paused_step_id = NoStep /\ e.status = "running"
  BY <1>1, EngineStartGood
<1>5. e \in TaskContext BY <1>4 DEF Good
<1> HIDE DEF e, st
<1>6. r \in Worker /\ r.ctx = e /\ r.pc = "sched" BY <1>1, <1>3, <1>5 DEF Worker, Control
<1> HIDE DEF r
<1>7. WorkerOK(r) BY <1>4, <1>6 DEF WorkerOK
<1>8. outcomes' \in 0..2 /\ verified' \in BOOLEAN BY <1>2 DEF IInv, TypeOK, history
<1> QED BY <1>1, <1>2, <1>4, <1>6, <1>7, <1>8, TakesUp DEF history

-----------------------------------------------------------------------------
(* run_until_blocked.                                                      *)

\* What a worker in the engine knows of its context.
LEMMA InEngine ==
    ASSUME IInv, NEW w \in Workers
    PROVE  /\ wk[w] \in Worker /\ Good(wk[w].ctx, granted) /\ Good(store, granted)
           /\ wk[w].ctx \in TaskContext
           /\ wk[w].pc \in {"sched", "exec"} =>
                  wk[w].ctx.paused_step_id = NoStep /\ wk[w].ctx.status = "running"
           /\ wk[w].pc = "exec" =>
                  wk[w].cur \in Steps /\ wk[w].ctx.step_status[wk[w].cur] = "running"
BY DEF IInv, TypeOK, WorkerOK, Good

\* A stage table that does not change keeps its type.
LEMMA StageSame ==
    ASSUME IInv, UNCHANGED stage PROVE stage' \in [1..NStages -> StageState]
BY DEF IInv, TypeOK

\* start_stage keeps the type of the stage table.
LEMMA StartStageType ==
    ASSUME IInv, NEW w, NEW s \in Steps, start_stage(w, s)
    PROVE  stage' \in [1..NStages -> StageState]
BY PlanAssumption DEF IInv, TypeOK, start_stage, Tracked, StageState

\* complete_stage and fail_stage keep the type of the stage table.
LEMMA FinishStageType ==
    ASSUME IInv, NEW w, NEW s \in Steps, NEW x \in StageState, finish_stage(w, s, x)
    PROVE  stage' \in [1..NStages -> StageState]
BY PlanAssumption DEF IInv, TypeOK, finish_stage, Tracked

\* Without ready steps the engine blocks only steps that have not run.
LEMMA NothingReadyKeeps ==
    ASSUME IInv, NEW w \in Workers, NothingReady(w) PROVE IInv'
<1> DEFINE c == wk[w].ctx
           d == Outcome(c)
<1>1. /\ Good(c, granted) /\ c \in TaskContext /\ c.paused_step_id = NoStep
      /\ ToPost(w, d) /\ UNCHANGED <<store, requests, stage, history>>
  BY InEngine DEF NothingReady, Scheduling
<1> HIDE DEF c
<1>2. Good(d, granted) /\ d.paused_step_id = NoStep
  <2>1. CASE d = [c EXCEPT !.status = "done"]
    <3>1. d \in TaskContext /\ d.step_status = c.step_status /\ d.paused_step_id = NoStep
      BY <1>1, <2>1 DEF TaskContext, PlanStatus
    <3> QED BY <1>1, <3>1, SameStatuses
  <2>2. CASE d = [propagate_failure(c, StepsWith(c, DEPENDENCY_FAILED_STATUSES)) EXCEPT !.status = "failed"]
    <3> DEFINE e == propagate_failure(c, StepsWith(c, DEPENDENCY_FAILED_STATUSES))
    <3>1. Good(e, granted) /\ e.paused_step_id = NoStep BY <1>1, PropagateFailureGood
    <3>2. d = [e EXCEPT !.status = "failed"] BY <2>2
    <3>3. e \in TaskContext BY <3>1 DEF Good
    <3> HIDE DEF e, d
    <3>4. d \in TaskContext /\ d.step_status = e.step_status /\ d.paused_step_id = NoStep
      BY <3>1, <3>2, <3>3 DEF TaskContext, PlanStatus
    <3> QED BY <3>1, <3>4, SameStatuses
  <2>3. CASE d = [c EXCEPT !.status = "paused", !.paused_reason = "waiting_dependencies"]
    <3>1. d \in TaskContext /\ d.step_status = c.step_status /\ d.paused_step_id = NoStep
      BY <1>1, <2>3 DEF TaskContext, PlanStatus, PausedReason
    <3> QED BY <1>1, <3>1, SameStatuses
  <2> QED BY <2>1, <2>2, <2>3 DEF Outcome
<1>3. stage' \in [1..NStages -> StageState] BY <1>1, StageSame
<1> HIDE DEF d
<1> QED BY <1>1, <1>2, <1>3, ToPostKeeps

\* The step that is asked for is blocked, and it had not run.
LEMMA AskConsentKeeps ==
    ASSUME IInv, NEW w \in Workers, AskConsent(w) PROVE IInv'
<1> DEFINE c == wk[w].ctx
           s == FirstOf(get_ready_steps(c))
           e == SetStatus(c, {s}, "blocked")
           d == [e EXCEPT !.status = "paused", !.paused_reason = "waiting_consent",
                          !.paused_step_id = s]
<1>1. /\ Good(c, granted) /\ c \in TaskContext /\ get_ready_steps(c) # {}
      /\ ToPost(w, d) /\ UNCHANGED <<store, requests, stage, history>>
  BY InEngine DEF AskConsent, Scheduling
<1> HIDE DEF c
<1>2. s \in Steps /\ c.step_status[s] \in {"pending", "ready"} BY <1>1, ReadyStep
<1> HIDE DEF s
<1>3. /\ e \in TaskContext
      /\ \A t \in Steps : e.step_status[t] = IF t = s THEN "blocked" ELSE c.step_status[t]
  BY <1>1, SetStatusLemma DEF StepStatus
<1> HIDE DEF e
<1>4. /\ d \in TaskContext /\ d.step_status = e.step_status
      /\ d.paused_step_id = s /\ d.status = "paused"
  BY <1>2, <1>3 DEF TaskContext, PlanStatus, PausedReason
<1> HIDE DEF d
<1>5. WaitOK(d) BY <1>2, <1>3, <1>4 DEF WaitOK, Sat, DEPENDENCY_SATISFIED_STATUSES
<1>6. Good(d, granted)
  BY <1>1, <1>2, <1>3, <1>4, <1>5, SafeChange DEF Ran, Sat, DEPENDENCY_SATISFIED_STATUSES
<1>7. stage' \in [1..NStages -> StageState] BY <1>1, StageSame
<1> QED BY <1>1, <1>4, <1>6, <1>7, ToPostKeeps

\* A skipped step satisfies its successors, it takes nothing from anybody.
LEMMA SkipStepKeeps ==
    ASSUME IInv, NEW w \in Workers, SkipStep(w) PROVE IInv'
<1> DEFINE c == wk[w].ctx
           s == FirstOf(get_ready_steps(c))
           d == Settle(c, {s}, "skipped")
<1>1. /\ Good(c, granted) /\ c \in TaskContext /\ get_ready_steps(c) # {}
      /\ c.paused_step_id = NoStep /\ c.status = "running" /\ Good(store, granted)
      /\ ToSched(w, d) /\ UNCHANGED <<store, requests, stage, history>>
  BY InEngine DEF SkipStep, Scheduling
<1> HIDE DEF c
<1>2. s \in Steps /\ c.step_status[s] \in {"pending", "ready"} BY <1>1, ReadyStep
<1> HIDE DEF s
<1>3. /\ d \in TaskContext /\ d.paused_step_id = NoStep /\ d.status = "running"
      /\ \A t \in Steps : d.step_status[t] = IF t = s THEN "skipped" ELSE c.step_status[t]
  BY <1>1, <1>2, SettleLemma DEF StepStatus
<1> HIDE DEF d
<1>4. WaitOK(d) BY <1>3 DEF WaitOK, WaitsForConsent
<1>5. Good(d, granted)
  BY <1>1, <1>2, <1>3, <1>4, SafeChange DEF Ran, Sat, DEPENDENCY_SATISFIED_STATUSES
<1>6. stage' \in [1..NStages -> StageState] BY <1>1, StageSame
<1>7. Good(store', granted) BY <1>1
<1> QED BY <1>1, <1>3, <1>5, <1>6, <1>7, ToSchedKeeps

\* The step that starts to run is ready: its dependencies are satisfied and its
\* consent is granted.
LEMMA InvokeStepKeeps ==
    ASSUME IInv, NEW w \in Workers, InvokeStep(w) PROVE IInv'
<1> DEFINE c == wk[w].ctx
           s == FirstOf(get_ready_steps(c))
           d == SetStatus(c, {s}, "running")
           r == [wk[w] EXCEPT !.pc = "exec", !.ctx = d, !.cur = s, !.tries = 1]
<1>1. /\ Good(c, granted) /\ c \in TaskContext /\ get_ready_steps(c) # {}
      /\ c.paused_step_id = NoStep /\ c.status = "running" /\ Good(store, granted)
      /\ ~MustAsk(c, s) /\ wk[w] \in Worker
      /\ Go(w, r) /\ start_stage(w, s) /\ UNCHANGED <<store, requests, history>>
  BY InEngine DEF InvokeStep, Scheduling
<1> HIDE DEF c
<1>2. /\ s \in Steps /\ c.step_status[s] \in {"pending", "ready"}
      /\ \A u \in Deps[s] : c.step_status[u] \in Sat
  BY <1>1, ReadyStep
<1> HIDE DEF s
<1>3. /\ d \in TaskContext /\ d.paused_step_id = NoStep /\ d.status = "running"
      /\ \A t \in Steps : d.step_status[t] = IF t = s THEN "running" ELSE c.step_status[t]
  BY <1>1, <1>2, SetStatusLemma DEF StepStatus
<1> HIDE DEF d
<1>4. WaitOK(d) BY <1>3 DEF WaitOK, WaitsForConsent
<1>5. s \in Consent => s \in granted
  BY <1>1 DEF MustAsk, Good, GrantOK
<1>6. Good(d, granted)
  BY <1>1, <1>2, <1>3, <1>4, <1>5, RunGood DEF Ran, Sat, DEPENDENCY_SATISFIED_STATUSES
<1>7. r \in Worker /\ r.ctx = d /\ r.pc = "exec" /\ r.cur = s
  BY <1>1, <1>2, <1>3 DEF Worker, Control
<1> HIDE DEF r
<1>8. WorkerOK(r) BY <1>2, <1>3, <1>7 DEF WorkerOK
<1>9. stage' \in [1..NStages -> StageState] BY <1>1, <1>2, StartStageType
<1>10. /\ granted' = granted /\ store' = store /\ granted \subseteq Steps
       /\ requests' \in [Steps -> RequestState] /\ announced' \in [Steps -> 0..2]
       /\ outcomes' \in 0..2 /\ verified' \in BOOLEAN
  BY <1>1 DEF IInv, TypeOK, history
<1> QED BY <1>1, <1>6, <1>7, <1>8, <1>9, <1>10, WorkerMoves

\* The running step of a good context may be settled with any result.
LEMMA RunningMaySettle ==
    ASSUME NEW G, NEW c, Good(c, G), NEW s \in Steps, c.step_status[s] = "running"
    PROVE  /\ c.step_status[s] \notin Sat
           /\ \A u \in Deps[s] : c.step_status[u] \in Sat
           /\ s \in Consent => s \in G
BY DEF Good, DepsOK, GrantOK, Ran, Sat, DEPENDENCY_SATISFIED_STATUSES

\* Leaving an executed step keeps the invariant when the context is good.
LEMMA AfterStepKeeps ==
    ASSUME IInv, NEW w \in Workers, NEW d, Good(d, granted), AfterStep(w, d),
           d.status = "running", wk[w].mode = "run" => d.paused_step_id = NoStep,
           stage' \in [1..NStages -> StageState], UNCHANGED <<store, requests, history>>
    PROVE  IInv'
<1>1. CASE wk[w].mode = "run"
  <2>1. ToSched(w, d) BY <1>1 DEF AfterStep
  <2>2. Good(store', granted) BY DEF IInv
  <2> QED BY <1>1, <2>1, <2>2, ToSchedKeeps
<1>2. CASE wk[w].mode # "run" /\ all_steps_final(d)
  <2> DEFINE e == [d EXCEPT !.status = "done"]
  <2>1. ToPost(w, e) BY <1>2 DEF AfterStep
  <2>2. d \in TaskContext BY DEF Good
  <2>3. /\ e \in TaskContext /\ e.step_status = d.step_status /\ e.status = "done"
        /\ e.paused_step_id = d.paused_step_id /\ e.paused_reason = d.paused_reason
    BY <2>2 DEF TaskContext, PlanStatus
  <2> HIDE DEF e
  <2>4. Good(e, granted) BY <2>3, SameStatuses
  <2> QED BY <2>1, <2>3, <2>4, ToPostKeeps
<1>3. CASE wk[w].mode # "run" /\ ~all_steps_final(d)
  <2>1. ToPost(w, d) BY <1>3 DEF AfterStep
  <2> QED BY <2>1, ToPostKeeps
<1> QED BY <1>1, <1>2, <1>3

\* The running step becomes done.
LEMMA StepSucceedsKeeps ==
    ASSUME IInv, NEW w \in Workers, StepSucceeds(w) PROVE IInv'
<1> DEFINE c == wk[w].ctx
           s == wk[w].cur
           d == Settle(c, {s}, "done")
<1>1. /\ Good(c, granted) /\ c \in TaskContext /\ s \in Steps /\ c.step_status[s] = "running"
      /\ c.paused_step_id = NoStep /\ c.status = "running"
      /\ finish_stage(w, s, "completed") /\ AfterStep(w, d)
      /\ UNCHANGED <<store, requests, history>>
  BY InEngine DEF StepSucceeds
<1>2. stage' \in [1..NStages -> StageState] BY <1>1, FinishStageType DEF StageState
<1> HIDE DEF c, s
<1>3. /\ d \in TaskContext /\ d.paused_step_id = NoStep /\ d.status = "running"
      /\ \A t \in Steps : d.step_status[t] = IF t = s THEN "done" ELSE c.step_status[t]
  BY <1>1, SettleLemma DEF StepStatus
<1> HIDE DEF d
<1>4. WaitOK(d) BY <1>3 DEF WaitOK, WaitsForConsent
<1>5. /\ c.step_status[s] \notin Sat /\ \A u \in Deps[s] : c.step_status[u] \in Sat
      /\ s \in Consent => s \in granted
  BY <1>1, RunningMaySettle
<1>6. Good(d, granted) BY <1>1, <1>3, <1>4, <1>5, RunGood DEF Ran
<1> QED BY <1>1, <1>2, <1>3, <1>6, AfterStepKeeps

\* The context with the running step is saved as it is.
LEMMA QualityRetryKeeps ==
    ASSUME IInv, NEW w \in Workers, QualityRetry(w) PROVE IInv'
<1> DEFINE s == wk[w].cur
           Q == wk[w].ctx.quality_retried \cup {s}
           c == [wk[w].ctx EXCEPT !.quality_retried = Q]
           r == [wk[w] EXCEPT !.ctx = c]
<1>1. /\ Good(wk[w].ctx, granted) /\ wk[w].ctx \in TaskContext /\ wk[w] \in Worker
      /\ s \in Steps /\ wk[w].ctx.step_status[s] = "running" /\ wk[w].pc = "exec"
      /\ wk[w].ctx.paused_step_id = NoStep /\ wk[w].ctx.status = "running"
  BY InEngine DEF QualityRetry
<1>2. store' = c /\ Go(w, r) /\ UNCHANGED <<requests, stage, history>> BY DEF QualityRetry
<1>3. Q \subseteq Steps BY <1>1 DEF TaskContext
<1> HIDE DEF Q
<1>4. /\ c \in TaskContext /\ c.step_status = wk[w].ctx.step_status
      /\ c.paused_step_id = NoStep /\ c.status = "running"
  BY <1>1, <1>3 DEF TaskContext
<1> HIDE DEF c
<1>5. Good(c, granted) BY <1>1, <1>4, SameStatuses
<1>6. r \in Worker /\ r.ctx = c /\ r.pc = "exec" /\ r.cur = s BY <1>1, <1>4 DEF Worker
<1> HIDE DEF r
<1>7. WorkerOK(r) BY <1>1, <1>4, <1>6 DEF WorkerOK
<1>8. outcomes' \in 0..2 /\ verified' \in BOOLEAN BY <1>2 DEF IInv, TypeOK, history
<1> QED BY <1>2, <1>5, <1>6, <1>7, <1>8, TakesUp DEF history

\* Another attempt changes the counter and the stage table only.
LEMMA RetryStepKeeps ==
    ASSUME IInv, NEW w \in Workers, RetryStep(w) PROVE IInv'
<1> DEFINE n == wk[w].tries + 1
           r == [wk[w] EXCEPT !.tries = n]
<1>1. /\ Good(wk[w].ctx, granted) /\ wk[w] \in Worker /\ wk[w].cur \in Steps
      /\ WorkerOK(wk[w]) /\ Good(store, granted)
  BY InEngine DEF RetryStep, IInv
<1>2. Go(w, r) /\ finish_stage(w, wk[w].cur, "failed") /\ UNCHANGED <<store, requests, history>>
  BY DEF RetryStep
<1>3. n \in Nat BY <1>1 DEF Worker
<1> HIDE DEF n
<1>4. r \in Worker /\ r.ctx = wk[w].ctx /\ r.pc = wk[w].pc /\ r.cur = wk[w].cur
  BY <1>1, <1>3 DEF Worker
<1> HIDE DEF r
<1>5. WorkerOK(r) BY <1>1, <1>4 DEF WorkerOK
<1>6. stage' \in [1..NStages -> StageState] BY <1>1, <1>2, FinishStageType DEF StageState
<1>7. /\ granted' = granted /\ store' = store /\ granted \subseteq Steps
      /\ requests' \in [Steps -> RequestState] /\ announced' \in [Steps -> 0..2]
      /\ outcomes' \in 0..2 /\ verified' \in BOOLEAN
  BY <1>2 DEF IInv, TypeOK, history
<1> QED BY <1>1, <1>2, <1>4, <1>5, <1>6, <1>7, WorkerMoves

\* What a failure makes of a good context.
LEMMA FailedContextGood ==
    ASSUME NEW G, NEW c, Good(c, G), NEW s \in Steps, c.step_status[s] = "running",
           c.paused_step_id = NoStep, c.status = "running", NEW x
    PROVE  LET d == FailedContext(c, s, x)
           IN  /\ Good(d, G)
               /\ d.paused_step_id = NoStep \/ d.paused_step_id = s
               /\ s \in Degradable \/ s \notin FailFast => d.status = "running"
               /\ x # "rejected" /\ (s \in Degradable \/ s \notin FailFast) =>
                      d.paused_step_id = NoStep
               /\ s \notin Degradable => d.step_status[s] = "failed"
<1> DEFINE v == IF x = "rejected"
                THEN [c EXCEPT !.paused_reason = "post_verification_failed", !.paused_step_id = s]
                ELSE c
           y == IF s \in Degradable THEN "degraded" ELSE "failed"
           e == Settle(v, {s}, y)
           d == FailedContext(c, s, x)
<1>1. c \in TaskContext BY DEF Good
<1>2. /\ v \in TaskContext /\ v.step_status = c.step_status /\ v.status = "running"
      /\ x # "rejected" => v.paused_step_id = NoStep
      /\ x = "rejected" => v.paused_step_id = s /\ v.paused_reason = "post_verification_failed"
  BY <1>1 DEF TaskContext, PausedReason
<1>3. d = IF s \in Degradable \/ s \notin FailFast THEN e
          ELSE [e EXCEPT !.status = "failed", !.paused_step_id = s]
  BY DEF FailedContext
<1>4. y \in StepStatus /\ y \in Ran BY DEF StepStatus, Ran
<1> HIDE DEF v, d
<1>5. /\ e \in TaskContext /\ e.status = "running"
      /\ e.paused_step_id = v.paused_step_id /\ e.paused_reason = v.paused_reason
      /\ \A t \in Steps : e.step_status[t] = IF t = s THEN y ELSE c.step_status[t]
  BY <1>2, <1>4, SettleLemma
<1> HIDE DEF e
<1>6. /\ d \in TaskContext /\ d.step_status = e.step_status
      /\ d.paused_reason = e.paused_reason
      /\ s \in Degradable \/ s \notin FailFast => d = e
      /\ ~(s \in Degradable \/ s \notin FailFast) => d.paused_step_id = s
  BY <1>3, <1>5 DEF TaskContext, PlanStatus
<1>7. WaitOK(d)
  <2>1. CASE s \in Degradable \/ s \notin FailFast
    BY <1>2, <1>5, <1>6, <2>1 DEF WaitOK, WaitsForConsent
  <2>2. CASE ~(s \in Degradable \/ s \notin FailFast)
    BY <1>5, <1>6, <2>2 DEF WaitOK, Sat, DEPENDENCY_SATISFIED_STATUSES
  <2> QED BY <2>1, <2>2
<1>8. /\ c.step_status[s] \notin Sat /\ \A u \in Deps[s] : c.step_status[u] \in Sat
      /\ s \in Consent => s \in G
  BY RunningMaySettle
<1>9. Good(d, G)
  <2> HIDE DEF y
  <2> QED BY <1>4, <1>5, <1>6, <1>7, <1>8, RunGood
<1> QED BY <1>2, <1>5, <1>6, <1>9 DEF d

\* The running step becomes degraded or failed.
LEMMA StepFailsKeeps ==
    ASSUME IInv, NEW w \in Workers, NEW x \in Causes, StepFails(w, x) PROVE IInv'
<1> DEFINE c == wk[w].ctx
           s == wk[w].cur
           d == FailedContext(c, s, x)
<1>1. /\ Good(c, granted) /\ s \in Steps /\ c.step_status[s] = "running"
      /\ c.paused_step_id = NoStep /\ c.status = "running" /\ Good(store, granted)
  BY InEngine DEF StepFails
<1>2. /\ IF s \in Degradable THEN AfterStep(w, d)
         ELSE IF s \notin FailFast /\ wk[w].mode = "run" THEN ToSched(w, d)
         ELSE ToPost(w, d)
      /\ UNCHANGED <<store, requests, history>>
      /\ UNCHANGED stage \/ finish_stage(w, s, "failed")
      /\ wk[w].mode = "run" => x # "rejected"
  BY DEF StepFails, Tracked
<1>3. stage' \in [1..NStages -> StageState]
  BY <1>1, <1>2, StageSame, FinishStageType DEF StageState
<1> HIDE DEF c, s
<1>4. /\ Good(d, granted)
      /\ d.paused_step_id = NoStep \/ d.paused_step_id = s
      /\ s \in Degradable \/ s \notin FailFast => d.status = "running"
      /\ x # "rejected" /\ (s \in Degradable \/ s \notin FailFast) => d.paused_step_id = NoStep
      /\ s \notin Degradable => d.step_status[s] = "failed"
  BY <1>1, FailedContextGood
<1> HIDE DEF d
<1>5. CASE s \in Degradable
  BY <1>2, <1>3, <1>4, <1>5, AfterStepKeeps
<1>6. CASE s \notin Degradable /\ s \notin FailFast /\ wk[w].mode = "run"
  <2>1. Good(store', granted) BY <1>1, <1>2
  <2> QED BY <1>2, <1>3, <1>4, <1>6, <2>1, ToSchedKeeps
<1>7. CASE s \notin Degradable /\ ~(s \notin FailFast /\ wk[w].mode = "run")
  BY <1>2, <1>3, <1>4, <1>7, ToPostKeeps
<1> QED BY <1>5, <1>6, <1>7

-----------------------------------------------------------------------------
(* After the engine returns.                                               *)

\* The fallback makes the failed step pending; no step that ran depends on a
\* failed one.
LEMMA FallBackKeeps ==
    ASSUME IInv, NEW w \in Workers, FallBack(w) PROVE IInv'
<1> DEFINE c == [advance(wk[w].ctx) EXCEPT !.status = "running"]
           e == EngineStart(c)
<1>1. /\ Good(wk[w].ctx, granted)
      /\ wk[w].ctx.paused_step_id # NoStep =>
            wk[w].ctx.step_status[wk[w].ctx.paused_step_id] = "failed"
  BY DEF IInv, WorkerOK, FallBack, FallsBack
<1>2. store' = c /\ ToSched(w, e) /\ UNCHANGED <<requests, stage, history>> BY DEF FallBack
<1>3. Good(c, granted) BY <1>1, AdvanceGood
<1> HIDE DEF c
<1>4. Good(e, granted) /\ e.paused_step_id = NoStep /\ e.status = "running"
  BY <1>3, EngineStartGood
<1> HIDE DEF e
<1>5. stage' \in [1..NStages -> StageState] BY <1>2, StageSame
<1> QED BY <1>2, <1>3, <1>4, <1>5, ToSchedKeeps

\* Whatever execute_next or _run makes of the engine's result is good.
LEMMA EngineResultsGood ==
    ASSUME IInv, NEW w \in Workers, NEW r \in EngineResults(w)
    PROVE  Good(r, granted)
<1> DEFINE c == wk[w].ctx
<1>1. Good(c, granted) /\ c \in TaskContext BY InEngine
<1>2. CASE wk[w].mode = "run"
  <2> DEFINE f == IF ~CanFinalize(c) /\ c.status = "failed"
                  THEN [c EXCEPT !.status = "running"] ELSE finalize_plan_status(c)
  <2>1. r = apply_sample_terminal_feedback(f) BY <1>2 DEF EngineResults, RunResult
  <2> HIDE DEF c
  <2>2. Good(f, granted)
    <3>1. CASE ~CanFinalize(c) /\ c.status = "failed"
      <4> DEFINE d == [c EXCEPT !.status = "running"]
      <4>1. /\ d \in TaskContext /\ d.step_status = c.step_status
            /\ d.paused_step_id = c.paused_step_id /\ d.paused_reason = c.paused_reason
        BY <1>1 DEF TaskContext, PlanStatus
      <4>2. Good(d, granted) BY <1>1, <4>1, SameStatuses
      <4> QED BY <3>1, <4>2
    <3>2. CASE ~(~CanFinalize(c) /\ c.status = "failed") BY <1>1, <3>2, FinalizeGood
    <3> QED BY <3>1, <3>2
  <2> HIDE DEF f
  <2> QED BY <2>1, <2>2, FeedbackGood
<1>3. CASE wk[w].mode # "run"
  <2> DEFINE d == propagate_failure(c, StepsWith(c, {"failed"}))
  <2>1. PICK U \in SUBSET Steps :
            /\ Unblocks(w, U)
            /\ r = apply_sample_terminal_feedback(finalize_plan_status(propagate_unblock(d, U)))
    BY <1>3 DEF EngineResults, NextResult
  <2>2. \A t \in U : d.step_status[t] = "blocked"
    <3>1. CASE NewlyDone(w) = {} BY <1>3, <2>1, <3>1 DEF Unblocks
    <3>2. CASE NewlyDone(w) # {}
      <4>1. IsUnblockedBy(d, FirstOf(NewlyDone(w)), U) BY <1>3, <2>1, <3>2 DEF Unblocks
      <4> HIDE DEF d
      <4> QED BY <4>1 DEF IsUnblockedBy
    <3> QED BY <3>1, <3>2
  <2> HIDE DEF c
  <2>3. Good(d, granted) BY <1>1, PropagateFailureGood
  <2> HIDE DEF d
  <2>4. Good(propagate_unblock(d, U), granted) BY <2>2, <2>3, PropagateUnblockGood
  <2>5. Good(finalize_plan_status(propagate_unblock(d, U)), granted) BY <2>4, FinalizeGood
  <2> QED BY <2>1, <2>5, FeedbackGood
<1> QED BY <1>2, <1>3

\* What the engine returned is blocked, unblocked, judged and saved: no step
\* starts and no satisfied step reverts.
LEMMA FinishRunKeeps ==
    ASSUME IInv, NEW w \in Workers, FinishRun(w) PROVE IInv'
<1>1. PICK r \in EngineResults(w) :
        LET p == prepare_consent_pause(r)
            c == collect_step_events(p)
        IN  /\ requests' = IF NeedsNewRequest(r)
                           THEN [requests EXCEPT ![r.paused_step_id] = "pending"] ELSE requests
            /\ store' = c
            /\ RecordOutcome(wk[w].ctx, c)
            /\ Go(w, [wk[w] EXCEPT !.pc = "publish", !.ctx = c,
                         !.pub = UnpublishedSteps(p) \cap StepsWith(p, {"done"})])
  BY DEF FinishRun
<1> DEFINE p == prepare_consent_pause(r)
           c == collect_step_events(p)
           B == UnpublishedSteps(p) \cap StepsWith(p, {"done"})
           q == [wk[w] EXCEPT !.pc = "publish", !.ctx = c, !.pub = B]
<1>2. Good(r, granted) BY EngineResultsGood
<1>3. store' = c /\ RecordOutcome(wk[w].ctx, c) /\ Go(w, q) BY <1>1
<1>4. requests' \in [Steps -> RequestState]
  <2>1. requests \in [Steps -> RequestState] BY DEF IInv, TypeOK
  <2> QED BY <1>1, <2>1 DEF RequestState
<1>5. B \subseteq Steps BY DEF StepsWith
<1>6. Good(p, granted) BY <1>2, PrepareConsentGood
<1> HIDE DEF p, B
<1>7. Good(c, granted) BY <1>6, CollectGood
<1>8. c \in TaskContext /\ wk[w] \in Worker BY <1>7, InEngine DEF Good
<1> HIDE DEF c
<1>9. q \in Worker /\ q.ctx = c /\ q.pc = "publish" BY <1>5, <1>8 DEF Worker, Control
<1> HIDE DEF q
<1>10. WorkerOK(q) BY <1>9 DEF WorkerOK
<1>11. /\ granted' = granted /\ granted \subseteq Steps
       /\ announced' \in [Steps -> 0..2] /\ stage' \in [1..NStages -> StageState]
       /\ outcomes \in 0..2 /\ verified \in BOOLEAN
  BY DEF IInv, TypeOK, FinishRun
<1>12. outcomes' \in 0..2 /\ verified' \in BOOLEAN BY <1>3, <1>11, OutcomeType
<1> QED BY <1>3, <1>4, <1>7, <1>9, <1>10, <1>11, <1>12, WorkerMoves

\* Publishing changes the event counters and the worker's place.
LEMMA PublishEventsKeeps ==
    ASSUME IInv, NEW w \in Workers, PublishEvents(w) PROVE IInv'
<1> DEFINE r == LoopAgain(w, wk[w].ctx)
<1>1. Good(wk[w].ctx, granted) BY DEF IInv
<1>2. r \in Worker /\ WorkerOK(r) /\ Good(r.ctx, granted) BY <1>1, LoopAgainOK
<1>3. Go(w, r) BY DEF PublishEvents
<1> HIDE DEF r
<1>4. announced' \in [Steps -> 0..2]
  <2>1. announced \in [Steps -> 0..2] BY DEF IInv, TypeOK
  <2>2. \A s \in Steps : More(announced[s]) \in 0..2 BY MoreType
  <2> QED BY <2>1, <2>2 DEF PublishEvents
<1>5. /\ granted' = granted /\ store' = store /\ granted \subseteq Steps /\ Good(store, granted)
      /\ requests' \in [Steps -> RequestState] /\ stage' \in [1..NStages -> StageState]
      /\ outcomes' \in 0..2 /\ verified' \in BOOLEAN
  BY DEF IInv, TypeOK, PublishEvents
<1> QED BY <1>2, <1>3, <1>4, <1>5, WorkerMoves

-----------------------------------------------------------------------------
(* Endpoints.                                                              *)

\* A new snapshot, nothing else.
LEMMA SnapshotChanges ==
    ASSUME IInv, Good(store', granted), UNCHANGED <<wk, requests, stage, granted, announced>>,
           outcomes' \in 0..2, verified' \in BOOLEAN
    PROVE  IInv'
<1>1. /\ granted' = granted /\ granted \subseteq Steps
      /\ requests' \in [Steps -> RequestState] /\ announced' \in [Steps -> 0..2]
      /\ stage' \in [1..NStages -> StageState]
  BY DEF IInv, TypeOK
<1> QED BY <1>1, StoreMoves

\* pause() leaves the steps alone.
LEMMA PauseKeeps ==
    ASSUME IInv, NEW reason \in {"user_input", "manual_pause"}, pause(reason) PROVE IInv'
<1>1. Good(store, granted) /\ store \in TaskContext /\ outcomes \in 0..2 /\ verified \in BOOLEAN
  BY DEF IInv, Good, TypeOK
<1>2. store' \in TaskContext /\ store'.step_status = store.step_status /\ store'.paused_step_id = NoStep
  BY <1>1 DEF pause, TaskContext, PlanStatus, PausedReason
<1>3. Good(store', granted) BY <1>1, <1>2, SameStatuses
<1> QED BY <1>1, <1>3, SnapshotChanges DEF pause, history

\* The resume endpoint leaves the steps alone.
LEMMA ResumePlanKeeps == ASSUME IInv, resume_plan PROVE IInv'
<1>1. Good(store, granted) /\ outcomes \in 0..2 /\ verified \in BOOLEAN BY DEF IInv, TypeOK
<1>2. Good(store', granted) BY <1>1, EngineStartGood DEF resume_plan
<1> QED BY <1>1, <1>2, SnapshotChanges DEF resume_plan, history

\* cancel() cancels only steps that are not final, on which no executed step
\* depends.
LEMMA CancelKeeps == ASSUME IInv, cancel PROVE IInv'
<1> DEFINE open == {s \in Steps : store.step_status[s] \notin FINAL_STEP_STATUSES}
           e == Settle(store, open, "cancelled")
           d == [e EXCEPT !.status = "cancelled"]
           c == apply_sample_terminal_feedback(d)
<1>1. Good(store, granted) /\ store \in TaskContext /\ outcomes \in 0..2 /\ verified \in BOOLEAN
  BY DEF IInv, Good, TypeOK
<1>2. store' = c /\ RecordOutcome(store, c) /\ UNCHANGED <<wk, requests, stage, granted, announced>>
  BY DEF cancel
<1>3. open \subseteq Steps /\ \A s \in open : store.step_status[s] \notin Sat
  BY DEF Sat, DEPENDENCY_SATISFIED_STATUSES, FINAL_STEP_STATUSES
<1> HIDE DEF open
<1>4. /\ e \in TaskContext
      /\ e.paused_step_id = store.paused_step_id /\ e.paused_reason = store.paused_reason
      /\ \A s \in Steps : e.step_status[s] = IF s \in open THEN "cancelled" ELSE store.step_status[s]
  BY <1>1, <1>3, SettleLemma DEF StepStatus
<1> HIDE DEF e
<1>5. /\ d \in TaskContext /\ d.step_status = e.step_status
      /\ d.paused_step_id = store.paused_step_id /\ d.paused_reason = store.paused_reason
  BY <1>4 DEF TaskContext, PlanStatus
<1> HIDE DEF d
<1>6. WaitOK(d)
  BY <1>1, <1>4, <1>5 DEF Good, WaitOK, WaitsForConsent, TaskContext, Sat, DEPENDENCY_SATISFIED_STATUSES
<1>7. Good(d, granted) BY <1>1, <1>3, <1>4, <1>5, <1>6, SafeChange DEF Ran
<1>8. Good(c, granted) BY <1>7, FeedbackGood
<1> HIDE DEF c
<1>9. outcomes' \in 0..2 /\ verified' \in BOOLEAN BY <1>1, <1>2, OutcomeType
<1> QED BY <1>2, <1>8, <1>9, SnapshotChanges

\* The retried step was failed, so no step that ran depends on it.
LEMMA RetryFailedKeeps ==
    ASSUME IInv, NEW s \in Steps, retry_failed_step(s) PROVE IInv'
<1> DEFINE e == SetStatus(store, {s}, "pending")
           P == store.processed_steps \ {s}
           E == store.published_step_events \ {s}
           Q == store.quality_retried \ {s}
           x == IF store.paused_step_id = s THEN "none" ELSE e.paused_reason
           y == IF store.paused_step_id = s THEN NoStep ELSE e.paused_step_id
<1>1. Good(store, granted) /\ store \in TaskContext /\ outcomes \in 0..2 /\ verified \in BOOLEAN
  BY DEF IInv, Good, TypeOK
<1>2. /\ store' = [e EXCEPT !.processed_steps = P, !.published_step_events = E,
                            !.quality_retried = Q, !.paused_reason = x, !.paused_step_id = y,
                            !.status = "running", !.plan_status = "none"]
      /\ store.step_status[s] = "failed" /\ UNCHANGED <<wk, requests, stage, history>>
  BY DEF retry_failed_step, CanRetry, VerdictAfterRetry
<1>3. P \subseteq Steps /\ E \subseteq Steps /\ Q \subseteq Steps
  BY <1>1 DEF TaskContext
<1>4. /\ e \in TaskContext
      /\ e.paused_step_id = store.paused_step_id /\ e.paused_reason = store.paused_reason
      /\ \A t \in Steps : e.step_status[t] = IF t = s THEN "pending" ELSE store.step_status[t]
  BY <1>1, SetStatusLemma DEF StepStatus
<1> HIDE DEF e
<1>5. x \in PausedReason /\ y \in Steps \cup {NoStep}
  BY <1>4 DEF TaskContext, PausedReason
<1>6. \/ y = NoStep
      \/ y = store.paused_step_id /\ x = store.paused_reason
  BY <1>4
<1> HIDE DEF P, E, Q, x, y
<1>7. /\ store' \in TaskContext /\ store'.step_status = e.step_status
      /\ store'.paused_step_id = y /\ store'.paused_reason = x
  BY <1>2, <1>3, <1>4, <1>5 DEF TaskContext, PlanStatus, Verdict
<1>8. WaitOK(store')
  BY <1>1, <1>4, <1>6, <1>7
     DEF Good, WaitOK, WaitsForConsent, TaskContext, Sat, DEPENDENCY_SATISFIED_STATUSES
<1>9. Good(store', granted)
  <2>1. store.step_status[s] = "failed" BY <1>2
  <2>2. \A t \in Steps : store'.step_status[t] = IF t = s THEN "pending" ELSE store.step_status[t]
    BY <1>4, <1>7
  <2>3. store' \in TaskContext BY <1>7
  <2> QED BY <1>1, <1>8, <2>1, <2>2, <2>3, SafeChange DEF Ran, Sat, DEPENDENCY_SATISFIED_STATUSES
<1> QED BY <1>1, <1>2, <1>9, SnapshotChanges DEF history

\* A decision changes the gateway's table only.
LEMMA DecideKeeps ==
    ASSUME IInv, NEW r \in Steps, NEW allowed \in BOOLEAN, decide(r, allowed) PROVE IInv'
<1>1. requests' \in [Steps -> RequestState]
  BY DEF IInv, TypeOK, decide, RequestState
<1>2. /\ granted' = granted /\ store' = store /\ granted \subseteq Steps /\ Good(store, granted)
      /\ announced' \in [Steps -> 0..2] /\ stage' \in [1..NStages -> StageState]
      /\ outcomes' \in 0..2 /\ verified' \in BOOLEAN
  BY DEF IInv, TypeOK, decide, history
<1> QED BY <1>1, <1>2, StoreMoves DEF decide

\* A restart leaves the good snapshot and idle workers.
LEMMA RestartKeeps == ASSUME IInv, Restart PROVE IInv'
<1>1. \A w \in Workers : Good(wk'[w].ctx, granted) /\ WorkerOK(wk'[w])
  BY IdleWorkerOK, CreatedGood DEF Restart
<1>2. wk' \in [Workers -> Worker] /\ requests' \in [Steps -> RequestState]
  BY IdleWorkerOK DEF Restart, RequestState
<1> QED BY <1>1, <1>2 DEF Restart, history, IInv, TypeOK

-----------------------------------------------------------------------------
(* The theorems.                                                           *)

\* Every step of a worker inside the engine keeps the invariant.
LEMMA EngineKeeps == ASSUME IInv, NEW w \in Workers, Engine(w) PROVE IInv'
<1>1. CASE StreamEnd(w)
  <2>1. Good(store', granted) BY <1>1 DEF StreamEnd, IInv
  <2> QED BY <1>1, <2>1, StopKeeps DEF StreamEnd
<1>2. CASE StayGated(w)
  <2>1. Good(store', granted) BY <1>2 DEF StayGated, IInv
  <2> QED BY <1>2, <2>1, StopKeeps DEF StayGated
<1>3. CASE \E x \in Causes : StepFails(w, x) BY <1>3, StepFailsKeeps
<1> QED
  BY <1>1, <1>2, <1>3, ReturnEarlyKeeps, BecomeGatedKeeps, EnterEngineKeeps, NothingReadyKeeps,
     AskConsentKeeps, SkipStepKeeps, InvokeStepKeeps, StepSucceedsKeeps, QualityRetryKeeps,
     RetryStepKeeps, FallBackKeeps, FinishRunKeeps, PublishEventsKeeps
  DEF Engine

\* Every call into the engine keeps the invariant.
LEMMA CallKeeps == ASSUME IInv, NEW w \in Workers, Call(w) PROVE IInv'
BY StreamStartKeeps, StreamResumeKeeps, OnceKeeps, ResumeKeeps DEF Call

\* Every endpoint keeps the invariant.
LEMMA EndpointKeeps == ASSUME IInv, Endpoint PROVE IInv'
BY PauseKeeps, ResumePlanKeeps, CancelKeeps, RetryFailedKeeps, DecideKeeps DEF Endpoint

\* The inductive invariant: every copy of the context, in the store and in every
\* worker, keeps dependencies satisfied below what ran, runs only what was allowed
\* and waits at an unsatisfied step.
THEOREM Invariance == Spec => []IInv
<1>1. Init => IInv
  <2> SUFFICES ASSUME Init PROVE IInv OBVIOUS
  <2>1. Good(store, granted) BY CreatedGood DEF Init
  <2>2. \A w \in Workers : Good(wk[w].ctx, granted) /\ WorkerOK(wk[w])
    BY IdleWorkerOK, CreatedGood DEF Init
  <2>3. store \in TaskContext BY <2>1 DEF Good
  <2>4. wk \in [Workers -> Worker] BY IdleWorkerOK DEF Init
  <2>5. TypeOK
    <3>1. requests \in [Steps -> RequestState] BY DEF Init, RequestState
    <3>2. stage \in [1..NStages -> StageState] BY DEF Init, StageState
    <3>3. announced \in [Steps -> 0..2] /\ outcomes \in 0..2 BY DEF Init
    <3>4. verified \in BOOLEAN /\ granted \subseteq Steps BY Zenon DEF Init
    <3> QED BY <2>3, <2>4, <3>1, <3>2, <3>3, <3>4 DEF TypeOK
  <2> QED BY <2>1, <2>2, <2>5 DEF IInv
<1>2. IInv /\ [Next]_vars => IInv'
  <2> SUFFICES ASSUME IInv, [Next]_vars PROVE IInv' OBVIOUS
  <2>1. CASE Next
    BY <2>1, EngineKeeps, CallKeeps, EndpointKeeps, RestartKeeps DEF Next
  <2>2. CASE UNCHANGED vars
    BY <2>2 DEF vars, IInv, TypeOK
  <2> QED BY <2>1, <2>2
<1> QED BY <1>1, <1>2, PTL DEF Spec

\* Every reachable state is well typed: the nine step statuses, the paused reasons
\* and the counters stay within what plan_snapshot.py can write and read back.
THEOREM TypeCorrect == Spec => []TypeOK
<1>1. IInv => TypeOK BY DEF IInv
<1> QED BY <1>1, Invariance, PTL

\* For every plan and any number of concurrent workers, a step that ran in some
\* copy of the context has all its dependencies satisfied in that copy.
THEOREM DependenciesHold == Spec => []RunsAfterDependencies
<1>1. IInv => RunsAfterDependencies
  <2> SUFFICES ASSUME IInv, NEW c \in Contexts, NEW s \in Steps, c.step_status[s] \in Ran,
                      NEW d \in Deps[s]
               PROVE  c.step_status[d] \in DEPENDENCY_SATISFIED_STATUSES
    BY DEF RunsAfterDependencies, StepsWith, Ran
  <2>1. DepsOK(c) BY DEF IInv, Contexts, Good
  <2> QED BY <2>1 DEF DepsOK, Sat
<1> QED BY <1>1, Invariance, PTL

\* For every plan and any number of concurrent workers, a step that needs consent
\* is ready, running or finished only after its execution was allowed.
THEOREM ConsentHolds == Spec => []RunsOnlyGranted
<1>1. IInv => RunsOnlyGranted
  <2> SUFFICES ASSUME IInv, NEW c \in Contexts, NEW s \in Consent,
                      c.step_status[s] \in {"ready", "running", "done", "degraded", "failed"}
               PROVE  s \in granted
    BY DEF RunsOnlyGranted
  <2>1. GrantOK(c, granted) BY DEF IInv, Contexts, Good
  <2> QED BY <2>1 DEF GrantOK, Ran
<1> QED BY <1>1, Invariance, PTL

-----------------------------------------------------------------------------
(* What the operators on contexts leave alone.                             *)

\* The same verdict, published events, feedback flag and consent requests.
Marks(c, d) ==
    /\ d.plan_status = c.plan_status /\ d.feedback_applied = c.feedback_applied
    /\ d.published_step_events = c.published_step_events
    /\ d.step_consent_requests = c.step_consent_requests

Paused(c, d) ==
    /\ d.status = c.status /\ d.paused_reason = c.paused_reason
    /\ d.paused_step_id = c.paused_step_id

\* SetStatus writes the statuses of S and nothing else.
LEMMA SetStatusFields ==
    ASSUME NEW c \in TaskContext, NEW S, NEW x \in StepStatus
    PROVE  LET d == SetStatus(c, S, x)
           IN  /\ d \in TaskContext /\ Marks(c, d) /\ Paused(c, d)
               /\ d.processed_steps = c.processed_steps
               /\ \A s \in Steps : d.step_status[s] = IF s \in S THEN x ELSE c.step_status[s]
BY DEF SetStatus, TaskContext, Marks, Paused

\* Settle writes the statuses of S and marks them processed.
LEMMA SettleFields ==
    ASSUME NEW c \in TaskContext, NEW S, S \subseteq Steps, NEW x \in StepStatus
    PROVE  LET d == Settle(c, S, x)
           IN  /\ d \in TaskContext /\ Marks(c, d) /\ Paused(c, d)
               /\ d.processed_steps = c.processed_steps \cup S
               /\ \A s \in Steps : d.step_status[s] = IF s \in S THEN x ELSE c.step_status[s]
<1> DEFINE e == SetStatus(c, S, x)
           P == c.processed_steps \cup S
           d == [e EXCEPT !.processed_steps = P]
<1>1. /\ e \in TaskContext /\ Marks(c, e) /\ Paused(c, e)
      /\ \A s \in Steps : e.step_status[s] = IF s \in S THEN x ELSE c.step_status[s]
  BY SetStatusFields
<1>2. P \subseteq Steps BY DEF TaskContext
<1>3. Settle(c, S, x) = d BY DEF Settle
<1> HIDE DEF e, P
<1>4. /\ d \in TaskContext /\ d.step_status = e.step_status /\ Marks(e, d) /\ Paused(e, d)
      /\ d.processed_steps = P
  BY <1>1, <1>2 DEF TaskContext, Marks, Paused
<1> HIDE DEF d
<1> QED BY <1>1, <1>3, <1>4 DEF Marks, Paused, P

\* run_until_blocked begins with a running plan and no pause.
LEMMA EngineStartFields ==
    ASSUME NEW c \in TaskContext
    PROVE  LET d == EngineStart(c)
           IN  /\ d \in TaskContext /\ Marks(c, d) /\ d.step_status = c.step_status
               /\ d.processed_steps = c.processed_steps
               /\ d.status = "running" /\ d.paused_reason = "none" /\ d.paused_step_id = NoStep
BY DEF EngineStart, TaskContext, PlanStatus, PausedReason, Marks

\* A status that is written over another.
LEMMA StatusFields ==
    ASSUME NEW c \in TaskContext, NEW x \in PlanStatus
    PROVE  LET d == [c EXCEPT !.status = x]
           IN  /\ d \in TaskContext /\ Marks(c, d) /\ d.step_status = c.step_status
               /\ d.processed_steps = c.processed_steps
               /\ d.status = x /\ d.paused_reason = c.paused_reason
               /\ d.paused_step_id = c.paused_step_id
BY DEF TaskContext, Marks

\* A pause is written over another.
LEMMA PauseFields ==
    ASSUME NEW c \in TaskContext, NEW x \in PlanStatus, NEW y \in PausedReason,
           NEW z \in Steps \cup {NoStep}
    PROVE  LET d == [c EXCEPT !.status = x, !.paused_reason = y, !.paused_step_id = z]
           IN  /\ d \in TaskContext /\ Marks(c, d) /\ d.step_status = c.step_status
               /\ d.processed_steps = c.processed_steps
               /\ d.status = x /\ d.paused_reason = y /\ d.paused_step_id = z
BY DEF TaskContext, Marks

\* The first step of a set comes before the others.
LEMMA FirstOfIsFirst ==
    ASSUME NEW S, S \subseteq Steps, S # {}
    PROVE  FirstOf(S) \in S /\ \A t \in S : Pos[FirstOf(S)] <= Pos[t]
<1>1. {Pos[s] : s \in S} \subseteq Nat /\ {Pos[s] : s \in S} # {}
  BY PlanAssumption
<1>2. \E x \in {Pos[s] : s \in S} : \A y \in {Pos[s] : s \in S} : x <= y
  BY <1>1, NatMinimum
<1>3. \E s \in S : \A t \in S : Pos[s] <= Pos[t]
  BY <1>2
<1>4. QED BY <1>3 DEF FirstOf

\* The step the engine picks is ready and comes first.
LEMMA PickedStep ==
    ASSUME NEW c, get_ready_steps(c) # {}
    PROVE  LET s == FirstOf(get_ready_steps(c))
           IN  /\ s \in get_ready_steps(c) /\ s \in Steps
               /\ c.step_status[s] \in {"pending", "ready"}
               /\ \A t \in get_ready_steps(c) : Pos[s] <= Pos[t]
<1>1. get_ready_steps(c) \subseteq Steps BY DEF get_ready_steps
<1>2. /\ FirstOf(get_ready_steps(c)) \in get_ready_steps(c)
      /\ \A t \in get_ready_steps(c) : Pos[FirstOf(get_ready_steps(c))] <= Pos[t]
  BY <1>1, FirstOfIsFirst
<1>3. c.step_status[FirstOf(get_ready_steps(c))] \in {"pending", "ready"}
  BY <1>2 DEF get_ready_steps
<1> QED BY <1>1, <1>2, <1>3

\* propagate_failure blocks waiting steps downstream of F.
LEMMA PropagateFailureFields ==
    ASSUME NEW c \in TaskContext, NEW F
    PROVE  LET d == propagate_failure(c, F)
           IN  /\ d \in TaskContext /\ Marks(c, d) /\ Paused(c, d)
               /\ c.processed_steps \subseteq d.processed_steps
               /\ \A s \in Steps :
                     \/ d.step_status[s] = c.step_status[s]
                     \/ /\ c.step_status[s] \in {"pending", "ready"} /\ d.step_status[s] = "blocked"
                        /\ \E f \in F : s \in Downstream(f)
<1> DEFINE B == {t \in StepsWith(c, {"pending", "ready"}) : \E f \in F : t \in Downstream(f)}
<1>1. /\ B \subseteq Steps
      /\ \A s \in B : c.step_status[s] \in {"pending", "ready"} /\ \E f \in F : s \in Downstream(f)
  BY DEF StepsWith
<1>2. propagate_failure(c, F) = Settle(c, B, "blocked") BY DEF propagate_failure
<1> HIDE DEF B
<1> QED BY <1>1, <1>2, SettleFields DEF StepStatus

\* propagate_unblock makes the steps of U pending and forgets their events.
LEMMA PropagateUnblockFields ==
    ASSUME NEW c \in TaskContext, NEW U, U \subseteq Steps
    PROVE  LET d == propagate_unblock(c, U)
           IN  /\ d \in TaskContext /\ Paused(c, d)
               /\ d.plan_status = c.plan_status /\ d.feedback_applied = c.feedback_applied
               /\ d.step_consent_requests = c.step_consent_requests
               /\ d.published_step_events = c.published_step_events \ U
               /\ d.processed_steps = c.processed_steps \ U
               /\ \A s \in Steps : d.step_status[s] = IF s \in U THEN "pending" ELSE c.step_status[s]
<1> DEFINE e == SetStatus(c, U, "pending")
           P == c.processed_steps \ U
           E == c.published_step_events \ U
           d == [e EXCEPT !.processed_steps = P, !.published_step_events = E]
<1>1. /\ e \in TaskContext /\ Marks(c, e) /\ Paused(c, e)
      /\ \A s \in Steps : e.step_status[s] = IF s \in U THEN "pending" ELSE c.step_status[s]
  BY SetStatusFields DEF StepStatus
<1>2. P \subseteq Steps /\ E \subseteq Steps BY DEF TaskContext
<1>3. propagate_unblock(c, U) = d BY DEF propagate_unblock
<1> HIDE DEF e, P, E
<1>4. /\ d \in TaskContext /\ d.step_status = e.step_status /\ Paused(e, d)
      /\ d.plan_status = e.plan_status /\ d.feedback_applied = e.feedback_applied
      /\ d.step_consent_requests = e.step_consent_requests
      /\ d.processed_steps = P /\ d.published_step_events = E
  BY <1>1, <1>2 DEF TaskContext, Paused
<1> HIDE DEF d
<1> QED BY <1>1, <1>3, <1>4 DEF Marks, Paused, P, E

\* A verdict comes with its status; nothing else changes.
LEMMA FinalizeFields ==
    ASSUME NEW c \in TaskContext
    PROVE  LET d == finalize_plan_status(c)
           IN  /\ d \in TaskContext /\ d.step_status = c.step_status
               /\ d.processed_steps = c.processed_steps
               /\ d.published_step_events = c.published_step_events
               /\ d.step_consent_requests = c.step_consent_requests
               /\ d.feedback_applied = c.feedback_applied
               /\ d.paused_reason = c.paused_reason /\ d.paused_step_id = c.paused_step_id
               /\ ~CanFinalize(c) => d = c
               /\ CanFinalize(c) => /\ d.plan_status = evaluate_plan_status(c)
                                    /\ d.status = IF d.plan_status = "completed" THEN "done" ELSE "failed"
<1>1. CASE ~CanFinalize(c) BY <1>1 DEF finalize_plan_status
<1>2. CASE CanFinalize(c)
  <2> DEFINE v == evaluate_plan_status(c)
             x == IF v = "completed" THEN "done" ELSE "failed"
             d == [c EXCEPT !.plan_status = v, !.status = x]
  <2>1. finalize_plan_status(c) = d BY <1>2 DEF finalize_plan_status
  <2>2. v \in Verdict BY <1>2 DEF CanFinalize, evaluate_plan_status, Verdict
  <2>3. x \in PlanStatus BY DEF PlanStatus
  <2>4. x = IF v = "completed" THEN "done" ELSE "failed" OBVIOUS
  <2>5. v = evaluate_plan_status(c) OBVIOUS
  <2> HIDE DEF v, x
  <2>6. /\ d \in TaskContext /\ d.step_status = c.step_status
        /\ d.processed_steps = c.processed_steps
        /\ d.published_step_events = c.published_step_events
        /\ d.step_consent_requests = c.step_consent_requests
        /\ d.feedback_applied = c.feedback_applied
        /\ d.paused_reason = c.paused_reason /\ d.paused_step_id = c.paused_step_id
        /\ d.plan_status = v /\ d.status = x
    BY <2>2, <2>3 DEF TaskContext
  <2> HIDE DEF d
  <2> QED BY <1>2, <2>1, <2>4, <2>5, <2>6
<1> QED BY <1>1, <1>2

\* Feedback sets its flag, on a terminal plan.
LEMMA FeedbackFields ==
    ASSUME NEW c \in TaskContext
    PROVE  LET d == apply_sample_terminal_feedback(c)
           IN  /\ d \in TaskContext /\ d.step_status = c.step_status /\ Paused(c, d)
               /\ d.processed_steps = c.processed_steps
               /\ d.published_step_events = c.published_step_events
               /\ d.step_consent_requests = c.step_consent_requests
               /\ d.plan_status = c.plan_status
               /\ d.quality_retried = c.quality_retried
               /\ c.feedback_applied => d.feedback_applied
               /\ d.feedback_applied # c.feedback_applied => is_terminal(c)
<1>1. CASE apply_sample_terminal_feedback(c) = c BY <1>1 DEF Paused
<1>2. CASE apply_sample_terminal_feedback(c) = [c EXCEPT !.feedback_applied = TRUE] /\ is_terminal(c)
  BY <1>2 DEF TaskContext, Paused
<1> QED BY <1>1, <1>2 DEF apply_sample_terminal_feedback

\* Storing a consent request touches the request table only.
LEMMA RequestFields ==
    ASSUME NEW c \in TaskContext, NEW s \in Steps, NEW r \in Steps \cup {NoStep}
    PROVE  LET d == set_step_consent_request(c, s, r)
           IN  /\ d \in TaskContext /\ d.step_status = c.step_status /\ Paused(c, d)
               /\ d.processed_steps = c.processed_steps
               /\ d.published_step_events = c.published_step_events
               /\ d.plan_status = c.plan_status /\ d.feedback_applied = c.feedback_applied
               /\ d.step_consent_requests[s] = r
BY DEF set_step_consent_request, TaskContext, Paused

\* Registering a request pauses the plan that waits for it.
LEMMA PrepareFields ==
    ASSUME NEW c \in TaskContext
    PROVE  LET d == prepare_consent_pause(c)
           IN  /\ d \in TaskContext /\ d.step_status = c.step_status
               /\ d.processed_steps = c.processed_steps
               /\ d.published_step_events = c.published_step_events
               /\ d.plan_status = c.plan_status /\ d.feedback_applied = c.feedback_applied
               /\ d.paused_reason = c.paused_reason /\ d.paused_step_id = c.paused_step_id
               /\ ~WaitsForConsent(c) => d = c
               /\ WaitsForConsent(c) =>
                      d.status = "paused" /\ d.step_consent_requests[d.paused_step_id] # NoStep
<1>2. CASE ~WaitsForConsent(c) BY <1>2 DEF prepare_consent_pause
<1>3. CASE WaitsForConsent(c)
  <2> DEFINE s == c.paused_step_id
             r == IF NeedsNewRequest(c) THEN s ELSE get_step_consent_request(c, s)
             e == set_step_consent_request(c, s, r)
             d == [e EXCEPT !.status = "paused"]
  <2>1. s \in Steps BY <1>3 DEF WaitsForConsent, TaskContext
  <2>2. r \in Steps \cup {NoStep} BY <2>1, RequestType
  <2>3. r # NoStep BY <1>3, <2>1, PlanAssumption DEF NeedsNewRequest
  <2>4. prepare_consent_pause(c) = d BY <1>3 DEF prepare_consent_pause
  <2>5. s = c.paused_step_id OBVIOUS
  <2> HIDE DEF s, r
  <2>6. /\ e \in TaskContext /\ e.step_status = c.step_status /\ Paused(c, e)
        /\ e.processed_steps = c.processed_steps
        /\ e.published_step_events = c.published_step_events
        /\ e.plan_status = c.plan_status /\ e.feedback_applied = c.feedback_applied
        /\ e.step_consent_requests[s] = r
    BY <2>1, <2>2, RequestFields
  <2> HIDE DEF e
  <2>7. /\ d \in TaskContext /\ Marks(e, d) /\ d.step_status = e.step_status
        /\ d.processed_steps = e.processed_steps
        /\ d.status = "paused" /\ d.paused_reason = e.paused_reason
        /\ d.paused_step_id = e.paused_step_id
    BY <2>6, StatusFields DEF PlanStatus
  <2> HIDE DEF d
  <2> QED BY <1>3, <2>3, <2>4, <2>5, <2>6, <2>7 DEF Marks, Paused
<1> QED BY <1>2, <1>3

\* Collecting the events adds the unpublished steps to the published ones.
LEMMA CollectFields ==
    ASSUME NEW c \in TaskContext
    PROVE  LET d == collect_step_events(c)
           IN  /\ d \in TaskContext /\ d.step_status = c.step_status /\ Paused(c, d)
               /\ d.processed_steps = c.processed_steps
               /\ d.plan_status = c.plan_status /\ d.feedback_applied = c.feedback_applied
               /\ d.step_consent_requests = c.step_consent_requests
               /\ d.quality_retried = c.quality_retried
               /\ d.published_step_events = c.published_step_events \cup UnpublishedSteps(c)
<1> DEFINE P == c.published_step_events \cup UnpublishedSteps(c)
<1>1. P \subseteq Steps BY DEF UnpublishedSteps, TaskContext
<1>2. collect_step_events(c) = [c EXCEPT !.published_step_events = P] BY DEF collect_step_events
<1>3. P = c.published_step_events \cup UnpublishedSteps(c) OBVIOUS
<1> HIDE DEF P
<1> QED BY <1>1, <1>2, <1>3 DEF TaskContext, Paused

\* A grant makes the paused step ready and ends the pause.
LEMMA GrantFields ==
    ASSUME NEW c \in TaskContext, WaitsForConsent(c)
    PROVE  LET d == GrantConsent(c)
           IN  /\ d \in TaskContext /\ Marks(c, d) /\ d.processed_steps = c.processed_steps
               /\ d.status = c.status /\ d.paused_reason = "none" /\ d.paused_step_id = NoStep
               /\ \A s \in Steps : d.step_status[s] =
                      IF s = c.paused_step_id THEN "ready" ELSE c.step_status[s]
<1> DEFINE p == c.paused_step_id
           e == SetStatus(c, {p}, "ready")
           d == [e EXCEPT !.paused_reason = "none", !.paused_step_id = NoStep]
<1>1. /\ e \in TaskContext /\ Marks(c, e) /\ Paused(c, e) /\ e.processed_steps = c.processed_steps
      /\ \A s \in Steps : e.step_status[s] = IF s = p THEN "ready" ELSE c.step_status[s]
  BY SetStatusFields DEF StepStatus
<1>2. GrantConsent(c) = d BY DEF GrantConsent
<1> HIDE DEF e
<1>3. /\ d \in TaskContext /\ Marks(e, d) /\ d.processed_steps = e.processed_steps
      /\ d.status = e.status /\ d.paused_reason = "none" /\ d.paused_step_id = NoStep
      /\ d.step_status = e.step_status
  BY <1>1 DEF TaskContext, PausedReason, Marks
<1> HIDE DEF d
<1> QED BY <1>1, <1>2, <1>3 DEF Marks, Paused

\* A refusal cancels the paused step and the plan.
LEMMA DenyFields ==
    ASSUME NEW c \in TaskContext, WaitsForConsent(c)
    PROVE  LET d == DenyConsent(c)
           IN  /\ d \in TaskContext /\ Marks(c, d)
               /\ d.processed_steps = c.processed_steps \cup {c.paused_step_id}
               /\ d.status = "cancelled" /\ d.paused_reason = c.paused_reason
               /\ d.paused_step_id = c.paused_step_id
               /\ \A s \in Steps : d.step_status[s] =
                      IF s = c.paused_step_id THEN "cancelled" ELSE c.step_status[s]
<1> DEFINE p == c.paused_step_id
           e == Settle(c, {p}, "cancelled")
           d == [e EXCEPT !.status = "cancelled"]
<1>0. p \in Steps BY DEF WaitsForConsent, TaskContext
<1>1. /\ e \in TaskContext /\ Marks(c, e) /\ Paused(c, e) /\ e.processed_steps = c.processed_steps \cup {p}
      /\ \A s \in Steps : e.step_status[s] = IF s = p THEN "cancelled" ELSE c.step_status[s]
  BY <1>0, SettleFields DEF StepStatus
<1>2. DenyConsent(c) = d BY DEF DenyConsent
<1> HIDE DEF e
<1>3. /\ d \in TaskContext /\ Marks(e, d) /\ d.processed_steps = e.processed_steps
      /\ d.status = "cancelled" /\ d.paused_reason = e.paused_reason
      /\ d.paused_step_id = e.paused_step_id
      /\ d.step_status = e.step_status
  BY <1>1, StatusFields DEF PlanStatus
<1> HIDE DEF d
<1> QED BY <1>1, <1>2, <1>3 DEF Marks, Paused

\* The fallback resets one failed step.
LEMMA AdvanceFields ==
    ASSUME NEW c \in TaskContext,
           c.paused_step_id # NoStep => c.step_status[c.paused_step_id] = "failed"
    PROVE  LET d == [advance(c) EXCEPT !.status = "running"]
               f == FailedStep(c)
           IN  /\ d \in TaskContext /\ Marks(c, d)
               /\ c.processed_steps \subseteq d.processed_steps
               /\ d.status = "running" /\ d.paused_reason = c.paused_reason
               /\ f # NoStep => f \in Steps /\ c.step_status[f] = "failed"
               /\ \A s \in Steps : d.step_status[s] = IF s = f THEN "pending" ELSE c.step_status[s]
<1> DEFINE f == FailedStep(c)
           e == IF f = NoStep THEN c ELSE Settle(c, {f}, "pending")
           n == c.fallback_index + 1
           g == [e EXCEPT !.fallback_index = n]
           d == [g EXCEPT !.status = "running"]
<1>2. f # NoStep => f \in Steps /\ c.step_status[f] = "failed"
  <2>1. CASE c.paused_step_id # NoStep
    BY <2>1 DEF FailedStep, TaskContext
  <2>2. CASE c.paused_step_id = NoStep /\ StepsWith(c, {"failed"}) # {}
    <3>1. FirstOf(StepsWith(c, {"failed"})) \in StepsWith(c, {"failed"})
      BY <2>2, FirstOfIsMember DEF StepsWith
    <3> QED BY <2>2, <3>1 DEF FailedStep, StepsWith
  <2>3. CASE c.paused_step_id = NoStep /\ StepsWith(c, {"failed"}) = {}
    BY <2>3 DEF FailedStep
  <2> QED BY <2>1, <2>2, <2>3
<1>3. [advance(c) EXCEPT !.status = "running"] = d BY DEF advance
<1>4. n \in Nat BY DEF TaskContext
<1>0. f = FailedStep(c) OBVIOUS
<1> HIDE DEF f, n
<1>5. /\ e \in TaskContext /\ Marks(c, e) /\ Paused(c, e) /\ c.processed_steps \subseteq e.processed_steps
      /\ \A s \in Steps : e.step_status[s] = IF s = f THEN "pending" ELSE c.step_status[s]
  <2>1. CASE f = NoStep BY <2>1, PlanAssumption DEF Marks, Paused
  <2>2. CASE f # NoStep BY <1>2, <2>2, SettleFields DEF StepStatus
  <2> QED BY <2>1, <2>2
<1> HIDE DEF e
<1>6. /\ g \in TaskContext /\ Marks(e, g) /\ g.processed_steps = e.processed_steps
      /\ g.paused_reason = e.paused_reason /\ g.step_status = e.step_status
  BY <1>4, <1>5 DEF TaskContext, Marks
<1> HIDE DEF g
<1>7. /\ d \in TaskContext /\ Marks(g, d) /\ d.processed_steps = g.processed_steps
      /\ d.status = "running" /\ d.paused_reason = g.paused_reason /\ d.step_status = g.step_status
  BY <1>6, StatusFields DEF PlanStatus
<1> HIDE DEF d
<1>8. /\ d \in TaskContext /\ Marks(c, d) /\ c.processed_steps \subseteq d.processed_steps
      /\ d.status = "running" /\ d.paused_reason = c.paused_reason
      /\ \A s \in Steps : d.step_status[s] = IF s = f THEN "pending" ELSE c.step_status[s]
  BY <1>5, <1>6, <1>7 DEF Marks, Paused
<1> QED BY <1>2, <1>3, <1>8 DEF f

\* A failed plan that runs again changes its status only.
LEMMA RevivedFields ==
    ASSUME NEW c \in TaskContext
    PROVE  LET d == Revived(c)
           IN  /\ d \in TaskContext /\ Marks(c, d) /\ d.step_status = c.step_status
               /\ d.processed_steps = c.processed_steps
BY StatusFields DEF Revived, PlanStatus, Marks

\* What the gate makes of a context: its first ready step is blocked.
LEMMA GateFields ==
    ASSUME NEW c \in TaskContext, get_ready_steps(c) # {}
    PROVE  LET d == check_hard_gate(c)
               f == FirstOf(get_ready_steps(c))
           IN  /\ d \in TaskContext /\ Marks(c, d) /\ d.processed_steps = c.processed_steps
               /\ d.status = "paused" /\ d.paused_reason = "hard_gate_blocked"
               /\ \A s \in Steps : d.step_status[s] = IF s = f THEN "blocked" ELSE c.step_status[s]
<1> DEFINE f == FirstOf(get_ready_steps(c))
           e == SetStatus(c, {f}, "blocked")
           d == [e EXCEPT !.status = "paused", !.paused_reason = "hard_gate_blocked", !.paused_step_id = f]
<1>1. f \in Steps BY PickedStep
<1>2. check_hard_gate(c) = d BY DEF check_hard_gate
<1>3. f = FirstOf(get_ready_steps(c)) OBVIOUS
<1> HIDE DEF f
<1>4. /\ e \in TaskContext /\ Marks(c, e) /\ e.processed_steps = c.processed_steps
      /\ \A s \in Steps : e.step_status[s] = IF s = f THEN "blocked" ELSE c.step_status[s]
  BY SetStatusFields DEF StepStatus
<1> HIDE DEF e
<1>5. /\ d \in TaskContext /\ Marks(e, d) /\ d.processed_steps = e.processed_steps
      /\ d.status = "paused" /\ d.paused_reason = "hard_gate_blocked" /\ d.step_status = e.step_status
  BY <1>1, <1>4 DEF TaskContext, PlanStatus, PausedReason, Marks
<1> HIDE DEF d
<1>6. /\ d \in TaskContext /\ Marks(c, d) /\ d.processed_steps = c.processed_steps
      /\ d.status = "paused" /\ d.paused_reason = "hard_gate_blocked"
      /\ \A s \in Steps : d.step_status[s] = IF s = f THEN "blocked" ELSE c.step_status[s]
  BY <1>4, <1>5 DEF Marks
<1> QED BY <1>2, <1>6 DEF f

\* The engine's three answers when no step is ready.
LEMMA OutcomeFields ==
    ASSUME NEW c \in TaskContext, c.status = "running"
    PROVE  LET d == Outcome(c)
           IN  /\ d \in TaskContext /\ Marks(c, d)
               /\ c.processed_steps \subseteq d.processed_steps
               /\ d.status \in {"done", "failed", "paused"}
               /\ d.status = "paused" => d.paused_reason = "waiting_dependencies"
               /\ d.status # "paused" => d.paused_reason = c.paused_reason
               /\ d.paused_step_id = c.paused_step_id
               /\ \A s \in Steps :
                     \/ d.step_status[s] = c.step_status[s]
                     \/ /\ c.step_status[s] \in {"pending", "ready"} /\ d.step_status[s] = "blocked"
                        /\ \E f \in StepsWith(c, DEPENDENCY_FAILED_STATUSES) : s \in Downstream(f)
<1> DEFINE F == StepsWith(c, DEPENDENCY_FAILED_STATUSES)
           d == Outcome(c)
           e == propagate_failure(c, F)
<1>1. CASE all_steps_final(c)
  <2>1. d = [c EXCEPT !.status = "done"] BY <1>1 DEF Outcome
  <2>2. /\ d \in TaskContext /\ Marks(c, d) /\ d.step_status = c.step_status
        /\ d.processed_steps = c.processed_steps /\ d.status = "done"
        /\ d.paused_reason = c.paused_reason /\ d.paused_step_id = c.paused_step_id
    BY <2>1 DEF TaskContext, PlanStatus, Marks
  <2> QED BY <2>2
<1>2. CASE ~all_steps_final(c) /\ all_dependencies_failed(c)
  <2>1. d = [e EXCEPT !.status = "failed"] BY <1>2 DEF Outcome
  <2> HIDE DEF F
  <2>2. /\ e \in TaskContext /\ Marks(c, e) /\ Paused(c, e)
        /\ c.processed_steps \subseteq e.processed_steps
        /\ \A s \in Steps :
              \/ e.step_status[s] = c.step_status[s]
              \/ /\ c.step_status[s] \in {"pending", "ready"} /\ e.step_status[s] = "blocked"
                 /\ \E f \in F : s \in Downstream(f)
    BY PropagateFailureFields
  <2> HIDE DEF e, d
  <2>3. /\ d \in TaskContext /\ Marks(e, d) /\ d.step_status = e.step_status
        /\ d.processed_steps = e.processed_steps /\ d.status = "failed"
        /\ d.paused_reason = e.paused_reason /\ d.paused_step_id = e.paused_step_id
    BY <2>1, <2>2, StatusFields DEF PlanStatus
  <2>4. Marks(c, d) BY <2>2, <2>3 DEF Marks
  <2> QED BY <2>2, <2>3, <2>4 DEF Paused, F, d
<1>3. CASE ~all_steps_final(c) /\ ~all_dependencies_failed(c)
  <2>1. d = [c EXCEPT !.status = "paused", !.paused_reason = "waiting_dependencies"]
    BY <1>3 DEF Outcome
  <2>2. /\ d \in TaskContext /\ Marks(c, d) /\ d.step_status = c.step_status
        /\ d.processed_steps = c.processed_steps /\ d.status = "paused"
        /\ d.paused_reason = "waiting_dependencies" /\ d.paused_step_id = c.paused_step_id
    BY <2>1 DEF TaskContext, PlanStatus, PausedReason, Marks
  <2> QED BY <2>2
<1> QED BY <1>1, <1>2, <1>3

\* What a failure for good makes of a context.
LEMMA FailedFields ==
    ASSUME NEW c \in TaskContext, NEW s \in Steps, NEW x, c.status = "running",
           c.paused_step_id = NoStep
    PROVE  LET d == FailedContext(c, s, x)
               y == IF s \in Degradable THEN "degraded" ELSE "failed"
           IN  /\ d \in TaskContext /\ Marks(c, d)
               /\ d.processed_steps = c.processed_steps \cup {s}
               /\ \A t \in Steps : d.step_status[t] = IF t = s THEN y ELSE c.step_status[t]
               /\ d.paused_reason \in {c.paused_reason, "post_verification_failed"}
               /\ IF s \notin Degradable /\ s \in FailFast
                  THEN d.status = "failed" /\ d.paused_step_id = s
                  ELSE d.status = "running"
<1> DEFINE v == IF x = "rejected"
                THEN [c EXCEPT !.paused_reason = "post_verification_failed", !.paused_step_id = s]
                ELSE c
           y == IF s \in Degradable THEN "degraded" ELSE "failed"
           e == Settle(v, {s}, y)
           d == FailedContext(c, s, x)
<1>2. /\ v \in TaskContext /\ v.step_status = c.step_status /\ v.status = "running"
      /\ v.paused_reason \in {c.paused_reason, "post_verification_failed"}
      /\ Marks(c, v) /\ v.processed_steps = c.processed_steps
  BY DEF TaskContext, PausedReason, Marks
<1>3. d = IF s \in Degradable \/ s \notin FailFast THEN e
          ELSE [e EXCEPT !.status = "failed", !.paused_step_id = s]
  BY DEF FailedContext
<1>4. y \in {"degraded", "failed"} OBVIOUS
<1> HIDE DEF v, d, y
<1>5. /\ e \in TaskContext /\ Marks(v, e) /\ Paused(v, e)
      /\ e.processed_steps = v.processed_steps \cup {s}
      /\ \A t \in Steps : e.step_status[t] = IF t = s THEN y ELSE v.step_status[t]
  <2>1. {s} \subseteq Steps /\ v \in TaskContext BY <1>2
  <2>2. CASE y = "degraded" BY <2>1, <2>2, SettleFields DEF StepStatus
  <2>3. CASE y = "failed" BY <2>1, <2>3, SettleFields DEF StepStatus
  <2> QED BY <1>4, <2>2, <2>3
<1> HIDE DEF e
<1>6. /\ d \in TaskContext /\ Marks(e, d) /\ d.step_status = e.step_status
      /\ d.processed_steps = e.processed_steps /\ d.paused_reason = e.paused_reason
      /\ IF s \notin Degradable /\ s \in FailFast
         THEN d.status = "failed" /\ d.paused_step_id = s
         ELSE d.status = e.status
  BY <1>3, <1>5 DEF TaskContext, PlanStatus, Marks
<1>7. /\ d \in TaskContext /\ Marks(c, d) /\ d.processed_steps = c.processed_steps \cup {s}
      /\ \A t \in Steps : d.step_status[t] = IF t = s THEN y ELSE c.step_status[t]
      /\ d.paused_reason \in {c.paused_reason, "post_verification_failed"}
      /\ IF s \notin Degradable /\ s \in FailFast
         THEN d.status = "failed" /\ d.paused_step_id = s
         ELSE d.status = "running"
  BY <1>2, <1>5, <1>6 DEF Marks, Paused
<1> QED BY <1>7 DEF d, y
\* Nothing of a plan with a verdict is open to a decision, and the verdict is true.
VerdictOK(c) ==
    /\ c.plan_status # "none" => is_terminal(c)
    /\ c.plan_status # "none" \/ c.status = "failed" => c.paused_reason # "waiting_consent"
    /\ c.plan_status = "completed" => \A s \in Steps : c.step_status[s] = "done"
    /\ c.plan_status \in {"failed", "blocked"} =>
           \E s \in Steps : c.step_status[s] \in {"failed", "cancelled"}

\* The plan is paused at a step that needs a consent and is held back.
HeldAt(c) ==
    /\ c.status = "paused" /\ c.paused_step_id \in Consent
    /\ c.step_status[c.paused_step_id] = "blocked"

PauseOK(c) ==
    c.status = "paused" /\ c.paused_reason = "waiting_consent" =>
        HeldAt(c) /\ c.step_consent_requests[c.paused_step_id] # NoStep

\* What the statuses of r's copy and those before execute_next have in common.
SameDone(r) == \A s \in Steps : r.ctx.step_status[s] = "done" <=> r.prev[s] = "done"

\* Inside the engine there is no verdict; until a step is executed no step is newly done;
\* the engine stops for a consent only at the step it holds back.
EngineOK(r) ==
    /\ r.pc \in {"sched", "exec", "post"} => r.ctx.plan_status = "none"
    /\ r.pc \in {"sched", "exec"} => r.ctx.paused_reason # "waiting_consent"
    /\ r.pc = "post" /\ r.ctx.paused_reason = "waiting_consent" => HeldAt(r.ctx)
    /\ r.mode # "run" /\ r.pc \in {"sched", "exec"} => SameDone(r)
    /\ r.mode # "run" /\ r.pc = "post" /\ r.ctx.status \in {"failed", "paused"} => SameDone(r)

VInv ==
    /\ PauseOK(store) /\ VerdictOK(store)
    /\ \A w \in Workers : VerdictOK(wk[w].ctx) /\ EngineOK(wk[w])

\* Without a verdict there is little to be wrong about.
LEMMA NoVerdict ==
    ASSUME NEW c, c.plan_status = "none", c.status # "failed" \/ c.paused_reason # "waiting_consent"
    PROVE  VerdictOK(c)
BY DEF VerdictOK

\* A plan that is not over, or that waits for a consent, has no verdict.
LEMMA OpenHasNoVerdict ==
    ASSUME NEW c \in TaskContext, VerdictOK(c), ~is_terminal(c) \/ WaitsForConsent(c)
    PROVE  c.plan_status = "none"
BY DEF VerdictOK, WaitsForConsent

\* A verdict that is cached now is true.
LEMMA FinalizeVerdict ==
    ASSUME NEW c \in TaskContext, VerdictOK(c), c.plan_status = "none",
           c.paused_reason # "waiting_consent" \/ c.status \in {"paused", "failed"}
    PROVE  VerdictOK(finalize_plan_status(c))
<1> DEFINE d == finalize_plan_status(c)
<1>1. CASE ~CanFinalize(c) BY <1>1, FinalizeFields
<1>2. CASE CanFinalize(c)
  <2> DEFINE v == evaluate_plan_status(c)
  <2>1. /\ d.step_status = c.step_status /\ d.paused_reason = c.paused_reason
        /\ d.plan_status = v /\ d.status = IF d.plan_status = "completed" THEN "done" ELSE "failed"
    BY <1>2, FinalizeFields
  <2>2. c.paused_reason # "waiting_consent" BY <1>2 DEF CanFinalize, VerdictOK
  <2>3. is_terminal(d) BY <2>1 DEF is_terminal, FINAL_PLAN_STATUSES
  <2>4. v = "completed" => \A s \in Steps : c.step_status[s] = "done"
    BY DEF evaluate_plan_status
  <2>5. v = "failed" => \E s \in Steps : c.step_status[s] = "failed"
    BY DEF evaluate_plan_status
  <2>6. v = "blocked" => \E s \in Steps : c.step_status[s] \in {"failed", "cancelled"}
    BY <1>2 DEF CanFinalize, StepsWith
  <2> HIDE DEF v, d
  <2>7. VerdictOK(d) BY <2>1, <2>2, <2>3, <2>4, <2>5, <2>6 DEF VerdictOK
  <2> QED BY <2>7 DEF d
<1> QED BY <1>1, <1>2

\* The feedback flag is no part of a verdict.
LEMMA FeedbackVerdict ==
    ASSUME NEW c \in TaskContext, VerdictOK(c) PROVE VerdictOK(apply_sample_terminal_feedback(c))
<1> DEFINE d == apply_sample_terminal_feedback(c)
<1>1. d.step_status = c.step_status /\ Paused(c, d) /\ d.plan_status = c.plan_status
  BY FeedbackFields
<1> HIDE DEF d
<1>2. VerdictOK(d) BY <1>1 DEF VerdictOK, Paused, is_terminal
<1> QED BY <1>2 DEF d

-----------------------------------------------------------------------------
\* One worker moves, or none.
LEMMA VerdictMoves ==
    ASSUME IInv, VInv, NEW w \in Workers, NEW r, Go(w, r), VerdictOK(r.ctx), EngineOK(r),
           PauseOK(store'), VerdictOK(store')
    PROVE  VInv'
<1>1. wk \in [Workers -> Worker] BY DEF IInv, TypeOK
<1>2. wk'[w] = r /\ \A v \in Workers : v # w => wk'[v] = wk[v] BY <1>1 DEF Go
<1>3. ASSUME NEW v \in Workers PROVE VerdictOK(wk'[v].ctx) /\ EngineOK(wk'[v])
  BY <1>2 DEF VInv
<1> QED BY <1>3 DEF VInv

\* No worker moves: the snapshot alone has to be right.
LEMMA VerdictStays ==
    ASSUME VInv, UNCHANGED wk, PauseOK(store'), VerdictOK(store') PROVE VInv'
<1>1. ASSUME NEW v \in Workers PROVE VerdictOK(wk'[v].ctx) /\ EngineOK(wk'[v])
  BY DEF VInv
<1> QED BY <1>1 DEF VInv

\* A worker at rest, at its loop or publishing is in no engine.
LEMMA IdleEngine == EngineOK(IdleWorker) /\ VerdictOK(IdleWorker.ctx)
BY IdleWorkerOK DEF EngineOK, VerdictOK, IdleWorker, CreatedContext

\* A worker at the head of its loop is in no engine.
LEMMA LoopEngine ==
    ASSUME NEW c \in TaskContext, NEW m \in Modes
    PROVE  LET r == AtLoop(m, c)
           IN  r \in Worker /\ r.ctx = c /\ r.pc = "loop" /\ r.mode = m /\ EngineOK(r)
<1>1. AtLoop(m, c) \in Worker /\ AtLoop(m, c).ctx = c BY AtLoopOK
<1>2. AtLoop(m, c).pc = "loop" /\ AtLoop(m, c).mode = m BY IdleWorkerOK DEF AtLoop, Worker
<1>3. EngineOK(AtLoop(m, c)) BY <1>2 DEF EngineOK
<1> QED BY <1>1, <1>2, <1>3

\* Neither is one that goes round the loop again or leaves it.
LEMMA AgainEngine ==
    ASSUME NEW c \in TaskContext, VerdictOK(c), NEW w
    PROVE  EngineOK(LoopAgain(w, c)) /\ VerdictOK(LoopAgain(w, c).ctx)
<1>1. CASE LoopAgain(w, c) = AtLoop("stream", c) BY <1>1, LoopEngine DEF Modes
<1>2. CASE LoopAgain(w, c) = IdleWorker BY <1>2, IdleEngine
<1> QED BY <1>1, <1>2 DEF LoopAgain

\* What the types say of a worker and of the snapshot.
LEMMA Typed ==
    ASSUME IInv, NEW w \in Workers
    PROVE  /\ store \in TaskContext /\ wk \in [Workers -> Worker] /\ wk[w] \in Worker
           /\ wk[w].ctx \in TaskContext /\ wk[w].mode \in Modes
BY DEF IInv, TypeOK, Worker

-----------------------------------------------------------------------------
\* A worker takes the snapshot as it is: verdicts and pauses stay right.
LEMMA StartVerdicts ==
    ASSUME IInv, VInv, NEW w \in Workers, StreamStart(w) \/ IdleExecute(w) \/ ManualExecute(w)
    PROVE  VInv'
<1>1. PICK m \in Modes : Go(w, AtLoop(m, store)) /\ UNCHANGED store
  BY DEF StreamStart, IdleExecute, ManualExecute, Modes
<1>2. AtLoop(m, store).ctx = store /\ EngineOK(AtLoop(m, store)) BY Typed, LoopEngine
<1>3. VerdictOK(store) /\ PauseOK(store) BY DEF VInv
<1> QED BY <1>1, <1>2, <1>3, VerdictMoves

\* A decided consent is applied and saved: verdicts and pauses stay right.
LEMMA StreamResumeVerdicts ==
    ASSUME IInv, VInv, NEW w \in Workers, StreamResume(w) PROVE VInv'
<1> DEFINE q == get_step_consent_request(store, store.paused_step_id)
           g == GrantConsent(store)
           c == [g EXCEPT !.status = "running"]
           d == DenyConsent(store)
<1>1. store \in TaskContext /\ WaitsForConsent(store) /\ VerdictOK(store)
  BY Typed DEF StreamResume, VInv
<1>2. store.plan_status = "none" BY <1>1, OpenHasNoVerdict
<1>3. CASE requests[q] = "allowed"
  <2>1. store' = c /\ Go(w, AtLoop("stream", c)) BY <1>3 DEF StreamResume
  <2>2. g \in TaskContext /\ Marks(store, g) BY <1>1, GrantFields
  <2> HIDE DEF g
  <2>3. c \in TaskContext /\ Marks(g, c) /\ c.status = "running" BY <2>2, StatusFields DEF PlanStatus
  <2> HIDE DEF c
  <2>4. VerdictOK(c) BY <1>2, <2>2, <2>3, NoVerdict DEF Marks
  <2>5. PauseOK(c) BY <2>3 DEF PauseOK
  <2>6. AtLoop("stream", c).ctx = c /\ EngineOK(AtLoop("stream", c)) BY <2>3, LoopEngine DEF Modes
  <2> QED BY <2>1, <2>4, <2>5, <2>6, VerdictMoves
<1>4. CASE requests[q] # "allowed"
  <2>1. store' = d /\ UNCHANGED wk BY <1>4 DEF StreamResume
  <2>2. Marks(store, d) /\ d.status = "cancelled" BY <1>1, DenyFields
  <2> HIDE DEF d
  <2>3. VerdictOK(d) /\ PauseOK(d) BY <1>2, <2>2, NoVerdict DEF Marks, PauseOK
  <2> QED BY <2>1, <2>3, VerdictStays
<1> QED BY <1>3, <1>4

\* resume saves the decision and starts _run: verdicts and pauses stay right.
LEMMA ResumeVerdicts ==
    ASSUME IInv, VInv, NEW w \in Workers, NEW a, Resume(w, a) PROVE VInv'
<1> DEFINE p == store.paused_step_id
           waits == store.status = "paused" /\ WaitsForConsent(store)
           q == get_step_consent_request(store, p)
           kept == IF waits /\ q # NoStep THEN set_step_consent_request(store, p, q) ELSE store
<1>1. store \in TaskContext /\ ~is_terminal(store) /\ VerdictOK(store) /\ PauseOK(store)
  BY Typed DEF Resume, VInv
<1>2. store.plan_status = "none" BY <1>1, OpenHasNoVerdict
<1>3. /\ kept \in TaskContext /\ kept.plan_status = "none" /\ Paused(store, kept)
      /\ kept.step_status = store.step_status
      /\ kept = store \/ kept.step_consent_requests[kept.paused_step_id] # NoStep
  <2>1. CASE waits /\ q # NoStep
    <3>1. p \in Steps /\ q \in Steps \cup {NoStep}
      BY <1>1, <2>1, RequestType DEF WaitsForConsent, TaskContext
    <3> DEFINE x == set_step_consent_request(store, p, q)
    <3>2. kept = x /\ p = store.paused_step_id BY <2>1
    <3> HIDE DEF kept, p, q
    <3>3. /\ x \in TaskContext /\ x.step_status = store.step_status /\ Paused(store, x)
          /\ x.plan_status = store.plan_status /\ x.step_consent_requests[p] = q
      BY <1>1, <3>1, RequestFields
    <3> HIDE DEF x
    <3> QED BY <1>2, <2>1, <3>2, <3>3 DEF Paused
  <2>2. CASE ~(waits /\ q # NoStep)
    <3>1. kept = store BY <2>2
    <3> HIDE DEF kept
    <3> QED BY <1>1, <1>2, <3>1 DEF Paused
  <2> QED BY <2>1, <2>2
<1>4. PauseOK(kept)
  <2> HIDE DEF kept
  <2> QED BY <1>1, <1>3 DEF PauseOK, HeldAt, Paused
<1>5. CASE waits /\ a = "no"
  <2> DEFINE d == DenyConsent(kept)
             c == apply_sample_terminal_feedback(d)
  <2>1. store' = c /\ UNCHANGED wk BY <1>5 DEF Resume
  <2>2. WaitsForConsent(kept)
    <3> HIDE DEF kept
    <3> QED BY <1>3, <1>5 DEF Paused, WaitsForConsent
  <2> HIDE DEF kept
  <2>3. d \in TaskContext /\ Marks(kept, d) /\ d.status = "cancelled" BY <1>3, <2>2, DenyFields
  <2> HIDE DEF d
  <2>4. Paused(d, c) /\ c.plan_status = d.plan_status BY <2>3, FeedbackFields
  <2> HIDE DEF c
  <2>5. VerdictOK(c) /\ PauseOK(c) BY <1>3, <2>3, <2>4, NoVerdict DEF Marks, Paused, PauseOK
  <2> QED BY <2>1, <2>5, VerdictStays
<1>6. CASE ~(waits /\ a = "no")
  <2> DEFINE grants == waits /\ a = "yes"
             c == IF grants THEN GrantConsent(kept) ELSE kept
             e == EngineStart(c)
             r == [IdleWorker EXCEPT !.pc = "sched", !.mode = "run", !.ctx = e]
  <2>1. store' = c /\ Go(w, r) BY <1>6 DEF Resume
  <2>2. grants => WaitsForConsent(kept)
    <3> HIDE DEF kept
    <3> QED BY <1>3 DEF Paused, WaitsForConsent
  <2> HIDE DEF kept
  <2>3. /\ c \in TaskContext /\ c.plan_status = "none" /\ PauseOK(c)
        /\ c.status = store.status
    <3>1. CASE grants
      <4>1. /\ GrantConsent(kept) \in TaskContext /\ Marks(kept, GrantConsent(kept))
            /\ GrantConsent(kept).status = kept.status /\ GrantConsent(kept).paused_reason = "none"
        BY <1>3, <2>2, <3>1, GrantFields
      <4> QED BY <1>3, <3>1, <4>1 DEF Marks, PauseOK, Paused
    <3>2. CASE ~grants
      <4>1. c = kept BY <3>2
      <4> HIDE DEF c
      <4> QED BY <1>3, <1>4, <4>1 DEF Paused
    <3> QED BY <3>1, <3>2
  <2> HIDE DEF c
  <2>4. VerdictOK(c)
    <3>1. c.status # "failed" BY <1>1, <2>3 DEF is_terminal, FINAL_PLAN_STATUSES
    <3> QED BY <2>3, <3>1, NoVerdict
  <2>5. e \in TaskContext /\ Marks(c, e) /\ e.status = "running" /\ e.paused_reason = "none"
    BY <2>3, EngineStartFields
  <2> HIDE DEF e
  <2>6. r.pc = "sched" /\ r.mode = "run" /\ r.ctx = e BY IdleWorkerOK DEF Worker
  <2> HIDE DEF r
  <2>7. VerdictOK(r.ctx) /\ EngineOK(r)
    BY <2>3, <2>5, <2>6, NoVerdict DEF Marks, EngineOK
  <2> QED BY <2>1, <2>3, <2>4, <2>7, VerdictMoves
<1> QED BY <1>5, <1>6

\* A worker that leaves takes nothing of the invariant with it.
LEMMA StopVerdicts ==
    ASSUME IInv, VInv, NEW w \in Workers, Stop(w), PauseOK(store'), VerdictOK(store')
    PROVE  VInv'
BY IdleEngine, VerdictMoves DEF Stop

\* Only a terminal plan is saved by an early return.
LEMMA ReturnEarlyVerdicts ==
    ASSUME IInv, VInv, NEW w \in Workers, ReturnEarly(w) PROVE VInv'
<1> DEFINE c == wk[w].ctx
           v == IF FailsForGood(c) THEN finalize_plan_status(c) ELSE c
           f == apply_sample_terminal_feedback(v)
<1>1. c \in TaskContext /\ VerdictOK(c) /\ VerdictOK(store) /\ PauseOK(store) BY Typed DEF VInv
<1>2. /\ store' = IF f.feedback_applied # c.feedback_applied \/ FailsForGood(c) THEN f ELSE store
      /\ Go(w, LoopAgain(w, f))
  BY DEF ReturnEarly
<1> HIDE DEF c
<1>3. /\ v \in TaskContext /\ VerdictOK(v) /\ v.feedback_applied = c.feedback_applied
      /\ FailsForGood(c) => is_terminal(v)
  <2>1. CASE FailsForGood(c)
    <3>1. c.plan_status = "none" /\ c.status = "failed" /\ CanFinalize(c)
      BY <2>1 DEF FailsForGood, CanFinalize
    <3>2. v = finalize_plan_status(c) BY <2>1
    <3> HIDE DEF v
    <3>3. VerdictOK(v) BY <1>1, <3>1, <3>2, FinalizeVerdict
    <3>4. /\ v \in TaskContext /\ v.feedback_applied = c.feedback_applied
          /\ v.status \in {"done", "failed"}
      BY <1>1, <3>1, <3>2, FinalizeFields
    <3> QED BY <3>3, <3>4 DEF is_terminal, FINAL_PLAN_STATUSES
  <2>2. CASE ~FailsForGood(c)
    <3>1. v = c BY <2>2
    <3> HIDE DEF v
    <3> QED BY <1>1, <2>2, <3>1
  <2> QED BY <2>1, <2>2
<1> HIDE DEF v
<1>4. /\ f \in TaskContext /\ VerdictOK(f) /\ Paused(v, f)
      /\ f.feedback_applied # v.feedback_applied => is_terminal(v)
  BY <1>3, FeedbackFields, FeedbackVerdict
<1> HIDE DEF f
<1>5. is_terminal(v) => PauseOK(f)
  BY <1>4 DEF Paused, is_terminal, FINAL_PLAN_STATUSES, PauseOK
<1>6. PauseOK(store') /\ VerdictOK(store') BY <1>1, <1>2, <1>3, <1>4, <1>5
<1>7. EngineOK(LoopAgain(w, f)) /\ VerdictOK(LoopAgain(w, f).ctx) BY <1>4, AgainEngine
<1> QED BY <1>2, <1>6, <1>7, VerdictMoves

\* The gate pauses the plan and the worker leaves: verdicts and pauses stay right.
LEMMA BecomeGatedVerdicts ==
    ASSUME IInv, VInv, NEW w \in Workers, BecomeGated(w) PROVE VInv'
<1> DEFINE c == Revived(wk[w].ctx)
           d == check_hard_gate(c)
<1>1. store' = d /\ Stop(w) /\ get_ready_steps(c) # {} /\ ~ReturnsEarly(wk[w].ctx)
  BY DEF BecomeGated, gate_blocked
<1>2. c \in TaskContext /\ Marks(wk[w].ctx, c) BY Typed, RevivedFields
<1> HIDE DEF c
<1>3. Marks(c, d) /\ d.paused_reason = "hard_gate_blocked" BY <1>1, <1>2, GateFields
<1> HIDE DEF d
<1>4. VerdictOK(d) /\ PauseOK(d)
  BY <1>1, <1>2, <1>3, NoVerdict DEF Marks, PauseOK, ReturnsEarly
<1> QED BY <1>1, <1>4, StopVerdicts

\* run_until_blocked starts on the same statuses: verdicts and pauses stay right.
LEMMA EnterEngineVerdicts ==
    ASSUME IInv, VInv, NEW w \in Workers, EnterEngine(w) PROVE VInv'
<1> DEFINE c == Revived(wk[w].ctx)
           e == EngineStart(c)
           st == c.step_status
           r == [wk[w] EXCEPT !.pc = "sched", !.ctx = e, !.prev = st]
<1>1. Go(w, r) /\ UNCHANGED store /\ ~ReturnsEarly(wk[w].ctx) BY DEF EnterEngine
<1>2. c \in TaskContext /\ Marks(wk[w].ctx, c) BY Typed, RevivedFields
<1>3. st = c.step_status OBVIOUS
<1> HIDE DEF c, st
<1>4. /\ Marks(c, e) /\ e.step_status = c.step_status
      /\ e.status = "running" /\ e.paused_reason = "none"
  BY <1>2, EngineStartFields
<1> HIDE DEF e
<1>5. r.pc = "sched" /\ r.ctx = e /\ r.prev = st BY Typed DEF Worker
<1> HIDE DEF r
<1>6. e.plan_status = "none" BY <1>1, <1>2, <1>4 DEF Marks, ReturnsEarly
<1>7. VerdictOK(r.ctx) /\ EngineOK(r)
  BY <1>3, <1>4, <1>5, <1>6, NoVerdict DEF EngineOK, SameDone
<1>8. VerdictOK(store') /\ PauseOK(store') BY <1>1 DEF VInv
<1> QED BY <1>1, <1>7, <1>8, VerdictMoves

\* The engine goes on with context d: at its loop's head, or out of its loop.
LEMMA ToSchedVerdicts ==
    ASSUME IInv, VInv, NEW w \in Workers, NEW d, ToSched(w, d),
           d.plan_status = "none", d.paused_reason # "waiting_consent",
           wk[w].mode # "run" =>
               \A s \in Steps : d.step_status[s] = "done" <=> wk[w].prev[s] = "done",
           VerdictOK(store'), PauseOK(store')
    PROVE  VInv'
<1> DEFINE r == [wk[w] EXCEPT !.pc = "sched", !.ctx = d, !.cur = NoStep, !.tries = 0]
<1>1. Go(w, r) BY DEF ToSched
<1>2. r.pc = "sched" /\ r.ctx = d /\ r.prev = wk[w].prev /\ r.mode = wk[w].mode BY Typed DEF Worker
<1> HIDE DEF r
<1>3. VerdictOK(r.ctx) /\ EngineOK(r) BY <1>2, NoVerdict DEF EngineOK, SameDone
<1> QED BY <1>1, <1>3, VerdictMoves

\* The engine returns with context d.
LEMMA ToPostVerdicts ==
    ASSUME IInv, VInv, NEW w \in Workers, NEW d, ToPost(w, d), UNCHANGED store,
           d.plan_status = "none", d.paused_reason = "waiting_consent" => HeldAt(d),
           wk[w].mode # "run" /\ d.status \in {"failed", "paused"} =>
               \A s \in Steps : d.step_status[s] = "done" <=> wk[w].prev[s] = "done"
    PROVE  VInv'
<1> DEFINE r == [wk[w] EXCEPT !.pc = "post", !.ctx = d, !.cur = NoStep, !.tries = 0]
<1>1. Go(w, r) BY DEF ToPost
<1>2. r.pc = "post" /\ r.ctx = d /\ r.prev = wk[w].prev /\ r.mode = wk[w].mode BY Typed DEF Worker
<1> HIDE DEF r
<1>3. VerdictOK(r.ctx) /\ EngineOK(r) BY <1>2, NoVerdict DEF EngineOK, SameDone, HeldAt
<1>4. VerdictOK(store') /\ PauseOK(store') BY DEF VInv
<1> QED BY <1>1, <1>3, <1>4, VerdictMoves

\* What a worker in the engine knows of its verdict and of the steps done before.
LEMMA InEngineVerdict ==
    ASSUME IInv, VInv, NEW w \in Workers, wk[w].pc \in {"sched", "exec"}
    PROVE  /\ wk[w].ctx \in TaskContext /\ wk[w].ctx.plan_status = "none"
           /\ wk[w].ctx.paused_reason # "waiting_consent" /\ wk[w].ctx.status = "running"
           /\ wk[w].ctx.paused_step_id = NoStep
           /\ wk[w].mode # "run" =>
                  \A s \in Steps : wk[w].ctx.step_status[s] = "done" <=> wk[w].prev[s] = "done"
           /\ VerdictOK(store) /\ PauseOK(store)
BY Typed, InEngine DEF VInv, EngineOK, SameDone

\* Without a ready step the engine blocks what waits or stops: verdicts and pauses stay right.
LEMMA NothingReadyVerdicts ==
    ASSUME IInv, VInv, NEW w \in Workers, NothingReady(w) PROVE VInv'
<1> DEFINE c == wk[w].ctx
           d == Outcome(c)
<1>1. ToPost(w, d) /\ UNCHANGED store /\ wk[w].pc = "sched" BY DEF NothingReady, Scheduling
<1>2. /\ c \in TaskContext /\ c.plan_status = "none" /\ c.paused_reason # "waiting_consent"
      /\ c.status = "running"
      /\ wk[w].mode # "run" =>
            \A s \in Steps : c.step_status[s] = "done" <=> wk[w].prev[s] = "done"
  BY <1>1, InEngineVerdict
<1> HIDE DEF c
<1>3. /\ Marks(c, d)
      /\ d.status = "paused" => d.paused_reason = "waiting_dependencies"
      /\ d.status # "paused" => d.paused_reason = c.paused_reason
      /\ \A s \in Steps :
           \/ d.step_status[s] = c.step_status[s]
           \/ c.step_status[s] \in {"pending", "ready"} /\ d.step_status[s] = "blocked"
  BY <1>2, OutcomeFields
<1> HIDE DEF d
<1>4. \A s \in Steps : d.step_status[s] = "done" <=> c.step_status[s] = "done" BY <1>3
<1>5. d.plan_status = "none" /\ d.paused_reason # "waiting_consent" BY <1>2, <1>3 DEF Marks
<1> QED BY <1>1, <1>2, <1>4, <1>5, ToPostVerdicts

\* The engine stops at a step it holds back: verdicts and pauses stay right.
LEMMA AskConsentVerdicts ==
    ASSUME IInv, VInv, NEW w \in Workers, AskConsent(w) PROVE VInv'
<1> DEFINE c == wk[w].ctx
           f == FirstOf(get_ready_steps(c))
           e == SetStatus(c, {f}, "blocked")
           d == [e EXCEPT !.status = "paused", !.paused_reason = "waiting_consent",
                          !.paused_step_id = f]
<1>1. /\ ToPost(w, d) /\ UNCHANGED store /\ wk[w].pc = "sched" /\ get_ready_steps(c) # {}
      /\ f \in Consent
  BY DEF AskConsent, Scheduling, MustAsk
<1>2. /\ c \in TaskContext /\ c.plan_status = "none"
      /\ wk[w].mode # "run" =>
            \A s \in Steps : c.step_status[s] = "done" <=> wk[w].prev[s] = "done"
  BY <1>1, InEngineVerdict
<1> HIDE DEF c
<1>3. f \in Steps /\ c.step_status[f] \in {"pending", "ready"} BY <1>1, PickedStep
<1> HIDE DEF f
<1>4. /\ e \in TaskContext /\ Marks(c, e)
      /\ \A s \in Steps : e.step_status[s] = IF s = f THEN "blocked" ELSE c.step_status[s]
  BY <1>2, SetStatusFields DEF StepStatus
<1> HIDE DEF e
<1>5. /\ d.status = "paused" /\ d.paused_step_id = f /\ d.step_status = e.step_status
      /\ d.plan_status = e.plan_status
  BY <1>4 DEF TaskContext
<1> HIDE DEF d
<1>6. HeldAt(d) BY <1>1, <1>3, <1>4, <1>5 DEF HeldAt
<1>7. \A s \in Steps : d.step_status[s] = "done" <=> c.step_status[s] = "done"
  BY <1>3, <1>4, <1>5
<1> QED BY <1>1, <1>2, <1>4, <1>5, <1>6, <1>7, ToPostVerdicts DEF Marks

\* A step whose condition is false is skipped: verdicts and pauses stay right.
LEMMA SkipStepVerdicts ==
    ASSUME IInv, VInv, NEW w \in Workers, SkipStep(w) PROVE VInv'
<1> DEFINE c == wk[w].ctx
           f == FirstOf(get_ready_steps(c))
           d == Settle(c, {f}, "skipped")
<1>1. ToSched(w, d) /\ UNCHANGED store /\ wk[w].pc = "sched" /\ get_ready_steps(c) # {}
  BY DEF SkipStep, Scheduling
<1>2. /\ c \in TaskContext /\ c.plan_status = "none" /\ c.paused_reason # "waiting_consent"
      /\ wk[w].mode # "run" =>
            \A s \in Steps : c.step_status[s] = "done" <=> wk[w].prev[s] = "done"
      /\ VerdictOK(store') /\ PauseOK(store')
  BY <1>1, InEngineVerdict
<1> HIDE DEF c
<1>3. f \in Steps /\ c.step_status[f] \in {"pending", "ready"} BY <1>1, PickedStep
<1> HIDE DEF f
<1>4. /\ Marks(c, d) /\ Paused(c, d)
      /\ \A s \in Steps : d.step_status[s] = IF s = f THEN "skipped" ELSE c.step_status[s]
  BY <1>2, <1>3, SettleFields DEF StepStatus
<1> HIDE DEF d
<1>5. \A s \in Steps : d.step_status[s] = "done" <=> c.step_status[s] = "done"
  BY <1>3, <1>4
<1> QED BY <1>1, <1>2, <1>4, <1>5, ToSchedVerdicts DEF Marks, Paused

\* The picked step starts to run: verdicts and pauses stay right.
LEMMA InvokeStepVerdicts ==
    ASSUME IInv, VInv, NEW w \in Workers, InvokeStep(w) PROVE VInv'
<1> DEFINE c == wk[w].ctx
           f == FirstOf(get_ready_steps(c))
           d == SetStatus(c, {f}, "running")
           r == [wk[w] EXCEPT !.pc = "exec", !.ctx = d, !.cur = f, !.tries = 1]
<1>1. Go(w, r) /\ UNCHANGED store /\ wk[w].pc = "sched" /\ get_ready_steps(c) # {}
  BY DEF InvokeStep, Scheduling
<1>2. /\ c \in TaskContext /\ c.plan_status = "none" /\ c.paused_reason # "waiting_consent"
      /\ wk[w].mode # "run" =>
            \A s \in Steps : c.step_status[s] = "done" <=> wk[w].prev[s] = "done"
      /\ VerdictOK(store') /\ PauseOK(store')
  BY <1>1, InEngineVerdict
<1> HIDE DEF c
<1>3. f \in Steps /\ c.step_status[f] \in {"pending", "ready"} BY <1>1, PickedStep
<1> HIDE DEF f
<1>4. /\ Marks(c, d) /\ Paused(c, d)
      /\ \A s \in Steps : d.step_status[s] = IF s = f THEN "running" ELSE c.step_status[s]
  BY <1>2, SetStatusFields DEF StepStatus
<1> HIDE DEF d
<1>5. \A s \in Steps : d.step_status[s] = "done" <=> c.step_status[s] = "done"
  BY <1>3, <1>4
<1>6. r.pc = "exec" /\ r.ctx = d /\ r.prev = wk[w].prev /\ r.mode = wk[w].mode BY Typed DEF Worker
<1> HIDE DEF r
<1>7. VerdictOK(r.ctx) /\ EngineOK(r)
  BY <1>2, <1>4, <1>5, <1>6, NoVerdict DEF EngineOK, SameDone, Marks, Paused
<1> QED BY <1>1, <1>2, <1>7, VerdictMoves

\* The step under way ends with some status.
LEMMA AfterStepVerdicts ==
    ASSUME IInv, VInv, NEW w \in Workers, NEW d \in TaskContext, AfterStep(w, d), UNCHANGED store,
           d.plan_status = "none", d.paused_reason # "waiting_consent", d.status = "running"
    PROVE  VInv'
<1>0. VerdictOK(store') /\ PauseOK(store') BY DEF VInv
<1>1. CASE wk[w].mode = "run"
  <2>1. ToSched(w, d) BY <1>1 DEF AfterStep
  <2> QED BY <1>0, <1>1, <2>1, ToSchedVerdicts
<1>2. CASE wk[w].mode # "run"
  <2> DEFINE e == IF all_steps_final(d) THEN [d EXCEPT !.status = "done"] ELSE d
  <2>1. ToPost(w, e) BY <1>2 DEF AfterStep
  <2>2. /\ e.plan_status = "none" /\ e.paused_reason # "waiting_consent"
        /\ e.status \in {"running", "done"}
    BY DEF TaskContext
  <2> HIDE DEF e
  <2> QED BY <2>1, <2>2, ToPostVerdicts
<1> QED BY <1>1, <1>2

\* The step is done: verdicts and pauses stay right.
LEMMA StepSucceedsVerdicts ==
    ASSUME IInv, VInv, NEW w \in Workers, StepSucceeds(w) PROVE VInv'
<1> DEFINE c == wk[w].ctx
           f == wk[w].cur
           d == Settle(c, {f}, "done")
<1>1. AfterStep(w, d) /\ UNCHANGED store /\ wk[w].pc = "exec" BY DEF StepSucceeds
<1>2. /\ c \in TaskContext /\ c.plan_status = "none" /\ c.paused_reason # "waiting_consent"
      /\ c.status = "running" /\ f \in Steps
  BY <1>1, InEngineVerdict, InEngine
<1> HIDE DEF c, f
<1>3. d \in TaskContext /\ Marks(c, d) /\ Paused(c, d) BY <1>2, SettleFields DEF StepStatus
<1> HIDE DEF d
<1> QED BY <1>1, <1>2, <1>3, AfterStepVerdicts DEF Marks, Paused

\* The copy is saved between the two quality attempts: verdicts and pauses stay right.
LEMMA QualityRetryVerdicts ==
    ASSUME IInv, VInv, NEW w \in Workers, QualityRetry(w) PROVE VInv'
<1> DEFINE c == wk[w].ctx
           Q == c.quality_retried \cup {wk[w].cur}
           d == [c EXCEPT !.quality_retried = Q]
           r == [wk[w] EXCEPT !.ctx = d]
<1>1. store' = d /\ Go(w, r) /\ wk[w].pc = "exec" BY DEF QualityRetry
<1>2. /\ c \in TaskContext /\ c.plan_status = "none" /\ c.paused_reason # "waiting_consent"
      /\ c.status = "running"
      /\ wk[w].mode # "run" =>
            \A s \in Steps : c.step_status[s] = "done" <=> wk[w].prev[s] = "done"
  BY <1>1, InEngineVerdict
<1> HIDE DEF c, Q
<1>3. d.step_status = c.step_status /\ Marks(c, d) /\ Paused(c, d)
  BY <1>2 DEF TaskContext, Marks, Paused
<1> HIDE DEF d
<1>4. r.pc = "exec" /\ r.ctx = d /\ r.prev = wk[w].prev /\ r.mode = wk[w].mode
  BY <1>1, Typed DEF Worker
<1> HIDE DEF r
<1>5. VerdictOK(d) /\ PauseOK(d) BY <1>2, <1>3, NoVerdict DEF Marks, Paused, PauseOK
<1>6. EngineOK(r) BY <1>2, <1>3, <1>4 DEF EngineOK, SameDone, Marks, Paused
<1> QED BY <1>1, <1>4, <1>5, <1>6, VerdictMoves

\* Another attempt changes no status: verdicts and pauses stay right.
LEMMA RetryStepVerdicts ==
    ASSUME IInv, VInv, NEW w \in Workers, RetryStep(w) PROVE VInv'
<1> DEFINE n == wk[w].tries + 1
           r == [wk[w] EXCEPT !.tries = n]
<1>1. Go(w, r) /\ UNCHANGED store BY DEF RetryStep
<1> HIDE DEF n
<1>2. r.pc = wk[w].pc /\ r.ctx = wk[w].ctx /\ r.prev = wk[w].prev /\ r.mode = wk[w].mode
  BY Typed DEF Worker
<1> HIDE DEF r
<1>3. VerdictOK(r.ctx) /\ EngineOK(r) BY <1>2 DEF VInv, EngineOK, SameDone
<1>4. VerdictOK(store') /\ PauseOK(store') BY <1>1 DEF VInv
<1> QED BY <1>1, <1>3, <1>4, VerdictMoves

\* The step fails or is degraded: verdicts and pauses stay right.
LEMMA StepFailsVerdicts ==
    ASSUME IInv, VInv, NEW w \in Workers, NEW x \in Causes, StepFails(w, x) PROVE VInv'
<1> DEFINE c == wk[w].ctx
           f == wk[w].cur
           d == FailedContext(c, f, x)
<1>1. /\ IF f \in Degradable THEN AfterStep(w, d)
         ELSE IF f \notin FailFast /\ wk[w].mode = "run" THEN ToSched(w, d)
         ELSE ToPost(w, d)
      /\ UNCHANGED store /\ wk[w].pc = "exec"
  BY DEF StepFails
<1>2. /\ c \in TaskContext /\ c.plan_status = "none" /\ c.paused_reason # "waiting_consent"
      /\ c.status = "running" /\ f \in Steps /\ c.step_status[f] = "running"
      /\ c.paused_step_id = NoStep
      /\ wk[w].mode # "run" =>
            \A s \in Steps : c.step_status[s] = "done" <=> wk[w].prev[s] = "done"
      /\ VerdictOK(store') /\ PauseOK(store')
  BY <1>1, InEngineVerdict, InEngine
<1> HIDE DEF c, f
<1>3. /\ d \in TaskContext /\ Marks(c, d)
      /\ d.paused_reason \in {c.paused_reason, "post_verification_failed"}
      /\ IF f \notin Degradable /\ f \in FailFast
         THEN d.status = "failed" /\ d.paused_step_id = f
         ELSE d.status = "running"
      /\ \A t \in Steps : d.step_status[t] =
             IF t = f THEN IF f \in Degradable THEN "degraded" ELSE "failed" ELSE c.step_status[t]
  BY <1>2, FailedFields
<1> HIDE DEF d
<1>4. d.plan_status = "none" /\ d.paused_reason # "waiting_consent" BY <1>2, <1>3 DEF Marks
<1>5. \A s \in Steps : d.step_status[s] = "done" <=> c.step_status[s] = "done" BY <1>2, <1>3
<1>6. CASE f \in Degradable BY <1>1, <1>3, <1>4, <1>6, AfterStepVerdicts
<1>7. CASE f \notin Degradable /\ f \notin FailFast /\ wk[w].mode = "run"
  BY <1>1, <1>2, <1>4, <1>7, ToSchedVerdicts
<1>8. CASE f \notin Degradable /\ ~(f \notin FailFast /\ wk[w].mode = "run")
  BY <1>1, <1>2, <1>4, <1>5, <1>8, ToPostVerdicts
<1> QED BY <1>6, <1>7, <1>8

\* The failed step is made pending and saved: verdicts and pauses stay right.
LEMMA FallBackVerdicts ==
    ASSUME IInv, VInv, NEW w \in Workers, FallBack(w) PROVE VInv'
<1> DEFINE b == wk[w].ctx
           c == [advance(b) EXCEPT !.status = "running"]
           e == EngineStart(c)
           f == FailedStep(b)
<1>1. store' = c /\ ToSched(w, e) /\ wk[w].pc = "post" /\ b.status = "failed"
  BY DEF FallBack, FallsBack
<1>2. /\ b \in TaskContext /\ b.plan_status = "none"
      /\ b.paused_step_id # NoStep => b.step_status[b.paused_step_id] = "failed"
      /\ wk[w].mode # "run" =>
            \A s \in Steps : b.step_status[s] = "done" <=> wk[w].prev[s] = "done"
  BY <1>1, Typed DEF VInv, EngineOK, SameDone, IInv, WorkerOK
<1> HIDE DEF b
<1>3. /\ c \in TaskContext /\ Marks(b, c) /\ c.status = "running"
      /\ f # NoStep => f \in Steps /\ b.step_status[f] = "failed"
      /\ \A s \in Steps : c.step_status[s] = IF s = f THEN "pending" ELSE b.step_status[s]
  BY <1>2, AdvanceFields
<1> HIDE DEF c, f
<1>4. Marks(c, e) /\ e.step_status = c.step_status /\ e.paused_reason = "none"
  BY <1>3, EngineStartFields
<1> HIDE DEF e
<1>5. \A s \in Steps : e.step_status[s] = "done" <=> b.step_status[s] = "done"
  BY <1>3, <1>4, PlanAssumption
<1>6. VerdictOK(c) /\ PauseOK(c) BY <1>2, <1>3, NoVerdict DEF Marks, PauseOK
<1> QED BY <1>1, <1>2, <1>3, <1>4, <1>5, <1>6, ToSchedVerdicts DEF Marks

\* What execute_next and _run make of the engine's context, up to the consent request.
LEMMA ResultVerdict ==
    ASSUME IInv, VInv, NEW w \in Workers, wk[w].pc = "post", NEW r \in EngineResults(w)
    PROVE  /\ r \in TaskContext /\ VerdictOK(r)
           /\ r.paused_reason = wk[w].ctx.paused_reason
           /\ r.paused_reason = "waiting_consent" => HeldAt(r) /\ r.plan_status = "none"
<1> DEFINE b == wk[w].ctx
<1>1. /\ b \in TaskContext /\ b.plan_status = "none" /\ VerdictOK(b)
      /\ b.paused_reason = "waiting_consent" => HeldAt(b)
      /\ wk[w].mode # "run" /\ b.status = "paused" =>
            \A s \in Steps : b.step_status[s] = "done" <=> wk[w].prev[s] = "done"
  BY Typed DEF VInv, EngineOK, SameDone
<1>2. ASSUME NEW u \in TaskContext, VerdictOK(u), u.plan_status = "none",
             u.paused_reason = b.paused_reason,
             u.paused_reason = "waiting_consent" => HeldAt(u),
             NEW f, f = finalize_plan_status(u) \/ (f = u /\ ~CanFinalize(u)),
             r = apply_sample_terminal_feedback(f)
      PROVE  /\ r \in TaskContext /\ VerdictOK(r) /\ r.paused_reason = b.paused_reason
             /\ r.paused_reason = "waiting_consent" => HeldAt(r) /\ r.plan_status = "none"
  <2>1. f = finalize_plan_status(u) BY <1>2 DEF finalize_plan_status
  <2>2. VerdictOK(f) BY <1>2, <2>1, FinalizeVerdict DEF HeldAt
  <2>3. /\ f \in TaskContext /\ f.paused_reason = u.paused_reason
        /\ u.paused_reason = "waiting_consent" => f = u
    BY <1>2, <2>1, FinalizeFields DEF CanFinalize, HeldAt
  <2>4. /\ r \in TaskContext /\ VerdictOK(r) /\ Paused(f, r) /\ r.plan_status = f.plan_status
        /\ r.step_status = f.step_status
    BY <1>2, <2>2, <2>3, FeedbackFields, FeedbackVerdict
  <2> QED BY <1>2, <2>3, <2>4 DEF Paused, HeldAt
<1>3. CASE wk[w].mode = "run"
  <2> DEFINE d == [b EXCEPT !.status = "running"]
             f == IF ~CanFinalize(b) /\ b.status = "failed" THEN d ELSE finalize_plan_status(b)
  <2>1. r = apply_sample_terminal_feedback(f) BY <1>3 DEF EngineResults, RunResult
  <2> HIDE DEF b
  <2>2. CASE ~CanFinalize(b) /\ b.status = "failed"
    <3>1. d \in TaskContext /\ Marks(b, d) /\ d.status = "running" /\ d.paused_reason = b.paused_reason
      BY <1>1, StatusFields DEF PlanStatus
    <3>2. ~CanFinalize(d)
      <4>1. d.step_status = b.step_status BY <1>1 DEF TaskContext
      <4>2. b.paused_reason # "waiting_consent" BY <1>1, <2>2 DEF VerdictOK
      <4> QED BY <1>1, <2>2, <3>1, <4>1 DEF CanFinalize, evaluate_plan_status, StepsWith, Marks
    <3>3. f = d BY <2>2
    <3> HIDE DEF d, f
    <3>4. VerdictOK(d) BY <1>1, <3>1, NoVerdict DEF Marks
    <3>5. d.paused_reason # "waiting_consent" BY <1>1, <2>2, <3>1 DEF VerdictOK
    <3> QED BY <1>1, <1>2, <2>1, <3>1, <3>2, <3>3, <3>4, <3>5 DEF Marks, b
  <2>3. CASE ~(~CanFinalize(b) /\ b.status = "failed")
    <3>1. f = finalize_plan_status(b) BY <2>3
    <3> HIDE DEF f
    <3> QED BY <1>1, <1>2, <2>1, <3>1 DEF b
  <2> QED BY <2>2, <2>3
<1>4. CASE wk[w].mode # "run"
  <2> DEFINE d == propagate_failure(b, StepsWith(b, {"failed"}))
  <2>1. PICK U \in SUBSET Steps :
            /\ Unblocks(w, U)
            /\ r = apply_sample_terminal_feedback(finalize_plan_status(propagate_unblock(d, U)))
    BY <1>4 DEF EngineResults, NextResult
  <2> DEFINE u == propagate_unblock(d, U)
  <2>2. b.status = "paused" => U = {}
    <3>1. SUFFICES ASSUME b.status = "paused" PROVE U = {} OBVIOUS
    <3>2. NewlyDone(w) = {} BY <1>1, <1>4, <3>1 DEF NewlyDone, StepsWith
    <3> QED BY <1>4, <2>1, <3>2 DEF Unblocks
  <2>3. r = apply_sample_terminal_feedback(finalize_plan_status(u)) BY <2>1
  <2> HIDE DEF b
  <2>4. /\ d \in TaskContext /\ Marks(b, d) /\ Paused(b, d)
        /\ \A s \in Steps : b.step_status[s] = "blocked" => d.step_status[s] = "blocked"
    BY <1>1, PropagateFailureFields
  <2> HIDE DEF d
  <2>5. /\ u \in TaskContext /\ Paused(d, u) /\ u.plan_status = d.plan_status
        /\ \A s \in Steps : u.step_status[s] = IF s \in U THEN "pending" ELSE d.step_status[s]
    BY <2>4, PropagateUnblockFields
  <2> HIDE DEF u
  <2>6. u.plan_status = "none" /\ u.paused_reason = b.paused_reason /\ u.status = b.status
    BY <1>1, <2>4, <2>5 DEF Marks, Paused
  <2>7. u.paused_reason = "waiting_consent" => HeldAt(u)
    BY <1>1, <2>2, <2>4, <2>5, <2>6, PlanAssumption DEF HeldAt, Paused
  <2>8. VerdictOK(u) BY <1>1, <2>6, NoVerdict DEF VerdictOK
  <2> QED BY <1>2, <2>3, <2>5, <2>6, <2>7, <2>8 DEF b
<1> QED BY <1>3, <1>4

\* The result is saved and its events collected: verdicts and pauses stay right.
LEMMA FinishRunVerdicts ==
    ASSUME IInv, VInv, NEW w \in Workers, FinishRun(w) PROVE VInv'
<1>1. PICK r \in EngineResults(w) :
        LET p == prepare_consent_pause(r)
            c == collect_step_events(p)
        IN  /\ store' = c
            /\ Go(w, [wk[w] EXCEPT !.pc = "publish", !.ctx = c,
                         !.pub = UnpublishedSteps(p) \cap StepsWith(p, {"done"})])
  BY DEF FinishRun
<1> DEFINE p == prepare_consent_pause(r)
           c == collect_step_events(p)
           B == UnpublishedSteps(p) \cap StepsWith(p, {"done"})
           q == [wk[w] EXCEPT !.pc = "publish", !.ctx = c, !.pub = B]
<1>2. store' = c /\ Go(w, q) BY <1>1
<1>3. /\ r \in TaskContext /\ VerdictOK(r)
      /\ r.paused_reason = "waiting_consent" => HeldAt(r) /\ r.plan_status = "none"
  BY ResultVerdict DEF FinishRun
<1>4. /\ p \in TaskContext /\ p.step_status = r.step_status /\ p.plan_status = r.plan_status
      /\ p.paused_reason = r.paused_reason /\ p.paused_step_id = r.paused_step_id
      /\ ~WaitsForConsent(r) => p = r
      /\ WaitsForConsent(r) =>
             p.status = "paused" /\ p.step_consent_requests[p.paused_step_id] # NoStep
  BY <1>3, PrepareFields
<1> HIDE DEF p, B
<1>5. /\ c \in TaskContext /\ c.step_status = p.step_status /\ Paused(p, c)
      /\ c.plan_status = p.plan_status /\ c.step_consent_requests = p.step_consent_requests
  BY <1>4, CollectFields
<1> HIDE DEF c
<1>6. q.pc = "publish" /\ q.ctx = c BY Typed DEF Worker
<1> HIDE DEF q
<1>7. CASE r.paused_reason = "waiting_consent"
  <2>1. WaitsForConsent(r) /\ HeldAt(r) /\ r.plan_status = "none"
    BY <1>3, <1>7, PlanAssumption DEF WaitsForConsent, HeldAt
  <2>2. PauseOK(c) BY <1>4, <1>5, <2>1 DEF PauseOK, HeldAt, Paused
  <2>3. VerdictOK(c) BY <1>4, <1>5, <2>1, NoVerdict DEF Paused
  <2>4. EngineOK(q) BY <1>6 DEF EngineOK
  <2> QED BY <1>2, <1>6, <2>2, <2>3, <2>4, VerdictMoves
<1>8. CASE r.paused_reason # "waiting_consent"
  <2>1. p = r BY <1>4, <1>8 DEF WaitsForConsent
  <2>2. VerdictOK(c) BY <1>3, <1>5, <2>1 DEF VerdictOK, Paused, is_terminal
  <2>3. PauseOK(c) BY <1>5, <1>8, <2>1 DEF PauseOK, Paused
  <2>4. EngineOK(q) BY <1>6 DEF EngineOK
  <2> QED BY <1>2, <1>6, <2>2, <2>3, <2>4, VerdictMoves
<1> QED BY <1>7, <1>8

\* The events go out and the worker goes on: verdicts and pauses stay right.
LEMMA PublishVerdicts ==
    ASSUME IInv, VInv, NEW w \in Workers, PublishEvents(w) PROVE VInv'
<1>1. Go(w, LoopAgain(w, wk[w].ctx)) /\ UNCHANGED store BY DEF PublishEvents
<1>2. wk[w].ctx \in TaskContext /\ VerdictOK(wk[w].ctx) /\ VerdictOK(store) /\ PauseOK(store)
  BY Typed DEF VInv
<1>3. EngineOK(LoopAgain(w, wk[w].ctx)) /\ VerdictOK(LoopAgain(w, wk[w].ctx).ctx)
  BY <1>2, AgainEngine
<1> QED BY <1>1, <1>2, <1>3, VerdictMoves

\* The endpoints.
LEMMA EndpointVerdicts == ASSUME IInv, VInv, Endpoint PROVE VInv'
<1>0. store \in TaskContext /\ VerdictOK(store) /\ PauseOK(store) BY DEF VInv, IInv, TypeOK
<1>1. ASSUME NEW reason \in {"user_input", "manual_pause"}, pause(reason) PROVE VInv'
  <2> DEFINE d == [store EXCEPT !.status = "paused", !.paused_reason = reason, !.paused_step_id = NoStep]
  <2>1. store' = d /\ UNCHANGED wk /\ ~is_terminal(store) BY <1>1 DEF pause
  <2>2. store.plan_status = "none" BY <1>0, <2>1, OpenHasNoVerdict
  <2>3. d.plan_status = "none" /\ d.paused_reason = reason /\ d.status = "paused"
    BY <1>0, <2>2 DEF TaskContext
  <2> HIDE DEF d
  <2>4. VerdictOK(d) /\ PauseOK(d) BY <1>1, <2>3, NoVerdict DEF PauseOK
  <2> QED BY <2>1, <2>4, VerdictStays
<1>2. ASSUME resume_plan PROVE VInv'
  <2> DEFINE d == EngineStart(store)
  <2>1. store' = d /\ UNCHANGED wk /\ ~is_terminal(store) BY <1>2 DEF resume_plan
  <2>2. store.plan_status = "none" BY <1>0, <2>1, OpenHasNoVerdict
  <2>3. Marks(store, d) /\ d.paused_reason = "none" BY <1>0, EngineStartFields
  <2> HIDE DEF d
  <2>4. VerdictOK(d) /\ PauseOK(d) BY <2>2, <2>3, NoVerdict DEF PauseOK, Marks
  <2> QED BY <2>1, <2>4, VerdictStays
<1>3. ASSUME cancel PROVE VInv'
  <2> DEFINE open == {s \in Steps : store.step_status[s] \notin FINAL_STEP_STATUSES}
             e == Settle(store, open, "cancelled")
             d == [e EXCEPT !.status = "cancelled"]
             c == apply_sample_terminal_feedback(d)
  <2>1. store' = c /\ UNCHANGED wk BY <1>3 DEF cancel
  <2>2. open \subseteq Steps /\ \A s \in Steps : s \in open => store.step_status[s] \notin {"done", "failed", "cancelled"}
    BY DEF FINAL_STEP_STATUSES
  <2> HIDE DEF open
  <2>3. /\ e \in TaskContext /\ Marks(store, e) /\ Paused(store, e)
        /\ \A s \in Steps : e.step_status[s] = IF s \in open THEN "cancelled" ELSE store.step_status[s]
    BY <1>0, <2>2, SettleFields DEF StepStatus
  <2> HIDE DEF e
  <2>4. /\ d \in TaskContext /\ Marks(e, d) /\ d.step_status = e.step_status
        /\ d.status = "cancelled" /\ d.paused_reason = e.paused_reason
    BY <2>3, StatusFields DEF PlanStatus
  <2> HIDE DEF d
  <2>5. VerdictOK(d)
    BY <1>0, <2>2, <2>3, <2>4 DEF VerdictOK, Marks, Paused, is_terminal, FINAL_PLAN_STATUSES
  <2>6. VerdictOK(c) /\ c.status = "cancelled" BY <2>4, <2>5, FeedbackVerdict, FeedbackFields DEF Paused
  <2> HIDE DEF c
  <2> QED BY <2>1, <2>6, VerdictStays DEF PauseOK
<1>4. ASSUME NEW s \in Steps, retry_failed_step(s) PROVE VInv'
  <2>1. UNCHANGED wk /\ store'.status = "running" /\ store'.plan_status = "none"
    <3> DEFINE e == SetStatus(store, {s}, "pending")
               P == store.processed_steps \ {s}
               E == store.published_step_events \ {s}
               Q == store.quality_retried \ {s}
               x == IF store.paused_step_id = s THEN "none" ELSE e.paused_reason
               y == IF store.paused_step_id = s THEN NoStep ELSE e.paused_step_id
    <3>1. /\ store' = [e EXCEPT !.processed_steps = P, !.published_step_events = E,
                                !.quality_retried = Q, !.paused_reason = x, !.paused_step_id = y,
                                !.status = "running", !.plan_status = "none"]
          /\ UNCHANGED wk
      BY <1>4 DEF retry_failed_step, VerdictAfterRetry
    <3>2. e \in TaskContext BY <1>0, SetStatusFields DEF StepStatus
    <3> HIDE DEF e, P, E, Q, x, y
    <3> QED BY <3>1, <3>2 DEF TaskContext
  <2> QED BY <2>1, NoVerdict, VerdictStays DEF PauseOK
<1>5. ASSUME NEW r \in Steps, NEW allowed \in BOOLEAN, decide(r, allowed) PROVE VInv'
  BY <1>0, <1>5, VerdictStays DEF decide
<1> QED BY <1>1, <1>2, <1>3, <1>4, <1>5 DEF Endpoint

\* Every step of the system keeps the verdict invariant.
LEMMA VerdictStep == IInv /\ VInv /\ [Next]_vars => VInv'
<1> SUFFICES ASSUME IInv, VInv, [Next]_vars PROVE VInv' OBVIOUS
<1>0. VerdictOK(store) /\ PauseOK(store) BY DEF VInv
<1>1. ASSUME NEW w \in Workers, Engine(w) PROVE VInv'
  <2>1. CASE StreamEnd(w) BY <1>0, <2>1, StopVerdicts DEF StreamEnd
  <2>2. CASE StayGated(w) BY <1>0, <2>2, StopVerdicts DEF StayGated
  <2>3. CASE \E x \in Causes : StepFails(w, x) BY <2>3, StepFailsVerdicts
  <2> QED
    BY <1>1, <2>1, <2>2, <2>3, ReturnEarlyVerdicts, BecomeGatedVerdicts, EnterEngineVerdicts,
       NothingReadyVerdicts, AskConsentVerdicts, SkipStepVerdicts, InvokeStepVerdicts,
       StepSucceedsVerdicts, QualityRetryVerdicts, RetryStepVerdicts, FallBackVerdicts,
       FinishRunVerdicts, PublishVerdicts
    DEF Engine
<1>2. ASSUME NEW w \in Workers, Call(w) PROVE VInv'
  BY <1>2, StartVerdicts, StreamResumeVerdicts, ResumeVerdicts DEF Call
<1>3. CASE Restart
  <2>1. \A w \in Workers : wk'[w] = IdleWorker BY <1>3 DEF Restart
  <2>2. store' = store BY <1>3 DEF Restart
  <2> QED BY <1>0, <2>1, <2>2, IdleEngine DEF VInv
<1>4. CASE UNCHANGED vars
  <2>1. UNCHANGED <<wk, store>> BY <1>4 DEF vars
  <2> QED BY <1>0, <2>1, VerdictStays
<1> QED BY <1>1, <1>2, <1>3, <1>4, EndpointVerdicts DEF Next

\* A created plan has no verdict and waits for nothing.
LEMMA VerdictStarts == Init => VInv
<1> SUFFICES ASSUME Init PROVE VInv OBVIOUS
<1>1. store = CreatedContext /\ \A w \in Workers : wk[w] = IdleWorker BY DEF Init
<1>2. VerdictOK(store) /\ PauseOK(store) BY <1>1 DEF CreatedContext, VerdictOK, PauseOK
<1> QED BY <1>1, <1>2, IdleEngine DEF VInv

\* In every copy of the context the cached verdict is true and no verdict stands beside an
\* open decision (_finalize_plan_status, retry_failed_step), for any number of workers.
THEOREM VerdictsInvariant == Spec => [](IInv /\ VInv)
<1>1. Init /\ [][Next]_vars /\ []IInv => []VInv BY VerdictStarts, VerdictStep, PTL
<1> QED BY <1>1, Invariance, PTL DEF Spec

\* ConsentPauseIsComplete for every plan and any number of workers: a plan saved as waiting
\* for a consent names a held-back step and a request (prepare_consent_pause).
THEOREM PausesAreComplete == Spec => []ConsentPauseIsComplete
<1>1. VInv => ConsentPauseIsComplete
  BY DEF VInv, PauseOK, HeldAt, ConsentPauseIsComplete
<1> QED BY <1>1, VerdictsInvariant, PTL
-----------------------------------------------------------------------------
(* What has been said of the plan, when one thread at a time works on it.  *)

OneWorker == \A v, w \in Workers : v = w

\* Events a, outcome calls o and the verification v are backed by the copy c.
Tells(c, a, o, v) ==
    /\ \A s \in Steps : a[s] # 0 => c.step_status[s] = "done" /\ s \in c.published_step_events
    /\ o # 0 => c.feedback_applied
    /\ v => \A s \in Steps : c.step_status[s] = "done"

\* What r is about to publish is in the snapshot c, and nobody has heard of it.
ToTell(r, c, a) ==
    r.pc = "publish" => \A s \in r.pub :
        /\ a[s] = 0
        /\ c.step_status[s] = "done" /\ s \in c.published_step_events
        /\ r.ctx.step_status[s] = "done" /\ s \in r.ctx.published_step_events

TInv ==
    /\ Tells(store, announced, outcomes, verified) /\ ReportedOnce
    /\ \A w \in Workers :
          /\ wk[w].pc # "idle" => Tells(wk[w].ctx, announced, outcomes, verified)
          /\ ToTell(wk[w], store, announced)

\* A done step stays done and its event published, the feedback stays applied.
Kept(c, d) ==
    /\ \A s \in Steps : c.step_status[s] = "done" =>
          /\ d.step_status[s] = "done"
          /\ s \in c.published_step_events => s \in d.published_step_events
    /\ c.feedback_applied => d.feedback_applied

\* What keeps a copy keeps what was told of it.
LEMMA KeptTells ==
    ASSUME NEW c, NEW d, NEW a, NEW o, NEW v, Tells(c, a, o, v), Kept(c, d)
    PROVE  Tells(d, a, o, v)
BY DEF Tells, Kept

\* Keeping composes.
LEMMA KeptTrans ==
    ASSUME NEW c, NEW d, NEW e, Kept(c, d), Kept(d, e) PROVE Kept(c, e)
BY DEF Kept

\* The marks stay and so do the done steps.
LEMMA KeptMarks ==
    ASSUME NEW c, NEW d, Marks(c, d),
           \A s \in Steps : c.step_status[s] = "done" => d.step_status[s] = "done"
    PROVE  Kept(c, d)
BY DEF Marks, Kept

\* The outcome is recorded at most once, and on a plan that backs it.
LEMMA RecordTells ==
    ASSUME IInv, ReportedOnce, NEW c, NEW d, Tells(c, announced, outcomes, verified),
           Kept(c, d), RecordOutcome(c, d), UNCHANGED announced
    PROVE  Tells(d, announced', outcomes', verified') /\ ReportedOnce'
<1>0. Tells(d, announced, outcomes, verified) BY KeptTells
<1>1. CASE ~(d.feedback_applied /\ ~c.feedback_applied /\ d.status # "cancelled")
  <2>1. UNCHANGED <<outcomes, verified>> BY <1>1 DEF RecordOutcome
  <2> QED BY <1>0, <2>1 DEF ReportedOnce
<1>2. CASE d.feedback_applied /\ ~c.feedback_applied /\ d.status # "cancelled"
  <2>1. outcomes' = More(outcomes) /\ verified' = (verified \/ AllGreen(d))
    BY <1>2 DEF RecordOutcome
  <2>2. outcomes = 0 BY <1>2 DEF Tells
  <2>3. outcomes' = 1 BY <2>1, <2>2 DEF More
  <2>4. verified' => \A s \in Steps : d.step_status[s] = "done"
    BY <1>0, <2>1 DEF Tells, AllGreen
  <2>5. Tells(d, announced', outcomes', verified') BY <1>0, <1>2, <2>3, <2>4 DEF Tells
  <2> QED BY <2>3, <2>5 DEF ReportedOnce
<1> QED BY <1>1, <1>2

-----------------------------------------------------------------------------
\* The worker moves and publishes nothing.
LEMMA ToldMoves ==
    ASSUME OneWorker, IInv, NEW w \in Workers, NEW r, Go(w, r), r.pc # "publish",
           ReportedOnce', Tells(store', announced', outcomes', verified'),
           r.pc # "idle" => Tells(r.ctx, announced', outcomes', verified')
    PROVE  TInv'
<1>1. wk'[w] = r BY Typed DEF Go
<1>2. ASSUME NEW v \in Workers
      PROVE  /\ wk'[v].pc # "idle" => Tells(wk'[v].ctx, announced', outcomes', verified')
             /\ ToTell(wk'[v], store', announced')
  <2>1. wk'[v] = r BY <1>1 DEF OneWorker
  <2> QED BY <2>1 DEF ToTell
<1> QED BY <1>2 DEF TInv

\* The snapshot changes under the worker.
LEMMA ToldStays ==
    ASSUME IInv, TInv, UNCHANGED <<wk, announced, outcomes, verified>>, Kept(store, store')
    PROVE  TInv'
<1>1. Tells(store', announced', outcomes', verified') /\ ReportedOnce'
  BY KeptTells DEF TInv, ReportedOnce
<1>2. ASSUME NEW v \in Workers
      PROVE  /\ wk'[v].pc # "idle" => Tells(wk'[v].ctx, announced', outcomes', verified')
             /\ ToTell(wk'[v], store', announced')
  <2>1. wk[v] \in Worker BY Typed
  <2>2. wk[v].pub \subseteq Steps BY <2>1 DEF Worker
  <2>3. ToTell(wk[v], store, announced) BY DEF TInv
  <2>4. ToTell(wk[v], store', announced) BY <2>2, <2>3 DEF ToTell, Kept
  <2> QED BY <2>4 DEF TInv
<1> QED BY <1>1, <1>2 DEF TInv

\* The worker goes round its loop, or leaves, with a copy that tells the same.
LEMMA LoopTells ==
    ASSUME NEW c \in TaskContext, NEW w, NEW a, NEW o, NEW v, Tells(c, a, o, v)
    PROVE  LET r == LoopAgain(w, c)
           IN  r.pc # "publish" /\ (r.pc # "idle" => Tells(r.ctx, a, o, v))
<1>1. CASE LoopAgain(w, c) = AtLoop("stream", c)
  <2>1. AtLoop("stream", c).ctx = c /\ AtLoop("stream", c).pc = "loop" BY LoopEngine DEF Modes
  <2> QED BY <1>1, <2>1
<1>2. CASE LoopAgain(w, c) = IdleWorker BY <1>2 DEF IdleWorker
<1> QED BY <1>1, <1>2 DEF LoopAgain

\* A worker takes the snapshot as it is: what was told stays backed.
LEMMA StartTold ==
    ASSUME OneWorker, IInv, TInv, NEW w \in Workers,
           StreamStart(w) \/ IdleExecute(w) \/ ManualExecute(w)
    PROVE  TInv'
<1>1. PICK m \in Modes :
          Go(w, AtLoop(m, store)) /\ UNCHANGED <<store, announced, outcomes, verified>>
  BY DEF StreamStart, IdleExecute, ManualExecute, Modes, history
<1>2. AtLoop(m, store).ctx = store /\ AtLoop(m, store).pc = "loop" BY Typed, LoopEngine
<1> QED BY <1>1, <1>2, ToldMoves DEF TInv, ReportedOnce

\* A decided consent is applied and saved: what was told stays backed.
LEMMA StreamResumeTold ==
    ASSUME OneWorker, IInv, TInv, NEW w \in Workers, StreamResume(w) PROVE TInv'
<1> DEFINE q == get_step_consent_request(store, store.paused_step_id)
           g == GrantConsent(store)
           c == [g EXCEPT !.status = "running"]
           d == DenyConsent(store)
<1>1. /\ store \in TaskContext /\ WaitsForConsent(store) /\ UNCHANGED <<announced, outcomes, verified>>
      /\ store.paused_step_id \in Steps /\ store.step_status[store.paused_step_id] # "done"
  BY Typed DEF StreamResume, IInv, Good, WaitOK, Sat, DEPENDENCY_SATISFIED_STATUSES,
               WaitsForConsent, TaskContext
<1>3. CASE requests[q] = "allowed"
  <2>1. store' = c /\ Go(w, AtLoop("stream", c)) BY <1>3 DEF StreamResume
  <2>2. /\ g \in TaskContext /\ Marks(store, g)
        /\ \A s \in Steps : g.step_status[s] =
               IF s = store.paused_step_id THEN "ready" ELSE store.step_status[s]
    BY <1>1, GrantFields
  <2> HIDE DEF g
  <2>3. c \in TaskContext /\ Marks(g, c) /\ c.step_status = g.step_status
    BY <2>2, StatusFields DEF PlanStatus
  <2> HIDE DEF c
  <2>4. Kept(store, g) /\ Kept(g, c) BY <1>1, <2>2, <2>3, KeptMarks
  <2>5. Tells(c, announced, outcomes, verified) BY <2>4, KeptTells DEF TInv
  <2>6. AtLoop("stream", c).ctx = c /\ AtLoop("stream", c).pc = "loop" BY <2>3, LoopEngine DEF Modes
  <2> QED BY <1>1, <2>1, <2>5, <2>6, ToldMoves DEF TInv, ReportedOnce
<1>4. CASE requests[q] # "allowed"
  <2>1. store' = d /\ UNCHANGED wk BY <1>4 DEF StreamResume
  <2>2. /\ Marks(store, d)
        /\ \A s \in Steps : d.step_status[s] =
               IF s = store.paused_step_id THEN "cancelled" ELSE store.step_status[s]
    BY <1>1, DenyFields
  <2> HIDE DEF d
  <2>3. Kept(store, d) BY <1>1, <2>2, KeptMarks
  <2> QED BY <1>1, <2>1, <2>3, ToldStays
<1> QED BY <1>3, <1>4

\* resume saves the decision and starts _run: what was told stays backed.
LEMMA ResumeTold ==
    ASSUME OneWorker, IInv, TInv, NEW w \in Workers, NEW a, Resume(w, a) PROVE TInv'
<1> DEFINE p == store.paused_step_id
           waits == store.status = "paused" /\ WaitsForConsent(store)
           q == get_step_consent_request(store, p)
           kept == IF waits /\ q # NoStep THEN set_step_consent_request(store, p, q) ELSE store
<1>1. /\ store \in TaskContext /\ UNCHANGED announced
      /\ WaitsForConsent(store) => p \in Steps /\ store.step_status[p] # "done"
  BY Typed DEF Resume, IInv, Good, WaitOK, Sat, DEPENDENCY_SATISFIED_STATUSES,
               WaitsForConsent, TaskContext
<1>3. /\ kept \in TaskContext /\ Kept(store, kept) /\ Paused(store, kept)
      /\ kept.step_status = store.step_status /\ kept.feedback_applied = store.feedback_applied
  <2>1. CASE waits /\ q # NoStep
    <3>1. p \in Steps /\ q \in Steps \cup {NoStep} BY <1>1, <2>1, RequestType
    <3> DEFINE x == set_step_consent_request(store, p, q)
    <3>2. kept = x BY <2>1
    <3> HIDE DEF kept, p, q
    <3>3. /\ x \in TaskContext /\ x.step_status = store.step_status /\ Paused(store, x)
          /\ x.published_step_events = store.published_step_events
          /\ x.feedback_applied = store.feedback_applied
      BY <1>1, <3>1, RequestFields
    <3> HIDE DEF x
    <3> QED BY <3>2, <3>3 DEF Kept
  <2>2. CASE ~(waits /\ q # NoStep)
    <3>1. kept = store BY <2>2
    <3> HIDE DEF kept
    <3> QED BY <1>1, <3>1 DEF Paused, Kept
  <2> QED BY <2>1, <2>2
<1>4. waits => WaitsForConsent(kept)
  <2> HIDE DEF kept
  <2> QED BY <1>3 DEF Paused, WaitsForConsent
<1>5. CASE waits /\ a = "no"
  <2> DEFINE d == DenyConsent(kept)
             c == apply_sample_terminal_feedback(d)
  <2>1. store' = c /\ UNCHANGED wk /\ RecordOutcome(store, c) BY <1>5 DEF Resume
  <2> HIDE DEF kept
  <2>3. /\ d \in TaskContext /\ Marks(kept, d) /\ d.status = "cancelled"
        /\ \A s \in Steps : d.step_status[s] =
               IF s = kept.paused_step_id THEN "cancelled" ELSE kept.step_status[s]
    BY <1>3, <1>4, <1>5, DenyFields
  <2> HIDE DEF d
  <2>4. /\ Paused(d, c) /\ c.step_status = d.step_status
        /\ c.published_step_events = d.published_step_events
        /\ d.feedback_applied => c.feedback_applied
    BY <2>3, FeedbackFields
  <2> HIDE DEF c
  <2>5. Kept(kept, d)
    BY <1>1, <1>3, <1>5, <2>3, KeptMarks DEF Paused
  <2>6. Kept(d, c) BY <2>4 DEF Kept
  <2>7. Kept(store, c) BY <1>3, <2>5, <2>6, KeptTrans
  <2>8. UNCHANGED <<outcomes, verified>> BY <2>1, <2>3, <2>4 DEF RecordOutcome, Paused
  <2> QED BY <1>1, <2>1, <2>7, <2>8, ToldStays
<1>6. CASE ~(waits /\ a = "no")
  <2> DEFINE grants == waits /\ a = "yes"
             c == IF grants THEN GrantConsent(kept) ELSE kept
             e == EngineStart(c)
             r == [IdleWorker EXCEPT !.pc = "sched", !.mode = "run", !.ctx = e]
  <2>1. store' = c /\ Go(w, r) /\ UNCHANGED <<outcomes, verified>> BY <1>6 DEF Resume
  <2> HIDE DEF kept
  <2>3. c \in TaskContext /\ Kept(kept, c)
    <3>1. CASE grants
      <4> DEFINE g == GrantConsent(kept)
      <4>1. /\ g \in TaskContext /\ Marks(kept, g)
            /\ \A s \in Steps : g.step_status[s] =
                   IF s = kept.paused_step_id THEN "ready" ELSE kept.step_status[s]
        BY <1>3, <1>4, <3>1, GrantFields
      <4>2. c = g BY <3>1
      <4> HIDE DEF g, c
      <4>3. Kept(kept, g) BY <1>1, <1>3, <3>1, <4>1, KeptMarks DEF Paused
      <4> QED BY <4>1, <4>2, <4>3
    <3>2. CASE ~grants
      <4>1. c = kept BY <3>2
      <4> HIDE DEF c
      <4> QED BY <1>3, <4>1 DEF Kept
    <3> QED BY <3>1, <3>2
  <2> HIDE DEF c
  <2>5. Marks(c, e) /\ e.step_status = c.step_status BY <2>3, EngineStartFields
  <2> HIDE DEF e
  <2>6. r.pc = "sched" /\ r.ctx = e BY IdleWorkerOK DEF Worker
  <2> HIDE DEF r
  <2>7. Kept(store, c) /\ Kept(c, e) BY <1>3, <2>3, <2>5, KeptTrans, KeptMarks
  <2>8. Tells(c, announced, outcomes, verified) BY <2>7, KeptTells DEF TInv
  <2>9. Tells(e, announced, outcomes, verified) BY <2>7, <2>8, KeptTells
  <2> QED BY <1>1, <2>1, <2>6, <2>8, <2>9, ToldMoves DEF TInv, ReportedOnce
<1> QED BY <1>5, <1>6

\* Only a snapshot that backs the report replaces the persisted one.
LEMMA ReturnEarlyTold ==
    ASSUME OneWorker, IInv, TInv, NEW w \in Workers, ReturnEarly(w) PROVE TInv'
<1> DEFINE c == wk[w].ctx
           v == IF FailsForGood(c) THEN finalize_plan_status(c) ELSE c
           f == apply_sample_terminal_feedback(v)
<1>1. /\ c \in TaskContext /\ Tells(c, announced, outcomes, verified) /\ ReportedOnce
      /\ Tells(store, announced, outcomes, verified)
  BY Typed DEF TInv, ReturnEarly, Enters
<1>2. /\ store' = IF f.feedback_applied # c.feedback_applied \/ FailsForGood(c) THEN f ELSE store
      /\ Go(w, LoopAgain(w, f)) /\ RecordOutcome(c, f) /\ UNCHANGED announced
  BY DEF ReturnEarly
<1> HIDE DEF c
<1>3. v \in TaskContext /\ Kept(c, v)
  <2>1. CASE FailsForGood(c)
    <3>1. v = finalize_plan_status(c) BY <2>1
    <3> HIDE DEF v
    <3> QED BY <1>1, <3>1, FinalizeFields DEF Kept
  <2>2. CASE ~FailsForGood(c)
    <3>1. v = c BY <2>2
    <3> HIDE DEF v
    <3> QED BY <1>1, <3>1 DEF Kept
  <2> QED BY <2>1, <2>2
<1> HIDE DEF v
<1>4. f \in TaskContext /\ Kept(v, f)
  <2>1. /\ f \in TaskContext /\ f.step_status = v.step_status
        /\ f.published_step_events = v.published_step_events
        /\ v.feedback_applied => f.feedback_applied
    BY <1>3, FeedbackFields
  <2> HIDE DEF f
  <2> QED BY <2>1 DEF Kept
<1> HIDE DEF f
<1>5. Kept(c, f) BY <1>3, <1>4, KeptTrans
<1>6. Tells(f, announced', outcomes', verified') /\ ReportedOnce'
  BY <1>1, <1>2, <1>5, RecordTells
<1>7. Tells(store', announced', outcomes', verified')
  <2>1. CASE store' = f BY <1>6, <2>1
  <2>2. CASE store' = store /\ f.feedback_applied = c.feedback_applied
    <3>1. UNCHANGED <<outcomes, verified>> BY <1>2, <2>2 DEF RecordOutcome
    <3> QED BY <1>1, <1>2, <2>2, <3>1
  <2> QED BY <1>2, <2>1, <2>2
<1>8. LET r == LoopAgain(w, f)
      IN  r.pc # "publish" /\ (r.pc # "idle" => Tells(r.ctx, announced', outcomes', verified'))
  BY <1>4, <1>6, LoopTells
<1> QED BY <1>2, <1>6, <1>7, <1>8, ToldMoves

\* A worker goes on inside the engine with a copy that keeps its own.
LEMMA EngineTold ==
    ASSUME OneWorker, IInv, TInv, NEW w \in Workers, wk[w].pc # "idle", NEW r, Go(w, r),
           r.pc \notin {"idle", "publish"}, Kept(wk[w].ctx, r.ctx),
           UNCHANGED <<announced, outcomes, verified>>,
           store' = store \/ Kept(wk[w].ctx, store')
    PROVE  TInv'
<1>1. /\ Tells(wk[w].ctx, announced, outcomes, verified) /\ ReportedOnce
      /\ Tells(store, announced, outcomes, verified)
  BY DEF TInv
<1>2. Tells(r.ctx, announced, outcomes, verified) BY <1>1, KeptTells
<1>3. Tells(store', announced, outcomes, verified) BY <1>1, KeptTells
<1> QED BY <1>1, <1>2, <1>3, ToldMoves DEF ReportedOnce

\* The engine goes on, or returns, with a copy that keeps the one it had.
LEMMA ToSchedTold ==
    ASSUME OneWorker, IInv, TInv, NEW w \in Workers, wk[w].pc # "idle", NEW d,
           ToSched(w, d) \/ ToPost(w, d), Kept(wk[w].ctx, d),
           UNCHANGED <<announced, outcomes, verified>>,
           store' = store \/ Kept(wk[w].ctx, store')
    PROVE  TInv'
<1>1. wk[w] \in Worker BY Typed
<1>2. CASE ToSched(w, d)
  <2> DEFINE r == [wk[w] EXCEPT !.pc = "sched", !.ctx = d, !.cur = NoStep, !.tries = 0]
  <2>1. Go(w, r) BY <1>2 DEF ToSched
  <2>2. r.pc = "sched" /\ r.ctx = d BY <1>1 DEF Worker
  <2> HIDE DEF r
  <2> QED BY <2>1, <2>2, EngineTold
<1>3. CASE ToPost(w, d)
  <2> DEFINE r == [wk[w] EXCEPT !.pc = "post", !.ctx = d, !.cur = NoStep, !.tries = 0]
  <2>1. Go(w, r) BY <1>3 DEF ToPost
  <2>2. r.pc = "post" /\ r.ctx = d BY <1>1 DEF Worker
  <2> HIDE DEF r
  <2> QED BY <2>1, <2>2, EngineTold
<1> QED BY <1>2, <1>3

\* The worker leaves; what it may have saved keeps its copy.
LEMMA StopTold ==
    ASSUME OneWorker, IInv, TInv, NEW w \in Workers, wk[w].pc # "idle", Stop(w),
           UNCHANGED <<announced, outcomes, verified>>,
           store' = store \/ Kept(wk[w].ctx, store')
    PROVE  TInv'
<1>1. /\ Tells(wk[w].ctx, announced, outcomes, verified) /\ ReportedOnce
      /\ Tells(store, announced, outcomes, verified)
  BY DEF TInv
<1>2. Tells(store', announced, outcomes, verified) BY <1>1, KeptTells
<1>3. IdleWorker.pc = "idle" BY DEF IdleWorker
<1> QED BY <1>1, <1>2, <1>3, ToldMoves DEF ReportedOnce, Stop

\* The gate pauses the plan and the worker leaves: what was told stays backed.
LEMMA BecomeGatedTold ==
    ASSUME OneWorker, IInv, TInv, NEW w \in Workers, BecomeGated(w) PROVE TInv'
<1> DEFINE b == wk[w].ctx
           c == Revived(b)
           d == check_hard_gate(c)
           f == FirstOf(get_ready_steps(c))
<1>1. /\ store' = d /\ Stop(w) /\ get_ready_steps(c) # {} /\ wk[w].pc # "idle"
      /\ UNCHANGED <<announced, outcomes, verified>>
  BY DEF BecomeGated, gate_blocked, Enters, history
<1>2. c \in TaskContext /\ Marks(b, c) /\ c.step_status = b.step_status BY Typed, RevivedFields
<1> HIDE DEF c, b
<1>3. /\ Marks(c, d)
      /\ \A s \in Steps : d.step_status[s] = IF s = f THEN "blocked" ELSE c.step_status[s]
  BY <1>1, <1>2, GateFields
<1>4. c.step_status[f] \in {"pending", "ready"} BY <1>1, PickedStep
<1> HIDE DEF d, f
<1>5. Kept(b, c) /\ Kept(c, d) BY <1>2, <1>3, <1>4, KeptMarks
<1>6. Kept(b, d) BY <1>5, KeptTrans
<1> QED BY <1>1, <1>6, StopTold DEF b

\* run_until_blocked starts on the same statuses: what was told stays backed.
LEMMA EnterEngineTold ==
    ASSUME OneWorker, IInv, TInv, NEW w \in Workers, EnterEngine(w) PROVE TInv'
<1> DEFINE b == wk[w].ctx
           c == Revived(b)
           e == EngineStart(c)
           st == c.step_status
           r == [wk[w] EXCEPT !.pc = "sched", !.ctx = e, !.prev = st]
<1>1. Go(w, r) /\ UNCHANGED <<store, announced, outcomes, verified>> /\ wk[w].pc # "idle"
  BY DEF EnterEngine, Enters, history
<1>2. c \in TaskContext /\ Marks(b, c) /\ c.step_status = b.step_status BY Typed, RevivedFields
<1> HIDE DEF c, st, b
<1>3. Marks(c, e) /\ e.step_status = c.step_status BY <1>2, EngineStartFields
<1> HIDE DEF e
<1>4. r.pc = "sched" /\ r.ctx = e BY Typed DEF Worker
<1> HIDE DEF r
<1>5. Kept(b, c) /\ Kept(c, e) BY <1>2, <1>3, KeptMarks
<1>6. Kept(b, e) BY <1>5, KeptTrans
<1> QED BY <1>1, <1>4, <1>6, EngineTold DEF b

\* Without a ready step the engine blocks what waits or stops: what was told stays backed.
LEMMA NothingReadyTold ==
    ASSUME OneWorker, IInv, TInv, NEW w \in Workers, NothingReady(w) PROVE TInv'
<1> DEFINE c == wk[w].ctx
           d == Outcome(c)
<1>1. /\ ToPost(w, d) /\ UNCHANGED <<store, announced, outcomes, verified>> /\ wk[w].pc = "sched"
  BY DEF NothingReady, Scheduling, history
<1>2. c \in TaskContext /\ c.status = "running" BY <1>1, Typed, InEngine
<1> HIDE DEF c
<1>3. /\ Marks(c, d)
      /\ \A s \in Steps :
           \/ d.step_status[s] = c.step_status[s]
           \/ c.step_status[s] \in {"pending", "ready"} /\ d.step_status[s] = "blocked"
  BY <1>2, OutcomeFields
<1> HIDE DEF d
<1>4. Kept(c, d) BY <1>3, KeptMarks
<1> QED BY <1>1, <1>4, ToSchedTold DEF c

\* The engine stops at a step it holds back: what was told stays backed.
LEMMA AskConsentTold ==
    ASSUME OneWorker, IInv, TInv, NEW w \in Workers, AskConsent(w) PROVE TInv'
<1> DEFINE c == wk[w].ctx
           f == FirstOf(get_ready_steps(c))
           e == SetStatus(c, {f}, "blocked")
           d == [e EXCEPT !.status = "paused", !.paused_reason = "waiting_consent",
                          !.paused_step_id = f]
<1>1. /\ ToPost(w, d) /\ UNCHANGED <<store, announced, outcomes, verified>> /\ wk[w].pc = "sched"
      /\ get_ready_steps(c) # {}
  BY DEF AskConsent, Scheduling, history
<1>2. c \in TaskContext BY Typed
<1> HIDE DEF c
<1>3. f \in Steps /\ c.step_status[f] \in {"pending", "ready"} BY <1>1, PickedStep
<1> HIDE DEF f
<1>4. /\ e \in TaskContext /\ Marks(c, e)
      /\ \A s \in Steps : e.step_status[s] = IF s = f THEN "blocked" ELSE c.step_status[s]
  BY <1>2, SetStatusFields DEF StepStatus
<1> HIDE DEF e
<1>5. Marks(e, d) /\ d.step_status = e.step_status
  BY <1>3, <1>4 DEF TaskContext, PlanStatus, PausedReason, Marks
<1> HIDE DEF d
<1>6. Kept(c, e) /\ Kept(e, d) BY <1>3, <1>4, <1>5, KeptMarks
<1>7. Kept(c, d) BY <1>6, KeptTrans
<1> QED BY <1>1, <1>7, ToSchedTold DEF c

\* A step whose condition is false is skipped: what was told stays backed.
LEMMA SkipStepTold ==
    ASSUME OneWorker, IInv, TInv, NEW w \in Workers, SkipStep(w) PROVE TInv'
<1> DEFINE c == wk[w].ctx
           f == FirstOf(get_ready_steps(c))
           d == Settle(c, {f}, "skipped")
<1>1. /\ ToSched(w, d) /\ UNCHANGED <<store, announced, outcomes, verified>> /\ wk[w].pc = "sched"
      /\ get_ready_steps(c) # {}
  BY DEF SkipStep, Scheduling, history
<1>2. c \in TaskContext BY Typed
<1> HIDE DEF c
<1>3. f \in Steps /\ c.step_status[f] \in {"pending", "ready"} BY <1>1, PickedStep
<1> HIDE DEF f
<1>4. /\ Marks(c, d)
      /\ \A s \in Steps : d.step_status[s] = IF s = f THEN "skipped" ELSE c.step_status[s]
  BY <1>2, <1>3, SettleFields DEF StepStatus
<1> HIDE DEF d
<1>5. Kept(c, d) BY <1>3, <1>4, KeptMarks
<1> QED BY <1>1, <1>5, ToSchedTold DEF c

\* The picked step starts to run: what was told stays backed.
LEMMA InvokeStepTold ==
    ASSUME OneWorker, IInv, TInv, NEW w \in Workers, InvokeStep(w) PROVE TInv'
<1> DEFINE c == wk[w].ctx
           f == FirstOf(get_ready_steps(c))
           d == SetStatus(c, {f}, "running")
           r == [wk[w] EXCEPT !.pc = "exec", !.ctx = d, !.cur = f, !.tries = 1]
<1>1. /\ Go(w, r) /\ UNCHANGED <<store, announced, outcomes, verified>> /\ wk[w].pc = "sched"
      /\ get_ready_steps(c) # {}
  BY DEF InvokeStep, Scheduling, history
<1>2. c \in TaskContext BY Typed
<1> HIDE DEF c
<1>3. f \in Steps /\ c.step_status[f] \in {"pending", "ready"} BY <1>1, PickedStep
<1> HIDE DEF f
<1>4. /\ Marks(c, d)
      /\ \A s \in Steps : d.step_status[s] = IF s = f THEN "running" ELSE c.step_status[s]
  BY <1>2, SetStatusFields DEF StepStatus
<1> HIDE DEF d
<1>5. Kept(c, d) BY <1>3, <1>4, KeptMarks
<1>6. r.pc = "exec" /\ r.ctx = d BY Typed DEF Worker
<1> HIDE DEF r
<1> QED BY <1>1, <1>5, <1>6, EngineTold DEF c

\* The step under way ends with some status.
LEMMA AfterStepTold ==
    ASSUME OneWorker, IInv, TInv, NEW w \in Workers, wk[w].pc # "idle",
           NEW d \in TaskContext, AfterStep(w, d), Kept(wk[w].ctx, d),
           UNCHANGED <<store, announced, outcomes, verified>>
    PROVE  TInv'
<1>1. CASE wk[w].mode = "run"
  <2>1. ToSched(w, d) BY <1>1 DEF AfterStep
  <2> QED BY <2>1, ToSchedTold
<1>2. CASE wk[w].mode # "run"
  <2> DEFINE e == IF all_steps_final(d) THEN [d EXCEPT !.status = "done"] ELSE d
  <2>1. ToPost(w, e) BY <1>2 DEF AfterStep
  <2>2. Marks(d, e) /\ e.step_status = d.step_status
    BY DEF TaskContext, Marks
  <2> HIDE DEF e
  <2>3. Kept(d, e) BY <2>2, KeptMarks
  <2>4. Kept(wk[w].ctx, e) BY <2>3, KeptTrans
  <2> QED BY <2>1, <2>4, ToSchedTold
<1> QED BY <1>1, <1>2

\* The step is done: what was told stays backed.
LEMMA StepSucceedsTold ==
    ASSUME OneWorker, IInv, TInv, NEW w \in Workers, StepSucceeds(w) PROVE TInv'
<1> DEFINE c == wk[w].ctx
           f == wk[w].cur
           d == Settle(c, {f}, "done")
<1>1. AfterStep(w, d) /\ UNCHANGED <<store, announced, outcomes, verified>> /\ wk[w].pc = "exec"
  BY DEF StepSucceeds, history
<1>2. c \in TaskContext /\ f \in Steps BY <1>1, Typed, InEngine
<1> HIDE DEF c, f
<1>3. /\ d \in TaskContext /\ Marks(c, d)
      /\ \A s \in Steps : d.step_status[s] = IF s = f THEN "done" ELSE c.step_status[s]
  BY <1>2, SettleFields DEF StepStatus
<1> HIDE DEF d
<1>4. Kept(c, d) BY <1>3, KeptMarks
<1> QED BY <1>1, <1>3, <1>4, AfterStepTold DEF c

\* The copy is saved between the two quality attempts: what was told stays backed.
LEMMA QualityRetryTold ==
    ASSUME OneWorker, IInv, TInv, NEW w \in Workers, QualityRetry(w) PROVE TInv'
<1> DEFINE c == wk[w].ctx
           Q == c.quality_retried \cup {wk[w].cur}
           d == [c EXCEPT !.quality_retried = Q]
           r == [wk[w] EXCEPT !.ctx = d]
<1>1. /\ store' = d /\ Go(w, r) /\ wk[w].pc = "exec" /\ UNCHANGED <<announced, outcomes, verified>>
  BY DEF QualityRetry, history
<1>2. c \in TaskContext BY Typed
<1> HIDE DEF c, Q
<1>3. d.step_status = c.step_status /\ Marks(c, d) BY <1>2 DEF TaskContext, Marks
<1> HIDE DEF d
<1>4. r.pc = "exec" /\ r.ctx = d BY <1>1, Typed DEF Worker
<1> HIDE DEF r
<1>5. Kept(c, d) BY <1>3, KeptMarks
<1> QED BY <1>1, <1>4, <1>5, EngineTold DEF c

\* Another attempt changes no status: what was told stays backed.
LEMMA RetryStepTold ==
    ASSUME OneWorker, IInv, TInv, NEW w \in Workers, RetryStep(w) PROVE TInv'
<1> DEFINE n == wk[w].tries + 1
           r == [wk[w] EXCEPT !.tries = n]
<1>1. Go(w, r) /\ UNCHANGED <<store, announced, outcomes, verified>> /\ wk[w].pc = "exec"
  BY DEF RetryStep, history
<1> HIDE DEF n
<1>2. r.pc = "exec" /\ r.ctx = wk[w].ctx BY <1>1, Typed DEF Worker
<1> HIDE DEF r
<1>3. Kept(wk[w].ctx, r.ctx) BY <1>2 DEF Kept
<1> QED BY <1>1, <1>2, <1>3, EngineTold

\* The step fails or is degraded: what was told stays backed.
LEMMA StepFailsTold ==
    ASSUME OneWorker, IInv, TInv, NEW w \in Workers, NEW x \in Causes, StepFails(w, x) PROVE TInv'
<1> DEFINE c == wk[w].ctx
           f == wk[w].cur
           d == FailedContext(c, f, x)
<1>1. /\ AfterStep(w, d) \/ ToSched(w, d) \/ ToPost(w, d)
      /\ UNCHANGED <<store, announced, outcomes, verified>> /\ wk[w].pc = "exec"
  BY DEF StepFails, history
<1>2. /\ c \in TaskContext /\ c.status = "running" /\ f \in Steps /\ c.step_status[f] = "running"
      /\ c.paused_step_id = NoStep
  BY <1>1, Typed, InEngine
<1> HIDE DEF c, f
<1>3. /\ d \in TaskContext /\ Marks(c, d)
      /\ \A t \in Steps : t # f => d.step_status[t] = c.step_status[t]
  BY <1>2, FailedFields
<1> HIDE DEF d
<1>4. Kept(c, d) BY <1>2, <1>3, KeptMarks
<1> QED BY <1>1, <1>3, <1>4, AfterStepTold, ToSchedTold DEF c

\* The failed step is made pending and saved: what was told stays backed.
LEMMA FallBackTold ==
    ASSUME OneWorker, IInv, TInv, NEW w \in Workers, FallBack(w) PROVE TInv'
<1> DEFINE b == wk[w].ctx
           c == [advance(b) EXCEPT !.status = "running"]
           e == EngineStart(c)
           f == FailedStep(b)
<1>1. /\ store' = c /\ ToSched(w, e) /\ wk[w].pc = "post" /\ b.status = "failed"
      /\ UNCHANGED <<announced, outcomes, verified>>
  BY DEF FallBack, FallsBack, history
<1>2. /\ b \in TaskContext
      /\ b.paused_step_id # NoStep => b.step_status[b.paused_step_id] = "failed"
  BY <1>1, Typed DEF IInv, WorkerOK
<1> HIDE DEF b
<1>3. /\ c \in TaskContext /\ Marks(b, c)
      /\ f # NoStep => f \in Steps /\ b.step_status[f] = "failed"
      /\ \A s \in Steps : c.step_status[s] = IF s = f THEN "pending" ELSE b.step_status[s]
  BY <1>2, AdvanceFields
<1> HIDE DEF c, f
<1>4. Marks(c, e) /\ e.step_status = c.step_status BY <1>3, EngineStartFields
<1> HIDE DEF e
<1>5. Kept(b, c) /\ Kept(c, e) BY <1>3, <1>4, KeptMarks, PlanAssumption
<1>6. Kept(b, e) BY <1>5, KeptTrans
<1> QED BY <1>1, <1>5, <1>6, ToSchedTold DEF b

\* What execute_next and _run make of the engine's context keeps it.
LEMMA ResultKept ==
    ASSUME IInv, NEW w \in Workers, NEW r \in EngineResults(w)
    PROVE  r \in TaskContext /\ Kept(wk[w].ctx, r)
<1> DEFINE b == wk[w].ctx
<1>1. b \in TaskContext BY Typed
<1>2. ASSUME NEW u \in TaskContext, Kept(b, u), NEW f, f = finalize_plan_status(u) \/ f = u,
             r = apply_sample_terminal_feedback(f)
      PROVE  r \in TaskContext /\ Kept(b, r)
  <2>1. f \in TaskContext /\ Kept(u, f) BY <1>2, FinalizeFields DEF Kept
  <2>2. r \in TaskContext /\ Kept(f, r) BY <1>2, <2>1, FeedbackFields DEF Kept
  <2> HIDE DEF b
  <2> QED BY <1>2, <2>1, <2>2, KeptTrans
<1>3. CASE wk[w].mode = "run"
  <2> DEFINE d == [b EXCEPT !.status = "running"]
             f == IF ~CanFinalize(b) /\ b.status = "failed" THEN d ELSE finalize_plan_status(b)
  <2>1. r = apply_sample_terminal_feedback(f) BY <1>3 DEF EngineResults, RunResult
  <2>2. Kept(b, b) BY DEF Kept
  <2> HIDE DEF b
  <2>3. d \in TaskContext /\ Marks(b, d) /\ d.step_status = b.step_status
    BY <1>1, StatusFields DEF PlanStatus
  <2> HIDE DEF d
  <2>4. Kept(b, d) BY <2>3, KeptMarks
  <2>5. f = d \/ f = finalize_plan_status(b) OBVIOUS
  <2> HIDE DEF f
  <2> QED BY <1>1, <1>2, <2>1, <2>2, <2>3, <2>4, <2>5 DEF b
<1>4. CASE wk[w].mode # "run"
  <2> DEFINE d == propagate_failure(b, StepsWith(b, {"failed"}))
  <2>1. PICK U \in SUBSET Steps :
            /\ Unblocks(w, U)
            /\ r = apply_sample_terminal_feedback(finalize_plan_status(propagate_unblock(d, U)))
    BY <1>4 DEF EngineResults, NextResult
  <2> DEFINE u == propagate_unblock(d, U)
  <2>2. \A s \in U : d.step_status[s] = "blocked"
    BY <1>4, <2>1 DEF Unblocks, IsUnblockedBy
  <2>3. r = apply_sample_terminal_feedback(finalize_plan_status(u)) BY <2>1
  <2> HIDE DEF b
  <2>4. /\ d \in TaskContext /\ Marks(b, d)
        /\ \A s \in Steps : b.step_status[s] = "done" => d.step_status[s] = "done"
    BY <1>1, PropagateFailureFields
  <2> HIDE DEF d
  <2>5. /\ u \in TaskContext /\ u.feedback_applied = d.feedback_applied
        /\ u.published_step_events = d.published_step_events \ U
        /\ \A s \in Steps : u.step_status[s] = IF s \in U THEN "pending" ELSE d.step_status[s]
    BY <2>4, PropagateUnblockFields
  <2> HIDE DEF u
  <2>6. Kept(d, u) BY <2>2, <2>5 DEF Kept
  <2>7. Kept(b, u) BY <2>4, <2>6, KeptMarks, KeptTrans
  <2> QED BY <1>2, <2>3, <2>5, <2>7 DEF b
<1> QED BY <1>3, <1>4

\* The snapshot is saved with the events marked; none of them was published before.
LEMMA FinishRunTold ==
    ASSUME OneWorker, IInv, TInv, NEW w \in Workers, FinishRun(w) PROVE TInv'
<1>1. PICK r \in EngineResults(w) :
        LET p == prepare_consent_pause(r)
            c == collect_step_events(p)
        IN  /\ store' = c
            /\ RecordOutcome(wk[w].ctx, c)
            /\ Go(w, [wk[w] EXCEPT !.pc = "publish", !.ctx = c,
                         !.pub = UnpublishedSteps(p) \cap StepsWith(p, {"done"})])
  BY DEF FinishRun
<1> DEFINE b == wk[w].ctx
           p == prepare_consent_pause(r)
           c == collect_step_events(p)
           B == UnpublishedSteps(p) \cap StepsWith(p, {"done"})
           q == [wk[w] EXCEPT !.pc = "publish", !.ctx = c, !.pub = B]
<1>2. /\ store' = c /\ Go(w, q) /\ RecordOutcome(b, c) /\ UNCHANGED announced
  BY <1>1 DEF FinishRun
<1>3. r \in TaskContext /\ Kept(b, r) BY ResultKept
<1>4. /\ b \in TaskContext /\ Tells(b, announced, outcomes, verified) /\ ReportedOnce
  BY Typed DEF TInv, FinishRun
<1> HIDE DEF b
<1>5. /\ p \in TaskContext /\ p.step_status = r.step_status
      /\ p.published_step_events = r.published_step_events
      /\ p.feedback_applied = r.feedback_applied
  BY <1>3, PrepareFields
<1> HIDE DEF p
<1>6. /\ B \subseteq Steps
      /\ \A s \in B : /\ p.step_status[s] = "done" /\ s \notin p.published_step_events
                      /\ s \in UnpublishedSteps(p)
  BY DEF UnpublishedSteps, StepsWith
<1> HIDE DEF B
<1>7. /\ c \in TaskContext /\ c.step_status = p.step_status
      /\ c.feedback_applied = p.feedback_applied
      /\ c.published_step_events = p.published_step_events \cup UnpublishedSteps(p)
  BY <1>5, CollectFields
<1> HIDE DEF c
<1>8. q.pc = "publish" /\ q.ctx = c /\ q.pub = B BY Typed DEF Worker
<1> HIDE DEF q
<1>9. Kept(r, p) /\ Kept(p, c) BY <1>5, <1>7 DEF Kept
<1>10. Kept(b, p) /\ Kept(b, c) BY <1>3, <1>9, KeptTrans
<1>11. Tells(c, announced', outcomes', verified') /\ ReportedOnce'
  BY <1>2, <1>4, <1>10, RecordTells
<1>12. \A s \in B : announced[s] = 0
  <2>1. Tells(p, announced, outcomes, verified) BY <1>4, <1>10, KeptTells
  <2> QED BY <1>6, <2>1 DEF Tells
<1>13. ToTell(q, c, announced') BY <1>2, <1>6, <1>7, <1>8, <1>12 DEF ToTell
<1>14. wk'[w] = q BY <1>2, Typed DEF Go
<1>15. ASSUME NEW v \in Workers
       PROVE  /\ wk'[v].pc # "idle" => Tells(wk'[v].ctx, announced', outcomes', verified')
              /\ ToTell(wk'[v], store', announced')
  <2>1. wk'[v] = q BY <1>14 DEF OneWorker
  <2> QED BY <1>2, <1>8, <1>11, <1>13, <2>1
<1> QED BY <1>2, <1>11, <1>15 DEF TInv

\* The events go out and the worker goes on: what was told stays backed.
LEMMA PublishTold ==
    ASSUME OneWorker, IInv, TInv, NEW w \in Workers, PublishEvents(w) PROVE TInv'
<1> DEFINE b == wk[w].ctx
           B == wk[w].pub
<1>1. /\ Go(w, LoopAgain(w, b)) /\ UNCHANGED <<store, outcomes, verified>>
      /\ announced' = [s \in Steps |-> IF s \in B THEN More(announced[s]) ELSE announced[s]]
  BY DEF PublishEvents
<1>2. b \in TaskContext /\ ToTell(wk[w], store, announced) /\ wk[w].pc = "publish" BY Typed DEF TInv, PublishEvents
<1>3. /\ Tells(store, announced, outcomes, verified) /\ Tells(b, announced, outcomes, verified)
      /\ ReportedOnce
  BY <1>2 DEF TInv
<1>4. \A s \in B : /\ announced[s] = 0
                   /\ store.step_status[s] = "done" /\ s \in store.published_step_events
                   /\ b.step_status[s] = "done" /\ s \in b.published_step_events
  BY <1>2 DEF ToTell
<1> HIDE DEF b, B
<1>5. \A s \in Steps : announced'[s] = IF s \in B THEN 1 ELSE announced[s]
  BY <1>1, <1>4 DEF More
<1>6. Tells(store, announced', outcomes, verified) /\ Tells(b, announced', outcomes, verified)
  BY <1>3, <1>4, <1>5 DEF Tells
<1>7. ReportedOnce' BY <1>1, <1>3, <1>5 DEF ReportedOnce
<1>8. LET r == LoopAgain(w, b)
      IN  r.pc # "publish" /\ (r.pc # "idle" => Tells(r.ctx, announced', outcomes, verified))
  BY <1>2, <1>6, LoopTells DEF b
<1> QED BY <1>1, <1>6, <1>7, <1>8, ToldMoves

\* Endpoints may change the snapshot under a worker; they keep what was told.
LEMMA EndpointTold == ASSUME IInv, TInv, Endpoint PROVE TInv'
<1>0. store \in TaskContext BY DEF IInv, TypeOK
<1>1. ASSUME NEW reason \in {"user_input", "manual_pause"}, pause(reason) PROVE TInv'
  <2> DEFINE d == [store EXCEPT !.status = "paused", !.paused_reason = reason, !.paused_step_id = NoStep]
  <2>1. store' = d /\ UNCHANGED <<wk, announced, outcomes, verified>> BY <1>1 DEF pause, history
  <2>2. Marks(store, d) /\ d.step_status = store.step_status BY <1>0 DEF TaskContext, Marks
  <2> HIDE DEF d
  <2>3. Kept(store, d) BY <2>2, KeptMarks
  <2> QED BY <2>1, <2>3, ToldStays
<1>2. ASSUME resume_plan PROVE TInv'
  <2> DEFINE d == EngineStart(store)
  <2>1. store' = d /\ UNCHANGED <<wk, announced, outcomes, verified>> BY <1>2 DEF resume_plan, history
  <2>2. Marks(store, d) /\ d.step_status = store.step_status BY <1>0, EngineStartFields
  <2> HIDE DEF d
  <2>3. Kept(store, d) BY <2>2, KeptMarks
  <2> QED BY <2>1, <2>3, ToldStays
<1>3. ASSUME cancel PROVE TInv'
  <2> DEFINE open == {s \in Steps : store.step_status[s] \notin FINAL_STEP_STATUSES}
             e == Settle(store, open, "cancelled")
             d == [e EXCEPT !.status = "cancelled"]
             c == apply_sample_terminal_feedback(d)
  <2>1. store' = c /\ UNCHANGED <<wk, announced>> /\ RecordOutcome(store, c) BY <1>3 DEF cancel
  <2>2. open \subseteq Steps /\ \A s \in open : store.step_status[s] # "done"
    BY DEF FINAL_STEP_STATUSES
  <2> HIDE DEF open
  <2>3. /\ e \in TaskContext /\ Marks(store, e)
        /\ \A s \in Steps : e.step_status[s] = IF s \in open THEN "cancelled" ELSE store.step_status[s]
    BY <1>0, <2>2, SettleFields DEF StepStatus
  <2> HIDE DEF e
  <2>4. d \in TaskContext /\ Marks(e, d) /\ d.step_status = e.step_status /\ d.status = "cancelled"
    BY <2>3, StatusFields DEF PlanStatus
  <2> HIDE DEF d
  <2>5. /\ c.step_status = d.step_status /\ c.published_step_events = d.published_step_events
        /\ d.feedback_applied => c.feedback_applied
        /\ Paused(d, c)
    BY <2>4, FeedbackFields
  <2> HIDE DEF c
  <2>6. Kept(store, e) /\ Kept(e, d) BY <2>2, <2>3, <2>4, KeptMarks
  <2>7. Kept(d, c) BY <2>5 DEF Kept
  <2>8. Kept(store, c) BY <2>6, <2>7, KeptTrans
  <2>9. UNCHANGED <<outcomes, verified>> BY <2>1, <2>4, <2>5 DEF RecordOutcome, Paused
  <2> QED BY <2>1, <2>8, <2>9, ToldStays
<1>4. ASSUME NEW s \in Steps, retry_failed_step(s) PROVE TInv'
  <2> DEFINE e == SetStatus(store, {s}, "pending")
             P == store.processed_steps \ {s}
             E == store.published_step_events \ {s}
             Q == store.quality_retried \ {s}
             x == IF store.paused_step_id = s THEN "none" ELSE e.paused_reason
             y == IF store.paused_step_id = s THEN NoStep ELSE e.paused_step_id
             d == [e EXCEPT !.processed_steps = P, !.published_step_events = E,
                            !.quality_retried = Q, !.paused_reason = x, !.paused_step_id = y,
                            !.status = "running", !.plan_status = "none"]
  <2>1. /\ store' = d /\ UNCHANGED <<wk, announced, outcomes, verified>>
        /\ store.step_status[s] = "failed"
    BY <1>4 DEF retry_failed_step, VerdictAfterRetry, CanRetry, history
  <2>2. /\ e \in TaskContext /\ Marks(store, e)
        /\ \A t \in Steps : e.step_status[t] = IF t = s THEN "pending" ELSE store.step_status[t]
    BY <1>0, SetStatusFields DEF StepStatus
  <2>3. E = store.published_step_events \ {s} OBVIOUS
  <2> HIDE DEF e, P, E, Q, x, y
  <2>4. /\ d.step_status = e.step_status /\ d.published_step_events = E
        /\ d.feedback_applied = e.feedback_applied
    BY <2>2 DEF TaskContext
  <2> HIDE DEF d
  <2>5. Kept(store, d) BY <2>1, <2>2, <2>3, <2>4 DEF Kept, Marks
  <2> QED BY <2>1, <2>5, ToldStays
<1>5. ASSUME NEW r \in Steps, NEW allowed \in BOOLEAN, decide(r, allowed) PROVE TInv'
  <2>1. UNCHANGED <<store, wk, announced, outcomes, verified>> BY <1>5 DEF decide, history
  <2> QED BY <2>1, ToldStays DEF Kept
<1> QED BY <1>1, <1>2, <1>3, <1>4, <1>5 DEF Endpoint

\* Every step of the system keeps what was told.
LEMMA ToldStep == ASSUME OneWorker PROVE IInv /\ TInv /\ [Next]_vars => TInv'
<1> SUFFICES ASSUME IInv, TInv, [Next]_vars PROVE TInv' OBVIOUS
<1>1. ASSUME NEW w \in Workers, Engine(w) PROVE TInv'
  <2>1. CASE StreamEnd(w) BY <2>1, StopTold DEF StreamEnd, history
  <2>2. CASE StayGated(w) BY <2>2, StopTold DEF StayGated, Enters, history
  <2>3. CASE \E x \in Causes : StepFails(w, x) BY <2>3, StepFailsTold
  <2> QED
    BY <1>1, <2>1, <2>2, <2>3, ReturnEarlyTold, BecomeGatedTold, EnterEngineTold,
       NothingReadyTold, AskConsentTold, SkipStepTold, InvokeStepTold,
       StepSucceedsTold, QualityRetryTold, RetryStepTold, FallBackTold,
       FinishRunTold, PublishTold
    DEF Engine
<1>2. ASSUME NEW w \in Workers, Call(w) PROVE TInv'
  BY <1>2, StartTold, StreamResumeTold, ResumeTold DEF Call
<1>3. CASE Restart
  <2>1. \A w \in Workers : wk'[w] = IdleWorker BY <1>3 DEF Restart
  <2>2. UNCHANGED <<store, announced, outcomes, verified>> BY <1>3 DEF Restart, history
  <2>3. IdleWorker.pc = "idle" BY DEF IdleWorker
  <2>4. Tells(store', announced', outcomes', verified') /\ ReportedOnce'
    BY <2>2 DEF TInv, ReportedOnce
  <2> QED BY <2>1, <2>3, <2>4 DEF TInv, ToTell
<1>4. CASE UNCHANGED vars
  <2>1. UNCHANGED <<wk, store, announced, outcomes, verified>> BY <1>4 DEF vars
  <2> QED BY <2>1, ToldStays DEF Kept
<1> QED BY <1>1, <1>2, <1>3, <1>4, EndpointTold DEF Next

\* At first nothing has been told.
LEMMA ToldStarts == Init => TInv
<1> SUFFICES ASSUME Init PROVE TInv OBVIOUS
<1>1. /\ \A w \in Workers : wk[w] = IdleWorker
      /\ announced = [s \in Steps |-> 0] /\ outcomes = 0 /\ verified = FALSE
  BY DEF Init
<1>2. IdleWorker.pc = "idle" BY DEF IdleWorker
<1> QED BY <1>1, <1>2 DEF TInv, Tells, ToTell, ReportedOnce

\* With one worker what has been said is backed by the snapshot and the worker's copy.
THEOREM ToldInvariant == ASSUME OneWorker PROVE Spec => [](IInv /\ TInv)
<1>1. IInv /\ TInv /\ [Next]_vars => TInv' BY ToldStep
<1>2. Init /\ [][Next]_vars /\ []IInv => []TInv BY <1>1, ToldStarts, PTL
<1> QED BY <1>2, Invariance, PTL DEF Spec

\* AnnouncedIsPersisted for every plan that one thread at a time works on: an event goes
\* out only for a step the snapshot has as done (save before _publish_step_events).
THEOREM AnnouncementsArePersisted == ASSUME OneWorker PROVE Spec => []AnnouncedIsPersisted
<1>1. TInv => AnnouncedIsPersisted BY DEF TInv, Tells, AnnouncedIsPersisted
<1>2. Spec => []TInv BY ToldInvariant, PTL
<1> QED BY <1>1, <1>2, PTL

\* The cached verdict of the snapshot is true, for any number of workers
\* (evaluate_plan_status over retries, fallbacks and stale saves).
THEOREM VerdictsAreTrue == Spec => []VerdictIsTrue
<1>1. VInv => VerdictIsTrue BY DEF VInv, VerdictOK, VerdictIsTrue, StepsWith
<1> QED BY <1>1, VerdictsInvariant, PTL

\* ReportsAreTrue for every plan that one thread at a time works on: verdicts, events and
\* what the sample library hears (_collect_step_events, _apply_sample_terminal_feedback).
THEOREM ReportsStayTrue == ASSUME OneWorker PROVE Spec => []ReportsAreTrue
<1>1. TInv /\ VerdictIsTrue => ReportsAreTrue BY DEF TInv, Tells, ReportsAreTrue, VerifiedIsGreen
<1>2. Spec => []TInv BY ToldInvariant, PTL
<1> QED BY <1>1, <1>2, VerdictsAreTrue, PTL
-----------------------------------------------------------------------------
(* Stages.  The hard gate looks at the first ready step before the engine  *)
(* runs, so it covers plans whose first ready step is the one executed (no *)
(* condition_key) and callers that go through it (execute_next, not _run). *)

GatedCalls == "resume" \notin Callers /\ Conditional = {}

\* The stages before the step's own are completed in the tracker's rows g.
Open(s, g) == StageOf[s] = 0 \/ \A k \in 1..(StageOf[s] - 1) : g[k] = "completed"

\* What ran had an open gate, and what is done has a closed stage.
StagedOK(c, g) == \A s \in Steps :
    /\ c.step_status[s] \in Ran => Open(s, g)
    /\ c.step_status[s] = "done" /\ StageOf[s] # 0 => g[StageOf[s]] \in {"completed", "failed"}
    /\ c.step_status[s] \in Sat => s \in c.processed_steps

\* s comes first among the steps that are ready in c.
ComesFirst(s, c) == \A t \in get_ready_steps(c) : Pos[s] <= Pos[t]

\* The step the engine is about to run passed the gate; a fallback makes ready the step
\* that failed, and no other is ready before it.
StageWorkerOK(r, g) ==
    /\ r.mode # "run"
    /\ r.pc = "sched" => \A s \in get_ready_steps(r.ctx) : ComesFirst(s, r.ctx) => Open(s, g)
    /\ r.pc = "exec" =>
           ComesFirst(r.cur, r.ctx) /\ (StageOf[r.cur] # 0 => g[StageOf[r.cur]] # "none")
    /\ r.pc = "post" /\ r.ctx.status = "failed" =>
           get_ready_steps(r.ctx) = {}
           \/ (r.ctx.paused_step_id # NoStep /\ ComesFirst(r.ctx.paused_step_id, r.ctx))

SInv ==
    /\ StagedOK(store, stage)
    /\ \A w \in Workers : StagedOK(wk[w].ctx, stage) /\ StageWorkerOK(wk[w], stage)

\* A row once closed stays as it is, and no row goes away.
Grows(g, h) == \A k \in 1..NStages :
    /\ g[k] \in {"completed", "failed"} => h[k] = g[k]
    /\ g[k] # "none" => h[k] # "none"

\* Stage numbers are rows of the tracker.
LEMMA StageRange ==
    ASSUME NEW s \in Steps
    PROVE  /\ StageOf[s] \in Nat /\ (StageOf[s] # 0 => StageOf[s] \in 1..NStages)
           /\ 1..(StageOf[s] - 1) \subseteq 1..NStages
BY PlanAssumption

\* A gate that is open stays open.
LEMMA GrowsOpen ==
    ASSUME NEW g, NEW h, Grows(g, h), NEW s \in Steps, Open(s, g) PROVE Open(s, h)
BY StageRange DEF Open, Grows

\* A copy that fits the rows fits them when they have grown.
LEMMA GrowsStaged ==
    ASSUME NEW g, NEW h, Grows(g, h), NEW c, StagedOK(c, g) PROVE StagedOK(c, h)
<1> SUFFICES ASSUME NEW s \in Steps
             PROVE  /\ c.step_status[s] \in Ran => Open(s, h)
                    /\ c.step_status[s] = "done" /\ StageOf[s] # 0 => h[StageOf[s]] \in {"completed", "failed"}
                    /\ c.step_status[s] \in Sat => s \in c.processed_steps
  BY DEF StagedOK
<1>1. c.step_status[s] \in Ran => Open(s, h) BY GrowsOpen DEF StagedOK
<1>2. c.step_status[s] = "done" /\ StageOf[s] # 0 => h[StageOf[s]] \in {"completed", "failed"}
  BY StageRange DEF StagedOK, Grows
<1> QED BY <1>1, <1>2 DEF StagedOK

\* So does a worker.
LEMMA GrowsWorker ==
    ASSUME NEW g, NEW h, Grows(g, h), NEW r \in Worker, WorkerOK(r), StageWorkerOK(r, g)
    PROVE  StageWorkerOK(r, h)
<1>1. r.pc = "sched" => \A s \in get_ready_steps(r.ctx) : ComesFirst(s, r.ctx) => Open(s, h)
  BY GrowsOpen DEF StageWorkerOK, get_ready_steps
<1>2. r.pc = "exec" =>
         ComesFirst(r.cur, r.ctx) /\ (StageOf[r.cur] # 0 => h[StageOf[r.cur]] # "none")
  BY StageRange DEF StageWorkerOK, Grows, WorkerOK
<1> QED BY <1>1, <1>2 DEF StageWorkerOK

\* The tracker's two operations only let its rows grow.
LEMMA StartStageGrows ==
    ASSUME stage \in [1..NStages -> StageState], NEW w, NEW s \in Steps, start_stage(w, s)
    PROVE  Grows(stage, stage') /\ (Tracked(w, s) => stage'[StageOf[s]] # "none")
BY StageRange DEF start_stage, Grows, Tracked

\* complete_stage and fail_stage close the row of the step.
LEMMA FinishStageGrows ==
    ASSUME stage \in [1..NStages -> StageState], NEW w, NEW s \in Steps,
           NEW x \in {"completed", "failed"}, finish_stage(w, s, x)
    PROVE  /\ Grows(stage, stage')
           /\ Tracked(w, s) /\ stage[StageOf[s]] # "none" => stage'[StageOf[s]] \in {"completed", "failed"}
BY StageRange DEF finish_stage, Grows, Tracked, StageState

\* Rows that stay grow.
LEMMA SameGrows == ASSUME UNCHANGED stage PROVE Grows(stage, stage')
BY DEF Grows

-----------------------------------------------------------------------------
\* A change that neither starts nor settles a step keeps a copy staged.
LEMMA StagedChange ==
    ASSUME NEW c, NEW d, NEW g, StagedOK(c, g),
           \A s \in Steps : d.step_status[s] \in Ran \cup Sat =>
               /\ d.step_status[s] = c.step_status[s]
               /\ s \in c.processed_steps => s \in d.processed_steps
    PROVE  StagedOK(d, g)
BY DEF StagedOK, Ran

\* Readiness is a matter of statuses and of processed steps.
LEMMA ReadySame ==
    ASSUME NEW c, NEW d, d.step_status = c.step_status, d.processed_steps = c.processed_steps
    PROVE  get_ready_steps(d) = get_ready_steps(c)
BY DEF get_ready_steps, dependency_satisfied_set

\* Where nothing new is satisfied and nothing new is waiting, nothing new is ready.
LEMMA ReadyShrinks ==
    ASSUME NEW c, NEW d, NEW g, StagedOK(c, g),
           \A s \in Steps : d.step_status[s] \in {"pending", "ready"} \cup Sat =>
                                d.step_status[s] = c.step_status[s],
           d.processed_steps \subseteq Steps
    PROVE  get_ready_steps(d) \subseteq get_ready_steps(c)
<1>1. dependency_satisfied_set(d) \subseteq dependency_satisfied_set(c)
  BY DEF dependency_satisfied_set, StagedOK, Sat
<1> QED BY <1>1 DEF get_ready_steps

\* What comes first still does when fewer steps are ready.
LEMMA FirstShrinks ==
    ASSUME NEW s, NEW c, NEW d, get_ready_steps(d) \subseteq get_ready_steps(c), ComesFirst(s, c)
    PROVE  ComesFirst(s, d)
BY DEF ComesFirst

\* One worker moves, or none.
LEMMA StageMoves ==
    ASSUME IInv, SInv, NEW w \in Workers, NEW r, Go(w, r), Grows(stage, stage'),
           StagedOK(store', stage'), StagedOK(r.ctx, stage'), StageWorkerOK(r, stage')
    PROVE  SInv'
<1>1. wk'[w] = r /\ \A v \in Workers : v # w => wk'[v] = wk[v] BY Typed DEF Go
<1>2. ASSUME NEW v \in Workers PROVE StagedOK(wk'[v].ctx, stage') /\ StageWorkerOK(wk'[v], stage')
  <2>1. CASE v = w BY <1>1, <2>1
  <2>2. CASE v # w
    <3>1. wk'[v] = wk[v] /\ wk[v] \in Worker /\ WorkerOK(wk[v]) BY <1>1, <2>2, Typed DEF IInv
    <3>2. StagedOK(wk[v].ctx, stage) /\ StageWorkerOK(wk[v], stage) BY DEF SInv
    <3> QED BY <3>1, <3>2, GrowsStaged, GrowsWorker
  <2> QED BY <2>1, <2>2
<1> QED BY <1>2 DEF SInv

\* No worker moves and no row changes.
LEMMA StageStays ==
    ASSUME SInv, UNCHANGED <<wk, stage>>, StagedOK(store', stage) PROVE SInv'
<1>1. ASSUME NEW v \in Workers PROVE StagedOK(wk'[v].ctx, stage') /\ StageWorkerOK(wk'[v], stage')
  BY DEF SInv
<1> QED BY <1>1 DEF SInv

\* A worker at rest, at its loop or publishing has nothing at the gate.
LEMMA IdleStaged ==
    ASSUME NEW g PROVE StagedOK(IdleWorker.ctx, g) /\ StageWorkerOK(IdleWorker, g)
BY DEF IdleWorker, CreatedContext, StagedOK, StageWorkerOK, Ran, Sat, DEPENDENCY_SATISFIED_STATUSES

\* A worker at the head of its loop has picked no step.
LEMMA LoopStaged ==
    ASSUME NEW c \in TaskContext, NEW m \in Modes, m # "run", NEW g
    PROVE  AtLoop(m, c).ctx = c /\ StageWorkerOK(AtLoop(m, c), g)
BY LoopEngine DEF StageWorkerOK

\* A worker that goes round the loop again or leaves it has picked no step.
LEMMA AgainStaged ==
    ASSUME NEW c \in TaskContext, NEW w, NEW g, StagedOK(c, g)
    PROVE  StagedOK(LoopAgain(w, c).ctx, g) /\ StageWorkerOK(LoopAgain(w, c), g)
<1>1. CASE LoopAgain(w, c) = AtLoop("stream", c) BY <1>1, LoopStaged DEF Modes
<1>2. CASE LoopAgain(w, c) = IdleWorker BY <1>2, IdleStaged
<1> QED BY <1>1, <1>2 DEF LoopAgain

\* A worker takes the snapshot as it is: the stages stay right.
LEMMA StartStaged ==
    ASSUME IInv, SInv, NEW w \in Workers, StreamStart(w) \/ IdleExecute(w) \/ ManualExecute(w)
    PROVE  SInv'
<1>1. PICK m \in Modes : m # "run" /\ Go(w, AtLoop(m, store)) /\ UNCHANGED <<store, stage>>
  BY DEF StreamStart, IdleExecute, ManualExecute, Modes
<1>2. AtLoop(m, store).ctx = store /\ StageWorkerOK(AtLoop(m, store), stage')
  BY <1>1, Typed, LoopStaged
<1> QED BY <1>1, <1>2, StageMoves, SameGrows DEF SInv

\* A decided consent is applied and saved: the stages stay right.
LEMMA StreamResumeStaged ==
    ASSUME IInv, SInv, NEW w \in Workers, StreamResume(w) PROVE SInv'
<1> DEFINE q == get_step_consent_request(store, store.paused_step_id)
           g == GrantConsent(store)
           c == [g EXCEPT !.status = "running"]
           d == DenyConsent(store)
<1>1. store \in TaskContext /\ WaitsForConsent(store) /\ UNCHANGED stage /\ StagedOK(store, stage)
  BY Typed DEF StreamResume, SInv
<1>3. CASE requests[q] = "allowed"
  <2>1. store' = c /\ Go(w, AtLoop("stream", c)) BY <1>3 DEF StreamResume
  <2>2. /\ g \in TaskContext /\ g.processed_steps = store.processed_steps
        /\ \A s \in Steps : g.step_status[s] =
               IF s = store.paused_step_id THEN "ready" ELSE store.step_status[s]
    BY <1>1, GrantFields
  <2> HIDE DEF g
  <2>3. c \in TaskContext /\ c.step_status = g.step_status /\ c.processed_steps = g.processed_steps
    BY <2>2, StatusFields DEF PlanStatus
  <2> HIDE DEF c
  <2>4. StagedOK(c, stage)
    BY <1>1, <2>2, <2>3, StagedChange DEF Ran, Sat, DEPENDENCY_SATISFIED_STATUSES
  <2>5. AtLoop("stream", c).ctx = c /\ StageWorkerOK(AtLoop("stream", c), stage)
    BY <2>3, LoopStaged DEF Modes
  <2> QED BY <1>1, <2>1, <2>4, <2>5, StageMoves, SameGrows
<1>4. CASE requests[q] # "allowed"
  <2>1. store' = d /\ UNCHANGED wk BY <1>4 DEF StreamResume
  <2>2. /\ d.processed_steps = store.processed_steps \cup {store.paused_step_id}
        /\ \A s \in Steps : d.step_status[s] =
               IF s = store.paused_step_id THEN "cancelled" ELSE store.step_status[s]
    BY <1>1, DenyFields
  <2> HIDE DEF d
  <2>3. StagedOK(d, stage) BY <1>1, <2>2, StagedChange DEF Ran, Sat, DEPENDENCY_SATISFIED_STATUSES
  <2> QED BY <1>1, <2>1, <2>3, StageStays
<1> QED BY <1>3, <1>4

\* A worker that leaves has no step at the gate.
LEMMA StopStaged ==
    ASSUME IInv, SInv, NEW w \in Workers, Stop(w), UNCHANGED stage, StagedOK(store', stage)
    PROVE  SInv'
BY IdleStaged, StageMoves, SameGrows DEF Stop

\* An early return saves the same statuses: the stages stay right.
LEMMA ReturnEarlyStaged ==
    ASSUME IInv, SInv, NEW w \in Workers, ReturnEarly(w) PROVE SInv'
<1> DEFINE c == wk[w].ctx
           v == IF FailsForGood(c) THEN finalize_plan_status(c) ELSE c
           f == apply_sample_terminal_feedback(v)
<1>1. c \in TaskContext /\ StagedOK(c, stage) /\ StagedOK(store, stage) BY Typed DEF SInv
<1>2. (store' = f \/ store' = store) /\ Go(w, LoopAgain(w, f)) /\ UNCHANGED stage
  BY DEF ReturnEarly
<1> HIDE DEF c
<1>3. v \in TaskContext /\ v.step_status = c.step_status /\ v.processed_steps = c.processed_steps
  BY <1>1, FinalizeFields
<1> HIDE DEF v
<1>4. f \in TaskContext /\ f.step_status = v.step_status /\ f.processed_steps = v.processed_steps
  BY <1>3, FeedbackFields
<1> HIDE DEF f
<1>5. StagedOK(f, stage) BY <1>1, <1>3, <1>4, StagedChange
<1>6. StagedOK(LoopAgain(w, f).ctx, stage) /\ StageWorkerOK(LoopAgain(w, f), stage)
  BY <1>4, <1>5, AgainStaged
<1> QED BY <1>1, <1>2, <1>5, <1>6, StageMoves, SameGrows

\* The gate pauses the plan and the worker leaves: the stages stay right.
LEMMA BecomeGatedStaged ==
    ASSUME IInv, SInv, NEW w \in Workers, BecomeGated(w) PROVE SInv'
<1> DEFINE b == wk[w].ctx
           c == Revived(b)
           d == check_hard_gate(c)
           f == FirstOf(get_ready_steps(c))
<1>1. store' = d /\ Stop(w) /\ get_ready_steps(c) # {} /\ UNCHANGED stage
  BY DEF BecomeGated, gate_blocked
<1>2. /\ c \in TaskContext /\ c.step_status = b.step_status /\ c.processed_steps = b.processed_steps
      /\ StagedOK(b, stage)
  BY Typed, RevivedFields DEF SInv
<1> HIDE DEF c, b
<1>3. /\ d.processed_steps = c.processed_steps
      /\ \A s \in Steps : d.step_status[s] = IF s = f THEN "blocked" ELSE c.step_status[s]
  BY <1>1, <1>2, GateFields
<1> HIDE DEF d, f
<1>4. StagedOK(d, stage)
  BY <1>2, <1>3, StagedChange DEF Ran, Sat, DEPENDENCY_SATISFIED_STATUSES
<1> QED BY <1>1, <1>4, StopStaged

\* The gate lets the engine start only on a first ready step whose stage is open.
LEMMA EnterEngineStaged ==
    ASSUME IInv, SInv, NEW w \in Workers, EnterEngine(w) PROVE SInv'
<1> DEFINE b == wk[w].ctx
           c == Revived(b)
           e == EngineStart(c)
           st == c.step_status
           r == [wk[w] EXCEPT !.pc = "sched", !.ctx = e, !.prev = st]
<1>1. Go(w, r) /\ UNCHANGED <<store, stage>> /\ ~gate_blocked(c) BY DEF EnterEngine
<1>2. /\ c \in TaskContext /\ c.step_status = b.step_status /\ c.processed_steps = b.processed_steps
      /\ StagedOK(b, stage) /\ wk[w].mode # "run"
  BY Typed, RevivedFields DEF SInv, StageWorkerOK
<1> HIDE DEF c, st, b
<1>3. e.step_status = c.step_status /\ e.processed_steps = c.processed_steps BY <1>2, EngineStartFields
<1> HIDE DEF e
<1>4. r.pc = "sched" /\ r.ctx = e /\ r.mode = wk[w].mode BY Typed DEF Worker
<1> HIDE DEF r
<1>5. StagedOK(e, stage) BY <1>2, <1>3, StagedChange
<1>6. get_ready_steps(e) = get_ready_steps(c) BY <1>3, ReadySame
<1>7. ASSUME NEW s \in get_ready_steps(c), ComesFirst(s, c) PROVE Open(s, stage)
  <2> DEFINE f == FirstOf(get_ready_steps(c))
  <2>1. f \in get_ready_steps(c) /\ f \in Steps /\ \A t \in get_ready_steps(c) : Pos[f] <= Pos[t]
    BY PickedStep
  <2>2. ~GateCloses(f) BY <1>1 DEF gate_blocked
  <2> HIDE DEF f
  <2>3. s \in Steps BY DEF get_ready_steps
  <2>4. Pos[s] <= Pos[f] /\ Pos[f] <= Pos[s] BY <1>7, <2>1 DEF ComesFirst
  <2>5. s = f BY <2>1, <2>3, <2>4, PlanAssumption
  <2> QED BY <2>2, <2>5 DEF GateCloses, Open
<1>8. StageWorkerOK(r, stage) BY <1>2, <1>4, <1>6, <1>7 DEF StageWorkerOK, ComesFirst
<1> QED BY <1>1, <1>4, <1>5, <1>8, StageMoves, SameGrows DEF SInv

\* The engine goes on with context d, and the snapshot stays.
LEMMA ToPostStaged ==
    ASSUME IInv, SInv, NEW w \in Workers, NEW d, ToPost(w, d), UNCHANGED store,
           Grows(stage, stage'), StagedOK(d, stage'),
           d.status = "failed" => \/ get_ready_steps(d) = {}
                                  \/ d.paused_step_id # NoStep /\ ComesFirst(d.paused_step_id, d)
    PROVE  SInv'
<1> DEFINE r == [wk[w] EXCEPT !.pc = "post", !.ctx = d, !.cur = NoStep, !.tries = 0]
<1>1. Go(w, r) BY DEF ToPost
<1>2. r.pc = "post" /\ r.ctx = d /\ r.mode = wk[w].mode BY Typed DEF Worker
<1> HIDE DEF r
<1>3. wk[w].mode # "run" /\ StagedOK(store, stage) BY DEF SInv, StageWorkerOK
<1>4. StageWorkerOK(r, stage') BY <1>2, <1>3 DEF StageWorkerOK
<1>5. StagedOK(store', stage') BY <1>3, GrowsStaged
<1> QED BY <1>1, <1>2, <1>4, <1>5, StageMoves

\* Without a ready step the engine blocks what waits or stops: the stages stay right.
LEMMA NothingReadyStaged ==
    ASSUME IInv, SInv, NEW w \in Workers, NothingReady(w) PROVE SInv'
<1> DEFINE c == wk[w].ctx
           d == Outcome(c)
<1>1. ToPost(w, d) /\ UNCHANGED <<store, stage>> /\ wk[w].pc = "sched" /\ get_ready_steps(c) = {}
  BY DEF NothingReady, Scheduling
<1>2. c \in TaskContext /\ c.status = "running" /\ StagedOK(c, stage)
  BY <1>1, Typed, InEngine DEF SInv
<1> HIDE DEF c
<1>3. /\ d \in TaskContext /\ c.processed_steps \subseteq d.processed_steps
      /\ \A s \in Steps :
           \/ d.step_status[s] = c.step_status[s]
           \/ c.step_status[s] \in {"pending", "ready"} /\ d.step_status[s] = "blocked"
  BY <1>2, OutcomeFields
<1> HIDE DEF d
<1>4. StagedOK(d, stage) BY <1>2, <1>3, StagedChange DEF Ran, Sat, DEPENDENCY_SATISFIED_STATUSES
<1>5. d.processed_steps \subseteq Steps BY <1>3 DEF TaskContext
<1>6. get_ready_steps(d) \subseteq get_ready_steps(c)
  BY <1>2, <1>3, <1>5, ReadyShrinks DEF Sat, DEPENDENCY_SATISFIED_STATUSES
<1>7. get_ready_steps(d) = {} BY <1>1, <1>6
<1> QED BY <1>1, <1>4, <1>7, ToPostStaged, SameGrows

\* The engine stops at a step it holds back: the stages stay right.
LEMMA AskConsentStaged ==
    ASSUME IInv, SInv, NEW w \in Workers, AskConsent(w) PROVE SInv'
<1> DEFINE c == wk[w].ctx
           f == FirstOf(get_ready_steps(c))
           e == SetStatus(c, {f}, "blocked")
           d == [e EXCEPT !.status = "paused", !.paused_reason = "waiting_consent",
                          !.paused_step_id = f]
<1>1. ToPost(w, d) /\ UNCHANGED <<store, stage>> /\ wk[w].pc = "sched" BY DEF AskConsent, Scheduling
<1>2. c \in TaskContext /\ StagedOK(c, stage) BY Typed DEF SInv
<1> HIDE DEF c, f
<1>4. /\ e \in TaskContext /\ e.processed_steps = c.processed_steps
      /\ \A s \in Steps : e.step_status[s] = IF s = f THEN "blocked" ELSE c.step_status[s]
  BY <1>2, SetStatusFields DEF StepStatus
<1> HIDE DEF e
<1>5. d.step_status = e.step_status /\ d.processed_steps = e.processed_steps /\ d.status = "paused"
  BY <1>4 DEF TaskContext
<1> HIDE DEF d
<1>6. StagedOK(d, stage)
  BY <1>2, <1>4, <1>5, StagedChange DEF Ran, Sat, DEPENDENCY_SATISFIED_STATUSES
<1> QED BY <1>1, <1>5, <1>6, ToPostStaged, SameGrows

\* The picked step starts to run: the stages stay right.
LEMMA InvokeStepStaged ==
    ASSUME IInv, SInv, NEW w \in Workers, InvokeStep(w) PROVE SInv'
<1> DEFINE c == wk[w].ctx
           f == FirstOf(get_ready_steps(c))
           d == SetStatus(c, {f}, "running")
           r == [wk[w] EXCEPT !.pc = "exec", !.ctx = d, !.cur = f, !.tries = 1]
<1>1. /\ Go(w, r) /\ UNCHANGED store /\ wk[w].pc = "sched" /\ get_ready_steps(c) # {}
      /\ start_stage(w, f)
  BY DEF InvokeStep, Scheduling
<1>2. /\ c \in TaskContext /\ StagedOK(c, stage) /\ StagedOK(store, stage) /\ wk[w].mode # "run"
      /\ \A s \in get_ready_steps(c) : ComesFirst(s, c) => Open(s, stage)
  BY <1>1, Typed DEF SInv, StageWorkerOK
<1> HIDE DEF c
<1>3. /\ f \in Steps /\ f \in get_ready_steps(c) /\ ComesFirst(f, c)
  BY <1>1, PickedStep DEF ComesFirst
<1> HIDE DEF f
<1>4. /\ d \in TaskContext /\ d.processed_steps = c.processed_steps
      /\ \A s \in Steps : d.step_status[s] = IF s = f THEN "running" ELSE c.step_status[s]
  BY <1>2, SetStatusFields DEF StepStatus
<1>5. Open(f, stage) BY <1>2, <1>3
<1>6. stage \in [1..NStages -> StageState] BY DEF IInv, TypeOK
<1>7. Grows(stage, stage') /\ (StageOf[f] # 0 => stage'[StageOf[f]] # "none")
  BY <1>1, <1>2, <1>3, <1>6, StartStageGrows DEF Tracked
<1> HIDE DEF d
<1>8. StagedOK(d, stage)
  BY <1>2, <1>4, <1>5 DEF StagedOK, Ran, Sat, DEPENDENCY_SATISFIED_STATUSES
<1>9. StagedOK(d, stage') /\ StagedOK(store', stage') BY <1>1, <1>2, <1>7, <1>8, GrowsStaged
<1>10. d.processed_steps \subseteq Steps BY <1>4 DEF TaskContext
<1>11. get_ready_steps(d) \subseteq get_ready_steps(c)
  BY <1>2, <1>4, <1>10, ReadyShrinks DEF Sat, DEPENDENCY_SATISFIED_STATUSES
<1>12. ComesFirst(f, d) BY <1>3, <1>11, FirstShrinks
<1>13. r.pc = "exec" /\ r.ctx = d /\ r.cur = f /\ r.mode = wk[w].mode BY Typed DEF Worker
<1> HIDE DEF r
<1>14. StageWorkerOK(r, stage') BY <1>2, <1>7, <1>12, <1>13 DEF StageWorkerOK
<1> QED BY <1>1, <1>7, <1>9, <1>13, <1>14, StageMoves

\* The step under way is settled.
LEMMA AfterStepStaged ==
    ASSUME IInv, SInv, NEW w \in Workers, NEW d \in TaskContext, AfterStep(w, d), UNCHANGED store,
           d.status = "running", Grows(stage, stage'), StagedOK(d, stage')
    PROVE  SInv'
<1> DEFINE e == IF all_steps_final(d) THEN [d EXCEPT !.status = "done"] ELSE d
<1>1. wk[w].mode # "run" BY DEF SInv, StageWorkerOK
<1>2. ToPost(w, e) BY <1>1 DEF AfterStep
<1>3. /\ e.step_status = d.step_status /\ e.processed_steps = d.processed_steps
      /\ e.status \in {"running", "done"}
  BY DEF TaskContext
<1> HIDE DEF e
<1>4. StagedOK(e, stage') BY <1>3, StagedChange
<1> QED BY <1>2, <1>3, <1>4, ToPostStaged

\* What a worker that executes a step knows of it.
LEMMA AtStep ==
    ASSUME IInv, SInv, NEW w \in Workers, wk[w].pc = "exec"
    PROVE  /\ wk[w].ctx \in TaskContext /\ wk[w].ctx.status = "running" /\ wk[w].cur \in Steps
           /\ wk[w].ctx.step_status[wk[w].cur] = "running" /\ wk[w].ctx.paused_step_id = NoStep
           /\ StagedOK(wk[w].ctx, stage) /\ Open(wk[w].cur, stage)
           /\ ComesFirst(wk[w].cur, wk[w].ctx) /\ wk[w].mode # "run"
           /\ Tracked(w, wk[w].cur) <=> StageOf[wk[w].cur] # 0
           /\ StageOf[wk[w].cur] # 0 => stage[StageOf[wk[w].cur]] # "none"
           /\ stage \in [1..NStages -> StageState]
<1>1. /\ wk[w].ctx \in TaskContext /\ wk[w].ctx.status = "running" /\ wk[w].cur \in Steps
      /\ wk[w].ctx.step_status[wk[w].cur] = "running" /\ wk[w].ctx.paused_step_id = NoStep
  BY Typed, InEngine
<1>2. /\ StagedOK(wk[w].ctx, stage) /\ ComesFirst(wk[w].cur, wk[w].ctx) /\ wk[w].mode # "run"
      /\ StageOf[wk[w].cur] # 0 => stage[StageOf[wk[w].cur]] # "none"
  BY DEF SInv, StageWorkerOK
<1>3. Open(wk[w].cur, stage) BY <1>1, <1>2 DEF StagedOK, Ran
<1>4. stage \in [1..NStages -> StageState] BY DEF IInv, TypeOK
<1> QED BY <1>1, <1>2, <1>3, <1>4 DEF Tracked

\* The step is done: the stages stay right.
LEMMA StepSucceedsStaged ==
    ASSUME IInv, SInv, NEW w \in Workers, StepSucceeds(w) PROVE SInv'
<1> DEFINE c == wk[w].ctx
           f == wk[w].cur
           d == Settle(c, {f}, "done")
<1>1. AfterStep(w, d) /\ UNCHANGED store /\ wk[w].pc = "exec" /\ finish_stage(w, f, "completed")
  BY DEF StepSucceeds
<1>2. /\ c \in TaskContext /\ c.status = "running" /\ f \in Steps /\ StagedOK(c, stage)
      /\ Open(f, stage) /\ (Tracked(w, f) <=> StageOf[f] # 0)
      /\ StageOf[f] # 0 => stage[StageOf[f]] # "none"
      /\ stage \in [1..NStages -> StageState]
  BY <1>1, AtStep
<1> HIDE DEF c, f
<1>3. /\ Grows(stage, stage')
      /\ StageOf[f] # 0 => stage'[StageOf[f]] \in {"completed", "failed"}
  BY <1>1, <1>2, FinishStageGrows
<1>4. /\ d \in TaskContext /\ Paused(c, d) /\ d.processed_steps = c.processed_steps \cup {f}
      /\ \A s \in Steps : d.step_status[s] = IF s = f THEN "done" ELSE c.step_status[s]
  BY <1>2, SettleFields DEF StepStatus
<1> HIDE DEF d
<1>5. StagedOK(c, stage') /\ Open(f, stage') BY <1>2, <1>3, GrowsStaged, GrowsOpen
<1>6. StagedOK(d, stage') BY <1>3, <1>4, <1>5 DEF StagedOK
<1> QED BY <1>1, <1>2, <1>3, <1>4, <1>6, AfterStepStaged DEF Paused

\* The copy is saved between the two quality attempts: the stages stay right.
LEMMA QualityRetryStaged ==
    ASSUME IInv, SInv, NEW w \in Workers, QualityRetry(w) PROVE SInv'
<1> DEFINE c == wk[w].ctx
           Q == c.quality_retried \cup {wk[w].cur}
           d == [c EXCEPT !.quality_retried = Q]
           r == [wk[w] EXCEPT !.ctx = d]
<1>1. store' = d /\ Go(w, r) /\ wk[w].pc = "exec" /\ UNCHANGED stage BY DEF QualityRetry
<1>2. /\ c \in TaskContext /\ StagedOK(c, stage) /\ wk[w].mode # "run" /\ ComesFirst(wk[w].cur, c)
      /\ StageOf[wk[w].cur] # 0 => stage[StageOf[wk[w].cur]] # "none"
  BY <1>1, AtStep
<1> HIDE DEF c, Q
<1>3. d.step_status = c.step_status /\ d.processed_steps = c.processed_steps
  BY <1>2 DEF TaskContext
<1> HIDE DEF d
<1>4. StagedOK(d, stage) BY <1>2, <1>3, StagedChange
<1>5. ComesFirst(wk[w].cur, d) BY <1>2, <1>3, ReadySame DEF ComesFirst
<1>6. r.pc = "exec" /\ r.ctx = d /\ r.cur = wk[w].cur /\ r.mode = wk[w].mode
  BY <1>1, Typed DEF Worker
<1> HIDE DEF r
<1>7. StageWorkerOK(r, stage) BY <1>2, <1>5, <1>6 DEF StageWorkerOK
<1> QED BY <1>1, <1>4, <1>6, <1>7, StageMoves, SameGrows

\* Another attempt changes no status: the stages stay right.
LEMMA RetryStepStaged ==
    ASSUME IInv, SInv, NEW w \in Workers, RetryStep(w) PROVE SInv'
<1> DEFINE n == wk[w].tries + 1
           f == wk[w].cur
           r == [wk[w] EXCEPT !.tries = n]
<1>1. Go(w, r) /\ UNCHANGED store /\ wk[w].pc = "exec" /\ finish_stage(w, f, "failed")
  BY DEF RetryStep
<1>2. /\ f \in Steps /\ StagedOK(wk[w].ctx, stage) /\ stage \in [1..NStages -> StageState]
  BY <1>1, AtStep
<1> HIDE DEF n, f
<1>3. Grows(stage, stage') BY <1>1, <1>2, FinishStageGrows
<1>4. r.pc = wk[w].pc /\ r.ctx = wk[w].ctx /\ r.cur = wk[w].cur /\ r.mode = wk[w].mode
  BY Typed DEF Worker
<1> HIDE DEF r
<1>5. StageWorkerOK(wk[w], stage')
  <2>1. wk[w] \in Worker /\ WorkerOK(wk[w]) /\ StageWorkerOK(wk[w], stage) BY Typed DEF IInv, SInv
  <2> QED BY <1>3, <2>1, GrowsWorker
<1>6. StageWorkerOK(r, stage') BY <1>4, <1>5 DEF StageWorkerOK
<1>7. StagedOK(r.ctx, stage') /\ StagedOK(store', stage')
  BY <1>1, <1>2, <1>3, <1>4, GrowsStaged DEF SInv
<1> QED BY <1>1, <1>3, <1>6, <1>7, StageMoves

\* The step fails or is degraded: the stages stay right.
LEMMA StepFailsStaged ==
    ASSUME IInv, SInv, NEW w \in Workers, NEW x \in Causes, StepFails(w, x) PROVE SInv'
<1> DEFINE c == wk[w].ctx
           f == wk[w].cur
           d == FailedContext(c, f, x)
<1>1. /\ IF f \in Degradable THEN AfterStep(w, d)
         ELSE IF f \notin FailFast /\ wk[w].mode = "run" THEN ToSched(w, d)
         ELSE ToPost(w, d)
      /\ UNCHANGED store /\ wk[w].pc = "exec"
      /\ UNCHANGED stage \/ finish_stage(w, f, "failed")
  BY DEF StepFails
<1>2. /\ c \in TaskContext /\ c.status = "running" /\ f \in Steps /\ StagedOK(c, stage)
      /\ c.step_status[f] = "running" /\ c.paused_step_id = NoStep
      /\ Open(f, stage) /\ ComesFirst(f, c) /\ wk[w].mode # "run"
      /\ stage \in [1..NStages -> StageState]
  BY <1>1, AtStep
<1> HIDE DEF c, f
<1>3. Grows(stage, stage') BY <1>1, <1>2, FinishStageGrows, SameGrows
<1>4. /\ d \in TaskContext /\ d.processed_steps = c.processed_steps \cup {f}
      /\ IF f \notin Degradable /\ f \in FailFast
         THEN d.status = "failed" /\ d.paused_step_id = f
         ELSE d.status = "running"
      /\ \A t \in Steps : d.step_status[t] =
             IF t = f THEN IF f \in Degradable THEN "degraded" ELSE "failed" ELSE c.step_status[t]
  BY <1>2, FailedFields
<1> HIDE DEF d
<1>5. StagedOK(c, stage') /\ Open(f, stage') BY <1>2, <1>3, GrowsStaged, GrowsOpen
<1>6. StagedOK(d, stage') BY <1>4, <1>5 DEF StagedOK, Sat, DEPENDENCY_SATISFIED_STATUSES
<1>7. CASE f \in Degradable BY <1>1, <1>3, <1>4, <1>6, <1>7, AfterStepStaged
<1>8. CASE f \notin Degradable
  <2>1. d.processed_steps \subseteq Steps BY <1>4 DEF TaskContext
  <2>2. get_ready_steps(d) \subseteq get_ready_steps(c)
    BY <1>2, <1>4, <1>8, <2>1, ReadyShrinks DEF Sat, DEPENDENCY_SATISFIED_STATUSES
  <2>3. ComesFirst(f, d) BY <1>2, <2>2, FirstShrinks
  <2>4. d.status = "failed" => d.paused_step_id # NoStep /\ ComesFirst(d.paused_step_id, d)
    BY <1>2, <1>4, <2>3, PlanAssumption
  <2> QED BY <1>1, <1>2, <1>3, <1>6, <1>8, <2>4, ToPostStaged
<1> QED BY <1>7, <1>8

\* The step a fallback makes pending had run, so its gate was open, and it comes first.
LEMMA FallBackStaged ==
    ASSUME IInv, SInv, NEW w \in Workers, FallBack(w) PROVE SInv'
<1> DEFINE b == wk[w].ctx
           c == [advance(b) EXCEPT !.status = "running"]
           e == EngineStart(c)
           f == FailedStep(b)
           r == [wk[w] EXCEPT !.pc = "sched", !.ctx = e, !.cur = NoStep, !.tries = 0]
<1>1. /\ store' = c /\ Go(w, r) /\ wk[w].pc = "post" /\ b.status = "failed" /\ UNCHANGED stage
      /\ wk[w].mode = "run" \/ f # NoStep
  BY DEF FallBack, FallsBack, ToSched
<1>2. /\ b \in TaskContext /\ wk[w].mode # "run" /\ StagedOK(b, stage) /\ DepsOK(b)
      /\ b.paused_step_id # NoStep => b.step_status[b.paused_step_id] = "failed"
      /\ \/ get_ready_steps(b) = {}
         \/ b.paused_step_id # NoStep /\ ComesFirst(b.paused_step_id, b)
  BY <1>1, Typed DEF IInv, WorkerOK, SInv, StageWorkerOK, Good
<1>3. b.paused_step_id # NoStep => f = b.paused_step_id BY DEF FailedStep
<1> HIDE DEF b
<1>4. /\ c \in TaskContext /\ b.processed_steps \subseteq c.processed_steps
      /\ f # NoStep => f \in Steps /\ b.step_status[f] = "failed"
      /\ \A s \in Steps : c.step_status[s] = IF s = f THEN "pending" ELSE b.step_status[s]
  BY <1>2, AdvanceFields
<1> HIDE DEF c, f
<1>5. e \in TaskContext /\ e.step_status = c.step_status /\ e.processed_steps = c.processed_steps
  BY <1>4, EngineStartFields
<1> HIDE DEF e
<1>6. r.pc = "sched" /\ r.ctx = e /\ r.mode = wk[w].mode BY Typed DEF Worker
<1> HIDE DEF r
<1>7. f \in Steps /\ b.step_status[f] = "failed" BY <1>1, <1>2, <1>4
<1>8. StagedOK(c, stage) /\ StagedOK(e, stage)
  BY <1>2, <1>4, <1>5, StagedChange DEF Ran, Sat, DEPENDENCY_SATISFIED_STATUSES
<1>9. Open(f, stage) BY <1>2, <1>7 DEF StagedOK, Ran
<1>10. dependency_satisfied_set(e) = dependency_satisfied_set(b)
  <2>1. \A s \in Steps : e.step_status[s] \in Sat <=> b.step_status[s] \in Sat
    BY <1>4, <1>5, <1>7 DEF Sat, DEPENDENCY_SATISFIED_STATUSES
  <2>2. e.processed_steps \subseteq Steps /\ b.processed_steps \subseteq e.processed_steps
    BY <1>4, <1>5 DEF TaskContext
  <2>3. \A s \in Steps : b.step_status[s] \in Sat => s \in b.processed_steps
    BY <1>2 DEF StagedOK
  <2> QED BY <2>1, <2>2, <2>3 DEF dependency_satisfied_set, Sat
<1>11. f \in get_ready_steps(e)
  <2>1. \A x \in Deps[f] : x \in Steps /\ b.step_status[x] \in Sat
    BY <1>2, <1>7, PlanAssumption DEF DepsOK, Ran
  <2>2. Deps[f] \subseteq dependency_satisfied_set(b)
    BY <1>2, <2>1 DEF dependency_satisfied_set, StagedOK, Sat
  <2> QED BY <1>4, <1>5, <1>7, <1>10, <2>2 DEF get_ready_steps
<1>12. \A s \in get_ready_steps(e) : s \in Steps /\ (s = f \/ s \in get_ready_steps(b))
  BY <1>4, <1>5, <1>10 DEF get_ready_steps
<1>13. ASSUME NEW s \in get_ready_steps(e), ComesFirst(s, e) PROVE Open(s, stage)
  <2>1. CASE s = f BY <1>9, <2>1
  <2>2. CASE s # f
    <3>1. s \in get_ready_steps(b) /\ s \in Steps BY <1>12, <2>2
    <3>2. ComesFirst(f, b) BY <1>2, <1>3, <3>1
    <3>3. Pos[f] <= Pos[s] /\ Pos[s] <= Pos[f] BY <1>11, <1>13, <3>1, <3>2 DEF ComesFirst
    <3> QED BY <1>7, <2>2, <3>1, <3>3, PlanAssumption
  <2> QED BY <2>1, <2>2
<1>14. StageWorkerOK(r, stage) BY <1>2, <1>6, <1>13 DEF StageWorkerOK
<1> QED BY <1>1, <1>6, <1>8, <1>14, StageMoves, SameGrows

\* What execute_next does to the statuses of b after the engine: it blocks what is
\* downstream of a failed step, which gives d, and then unblocks the steps U.
NextStatuses(b, d, U, r) ==
    /\ d \in TaskContext /\ U \subseteq Steps /\ r \in TaskContext
    /\ b.processed_steps \subseteq d.processed_steps
    /\ \A s \in Steps :
          \/ d.step_status[s] = b.step_status[s]
          \/ /\ b.step_status[s] \in {"pending", "ready"} /\ d.step_status[s] = "blocked"
             /\ \E f \in Steps : b.step_status[f] = "failed" /\ s \in Downstream(f)
    /\ \A s \in U : d.step_status[s] = "blocked"
    /\ r.processed_steps = d.processed_steps \ U
    /\ \A s \in Steps : r.step_status[s] = IF s \in U THEN "pending" ELSE d.step_status[s]

\* The results of execute_next are of that form.
LEMMA ResultStatuses ==
    ASSUME IInv, NEW w \in Workers, wk[w].mode # "run", NEW r \in EngineResults(w)
    PROVE  \E U \in SUBSET Steps :
             LET d == propagate_failure(wk[w].ctx, StepsWith(wk[w].ctx, {"failed"}))
             IN  NextStatuses(wk[w].ctx, d, U, r) /\ Unblocks(w, U)
<1> DEFINE b == wk[w].ctx
           F == StepsWith(b, {"failed"})
           d == propagate_failure(b, F)
<1>1. PICK U \in SUBSET Steps :
          /\ Unblocks(w, U)
          /\ r = apply_sample_terminal_feedback(finalize_plan_status(propagate_unblock(d, U)))
  BY DEF EngineResults, NextResult
<1> DEFINE u == propagate_unblock(d, U)
           x == finalize_plan_status(u)
<1>2. \A s \in U : d.step_status[s] = "blocked" BY <1>1 DEF Unblocks, IsUnblockedBy
<1>3. r = apply_sample_terminal_feedback(x) BY <1>1
<1>4. b \in TaskContext BY Typed
<1>5. \A f \in F : f \in Steps /\ b.step_status[f] = "failed" BY DEF StepsWith
<1> HIDE DEF F
<1>6. /\ d \in TaskContext /\ b.processed_steps \subseteq d.processed_steps
      /\ \A s \in Steps :
            \/ d.step_status[s] = b.step_status[s]
            \/ /\ b.step_status[s] \in {"pending", "ready"} /\ d.step_status[s] = "blocked"
               /\ \E f \in F : s \in Downstream(f)
  <2> HIDE DEF b
  <2> QED BY <1>4, PropagateFailureFields
<1>7. /\ d \in TaskContext /\ d = propagate_failure(b, StepsWith(b, {"failed"})) BY <1>6 DEF F
<1> HIDE DEF d, b
<1>8. /\ u \in TaskContext /\ u.processed_steps = d.processed_steps \ U
      /\ \A s \in Steps : u.step_status[s] = IF s \in U THEN "pending" ELSE d.step_status[s]
  BY <1>6, PropagateUnblockFields
<1> HIDE DEF u
<1>9. x \in TaskContext /\ x.step_status = u.step_status /\ x.processed_steps = u.processed_steps
  BY <1>8, FinalizeFields
<1> HIDE DEF x
<1>10. r \in TaskContext /\ r.step_status = x.step_status /\ r.processed_steps = x.processed_steps
  BY <1>3, <1>9, FeedbackFields
<1>11. \A s \in Steps :
            \/ d.step_status[s] = b.step_status[s]
            \/ /\ b.step_status[s] \in {"pending", "ready"} /\ d.step_status[s] = "blocked"
               /\ \E f \in Steps : b.step_status[f] = "failed" /\ s \in Downstream(f)
  BY <1>5, <1>6
<1>12. /\ r.processed_steps = d.processed_steps \ U
       /\ \A s \in Steps : r.step_status[s] = IF s \in U THEN "pending" ELSE d.step_status[s]
  BY <1>8, <1>9, <1>10
<1>13. NextStatuses(b, d, U, r) BY <1>1, <1>2, <1>6, <1>10, <1>11, <1>12 DEF NextStatuses
<1> QED BY <1>1, <1>7, <1>13 DEF b

\* The context that is saved and published has the statuses of that result.
LEMMA FinishedWith ==
    ASSUME IInv, NEW w \in Workers, FinishRun(w)
    PROVE  \E r \in EngineResults(w) : \E c \in TaskContext : \E q :
             /\ store' = c /\ Go(w, q) /\ q.pc = "publish" /\ q.ctx = c /\ q.mode = wk[w].mode
             /\ UNCHANGED stage
             /\ r \in TaskContext =>
                    c.step_status = r.step_status /\ c.processed_steps = r.processed_steps
<1>1. PICK r \in EngineResults(w) :
        LET p == prepare_consent_pause(r)
            c == collect_step_events(p)
        IN  /\ store' = c
            /\ Go(w, [wk[w] EXCEPT !.pc = "publish", !.ctx = c,
                         !.pub = UnpublishedSteps(p) \cap StepsWith(p, {"done"})])
  BY DEF FinishRun
<1> DEFINE p == prepare_consent_pause(r)
           c == collect_step_events(p)
           B == UnpublishedSteps(p) \cap StepsWith(p, {"done"})
           q == [wk[w] EXCEPT !.pc = "publish", !.ctx = c, !.pub = B]
<1>2. store' = c /\ Go(w, q) /\ UNCHANGED stage BY <1>1 DEF FinishRun
<1>3. r \in TaskContext BY ResultKept
<1>4. p \in TaskContext /\ p.step_status = r.step_status /\ p.processed_steps = r.processed_steps
  BY <1>3, PrepareFields
<1> HIDE DEF p, B
<1>5. c \in TaskContext /\ c.step_status = p.step_status /\ c.processed_steps = p.processed_steps
  BY <1>4, CollectFields
<1> HIDE DEF c
<1>6. q.pc = "publish" /\ q.ctx = c /\ q.mode = wk[w].mode BY Typed DEF Worker
<1> HIDE DEF q
<1> QED BY <1>2, <1>4, <1>5, <1>6

\* The result is saved and its events collected: the stages stay right.
LEMMA FinishRunStaged ==
    ASSUME IInv, SInv, NEW w \in Workers, FinishRun(w) PROVE SInv'
<1> DEFINE b == wk[w].ctx
<1>1. wk[w].mode # "run" /\ StagedOK(b, stage) BY DEF SInv, StageWorkerOK
<1>2. PICK r \in EngineResults(w), c \in TaskContext : \E q :
             /\ store' = c /\ Go(w, q) /\ q.pc = "publish" /\ q.ctx = c /\ q.mode = wk[w].mode
             /\ UNCHANGED stage
             /\ r \in TaskContext =>
                    c.step_status = r.step_status /\ c.processed_steps = r.processed_steps
  BY FinishedWith
<1>9. PICK q : Go(w, q) /\ q.pc = "publish" /\ q.ctx = c /\ q.mode = wk[w].mode BY <1>2
<1> DEFINE d == propagate_failure(b, StepsWith(b, {"failed"}))
<1>3. PICK U \in SUBSET Steps : NextStatuses(b, d, U, r) BY <1>1, ResultStatuses
<1> HIDE DEF d
<1> HIDE DEF b
<1>4. StagedOK(d, stage)
  BY <1>1, <1>3, StagedChange DEF NextStatuses, Ran, Sat, DEPENDENCY_SATISFIED_STATUSES
<1>5. StagedOK(r, stage)
  BY <1>3, <1>4, StagedChange DEF NextStatuses, Ran, Sat, DEPENDENCY_SATISFIED_STATUSES
<1>6. StagedOK(c, stage) BY <1>2, <1>3, <1>5, StagedChange DEF NextStatuses
<1>7. StageWorkerOK(q, stage) BY <1>1, <1>9 DEF StageWorkerOK
<1> QED BY <1>2, <1>6, <1>7, <1>9, StageMoves, SameGrows

\* The events go out and the worker goes on: the stages stay right.
LEMMA PublishStaged ==
    ASSUME IInv, SInv, NEW w \in Workers, PublishEvents(w) PROVE SInv'
<1>1. Go(w, LoopAgain(w, wk[w].ctx)) /\ UNCHANGED <<store, stage>> BY DEF PublishEvents
<1>2. wk[w].ctx \in TaskContext /\ StagedOK(wk[w].ctx, stage) /\ StagedOK(store, stage)
  BY Typed DEF SInv
<1> QED BY <1>1, <1>2, AgainStaged, StageMoves, SameGrows

\* The endpoints run nothing and settle nothing as done.
LEMMA EndpointStatuses ==
    ASSUME IInv, Endpoint
    PROVE  /\ UNCHANGED <<wk, stage>>
           /\ \A s \in Steps :
                 \/ /\ store'.step_status[s] = store.step_status[s]
                    /\ s \in store.processed_steps => s \in store'.processed_steps
                 \/ /\ store.step_status[s] \notin Sat
                    /\ store'.step_status[s] \in {"cancelled", "pending"}
<1> DEFINE Goal == /\ UNCHANGED <<wk, stage>>
                   /\ \A s \in Steps :
                         \/ /\ store'.step_status[s] = store.step_status[s]
                            /\ s \in store.processed_steps => s \in store'.processed_steps
                         \/ /\ store.step_status[s] \notin Sat
                            /\ store'.step_status[s] \in {"cancelled", "pending"}
<1>0. store \in TaskContext BY DEF IInv, TypeOK
<1>1. ASSUME NEW reason \in {"user_input", "manual_pause"}, pause(reason) PROVE Goal
  BY <1>0, <1>1 DEF pause, TaskContext
<1>2. ASSUME resume_plan PROVE Goal
  BY <1>0, <1>2, EngineStartFields DEF resume_plan
<1>3. ASSUME cancel PROVE Goal
  <2> DEFINE open == {s \in Steps : store.step_status[s] \notin FINAL_STEP_STATUSES}
             e == Settle(store, open, "cancelled")
             d == [e EXCEPT !.status = "cancelled"]
             c == apply_sample_terminal_feedback(d)
  <2>1. store' = c /\ UNCHANGED <<wk, stage>> BY <1>3 DEF cancel
  <2>2. open \subseteq Steps /\ \A s \in open : store.step_status[s] \notin Sat
    BY DEF FINAL_STEP_STATUSES, Sat, DEPENDENCY_SATISFIED_STATUSES
  <2> HIDE DEF open
  <2>3. /\ e \in TaskContext /\ e.processed_steps = store.processed_steps \cup open
        /\ \A s \in Steps : e.step_status[s] = IF s \in open THEN "cancelled" ELSE store.step_status[s]
    BY <1>0, <2>2, SettleFields DEF StepStatus
  <2> HIDE DEF e
  <2>4. d \in TaskContext /\ d.step_status = e.step_status /\ d.processed_steps = e.processed_steps
    BY <2>3, StatusFields DEF PlanStatus
  <2> HIDE DEF d
  <2>5. c.step_status = d.step_status /\ c.processed_steps = d.processed_steps
    BY <2>4, FeedbackFields
  <2> HIDE DEF c
  <2> QED BY <2>1, <2>2, <2>3, <2>4, <2>5
<1>4. ASSUME NEW x \in Steps, retry_failed_step(x) PROVE Goal
  <2> DEFINE e == SetStatus(store, {x}, "pending")
             P == store.processed_steps \ {x}
             E == store.published_step_events \ {x}
             Q == store.quality_retried \ {x}
             y == IF store.paused_step_id = x THEN "none" ELSE e.paused_reason
             z == IF store.paused_step_id = x THEN NoStep ELSE e.paused_step_id
             d == [e EXCEPT !.processed_steps = P, !.published_step_events = E,
                            !.quality_retried = Q, !.paused_reason = y, !.paused_step_id = z,
                            !.status = "running", !.plan_status = "none"]
  <2>1. store' = d /\ UNCHANGED <<wk, stage>> /\ store.step_status[x] = "failed"
    BY <1>4 DEF retry_failed_step, VerdictAfterRetry, CanRetry
  <2>2. /\ e \in TaskContext
        /\ \A t \in Steps : e.step_status[t] = IF t = x THEN "pending" ELSE store.step_status[t]
    BY <1>0, SetStatusFields DEF StepStatus
  <2>3. P = store.processed_steps \ {x} OBVIOUS
  <2> HIDE DEF e, P, E, Q, y, z
  <2>4. d.step_status = e.step_status /\ d.processed_steps = P BY <2>2 DEF TaskContext
  <2> HIDE DEF d
  <2> QED BY <2>1, <2>2, <2>3, <2>4 DEF Sat, DEPENDENCY_SATISFIED_STATUSES
<1>5. ASSUME NEW r \in Steps, NEW allowed \in BOOLEAN, decide(r, allowed) PROVE Goal
  BY <1>5 DEF decide
<1> HIDE DEF Goal
<1>6. Goal BY <1>1, <1>2, <1>3, <1>4, <1>5 DEF Endpoint
<1> QED BY <1>6 DEF Goal

\* Endpoints keep the stages.
LEMMA EndpointStaged == ASSUME IInv, SInv, Endpoint PROVE SInv'
<1>1. StagedOK(store, stage) BY DEF SInv
<1>2. StagedOK(store', stage)
  BY <1>1, EndpointStatuses, StagedChange DEF Ran, Sat, DEPENDENCY_SATISFIED_STATUSES
<1> QED BY <1>2, EndpointStatuses, StageStays

\* Every step of the system keeps the stages.
LEMMA StagedStep == ASSUME GatedCalls PROVE IInv /\ SInv /\ [Next]_vars => SInv'
<1> SUFFICES ASSUME IInv, SInv, [Next]_vars PROVE SInv' OBVIOUS
<1>0. StagedOK(store, stage) BY DEF SInv
<1>1. ASSUME NEW w \in Workers, Engine(w) PROVE SInv'
  <2>1. CASE StreamEnd(w) BY <1>0, <2>1, StopStaged DEF StreamEnd
  <2>2. CASE StayGated(w) BY <1>0, <2>2, StopStaged DEF StayGated
  <2>3. CASE \E x \in Causes : StepFails(w, x) BY <2>3, StepFailsStaged
  <2>4. ~SkipStep(w) BY DEF GatedCalls, SkipStep
  <2> QED
    BY <1>1, <2>1, <2>2, <2>3, <2>4, ReturnEarlyStaged, BecomeGatedStaged, EnterEngineStaged,
       NothingReadyStaged, AskConsentStaged, InvokeStepStaged,
       StepSucceedsStaged, QualityRetryStaged, RetryStepStaged, FallBackStaged,
       FinishRunStaged, PublishStaged
    DEF Engine
<1>2. ASSUME NEW w \in Workers, Call(w) PROVE SInv'
  <2>1. \A a : ~Resume(w, a) BY DEF GatedCalls, Resume
  <2> QED BY <1>2, <2>1, StartStaged, StreamResumeStaged DEF Call
<1>3. CASE Restart
  <2>1. \A w \in Workers : wk'[w] = IdleWorker BY <1>3 DEF Restart
  <2>2. UNCHANGED <<store, stage>> BY <1>3 DEF Restart
  <2> QED BY <1>0, <2>1, <2>2, IdleStaged DEF SInv
<1>4. CASE UNCHANGED vars
  <2>1. UNCHANGED <<wk, store, stage>> BY <1>4 DEF vars
  <2> QED BY <1>0, <2>1, StageStays
<1> QED BY <1>1, <1>2, <1>3, <1>4, EndpointStaged DEF Next

\* At first nothing ran.
LEMMA StagedStarts == Init => SInv
<1> SUFFICES ASSUME Init PROVE SInv OBVIOUS
<1>1. store = CreatedContext /\ \A w \in Workers : wk[w] = IdleWorker BY DEF Init
<1>2. IdleWorker.ctx = CreatedContext BY DEF IdleWorker
<1> QED BY <1>1, <1>2, IdleStaged DEF SInv

\* Whoever calls execute_next on a plan without conditional steps: the rows of the
\* tracker and the copies of the context agree.
THEOREM StagesInvariant == ASSUME GatedCalls PROVE Spec => [](IInv /\ SInv)
<1>1. IInv /\ SInv /\ [Next]_vars => SInv' BY StagedStep
<1>2. Init /\ [][Next]_vars /\ []IInv => []SInv BY <1>1, StagedStarts, PTL
<1> QED BY <1>2, Invariance, PTL DEF Spec

\* The gate holds and done stages are closed (HardGate.check, SkillExecutionTracker).
THEOREM GateHolds == ASSUME GatedCalls PROVE Spec => [](GateRespected /\ DoneStageIsClosed)
<1>1. IInv /\ SInv => GateRespected
  <2> SUFFICES ASSUME IInv, SInv, NEW w \in Workers, wk[w].pc = "exec", Tracked(w, wk[w].cur)
               PROVE  \A k \in 1..(StageOf[wk[w].cur] - 1) : stage[k] = "completed"
    BY DEF GateRespected
  <2> QED BY AtStep DEF Open, Tracked
<1>2. SInv => DoneStageIsClosed BY DEF SInv, StagedOK, DoneStageIsClosed, StepsWith
<1>3. Spec => [](IInv /\ SInv) BY StagesInvariant
<1> QED BY <1>1, <1>2, <1>3, PTL

-----------------------------------------------------------------------------
(* Causes.  propagate_unblock is called for newly done steps, so a blocked *)
(* step has a cause on plans where nothing becomes satisfied in another    *)
(* way (no degrade_value).                                                 *)

HasCause(c, t) ==
    \/ \E u \in Steps : t \in Downstream(u) /\ c.step_status[u] \notin Sat
    \/ t \in Consent \/ StageOf[t] # 0

CauseOK(c) == \A t \in Steps : c.step_status[t] = "blocked" => HasCause(c, t)

\* The steps this execute_next completed.
Fresh(r) == {s \in Steps : r.ctx.step_status[s] = "done" /\ r.prev[s] # "done"}

\* After the engine, what the one new done step held back is still to be unblocked.
PostCause(r) ==
    /\ \A m, n \in Fresh(r) : m = n
    /\ \A t \in Steps : r.ctx.step_status[t] = "blocked" =>
          HasCause(r.ctx, t) \/ \E n \in Fresh(r) : t \in Downstream(n)

CauseWorkerOK(r) ==
    /\ r.mode # "run"
    /\ r.pc = "post" => PostCause(r)
    /\ r.pc # "post" => CauseOK(r.ctx)

CInv == CauseOK(store) /\ \A w \in Workers : CauseWorkerOK(wk[w])

\* Nothing new is satisfied, and what is newly blocked has a cause.
LEMMA CauseChange ==
    ASSUME NEW c, NEW d, CauseOK(c),
           \A s \in Steps : d.step_status[s] \in Sat => c.step_status[s] \in Sat,
           \A s \in Steps : d.step_status[s] = "blocked" => c.step_status[s] = "blocked" \/ HasCause(d, s)
    PROVE  CauseOK(d)
BY DEF CauseOK, HasCause

\* Causes are a matter of statuses.
LEMMA SameCause ==
    ASSUME NEW c, NEW d, CauseOK(c), d.step_status = c.step_status PROVE CauseOK(d)
BY DEF CauseOK, HasCause

\* A successor is downstream.
LEMMA SuccessorDownstream ==
    ASSUME NEW x \in Steps, NEW t \in Steps, x \in Deps[t] PROVE t \in Downstream(x)
BY DEF Downstream, Successors

\* One worker moves.
LEMMA CauseMoves ==
    ASSUME IInv, CInv, NEW w \in Workers, NEW r, Go(w, r), CauseWorkerOK(r), CauseOK(store')
    PROVE  CInv'
<1>1. wk'[w] = r /\ \A v \in Workers : v # w => wk'[v] = wk[v] BY Typed DEF Go
<1>2. ASSUME NEW v \in Workers PROVE CauseWorkerOK(wk'[v]) BY <1>1 DEF CInv
<1> QED BY <1>2 DEF CInv

\* No worker moves.
LEMMA CauseStays == ASSUME CInv, UNCHANGED wk, CauseOK(store') PROVE CInv'
<1>1. ASSUME NEW v \in Workers PROVE CauseWorkerOK(wk'[v]) BY DEF CInv
<1> QED BY <1>1 DEF CInv

\* A worker at rest holds a created plan, with nothing blocked.
LEMMA IdleCause == CauseWorkerOK(IdleWorker) /\ CauseOK(IdleWorker.ctx)
BY DEF IdleWorker, CreatedContext, CauseWorkerOK, CauseOK

\* At the head of the loop the copy has causes.
LEMMA LoopCause ==
    ASSUME NEW c \in TaskContext, NEW m \in Modes, m # "run", CauseOK(c)
    PROVE  CauseWorkerOK(AtLoop(m, c))
BY LoopEngine DEF CauseWorkerOK

\* So it has when the worker goes round again or leaves.
LEMMA AgainCause ==
    ASSUME NEW c \in TaskContext, NEW w, CauseOK(c) PROVE CauseWorkerOK(LoopAgain(w, c))
<1>1. CASE LoopAgain(w, c) = AtLoop("stream", c) BY <1>1, LoopCause DEF Modes
<1>2. CASE LoopAgain(w, c) = IdleWorker BY <1>2, IdleCause
<1> QED BY <1>1, <1>2 DEF LoopAgain

\* A worker takes the snapshot as it is: what is blocked keeps its cause.
LEMMA StartCause ==
    ASSUME IInv, CInv, NEW w \in Workers, StreamStart(w) \/ IdleExecute(w) \/ ManualExecute(w)
    PROVE  CInv'
<1>1. PICK m \in Modes : m # "run" /\ Go(w, AtLoop(m, store)) /\ UNCHANGED store
  BY DEF StreamStart, IdleExecute, ManualExecute, Modes
<1>2. CauseOK(store) /\ store \in TaskContext BY Typed DEF CInv
<1> QED BY <1>1, <1>2, LoopCause, CauseMoves

\* A decided consent is applied and saved: what is blocked keeps its cause.
LEMMA StreamResumeCause ==
    ASSUME IInv, CInv, NEW w \in Workers, StreamResume(w) PROVE CInv'
<1> DEFINE q == get_step_consent_request(store, store.paused_step_id)
           g == GrantConsent(store)
           c == [g EXCEPT !.status = "running"]
           d == DenyConsent(store)
<1>1. store \in TaskContext /\ WaitsForConsent(store) /\ CauseOK(store)
  BY Typed DEF StreamResume, CInv
<1>3. CASE requests[q] = "allowed"
  <2>1. store' = c /\ Go(w, AtLoop("stream", c)) BY <1>3 DEF StreamResume
  <2>2. /\ g \in TaskContext
        /\ \A s \in Steps : g.step_status[s] =
               IF s = store.paused_step_id THEN "ready" ELSE store.step_status[s]
    BY <1>1, GrantFields
  <2> HIDE DEF g
  <2>3. c \in TaskContext /\ c.step_status = g.step_status
    BY <2>2, StatusFields DEF PlanStatus
  <2> HIDE DEF c
  <2>4. CauseOK(c)
    BY <1>1, <2>2, <2>3, CauseChange DEF Sat, DEPENDENCY_SATISFIED_STATUSES
  <2>5. CauseWorkerOK(AtLoop("stream", c)) BY <2>3, <2>4, LoopCause DEF Modes
  <2> QED BY <2>1, <2>4, <2>5, CauseMoves
<1>4. CASE requests[q] # "allowed"
  <2>1. store' = d /\ UNCHANGED wk BY <1>4 DEF StreamResume
  <2>2. \A s \in Steps : d.step_status[s] =
               IF s = store.paused_step_id THEN "cancelled" ELSE store.step_status[s]
    BY <1>1, DenyFields
  <2> HIDE DEF d
  <2>3. CauseOK(d) BY <1>1, <2>2, CauseChange DEF Sat, DEPENDENCY_SATISFIED_STATUSES
  <2> QED BY <2>1, <2>3, CauseStays
<1> QED BY <1>3, <1>4

\* A worker that leaves blocks nothing.
LEMMA StopCause ==
    ASSUME IInv, CInv, NEW w \in Workers, Stop(w), CauseOK(store') PROVE CInv'
BY IdleCause, CauseMoves DEF Stop

\* An early return saves the same statuses: what is blocked keeps its cause.
LEMMA ReturnEarlyCause ==
    ASSUME IInv, CInv, NEW w \in Workers, ReturnEarly(w) PROVE CInv'
<1> DEFINE c == wk[w].ctx
           v == IF FailsForGood(c) THEN finalize_plan_status(c) ELSE c
           f == apply_sample_terminal_feedback(v)
<1>1. c \in TaskContext /\ CauseOK(c) /\ CauseOK(store)
  BY Typed DEF CInv, CauseWorkerOK, ReturnEarly, Enters
<1>2. (store' = f \/ store' = store) /\ Go(w, LoopAgain(w, f)) BY DEF ReturnEarly
<1> HIDE DEF c
<1>3. v \in TaskContext /\ v.step_status = c.step_status BY <1>1, FinalizeFields
<1> HIDE DEF v
<1>4. f \in TaskContext /\ f.step_status = v.step_status BY <1>3, FeedbackFields
<1> HIDE DEF f
<1>5. CauseOK(f) BY <1>1, <1>3, <1>4, SameCause
<1> QED BY <1>1, <1>2, <1>4, <1>5, AgainCause, CauseMoves

\* The gate's own block is its cause.
LEMMA BecomeGatedCause ==
    ASSUME IInv, CInv, NEW w \in Workers, BecomeGated(w) PROVE CInv'
<1> DEFINE b == wk[w].ctx
           c == Revived(b)
           d == check_hard_gate(c)
           f == FirstOf(get_ready_steps(c))
<1>1. store' = d /\ Stop(w) /\ get_ready_steps(c) # {} /\ StageOf[f] # 0
  BY DEF BecomeGated, gate_blocked, GateCloses
<1>2. c \in TaskContext /\ c.step_status = b.step_status /\ CauseOK(b)
  BY Typed, RevivedFields DEF CInv, CauseWorkerOK, BecomeGated, Enters
<1> HIDE DEF c, b
<1>3. \A s \in Steps : d.step_status[s] = IF s = f THEN "blocked" ELSE c.step_status[s]
  BY <1>1, <1>2, GateFields
<1> HIDE DEF d, f
<1>4. CauseOK(d)
  BY <1>1, <1>2, <1>3, CauseChange DEF HasCause, Sat, DEPENDENCY_SATISFIED_STATUSES
<1> QED BY <1>1, <1>4, StopCause

\* run_until_blocked starts on the same statuses: what is blocked keeps its cause.
LEMMA EnterEngineCause ==
    ASSUME IInv, CInv, NEW w \in Workers, EnterEngine(w) PROVE CInv'
<1> DEFINE b == wk[w].ctx
           c == Revived(b)
           e == EngineStart(c)
           st == c.step_status
           r == [wk[w] EXCEPT !.pc = "sched", !.ctx = e, !.prev = st]
<1>1. Go(w, r) /\ UNCHANGED store BY DEF EnterEngine
<1>2. c \in TaskContext /\ c.step_status = b.step_status /\ CauseOK(b) /\ wk[w].mode # "run"
  BY Typed, RevivedFields DEF CInv, CauseWorkerOK, EnterEngine, Enters
<1> HIDE DEF c, st, b
<1>3. e.step_status = c.step_status BY <1>2, EngineStartFields
<1> HIDE DEF e
<1>4. r.pc = "sched" /\ r.ctx = e /\ r.mode = wk[w].mode BY Typed DEF Worker
<1> HIDE DEF r
<1>5. CauseOK(e) BY <1>2, <1>3, SameCause
<1> QED BY <1>1, <1>2, <1>4, <1>5, CauseMoves DEF CauseWorkerOK, CInv

\* The engine returns with context d and no step newly done.
LEMMA ToPostCause ==
    ASSUME IInv, CInv, NEW w \in Workers, NEW d, ToPost(w, d), UNCHANGED store, CauseOK(d),
           \A s \in Steps : d.step_status[s] = "done" <=> wk[w].prev[s] = "done"
    PROVE  CInv'
<1> DEFINE r == [wk[w] EXCEPT !.pc = "post", !.ctx = d, !.cur = NoStep, !.tries = 0]
<1>1. Go(w, r) BY DEF ToPost
<1>2. r.pc = "post" /\ r.ctx = d /\ r.prev = wk[w].prev /\ r.mode = wk[w].mode BY Typed DEF Worker
<1> HIDE DEF r
<1>3. Fresh(r) = {} BY <1>2 DEF Fresh
<1>4. PostCause(r) BY <1>2, <1>3 DEF PostCause, CauseOK
<1>5. CauseWorkerOK(r) BY <1>2, <1>4 DEF CauseWorkerOK, CInv
<1> QED BY <1>1, <1>5, CauseMoves DEF CInv

\* What a worker in the engine knows: its copy has causes, and nothing is newly done.
LEMMA InEngineCause ==
    ASSUME IInv, VInv, CInv, NEW w \in Workers, wk[w].pc \in {"sched", "exec"}
    PROVE  /\ wk[w].ctx \in TaskContext /\ wk[w].ctx.status = "running" /\ CauseOK(wk[w].ctx)
           /\ wk[w].ctx.paused_step_id = NoStep /\ wk[w].mode # "run" /\ CauseOK(store)
           /\ \A s \in Steps : wk[w].ctx.step_status[s] = "done" <=> wk[w].prev[s] = "done"
BY InEngineVerdict DEF CInv, CauseWorkerOK

\* Without a ready step the engine blocks what waits or stops: what is blocked keeps its cause.
LEMMA NothingReadyCause ==
    ASSUME IInv, VInv, CInv, NEW w \in Workers, NothingReady(w) PROVE CInv'
<1> DEFINE c == wk[w].ctx
           d == Outcome(c)
<1>1. ToPost(w, d) /\ UNCHANGED store /\ wk[w].pc = "sched" BY DEF NothingReady, Scheduling
<1>2. /\ c \in TaskContext /\ c.status = "running" /\ CauseOK(c)
      /\ \A s \in Steps : c.step_status[s] = "done" <=> wk[w].prev[s] = "done"
  BY <1>1, InEngineCause
<1> HIDE DEF c
<1>3. \A s \in Steps :
           \/ d.step_status[s] = c.step_status[s]
           \/ /\ c.step_status[s] \in {"pending", "ready"} /\ d.step_status[s] = "blocked"
              /\ \E f \in StepsWith(c, DEPENDENCY_FAILED_STATUSES) : s \in Downstream(f)
  BY <1>2, OutcomeFields
<1> HIDE DEF d
<1>4. \A f \in StepsWith(c, DEPENDENCY_FAILED_STATUSES) : f \in Steps /\ d.step_status[f] \notin Sat
  BY <1>3 DEF StepsWith, DEPENDENCY_FAILED_STATUSES, Sat, DEPENDENCY_SATISFIED_STATUSES
<1>5. \A s \in Steps : d.step_status[s] = "blocked" => c.step_status[s] = "blocked" \/ HasCause(d, s)
  BY <1>3, <1>4 DEF HasCause
<1>6. CauseOK(d)
  BY <1>2, <1>3, <1>5, CauseChange DEF Sat, DEPENDENCY_SATISFIED_STATUSES
<1>7. \A s \in Steps : d.step_status[s] = "done" <=> wk[w].prev[s] = "done" BY <1>2, <1>3
<1> QED BY <1>1, <1>6, <1>7, ToPostCause

\* The engine stops at a step it holds back: what is blocked keeps its cause.
LEMMA AskConsentCause ==
    ASSUME IInv, VInv, CInv, NEW w \in Workers, AskConsent(w) PROVE CInv'
<1> DEFINE c == wk[w].ctx
           f == FirstOf(get_ready_steps(c))
           e == SetStatus(c, {f}, "blocked")
           d == [e EXCEPT !.status = "paused", !.paused_reason = "waiting_consent",
                          !.paused_step_id = f]
<1>1. /\ ToPost(w, d) /\ UNCHANGED store /\ wk[w].pc = "sched" /\ f \in Consent
      /\ get_ready_steps(c) # {}
  BY DEF AskConsent, Scheduling, MustAsk
<1>2. /\ c \in TaskContext /\ CauseOK(c)
      /\ \A s \in Steps : c.step_status[s] = "done" <=> wk[w].prev[s] = "done"
  BY <1>1, InEngineCause
<1> HIDE DEF c
<1>3. f \in Steps /\ c.step_status[f] \in {"pending", "ready"} BY <1>1, PickedStep
<1> HIDE DEF f
<1>4. /\ e \in TaskContext
      /\ \A s \in Steps : e.step_status[s] = IF s = f THEN "blocked" ELSE c.step_status[s]
  BY <1>2, SetStatusFields DEF StepStatus
<1> HIDE DEF e
<1>5. d.step_status = e.step_status BY <1>4 DEF TaskContext
<1> HIDE DEF d
<1>6. CauseOK(d)
  BY <1>1, <1>2, <1>4, <1>5, CauseChange DEF HasCause, Sat, DEPENDENCY_SATISFIED_STATUSES
<1>7. \A s \in Steps : d.step_status[s] = "done" <=> wk[w].prev[s] = "done"
  BY <1>2, <1>3, <1>4, <1>5
<1> QED BY <1>1, <1>6, <1>7, ToPostCause

\* The picked step starts to run: what is blocked keeps its cause.
LEMMA InvokeStepCause ==
    ASSUME IInv, VInv, CInv, NEW w \in Workers, InvokeStep(w) PROVE CInv'
<1> DEFINE c == wk[w].ctx
           f == FirstOf(get_ready_steps(c))
           d == SetStatus(c, {f}, "running")
           r == [wk[w] EXCEPT !.pc = "exec", !.ctx = d, !.cur = f, !.tries = 1]
<1>1. Go(w, r) /\ UNCHANGED store /\ wk[w].pc = "sched" BY DEF InvokeStep, Scheduling
<1>2. c \in TaskContext /\ CauseOK(c) /\ wk[w].mode # "run" /\ CauseOK(store)
  BY <1>1, InEngineCause
<1> HIDE DEF c, f
<1>3. \A s \in Steps : d.step_status[s] = IF s = f THEN "running" ELSE c.step_status[s]
  BY <1>2, SetStatusFields DEF StepStatus
<1> HIDE DEF d
<1>4. CauseOK(d) BY <1>2, <1>3, CauseChange DEF Sat, DEPENDENCY_SATISFIED_STATUSES
<1>5. r.pc = "exec" /\ r.ctx = d /\ r.mode = wk[w].mode BY Typed DEF Worker
<1> HIDE DEF r
<1> QED BY <1>1, <1>2, <1>4, <1>5, CauseMoves DEF CauseWorkerOK

\* The step that succeeds is the one new done step: what it held back waits for
\* propagate_unblock.
LEMMA StepSucceedsCause ==
    ASSUME IInv, VInv, CInv, NEW w \in Workers, StepSucceeds(w) PROVE CInv'
<1> DEFINE c == wk[w].ctx
           f == wk[w].cur
           d == Settle(c, {f}, "done")
           e == IF all_steps_final(d) THEN [d EXCEPT !.status = "done"] ELSE d
           r == [wk[w] EXCEPT !.pc = "post", !.ctx = e, !.cur = NoStep, !.tries = 0]
<1>1. AfterStep(w, d) /\ UNCHANGED store /\ wk[w].pc = "exec" BY DEF StepSucceeds
<1>2. /\ c \in TaskContext /\ CauseOK(c) /\ wk[w].mode # "run" /\ CauseOK(store) /\ f \in Steps
      /\ \A s \in Steps : c.step_status[s] = "done" <=> wk[w].prev[s] = "done"
  BY <1>1, InEngineCause, InEngine
<1>3. Go(w, r) BY <1>1, <1>2 DEF AfterStep, ToPost
<1> HIDE DEF c, f
<1>4. /\ d \in TaskContext
      /\ \A s \in Steps : d.step_status[s] = IF s = f THEN "done" ELSE c.step_status[s]
  BY <1>2, SettleFields DEF StepStatus
<1> HIDE DEF d
<1>5. e.step_status = d.step_status BY <1>4 DEF TaskContext
<1> HIDE DEF e
<1>6. r.pc = "post" /\ r.ctx = e /\ r.prev = wk[w].prev /\ r.mode = wk[w].mode BY Typed DEF Worker
<1> HIDE DEF r
<1>7. \A s \in Steps : s # f => e.step_status[s] = c.step_status[s] BY <1>4, <1>5
<1>8. \A n \in Fresh(r) : n = f BY <1>2, <1>6, <1>7 DEF Fresh
<1>9. CASE wk[w].prev[f] = "done"
  <2>1. c.step_status[f] = "done" BY <1>2, <1>9
  <2>2. \A s \in Steps : e.step_status[s] = c.step_status[s] BY <1>4, <1>5, <2>1
  <2>3. CauseOK(e) BY <1>2, <2>2, CauseChange
  <2>4. PostCause(r) BY <1>6, <1>8, <2>3 DEF PostCause, CauseOK
  <2> QED BY <1>1, <1>2, <1>3, <1>6, <2>4, CauseMoves DEF CauseWorkerOK
<1>10. CASE wk[w].prev[f] # "done"
  <2>1. f \in Fresh(r) BY <1>2, <1>4, <1>5, <1>6, <1>10 DEF Fresh
  <2>2. ASSUME NEW t \in Steps, e.step_status[t] = "blocked"
        PROVE  HasCause(e, t) \/ \E n \in Fresh(r) : t \in Downstream(n)
    <3>1. c.step_status[t] = "blocked" BY <1>4, <1>5, <1>7, <2>2
    <3>2. HasCause(c, t) BY <1>2, <3>1 DEF CauseOK
    <3> QED BY <1>7, <2>1, <3>2 DEF HasCause
  <2>3. PostCause(r) BY <1>6, <1>8, <2>2 DEF PostCause
  <2> QED BY <1>1, <1>2, <1>3, <1>6, <2>3, CauseMoves DEF CauseWorkerOK
<1> QED BY <1>9, <1>10

\* A worker stays where it is with a copy of the same statuses.
LEMMA StepStaysCause ==
    ASSUME IInv, CInv, NEW w \in Workers, wk[w].pc = "exec", NEW r, Go(w, r), r.pc = "exec",
           r.mode = wk[w].mode, r.ctx.step_status = wk[w].ctx.step_status,
           store' = store \/ store' = r.ctx
    PROVE  CInv'
<1>1. CauseOK(wk[w].ctx) /\ wk[w].mode # "run" /\ CauseOK(store) BY DEF CInv, CauseWorkerOK
<1>2. CauseOK(r.ctx) BY <1>1, SameCause
<1> QED BY <1>1, <1>2, CauseMoves DEF CauseWorkerOK

\* Neither retry touches a status.
LEMMA RetriesCause ==
    ASSUME IInv, CInv, NEW w \in Workers, QualityRetry(w) \/ RetryStep(w) PROVE CInv'
<1>1. CASE QualityRetry(w)
  <2> DEFINE c == wk[w].ctx
             Q == c.quality_retried \cup {wk[w].cur}
             d == [c EXCEPT !.quality_retried = Q]
             r == [wk[w] EXCEPT !.ctx = d]
  <2>1. store' = d /\ Go(w, r) /\ wk[w].pc = "exec" BY <1>1 DEF QualityRetry
  <2>2. c \in TaskContext BY Typed
  <2> HIDE DEF Q
  <2>3. d.step_status = c.step_status BY <2>2 DEF TaskContext
  <2> HIDE DEF d
  <2>4. r.pc = "exec" /\ r.ctx = d /\ r.mode = wk[w].mode BY <2>1, Typed DEF Worker
  <2> HIDE DEF r
  <2> QED BY <2>1, <2>3, <2>4, StepStaysCause
<1>2. CASE RetryStep(w)
  <2> DEFINE n == wk[w].tries + 1
             r == [wk[w] EXCEPT !.tries = n]
  <2>1. UNCHANGED store /\ Go(w, r) /\ wk[w].pc = "exec" BY <1>2 DEF RetryStep
  <2> HIDE DEF n
  <2>2. r.pc = "exec" /\ r.ctx = wk[w].ctx /\ r.mode = wk[w].mode BY <2>1, Typed DEF Worker
  <2> HIDE DEF r
  <2> QED BY <2>1, <2>2, StepStaysCause
<1> QED BY <1>1, <1>2

\* The step fails or is degraded: what is blocked keeps its cause.
LEMMA StepFailsCause ==
    ASSUME Degradable = {}, IInv, VInv, CInv, NEW w \in Workers, NEW x \in Causes, StepFails(w, x)
    PROVE  CInv'
<1> DEFINE c == wk[w].ctx
           f == wk[w].cur
           d == FailedContext(c, f, x)
<1>1. UNCHANGED store /\ wk[w].pc = "exec" BY DEF StepFails
<1>2. /\ c \in TaskContext /\ c.status = "running" /\ f \in Steps
      /\ c.step_status[f] = "running" /\ c.paused_step_id = NoStep /\ CauseOK(c)
      /\ wk[w].mode # "run"
      /\ \A s \in Steps : c.step_status[s] = "done" <=> wk[w].prev[s] = "done"
  BY <1>1, InEngineCause, InEngine
<1>3. ToPost(w, d) BY <1>2 DEF StepFails
<1> HIDE DEF c, f
<1>4. \A t \in Steps : d.step_status[t] = IF t = f THEN "failed" ELSE c.step_status[t]
  BY <1>2, FailedFields
<1> HIDE DEF d
<1>5. CauseOK(d) BY <1>2, <1>4, CauseChange DEF Sat, DEPENDENCY_SATISFIED_STATUSES
<1>6. \A s \in Steps : d.step_status[s] = "done" <=> wk[w].prev[s] = "done" BY <1>2, <1>4
<1> QED BY <1>1, <1>3, <1>5, <1>6, ToPostCause

\* The failed step is made pending and saved: what is blocked keeps its cause.
LEMMA FallBackCause ==
    ASSUME IInv, VInv, CInv, NEW w \in Workers, FallBack(w) PROVE CInv'
<1> DEFINE b == wk[w].ctx
           c == [advance(b) EXCEPT !.status = "running"]
           e == EngineStart(c)
           f == FailedStep(b)
           r == [wk[w] EXCEPT !.pc = "sched", !.ctx = e, !.cur = NoStep, !.tries = 0]
<1>1. store' = c /\ Go(w, r) /\ wk[w].pc = "post" /\ b.status = "failed"
  BY DEF FallBack, FallsBack, ToSched
<1>2. /\ b \in TaskContext /\ wk[w].mode # "run" /\ PostCause(wk[w]) /\ SameDone(wk[w])
      /\ b.paused_step_id # NoStep => b.step_status[b.paused_step_id] = "failed"
  BY <1>1, Typed DEF IInv, WorkerOK, VInv, EngineOK, CInv, CauseWorkerOK
<1>3. CauseOK(b)
  <2>1. Fresh(wk[w]) = {} BY <1>2 DEF Fresh, SameDone
  <2> QED BY <1>2, <2>1 DEF PostCause, CauseOK
<1> HIDE DEF b
<1>4. /\ c \in TaskContext
      /\ f # NoStep => f \in Steps /\ b.step_status[f] = "failed"
      /\ \A s \in Steps : c.step_status[s] = IF s = f THEN "pending" ELSE b.step_status[s]
  BY <1>2, AdvanceFields
<1> HIDE DEF c, f
<1>5. e.step_status = c.step_status BY <1>4, EngineStartFields
<1> HIDE DEF e
<1>6. r.pc = "sched" /\ r.ctx = e /\ r.mode = wk[w].mode BY Typed DEF Worker
<1> HIDE DEF r
<1>7. CauseOK(c) BY <1>3, <1>4, CauseChange DEF Sat, DEPENDENCY_SATISFIED_STATUSES
<1>8. CauseOK(e) BY <1>5, <1>7, SameCause
<1> QED BY <1>1, <1>2, <1>6, <1>7, <1>8, CauseMoves DEF CauseWorkerOK

\* A step that stays blocked downstream of the new done step has a failed or blocked
\* dependency, which is its cause.
LEMMA FinishRunCause ==
    ASSUME IInv, CInv, NEW w \in Workers, FinishRun(w) PROVE CInv'
<1> DEFINE b == wk[w].ctx
           d == propagate_failure(b, StepsWith(b, {"failed"}))
<1>1. wk[w].mode # "run" /\ PostCause(wk[w]) BY DEF CInv, CauseWorkerOK, FinishRun
<1>2. PICK r \in EngineResults(w), c \in TaskContext : \E q :
             /\ store' = c /\ Go(w, q) /\ q.pc = "publish" /\ q.ctx = c /\ q.mode = wk[w].mode
             /\ UNCHANGED stage
             /\ r \in TaskContext =>
                    c.step_status = r.step_status /\ c.processed_steps = r.processed_steps
  BY FinishedWith
<1>3. PICK q : Go(w, q) /\ q.pc = "publish" /\ q.ctx = c /\ q.mode = wk[w].mode BY <1>2
<1>4. PICK U \in SUBSET Steps : NextStatuses(b, d, U, r) /\ Unblocks(w, U)
  BY <1>1, ResultStatuses
<1>5. NewlyDone(w) = Fresh(wk[w]) BY DEF NewlyDone, Fresh, StepsWith
<1>6. NewlyDone(w) # {} => IsUnblockedBy(d, FirstOf(NewlyDone(w)), U)
  BY <1>1, <1>4 DEF Unblocks
<1>7. ASSUME NEW t \in Steps, r.step_status[t] = "blocked" PROVE HasCause(r, t)
  <2>1. t \notin U /\ d.step_status[t] = "blocked" BY <1>4, <1>7 DEF NextStatuses
  <2>2. \A s \in Steps : r.step_status[s] \in Sat => b.step_status[s] \in Sat
    BY <1>4 DEF NextStatuses, Sat, DEPENDENCY_SATISFIED_STATUSES
  <2>3. CASE b.step_status[t] # "blocked"
    <3>1. PICK f \in Steps : b.step_status[f] = "failed" /\ t \in Downstream(f)
      BY <1>4, <2>1, <2>3 DEF NextStatuses
    <3>2. r.step_status[f] \notin Sat
      BY <2>2, <3>1 DEF Sat, DEPENDENCY_SATISFIED_STATUSES
    <3> QED BY <3>1, <3>2 DEF HasCause
  <2>4. CASE HasCause(b, t) BY <2>2, <2>4 DEF HasCause
  <2>5. CASE \E n \in Fresh(wk[w]) : t \in Downstream(n)
    <3>1. PICK n \in Fresh(wk[w]) : t \in Downstream(n) BY <2>5
    <3>2. FirstOf(NewlyDone(w)) \in NewlyDone(w) BY <1>5, <3>1, FirstOfIsMember DEF Fresh
    <3>3. FirstOf(NewlyDone(w)) = n BY <1>1, <1>5, <3>2 DEF PostCause
    <3>4. IsUnblockedBy(d, n, U) BY <1>5, <1>6, <3>1, <3>3
    <3>5. PICK x \in Deps[t] : d.step_status[x] \in DEPENDENCY_FAILED_STATUSES
      BY <2>1, <3>1, <3>4 DEF IsUnblockedBy
    <3>6. x \in Steps BY PlanAssumption
    <3>7. r.step_status[x] \notin Sat
      BY <1>4, <3>5, <3>6 DEF NextStatuses, DEPENDENCY_FAILED_STATUSES, Sat, DEPENDENCY_SATISFIED_STATUSES
    <3>8. t \in Downstream(x) BY <3>6, SuccessorDownstream
    <3> QED BY <3>6, <3>7, <3>8 DEF HasCause
  <2> QED BY <1>1, <2>3, <2>4, <2>5 DEF PostCause
<1>8. CauseOK(r) BY <1>7 DEF CauseOK
<1>9. CauseOK(c) BY <1>2, <1>4, <1>8, SameCause DEF NextStatuses
<1>10. CauseWorkerOK(q) BY <1>1, <1>3, <1>9 DEF CauseWorkerOK
<1> QED BY <1>2, <1>3, <1>9, <1>10, CauseMoves

\* The events go out and the worker goes on: what is blocked keeps its cause.
LEMMA PublishCause ==
    ASSUME IInv, CInv, NEW w \in Workers, PublishEvents(w) PROVE CInv'
<1>1. Go(w, LoopAgain(w, wk[w].ctx)) /\ UNCHANGED store /\ wk[w].pc = "publish" BY DEF PublishEvents
<1>2. wk[w].ctx \in TaskContext /\ CauseOK(wk[w].ctx) /\ CauseOK(store)
  BY <1>1, Typed DEF CInv, CauseWorkerOK
<1> QED BY <1>1, <1>2, AgainCause, CauseMoves

\* Endpoints block nothing.
LEMMA EndpointCause == ASSUME IInv, CInv, Endpoint PROVE CInv'
<1>1. CauseOK(store) BY DEF CInv
<1>2. CauseOK(store')
  BY <1>1, EndpointStatuses, CauseChange DEF Sat, DEPENDENCY_SATISFIED_STATUSES
<1> QED BY <1>2, EndpointStatuses, CauseStays

\* Every step of the system keeps the causes.
LEMMA CauseStep ==
    ASSUME GatedCalls, Degradable = {} PROVE IInv /\ VInv /\ CInv /\ [Next]_vars => CInv'
<1> SUFFICES ASSUME IInv, VInv, CInv, [Next]_vars PROVE CInv' OBVIOUS
<1>0. CauseOK(store) BY DEF CInv
<1>1. ASSUME NEW w \in Workers, Engine(w) PROVE CInv'
  <2>1. CASE StreamEnd(w) BY <1>0, <2>1, StopCause DEF StreamEnd
  <2>2. CASE StayGated(w) BY <1>0, <2>2, StopCause DEF StayGated
  <2>3. CASE \E x \in Causes : StepFails(w, x) BY <2>3, StepFailsCause
  <2>4. ~SkipStep(w) BY DEF GatedCalls, SkipStep
  <2> QED
    BY <1>1, <2>1, <2>2, <2>3, <2>4, ReturnEarlyCause, BecomeGatedCause, EnterEngineCause,
       NothingReadyCause, AskConsentCause, InvokeStepCause, StepSucceedsCause, RetriesCause,
       FallBackCause, FinishRunCause, PublishCause
    DEF Engine
<1>2. ASSUME NEW w \in Workers, Call(w) PROVE CInv'
  <2>1. \A a : ~Resume(w, a) BY DEF GatedCalls, Resume
  <2> QED BY <1>2, <2>1, StartCause, StreamResumeCause DEF Call
<1>3. CASE Restart
  <2>1. \A w \in Workers : wk'[w] = IdleWorker BY <1>3 DEF Restart
  <2>2. UNCHANGED store BY <1>3 DEF Restart
  <2> QED BY <1>0, <2>1, <2>2, IdleCause DEF CInv
<1>4. CASE UNCHANGED vars
  <2>1. UNCHANGED <<wk, store>> BY <1>4 DEF vars
  <2> QED BY <1>0, <2>1, CauseStays
<1> QED BY <1>1, <1>2, <1>3, <1>4, EndpointCause DEF Next

\* At first nothing is blocked.
LEMMA CauseStarts == Init => CInv
<1> SUFFICES ASSUME Init PROVE CInv OBVIOUS
<1>1. store = CreatedContext /\ \A w \in Workers : wk[w] = IdleWorker BY DEF Init
<1>2. IdleWorker.ctx = CreatedContext BY DEF IdleWorker
<1> QED BY <1>1, <1>2, IdleCause DEF CInv

\* StagesFollowThePlan for any number of workers on every plan without conditional and
\* degradable steps that execute_next drives (HardGate, propagate_unblock, the tracker).
THEOREM StagesAlwaysFollow ==
    ASSUME GatedCalls, Degradable = {} PROVE Spec => []StagesFollowThePlan
<1>1. IInv /\ VInv /\ CInv /\ [Next]_vars => CInv' BY CauseStep
<1>2. Init /\ [][Next]_vars /\ []IInv /\ []VInv => []CInv BY <1>1, CauseStarts, PTL
<1>3. Spec => []CInv BY <1>2, VerdictsInvariant, PTL DEF Spec
<1>4. CInv => BlockedHasCause
  BY DEF CInv, CauseOK, HasCause, BlockedHasCause, StepsWith, Sat
<1>5. Spec => [](GateRespected /\ DoneStageIsClosed) BY GateHolds
<1>6. GateRespected /\ DoneStageIsClosed /\ BlockedHasCause => StagesFollowThePlan
  BY DEF StagesFollowThePlan
<1> QED BY <1>3, <1>4, <1>5, <1>6, PTL
=============================================================================
