--------------------------- MODULE PlanningProofs ---------------------------
(* Theorems about what the program starts of its own accord: the plans of IdleThink and *)
(* the reminders of long-term goals.  At the end what the services promise side by      *)
(* side, as the runs compose them: their types, and the algorithms that stand alone,    *)
(* from the theorems about each.                                                        *)
EXTENDS MCServices, ConversationProofs, ServiceProofs, StoreProofs, AlgorithmProofs,
        FiniteSetTheorems, WellFoundedInduction, TLAPS

(***************************************************************************)
(* Idle thinking                                                           *)
(***************************************************************************)

IdleLoop == [at : {"none", "wait", "maintain", "resume", "evaluate", "create", "publish",
                   "exec", "check", "load", "step", "pause", "paused", "finish"},
             plan : IdlePlanIds \cup {NoPlan}, left : 0..max_steps_per_idle]

\* A thread has a plan in hand from its making or its resumption to the status it writes.
IdleHandOK(l, pl) ==
    /\ l.at \in {"none", "wait", "maintain", "resume", "evaluate", "create", "finish"} => l.plan = NoPlan
    /\ l.at \in {"exec", "check", "load", "step", "pause", "paused"} => l.plan # NoPlan
    /\ l.plan # NoPlan => pl[l.plan] # "none"
    /\ l.at \in {"load", "step"} => l.left > 0

\* A round that is alone: a paused status names the plan it has in hand, and a plan it has
\* made is named by no status yet.
RoundOK(l, status) ==
    /\ l.plan # NoPlan \/ l.at \in {"evaluate", "create"} =>
          (status # NoPlan /\ status.status = "paused" => status.plan = l.plan)
    /\ l.plan # NoPlan =>
          \/ status = NoPlan \/ status.plan # l.plan
          \/ status.status = "paused" /\ l.at # "publish"

\* The first input of a round is heard before a second step begins.
HeardOK ==
    /\ unheard \in {NoInput, 0, 1}
    /\ unheard # NoInput => idle_interrupted
    /\ \A d \in Loops : loop[d].at = "load" => unheard \in {NoInput, 0}

IdleAlone ==
    /\ \A d, e \in Loops : InRound(d) /\ InRound(e) => d = e
    /\ \A d \in Loops : RoundOK(loop[d], idle_think_status)
    /\ NoIdlePlanIsLost /\ HeardOK

IdleInv ==
    /\ IdleTypeOK /\ overlapping \in BOOLEAN
    /\ \A d \in Loops : IdleHandOK(loop[d], idle_plans)
    /\ idle_think_status # NoPlan => idle_plans[idle_think_status.plan] # "none"
    /\ ~overlapping => IdleAlone

\* Every plan that is not over is excused, in hand, or named by a paused status.
KeptBy(l, pl, status, exc) ==
    \A p \in IdlePlanIds : pl[p] \in Unfinished =>
        p \in exc \/ l.plan = p \/ status = [plan |-> p, status |-> "paused"]

\* What a thread in a round may rely on.
LEMMA InARound ==
    ASSUME IdleInv, NEW d \in Loops, InRound(d)
    PROVE  /\ loop[d] \in IdleLoop /\ IdleHandOK(loop[d], idle_plans)
           /\ idle_think_status \in IdleStatus \cup {NoPlan} /\ overlapping \in BOOLEAN
           /\ idle_plans \in [IdlePlanIds -> PlanStates]
           /\ unheard \in 0..NoInput /\ excused \subseteq IdlePlanIds /\ idle_interrupted \in BOOLEAN
           /\ idle_think_status # NoPlan => idle_plans[idle_think_status.plan] # "none"
           /\ ~overlapping =>
                /\ \A e \in Loops \ {d} : ~InRound(e)
                /\ RoundOK(loop[d], idle_think_status)
                /\ KeptBy(loop[d], idle_plans, idle_think_status, excused)
                /\ unheard \in {NoInput, 0, 1}
                /\ unheard # NoInput => idle_interrupted
                /\ loop[d].at = "load" => unheard \in {NoInput, 0}
<1>1. /\ loop[d] \in IdleLoop /\ IdleHandOK(loop[d], idle_plans)
      /\ idle_think_status \in IdleStatus \cup {NoPlan} /\ overlapping \in BOOLEAN
      /\ idle_plans \in [IdlePlanIds -> PlanStates]
      /\ unheard \in 0..NoInput /\ excused \subseteq IdlePlanIds /\ idle_interrupted \in BOOLEAN
      /\ idle_think_status # NoPlan => idle_plans[idle_think_status.plan] # "none"
  BY DEF IdleInv, IdleTypeOK, IdleLoop
<1>2. ASSUME ~overlapping
      PROVE  /\ \A e \in Loops \ {d} : ~InRound(e)
             /\ RoundOK(loop[d], idle_think_status)
             /\ KeptBy(loop[d], idle_plans, idle_think_status, excused)
             /\ unheard \in {NoInput, 0, 1}
             /\ unheard # NoInput => idle_interrupted
             /\ loop[d].at = "load" => unheard \in {NoInput, 0}
  <2>1. \A e \in Loops \ {d} : ~InRound(e) BY <1>2 DEF IdleInv, IdleAlone
  <2>2. \A e \in Loops \ {d} : loop[e].plan = NoPlan
    BY <2>1 DEF IdleInv, IdleHandOK, InRound
  <2>3. KeptBy(loop[d], idle_plans, idle_think_status, excused)
    <3>1. NoPlan \notin IdlePlanIds BY IdleAssumption
    <3> QED BY <1>2, <2>2, <3>1 DEF IdleInv, IdleAlone, NoIdlePlanIsLost, KeptBy
  <2> QED BY <1>2, <2>1, <2>3 DEF IdleInv, IdleAlone, HeardOK
<1> QED BY <1>1, <1>2

\* A step of a round: only the thread itself moves.
LEMMA RoundStep ==
    ASSUME IdleInv, NEW d \in Loops, InRound(d), NEW l \in IdleLoop,
           loop' = [loop EXCEPT ![d] = l], UNCHANGED <<detecting, away, overlapping, idle_restarts>>,
           idle_think_status' \in IdleStatus \cup {NoPlan},
           idle_plans' \in [IdlePlanIds -> PlanStates],
           \A p \in IdlePlanIds : idle_plans[p] # "none" => idle_plans'[p] # "none",
           unheard' \in 0..NoInput, excused' \subseteq IdlePlanIds, idle_interrupted' \in BOOLEAN,
           idle_think_status' # NoPlan => idle_plans'[idle_think_status'.plan] # "none",
           IdleHandOK(l, idle_plans'),
           ~overlapping =>
                /\ RoundOK(l, idle_think_status')
                /\ KeptBy(l, idle_plans', idle_think_status', excused')
                /\ unheard' \in {NoInput, 0, 1}
                /\ unheard' # NoInput => idle_interrupted'
                /\ l.at = "load" => unheard' \in {NoInput, 0}
    PROVE  IdleInv'
<1>1. /\ loop \in [Loops -> IdleLoop] /\ detecting \in BOOLEAN /\ away \in BOOLEAN
      /\ overlapping \in BOOLEAN
  BY DEF IdleInv, IdleTypeOK, IdleLoop
<1>2. loop' \in [Loops -> IdleLoop] /\ \A e \in Loops : loop'[e] = IF e = d THEN l ELSE loop[e]
  BY <1>1
<1>3. IdleTypeOK' BY <1>1, <1>2 DEF IdleTypeOK, IdleLoop
<1>4. \A e \in Loops : IdleHandOK(loop'[e], idle_plans')
  <2> TAKE e \in Loops
  <2>1. CASE e = d BY <1>2, <2>1
  <2>2. CASE e # d
    <3>1. IdleHandOK(loop[e], idle_plans) /\ loop'[e] = loop[e] /\ loop[e] \in IdleLoop
      BY <1>1, <1>2, <2>2 DEF IdleInv
    <3> QED BY <3>1 DEF IdleHandOK, IdleLoop
  <2> QED BY <2>1, <2>2
<1>5. ASSUME ~overlapping' PROVE IdleAlone'
  <2>1. \A e \in Loops \ {d} : ~InRound(e) /\ loop'[e] = loop[e] BY <1>2, <1>5, InARound
  <2>2. \A e \in Loops \ {d} : loop'[e].at \in {"none", "wait"} /\ loop'[e].plan = NoPlan
    BY <2>1 DEF InRound, IdleInv, IdleHandOK
  <2>3. \A e, f \in Loops : InRound(e)' /\ InRound(f)' => e = f BY <2>2 DEF InRound
  <2>4. \A e \in Loops : RoundOK(loop'[e], idle_think_status')
    <3> TAKE e \in Loops
    <3>1. CASE e = d BY <1>2, <1>5, <3>1
    <3>2. CASE e # d
      <4>1. loop'[e].at \in {"none", "wait"} /\ loop'[e].plan = NoPlan BY <2>2, <3>2
      <4> QED BY <4>1 DEF RoundOK
    <3> QED BY <3>1, <3>2
  <2>5. NoIdlePlanIsLost' BY <1>2, <1>5 DEF NoIdlePlanIsLost, KeptBy
  <2>6. HeardOK'
    <3>1. \A e \in Loops : loop'[e].at = "load" => e = d BY <2>2
    <3> QED BY <1>2, <1>5, <3>1 DEF HeardOK, NoInput
  <2> QED BY <2>3, <2>4, <2>5, <2>6 DEF IdleAlone
<1> QED BY <1>1, <1>3, <1>4, <1>5 DEF IdleInv

\* A round moves on with nothing but its own place to change.
LEMMA PlaceStep ==
    ASSUME IdleInv, NEW d \in Loops, InRound(d),
           NEW l \in IdleLoop, loop' = [loop EXCEPT ![d] = l], l.plan = loop[d].plan,
           UNCHANGED <<detecting, away, overlapping, idle_restarts, coordinator, idle_plans>>,
           IdleHandOK(l, idle_plans),
           ~overlapping => RoundOK(l, idle_think_status),
           ~overlapping /\ l.at = "load" => unheard \in {NoInput, 0}
    PROVE  IdleInv'
<1>1. UNCHANGED <<idle_interrupted, idle_think_status, unheard, excused>> BY DEF coordinator
<1>2. ~overlapping => KeptBy(l, idle_plans', idle_think_status', excused')
  BY <1>1, InARound DEF KeptBy
<1>3. /\ idle_think_status' \in IdleStatus \cup {NoPlan} /\ idle_plans' \in [IdlePlanIds -> PlanStates]
      /\ \A p \in IdlePlanIds : idle_plans[p] # "none" => idle_plans'[p] # "none"
      /\ unheard' \in 0..NoInput /\ excused' \subseteq IdlePlanIds /\ idle_interrupted' \in BOOLEAN
      /\ idle_think_status' # NoPlan => idle_plans'[idle_think_status'.plan] # "none"
  BY <1>1, InARound
<1>4. ~overlapping => /\ RoundOK(l, idle_think_status') /\ unheard' \in {NoInput, 0, 1}
                      /\ unheard' # NoInput => idle_interrupted'
                      /\ l.at = "load" => unheard' \in {NoInput, 0}
  BY <1>1, InARound
<1>5. IdleHandOK(l, idle_plans') OBVIOUS
<1> QED BY <1>2, <1>3, <1>4, <1>5, RoundStep

\* A round ends with a status of the plan it has in hand.
LEMMA StatusStep ==
    ASSUME IdleInv, NEW d \in Loops, loop[d].at \in {"check", "load", "step", "paused"},
           NEW v \in {"paused", "completed", "stopped", "failed"}, WriteStatus(d, v),
           UNCHANGED <<detecting, away, overlapping, idle_restarts, idle_interrupted, unheard>>,
           excused \subseteq excused', excused' \subseteq IdlePlanIds,
           \/ UNCHANGED idle_plans
           \/ \E s \in PlanStates \ {"none"} : idle_plans' = [idle_plans EXCEPT ![loop[d].plan] = s],
           v = "paused" \/ loop[d].plan \in excused' \/ idle_plans'[loop[d].plan] \notin Unfinished
    PROVE  IdleInv'
<1> DEFINE l == [NoLoop EXCEPT !.at = "finish"]
           p0 == loop[d].plan
           st == [plan |-> p0, status |-> v]
<1>0. InRound(d) BY DEF InRound
<1>1. /\ p0 \in IdlePlanIds /\ p0 # NoPlan /\ idle_plans[p0] # "none"
  BY <1>0, InARound DEF IdleHandOK, IdleLoop
<1>2. loop' = [loop EXCEPT ![d] = l] /\ idle_think_status' = st BY DEF WriteStatus
<1>3. l \in IdleLoop /\ l.at = "finish" /\ l.plan = NoPlan
  BY IdleAssumption DEF IdleLoop, NoLoop
<1>4. st \in IdleStatus /\ st.plan = p0 /\ st.status = v /\ (v = "paused" => st = [plan |-> p0, status |-> "paused"])
  BY <1>1 DEF IdleStatus
<1>5. /\ idle_plans' \in [IdlePlanIds -> PlanStates]
      /\ \A p \in IdlePlanIds : idle_plans[p] # "none" => idle_plans'[p] # "none"
      /\ \A p \in IdlePlanIds \ {p0} : idle_plans'[p] = idle_plans[p]
  BY <1>0, <1>1, InARound
<1> HIDE DEF l, st, p0
<1>6. IdleHandOK(l, idle_plans') BY <1>3 DEF IdleHandOK
<1>7. RoundOK(l, idle_think_status') BY <1>3 DEF RoundOK
<1>8. ASSUME ~overlapping PROVE KeptBy(l, idle_plans', idle_think_status', excused')
  <2> SUFFICES ASSUME NEW p \in IdlePlanIds, idle_plans'[p] \in Unfinished
               PROVE  p \in excused' \/ idle_think_status' = [plan |-> p, status |-> "paused"]
    BY DEF KeptBy
  <2>1. CASE p = p0 BY <1>2, <1>4, <2>1 DEF p0
  <2>2. CASE p # p0
    <3>1. idle_plans[p] \in Unfinished BY <1>5, <2>2
    <3>2. p \in excused \/ idle_think_status = [plan |-> p, status |-> "paused"]
      BY <1>0, <1>8, <2>2, <3>1, InARound DEF KeptBy, p0
    <3>3. idle_think_status = [plan |-> p, status |-> "paused"] => FALSE
      <4>1. RoundOK(loop[d], idle_think_status) BY <1>0, <1>8, InARound
      <4>2. [plan |-> p, status |-> "paused"] \in IdleStatus BY DEF IdleStatus
      <4>3. [plan |-> p, status |-> "paused"] # NoPlan BY <4>2, IdleAssumption
      <4> QED BY <1>1, <2>2, <4>1, <4>3 DEF RoundOK, p0
    <3> QED BY <3>2, <3>3
  <2> QED BY <2>1, <2>2
<1>9. /\ unheard' \in 0..NoInput /\ idle_interrupted' \in BOOLEAN
      /\ ~overlapping => unheard' \in {NoInput, 0, 1} /\ (unheard' # NoInput => idle_interrupted')
  BY <1>0, InARound
<1>10. idle_think_status' # NoPlan => idle_plans'[idle_think_status'.plan] # "none"
  BY <1>1, <1>2, <1>4, <1>5
<1>11. idle_think_status' \in IdleStatus \cup {NoPlan} BY <1>2, <1>4
<1> QED BY <1>0, <1>2, <1>3, <1>5, <1>6, <1>7, <1>8, <1>9, <1>10, <1>11, RoundStep

\* The steps of a round that write nothing but where it is.
LEMMA PlacesStep ==
    ASSUME IdleInv, NEW d \in Loops,
           \/ Maintain(d) \/ ResumePaused(d) \/ EvaluateReminders(d) \/ PublishResult(d)
           \/ CheckInterrupted(d) \/ RoundReturns(d)
    PROVE  IdleInv'
<1>0. loop[d].at \in {"maintain", "resume", "evaluate", "publish", "check", "finish"}
  BY DEF Maintain, ResumePaused, EvaluateReminders, PublishResult, CheckInterrupted, RoundReturns, LoopAt
<1>1. InRound(d) BY <1>0 DEF InRound
<1> DEFINE q == loop[d]
<1>2. /\ q \in IdleLoop /\ IdleHandOK(q, idle_plans) /\ loop \in [Loops -> IdleLoop]
      /\ idle_think_status \in IdleStatus \cup {NoPlan}
      /\ idle_think_status # NoPlan => idle_plans[idle_think_status.plan] # "none"
      /\ ~overlapping => /\ RoundOK(q, idle_think_status)
                         /\ unheard # NoInput => idle_interrupted
  BY <1>1, InARound DEF IdleInv, IdleTypeOK, IdleLoop
<1>3. ASSUME NEW place \in {"resume", "evaluate", "create", "publish", "finish", "exec", "pause", "load"},
             LoopGoes(d, place)
      PROVE  LET l == [q EXCEPT !.at = place]
             IN  /\ loop' = [loop EXCEPT ![d] = l] /\ l \in IdleLoop
                 /\ l.at = place /\ l.plan = q.plan /\ l.left = q.left
  BY <1>2, <1>3 DEF LoopGoes, IdleLoop
<1>4. CASE Maintain(d)
  <2> DEFINE l == [q EXCEPT !.at = "resume"]
  <2>1. /\ q.at = "maintain" /\ loop' = [loop EXCEPT ![d] = l] /\ l \in IdleLoop
        /\ l.at = "resume" /\ l.plan = q.plan
        /\ UNCHANGED <<detecting, away, overlapping, idle_restarts, coordinator, idle_plans>>
    BY <1>3, <1>4 DEF Maintain, LoopAt, detector, coordinator
  <2> HIDE DEF l
  <2>2. l.plan = NoPlan BY <1>2, <2>1 DEF IdleHandOK
  <2>3. IdleHandOK(l, idle_plans) /\ RoundOK(l, idle_think_status) BY <2>1, <2>2 DEF IdleHandOK, RoundOK
  <2> QED BY <1>1, <2>1, <2>3, PlaceStep
<1>5. CASE ResumePaused(d)
  <2>0. q.at = "resume" /\ q.plan = NoPlan
        /\ UNCHANGED <<detecting, away, overlapping, idle_restarts, coordinator, idle_plans>>
    BY <1>2, <1>5 DEF ResumePaused, LoopAt, detector, IdleHandOK
  <2>1. CASE idle_think_status # NoPlan /\ idle_think_status.status = "paused"
    <3> DEFINE l == [at |-> "exec", plan |-> idle_think_status.plan, left |-> 0]
    <3>1. loop' = [loop EXCEPT ![d] = l] BY <1>5, <2>1 DEF ResumePaused
    <3>2. idle_think_status.plan \in IdlePlanIds BY <1>2, <2>1 DEF IdleStatus
    <3>3. l \in IdleLoop /\ l.at = "exec" /\ l.plan = idle_think_status.plan
      BY <3>2, IdleAssumption DEF IdleLoop
    <3> HIDE DEF l
    <3>4. l.plan # NoPlan BY <3>2, <3>3, IdleAssumption
    <3>5. IdleHandOK(l, idle_plans) BY <1>2, <2>1, <3>3, <3>4 DEF IdleHandOK
    <3>6. RoundOK(l, idle_think_status) BY <2>1, <3>3 DEF RoundOK
    <3>7. UNCHANGED <<idle_interrupted, idle_think_status, unheard, excused, idle_plans>>
      BY <2>0 DEF coordinator
    <3>8. ~overlapping => KeptBy(l, idle_plans', idle_think_status', excused')
      BY <1>1, <2>0, <3>7, InARound, IdleAssumption DEF KeptBy
    <3>9. /\ idle_think_status' \in IdleStatus \cup {NoPlan} /\ idle_plans' \in [IdlePlanIds -> PlanStates]
          /\ \A p \in IdlePlanIds : idle_plans[p] # "none" => idle_plans'[p] # "none"
          /\ unheard' \in 0..NoInput /\ excused' \subseteq IdlePlanIds /\ idle_interrupted' \in BOOLEAN
          /\ idle_think_status' # NoPlan => idle_plans'[idle_think_status'.plan] # "none"
          /\ ~overlapping => unheard' \in {NoInput, 0, 1} /\ (unheard' # NoInput => idle_interrupted')
          /\ IdleHandOK(l, idle_plans') /\ RoundOK(l, idle_think_status')
      BY <1>1, <3>5, <3>6, <3>7, InARound
    <3> QED BY <1>1, <2>0, <3>1, <3>3, <3>8, <3>9, RoundStep
  <2>2. CASE ~(idle_think_status # NoPlan /\ idle_think_status.status = "paused")
    <3> DEFINE l == [q EXCEPT !.at = "evaluate"]
    <3>1. /\ loop' = [loop EXCEPT ![d] = l] /\ l \in IdleLoop /\ l.at = "evaluate" /\ l.plan = q.plan
      BY <1>3, <1>5, <2>2 DEF ResumePaused
    <3> HIDE DEF l
    <3>2. IdleHandOK(l, idle_plans) /\ RoundOK(l, idle_think_status)
      BY <2>0, <2>2, <3>1 DEF IdleHandOK, RoundOK
    <3> QED BY <1>1, <2>0, <3>1, <3>2, PlaceStep
  <2> QED BY <2>1, <2>2
<1>6. CASE EvaluateReminders(d)
  <2>1. PICK place \in {"create", "publish"} : LoopGoes(d, place)
    BY <1>6 DEF EvaluateReminders
  <2> DEFINE l == [q EXCEPT !.at = place]
  <2>2. /\ q.at = "evaluate" /\ loop' = [loop EXCEPT ![d] = l] /\ l \in IdleLoop
        /\ l.at = place /\ l.plan = q.plan
        /\ UNCHANGED <<detecting, away, overlapping, idle_restarts, coordinator, idle_plans>>
    BY <1>3, <1>6, <2>1 DEF EvaluateReminders, LoopAt, detector
  <2> HIDE DEF l
  <2>3. l.plan = NoPlan BY <1>2, <2>2 DEF IdleHandOK
  <2>4. IdleHandOK(l, idle_plans) BY <2>2, <2>3 DEF IdleHandOK
  <2>5. ~overlapping => RoundOK(l, idle_think_status) BY <1>2, <2>2, <2>3 DEF RoundOK
  <2> QED BY <1>1, <2>2, <2>4, <2>5, PlaceStep
<1>7. CASE PublishResult(d)
  <2> DEFINE place == IF q.plan = NoPlan THEN "finish" ELSE "exec"
             l == [q EXCEPT !.at = place]
  <2>2. /\ q.at = "publish" /\ loop' = [loop EXCEPT ![d] = l] /\ l \in IdleLoop
        /\ l.at = place /\ l.plan = q.plan
        /\ UNCHANGED <<detecting, away, overlapping, idle_restarts, coordinator, idle_plans>>
    BY <1>3, <1>7 DEF PublishResult, LoopAt, detector
  <2> HIDE DEF l
  <2>4. IdleHandOK(l, idle_plans) BY <1>2, <2>2 DEF IdleHandOK
  <2>5. ~overlapping => RoundOK(l, idle_think_status) BY <1>2, <2>2 DEF RoundOK
  <2> QED BY <1>1, <2>2, <2>4, <2>5, PlaceStep
<1>8. CASE CheckInterrupted(d)
  <2> DEFINE place == IF idle_interrupted THEN "pause" ELSE "load"
             l == [q EXCEPT !.at = place]
  <2>2. /\ q.at = "check" /\ q.left > 0 /\ loop' = [loop EXCEPT ![d] = l] /\ l \in IdleLoop
        /\ l.at = place /\ l.plan = q.plan /\ l.left = q.left
        /\ UNCHANGED <<detecting, away, overlapping, idle_restarts, coordinator, idle_plans>>
    BY <1>3, <1>8 DEF CheckInterrupted, LoopAt, detector, _is_interrupted
  <2>3. ~overlapping /\ l.at = "load" => unheard \in {NoInput, 0} BY <1>2, <2>2
  <2> HIDE DEF l
  <2>4. IdleHandOK(l, idle_plans) BY <1>2, <2>2 DEF IdleHandOK
  <2>5. ~overlapping => RoundOK(l, idle_think_status) BY <1>2, <2>2 DEF RoundOK
  <2> QED BY <1>1, <2>2, <2>3, <2>4, <2>5, PlaceStep
<1>9. CASE RoundReturns(d)
  <2> DEFINE l == IF detecting THEN Waiting ELSE NoLoop
  <2>1. /\ q.at = "finish" /\ loop' = [loop EXCEPT ![d] = l]
        /\ UNCHANGED <<detecting, away, overlapping, idle_restarts, coordinator, idle_plans>>
    BY <1>9 DEF RoundReturns, LoopAt, detector
  <2>2. l \in IdleLoop /\ l.at \in {"none", "wait"} /\ l.plan = NoPlan
    BY IdleAssumption DEF IdleLoop, NoLoop, Waiting
  <2>3. q.plan = NoPlan BY <1>2, <2>1 DEF IdleHandOK
  <2> HIDE DEF l
  <2>4. IdleHandOK(l, idle_plans) /\ RoundOK(l, idle_think_status) BY <2>2 DEF IdleHandOK, RoundOK
  <2> QED BY <1>1, <2>1, <2>2, <2>3, <2>4, PlaceStep
<1> QED BY <1>4, <1>5, <1>6, <1>7, <1>8, <1>9

\* The steps of a round that make, run, pause or drop a plan.
LEMMA PlansStep ==
    ASSUME IdleInv, NEW d \in Loops,
           \/ CreateIdlePlan(d) \/ RoundRaises(d) \/ BeginSteps(d) \/ BudgetSpent(d) \/ LoadPlan(d)
           \/ ExecuteNext(d) \/ StepRaises(d) \/ PauseIdlePlan(d) \/ WritePaused(d)
    PROVE  IdleInv'
<1>0. loop[d].at \in {"maintain", "resume", "evaluate", "create", "publish", "exec", "check", "load",
                      "step", "pause", "paused"}
  BY DEF CreateIdlePlan, RoundRaises, BeginSteps, BudgetSpent, LoadPlan, ExecuteNext, StepRaises,
         PauseIdlePlan, WritePaused, LoopAt
<1>1. InRound(d) BY <1>0 DEF InRound
<1> DEFINE q == loop[d]
<1>2. /\ q \in IdleLoop /\ IdleHandOK(q, idle_plans) /\ loop \in [Loops -> IdleLoop]
      /\ idle_think_status \in IdleStatus \cup {NoPlan} /\ idle_plans \in [IdlePlanIds -> PlanStates]
      /\ idle_think_status # NoPlan =>
            idle_think_status.plan \in IdlePlanIds /\ idle_plans[idle_think_status.plan] # "none"
      /\ unheard \in 0..NoInput /\ excused \subseteq IdlePlanIds /\ idle_interrupted \in BOOLEAN
      /\ ~overlapping => /\ RoundOK(q, idle_think_status)
                         /\ KeptBy(q, idle_plans, idle_think_status, excused)
                         /\ unheard \in {NoInput, 0, 1}
                         /\ unheard # NoInput => idle_interrupted
                         /\ q.at = "load" => unheard \in {NoInput, 0}
  BY <1>1, InARound DEF IdleInv, IdleTypeOK, IdleLoop, IdleStatus
<1>3. q.at \in {"exec", "check", "load", "step", "pause", "paused"} =>
        q.plan \in IdlePlanIds /\ q.plan # NoPlan /\ idle_plans[q.plan] # "none"
  BY <1>2 DEF IdleHandOK, IdleLoop
<1>4. NoPlan \notin IdlePlanIds /\ max_steps_per_idle \in Nat /\ NoInput \in Nat
  BY IdleAssumption DEF NoInput
<1>5. CASE CreateIdlePlan(d) /\ UNCHANGED idle_plans /\ LoopGoes(d, "publish")
  <2> DEFINE l == [q EXCEPT !.at = "publish"]
  <2>1. /\ q.at = "create" /\ loop' = [loop EXCEPT ![d] = l] /\ l \in IdleLoop
        /\ l.at = "publish" /\ l.plan = q.plan
        /\ UNCHANGED <<detecting, away, overlapping, idle_restarts, coordinator, idle_plans>>
    BY <1>2, <1>5 DEF CreateIdlePlan, LoopAt, LoopGoes, detector, IdleLoop
  <2> HIDE DEF l
  <2>2. l.plan = NoPlan BY <1>2, <2>1 DEF IdleHandOK
  <2>3. IdleHandOK(l, idle_plans) /\ RoundOK(l, idle_think_status) BY <2>1, <2>2 DEF IdleHandOK, RoundOK
  <2> QED BY <1>1, <2>1, <2>3, PlaceStep
<1>6. CASE CreateIdlePlan(d) /\ ~(UNCHANGED idle_plans /\ LoopGoes(d, "publish"))
  <2>1. PICK p \in IdlePlanIds :
             /\ idle_plans[p] = "none" /\ idle_plans' = [idle_plans EXCEPT ![p] = "open"]
             /\ loop' = [loop EXCEPT ![d].at = "publish", ![d].plan = p]
    BY <1>6 DEF CreateIdlePlan
  <2> DEFINE l == [q EXCEPT !.at = "publish", !.plan = p]
  <2>2. /\ q.at = "create" /\ loop' = [loop EXCEPT ![d] = l] /\ l \in IdleLoop
        /\ l.at = "publish" /\ l.plan = p
    BY <1>2, <1>6, <2>1 DEF CreateIdlePlan, LoopAt, IdleLoop
  <2>3. UNCHANGED <<detecting, away, overlapping, idle_restarts, idle_interrupted, idle_think_status,
                    unheard, excused>>
    BY <1>6 DEF CreateIdlePlan, detector, coordinator
  <2> HIDE DEF l
  <2>4. q.plan = NoPlan BY <1>2, <2>2 DEF IdleHandOK
  <2>5. /\ idle_plans' \in [IdlePlanIds -> PlanStates] /\ idle_plans'[p] = "open"
        /\ \A r \in IdlePlanIds \ {p} : idle_plans'[r] = idle_plans[r]
    BY <1>2, <2>1 DEF PlanStates, Unfinished
  <2>6. IdleHandOK(l, idle_plans') BY <2>2, <2>5 DEF IdleHandOK
  <2>7. ~overlapping => RoundOK(l, idle_think_status')
    BY <1>2, <2>1, <2>2, <2>3, <2>4, <1>4 DEF RoundOK
  <2>8. ~overlapping => KeptBy(l, idle_plans', idle_think_status', excused')
    BY <1>2, <1>4, <2>2, <2>3, <2>4, <2>5 DEF KeptBy
  <2>9. /\ \A r \in IdlePlanIds : idle_plans[r] # "none" => idle_plans'[r] # "none"
        /\ idle_think_status' # NoPlan => idle_plans'[idle_think_status'.plan] # "none"
        /\ unheard' \in 0..NoInput /\ excused' \subseteq IdlePlanIds /\ idle_interrupted' \in BOOLEAN
        /\ idle_think_status' \in IdleStatus \cup {NoPlan}
        /\ ~overlapping => unheard' \in {NoInput, 0, 1} /\ (unheard' # NoInput => idle_interrupted')
    BY <1>2, <2>1, <2>3, <2>5
  <2> QED BY <1>1, <2>2, <2>3, <2>5, <2>6, <2>7, <2>8, <2>9, RoundStep
<1>7. CASE RoundRaises(d)
  <2> DEFINE l == [NoLoop EXCEPT !.at = "finish"]
  <2>1. /\ q.at \in {"maintain", "resume", "evaluate", "create", "publish"}
        /\ excused' = excused \cup Dropped(d) /\ loop' = [loop EXCEPT ![d] = l]
        /\ UNCHANGED <<detecting, away, overlapping, idle_restarts, idle_interrupted,
                       idle_think_status, unheard, idle_plans>>
    BY <1>7 DEF RoundRaises, detector
  <2>2. l \in IdleLoop /\ l.at = "finish" /\ l.plan = NoPlan BY <1>4 DEF IdleLoop, NoLoop
  <2> HIDE DEF l
  <2>3. IdleHandOK(l, idle_plans') /\ RoundOK(l, idle_think_status') BY <2>2 DEF IdleHandOK, RoundOK
  <2>4. excused' \subseteq IdlePlanIds BY <1>2, <2>1 DEF Dropped, IdleLoop
  <2>5. ~overlapping => KeptBy(l, idle_plans', idle_think_status', excused')
    <3> SUFFICES ASSUME ~overlapping, NEW p \in IdlePlanIds, idle_plans[p] \in Unfinished
                 PROVE  p \in excused' \/ idle_think_status' = [plan |-> p, status |-> "paused"]
      BY <2>1 DEF KeptBy
    <3>1. p \in excused \/ q.plan = p \/ idle_think_status = [plan |-> p, status |-> "paused"]
      BY <1>2 DEF KeptBy
    <3>2. q.plan = p => p \in Dropped(d)
      <4> SUFFICES ASSUME q.plan = p PROVE p \in Dropped(d) OBVIOUS
      <4>1. q.plan # NoPlan BY <1>4
      <4>2. q.at = "publish" BY <1>2, <2>1, <4>1 DEF IdleHandOK
      <4>3. idle_think_status = NoPlan \/ idle_think_status.plan # p BY <1>2, <4>1, <4>2 DEF RoundOK
      <4> QED BY <4>1, <4>3 DEF Dropped
    <3> QED BY <2>1, <3>1, <3>2
  <2>6. /\ idle_plans' \in [IdlePlanIds -> PlanStates]
        /\ \A r \in IdlePlanIds : idle_plans[r] # "none" => idle_plans'[r] # "none"
        /\ idle_think_status' # NoPlan => idle_plans'[idle_think_status'.plan] # "none"
        /\ unheard' \in 0..NoInput /\ idle_interrupted' \in BOOLEAN
        /\ idle_think_status' \in IdleStatus \cup {NoPlan}
        /\ ~overlapping => unheard' \in {NoInput, 0, 1} /\ (unheard' # NoInput => idle_interrupted')
    BY <1>2, <2>1
  <2> QED BY <1>1, <2>1, <2>2, <2>3, <2>4, <2>5, <2>6, RoundStep
<1>8. CASE BeginSteps(d)
  <2> DEFINE l == [q EXCEPT !.at = "check", !.left = max_steps_per_idle]
  <2>1. /\ q.at = "exec" /\ idle_interrupted' = FALSE /\ unheard' = NoInput
        /\ loop' = [loop EXCEPT ![d] = l]
        /\ UNCHANGED <<detecting, away, overlapping, idle_restarts, idle_think_status, excused, idle_plans>>
    BY <1>2, <1>8 DEF BeginSteps, LoopAt, detector
  <2>2. max_steps_per_idle \in 0..max_steps_per_idle BY <1>4
  <2>3. l \in IdleLoop /\ l.at = "check" /\ l.plan = q.plan BY <1>2, <2>2 DEF IdleLoop
  <2> HIDE DEF l
  <2>4. IdleHandOK(l, idle_plans') BY <1>3, <2>1, <2>3 DEF IdleHandOK
  <2>5. ~overlapping => RoundOK(l, idle_think_status') /\ KeptBy(l, idle_plans', idle_think_status', excused')
    BY <1>2, <2>1, <2>3 DEF RoundOK, KeptBy
  <2>6. /\ idle_plans' \in [IdlePlanIds -> PlanStates]
        /\ \A r \in IdlePlanIds : idle_plans[r] # "none" => idle_plans'[r] # "none"
        /\ idle_think_status' # NoPlan => idle_plans'[idle_think_status'.plan] # "none"
        /\ unheard' \in 0..NoInput /\ idle_interrupted' \in BOOLEAN /\ excused' \subseteq IdlePlanIds
        /\ idle_think_status' \in IdleStatus \cup {NoPlan}
        /\ unheard' \in {NoInput, 0, 1} /\ (unheard' # NoInput => idle_interrupted')
    <3>1. NoInput \in 0..NoInput BY <1>4
    <3>2. idle_interrupted' \in BOOLEAN BY <2>1
    <3> QED BY <1>2, <2>1, <3>1, <3>2
  <2> QED BY <1>1, <2>1, <2>3, <2>4, <2>5, <2>6, RoundStep
<1>9. CASE BudgetSpent(d)
  <2>1. /\ q.at = "check" /\ WriteStatus(d, "paused")
        /\ UNCHANGED <<detecting, away, overlapping, idle_restarts, idle_interrupted, unheard, excused, idle_plans>>
    BY <1>9 DEF BudgetSpent, LoopAt, detector, EndStatus
  <2> QED BY <1>2, <2>1, StatusStep
<1>10. CASE LoadPlan(d) /\ idle_plans[q.plan] \in {"open", "user_input"}
  <2> DEFINE l == [q EXCEPT !.at = "step"]
             u == IF unheard = NoInput THEN NoInput ELSE unheard + 1
  <2>1. /\ q.at = "load" /\ loop' = [loop EXCEPT ![d] = l] /\ unheard' = u
        /\ UNCHANGED <<detecting, away, overlapping, idle_restarts, idle_interrupted, idle_think_status,
                       excused, idle_plans>>
    BY <1>2, <1>10 DEF LoadPlan, LoopAt, LoopGoes, detector
  <2>2. l \in IdleLoop /\ l.at = "step" /\ l.plan = q.plan /\ l.left = q.left BY <1>2 DEF IdleLoop
  <2> HIDE DEF l
  <2>3. IdleHandOK(l, idle_plans') BY <1>2, <1>3, <2>1, <2>2 DEF IdleHandOK
  <2>4. ~overlapping => RoundOK(l, idle_think_status') /\ KeptBy(l, idle_plans', idle_think_status', excused')
    BY <1>2, <2>1, <2>2 DEF RoundOK, KeptBy
  <2>5. u \in 0..NoInput BY <1>2, <1>4
  <2>6. ~overlapping => u \in {NoInput, 0, 1} /\ (u # NoInput => idle_interrupted)
    BY <1>2, <2>1
  <2> HIDE DEF u
  <2>7. /\ idle_plans' \in [IdlePlanIds -> PlanStates]
        /\ \A r \in IdlePlanIds : idle_plans[r] # "none" => idle_plans'[r] # "none"
        /\ idle_think_status' # NoPlan => idle_plans'[idle_think_status'.plan] # "none"
        /\ unheard' \in 0..NoInput /\ idle_interrupted' \in BOOLEAN /\ excused' \subseteq IdlePlanIds
        /\ idle_think_status' \in IdleStatus \cup {NoPlan}
        /\ ~overlapping => unheard' \in {NoInput, 0, 1} /\ (unheard' # NoInput => idle_interrupted')
    BY <1>2, <2>1, <2>5, <2>6
  <2> QED BY <1>1, <2>1, <2>2, <2>3, <2>4, <2>7, RoundStep
<1>11. CASE LoadPlan(d) /\ idle_plans[q.plan] \notin {"open", "user_input"}
  <2> DEFINE v == EndStatus(idle_plans[q.plan])
  <2>1. /\ q.at = "load" /\ WriteStatus(d, v)
        /\ UNCHANGED <<detecting, away, overlapping, idle_restarts, idle_interrupted, unheard, excused, idle_plans>>
    BY <1>11 DEF LoadPlan, LoopAt, detector
  <2>2. v \in {"paused", "completed", "stopped", "failed"}
        /\ (v = "paused" \/ idle_plans[q.plan] \notin Unfinished)
    BY DEF EndStatus, Unfinished
  <2> HIDE DEF v
  <2> QED BY <1>2, <2>1, <2>2, StatusStep
<1>12. CASE ExecuteNext(d)
  <2>1. PICK later \in {"open", "waiting", "done", "stopped"}, progress \in BOOLEAN :
          /\ idle_plans' = [idle_plans EXCEPT ![q.plan] = later]
          /\ IF idle_interrupted
             THEN LoopGoes(d, "pause") /\ UNCHANGED idle_think_status
             ELSE IF later = "open" /\ progress
             THEN /\ loop' = [loop EXCEPT ![d].at = "check", ![d].left = @ - 1]
                  /\ UNCHANGED idle_think_status
             ELSE WriteStatus(d, EndStatus(later))
    BY <1>12 DEF ExecuteNext, _is_interrupted
  <2>2. /\ q.at = "step"
        /\ UNCHANGED <<detecting, away, overlapping, idle_restarts, idle_interrupted, unheard, excused>>
    BY <1>12 DEF ExecuteNext, LoopAt, detector
  <2>3. later \in PlanStates \ {"none"} BY DEF PlanStates, Unfinished
  <2>4. /\ idle_plans' \in [IdlePlanIds -> PlanStates] /\ idle_plans'[q.plan] = later
        /\ \A r \in IdlePlanIds \ {q.plan} : idle_plans'[r] = idle_plans[r]
    BY <1>2, <1>3, <2>1, <2>2, <2>3
  <2>5. ASSUME NEW l \in IdleLoop, loop' = [loop EXCEPT ![d] = l], l.at \in {"check", "pause"},
               l.plan = q.plan, UNCHANGED idle_think_status
        PROVE  IdleInv'
    <3>1. IdleHandOK(l, idle_plans') BY <1>3, <2>2, <2>3, <2>4, <2>5 DEF IdleHandOK
    <3>2. ~overlapping => RoundOK(l, idle_think_status') BY <1>2, <1>3, <2>2, <2>5 DEF RoundOK
    <3>3. ~overlapping => KeptBy(l, idle_plans', idle_think_status', excused')
      BY <1>2, <2>2, <2>4, <2>5 DEF KeptBy
    <3>4. /\ \A r \in IdlePlanIds : idle_plans[r] # "none" => idle_plans'[r] # "none"
          /\ idle_think_status' # NoPlan => idle_plans'[idle_think_status'.plan] # "none"
          /\ unheard' \in 0..NoInput /\ idle_interrupted' \in BOOLEAN /\ excused' \subseteq IdlePlanIds
          /\ idle_think_status' \in IdleStatus \cup {NoPlan}
          /\ ~overlapping => unheard' \in {NoInput, 0, 1} /\ (unheard' # NoInput => idle_interrupted')
      BY <1>2, <2>2, <2>3, <2>4, <2>5
    <3> QED BY <1>1, <2>2, <2>4, <2>5, <3>1, <3>2, <3>3, <3>4, RoundStep
  <2>6. CASE idle_interrupted
    <3> DEFINE l == [q EXCEPT !.at = "pause"]
    <3>1. loop' = [loop EXCEPT ![d] = l] /\ UNCHANGED idle_think_status BY <1>2, <2>1, <2>6 DEF LoopGoes
    <3>2. l \in IdleLoop /\ l.at = "pause" /\ l.plan = q.plan BY <1>2 DEF IdleLoop
    <3> HIDE DEF l
    <3> QED BY <2>5, <3>1, <3>2
  <2>7. CASE ~idle_interrupted /\ later = "open" /\ progress
    <3> DEFINE l == [q EXCEPT !.at = "check", !.left = q.left - 1]
    <3>1. loop' = [loop EXCEPT ![d] = l] /\ UNCHANGED idle_think_status BY <1>2, <2>1, <2>7
    <3>2. q.left > 0 /\ q.left \in 0..max_steps_per_idle BY <1>2, <2>2 DEF IdleHandOK, IdleLoop
    <3>3. q.left - 1 \in 0..max_steps_per_idle BY <1>4, <3>2
    <3>4. l \in IdleLoop /\ l.at = "check" /\ l.plan = q.plan BY <1>2, <3>3 DEF IdleLoop
    <3> HIDE DEF l
    <3> QED BY <2>5, <3>1, <3>4
  <2>8. CASE ~idle_interrupted /\ ~(later = "open" /\ progress)
    <3> DEFINE v == EndStatus(later)
    <3>1. WriteStatus(d, v) BY <2>1, <2>8
    <3>2. v \in {"paused", "completed", "stopped", "failed"} /\ (v = "paused" \/ later \notin Unfinished)
      BY DEF EndStatus, Unfinished
    <3> HIDE DEF v
    <3>3. \E s \in PlanStates \ {"none"} : idle_plans' = [idle_plans EXCEPT ![loop[d].plan] = s]
      BY <2>1, <2>3
    <3> QED BY <1>2, <2>2, <2>4, <3>1, <3>2, <3>3, StatusStep
  <2> QED BY <2>6, <2>7, <2>8
<1>13. CASE StepRaises(d)
  <2>1. /\ q.at = "step" /\ WriteStatus(d, "failed") /\ excused' = excused \cup {q.plan}
        /\ UNCHANGED <<detecting, away, overlapping, idle_restarts, idle_interrupted, unheard, idle_plans>>
    BY <1>13 DEF StepRaises, LoopAt, detector
  <2>2. excused \subseteq excused' /\ excused' \subseteq IdlePlanIds /\ q.plan \in excused'
    BY <1>2, <1>3, <2>1
  <2> QED BY <2>1, <2>2, StatusStep
<1>14. CASE PauseIdlePlan(d)
  <2> DEFINE l == [q EXCEPT !.at = "paused"]
             s == IF idle_plans[q.plan] \in Unfinished THEN "user_input" ELSE idle_plans[q.plan]
  <2>1. /\ q.at = "pause" /\ loop' = [loop EXCEPT ![d] = l]
        /\ idle_plans' = [idle_plans EXCEPT ![q.plan] = s]
        /\ UNCHANGED <<detecting, away, overlapping, idle_restarts, idle_interrupted, idle_think_status,
                       unheard, excused>>
    BY <1>2, <1>14 DEF PauseIdlePlan, LoopAt, LoopGoes, detector, coordinator
  <2>2. l \in IdleLoop /\ l.at = "paused" /\ l.plan = q.plan BY <1>2 DEF IdleLoop
  <2>3. s \in PlanStates \ {"none"} BY <1>2, <1>3, <2>1 DEF PlanStates, Unfinished
  <2> HIDE DEF l, s
  <2>4. /\ idle_plans' \in [IdlePlanIds -> PlanStates] /\ idle_plans'[q.plan] = s
        /\ \A r \in IdlePlanIds \ {q.plan} : idle_plans'[r] = idle_plans[r]
    BY <1>2, <1>3, <2>1, <2>3
  <2>5. IdleHandOK(l, idle_plans') BY <1>3, <2>1, <2>2, <2>3, <2>4 DEF IdleHandOK
  <2>6. ~overlapping => RoundOK(l, idle_think_status') BY <1>2, <1>3, <2>1, <2>2 DEF RoundOK
  <2>7. ~overlapping => KeptBy(l, idle_plans', idle_think_status', excused')
    BY <1>2, <2>1, <2>2, <2>4 DEF KeptBy
  <2>8. /\ \A r \in IdlePlanIds : idle_plans[r] # "none" => idle_plans'[r] # "none"
        /\ idle_think_status' # NoPlan => idle_plans'[idle_think_status'.plan] # "none"
        /\ unheard' \in 0..NoInput /\ idle_interrupted' \in BOOLEAN /\ excused' \subseteq IdlePlanIds
        /\ idle_think_status' \in IdleStatus \cup {NoPlan}
        /\ ~overlapping => unheard' \in {NoInput, 0, 1} /\ (unheard' # NoInput => idle_interrupted')
    BY <1>2, <2>1, <2>3, <2>4
  <2> QED BY <1>1, <2>1, <2>2, <2>4, <2>5, <2>6, <2>7, <2>8, RoundStep
<1>15. CASE WritePaused(d)
  <2>1. /\ q.at = "paused" /\ WriteStatus(d, "paused")
        /\ UNCHANGED <<detecting, away, overlapping, idle_restarts, idle_interrupted, unheard, excused, idle_plans>>
    BY <1>15 DEF WritePaused, LoopAt, detector
  <2> QED BY <1>2, <2>1, StatusStep
<1> QED BY <1>5, <1>6, <1>7, <1>8, <1>9, <1>10, <1>11, <1>12, <1>13, <1>14, <1>15

\* The detector and the user: no round moves.
LEMMA DetectorStep ==
    ASSUME IdleInv, detecting' \in BOOLEAN, away' \in BOOLEAN, idle_interrupted' \in BOOLEAN,
           loop' \in [Loops -> IdleLoop],
           \A e \in Loops : \/ loop'[e] = loop[e]
                            \/ /\ loop[e].at \in {"none", "wait"} /\ loop'[e].at \in {"none", "wait"}
                               /\ loop'[e].plan = NoPlan,
           UNCHANGED <<overlapping, idle_think_status, idle_plans, excused>>,
           \/ UNCHANGED <<unheard, idle_interrupted>>
           \/ idle_interrupted' /\ unheard' = IF unheard = NoInput THEN 0 ELSE unheard
    PROVE  IdleInv'
<1>1. /\ idle_think_status \in IdleStatus \cup {NoPlan} /\ overlapping \in BOOLEAN
      /\ idle_plans \in [IdlePlanIds -> PlanStates] /\ unheard \in 0..NoInput
      /\ excused \subseteq IdlePlanIds /\ NoInput \in Nat /\ loop \in [Loops -> IdleLoop]
  BY IdleAssumption DEF IdleInv, IdleTypeOK, NoInput, IdleLoop
<1>2. unheard' \in 0..NoInput BY <1>1
<1>3. IdleTypeOK' BY <1>1, <1>2 DEF IdleTypeOK, IdleLoop
<1>4. \A e \in Loops : IdleHandOK(loop'[e], idle_plans')
  <2> TAKE e \in Loops
  <2>1. CASE loop'[e] = loop[e] BY <2>1 DEF IdleInv
  <2>2. CASE loop'[e].at \in {"none", "wait"} /\ loop'[e].plan = NoPlan BY <2>2 DEF IdleHandOK
  <2> QED BY <2>1, <2>2
<1>5. ASSUME ~overlapping' PROVE IdleAlone'
  <2>0. IdleAlone BY <1>5 DEF IdleInv
  <2>1. \A e \in Loops : InRound(e)' => InRound(e) BY DEF InRound
  <2>2. \A e, f \in Loops : InRound(e)' /\ InRound(f)' => e = f BY <2>0, <2>1 DEF IdleAlone
  <2>3. \A e \in Loops : RoundOK(loop'[e], idle_think_status')
    <3> TAKE e \in Loops
    <3>1. CASE loop'[e] = loop[e] BY <2>0, <3>1 DEF IdleAlone
    <3>2. CASE loop'[e].at \in {"none", "wait"} /\ loop'[e].plan = NoPlan BY <3>2 DEF RoundOK
    <3> QED BY <3>1, <3>2
  <2>4. \A e \in Loops : loop'[e].plan = loop[e].plan
    <3>1. \A e \in Loops : loop[e].at \in {"none", "wait"} => loop[e].plan = NoPlan
      BY DEF IdleInv, IdleHandOK
    <3> QED BY <3>1
  <2>5. NoIdlePlanIsLost' BY <2>0, <2>4 DEF IdleAlone, NoIdlePlanIsLost
  <2>6. \A e \in Loops : loop'[e].at = "load" => loop[e].at = "load" OBVIOUS
  <2>7. HeardOK'
    <3>1. HeardOK BY <2>0 DEF IdleAlone
    <3>2. CASE UNCHANGED <<unheard, idle_interrupted>> BY <2>6, <3>1, <3>2 DEF HeardOK, NoInput
    <3>3. CASE idle_interrupted' /\ unheard' = IF unheard = NoInput THEN 0 ELSE unheard
      BY <2>6, <3>1, <3>3 DEF HeardOK, NoInput
    <3> QED BY <3>2, <3>3
  <2> QED BY <2>2, <2>3, <2>5, <2>7 DEF IdleAlone
<1> QED BY <1>1, <1>3, <1>4, <1>5 DEF IdleInv

\* A thread that waits has no plan; a new one has none either.
LEMMA NoLoopIsALoop ==
    /\ NoLoop \in IdleLoop /\ NoLoop.at = "none" /\ NoLoop.plan = NoPlan
    /\ Waiting \in IdleLoop /\ Waiting.at = "wait" /\ Waiting.plan = NoPlan
BY IdleAssumption DEF IdleLoop, NoLoop, Waiting

LEMMA DetectorSteps ==
    ASSUME IdleInv, StartDetector \/ StopDetector \/ TimePasses \/ touch \/ UNCHANGED idleVars
    PROVE  IdleInv'
<1>1. /\ loop \in [Loops -> IdleLoop] /\ detecting \in BOOLEAN /\ away \in BOOLEAN
      /\ idle_interrupted \in BOOLEAN
  BY DEF IdleInv, IdleTypeOK, IdleLoop
<1>2. CASE StartDetector
  <2>1. PICK d \in Loops : loop[d] = NoLoop /\ loop' = [loop EXCEPT ![d] = Waiting]
    BY <1>2 DEF StartDetector
  <2>2. loop' \in [Loops -> IdleLoop] /\ \A e \in Loops : loop'[e] = IF e = d THEN Waiting ELSE loop[e]
    BY <1>1, <2>1, NoLoopIsALoop
  <2>3. \A e \in Loops : \/ loop'[e] = loop[e]
                         \/ /\ loop[e].at \in {"none", "wait"} /\ loop'[e].at \in {"none", "wait"}
                            /\ loop'[e].plan = NoPlan
    BY <2>1, <2>2, NoLoopIsALoop
  <2>4. /\ detecting' \in BOOLEAN
        /\ UNCHANGED <<away, overlapping, idle_think_status, idle_plans, excused, unheard, idle_interrupted>>
    BY <1>2 DEF StartDetector, coordinator
  <2> QED BY <1>1, <2>2, <2>3, <2>4, DetectorStep
<1>3. CASE StopDetector
  <2>1. loop' = [e \in Loops |-> IF loop[e].at = "wait" THEN NoLoop ELSE loop[e]]
    BY <1>3 DEF StopDetector, LoopAt
  <2>2. loop' \in [Loops -> IdleLoop] BY <1>1, <2>1, NoLoopIsALoop
  <2>3. \A e \in Loops : \/ loop'[e] = loop[e]
                         \/ /\ loop[e].at \in {"none", "wait"} /\ loop'[e].at \in {"none", "wait"}
                            /\ loop'[e].plan = NoPlan
    BY <2>1, <2>2, NoLoopIsALoop
  <2>4. /\ detecting' \in BOOLEAN
        /\ UNCHANGED <<away, overlapping, idle_think_status, idle_plans, excused, unheard, idle_interrupted>>
    BY <1>3 DEF StopDetector, coordinator
  <2> QED BY <1>1, <2>2, <2>3, <2>4, DetectorStep
<1>4. CASE TimePasses
  <2>1. /\ away' \in BOOLEAN
        /\ UNCHANGED <<detecting, loop, overlapping, idle_think_status, idle_plans, excused, unheard,
                       idle_interrupted>>
    BY <1>4 DEF TimePasses
  <2> QED BY <1>1, <2>1, DetectorStep
<1>5. CASE touch
  <2>1. /\ away' \in BOOLEAN /\ idle_interrupted' /\ idle_interrupted' \in BOOLEAN
        /\ unheard' = IF unheard = NoInput THEN 0 ELSE unheard
        /\ UNCHANGED <<detecting, loop, overlapping, idle_think_status, idle_plans, excused>>
    BY <1>5 DEF touch
  <2> QED BY <1>1, <2>1, DetectorStep
<1>6. CASE UNCHANGED idleVars
  <2>1. UNCHANGED <<detecting, away, loop, overlapping, idle_think_status, idle_plans, excused,
                    unheard, idle_interrupted>>
    BY <1>6 DEF idleVars
  <2> QED BY <1>1, <2>1, DetectorStep
<1> QED BY <1>2, <1>3, <1>4, <1>5, <1>6

\* A round begins: from here on the spec knows whether it is alone.
LEMMA RoundBegins == ASSUME IdleInv, NEW d \in Loops, check_once(d) PROVE IdleInv'
<1> DEFINE l == [loop[d] EXCEPT !.at = "maintain"]
<1>1. /\ loop \in [Loops -> IdleLoop] /\ loop[d] \in IdleLoop /\ detecting \in BOOLEAN
      /\ idle_interrupted \in BOOLEAN /\ overlapping \in BOOLEAN
      /\ idle_think_status \in IdleStatus \cup {NoPlan}
      /\ idle_plans \in [IdlePlanIds -> PlanStates] /\ unheard \in 0..NoInput
      /\ excused \subseteq IdlePlanIds
  BY DEF IdleInv, IdleTypeOK, IdleLoop
<1>2. /\ loop[d].at = "wait" /\ loop' = [loop EXCEPT ![d] = l] /\ away' \in BOOLEAN
      /\ UNCHANGED <<detecting, idle_restarts, idle_interrupted, idle_think_status, unheard, excused,
                     idle_plans>>
  BY <1>1 DEF check_once, LoopAt, LoopGoes, coordinator
<1>3. overlapping' = (overlapping \/ \E e \in Loops \ {d} : InRound(e)) BY DEF check_once
<1>4. overlapping' \in BOOLEAN BY <1>1, <1>3
<1>5. l \in IdleLoop /\ l.at = "maintain" /\ l.plan = loop[d].plan BY <1>1 DEF IdleLoop
<1> HIDE DEF l
<1>6. l.plan = NoPlan BY <1>2, <1>5 DEF IdleInv, IdleHandOK
<1>7. loop' \in [Loops -> IdleLoop] /\ \A e \in Loops : loop'[e] = IF e = d THEN l ELSE loop[e]
  BY <1>1, <1>2, <1>5
<1>8. IdleTypeOK' BY <1>1, <1>2, <1>7 DEF IdleTypeOK, IdleLoop
<1>9. IdleHandOK(l, idle_plans) /\ RoundOK(l, idle_think_status) BY <1>5, <1>6 DEF IdleHandOK, RoundOK
<1>10. \A e \in Loops : IdleHandOK(loop'[e], idle_plans') BY <1>2, <1>7, <1>9 DEF IdleInv
<1>11. ASSUME ~overlapping' PROVE IdleAlone'
  <2>0. IdleAlone BY <1>1, <1>3, <1>11 DEF IdleInv
  <2>1. \A e \in Loops \ {d} : ~InRound(e) BY <1>3, <1>11
  <2>2. \A e, f \in Loops : InRound(e)' /\ InRound(f)' => e = f BY <1>7, <2>1 DEF InRound
  <2>3. \A e \in Loops : RoundOK(loop'[e], idle_think_status') BY <1>2, <1>7, <1>9, <2>0 DEF IdleAlone
  <2>4. \A e \in Loops : loop'[e].plan = loop[e].plan BY <1>5, <1>7
  <2>5. NoIdlePlanIsLost' BY <1>2, <2>0, <2>4 DEF IdleAlone, NoIdlePlanIsLost
  <2>6. \A e \in Loops : loop'[e].at = "load" => loop[e].at = "load" BY <1>5, <1>7
  <2>7. HeardOK' BY <1>2, <2>0, <2>6 DEF IdleAlone, HeardOK, NoInput
  <2> QED BY <2>2, <2>3, <2>5, <2>7 DEF IdleAlone
<1> QED BY <1>2, <1>4, <1>8, <1>10, <1>11 DEF IdleInv

\* The user resumes, executes or cancels a plan behind the rounds' backs.
LEMMA UserSteps == ASSUME IdleInv, NEW p \in IdlePlanIds, UserActs(p) PROVE IdleInv'
<1>1. /\ idle_plans \in [IdlePlanIds -> PlanStates] /\ excused \subseteq IdlePlanIds
      /\ overlapping \in BOOLEAN
  BY DEF IdleInv, IdleTypeOK
<1>2. PICK later \in {"open", "waiting", "done", "stopped"} : idle_plans' = [idle_plans EXCEPT ![p] = later]
  BY DEF UserActs
<1>3. UNCHANGED <<detecting, away, overlapping, loop, idle_interrupted, idle_think_status, unheard>>
  BY DEF UserActs, detector
<1>4. /\ idle_plans[p] # "none" /\ excused \subseteq excused' /\ excused' \subseteq IdlePlanIds
      /\ idle_plans[p] \in Unfinished \/ p \in excused'
  BY <1>1 DEF UserActs, Unfinished
<1>5. later \in PlanStates \ {"none"} BY DEF PlanStates, Unfinished
<1>6. /\ idle_plans' \in [IdlePlanIds -> PlanStates] /\ idle_plans'[p] = later
      /\ \A r \in IdlePlanIds \ {p} : idle_plans'[r] = idle_plans[r]
  BY <1>1, <1>2, <1>5
<1>7. \A r \in IdlePlanIds : idle_plans[r] # "none" => idle_plans'[r] # "none" BY <1>5, <1>6
<1>8. IdleTypeOK' BY <1>3, <1>4, <1>6 DEF IdleInv, IdleTypeOK
<1>9. \A e \in Loops : IdleHandOK(loop'[e], idle_plans')
  <2> TAKE e \in Loops
  <2>1. IdleHandOK(loop[e], idle_plans) /\ loop[e] \in IdleLoop BY DEF IdleInv, IdleTypeOK, IdleLoop
  <2> QED BY <1>3, <1>7, <2>1 DEF IdleHandOK, IdleLoop
<1>10. idle_think_status' # NoPlan => idle_plans'[idle_think_status'.plan] # "none"
  <2>1. idle_think_status # NoPlan => idle_think_status.plan \in IdlePlanIds
                                      /\ idle_plans[idle_think_status.plan] # "none"
    BY DEF IdleInv, IdleTypeOK, IdleStatus
  <2> QED BY <1>3, <1>7, <2>1
<1>11. ASSUME ~overlapping' PROVE IdleAlone'
  <2>0. IdleAlone BY <1>3, <1>11 DEF IdleInv
  <2>1. \A e, f \in Loops : InRound(e)' /\ InRound(f)' => e = f BY <1>3, <2>0 DEF IdleAlone, InRound
  <2>2. \A e \in Loops : RoundOK(loop'[e], idle_think_status') BY <1>3, <2>0 DEF IdleAlone
  <2>3. NoIdlePlanIsLost' BY <1>3, <1>4, <1>6, <2>0 DEF IdleAlone, NoIdlePlanIsLost
  <2>4. HeardOK' BY <1>3, <2>0 DEF IdleAlone, HeardOK, NoInput
  <2> QED BY <2>1, <2>2, <2>3, <2>4 DEF IdleAlone
<1> QED BY <1>1, <1>3, <1>8, <1>9, <1>10, <1>11 DEF IdleInv

\* A restart forgets the threads and what they had in hand; the status outlives it.
LEMMA RestartStep == ASSUME IdleInv, RestartIdle PROVE IdleInv'
<1>1. /\ idle_plans \in [IdlePlanIds -> PlanStates] /\ excused \subseteq IdlePlanIds
      /\ loop \in [Loops -> IdleLoop] /\ overlapping \in BOOLEAN
      /\ idle_think_status \in IdleStatus \cup {NoPlan}
      /\ NoInput \in Nat
  BY IdleAssumption DEF IdleInv, IdleTypeOK, IdleLoop, NoInput
<1>2. /\ excused' = excused \cup UNION {Dropped(d) : d \in Loops} /\ detecting' \in BOOLEAN
      /\ away' = FALSE /\ idle_interrupted' = FALSE /\ unheard' = NoInput
      /\ UNCHANGED <<overlapping, idle_think_status, idle_plans>>
  BY DEF RestartIdle
<1>3. PICK d \in Loops : loop' = [e \in Loops |-> IF detecting' /\ e = d THEN Waiting ELSE NoLoop]
  BY DEF RestartIdle
<1>4. /\ loop' \in [Loops -> IdleLoop]
      /\ \A e \in Loops : loop'[e].at \in {"none", "wait"} /\ loop'[e].plan = NoPlan
  BY <1>3, NoLoopIsALoop
<1>5. excused' \subseteq IdlePlanIds
  <2>1. \A e \in Loops : Dropped(e) \subseteq IdlePlanIds BY <1>1 DEF Dropped, IdleLoop
  <2> QED BY <1>1, <1>2, <2>1
<1>6. unheard' \in 0..NoInput /\ away' \in BOOLEAN /\ idle_interrupted' \in BOOLEAN
  <2>1. NoInput \in 0..NoInput BY <1>1
  <2>2. away' \in BOOLEAN /\ idle_interrupted' \in BOOLEAN BY <1>2
  <2> QED BY <1>2, <2>1, <2>2
<1>7. IdleTypeOK' BY <1>1, <1>2, <1>4, <1>5, <1>6 DEF IdleTypeOK, IdleLoop
<1>8. \A e \in Loops : IdleHandOK(loop'[e], idle_plans') BY <1>4 DEF IdleHandOK
<1>9. ASSUME ~overlapping' PROVE IdleAlone'
  <2>0. IdleAlone BY <1>2, <1>9 DEF IdleInv
  <2>1. \A e, f \in Loops : InRound(e)' /\ InRound(f)' => e = f BY <1>4 DEF InRound
  <2>2. \A e \in Loops : RoundOK(loop'[e], idle_think_status') BY <1>4 DEF RoundOK
  <2>3. NoIdlePlanIsLost'
    <3> SUFFICES ASSUME NEW p \in IdlePlanIds, idle_plans[p] \in Unfinished
                 PROVE  p \in excused' \/ idle_think_status = [plan |-> p, status |-> "paused"]
      BY <1>2 DEF NoIdlePlanIsLost
    <3>1. CASE p \in excused BY <1>2, <3>1
    <3>2. CASE idle_think_status = [plan |-> p, status |-> "paused"] BY <3>2
    <3>3. CASE \E e \in Loops : loop[e].plan = p
      <4>1. PICK e \in Loops : loop[e].plan = p BY <3>3
      <4>2. p # NoPlan BY IdleAssumption
      <4>3. RoundOK(loop[e], idle_think_status) BY <2>0 DEF IdleAlone
      <4>4. CASE idle_think_status = NoPlan \/ idle_think_status.plan # p
        <5>1. p \in Dropped(e) BY <4>1, <4>2, <4>4 DEF Dropped
        <5> QED BY <1>2, <5>1
      <4>5. CASE idle_think_status # NoPlan /\ idle_think_status.plan = p
        <5>1. idle_think_status.status = "paused" BY <4>1, <4>2, <4>3, <4>5 DEF RoundOK
        <5>2. idle_think_status \in IdleStatus BY <1>1, <4>5
        <5> QED BY <4>5, <5>1, <5>2 DEF IdleStatus
      <4> QED BY <4>4, <4>5
    <3> QED BY <2>0, <3>1, <3>2, <3>3 DEF IdleAlone, NoIdlePlanIsLost
  <2>4. HeardOK' BY <1>2, <1>4 DEF HeardOK, NoInput
  <2> QED BY <2>1, <2>2, <2>3, <2>4 DEF IdleAlone
<1> QED BY <1>1, <1>2, <1>7, <1>8, <1>9 DEF IdleInv

LEMMA IdleStarts == ASSUME IdleInit PROVE IdleInv
<1>1. PICK d \in Loops : loop = [e \in Loops |-> IF e = d THEN Waiting ELSE NoLoop] BY DEF IdleInit
<1>2. /\ loop \in [Loops -> IdleLoop]
      /\ \A e \in Loops : loop[e].at \in {"none", "wait"} /\ loop[e].plan = NoPlan
  BY <1>1, NoLoopIsALoop
<1>3. /\ detecting = TRUE /\ away = FALSE /\ idle_interrupted = FALSE /\ overlapping = FALSE
      /\ idle_think_status = NoPlan /\ unheard = NoInput /\ excused = {}
      /\ idle_plans = [p \in IdlePlanIds |-> "none"]
  BY DEF IdleInit
<1>4. NoInput \in 0..NoInput BY IdleAssumption DEF NoInput
<1>5. idle_plans \in [IdlePlanIds -> PlanStates] BY <1>3 DEF PlanStates
<1>6. detecting \in BOOLEAN /\ away \in BOOLEAN /\ idle_interrupted \in BOOLEAN /\ overlapping \in BOOLEAN
  BY <1>3
<1>7. IdleTypeOK BY <1>2, <1>3, <1>4, <1>5, <1>6 DEF IdleTypeOK, IdleLoop
<1>8. \A e \in Loops : IdleHandOK(loop[e], idle_plans) /\ RoundOK(loop[e], idle_think_status)
  BY <1>2 DEF IdleHandOK, RoundOK
<1>9. NoIdlePlanIsLost BY <1>3 DEF NoIdlePlanIsLost, Unfinished
<1>10. HeardOK BY <1>2, <1>3 DEF HeardOK
<1>11. \A e, f \in Loops : InRound(e) /\ InRound(f) => e = f BY <1>2 DEF InRound
<1> QED BY <1>3, <1>6, <1>7, <1>8, <1>9, <1>10, <1>11 DEF IdleInv, IdleAlone

LEMMA IdleStep == ASSUME IdleInv, [IdleNext]_idleVars PROVE IdleInv'
<1>1. CASE idle_toggle \/ TimePasses \/ touch \/ UNCHANGED idleVars
  BY <1>1, DetectorSteps DEF idle_toggle
<1>2. CASE RestartIdle BY <1>2, RestartStep
<1>3. CASE \E p \in IdlePlanIds : UserActs(p) BY <1>3, UserSteps
<1>4. CASE \E d \in Loops :
          \/ check_once(d) \/ Maintain(d) \/ ResumePaused(d) \/ EvaluateReminders(d)
          \/ CreateIdlePlan(d) \/ PublishResult(d) \/ RoundRaises(d) \/ BeginSteps(d)
          \/ CheckInterrupted(d) \/ BudgetSpent(d) \/ LoadPlan(d) \/ ExecuteNext(d)
          \/ StepRaises(d) \/ PauseIdlePlan(d) \/ WritePaused(d) \/ RoundReturns(d)
  <2>1. PICK d \in Loops :
          \/ check_once(d) \/ Maintain(d) \/ ResumePaused(d) \/ EvaluateReminders(d)
          \/ CreateIdlePlan(d) \/ PublishResult(d) \/ RoundRaises(d) \/ BeginSteps(d)
          \/ CheckInterrupted(d) \/ BudgetSpent(d) \/ LoadPlan(d) \/ ExecuteNext(d)
          \/ StepRaises(d) \/ PauseIdlePlan(d) \/ WritePaused(d) \/ RoundReturns(d)
    BY <1>4
  <2> QED BY <2>1, RoundBegins, PlacesStep, PlansStep
<1> QED BY <1>1, <1>2, <1>3, <1>4 DEF IdleNext

LEMMA IdleInvIsEnough == ASSUME IdleInv PROVE IdleTypeOK /\ IdleThinkGivesWay
BY DEF IdleInv, IdleAlone, HeardOK, IdleThinkGivesWay, InputIsHeard

(***************************************************************************)
(* Reminders                                                               *)
(***************************************************************************)

GoalRow == [made : {TRUE}, row : {"active", "cancelled"},
            status : {"active", "completed", "abandoned"}, priority : Priorities,
            progress : 0..Done, deadline : Deadlines \cup {Never}, updated_at : Nat,
            negative : Nat, last : Nat \cup {Never}, history : SUBSET Nat]

\* The hours of a goal's reminders, with every pair of them a cooldown apart.
HoursOK(s, h) ==
    /\ s \in Seq(Nat)
    /\ \A i \in 1..Len(s) : s[i] <= h
    /\ \A i, j \in 1..Len(s) : i < j => s[j] - s[i] >= CooldownHours
    /\ \A i \in 1..Len(s) - ReminderCap : s[i + ReminderCap] - s[i] > DayLength

\* What a row remembers of them: the last one, and all but those older than a week.
GoalRowOK(r, s, h) ==
    /\ r \in GoalRow
    /\ r.last = IF Len(s) = 0 THEN Never ELSE s[Len(s)]
    /\ r.history \subseteq 1..Len(s)
    /\ \A i \in 1..Len(s) \ r.history : s[i] < h - WeekLength

\* One more reminder keeps its distance, today and at any later hour.
ReadyOK(s, h) ==
    /\ Len(s) > 0 => h - s[Len(s)] >= CooldownHours
    /\ Len(s) >= ReminderCap => h - s[Len(s) - ReminderCap + 1] > DayLength

GoalsInv ==
    /\ hour \in Nat /\ to_show \subseteq GoalIds /\ closed \subseteq GoalIds
    /\ goals \in [GoalIds -> GoalRow \cup {Unmade}] /\ shown_at \in [GoalIds -> Seq(Nat)]
    /\ \A g \in GoalIds :
         /\ HoursOK(shown_at[g], hour)
         /\ goals[g] = Unmade => shown_at[g] = <<>>
         /\ goals[g] # Unmade => GoalRowOK(goals[g], shown_at[g], hour)
    /\ \A g \in to_show : goals[g] # Unmade /\ ReadyOK(shown_at[g], hour)
    /\ \A g \in closed : goals[g] # Unmade /\ goals[g].row = "cancelled"

\* A goal that was made is not Unmade.
LEMMA RowIsMade == ASSUME NEW r \in GoalRow PROVE r # Unmade
<1>1. r.made = TRUE BY DEF GoalRow
<1>2. Unmade.made = FALSE BY DEF Unmade
<1> QED BY <1>1, <1>2

\* A candidate may be reminded of now: the last reminder is a cooldown old, and the cap, which
\* is counted in the trimmed history, misses none of the last day's.
LEMMA CandidateIsReady ==
    ASSUME GoalsInv, NEW g \in GoalCandidates
    PROVE  g \in GoalIds /\ goals[g] # Unmade /\ ReadyOK(shown_at[g], hour)
<1> DEFINE r == goals[g]
           s == shown_at[g]
           n == Len(s)
<1>1. g \in GoalIds /\ r # Unmade /\ ~InCooldown(r) /\ ~ExceedsDailyCap(g)
  BY DEF GoalCandidates, list_active
<1>2. HoursOK(s, hour) /\ GoalRowOK(r, s, hour) /\ hour \in Nat BY <1>1 DEF GoalsInv
<1>3. s \in Seq(Nat) /\ n \in Nat /\ \A i \in 1..n : s[i] \in Nat BY <1>2 DEF HoursOK
<1>4. /\ CooldownHours \in Nat /\ ReminderCap \in Nat /\ ReminderCap # 0 /\ DayLength \in Nat
      /\ WeekLength \in Nat /\ WeekLength > DayLength
  BY GoalAssumption
<1>5. n > 0 => hour - s[n] >= CooldownHours
  <2> SUFFICES ASSUME n > 0 PROVE hour - s[n] >= CooldownHours OBVIOUS
  <2>1. r.last = s[n] /\ s[n] \in Nat BY <1>2, <1>3 DEF GoalRowOK
  <2>2. ~(r.last # Never /\ hour - r.last < CooldownHours) BY <1>1 DEF InCooldown
  <2> HIDE DEF r, s, n
  <2> QED BY <1>2, <1>4, <2>1, <2>2 DEF Never
<1>6. ASSUME n >= ReminderCap, ~(hour - s[n - ReminderCap + 1] > DayLength) PROVE FALSE
  <2> DEFINE m == n - ReminderCap + 1
  <2>1. m \in 1..n /\ m \in Int BY <1>3, <1>4, <1>6
  <2>2. \A i \in m..n : i \in 1..n /\ s[i] >= s[m] /\ s[i] <= hour /\ s[i] \in Nat
    <3> TAKE i \in m..n
    <3>1. i \in 1..n /\ (m < i \/ m = i) BY <1>3, <2>1
    <3>2. s[i] \in Nat /\ s[m] \in Nat /\ s[i] <= hour BY <1>2, <1>3, <2>1, <3>1 DEF HoursOK
    <3>3. m < i => s[i] - s[m] >= CooldownHours BY <1>2, <2>1, <3>1 DEF HoursOK
    <3> HIDE DEF m, s, n
    <3> QED BY <1>4, <3>1, <3>2, <3>3
  <2>3. s[m] \in Nat /\ s[m] >= hour - DayLength
    <3>1. s[m] \in Nat BY <1>3, <2>1
    <3>2. ~(hour - s[m] > DayLength) BY <1>6
    <3> HIDE DEF m, s
    <3> QED BY <1>2, <1>4, <3>1, <3>2
  <2>4. m..n \subseteq RemindersToday(g)
    <3> SUFFICES ASSUME NEW i \in m..n PROVE i \in RemindersToday(g) OBVIOUS
    <3>1. i \in 1..n /\ s[i] >= s[m] /\ s[i] <= hour /\ s[i] \in Nat BY <2>2
    <3>2. hour - DayLength <= s[i] /\ ~(s[i] < hour - WeekLength)
      <4> HIDE DEF m, s, n
      <4> QED BY <1>2, <1>4, <2>3, <3>1
    <3>3. i \in r.history BY <1>2, <3>1, <3>2 DEF GoalRowOK
    <3> QED BY <3>1, <3>2, <3>3 DEF RemindersToday
  <2>5. RemindersToday(g) \subseteq 1..n BY <1>2 DEF RemindersToday, GoalRowOK
  <2>6. IsFiniteSet(RemindersToday(g))
    <3>1. IsFiniteSet(1..n) BY <1>3, FS_Interval
    <3> QED BY <2>5, <3>1, FS_Subset
  <2>7. Cardinality(m..n) <= Cardinality(RemindersToday(g)) BY <2>4, <2>6, FS_Subset
  <2>8. Cardinality(m..n) = ReminderCap
    <3>0. m \in Int /\ n \in Int /\ m <= n /\ n - m + 1 = ReminderCap BY <1>3, <1>4, <2>1
    <3> HIDE DEF m, n
    <3>1. Cardinality(m..n) = IF m > n THEN 0 ELSE n - m + 1 BY <3>0, FS_Interval
    <3> QED BY <3>0, <3>1
  <2>9. Cardinality(RemindersToday(g)) \in Nat BY <2>6, FS_CardinalityType
  <2>10. ~(Cardinality(RemindersToday(g)) >= ReminderCap) BY <1>1 DEF ExceedsDailyCap
  <2> QED BY <1>4, <2>7, <2>8, <2>9, <2>10
<1> QED BY <1>1, <1>5, <1>6 DEF ReadyOK

\* A call of the user writes one row.
LEMMA GoalRowStep ==
    ASSUME GoalsInv, NEW g \in GoalIds, NEW r, goals' = [goals EXCEPT ![g] = r],
           GoalRowOK(r, shown_at[g], hour), UNCHANGED <<hour, to_show, shown_at>>,
           closed' = closed \/ (closed' = closed \cup {g} /\ r.row = "cancelled"),
           g \in closed => r.row = "cancelled"
    PROVE  GoalsInv'
<1>1. r \in GoalRow /\ r # Unmade BY RowIsMade DEF GoalRowOK
<1>2. /\ goals' \in [GoalIds -> GoalRow \cup {Unmade}] /\ goals'[g] = r
      /\ \A f \in GoalIds \ {g} : goals'[f] = goals[f]
  BY <1>1 DEF GoalsInv
<1>3. /\ hour' \in Nat /\ to_show' \subseteq GoalIds /\ closed' \subseteq GoalIds
      /\ shown_at' \in [GoalIds -> Seq(Nat)]
  BY DEF GoalsInv
<1>4. \A f \in GoalIds :
         /\ HoursOK(shown_at'[f], hour')
         /\ goals'[f] = Unmade => shown_at'[f] = <<>>
         /\ goals'[f] # Unmade => GoalRowOK(goals'[f], shown_at'[f], hour')
  BY <1>1, <1>2 DEF GoalsInv
<1>5. \A f \in to_show' : goals'[f] # Unmade /\ ReadyOK(shown_at'[f], hour')
  BY <1>1, <1>2 DEF GoalsInv
<1>6. \A f \in closed' : goals'[f] # Unmade /\ goals'[f].row = "cancelled"
  BY <1>1, <1>2 DEF GoalsInv
<1> QED BY <1>2, <1>3, <1>4, <1>5, <1>6 DEF GoalsInv

\* What a row remembers of the reminders is all that GoalRowOK asks of it.
LEMMA SameReminders ==
    ASSUME NEW r, NEW s, NEW h, GoalRowOK(r, s, h), NEW q \in GoalRow, q.last = r.last,
           q.history = r.history
    PROVE  GoalRowOK(q, s, h)
BY DEF GoalRowOK

LEMMA UserCallStep ==
    ASSUME GoalsInv, NEW g \in GoalIds,
           \/ \E p \in Priorities : \/ \E d \in Deadlines \cup {Never} : CreateGoal(g, p, d)
                                    \/ update_priority(g, p)
           \/ \E n \in 0..Done : update_progress(g, n)
           \/ \E a \in {"completed", "abandoned"} : deactivate(g, a)
           \/ \E l \in FeedbackLevels : record_feedback(g, l)
    PROVE  GoalsInv'
<1> DEFINE r == goals[g]
<1>0. /\ goals \in [GoalIds -> GoalRow \cup {Unmade}] /\ hour \in Nat
      /\ r = Unmade => shown_at[g] = <<>> /\ g \notin closed
      /\ r # Unmade => r \in GoalRow /\ GoalRowOK(r, shown_at[g], hour)
      /\ g \in closed => r.row = "cancelled"
  BY DEF GoalsInv
<1>1. ASSUME NEW p \in Priorities, NEW d \in Deadlines \cup {Never}, CreateGoal(g, p, d) PROVE GoalsInv'
  <2> DEFINE q == [made |-> TRUE, row |-> "active", status |-> "active", priority |-> p,
                   progress |-> 0, deadline |-> d, updated_at |-> hour, negative |-> 0,
                   last |-> Never, history |-> {}]
  <2>1. r = Unmade /\ goals' = [goals EXCEPT ![g] = q] /\ UNCHANGED <<hour, to_show, shown_at, closed>>
    BY <1>1 DEF CreateGoal
  <2>2. 0 \in 0..Done BY DEF Done
  <2>3. q \in GoalRow /\ q.last = Never /\ q.history = {} BY <1>0, <2>2 DEF GoalRow
  <2> HIDE DEF q
  <2>4. shown_at[g] = <<>> /\ g \notin closed BY <1>0, <2>1
  <2>5. GoalRowOK(q, shown_at[g], hour) BY <2>3, <2>4 DEF GoalRowOK
  <2> QED BY <2>1, <2>4, <2>5, GoalRowStep
<1>2. ASSUME NEW q \in GoalRow, r # Unmade, q.last = r.last, q.history = r.history,
             q.row \in {r.row, "cancelled"}, goals' = [goals EXCEPT ![g] = q],
             UNCHANGED <<hour, to_show, shown_at>>,
             closed' = closed \/ (closed' = closed \cup {g} /\ q.row = "cancelled")
      PROVE  GoalsInv'
  <2>1. GoalRowOK(q, shown_at[g], hour) BY <1>0, <1>2, SameReminders
  <2>2. g \in closed => q.row = "cancelled" BY <1>0, <1>2
  <2> QED BY <1>2, <2>1, <2>2, GoalRowStep
<1>3. ASSUME NEW p \in Priorities, update_priority(g, p) PROVE GoalsInv'
  <2> DEFINE q == [Mutated(r, r.row) EXCEPT !.priority = p]
  <2>1. r # Unmade /\ goals' = [goals EXCEPT ![g] = q] /\ UNCHANGED <<hour, to_show, shown_at, closed>>
    BY <1>0, <1>3 DEF update_priority
  <2>2. q \in GoalRow /\ q.last = r.last /\ q.history = r.history /\ q.row = r.row
    BY <1>0, <2>1 DEF Mutated, GoalRow
  <2> HIDE DEF q
  <2> QED BY <1>2, <2>1, <2>2
<1>4. ASSUME NEW n \in 0..Done, update_progress(g, n) PROVE GoalsInv'
  <2>1. r # Unmade /\ UNCHANGED <<hour, to_show, shown_at>> BY <1>4 DEF update_progress
  <2>2. CASE n = Done
    <3> DEFINE q == [Mutated(r, "cancelled") EXCEPT !.progress = Done, !.status = "completed"]
    <3>1. goals' = [goals EXCEPT ![g] = q] /\ closed' = closed \cup {g}
      BY <1>0, <1>4, <2>2 DEF update_progress
    <3>2. q \in GoalRow /\ q.last = r.last /\ q.history = r.history /\ q.row = "cancelled"
      BY <1>0, <2>1, <2>2 DEF Mutated, GoalRow
    <3> HIDE DEF q
    <3> QED BY <1>2, <2>1, <3>1, <3>2
  <2>3. CASE n # Done
    <3> DEFINE q == [Mutated(r, r.row) EXCEPT !.progress = n]
    <3>1. goals' = [goals EXCEPT ![g] = q] /\ closed' = closed
      BY <1>0, <1>4, <2>3 DEF update_progress
    <3>2. q \in GoalRow /\ q.last = r.last /\ q.history = r.history /\ q.row = r.row
      BY <1>0, <2>1 DEF Mutated, GoalRow
    <3> HIDE DEF q
    <3> QED BY <1>2, <2>1, <3>1, <3>2
  <2> QED BY <2>2, <2>3
<1>5. ASSUME NEW a \in {"completed", "abandoned"}, deactivate(g, a) PROVE GoalsInv'
  <2> DEFINE q == [Mutated(r, "cancelled") EXCEPT !.status = a]
  <2>1. /\ r # Unmade /\ goals' = [goals EXCEPT ![g] = q] /\ closed' = closed \cup {g}
        /\ UNCHANGED <<hour, to_show, shown_at>>
    BY <1>0, <1>5 DEF deactivate
  <2>2. q \in GoalRow /\ q.last = r.last /\ q.history = r.history /\ q.row = "cancelled"
    BY <1>0, <2>1 DEF Mutated, GoalRow
  <2> HIDE DEF q
  <2> QED BY <1>2, <2>1, <2>2
<1>6. ASSUME NEW l \in FeedbackLevels, record_feedback(g, l) PROVE GoalsInv'
  <2> DEFINE neg == AtLeast(0, r.negative + FeedbackWeight(l))
             q == [Mutated(r, r.row) EXCEPT !.negative = neg]
  <2>0. r # Unmade BY <1>6 DEF record_feedback
  <2>1. goals' = [goals EXCEPT ![g] = q] /\ UNCHANGED <<hour, to_show, shown_at, closed>>
    BY <1>0, <1>6 DEF record_feedback
  <2>2. neg \in Nat
    <3>1. r.negative \in Nat BY <1>0, <2>0 DEF GoalRow
    <3>2. FeedbackWeight(l) \in Int BY DEF FeedbackWeight, FeedbackLevels
    <3> HIDE DEF r
    <3> QED BY <3>1, <3>2 DEF AtLeast
  <2> HIDE DEF neg
  <2>3. q \in GoalRow /\ q.last = r.last /\ q.history = r.history /\ q.row = r.row
    BY <1>0, <2>0, <2>2 DEF Mutated, GoalRow
  <2> HIDE DEF q
  <2> QED BY <1>2, <2>0, <2>1, <2>3
<1> QED BY <1>1, <1>3, <1>4, <1>5, <1>6

\* A reminder that was ready is recorded.
LEMMA ReminderStep ==
    ASSUME GoalsInv, NEW g \in GoalIds, record_reminder_shown(g)
    PROVE  GoalsInv'
<1> DEFINE r == goals[g]
           s == shown_at[g]
           n == Len(s)
           v == Mutated(r, r.row)
           hist == {i \in r.history : s[i] >= hour - WeekLength} \cup {n + 1}
           q == [v EXCEPT !.last = hour, !.history = hist]
           t == Append(s, hour)
<1>1. /\ hour \in Nat /\ goals \in [GoalIds -> GoalRow \cup {Unmade}] /\ shown_at \in [GoalIds -> Seq(Nat)]
      /\ g \in to_show /\ r # Unmade /\ r \in GoalRow /\ s \in Seq(Nat)
      /\ HoursOK(s, hour) /\ GoalRowOK(r, s, hour) /\ ReadyOK(s, hour)
  BY DEF record_reminder_shown, GoalsInv
<1>2. /\ goals' = [goals EXCEPT ![g] = q] /\ shown_at' = [shown_at EXCEPT ![g] = t]
      /\ to_show' = to_show \ {g} /\ UNCHANGED <<hour, closed>>
  BY <1>1 DEF record_reminder_shown
<1>3. n \in Nat /\ (\A i \in 1..n : s[i] \in Nat) /\ r.history \subseteq 1..n
  BY <1>1 DEF GoalRowOK
<1>4. v.row = r.row /\ v \in GoalRow BY <1>1 DEF Mutated, GoalRow
<1>5. hist \subseteq 1..n + 1 /\ hist \subseteq Nat
      /\ \A i \in 1..n \ hist : i \notin r.history \/ ~(s[i] >= hour - WeekLength)
  BY <1>3, <1>4
<1> HIDE DEF v, hist
<1>6. q \in GoalRow /\ q.last = hour /\ q.history = hist /\ q.row = r.row
  BY <1>1, <1>4, <1>5 DEF GoalRow
<1>7. /\ t \in Seq(Nat) /\ Len(t) = n + 1 /\ t[n + 1] = hour /\ \A i \in 1..n : t[i] = s[i]
  BY <1>1
<1> HIDE DEF q, t
<1>8. /\ CooldownHours \in Nat /\ ReminderCap \in Nat /\ ReminderCap # 0 /\ DayLength \in Nat
      /\ WeekLength \in Nat
  BY GoalAssumption
<1>9. HoursOK(t, hour)
  <2>1. \A i \in 1..n : s[i] <= hour BY <1>1 DEF HoursOK
  <2>2. \A i \in 1..n + 1 : t[i] <= hour
    <3> SUFFICES ASSUME NEW i \in 1..n + 1 PROVE t[i] <= hour OBVIOUS
    <3>1. i \in 1..n \/ i = n + 1 BY <1>3
    <3>2. CASE i \in 1..n BY <1>7, <2>1, <3>2
    <3>3. CASE i = n + 1 BY <1>1, <1>7, <3>3
    <3> QED BY <3>1, <3>2, <3>3
  <2>3. ASSUME NEW i \in 1..n + 1, NEW j \in 1..n + 1, i < j PROVE t[j] - t[i] >= CooldownHours
    <3>0. i \in 1..n /\ t[i] = s[i] /\ s[i] \in Nat BY <1>3, <1>7, <2>3
    <3>1. CASE j \in 1..n BY <1>1, <1>7, <2>3, <3>0, <3>1 DEF HoursOK
    <3>2. CASE j = n + 1
      <4>1. n \in 1..n /\ n > 0 /\ s[n] \in Nat /\ t[j] = hour BY <1>3, <1>7, <3>0, <3>2
      <4>2. hour - s[n] >= CooldownHours BY <1>1, <4>1 DEF ReadyOK
      <4>3. i < n => s[n] - s[i] >= CooldownHours BY <1>1, <3>0, <4>1 DEF HoursOK
      <4>4. i < n \/ i = n BY <1>3, <3>0
      <4>5. hour \in Nat /\ CooldownHours \in Nat BY <1>1, <1>8
      <4> HIDE DEF s, n
      <4>6. hour - s[i] >= CooldownHours
        <5>1. CASE i = n BY <4>2, <5>1
        <5>2. CASE i < n BY <3>0, <4>1, <4>2, <4>3, <4>5, <5>2
        <5> QED BY <4>4, <5>1, <5>2
      <4> QED BY <3>0, <4>1, <4>6
    <3> QED BY <1>3, <2>3, <3>1, <3>2
  <2>4. ASSUME NEW i \in 1..n + 1 - ReminderCap PROVE t[i + ReminderCap] - t[i] > DayLength
    <3>0. i \in 1..n /\ t[i] = s[i] /\ s[i] \in Nat
      <4> HIDE DEF n, s
      <4>1. i \in 1..n BY <1>3, <1>8, <2>4
      <4> QED BY <1>3, <1>7, <4>1
    <3>1. CASE i \in 1..n - ReminderCap
      <4>1. i + ReminderCap \in 1..n BY <1>3, <1>8, <3>1
      <4> QED BY <1>1, <1>7, <3>0, <3>1, <4>1 DEF HoursOK
    <3>2. CASE i = n + 1 - ReminderCap
      <4>1. /\ n >= ReminderCap /\ n - ReminderCap + 1 = i /\ i + ReminderCap = n + 1
        BY <1>3, <1>8, <2>4, <3>2
      <4>2. hour - s[n - ReminderCap + 1] > DayLength BY <1>1, <4>1 DEF ReadyOK
      <4> QED BY <1>7, <3>0, <4>1, <4>2
    <3> QED BY <1>3, <1>8, <2>4, <3>1, <3>2
  <2> HIDE DEF n
  <2>5. \A i, j \in 1..n + 1 : i < j => t[j] - t[i] >= CooldownHours BY <2>3
  <2>6. \A i \in 1..n + 1 - ReminderCap : t[i + ReminderCap] - t[i] > DayLength BY <2>4
  <2>7. Len(t) = n + 1 /\ t \in Seq(Nat) BY <1>7
  <2>8. \A i \in 1..Len(t) : t[i] <= hour BY <2>2, <2>7
  <2>9. \A i, j \in 1..Len(t) : i < j => t[j] - t[i] >= CooldownHours BY <2>5, <2>7
  <2>10. \A i \in 1..Len(t) - ReminderCap : t[i + ReminderCap] - t[i] > DayLength
    <3>1. n \in Nat BY <1>3
    <3>2. Len(t) - ReminderCap = (n + 1) - ReminderCap BY <1>8, <2>7, <3>1
    <3> QED BY <1>8, <2>6, <3>1, <3>2
  <2> QED BY <2>7, <2>8, <2>9, <2>10 DEF HoursOK
<1>10. GoalRowOK(q, t, hour)
  <2>1. q.last = IF Len(t) = 0 THEN Never ELSE t[Len(t)] BY <1>3, <1>6, <1>7
  <2>2. q.history \subseteq 1..Len(t) BY <1>5, <1>6, <1>7
  <2>3. ASSUME NEW i \in 1..Len(t) \ q.history PROVE t[i] < hour - WeekLength
    <3>1. i \in 1..n /\ i \notin hist
      <4>1. n + 1 \in hist BY DEF hist
      <4>2. i \in 1..n + 1 /\ i \notin hist BY <1>6, <1>7, <2>3
      <4> QED BY <1>3, <4>1, <4>2
    <3>2. t[i] = s[i] /\ s[i] \in Nat BY <1>3, <1>7, <3>1
    <3>3. i \notin r.history \/ ~(s[i] >= hour - WeekLength) BY <1>5, <3>1
    <3>4. i \notin r.history => s[i] < hour - WeekLength BY <1>1, <3>1 DEF GoalRowOK
    <3> QED BY <1>1, <1>8, <3>2, <3>3, <3>4
  <2> QED BY <1>6, <2>1, <2>2, <2>3 DEF GoalRowOK
<1>11. q # Unmade BY <1>6, RowIsMade
<1> HIDE DEF n, s, r
<1>12. /\ goals' \in [GoalIds -> GoalRow \cup {Unmade}] /\ goals'[g] = q
       /\ \A f \in GoalIds \ {g} : goals'[f] = goals[f]
       /\ shown_at' \in [GoalIds -> Seq(Nat)] /\ shown_at'[g] = t
       /\ \A f \in GoalIds \ {g} : shown_at'[f] = shown_at[f]
  BY <1>1, <1>2, <1>6, <1>7
<1>13. \A f \in GoalIds :
         /\ HoursOK(shown_at'[f], hour')
         /\ goals'[f] = Unmade => shown_at'[f] = <<>>
         /\ goals'[f] # Unmade => GoalRowOK(goals'[f], shown_at'[f], hour')
  <2> TAKE f \in GoalIds
  <2>1. CASE f = g BY <1>2, <1>9, <1>10, <1>11, <1>12, <2>1
  <2>2. CASE f # g BY <1>2, <1>12, <2>2 DEF GoalsInv
  <2> QED BY <2>1, <2>2
<1>14. \A f \in to_show' : goals'[f] # Unmade /\ ReadyOK(shown_at'[f], hour')
  BY <1>2, <1>12 DEF GoalsInv
<1>15. \A f \in closed' : goals'[f] # Unmade /\ goals'[f].row = "cancelled"
  BY <1>2, <1>6, <1>11, <1>12 DEF GoalsInv, r
<1> QED BY <1>1, <1>2, <1>12, <1>13, <1>14, <1>15 DEF GoalsInv

LEMMA HourStep == ASSUME GoalsInv, HourPasses PROVE GoalsInv'
<1>1. /\ hour \in Nat /\ hour' = hour + 1 /\ UNCHANGED <<goals, to_show, shown_at, closed>>
  BY DEF HourPasses, GoalsInv
<1>2. WeekLength \in Nat /\ CooldownHours \in Nat /\ DayLength \in Nat /\ ReminderCap \in Nat /\ ReminderCap # 0
  BY GoalAssumption
<1>3. ASSUME NEW s, HoursOK(s, hour) PROVE HoursOK(s, hour')
  <2>1. \A i \in 1..Len(s) : s[i] \in Nat /\ s[i] <= hour BY <1>3 DEF HoursOK
  <2>2. \A i \in 1..Len(s) : s[i] <= hour' BY <1>1, <2>1
  <2> QED BY <1>3, <2>2 DEF HoursOK
<1>4. ASSUME NEW r, NEW s \in Seq(Nat), GoalRowOK(r, s, hour) PROVE GoalRowOK(r, s, hour')
  <2>1. \A i \in 1..Len(s) \ r.history : s[i] \in Nat /\ s[i] < hour - WeekLength BY <1>4 DEF GoalRowOK
  <2>2. \A i \in 1..Len(s) \ r.history : s[i] < hour' - WeekLength BY <1>1, <1>2, <2>1
  <2> QED BY <1>4, <2>2 DEF GoalRowOK
<1>5. ASSUME NEW s \in Seq(Nat), ReadyOK(s, hour) PROVE ReadyOK(s, hour')
  <2>1. Len(s) \in Nat OBVIOUS
  <2>2. Len(s) > 0 => s[Len(s)] \in Nat /\ hour - s[Len(s)] >= CooldownHours BY <1>5, <2>1 DEF ReadyOK
  <2>3. Len(s) > 0 => hour' - s[Len(s)] >= CooldownHours BY <1>1, <1>2, <2>2
  <2>4. Len(s) >= ReminderCap => /\ s[Len(s) - ReminderCap + 1] \in Nat
                                 /\ hour - s[Len(s) - ReminderCap + 1] > DayLength
    <3>1. Len(s) >= ReminderCap => Len(s) - ReminderCap + 1 \in 1..Len(s) BY <1>2, <2>1
    <3> QED BY <1>5, <3>1 DEF ReadyOK
  <2>5. Len(s) >= ReminderCap => hour' - s[Len(s) - ReminderCap + 1] > DayLength BY <1>1, <1>2, <2>4
  <2> QED BY <2>3, <2>5 DEF ReadyOK
<1>6. \A g \in GoalIds :
         /\ HoursOK(shown_at'[g], hour')
         /\ goals'[g] = Unmade => shown_at'[g] = <<>>
         /\ goals'[g] # Unmade => GoalRowOK(goals'[g], shown_at'[g], hour')
  BY <1>1, <1>3, <1>4 DEF GoalsInv
<1>7. \A g \in to_show' : goals'[g] # Unmade /\ ReadyOK(shown_at'[g], hour') BY <1>1, <1>5 DEF GoalsInv
<1> QED BY <1>1, <1>6, <1>7 DEF GoalsInv

LEMMA GoalsStep == ASSUME GoalsInv, [GoalsNext]_goalVars PROVE GoalsInv'
<1>1. ASSUME NEW g \in GoalIds,
             \/ \E p \in Priorities : \/ \E d \in Deadlines \cup {Never} : CreateGoal(g, p, d)
                                      \/ update_priority(g, p)
             \/ \E n \in 0..Done : update_progress(g, n)
             \/ \E a \in {"completed", "abandoned"} : deactivate(g, a)
             \/ \E l \in FeedbackLevels : record_feedback(g, l)
             \/ record_reminder_shown(g)
      PROVE  GoalsInv'
  BY <1>1, UserCallStep, ReminderStep
<1>2. ASSUME NEW busy \in BOOLEAN, DecideReminders(busy) PROVE GoalsInv'
  <2>1. to_show' \subseteq GoalCandidates /\ UNCHANGED <<goals, hour, shown_at, closed>>
    BY <1>2 DEF DecideReminders
  <2>2. \A g \in to_show' : g \in GoalIds /\ goals[g] # Unmade /\ ReadyOK(shown_at[g], hour)
    BY <2>1, CandidateIsReady
  <2> QED BY <2>1, <2>2 DEF GoalsInv
<1>3. CASE HourPasses BY <1>3, HourStep
<1>4. CASE GoalsRestart \/ UNCHANGED goalVars
  <2>1. to_show' \subseteq to_show /\ UNCHANGED <<goals, hour, shown_at, closed>>
    BY <1>4 DEF GoalsRestart, goalVars
  <2> QED BY <2>1 DEF GoalsInv
<1> QED BY <1>1, <1>2, <1>3, <1>4 DEF GoalsNext

LEMMA GoalsStart == ASSUME GoalsInit PROVE GoalsInv
<1>1. /\ goals = [g \in GoalIds |-> Unmade] /\ shown_at = [g \in GoalIds |-> <<>>]
      /\ hour = 0 /\ to_show = {} /\ closed = {}
  BY DEF GoalsInit
<1>2. HoursOK(<<>>, hour)
  <2>1. <<>> \in Seq(Nat) /\ Len(<<>>) = 0 OBVIOUS
  <2>2. 1..Len(<<>>) = {} /\ 1..Len(<<>>) - ReminderCap = {} BY <2>1, GoalAssumption
  <2> QED BY <2>1, <2>2 DEF HoursOK
<1>3. \A g \in GoalIds : goals[g] = Unmade /\ shown_at[g] = <<>> BY <1>1
<1>4. goals \in [GoalIds -> GoalRow \cup {Unmade}] /\ shown_at \in [GoalIds -> Seq(Nat)] BY <1>1
<1> QED BY <1>1, <1>2, <1>3, <1>4 DEF GoalsInv

LEMMA GoalsInvIsEnough == ASSUME GoalsInv PROVE RemindersAreSpaced /\ ClosedGoalsRest
<1>1. RemindersAreSpaced
  <2> SUFFICES ASSUME NEW g \in GoalIds
               PROVE  /\ \A i \in 1..Len(shown_at[g]) - 1 :
                            shown_at[g][i + 1] - shown_at[g][i] >= CooldownHours
                      /\ \A i \in 1..Len(shown_at[g]) - ReminderCap :
                            shown_at[g][i + ReminderCap] - shown_at[g][i] > DayLength
    BY DEF RemindersAreSpaced
  <2>1. HoursOK(shown_at[g], hour) BY DEF GoalsInv
  <2>2. Len(shown_at[g]) \in Nat BY <2>1 DEF HoursOK
  <2>3. \A i \in 1..Len(shown_at[g]) - 1 :
           i \in 1..Len(shown_at[g]) /\ i + 1 \in 1..Len(shown_at[g]) /\ i < i + 1
    BY <2>2
  <2> QED BY <2>1, <2>3 DEF HoursOK
<1>2. ClosedGoalsRest BY DEF GoalsInv, ClosedGoalsRest, list_active
<1> QED BY <1>1, <1>2

\* The clock and the daily count are in their ranges.
GuardOK == hour \in 0..LastHour /\ guard.date \in {NoDate} \cup 0..LastHour /\ guard.count \in Nat

LEMMA GuardStep == GuardOK /\ [GoalsNext]_goalVars => GuardOK'
<1> SUFFICES ASSUME GuardOK, [GoalsNext]_goalVars PROVE GuardOK' OBVIOUS
<1>0. /\ hour \in Nat /\ hour <= LastHour /\ LastHour \in Nat /\ DayLength \in Nat \ {0}
      /\ guard.date \in {NoDate} \cup 0..LastHour /\ guard.count \in Nat
  BY GoalAssumption DEF GuardOK
<1>1. hour \div DayLength \in 0..LastHour
  <2>1. hour \div DayLength \in Nat /\ hour \div DayLength <= hour BY <1>0
  <2> QED BY <1>0, <2>1
<1>2. TodaysGuard.date \in {NoDate} \cup 0..LastHour /\ TodaysGuard.count \in Nat
  BY <1>0, <1>1 DEF TodaysGuard
<1>3. ASSUME NEW g, record_reminder_shown(g) PROVE GuardOK'
  <2>1. guard' = [TodaysGuard EXCEPT !.count = TodaysGuard.count + 1] /\ hour' = hour
    BY <1>3 DEF record_reminder_shown
  <2> QED BY <1>0, <1>2, <2>1 DEF GuardOK
<1>4. ASSUME NEW busy, DecideReminders(busy) PROVE GuardOK' BY <1>0, <1>2, <1>4 DEF DecideReminders, GuardOK
<1>5. CASE HourPasses BY <1>0, <1>5 DEF HourPasses, GuardOK
<1>6. CASE GoalsRestart BY <1>0, <1>6 DEF GoalsRestart, GuardOK
<1>7. CASE UNCHANGED <<hour, guard>> BY <1>7 DEF GuardOK
<1> QED BY <1>3, <1>4, <1>5, <1>6, <1>7 DEF GoalsNext, goalVars, CreateGoal, update_priority,
           update_progress, deactivate, record_feedback

LEMMA GuardStarts == GoalsInit => GuardOK
BY GoalAssumption DEF GoalsInit, GuardOK

LEMMA GoalTypes == ASSUME GoalsInv, GuardOK PROVE GoalsTypeOK
<1>1. ASSUME NEW g \in GoalIds, goals[g] # Unmade
      PROVE  goals[g] \in GoalRow /\ goals[g].last \in {Never} \cup 0..LastHour
  <2> DEFINE s == shown_at[g]
  <2>1. goals[g] \in GoalRow /\ goals[g].last = (IF Len(s) = 0 THEN Never ELSE s[Len(s)])
    BY <1>1 DEF GoalsInv, GoalRowOK
  <2>2. s \in Seq(Nat) /\ \A i \in 1..Len(s) : s[i] <= hour BY DEF GoalsInv, HoursOK
  <2>3. Len(s) # 0 => s[Len(s)] \in Nat /\ s[Len(s)] <= hour BY <2>2
  <2>4. hour \in 0..LastHour /\ LastHour \in Nat BY GoalAssumption DEF GuardOK
  <2> QED BY <2>1, <2>3, <2>4
<1> QED BY <1>1 DEF GoalsTypeOK, GoalRow, GuardOK, GoalsInv

\* The program's own initiative bothers nobody, for any goals, threads and configured hours:
\* idle rounds give way to the user and lose no plan, a goal's reminders keep their distance and
\* their daily number, and a closed goal is not raised again (IdleThinkCoordinator.on_idle,
\* GoalEvaluator.evaluate, GoalRepository.record_reminder).
THEOREM InitiativeIsAlwaysPolite == IdleSpec /\ GoalsSpec => [](IdleTypeOK /\ InitiativeIsPolite)
<1>1. IdleInit => IdleInv BY IdleStarts
<1>2. IdleInv /\ [IdleNext]_idleVars => IdleInv' BY IdleStep
<1>3. GoalsInit => GoalsInv BY GoalsStart
<1>4. GoalsInv /\ [GoalsNext]_goalVars => GoalsInv' BY GoalsStep
<1>5. IdleInv /\ GoalsInv => IdleTypeOK /\ InitiativeIsPolite
  BY IdleInvIsEnough, GoalsInvIsEnough DEF InitiativeIsPolite
<1> QED BY <1>1, <1>2, <1>3, <1>4, <1>5, PTL DEF IdleSpec, GoalsSpec

(***************************************************************************)
(* The services together                                                   *)
(***************************************************************************)

\* The component that runs does what it does alone, and the others rest.
LEMMA EachServiceRuns ==
    ServicesSpec => /\ ChatSpec /\ ReplySpec /\ DecompositionSpec /\ CardSpec /\ SamplesSpec /\ StateSpec
                    /\ EventSpec /\ DownloadSpec /\ SubagentSpec /\ PluginSpec /\ ToolsSpec /\ SchemaSpec
                    /\ PersonasSpec /\ SettingsSpec /\ MemorySpec /\ NotesSpec /\ HostSpec /\ BackendSpec
                    /\ IdleSpec /\ SkillsSpec /\ ManualSpec /\ KnowledgeSpec /\ UiSpec /\ AlgorithmSpec
                    /\ CronSpec /\ SnapshotSpec /\ GoalsSpec /\ AnnotationSpec
<1>1. ServicesInit => /\ DesktopInit /\ ReplyInit /\ DecompositionInit /\ CardInit /\ SamplesInit /\ StateInit
                    /\ EventInit /\ DownloadInit /\ SubagentInit /\ PluginInit /\ ToolsInit /\ SchemaInit
                    /\ PersonasInit /\ SettingsInit /\ MemoryInit /\ NotesInit /\ HostInit /\ BackendInit
                    /\ IdleInit /\ SkillsInit /\ ManualInit /\ KnowledgeInit /\ UiInit /\ AlgorithmInit
                    /\ CronInit /\ SnapshotInit /\ GoalsInit /\ AnnotationInit
  BY DEF ServicesInit
<1>2. [ServicesNext]_serviceVars =>
        /\ [ChatNext]_<<bindingVars, chatVars>> /\ [ReplyNext]_replyVars
        /\ [DecompositionNext]_decompositionVars /\ [CardNext]_cardVars
        /\ [SamplesNext]_sampleVars /\ [StateNext]_stateVars /\ [EventNext]_eventVars
        /\ [DownloadNext]_downloadVars /\ [SubagentNext]_agentVars /\ [PluginNext]_pluginVars
        /\ [ToolsNext]_toolVars /\ [SchemaNext]_schemaVars /\ [PersonasNext]_personaVars
        /\ [SettingsNext]_settingsVars /\ [MemoryNext]_memoryVars /\ [NotesNext]_noteVars
        /\ [HostNext]_hostVars /\ [BackendNext]_backendVars /\ [IdleNext]_idleVars
        /\ [SkillsNext]_skillVars /\ [ManualNext]_manualVars /\ [KnowledgeNext]_knowledgeVars
        /\ [UiNext]_uiVars /\ [AlgorithmNext]_algorithmVars /\ [CronNext]_cronVars
        /\ [SnapshotNext]_snapshotVars /\ [GoalsNext]_goalVars
        /\ [AnnotationNext]_annotationVars
  BY DEF ServicesNext, serviceVars
<1> QED BY <1>1, <1>2, PTL
        DEF ServicesSpec, ChatSpec, ReplySpec, DecompositionSpec, CardSpec, SamplesSpec, StateSpec,
            EventSpec, DownloadSpec, SubagentSpec, PluginSpec, ToolsSpec, SchemaSpec,
            PersonasSpec, SettingsSpec, MemorySpec, NotesSpec, HostSpec, BackendSpec,
            IdleSpec, SkillsSpec, ManualSpec, KnowledgeSpec, UiSpec, AlgorithmSpec,
            CronSpec, SnapshotSpec, GoalsSpec, AnnotationSpec

\* Every service keeps its types, for any values of the constants.
THEOREM ServicesTypeCorrect == ServicesSpec => []ServicesTypeOK
<1>1. ServicesSpec => [](ChatTypeOK /\ SnapshotTypeOK)
  <2>1. ChatInv => ChatTypeOK BY DEF ChatInv
  <2>2. SnapshotInv => SnapshotTypeOK BY DEF SnapshotInv
  <2> QED BY <2>1, <2>2, ChatStarts, ChatStep, SnapshotStarts, SnapshotStep, EachServiceRuns, PTL
          DEF ChatSpec, SnapshotSpec
<1>2. ServicesSpec => [](ReplyTypeOK /\ DecompositionTypeOK /\ CardTypeOK)
  <2>1. CardTypes => CardTypeOK BY DEF CardTypes
  <2> QED BY <2>1, RepliesAreScanned, CardsStayFaithful, CardTypesStart, CardTypesStep, EachServiceRuns, PTL
          DEF CardSpec
<1>3. ServicesSpec => [](StateTypeOK /\ EventTypeOK)
  <2>1. StateInv => StateTypeOK
    <3> SUFFICES ASSUME StateInv PROVE StateTypeOK OBVIOUS
    <3>1. \A t \in StateThreads : call[t].pc # "idle" => call[t].op \in Ops
      BY DEF StateInv, CallsTypeOK, Called, NoCommit
    <3> QED BY <3>1 DEF StateInv, CallsTypeOK, MaybeRecord, StateTypeOK
  <2>2. LogInv => EventTypeOK BY DEF LogInv
  <2> QED BY <2>1, <2>2, StateInvariant, LogInvariant, EachServiceRuns, PTL
<1>4. ServicesSpec => [](SamplesTypeOK /\ DownloadTypeOK /\ SettingsTypeOK /\ BackendTypeOK)
  BY VerdictsAreRespected, DownloadTypeCorrect, SettingsTypeCorrect, BackendTypeCorrect, EachServiceRuns, PTL
<1>5. ServicesSpec => [](PluginTypeOK /\ ToolsTypeOK)
  <2>1. PluginInv => PluginTypeOK BY DEF PluginInv
  <2>2. ToolsInv => ToolsTypeOK BY DEF ToolsInv
  <2> QED BY <2>1, <2>2, PluginStarts, PluginStep, ToolsInvariant, EachServiceRuns, PTL DEF PluginSpec
<1>6. ServicesSpec => [](SubagentTypeOK /\ UiTypeOK /\ MemoryTypeOK /\ NotesTypeOK)
  BY InterruptsAlwaysStop, MemoryAlwaysKept, EachServiceRuns, PTL
<1>7. ServicesSpec => [](SchemaTypeOK /\ PersonasTypeOK /\ HostTypeOK /\ KnowledgeTypeOK)
  BY SchemaTypeCorrect, PersonasTypeCorrect, HostTypeCorrect, KnowledgeTypeCorrect, EachServiceRuns, PTL
<1>8. ServicesSpec => [](IdleTypeOK /\ GoalsTypeOK)
  <2>1. GoalsInv /\ GuardOK => GoalsTypeOK BY GoalTypes
  <2>2. GoalsInit => GoalsInv BY GoalsStart
  <2>3. GoalsInv /\ [GoalsNext]_goalVars => GoalsInv' BY GoalsStep
  <2> QED BY <2>1, <2>2, <2>3, GuardStarts, GuardStep, InitiativeIsAlwaysPolite, EachServiceRuns, PTL
          DEF GoalsSpec
<1>9. ServicesSpec => [](SkillsTypeOK /\ ManualTypeOK /\ AnnotationTypeOK)
  BY SkillsAlwaysRecover, CardsAlwaysShow, MapsAreUsable, EachServiceRuns, PTL
<1>10. ServicesSpec => [](AlgorithmTypeOK /\ CronTypeOK)
  <2>1. AlgorithmInit => AlgorithmTypeOK BY DEF AlgorithmInit, AlgorithmTypeOK, NoAnswer
  <2>2. AlgorithmTypeOK /\ [AlgorithmNext]_algorithmVars => AlgorithmTypeOK' BY AlgorithmTypes
  <2> QED BY <2>1, <2>2, CronTypes, EachServiceRuns, PTL DEF AlgorithmSpec
<1>11. /\ ChatTypeOK /\ SnapshotTypeOK /\ ReplyTypeOK /\ DecompositionTypeOK /\ CardTypeOK
       /\ StateTypeOK /\ EventTypeOK /\ SamplesTypeOK /\ DownloadTypeOK /\ SettingsTypeOK
       /\ BackendTypeOK /\ PluginTypeOK /\ ToolsTypeOK /\ SubagentTypeOK /\ UiTypeOK
       /\ MemoryTypeOK /\ NotesTypeOK /\ SchemaTypeOK /\ PersonasTypeOK /\ HostTypeOK
       /\ KnowledgeTypeOK /\ IdleTypeOK /\ GoalsTypeOK /\ SkillsTypeOK /\ ManualTypeOK
       /\ AnnotationTypeOK /\ AlgorithmTypeOK /\ CronTypeOK
       => ServicesTypeOK
  BY DEF ServicesTypeOK
<1> QED BY <1>1, <1>2, <1>3, <1>4, <1>5, <1>6, <1>7, <1>8, <1>9, <1>10, <1>11, PTL

\* What the program works out by algorithm is what a definition of the result says, whatever
\* the other services do meanwhile: the local tools (core/algorithm_tools.py), the next run of
\* a cron expression (core/job_scheduler.py) and the positions of an annotated page
\* (core/ui_annotation.py).
THEOREM AlgorithmsStayRight == ServicesSpec => []AlgorithmsAreRight
<1>1. ToolsComputeRight /\ NextRunIsNamed /\ MapIsUsable => AlgorithmsAreRight BY DEF AlgorithmsAreRight
<1> QED BY <1>1, ToolsAlwaysRight, NextRunAlwaysNamed, MapsAreUsable, EachServiceRuns, PTL
=============================================================================
