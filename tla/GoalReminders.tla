---------------------------- MODULE GoalReminders ----------------------------
(***************************************************************************)
(* Long-term goals: GoalRepository's rows, GoalEvaluator's candidates, the *)
(* attention guard's daily counter and GoalManager, which decides and then *)
(* records what was shown.  The user closes, rates and re-prioritises a    *)
(* goal between the decision and the record.  Scores are in hundredths,    *)
(* negative feedback in tenths; the hours of the configuration are scaled. *)
(***************************************************************************)
EXTENDS Integers, Sequences, FiniteSets

CONSTANTS
    GoalIds,
    CooldownHours,        \* GoalEvaluatorConfig.reminder_cooldown_hours
    ReminderCap,          \* daily_reminder_cap
    DayLength, WeekLength,
    UrgentHours, WarnHours, StaleHours,
    GlobalCap,            \* AttentionGuardConfig.daily_global_cap
    Deadlines,            \* the deadlines a goal is created with
    LastHour, MaxGoalCalls   \* bounds on the time and on the user's calls

\* A day's decay of three tenths is a whole number of tenths per hour.
ASSUME GoalAssumption ==
    /\ DayLength \in Nat \ {0} /\ 3 % DayLength = 0
    /\ WeekLength \in Nat /\ WeekLength > DayLength
    /\ CooldownHours \in Nat /\ ReminderCap \in Nat \ {0}
    /\ Deadlines \subseteq Nat /\ LastHour \in Nat

VARIABLES
    goals,      \* per goal: its memory row and the metadata in it, or Unmade; the history
                \* of reminders is kept as positions in shown_at
    hour,
    to_show,    \* candidates_to_show of the decision under way
    guard,      \* AttentionGuard: _day_start's date and _daily_reminder_count
    shown_at,   \* per goal: the hours of all its reminders
    closed,     \* goals the user has completed or abandoned
    goal_calls

goalVars == <<goals, hour, to_show, guard, shown_at, closed, goal_calls>>

Unmade == [made |-> FALSE]
Never == -1
NoDate == -1

Priorities == {"normal", "high", "urgent"}
Done == 2     \* progress 1.0; it is stored in halves

GoalsInit ==
    /\ goals = [g \in GoalIds |-> Unmade]
    /\ hour = 0
    /\ to_show = {}
    /\ guard = [date |-> NoDate, count |-> 0]
    /\ shown_at = [g \in GoalIds |-> <<>>]
    /\ closed = {}
    /\ goal_calls = 0

-----------------------------------------------------------------------------
Calls == goal_calls < MaxGoalCalls /\ goal_calls' = goal_calls + 1

\* create refuses "urgent": only update_priority sets it.
CreateGoal(g, priority, deadline) ==
    /\ goals[g] = Unmade /\ priority # "urgent"
    /\ Calls
    /\ goals' = [goals EXCEPT ![g] =
                   [made |-> TRUE, row |-> "active", status |-> "active", priority |-> priority,
                    progress |-> 0, deadline |-> deadline, updated_at |-> hour, negative |-> 0,
                    last |-> Never, history |-> {}]]
    /\ UNCHANGED <<hour, to_show, guard, shown_at, closed>>

\* _mutate: the metadata and modified_at, and the row's status when one is given.
Mutated(goal, row) == [goal EXCEPT !.updated_at = hour, !.row = row]

\* Full progress completes the goal; less never reopens it.
update_progress(g, progress) ==
    /\ goals[g] # Unmade
    /\ Calls
    /\ goals' = [goals EXCEPT ![g] =
                   IF progress = Done
                   THEN [Mutated(@, "cancelled") EXCEPT !.progress = Done, !.status = "completed"]
                   ELSE [Mutated(@, @.row) EXCEPT !.progress = progress]]
    /\ closed' = IF progress = Done THEN closed \cup {g} ELSE closed
    /\ UNCHANGED <<hour, to_show, guard, shown_at>>

update_priority(g, priority) ==
    /\ goals[g] # Unmade
    /\ Calls
    /\ goals' = [goals EXCEPT ![g] = [Mutated(@, @.row) EXCEPT !.priority = priority]]
    /\ UNCHANGED <<hour, to_show, guard, shown_at, closed>>

deactivate(g, reason) ==
    /\ goals[g] # Unmade
    /\ Calls
    /\ goals' = [goals EXCEPT ![g] = [Mutated(@, "cancelled") EXCEPT !.status = reason]]
    /\ closed' = closed \cup {g}
    /\ UNCHANGED <<hour, to_show, guard, shown_at>>

\* analyze_feedback on the user's reply: a level, or none and nothing is written.
FeedbackLevels == {"strong_negative", "weak_negative", "positive"}
FeedbackWeight(level) == CASE level = "strong_negative" -> 10
                           [] level = "weak_negative" -> 3
                           [] level = "positive" -> -2

AtLeast(low, n) == IF n < low THEN low ELSE n

record_feedback(g, level) ==
    /\ goals[g] # Unmade
    /\ Calls
    /\ goals' = [goals EXCEPT ![g] =
                   [Mutated(@, @.row) EXCEPT
                      !.negative = AtLeast(0, goals[g].negative + FeedbackWeight(level))]]
    /\ UNCHANGED <<hour, to_show, guard, shown_at, closed>>

-----------------------------------------------------------------------------
\* list_active: the row's status in SQL, the goal's own status afterwards.
list_active == {g \in GoalIds : /\ goals[g] # Unmade
                                /\ goals[g].row = "active" /\ goals[g].status = "active"}

NegativeThreshold == 20
is_suppressed(goal) == goal.negative >= NegativeThreshold

InCooldown(goal) == goal.last # Never /\ hour - goal.last < CooldownHours

\* Reminders of the last day, today's hour and the one a day ago included.
RemindersToday(g) ==
    {i \in goals[g].history : hour - DayLength <= shown_at[g][i] /\ shown_at[g][i] <= hour}

ExceedsDailyCap(g) == Cardinality(RemindersToday(g)) >= ReminderCap

\* _evaluate_single's terms: the priority, the deadline, stale progress, the negative
\* feedback as far as it has not decayed since the last reminder, and the last reminder.
PriorityWeight == [normal |-> 30, high |-> 60, urgent |-> 90]

DeadlineTerm(goal) ==
    LET left == goal.deadline - hour
    IN  CASE goal.deadline = Never -> 0
          [] goal.deadline # Never /\ left <= 0 -> 40
          [] goal.deadline # Never /\ left > 0 /\ left <= UrgentHours -> 30
          [] goal.deadline # Never /\ left > UrgentHours /\ left <= WarnHours -> 15
          [] OTHER -> 0

StaleTerm(goal) == IF hour - goal.updated_at >= StaleHours /\ goal.progress < Done THEN 15 ELSE 0

\* Never reminded counts as infinitely long ago.
NegativeTerm(goal) ==
    IF goal.last = Never THEN 0
    ELSE 2 * AtLeast(0, goal.negative - (hour - goal.last) * (3 \div DayLength))

LastTerm(goal) == CASE goal.last = Never -> 15
                    [] goal.last # Never /\ hour - goal.last >= DayLength -> 10
                    [] OTHER -> 0

Urgency(goal) ==
    LET score == PriorityWeight[goal.priority] + DeadlineTerm(goal) + StaleTerm(goal)
                   - NegativeTerm(goal) + LastTerm(goal)
    IN  AtLeast(0, IF score > 100 THEN 100 ELSE score)

GoalCandidates ==
    {g \in list_active : /\ ~is_suppressed(goals[g])
                         /\ ~InCooldown(goals[g]) /\ ~ExceedsDailyCap(g)
                         /\ Urgency(goals[g]) >= 20}

\* _maybe_reset_daily_count: another date starts another count.
TodaysGuard ==
    LET date == hour \div DayLength
    IN  IF guard.date = date THEN guard ELSE [date |-> date, count |-> 0]

\* AttentionGuard.filter's ALLOW: busy stands for focus mode, the night and the global cooldown.
IsShown(goal, busy) ==
    /\ Urgency(goal) >= 30
    /\ goal.priority = "urgent" \/ ~(busy \/ TodaysGuard.count >= GlobalCap)

\* evaluate_reminders: one decision at a time, what is allowed is to be shown.
DecideReminders(busy) ==
    /\ to_show = {}
    /\ to_show' = {g \in GoalCandidates : IsShown(goals[g], busy)}
    /\ guard' = TodaysGuard
    /\ UNCHANGED <<goals, hour, shown_at, closed, goal_calls>>

\* record_reminder_shown: the history of a week and the guard's count.
record_reminder_shown(g) ==
    /\ g \in to_show
    /\ to_show' = to_show \ {g}
    /\ goals' = [goals EXCEPT ![g] =
                   [Mutated(@, @.row) EXCEPT
                      !.last = hour,
                      !.history = {i \in goals[g].history : shown_at[g][i] >= hour - WeekLength}
                                    \cup {Len(shown_at[g]) + 1}]]
    /\ guard' = [TodaysGuard EXCEPT !.count = @ + 1]
    /\ shown_at' = [shown_at EXCEPT ![g] = Append(@, hour)]
    /\ UNCHANGED <<hour, closed, goal_calls>>

HourPasses ==
    /\ hour < LastHour
    /\ hour' = hour + 1
    /\ UNCHANGED <<goals, to_show, guard, shown_at, closed, goal_calls>>

\* The process ends between a decision and its record: the rows stay.
GoalsRestart ==
    /\ guard.date # NoDate
    /\ to_show' = {}
    /\ guard' = [date |-> NoDate, count |-> 0]
    /\ UNCHANGED <<goals, hour, shown_at, closed, goal_calls>>

GoalsNext ==
    \/ \E g \in GoalIds :
         \/ \E p \in Priorities : \/ \E d \in Deadlines \cup {Never} : CreateGoal(g, p, d)
                                  \/ update_priority(g, p)
         \/ \E n \in 0..Done : update_progress(g, n)
         \/ \E r \in {"completed", "abandoned"} : deactivate(g, r)
         \/ \E l \in FeedbackLevels : record_feedback(g, l)
         \/ record_reminder_shown(g)
    \/ \E busy \in BOOLEAN : DecideReminders(busy)
    \/ HourPasses \/ GoalsRestart

GoalsSpec == GoalsInit /\ [][GoalsNext]_goalVars

-----------------------------------------------------------------------------
GoalsTypeOK ==
    /\ hour \in 0..LastHour /\ to_show \subseteq GoalIds /\ closed \subseteq GoalIds
    /\ guard.date \in {NoDate} \cup 0..LastHour /\ guard.count \in Nat
    /\ \A g \in GoalIds :
         goals[g] # Unmade =>
           /\ goals[g].row \in {"active", "cancelled"} /\ goals[g].priority \in Priorities
           /\ goals[g].status \in {"active", "completed", "abandoned"}
           /\ goals[g].progress \in 0..Done /\ goals[g].negative \in Nat
           /\ goals[g].last \in {Never} \cup 0..LastHour

\* A goal's reminders keep their distance and their number whatever is rated, moved or
\* restarted between the decision and its record: two are a cooldown apart, and one more
\* than the daily cap takes longer than a day (_in_cooldown, _exceeds_daily_cap,
\* record_reminder, which trims the history the cap is counted in).
RemindersAreSpaced ==
    \A g \in GoalIds :
       /\ \A i \in 1..Len(shown_at[g]) - 1 : shown_at[g][i + 1] - shown_at[g][i] >= CooldownHours
       /\ \A i \in 1..Len(shown_at[g]) - ReminderCap :
             shown_at[g][i + ReminderCap] - shown_at[g][i] > DayLength

\* No later progress, priority, feedback or reminder brings a closed goal back to the
\* evaluator (update_progress and deactivate cancel the row as well).
ClosedGoalsRest == list_active \cap closed = {}
=============================================================================
