------------------------------- MODULE Samples -------------------------------
(***************************************************************************)
(* The decomposition sample library (core/decomposition_sample_library.py). *)
(* A sample is a row of memory_chunks.  The user confirms, rejects, edits,  *)
(* restores and deletes samples over HTTP; a finished plan reports its      *)
(* outcome, which may verify or stale a sample; the idle maintenance        *)
(* archives cold ones; the decomposer injects verified ones.                *)
(*                                                                          *)
(* Every transition of SampleLifecycleManager is two transactions: the      *)
(* sample is read and checked, then mutate_metadata writes the target state *)
(* without looking at the state again.  The three parties below hold what   *)
(* they read in between.  Counters saturate at the thresholds they are      *)
(* compared with; ages, similarities and texts are left open.               *)
(***************************************************************************)
EXTENDS Naturals, FiniteSets

CONSTANTS SampleIds,       \* row ids
          verified_limit,  \* capacity of the verified pool
          StaleAfter,      \* 3 in the code: injections and failures in a row
          GreenPlans       \* 2 in the code: green plans before auto_verify

ASSUME SamplesAssumption ==
    /\ verified_limit \in Nat \ {0}
    /\ StaleAfter \in Nat \ {0}
    /\ GreenPlans \in Nat \ {0}

VARIABLES samples,      \* the rows
          reviewer,     \* the user's transition between its read and its write
          feedback,     \* a finished plan reporting its outcome
          upkeep        \* one run of SampleMaintenance, and the day's receipt

sampleVars == <<samples, reviewer, feedback, upkeep>>

NoSample == [state |-> "none"]
NoRead   == [op |-> "none"]

UpTo(n, max) == IF n < max THEN n ELSE max
Least(a, b)  == UpTo(a, b)

Fresh == [state |-> "candidate", kind |-> "none", status |-> "active",
          injected |-> 0, completed |-> 0, failures |-> 0]

InLibrary(i)   == samples[i] # NoSample
Seen(i)   == <<samples[i].state, samples[i].kind>>
IsUser(s) == s = <<"verified", "user">>
IsAuto(s) == s = <<"verified", "auto">>

\* _transition: state, verify_kind and db status are overwritten; usage stays.
Target(op) ==
    CASE op = "confirm"     -> <<"verified", "user">>
      [] op = "edit"        -> <<"verified", "user">>
      [] op = "auto_verify" -> <<"verified", "auto">>
      [] op = "reject"      -> <<"rejected", "none">>
      [] op = "restore"     -> <<"candidate", "none">>
      [] op = "mark_stale"  -> <<"stale", "none">>
      [] op = "archive"     -> <<"archived", "none">>

\* edit_content writes what the user typed; nothing that was counted is kept.
edit_content(sample) == [sample EXCEPT !.injected = 0, !.completed = 0, !.failures = 0]

Transitioned(sample, op) ==
    LET moved == [sample EXCEPT !.state = Target(op)[1], !.kind = Target(op)[2],
                    !.status = IF op = "archive" THEN "cancelled" ELSE "active"]
    IN IF op = "edit" THEN edit_content(moved) ELSE moved

\* Mutant: nobody looks at the verdict.
AllowedNoUser(op, s) == op # "archive" \/ s[1] \notin {"rejected", "archived"}

\* The check each operation makes on the sample it read.
Allowed(op, s) ==
    CASE op = "confirm"     -> ~IsUser(s)
      [] op = "edit"        -> TRUE
      [] op = "reject"      -> s[1] # "rejected"
      [] op = "restore"     -> s[1] \in {"rejected", "archived", "stale"}
      [] op = "auto_verify" -> s[1] = "candidate"
      [] op = "mark_stale"  -> s[1] = "candidate" \/ IsAuto(s)
      [] op = "archive"     -> s[1] \notin {"rejected", "archived"} /\ ~IsUser(s)

SamplesInit ==
    /\ samples = [i \in SampleIds |-> NoSample]
    /\ reviewer = NoRead
    /\ feedback = [ids |-> {}, green |-> FALSE, candidate |-> {}, read |-> NoRead]
    /\ upkeep = [todo |-> {}, running |-> FALSE, failed |-> FALSE,
                 receipt |-> FALSE, read |-> NoRead]

-----------------------------------------------------------------------------
(* One transaction of the repository.                                      *)

\* create_candidate: a near duplicate in any state only counts its similarity.
create_candidate(i) ==
    /\ ~InLibrary(i)
    /\ samples' = [samples EXCEPT ![i] = Fresh]
    /\ UNCHANGED <<reviewer, feedback, upkeep>>

delete(i) ==
    /\ InLibrary(i)
    /\ samples' = [samples EXCEPT ![i] = NoSample]
    /\ UNCHANGED <<reviewer, feedback, upkeep>>

\* The written row, when it is still there; otherwise the call raises.
mutate(read) ==
    samples' = IF InLibrary(read.id)
               THEN [samples EXCEPT ![read.id] = Transitioned(@, read.op)]
               ELSE samples

\* record_injection
Injected(sample) == [sample EXCEPT !.injected = UpTo(@ + 1, StaleAfter)]

\* SampleRetriever.retrieve: one listed verified sample is counted as injected.
retrieve(i) ==
    /\ InLibrary(i)
    /\ samples[i].state = "verified" /\ samples[i].status = "active"
    /\ samples[i].kind \in {"user", "auto"}
    /\ samples' = [samples EXCEPT ![i] = Injected(@)]
    /\ UNCHANGED <<reviewer, feedback, upkeep>>

-----------------------------------------------------------------------------
(* The user, through the /api/decomp-samples endpoints.                    *)

ReviewRead(op, i) ==
    /\ reviewer = NoRead
    /\ InLibrary(i) /\ Allowed(op, Seen(i))
    /\ reviewer' = [op |-> op, id |-> i, seen |-> Seen(i)]
    /\ UNCHANGED <<samples, feedback, upkeep>>

\* A finished plan becomes a sample, and the user's own: create_candidate, then confirm.
save_plan_as_decomposition_sample(i) ==
    /\ reviewer = NoRead /\ ~InLibrary(i)
    /\ samples' = [samples EXCEPT ![i] = Fresh]
    /\ reviewer' = [op |-> "confirm", id |-> i, seen |-> <<Fresh.state, Fresh.kind>>]
    /\ UNCHANGED <<feedback, upkeep>>

ReviewWrite ==
    /\ reviewer # NoRead
    /\ mutate(reviewer)
    /\ reviewer' = NoRead
    /\ UNCHANGED <<feedback, upkeep>>

-----------------------------------------------------------------------------
(* PlanOrchestrator: the feedback of one finished plan.  candidate is the  *)
(* sample the plan itself became, if any.                                  *)

StartFeedback(ids, green, candidate) ==
    /\ feedback.ids = {} /\ feedback.candidate = {} /\ feedback.read = NoRead
    /\ feedback' = [ids |-> ids \cup candidate, green |-> green,
                    candidate |-> IF green THEN candidate ELSE {}, read |-> NoRead]
    /\ UNCHANGED <<samples, reviewer, upkeep>>

Outcome(sample, green) ==
    IF green THEN [sample EXCEPT !.completed = UpTo(@ + 1, GreenPlans), !.failures = 0]
             ELSE [sample EXCEPT !.failures = UpTo(@ + 1, StaleAfter)]

\* The row record_plan_outcome wrote is due for mark_stale.
StaleDue(sample, green) ==
    /\ ~green
    /\ sample.injected >= StaleAfter /\ sample.failures >= StaleAfter
    /\ Allowed("mark_stale", <<sample.state, sample.kind>>)

\* record_plan_outcome; a deleted sample raises, and the loop goes on.
record_plan_outcome(i) ==
    /\ i \in feedback.ids /\ feedback.read = NoRead
    /\ LET sample == Outcome(samples[i], feedback.green)
           due == InLibrary(i) /\ StaleDue(sample, feedback.green)
       IN /\ samples' = IF InLibrary(i) THEN [samples EXCEPT ![i] = sample] ELSE samples
          /\ feedback' = [feedback EXCEPT !.ids = @ \ {i},
                !.read = IF due THEN [op |-> "stale_due", id |-> i] ELSE NoRead]
    /\ UNCHANGED <<reviewer, upkeep>>

\* auto_verify_candidate: its own read and thresholds, before auto_verify's.
auto_verify_candidate(i) ==
    /\ feedback.ids = {} /\ feedback.read = NoRead /\ i \in feedback.candidate
    /\ feedback' = [feedback EXCEPT !.candidate = {},
          !.read = IF /\ InLibrary(i) /\ samples[i].state = "candidate"
                      /\ samples[i].completed >= GreenPlans
                   THEN [op |-> "verify_due", id |-> i] ELSE NoRead]
    /\ UNCHANGED <<samples, reviewer, upkeep>>

\* mark_stale and auto_verify read again and check; a refusal raises.
FeedbackRead(op) ==
    /\ feedback.read # NoRead
    /\ feedback.read.op = IF op = "mark_stale" THEN "stale_due" ELSE "verify_due"
    /\ LET i == feedback.read.id IN
       feedback' = [feedback EXCEPT !.read =
          IF InLibrary(i) /\ Allowed(op, Seen(i))
          THEN [op |-> op, id |-> i, seen |-> Seen(i)] ELSE NoRead]
    /\ UNCHANGED <<samples, reviewer, upkeep>>

FeedbackWrite ==
    /\ feedback.read # NoRead
    /\ feedback.read.op \in {"mark_stale", "auto_verify"}
    /\ mutate(feedback.read)
    /\ feedback' = [feedback EXCEPT !.read = NoRead]
    /\ UNCHANGED <<reviewer, upkeep>>

-----------------------------------------------------------------------------
(* SampleMaintenance.run under IdleThink's maintenance lock, once a day.   *)

Verified   == {i \in SampleIds : InLibrary(i) /\ samples[i].state = "verified"}
Evictable  == {i \in Verified : samples[i].kind = "auto" /\ samples[i].status = "active"}
Excess     == IF Cardinality(Verified) > verified_limit
              THEN Cardinality(Verified) - verified_limit ELSE 0

\* Injected long ago, or a candidate whose plan failed long ago.
Archivable == {i \in SampleIds : /\ InLibrary(i) /\ Allowed("archive", Seen(i))
                                 /\ samples[i].injected > 0 \/ samples[i].state = "candidate"}

\* The rows to archive are listed first: the excess, then any that are cold.
StartUpkeep(evicted, cold) ==
    /\ ~upkeep.running /\ ~upkeep.receipt
    /\ evicted \subseteq Evictable
    /\ Cardinality(evicted) = Least(Excess, Cardinality(Evictable))
    /\ cold \subseteq Archivable \ evicted
    /\ upkeep' = [upkeep EXCEPT !.running = TRUE, !.todo = evicted \cup cold]
    /\ UNCHANGED <<samples, reviewer, feedback>>

\* archive reads the sample again; what it refuses is an error of the run.
ArchiveRead(i) ==
    /\ i \in upkeep.todo /\ upkeep.read = NoRead
    /\ LET ok == InLibrary(i) /\ Allowed("archive", Seen(i)) IN
       upkeep' = [upkeep EXCEPT !.todo = @ \ {i}, !.failed = @ \/ ~ok,
          !.read = IF ok THEN [op |-> "archive", id |-> i, seen |-> Seen(i)] ELSE NoRead]
    /\ UNCHANGED <<samples, reviewer, feedback>>

ArchiveWrite ==
    /\ upkeep.read # NoRead
    /\ mutate(upkeep.read)
    /\ upkeep' = [upkeep EXCEPT !.read = NoRead,
                                !.failed = @ \/ ~InLibrary(upkeep.read.id)]
    /\ UNCHANGED <<reviewer, feedback>>

\* The receipt is written only when no archive failed.
EndUpkeep ==
    /\ upkeep.running /\ upkeep.todo = {} /\ upkeep.read = NoRead
    /\ upkeep' = [upkeep EXCEPT !.running = FALSE, !.receipt = ~upkeep.failed,
                                !.failed = FALSE]
    /\ UNCHANGED <<samples, reviewer, feedback>>

\* The receipt's key carries the date.
NextDay ==
    /\ upkeep.receipt
    /\ upkeep' = [upkeep EXCEPT !.receipt = FALSE]
    /\ UNCHANGED <<samples, reviewer, feedback>>

SamplesNext ==
    \/ \E i \in SampleIds :
          \/ create_candidate(i) \/ delete(i) \/ retrieve(i)
          \/ save_plan_as_decomposition_sample(i)
          \/ \E op \in {"confirm", "edit", "reject", "restore"} : ReviewRead(op, i)
          \/ record_plan_outcome(i) \/ auto_verify_candidate(i) \/ ArchiveRead(i)
    \/ ReviewWrite
    \/ \E ids \in SUBSET SampleIds, green \in BOOLEAN, i \in SampleIds :
          \/ ids # {} /\ StartFeedback(ids, green, {})
          \/ StartFeedback(ids, green, {i})
    \/ \E op \in {"mark_stale", "auto_verify"} : FeedbackRead(op)
    \/ FeedbackWrite
    \/ \E evicted, cold \in SUBSET SampleIds : StartUpkeep(evicted, cold)
    \/ ArchiveWrite \/ EndUpkeep \/ NextDay

SamplesSpec == SamplesInit /\ [][SamplesNext]_sampleVars

-----------------------------------------------------------------------------

SamplesTypeOK ==
    /\ samples \in [SampleIds -> {NoSample} \cup
          [state : {"candidate", "verified", "rejected", "stale", "archived"},
           kind : {"user", "auto", "none"}, status : {"active", "cancelled"},
           injected : 0..StaleAfter, completed : 0..GreenPlans,
           failures : 0..StaleAfter]]
    /\ \A i \in SampleIds : InLibrary(i) =>
          /\ samples[i].state = "verified" <=> samples[i].kind # "none"
          /\ samples[i].state = "archived" <=> samples[i].status = "cancelled"
    /\ feedback.ids \subseteq SampleIds /\ feedback.candidate \subseteq SampleIds
    /\ upkeep.todo \subseteq SampleIds
    /\ upkeep.running \/ (upkeep.todo = {} /\ upkeep.read = NoRead)

\* The user's last word on a sample: it is rejected, or verified by the user.
Verdict(i) == InLibrary(i) /\ (samples[i].state = "rejected" \/ IsUser(Seen(i)))

\* A step of the automation takes the user's verdict off sample i.
Overridden(i) ==
    /\ Verdict(i) /\ samples'[i] # NoSample
    /\ <<samples'[i].state, samples'[i].kind>> # Seen(i)
    /\ reviewer' = reviewer

\* The party that writes i read it before the user gave the verdict.
ReadBefore(i) ==
    LET read == IF feedback' # feedback THEN feedback.read ELSE upkeep.read
    IN read.id = i /\ read.seen # Seen(i)

\* Automation never overrides a verdict it has seen: when a plan's feedback or the
\* maintenance takes the user's verdict off a sample, the user gave that verdict
\* between the automation's last read of the sample and its write.
AutomationSawNoVerdict ==
    [][\A i \in SampleIds : Overridden(i) => ReadBefore(i)]_sampleVars
=============================================================================
