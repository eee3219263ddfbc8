---------------------------- MODULE MessageRouter ----------------------------
(***************************************************************************)
(* MessageRouter.dispatch: concurrent calls, some of them deliveries of    *)
(* the same message, go through the idempotency check, the session lock,   *)
(* the check inside the lock, the handler with its timeout and retries,    *)
(* and the execution record.  Every SQL statement is a step of its own:    *)
(* the connection serialises statements, not what lies between them.       *)
(***************************************************************************)
EXTENDS Naturals, FiniteSets

CONSTANTS
    Calls,      \* calls of dispatch, each on a thread of its own
    NoCall,     \* nobody holds the lock
    Keys,       \* idempotency keys
    NoKey,      \* a message without one
    Key,        \* the key a call's message carries
    Session,    \* its session_id
    Queue       \* its queue_type

ASSUME RouterAssumption ==
    /\ IsFiniteSet(Calls) /\ NoCall \notin Calls /\ NoKey \notin Keys
    /\ Key \in [Calls -> Keys \cup {NoKey}]
    /\ Queue \in [Calls -> {"dialog", "background"}]
    /\ DOMAIN Session = Calls

VARIABLES
    pc,         \* where the call is
    result,     \* the status of the ExecutionResult it returned
    record,     \* message_execution_records: status by key
    owner,      \* _session_locks: who holds the session's lock
    retries,    \* per call: handler_retries and conflict_retries
    error,      \* the error the call is about to report
    orphans,    \* handler threads a timeout left running, per call
    dlq         \* calls whose message is in dead_letter_queue

vars == <<pc, result, record, owner, retries, error, orphans, dlq>>

Sessions == {Session[d] : d \in Calls}
Control == {"idle", "lock", "check", "record", "exec", "store", "fail", "dlq", "returned", "lost"}
Errors == {"failed", "timeout"}

max_handler_retries == 1
max_conflict_retries(d) == IF Queue[d] = "background" THEN 3 ELSE 0

Init ==
    /\ pc = [d \in Calls |-> "idle"]
    /\ result = [d \in Calls |-> "none"]
    /\ record = [k \in Keys |-> "none"]
    /\ owner = [s \in Sessions |-> NoCall]
    /\ retries = [d \in Calls |-> [handler |-> 0, conflict |-> 0]]
    /\ error = [d \in Calls |-> "failed"]
    /\ orphans = [d \in Calls |-> 0]
    /\ dlq = {}

-----------------------------------------------------------------------------
At(d, place) == pc[d] = place
Goto(d, place) == pc' = [pc EXCEPT ![d] = place]

\* _check_idempotency: only a completed record stops a delivery.
Executed(d) == Key[d] # NoKey /\ record[Key[d]] = "completed"

\* _record_execution: an upsert that overwrites whatever status is there.
RecordExecution(d, status) ==
    record' = IF Key[d] = NoKey THEN record ELSE [record EXCEPT ![Key[d]] = status]

\* _session_lock and the with statement: a background call locks a lock of its own.
TakesLock(d) ==
    IF Queue[d] = "dialog"
    THEN owner[Session[d]] = NoCall /\ owner' = [owner EXCEPT ![Session[d]] = d]
    ELSE UNCHANGED owner

\* mutant: the lock is released on the way out of the happy path only.
FreesLock_OnSuccess(d) ==
    owner' = IF owner[Session[d]] = d /\ pc[d] = "store"
             THEN [owner EXCEPT ![Session[d]] = NoCall] ELSE owner
FreesLock(d) ==
    owner' = IF owner[Session[d]] = d THEN [owner EXCEPT ![Session[d]] = NoCall] ELSE owner

\* dispatch returns (or raises): the with statement releases the lock.
Return(d, status) ==
    /\ Goto(d, "returned")
    /\ result' = [result EXCEPT ![d] = status]
    /\ FreesLock(d)

-----------------------------------------------------------------------------
Dispatch(d) ==
    /\ At(d, "idle")
    /\ \/ Executed(d) /\ Return(d, "skipped_duplicate")
       \/ ~Executed(d) /\ Goto(d, "lock") /\ UNCHANGED <<result, owner>>
    /\ UNCHANGED <<record, retries, error, orphans, dlq>>

EnterLock(d) ==
    /\ At(d, "lock")
    /\ TakesLock(d)
    /\ Goto(d, "check")
    /\ UNCHANGED <<result, record, retries, error, orphans, dlq>>

\* mutant: no second check once the lock is taken.
SeenInLock_Never(d) == FALSE
SeenInLock(d) == Executed(d)

\* The head of the loop: the check is repeated inside the lock.
CheckAgain(d) ==
    /\ At(d, "check")
    /\ \/ SeenInLock(d) /\ Return(d, "skipped_duplicate")
       \/ ~SeenInLock(d) /\ Goto(d, "record") /\ UNCHANGED <<result, owner>>
    /\ UNCHANGED <<record, retries, error, orphans, dlq>>

\* Record "executing" and submit the handler to a thread of its own.
StartHandler(d) ==
    /\ At(d, "record")
    /\ RecordExecution(d, "executing")
    /\ Goto(d, "exec")
    /\ UNCHANGED <<result, owner, retries, error, orphans, dlq>>

HandlerReturns(d) ==
    /\ At(d, "exec")
    /\ Goto(d, "store")
    /\ UNCHANGED <<result, record, owner, retries, error, orphans, dlq>>

RecordCompleted(d) ==
    /\ At(d, "store")
    /\ RecordExecution(d, "completed")
    /\ Return(d, "completed")
    /\ UNCHANGED <<retries, error, orphans, dlq>>

\* Back to the head of the loop, where the check the code makes before a retry is repeated.
Retry(d, kind) ==
    /\ retries' = [retries EXCEPT ![d][kind] = @ + 1]
    /\ Goto(d, "check")
    /\ UNCHANGED error
GiveUp(d, status) ==
    /\ error' = [error EXCEPT ![d] = status]
    /\ Goto(d, "fail")
    /\ UNCHANGED retries

\* mutant: the retry counter is never looked at.
MayRetry_Always(d) == TRUE
MayRetry(d) == retries[d].handler < max_handler_retries

\* The handler raises, or raises a TimeoutError of its own.
HandlerRaises(d, status) ==
    /\ At(d, "exec")
    /\ IF MayRetry(d) THEN Retry(d, "handler") ELSE GiveUp(d, status)
    /\ UNCHANGED <<result, record, owner, orphans, dlq>>

\* The handler raises sqlite3.OperationalError; a background call retries on "locked".
HandlerConflicts(d, locked) ==
    /\ At(d, "exec")
    /\ IF locked /\ retries[d].conflict < max_conflict_retries(d)
       THEN Retry(d, "conflict") ELSE GiveUp(d, "failed")
    /\ UNCHANGED <<result, record, owner, orphans, dlq>>

\* future.result gives up waiting; the handler's thread is not stopped.
TimesOut(d) ==
    /\ At(d, "exec")
    /\ orphans' = [orphans EXCEPT ![d] = @ + 1]
    /\ IF MayRetry(d) THEN Retry(d, "handler") ELSE GiveUp(d, "timeout")
    /\ UNCHANGED <<result, record, owner, dlq>>

\* A thread left behind by a timeout ends; nobody waits for what it returns.
OrphanEnds(d) ==
    /\ orphans[d] > 0
    /\ orphans' = [orphans EXCEPT ![d] = @ - 1]
    /\ UNCHANGED <<pc, result, record, owner, retries, error, dlq>>

RecordFailed(d) ==
    /\ At(d, "fail")
    /\ RecordExecution(d, "failed")
    /\ Goto(d, "dlq")
    /\ UNCHANGED <<result, owner, retries, error, orphans, dlq>>

\* mutant: a timeout is reported without it.
send_to_dlq_NotOnTimeout(d) == dlq' = IF error[d] = "timeout" THEN dlq ELSE dlq \cup {d}
send_to_dlq(d) == dlq' = dlq \cup {d}

SendToDlq(d) ==
    /\ At(d, "dlq")
    /\ send_to_dlq(d)
    /\ Return(d, error[d])
    /\ UNCHANGED <<record, retries, error, orphans>>

\* One of dispatch's own statements fails (a locked database, a result that is not
\* JSON): the exception leaves dispatch through the with statement.
StatementFails(d) ==
    /\ pc[d] \in {"check", "record", "store", "fail", "dlq"}
    /\ Return(d, "raised")
    /\ UNCHANGED <<record, retries, error, orphans, dlq>>

\* The process dies: only the tables are left.
Crash ==
    /\ pc' = [d \in Calls |-> IF pc[d] \in {"idle", "returned"} THEN pc[d] ELSE "lost"]
    /\ owner' = [s \in Sessions |-> NoCall]
    /\ orphans' = [d \in Calls |-> 0]
    /\ UNCHANGED <<result, record, retries, error, dlq>>

-----------------------------------------------------------------------------
Handler(d) ==
    \/ HandlerReturns(d) \/ TimesOut(d)
    \/ \E status \in Errors : HandlerRaises(d, status)
    \/ \E locked \in BOOLEAN : HandlerConflicts(d, locked)

Step(d) ==
    \/ EnterLock(d) \/ CheckAgain(d) \/ StartHandler(d) \/ Handler(d)
    \/ RecordCompleted(d) \/ RecordFailed(d) \/ SendToDlq(d) \/ StatementFails(d)

Next == (\E d \in Calls : Dispatch(d) \/ Step(d) \/ OrphanEnds(d)) \/ Crash

Spec == Init /\ [][Next]_vars

\* A dispatch in progress goes on, and its handler answers, raises or is timed out.
FairSpec == Spec /\ \A d \in Calls : WF_vars(Step(d))

-----------------------------------------------------------------------------
(* Properties.                                                             *)

TypeOK ==
    /\ pc \in [Calls -> Control]
    /\ result \in [Calls -> {"none", "completed", "skipped_duplicate", "failed", "timeout", "raised"}]
    /\ record \in [Keys -> {"none", "executing", "completed", "failed"}]
    /\ owner \in [Sessions -> Calls \cup {NoCall}]
    /\ retries \in [Calls -> [handler : 0..max_handler_retries, conflict : 0..3]]
    /\ error \in [Calls -> Errors]
    /\ orphans \in [Calls -> 0..(max_handler_retries + 1)]
    /\ dlq \subseteq Calls

\* Deliveries of one message go to one session's dialog queue.
KeysAreSerial ==
    \A d, e \in Calls : Key[d] # NoKey /\ Key[d] = Key[e] =>
        Queue[d] = "dialog" /\ Session[d] = Session[e]

\* A call that was answered "completed" or "skipped_duplicate" has its message on record as
\* executed, for good: no later delivery, retry or failure overwrites the record
\* (_check_idempotency inside the session lock).
AnswerIsRecorded ==
    \A d \in Calls : result[d] \in {"skipped_duplicate", "completed"} /\ Key[d] # NoKey =>
        record[Key[d]] = "completed"

\* A message recorded as failed is in the dead letter queue, or a call that failed with it
\* is about to put it there or was torn away (a crash, a failing statement) just before.
FailedIsInDlq ==
    \A k \in Keys : record[k] = "failed" =>
        \E d \in Calls : /\ Key[d] = k
                         /\ d \in dlq \/ pc[d] \in {"dlq", "lost"} \/ result[d] = "raised"

\* Every dispatch ends, whoever holds the session's lock and however its handler fails.
DispatchReturns == \A d \in Calls : pc[d] # "idle" ~> pc[d] \in {"returned", "lost"}

\* The dialog messages of a session are executed strictly one after the other.
DialogIsSerial ==
    \A s \in Sessions :
        LET running(d) == orphans[d] + (IF pc[d] = "exec" THEN 1 ELSE 0)
        IN  \A d, e \in {x \in Calls : Session[x] = s /\ Queue[x] = "dialog"} :
                d # e => running(d) = 0 \/ running(e) = 0
=============================================================================
