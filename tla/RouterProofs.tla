---------------------------- MODULE RouterProofs ----------------------------
(***************************************************************************)
(* For every number of calls, keys and sessions: the router's state keeps  *)
(* its types, and when the deliveries of a message share one session's     *)
(* dialog queue an answer is on record for good.  The invariant says that  *)
(* a dialog call past the lock owns it, and that a call past the check     *)
(* inside the lock has found, and left, its message not completed.         *)
(***************************************************************************)
EXTENDS MessageRouter, TLAPS

InLock == {"check", "record", "exec", "store", "fail", "dlq"}
PastCheck == InLock \ {"check"}

\* Between two attempts the counters are within their limits, and so are the threads
\* that timeouts left behind.
CountersOK ==
    \A d \in Calls :
        /\ orphans[d] <= retries[d].handler + 1
        /\ pc[d] \in {"idle", "lock", "check", "record", "exec"} => orphans[d] <= retries[d].handler

LockOK ==
    \A d \in Calls : Queue[d] = "dialog" /\ pc[d] \in InLock => owner[Session[d]] = d

CheckOK ==
    \A d \in Calls : Key[d] # NoKey /\ pc[d] \in PastCheck => record[Key[d]] # "completed"

TypeInv == TypeOK /\ CountersOK
SafetyInv == TypeOK /\ LockOK /\ CheckOK /\ AnswerIsRecorded

-----------------------------------------------------------------------------
(* Types.                                                                  *)

\* The initial state has its types and its counters are zero.
LEMMA InitTypes == Init => TypeInv
BY RouterAssumption DEF Init, TypeInv, TypeOK, CountersOK, Control, Errors, Sessions,
   max_handler_retries

\* Recording an execution keeps the table's type.
LEMMA RecordType ==
    ASSUME TypeOK, NEW d \in Calls, NEW x \in {"executing", "completed", "failed"},
           RecordExecution(d, x)
    PROVE  record' \in [Keys -> {"none", "executing", "completed", "failed"}]
BY RouterAssumption DEF TypeOK, RecordExecution

\* Returning from dispatch changes the call's own place and answer and frees its lock.
LEMMA ReturnType ==
    ASSUME TypeOK, NEW d \in Calls,
           NEW x \in {"completed", "skipped_duplicate", "failed", "timeout", "raised"},
           Return(d, x)
    PROVE  /\ pc' \in [Calls -> Control]
           /\ result' \in [Calls -> {"none", "completed", "skipped_duplicate", "failed",
                                     "timeout", "raised"}]
           /\ owner' \in [Sessions -> Calls \cup {NoCall}]
           /\ pc' = [pc EXCEPT ![d] = "returned"]
BY RouterAssumption DEF TypeOK, Return, Goto, FreesLock, Control, Sessions

\* A retry raises one counter of the call by one and goes back to the check.
LEMMA RetryType ==
    ASSUME TypeOK, NEW d \in Calls
    PROVE  /\ retries[d].handler \in 0..1 /\ retries[d].conflict \in 0..3
           /\ Retry(d, "handler") /\ retries[d].handler < 1 =>
                /\ retries' \in [Calls -> [handler : 0..1, conflict : 0..3]]
                /\ retries'[d].handler = retries[d].handler + 1
                /\ \A e \in Calls : e # d => retries'[e] = retries[e]
           /\ Retry(d, "conflict") /\ retries[d].conflict < 3 =>
                /\ retries' \in [Calls -> [handler : 0..1, conflict : 0..3]]
                /\ \A e \in Calls : retries'[e].handler = retries[e].handler
<1>1. retries \in [Calls -> [handler : 0..1, conflict : 0..3]]
  BY DEF TypeOK, max_handler_retries
<1>2. retries[d].handler \in 0..1 /\ retries[d].conflict \in 0..3
  BY <1>1
<1>3. ASSUME Retry(d, "handler"), retries[d].handler < 1
      PROVE  /\ retries' \in [Calls -> [handler : 0..1, conflict : 0..3]]
             /\ retries'[d].handler = retries[d].handler + 1
             /\ \A e \in Calls : e # d => retries'[e] = retries[e]
  <2>1. retries' = [retries EXCEPT ![d] = [retries[d] EXCEPT !.handler = retries[d].handler + 1]]
    BY <1>1, <1>3 DEF Retry
  <2>2. [retries[d] EXCEPT !.handler = retries[d].handler + 1] \in [handler : 0..1, conflict : 0..3]
    BY <1>1, <1>2, <1>3
  <2> QED BY <1>1, <2>1, <2>2
<1>4. ASSUME Retry(d, "conflict"), retries[d].conflict < 3
      PROVE  /\ retries' \in [Calls -> [handler : 0..1, conflict : 0..3]]
             /\ \A e \in Calls : retries'[e].handler = retries[e].handler
  <2>1. retries' = [retries EXCEPT ![d] = [retries[d] EXCEPT !.conflict = retries[d].conflict + 1]]
    BY <1>1, <1>4 DEF Retry
  <2>2. [retries[d] EXCEPT !.conflict = retries[d].conflict + 1] \in [handler : 0..1, conflict : 0..3]
    BY <1>1, <1>2, <1>4
  <2> QED BY <1>1, <2>1, <2>2
<1> QED BY <1>2, <1>3, <1>4

\* Going back to the check or giving up changes the call's own place.
LEMMA PlaceType ==
    ASSUME TypeOK, NEW d \in Calls, NEW p \in Control, Goto(d, p)
    PROVE  /\ pc' \in [Calls -> Control]
           /\ pc'[d] = p /\ \A e \in Calls : e # d => pc'[e] = pc[e]
BY DEF TypeOK, Goto

\* What a failed attempt does to the counters: a retry with or without a thread left
\* behind, or the end of the attempts.
LEMMA AttemptTypes ==
    ASSUME TypeInv, NEW d \in Calls, At(d, "exec"), NEW n \in {0, 1},
           orphans' = [orphans EXCEPT ![d] = @ + n],
           UNCHANGED <<result, record, owner, dlq>>,
           \/ n = 0 /\ Retry(d, "conflict") /\ retries[d].conflict < 3
           \/ Retry(d, "handler") /\ retries[d].handler < 1
           \/ \E x \in Errors : GiveUp(d, x)
    PROVE  TypeInv'
<1>1. TypeOK /\ CountersOK BY DEF TypeInv
<1>2. orphans[d] \in Nat /\ orphans[d] <= retries[d].handler /\ retries[d].handler \in 0..1
      /\ orphans \in [Calls -> 0..2]
  BY <1>1, RetryType DEF CountersOK, TypeOK, At, max_handler_retries
<1>3. orphans' \in [Calls -> 0..2] /\ orphans'[d] = orphans[d] + n
      /\ \A e \in Calls : e # d => orphans'[e] = orphans[e]
  BY <1>2
<1>4. CASE Retry(d, "conflict") /\ retries[d].conflict < 3 /\ n = 0
  <2>1. pc' \in [Calls -> Control] /\ pc'[d] = "check" /\ \A e \in Calls : e # d => pc'[e] = pc[e]
    BY <1>1, <1>4, PlaceType DEF Retry, Control
  <2>2. UNCHANGED error BY <1>4 DEF Retry
  <2>3. CountersOK'
    BY <1>1, <1>2, <1>3, <1>4, <2>1, RetryType DEF CountersOK
  <2> QED BY <1>1, <1>3, <1>4, <2>1, <2>2, <2>3, RetryType DEF TypeInv, TypeOK, max_handler_retries
<1>5. CASE Retry(d, "handler") /\ retries[d].handler < 1
  <2>1. pc' \in [Calls -> Control] /\ pc'[d] = "check" /\ \A e \in Calls : e # d => pc'[e] = pc[e]
    BY <1>1, <1>5, PlaceType DEF Retry, Control
  <2>2. UNCHANGED error BY <1>5 DEF Retry
  <2>3. CountersOK'
    BY <1>1, <1>2, <1>3, <1>5, <2>1, RetryType DEF CountersOK
  <2> QED BY <1>1, <1>3, <1>5, <2>1, <2>2, <2>3, RetryType DEF TypeInv, TypeOK, max_handler_retries
<1>6. ASSUME NEW x \in Errors, GiveUp(d, x) PROVE TypeInv'
  <2>1. pc' \in [Calls -> Control] /\ pc'[d] = "fail" /\ \A e \in Calls : e # d => pc'[e] = pc[e]
    BY <1>1, <1>6, PlaceType DEF GiveUp, Control
  <2>2. error' \in [Calls -> Errors] /\ UNCHANGED retries
    BY <1>1, <1>6 DEF GiveUp, TypeOK
  <2>3. CountersOK'
    BY <1>1, <1>2, <1>3, <2>1, <2>2 DEF CountersOK
  <2> QED BY <1>1, <1>3, <2>1, <2>2, <2>3 DEF TypeInv, TypeOK, max_handler_retries
<1> QED BY <1>4, <1>5, <1>6

\* No step of a call takes a variable out of its type.
LEMMA StepTypes ==
    ASSUME TypeInv, NEW d \in Calls, Dispatch(d) \/ Step(d) \/ OrphanEnds(d)
    PROVE  TypeInv'
<1> USE RouterAssumption DEF TypeInv, CountersOK, At, max_handler_retries
<1>1. CASE Dispatch(d)
  BY <1>1, ReturnType DEF Dispatch, Goto, TypeOK, Control
<1>2. CASE EnterLock(d)
  <2>1. Session[d] \in Sessions BY DEF Sessions
  <2>2. owner' \in [Sessions -> Calls \cup {NoCall}]
    BY <1>2, <2>1 DEF EnterLock, TakesLock, TypeOK
  <2> QED BY <1>2, <2>2 DEF EnterLock, Goto, TypeOK, Control
<1>3. CASE CheckAgain(d)
  BY <1>3, ReturnType DEF CheckAgain, Goto, TypeOK, Control
<1>4. CASE StartHandler(d)
  BY <1>4, RecordType DEF StartHandler, Goto, TypeOK, Control
<1>5. CASE HandlerReturns(d)
  BY <1>5 DEF HandlerReturns, Goto, TypeOK, Control
<1>a. orphans = [orphans EXCEPT ![d] = @ + 0]
  BY DEF TypeOK
<1>6. CASE TimesOut(d)
  BY <1>6, AttemptTypes DEF TimesOut, MayRetry, Errors
<1>7. ASSUME NEW x \in Errors, HandlerRaises(d, x) PROVE TypeInv'
  BY <1>7, <1>a, AttemptTypes DEF HandlerRaises, MayRetry
<1>8. ASSUME NEW x \in BOOLEAN, HandlerConflicts(d, x) PROVE TypeInv'
  <2>1. max_conflict_retries(d) \in {0, 3} /\ retries[d].conflict \in 0..3
    BY RetryType DEF max_conflict_retries
  <2>2. (Retry(d, "conflict") /\ retries[d].conflict < 3) \/ GiveUp(d, "failed")
    BY <1>8, <2>1 DEF HandlerConflicts
  <2> QED BY <1>8, <1>a, <2>2, AttemptTypes DEF HandlerConflicts, Errors
<1>9. CASE RecordCompleted(d)
  BY <1>9, ReturnType, RecordType DEF RecordCompleted, TypeOK
<1>10. CASE RecordFailed(d)
  BY <1>10, RecordType DEF RecordFailed, Goto, TypeOK, Control
<1>11. CASE SendToDlq(d)
  <2>1. error[d] \in {"failed", "timeout"} BY DEF TypeOK, Errors
  <2> QED BY <1>11, <2>1, ReturnType DEF SendToDlq, send_to_dlq, TypeOK
<1>12. CASE StatementFails(d)
  BY <1>12, ReturnType DEF StatementFails, TypeOK
<1>13. CASE OrphanEnds(d)
  BY <1>13 DEF OrphanEnds, TypeOK
<1> QED BY <1>1, <1>2, <1>3, <1>4, <1>5, <1>6, <1>7, <1>8, <1>9, <1>10, <1>11, <1>12, <1>13
       DEF Step, Handler

\* A crash resets what is in memory.
LEMMA CrashTypes == TypeInv /\ Crash => TypeInv'
BY RouterAssumption DEF TypeInv, TypeOK, CountersOK, Crash, Control, Sessions,
   max_handler_retries

\* Every reachable state of the router has its types; the retry counters and the threads
\* left behind by timeouts stay within dispatch's limits.
THEOREM RouterTypeCorrect == Spec => []TypeOK
<1>1. TypeInv /\ [Next]_vars => TypeInv'
  <2> SUFFICES ASSUME TypeInv, [Next]_vars PROVE TypeInv' OBVIOUS
  <2>1. CASE UNCHANGED vars
    BY <2>1 DEF vars, TypeInv, TypeOK, CountersOK
  <2>2. CASE Next
    BY <2>2, StepTypes, CrashTypes DEF Next
  <2> QED BY <2>1, <2>2
<1>2. TypeInv => TypeOK BY DEF TypeInv
<1> QED BY <1>1, <1>2, InitTypes, PTL DEF Spec
-----------------------------------------------------------------------------
(* Answers.                                                                *)

\* Two calls with one key that are both past the lock are the same call.
LEMMA OneInLock ==
    ASSUME KeysAreSerial, TypeOK, LockOK, NEW d \in Calls, NEW e \in Calls,
           Key[d] # NoKey, Key[d] = Key[e], pc[d] \in InLock, pc[e] \in InLock
    PROVE  d = e
BY DEF KeysAreSerial, LockOK

\* A step that moves d, frees at most d's lock and takes at most a free one keeps the
\* locks with their owners.
LEMMA LockKept ==
    ASSUME TypeOK, LockOK, NEW d \in Calls, NEW p \in Control, Goto(d, p),
           \/ UNCHANGED owner /\ (p \in InLock => pc[d] \in InLock)
           \/ FreesLock(d) /\ p \notin InLock
           \/ TakesLock(d)
    PROVE  LockOK'
<1> SUFFICES ASSUME NEW e \in Calls, Queue[e] = "dialog", pc'[e] \in InLock
             PROVE  owner'[Session[e]] = e
  BY DEF LockOK
<1> USE RouterAssumption
<1>0. Session[e] \in Sessions /\ Session[d] \in Sessions BY DEF Sessions
<1>1. pc'[d] = p /\ (e # d => pc'[e] = pc[e]) BY PlaceType
<1>2. CASE UNCHANGED owner /\ (p \in InLock => pc[d] \in InLock)
  BY <1>1, <1>2 DEF LockOK
<1>3. CASE FreesLock(d) /\ p \notin InLock
  BY <1>0, <1>1, <1>3 DEF LockOK, FreesLock, TypeOK
<1>4. CASE TakesLock(d)
  BY <1>0, <1>1, <1>4 DEF LockOK, TakesLock, TypeOK
<1> QED BY <1>2, <1>3, <1>4

\* A step that leaves the records alone and takes d past the check only when its message
\* is not completed keeps the checks, and the answers when d's own is right.
LEMMA RecordKept ==
    ASSUME TypeOK, CheckOK, AnswerIsRecorded, NEW d \in Calls, NEW p \in Control, Goto(d, p),
           UNCHANGED record,
           p \in PastCheck => pc[d] \in PastCheck \/ ~Executed(d),
           \/ UNCHANGED result
           \/ \E x : /\ result' = [result EXCEPT ![d] = x]
                     /\ x \in {"completed", "skipped_duplicate"} => Key[d] = NoKey \/ Executed(d)
    PROVE  CheckOK' /\ AnswerIsRecorded'
<1>1. pc'[d] = p /\ \A e \in Calls : e # d => pc'[e] = pc[e] BY PlaceType
<1>2. CheckOK'
  BY <1>1 DEF CheckOK, Executed
<1>3. AnswerIsRecorded'
  BY DEF AnswerIsRecorded, Executed, TypeOK
<1> QED BY <1>2, <1>3

\* A step of d past the check writes the record of d's key: nobody else relies on it.
LEMMA RecordWritten ==
    ASSUME KeysAreSerial, TypeOK, LockOK, CheckOK, AnswerIsRecorded, NEW d \in Calls,
           pc[d] \in PastCheck,
           NEW x \in {"executing", "completed", "failed"}, RecordExecution(d, x),
           NEW p \in Control, Goto(d, p),
           \/ x # "completed" /\ UNCHANGED result
           \/ /\ x = "completed" /\ p \notin PastCheck
              /\ result' = [result EXCEPT ![d] = "completed"]
    PROVE  CheckOK' /\ AnswerIsRecorded'
<1> USE RouterAssumption
<1>1. pc'[d] = p /\ \A e \in Calls : e # d => pc'[e] = pc[e] BY PlaceType
<1>2. \A e \in Calls : Key[e] # NoKey /\ Key[e] = Key[d] /\ e # d => pc[e] \notin PastCheck
  BY OneInLock DEF PastCheck
<1>3. \A k \in Keys : k # Key[d] => record'[k] = record[k]
  BY DEF RecordExecution, TypeOK
<1>4. Key[d] # NoKey => record'[Key[d]] = x
  BY DEF RecordExecution, TypeOK
<1>5. \A e \in Calls : Key[e] # NoKey => Key[e] \in Keys OBVIOUS
<1>6. CheckOK'
  <2> SUFFICES ASSUME NEW e \in Calls, Key[e] # NoKey, pc'[e] \in PastCheck
               PROVE  record'[Key[e]] # "completed"
    BY DEF CheckOK
  <2>1. CASE Key[e] # Key[d] BY <1>1, <1>3, <1>5, <2>1 DEF CheckOK
  <2>2. CASE Key[e] = Key[d] BY <1>1, <1>2, <1>4, <2>2
  <2> QED BY <2>1, <2>2
<1>7. AnswerIsRecorded'
  <2> SUFFICES ASSUME NEW e \in Calls, Key[e] # NoKey,
                      result'[e] \in {"skipped_duplicate", "completed"}
               PROVE  record'[Key[e]] = "completed"
    BY DEF AnswerIsRecorded
  <2>1. CASE x = "completed"
    BY <1>3, <1>4, <1>5, <2>1 DEF AnswerIsRecorded, TypeOK
  <2>2. CASE x # "completed"
    <3>1. record[Key[e]] = "completed" BY <2>2 DEF AnswerIsRecorded
    <3>2. Key[d] # NoKey => record[Key[d]] # "completed" BY DEF CheckOK
    <3> QED BY <1>3, <1>5, <3>1, <3>2
  <2> QED BY <2>1, <2>2
<1> QED BY <1>6, <1>7

\* No step of a call breaks the locks, the checks or the answers.
LEMMA StepSafe ==
    ASSUME KeysAreSerial, TypeInv, SafetyInv, NEW d \in Calls,
           Dispatch(d) \/ Step(d) \/ OrphanEnds(d)
    PROVE  LockOK' /\ CheckOK' /\ AnswerIsRecorded'
<1> USE DEF SafetyInv, At, InLock, PastCheck
<1>1. CASE Dispatch(d)
  <2>1. CASE Executed(d) /\ Return(d, "skipped_duplicate")
    BY <1>1, <2>1, LockKept, RecordKept DEF Dispatch, Return, Control
  <2>2. CASE ~Executed(d) /\ Goto(d, "lock") /\ UNCHANGED <<result, owner>>
    BY <1>1, <2>2, LockKept, RecordKept DEF Dispatch, Control
  <2> QED BY <1>1, <2>1, <2>2 DEF Dispatch
<1>2. CASE EnterLock(d)
  BY <1>2, LockKept, RecordKept DEF EnterLock, Control
<1>3. CASE CheckAgain(d)
  <2>1. CASE Executed(d) /\ Return(d, "skipped_duplicate")
    BY <1>3, <2>1, LockKept, RecordKept DEF CheckAgain, Return, Control
  <2>2. CASE ~Executed(d) /\ Goto(d, "record") /\ UNCHANGED <<result, owner>>
    BY <1>3, <2>2, LockKept, RecordKept DEF CheckAgain, Control
  <2> QED BY <1>3, <2>1, <2>2 DEF CheckAgain, SeenInLock
<1>4. CASE StartHandler(d)
  BY <1>4, LockKept, RecordWritten DEF StartHandler, Control
<1>5. CASE HandlerReturns(d)
  BY <1>5, LockKept, RecordKept DEF HandlerReturns, Control
<1>6. CASE TimesOut(d)
  BY <1>6, LockKept, RecordKept DEF TimesOut, Retry, GiveUp, Control
<1>7. ASSUME NEW x \in Errors, HandlerRaises(d, x)
      PROVE  LockOK' /\ CheckOK' /\ AnswerIsRecorded'
  BY <1>7, LockKept, RecordKept DEF HandlerRaises, Retry, GiveUp, Control
<1>8. ASSUME NEW x \in BOOLEAN, HandlerConflicts(d, x)
      PROVE  LockOK' /\ CheckOK' /\ AnswerIsRecorded'
  BY <1>8, LockKept, RecordKept DEF HandlerConflicts, Retry, GiveUp, Control
<1>9. CASE RecordCompleted(d)
  BY <1>9, LockKept, RecordWritten DEF RecordCompleted, Return, Control
<1>10. CASE RecordFailed(d)
  BY <1>10, LockKept, RecordWritten DEF RecordFailed, Control
<1>11. CASE SendToDlq(d)
  <2>1. error[d] \notin {"completed", "skipped_duplicate"} BY DEF TypeOK, Errors
  <2> QED BY <1>11, <2>1, LockKept, RecordKept DEF SendToDlq, Return, Control
<1>12. CASE StatementFails(d)
  <2>1. Goto(d, "returned") /\ FreesLock(d) /\ UNCHANGED record
        /\ result' = [result EXCEPT ![d] = "raised"]
    BY <1>12 DEF StatementFails, Return
  <2>2. LockOK' BY <2>1, LockKept DEF Control
  <2>3. \E x : /\ result' = [result EXCEPT ![d] = x]
               /\ x \in {"completed", "skipped_duplicate"} => Key[d] = NoKey \/ Executed(d)
    <3> WITNESS "raised"
    <3> QED BY <2>1
  <2>4. "returned" \in Control /\ "returned" \notin PastCheck BY DEF Control
  <2>5. CheckOK' /\ AnswerIsRecorded' BY <2>1, <2>3, <2>4, RecordKept DEF SafetyInv
  <2> QED BY <2>2, <2>5
<1>13. CASE OrphanEnds(d)
  BY <1>13 DEF OrphanEnds, LockOK, CheckOK, AnswerIsRecorded
<1> QED BY <1>1, <1>2, <1>3, <1>4, <1>5, <1>6, <1>7, <1>8, <1>9, <1>10, <1>11, <1>12, <1>13
       DEF Step, Handler

\* After a crash nobody is past a lock or a check, and the records are what they were.
LEMMA CrashSafe == SafetyInv /\ Crash => LockOK' /\ CheckOK' /\ AnswerIsRecorded'
BY DEF SafetyInv, Crash, LockOK, CheckOK, AnswerIsRecorded, InLock, PastCheck

\* When the deliveries of each message share one session's dialog queue, a call answered
\* "completed" or "skipped_duplicate" has its message on record as executed for good, for
\* any number of concurrent calls, timeouts, retries, failing statements and crashes.
THEOREM AnswersStayRecorded == KeysAreSerial => (Spec => []AnswerIsRecorded)
<1> SUFFICES ASSUME KeysAreSerial PROVE Spec => []AnswerIsRecorded OBVIOUS
<1>1. Init => SafetyInv
  BY InitTypes DEF Init, SafetyInv, TypeInv, LockOK, CheckOK, AnswerIsRecorded, InLock, PastCheck
<1>2. TypeInv /\ SafetyInv /\ [Next]_vars => TypeInv' /\ SafetyInv'
  <2> SUFFICES ASSUME TypeInv, SafetyInv, [Next]_vars PROVE TypeInv' /\ SafetyInv' OBVIOUS
  <2>1. CASE UNCHANGED vars
    BY <2>1 DEF vars, TypeInv, TypeOK, CountersOK, SafetyInv, LockOK, CheckOK, AnswerIsRecorded
  <2>2. CASE Next
    BY <2>2, StepTypes, CrashTypes, StepSafe, CrashSafe DEF Next, TypeInv, SafetyInv
  <2> QED BY <2>1, <2>2
<1>3. SafetyInv => AnswerIsRecorded BY DEF SafetyInv
<1> QED BY <1>1, <1>2, <1>3, InitTypes, PTL DEF Spec

-----------------------------------------------------------------------------
(* The dead letter queue.                                                  *)

\* A call has an answer once it has returned, and only then.
AnswerOK == \A d \in Calls : result[d] # "none" => pc[d] = "returned"

\* A call that keeps its message from being forgotten.
Keeps(d) == d \in dlq \/ pc[d] \in {"dlq", "lost"} \/ result[d] = "raised"

\* A step of one call leaves the others' places and answers alone, and the call's own
\* place and answer are those of its next step.
LEMMA OneCallMoves ==
    ASSUME TypeOK, AnswerOK, NEW d \in Calls, Dispatch(d) \/ Step(d) \/ OrphanEnds(d)
    PROVE  /\ \A e \in Calls : e # d => pc'[e] = pc[e] /\ result'[e] = result[e]
           /\ dlq \subseteq dlq'
           /\ AnswerOK'
           /\ Keeps(d) => Keeps(d)'
<1> USE DEF TypeOK, AnswerOK, Keeps
<1>1. CASE Dispatch(d) BY <1>1 DEF Dispatch, Return, At, Goto
<1>2. CASE EnterLock(d) BY <1>2 DEF EnterLock, At, Goto
<1>3. CASE CheckAgain(d) BY <1>3 DEF CheckAgain, Return, At, Goto
<1>4. CASE StartHandler(d) BY <1>4 DEF StartHandler, At, Goto
<1>5. CASE HandlerReturns(d) BY <1>5 DEF HandlerReturns, At, Goto
<1>6. CASE TimesOut(d) BY <1>6 DEF TimesOut, Retry, GiveUp, At, Goto
<1>7. ASSUME NEW status \in Errors, HandlerRaises(d, status)
      PROVE  /\ \A e \in Calls : e # d => pc'[e] = pc[e] /\ result'[e] = result[e]
             /\ dlq \subseteq dlq' /\ AnswerOK' /\ (Keeps(d) => Keeps(d)')
  BY <1>7 DEF HandlerRaises, Retry, GiveUp, At, Goto
<1>8. ASSUME NEW locked \in BOOLEAN, HandlerConflicts(d, locked)
      PROVE  /\ \A e \in Calls : e # d => pc'[e] = pc[e] /\ result'[e] = result[e]
             /\ dlq \subseteq dlq' /\ AnswerOK' /\ (Keeps(d) => Keeps(d)')
  BY <1>8 DEF HandlerConflicts, Retry, GiveUp, At, Goto
<1>9. CASE RecordCompleted(d) BY <1>9 DEF RecordCompleted, Return, At, Goto
<1>10. CASE RecordFailed(d) BY <1>10 DEF RecordFailed, At, Goto
<1>11. CASE SendToDlq(d) BY <1>11 DEF SendToDlq, send_to_dlq, Return, At, Goto
<1>12. CASE StatementFails(d) BY <1>12 DEF StatementFails, Return, Goto
<1>13. CASE OrphanEnds(d) BY <1>13 DEF OrphanEnds
<1> QED BY <1>1, <1>2, <1>3, <1>4, <1>5, <1>6, <1>7, <1>8, <1>9, <1>10, <1>11, <1>12, <1>13
       DEF Step, Handler

\* Only a call that goes on to the dead letter queue records a failure.
LEMMA WhoFails ==
    ASSUME TypeOK, NEW d \in Calls, Dispatch(d) \/ Step(d) \/ OrphanEnds(d), NEW k \in Keys,
           record'[k] = "failed", record[k] # "failed"
    PROVE  Key[d] = k /\ pc'[d] = "dlq"
<1> USE RouterAssumption DEF TypeOK
<1>1. CASE StartHandler(d) BY <1>1 DEF StartHandler, RecordExecution
<1>2. CASE RecordCompleted(d) BY <1>2 DEF RecordCompleted, RecordExecution
<1>3. CASE RecordFailed(d) BY <1>3 DEF RecordFailed, RecordExecution, Goto
<1>4. CASE UNCHANGED record BY <1>4
<1>5. StartHandler(d) \/ RecordCompleted(d) \/ RecordFailed(d) \/ UNCHANGED record
  BY DEF Step, Handler, Dispatch, EnterLock, CheckAgain, HandlerReturns, TimesOut,
         HandlerRaises, HandlerConflicts, SendToDlq, StatementFails, OrphanEnds
<1> QED BY <1>1, <1>2, <1>3, <1>4, <1>5

\* No message recorded as failed is forgotten: it is in the dead letter queue, or a call that
\* failed with it is about to put it there or was torn away just before (dispatch,
\* send_to_dlq), for any number of calls, keys and sessions.
THEOREM FailuresReachDlq == Spec => []FailedIsInDlq
<1>1. Init => AnswerOK /\ FailedIsInDlq
  BY DEF Init, AnswerOK, FailedIsInDlq
<1>2. TypeOK /\ AnswerOK /\ FailedIsInDlq /\ [Next]_vars => AnswerOK' /\ FailedIsInDlq'
  <2> SUFFICES ASSUME TypeOK, AnswerOK, FailedIsInDlq, [Next]_vars
               PROVE  AnswerOK' /\ FailedIsInDlq'
    OBVIOUS
  <2>1. CASE UNCHANGED vars
    BY <2>1 DEF vars, AnswerOK, FailedIsInDlq
  <2>2. ASSUME NEW d \in Calls, Dispatch(d) \/ Step(d) \/ OrphanEnds(d)
        PROVE  AnswerOK' /\ FailedIsInDlq'
    <3>1. \A e \in Calls : Keeps(e) => Keeps(e)'
      BY <2>2, OneCallMoves DEF Keeps
    <3>2. ASSUME NEW k \in Keys, record'[k] = "failed"
          PROVE  \E e \in Calls : Key[e] = k /\ Keeps(e)'
      <4>1. CASE record[k] = "failed"
        BY <3>1, <4>1 DEF FailedIsInDlq, Keeps
      <4>2. CASE record[k] # "failed"
        BY <2>2, <3>2, <4>2, WhoFails DEF Keeps
      <4> QED BY <4>1, <4>2
    <3>3. AnswerOK' BY <2>2, OneCallMoves
    <3> QED BY <3>2, <3>3 DEF FailedIsInDlq, Keeps
  <2>3. CASE Crash
    BY <2>3 DEF Crash, TypeOK, AnswerOK, FailedIsInDlq
  <2> QED BY <2>1, <2>2, <2>3 DEF Next
<1> QED BY <1>1, <1>2, RouterTypeCorrect, PTL DEF Spec
=============================================================================
