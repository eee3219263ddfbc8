---------------------------- MODULE ServiceProofs ----------------------------
(* Theorems about the services beside the conversation: tools, the model's backend,   *)
(* downloads, plugins, skills, samples, settings, subagents, UI sequences and the plan    *)
(* card.                                                                              *)
EXTENDS Services, FiniteSetTheorems, SequenceTheorems, WellFoundedInduction,
        NaturalsInduction, TLAPS

(***************************************************************************)
(* Tools                                                                   *)
(***************************************************************************)

\* A call is parked under one request, waits there and has not run; whatever has not
\* returned has not run.
ParkedOK ==
    /\ \A r \in ToolCalls : pending_actions[r] # NoCall =>
          toolcall[pending_actions[r]].pc = "requires_consent"
    /\ \A r, s \in ToolCalls : pending_actions[r] = pending_actions[s] /\ r # s =>
          pending_actions[r] = NoCall
RunsOK ==
    /\ runs \in [ToolCalls -> {0, 1}]
    /\ \A c \in ToolCalls : toolcall[c].pc # "returned" => runs[c] = 0

\* An answer under way has looked at a request.
AnswersOK == \A a \in Answers : tool_answer[a].pc # "new" => tool_answer[a].request \in ToolCalls

ToolsInv == ToolsTypeOK /\ ParkedOK /\ RunsOK /\ AnswersOK

\* Every call of a tool is performed at most once, for any number of calls and of answers
\* (ToolInvoker.execute, resume): the invariant that implies it.
THEOREM ToolsInvariant == ToolsSpec => []ToolsInv
<1>1. ToolsInit => ToolsInv
  <2> SUFFICES ASSUME ToolsInit PROVE ToolsInv
    OBVIOUS
  <2>1. ToolsTypeOK
    BY DEF ToolsInit, ToolsTypeOK
  <2>2. ParkedOK /\ RunsOK /\ AnswersOK
    BY DEF ToolsInit, ParkedOK, RunsOK, AnswersOK
  <2> QED BY <2>1, <2>2 DEF ToolsInv
<1>2. ToolsInv /\ [ToolsNext]_toolVars => ToolsInv'
  <2> SUFFICES ASSUME ToolsInv, [ToolsNext]_toolVars PROVE ToolsInv'
    OBVIOUS
  <2> USE NoCallAssumption DEF ToolsInv
  <2>1. ASSUME NEW c \in ToolCalls, NEW local_only \in BOOLEAN, execute(c, local_only)
        PROVE  ToolsInv'
    <3> DEFINE permission == resolve_permission(c, local_only)
    <3>1. /\ toolcall[c].pc = "new"
          /\ toolcall' = [toolcall EXCEPT ![c] =
                [pc |-> IF permission = "ask" THEN "submit" ELSE "returned",
                 action |-> "execute"]]
          /\ IF permission = "allow" THEN Perform(c) ELSE UNCHANGED <<enabled, runs>>
          /\ UNCHANGED <<tool, tool_answer, consent, last_artifact, pending_actions>>
      BY <2>1 DEF execute
    <3> HIDE DEF permission
    <3>2. enabled' \in BOOLEAN
      BY <3>1 DEF Perform, set_external_enabled, ToolsTypeOK
    <3>3. ToolsTypeOK'
      BY <3>1, <3>2 DEF ToolsTypeOK
    <3>4. ParkedOK'
      BY <3>1 DEF ParkedOK, ToolsTypeOK
    <3>5. RunsOK'
      <4>1. CASE permission = "allow"
        BY <3>1, <4>1 DEF RunsOK, Perform, ToolsTypeOK
      <4>2. CASE permission # "allow"
        BY <3>1, <4>2 DEF RunsOK, ToolsTypeOK
      <4> QED BY <4>1, <4>2
    <3>6. AnswersOK'
      BY <3>1 DEF AnswersOK
    <3> QED BY <3>3, <3>4, <3>5, <3>6
  <2>2. ASSUME NEW c \in ToolCalls, enable_external(c) PROVE ToolsInv'
    BY <2>2 DEF enable_external, ToolsTypeOK, ParkedOK, RunsOK, AnswersOK
  <2>3. ASSUME NEW c \in ToolCalls, SubmitConsent(c) PROVE ToolsInv'
    BY <2>3 DEF SubmitConsent, MoveTo, ToolsTypeOK, ParkedOK, RunsOK, AnswersOK
  <2>4. ASSUME NEW c \in ToolCalls, ParkAction(c) PROVE ToolsInv'
    <3>1. /\ toolcall[c].pc = "asked"
          /\ toolcall' = [toolcall EXCEPT ![c].pc =
                IF consent[last_artifact] = "pending" THEN "requires_consent" ELSE "returned"]
          /\ \/ consent[last_artifact] = "pending"
                /\ pending_actions' = [pending_actions EXCEPT ![last_artifact] = c]
             \/ consent[last_artifact] # "pending" /\ pending_actions' = pending_actions
          /\ UNCHANGED <<tool, tool_answer, enabled, consent, last_artifact, runs>>
      BY <2>4 DEF ParkAction, MoveTo
    <3>2. ToolsTypeOK'
      <4>1. pending_actions' \in [ToolCalls -> ToolCalls \cup {NoCall}]
        BY <3>1 DEF ToolsTypeOK
      <4>2. toolcall' \in [ToolCalls -> [pc : {"new", "submit", "asked", "requires_consent", "returned"},
                                   action : {"execute", "enable_external"}]]
        BY <3>1 DEF ToolsTypeOK
      <4> QED BY <3>1, <4>1, <4>2 DEF ToolsTypeOK
    <3>3. \A r \in ToolCalls : pending_actions[r] # c
      BY <3>1 DEF ParkedOK
    <3>4. /\ \A d \in ToolCalls : d # c => toolcall'[d] = toolcall[d]
          /\ toolcall'[c].pc = IF consent[last_artifact] = "pending"
                               THEN "requires_consent" ELSE "returned"
      BY <3>1 DEF ToolsTypeOK
    <3>5. \A r \in ToolCalls : pending_actions'[r] =
             IF r = last_artifact /\ consent[last_artifact] = "pending" THEN c ELSE pending_actions[r]
      BY <3>1 DEF ToolsTypeOK
    <3>6. pending_actions \in [ToolCalls -> ToolCalls \cup {NoCall}]
      BY DEF ToolsTypeOK
    <3>7. ParkedOK'
      BY <3>3, <3>4, <3>5, <3>6 DEF ParkedOK
    <3>8. RunsOK' /\ AnswersOK'
      BY <3>1, <3>4 DEF RunsOK, AnswersOK
    <3> QED BY <3>2, <3>7, <3>8
  <2>5. ASSUME NEW a \in Answers, NEW r \in ToolCalls, NEW allowed \in BOOLEAN,
               ResumeLook(a, r, allowed)
        PROVE  ToolsInv'
    BY <2>5 DEF ResumeLook, ToolsTypeOK, ParkedOK, RunsOK, AnswersOK
  <2>6. ASSUME NEW a \in Answers, ResumeDecide(a) PROVE ToolsInv'
    BY <2>6 DEF ResumeDecide, ToolsTypeOK, ParkedOK, RunsOK, AnswersOK
  <2>7. ASSUME NEW a \in Answers, TakeParked(a) PROVE ToolsInv'
    <3> DEFINE r == tool_answer[a].request
               c == pending_actions[r]
    <3>1. /\ pending_actions' = [pending_actions EXCEPT ![r] = NoCall]
          /\ tool_answer' = [tool_answer EXCEPT ![a].pc = "done"]
          /\ UNCHANGED <<tool, consent, last_artifact>>
      BY <2>7 DEF TakeParked, Left
    <3>2. r \in ToolCalls /\ c \in ToolCalls \cup {NoCall}
      BY <2>7 DEF TakeParked, AnswersOK, ToolsTypeOK
    <3>3. /\ pending_actions'[r] = NoCall
          /\ \A s \in ToolCalls : s # r => pending_actions'[s] = pending_actions[s]
          /\ pending_actions' \in [ToolCalls -> ToolCalls \cup {NoCall}]
      BY <3>1, <3>2 DEF ToolsTypeOK
    <3>4. AnswersOK' /\ tool_answer' \in [Answers -> [pc : {"new", "decide", "pop", "done"},
                               request : ToolCalls \cup {NoCall}, allowed : BOOLEAN]]
      BY <2>7, <3>1 DEF TakeParked, AnswersOK, ToolsTypeOK
    <3>5. CASE c = NoCall
      <4>1. UNCHANGED <<enabled, runs, toolcall>>
        BY <2>7, <3>5 DEF TakeParked
      <4>2. ToolsTypeOK'
        BY <3>1, <3>3, <3>4, <4>1 DEF ToolsTypeOK
      <4>3. ParkedOK' /\ RunsOK'
        BY <3>3, <4>1 DEF ParkedOK, RunsOK
      <4> QED BY <3>4, <4>2, <4>3
    <3>6. CASE c \in ToolCalls
      <4>1. /\ toolcall' = [toolcall EXCEPT ![c].pc = "returned"]
            /\ Perform(c) \/ UNCHANGED <<enabled, runs>>
        BY <2>7, <3>6 DEF TakeParked, MoveTo
      <4>2. enabled' \in BOOLEAN
        BY <4>1 DEF Perform, set_external_enabled, ToolsTypeOK
      <4>3. ToolsTypeOK'
        <5>1. toolcall' \in [ToolCalls -> [pc : {"new", "submit", "asked", "requires_consent", "returned"},
                                   action : {"execute", "enable_external"}]]
          BY <3>6, <4>1 DEF ToolsTypeOK
        <5> QED BY <3>1, <3>3, <3>4, <4>2, <5>1 DEF ToolsTypeOK
      <4>4. /\ toolcall'[c].pc = "returned"
            /\ \A d \in ToolCalls : d # c => toolcall'[d] = toolcall[d]
        BY <3>6, <4>1 DEF ToolsTypeOK
      <4>5. \A s \in ToolCalls : s # r => pending_actions[s] # c
        BY <3>2, <3>6 DEF ParkedOK
      <4>6. ParkedOK'
        BY <3>3, <4>4, <4>5 DEF ParkedOK
      <4>7. toolcall[c].pc = "requires_consent" /\ runs[c] = 0
        BY <3>2, <3>6 DEF ParkedOK, RunsOK
      <4>8. RunsOK'
        BY <3>6, <4>1, <4>4, <4>7 DEF RunsOK, Perform
      <4> HIDE DEF c, r
      <4> QED BY <3>4, <4>3, <4>6, <4>8
    <3> HIDE DEF c, r
    <3> QED BY <3>2, <3>5, <3>6
  <2>8. CASE UNCHANGED toolVars
    BY <2>8 DEF toolVars, ToolsTypeOK, ParkedOK, RunsOK, AnswersOK
  <2> QED BY <2>1, <2>2, <2>3, <2>4, <2>5, <2>6, <2>7, <2>8 DEF ToolsNext
<1> QED BY <1>1, <1>2, PTL DEF ToolsSpec

\* A tool call is performed at most once, whichever request the racing last_artifact has
\* parked it under and however many answers arrive.
THEOREM ToolsPerformOnce == ToolsSpec => []PerformedOnce
<1>1. ToolsInv => PerformedOnce
  BY NoCallAssumption DEF ToolsInv, ToolsTypeOK, ParkedOK, RunsOK, PerformedOnce
<1> QED BY <1>1, ToolsInvariant, PTL

(***************************************************************************)
(* Downloads                                                               *)
(***************************************************************************)

\* What is about to be installed has been verified.
DownloadInv == InstalledIsVerified /\ (download_worker = "install" => temp = "good")

\* The model's file and the running backend passed the digest check, for any requests,
\* sources and retries, through resumes, cancellations and restarts (ModelDownloader.download).
THEOREM InstallsAreVerified == DownloadSpec => []InstalledIsVerified
<1>1. DownloadInit => DownloadInv
  BY DEF DownloadInit, DownloadInv, InstalledIsVerified
<1>2. DownloadInv /\ [DownloadNext]_downloadVars => DownloadInv'
  <2> SUFFICES ASSUME DownloadInv, [DownloadNext]_downloadVars PROVE DownloadInv'
    OBVIOUS
  <2> USE DEF DownloadInv, InstalledIsVerified
  <2>1. ASSUME NEW r \in Requests, AskDownload(r) \/ SubmitDownload(r) \/ AskCancel(r) \/ Cancel(r)
        PROVE  DownloadInv'
    BY <2>1 DEF AskDownload, SubmitDownload, AskCancel, Cancel
  <2>2. CASE StartJob \/ NoSpace \/ BeginDownload
    BY <2>2 DEF StartJob, NoSpace, BeginDownload, EndJob
  <2>3. ASSUME NEW resumed \in BOOLEAN, OpenTemp(resumed) PROVE DownloadInv'
    BY <2>3 DEF OpenTemp
  <2>4. CASE TransferEnds \/ TransferCancelled
    BY <2>4 DEF TransferEnds, TransferCancelled, EndJob
  <2>5. ASSUME NEW t, NextAttempt(t) PROVE download_worker' # "install"
    BY <2>5 DEF NextAttempt, EndJob
  <2>6. CASE AttemptFails \/ InstallFails
    BY <2>5, <2>6 DEF AttemptFails, InstallFails
  <2>7. CASE Verify
    <3>1. CASE DigestMatches
      BY <2>7, <3>1 DEF Verify, DigestMatches
    <3>2. CASE ~DigestMatches
      BY <2>5, <2>7, <3>2 DEF Verify
    <3> QED BY <3>1, <3>2
  <2>8. CASE Install \/ Activate \/ RestartHost
    BY <2>8 DEF Install, Activate, RestartHost
  <2>9. CASE UNCHANGED downloadVars
    BY <2>9 DEF downloadVars
  <2> QED BY <2>1, <2>2, <2>3, <2>4, <2>6, <2>7, <2>8, <2>9 DEF DownloadNext
<1> QED BY <1>1, <1>2, PTL DEF DownloadSpec, DownloadInv

\* The types of a download: a job is counted until the pool thread is done with it.
DownloadTypes == DownloadTypeOK /\ (download_worker # "idle" => jobs > 0)

\* The numbers of an attempt stay in their ranges.
LEMMA NextAttemptTypes ==
    ASSUME DownloadTypes, NEW t \in Contents, NextAttempt(t), download_worker # "idle"
    PROVE  /\ jobs' \in 0..MaxJobs /\ source' \in 1..Sources /\ attempt' \in 1..DownloadRetries
           /\ state' \in Busy \cup Ended \cup {"none"} /\ cancel_flag' \in {"none", "clear", "set"}
           /\ temp' \in Contents /\ download_worker' \in {"idle", "request"}
           /\ download_worker' = "request" => jobs' = jobs
<1>1. /\ jobs \in 1..MaxJobs /\ source \in 1..Sources /\ attempt \in 1..DownloadRetries
      /\ state \in Busy \cup Ended \cup {"none"} /\ cancel_flag \in {"none", "clear", "set"}
      /\ MaxJobs \in Nat /\ Sources \in Nat \ {0} /\ DownloadRetries \in Nat \ {0}
  BY DownloadAssumption DEF DownloadTypes, DownloadTypeOK
<1>2. "none" \in Contents /\ "failed" \in Ended BY DEF Contents, Ended
<1> QED BY <1>1, <1>2 DEF NextAttempt, EndJob

\* Every variable of a download keeps its type.
THEOREM DownloadTypeCorrect == DownloadSpec => []DownloadTypeOK
<1>1. DownloadInit => DownloadTypes
  BY DownloadAssumption DEF DownloadInit, DownloadTypes, DownloadTypeOK, JobPc, Contents
<1>2. DownloadTypes /\ [DownloadNext]_downloadVars => DownloadTypes'
  <2> SUFFICES ASSUME DownloadTypes, [DownloadNext]_downloadVars PROVE DownloadTypes' OBVIOUS
  <2>0. /\ http \in [Requests -> {"idle", "submit", "cancel"}]
        /\ jobs \in 0..MaxJobs /\ source \in 1..Sources /\ attempt \in 1..DownloadRetries
        /\ download_worker \in JobPc /\ (download_worker # "idle" => jobs > 0)
        /\ state \in Busy \cup Ended \cup {"none"} /\ cancel_flag \in {"none", "clear", "set"}
        /\ temp \in Contents /\ final \in Contents /\ backend \in Contents
        /\ MaxJobs \in Nat /\ 1 \in 1..Sources /\ 1 \in 1..DownloadRetries
    BY DownloadAssumption DEF DownloadTypes, DownloadTypeOK
  <2>N. /\ {"none", "part", "good", "bad"} = Contents
        /\ {"idle", "start", "request", "transfer", "verify", "install", "activate"} = JobPc
        /\ {"pending", "downloading", "verifying", "completed", "failed", "cancelled"} = Busy \cup Ended
    BY DEF Contents, JobPc, Busy, Ended
  <2> USE DEF DownloadTypes, DownloadTypeOK
  <2>1. ASSUME NEW r \in Requests, AskDownload(r) PROVE DownloadTypes' BY <2>0, <2>1 DEF AskDownload
  <2>2. ASSUME NEW r \in Requests, SubmitDownload(r) PROVE DownloadTypes'
    BY <2>0, <2>2 DEF SubmitDownload
  <2>3. ASSUME NEW r \in Requests, AskCancel(r) \/ Cancel(r) PROVE DownloadTypes'
    BY <2>0, <2>3 DEF AskCancel, Cancel
  <2>4. CASE StartJob BY <2>0, <2>N, <2>4 DEF StartJob
  <2>5. CASE NoSpace BY <2>0, <2>N, <2>5 DEF NoSpace
  <2>6. CASE BeginDownload BY <2>0, <2>N, <2>6 DEF BeginDownload, EndJob
  <2>7. ASSUME NEW resumed \in BOOLEAN, OpenTemp(resumed) PROVE DownloadTypes'
    BY <2>0, <2>N, <2>7 DEF OpenTemp, Response
  <2>8. Appended(temp) \subseteq Contents BY <2>N DEF Appended
  <2>9. CASE TransferEnds BY <2>0, <2>N, <2>8, <2>9 DEF TransferEnds
  <2>10. CASE TransferCancelled BY <2>0, <2>N, <2>8, <2>10 DEF TransferCancelled, EndJob
  <2>11. ASSUME NEW t \in Contents, NextAttempt(t), download_worker # "idle",
                UNCHANGED <<http, final, backend>>
         PROVE  DownloadTypes'
    BY <2>0, <2>N, <2>11, NextAttemptTypes
  <2>12. CASE AttemptFails
    <3>1. PICK t \in {temp} \cup (IF download_worker = "transfer" THEN Appended(temp) ELSE {}) : NextAttempt(t)
      BY <2>12 DEF AttemptFails
    <3>2. t \in Contents BY <2>0, <2>8, <3>1
    <3> QED BY <2>11, <2>12, <3>1, <3>2 DEF AttemptFails
  <2>13. CASE Verify
    <3>1. CASE DigestMatches BY <2>0, <2>N, <2>13, <3>1 DEF Verify
    <3>2. CASE ~DigestMatches
      <4>1. "none" \in Contents BY <2>N
      <4> QED BY <2>11, <2>13, <3>2, <4>1 DEF Verify
    <3> QED BY <3>1, <3>2
  <2>14. CASE Install BY <2>0, <2>N, <2>14 DEF Install
  <2>15. CASE InstallFails BY <2>0, <2>11, <2>15 DEF InstallFails
  <2>16. CASE Activate BY <2>0, <2>N, <2>16 DEF Activate
  <2>17. CASE RestartHost BY <2>0, <2>N, <2>17 DEF RestartHost
  <2>18. CASE UNCHANGED downloadVars BY <2>0, <2>18 DEF downloadVars
  <2> QED BY <2>1, <2>2, <2>3, <2>4, <2>5, <2>6, <2>7, <2>9, <2>10, <2>12, <2>13, <2>14, <2>15,
             <2>16, <2>17, <2>18 DEF DownloadNext
<1> QED BY <1>1, <1>2, PTL DEF DownloadSpec, DownloadTypes

(***************************************************************************)
(* Backend                                                                 *)
(***************************************************************************)

ActivationType ==
    activation \in [Activators -> {NotActivating} \cup
        [at : {"start", "wait", "stop", "end"}, old : 1..made, new : 1..made]]

\* A backend that is not installed yet is nobody's old one and nobody else's new one, and
\* is neither in use nor retired; an activation that is about to stop its old backend
\* no longer finds it in use.
NewOK == \A a \in Activators : activation[a].at \in {"start", "wait"} =>
    /\ activation[a].new \notin retired /\ activation[a].new # current_backend
    /\ \A b \in Activators : activation[b].at # "rest" => activation[b].old # activation[a].new
    /\ \A b \in Activators : b # a /\ activation[b].at # "rest" =>
          activation[b].new # activation[a].new
OldOK == \A a \in Activators : activation[a].at = "stop" =>
    activation[a].old # current_backend

BackendInv ==
    /\ made \in Nat /\ current_backend \in 1..made /\ retired \subseteq 1..made
    /\ ActivationType /\ NewOK /\ OldOK /\ CurrentIsNotRetired

\* The backends an activation holds are told apart.
LEMMA BackendInvariant == BackendSpec => []BackendInv
<1>1. BackendInit => BackendInv
  BY DEF BackendInit, BackendInv, ActivationType, NewOK, OldOK, CurrentIsNotRetired, NotActivating
<1>2. BackendInv /\ [BackendNext]_backendVars => BackendInv'
  <2> SUFFICES ASSUME BackendInv, [BackendNext]_backendVars PROVE BackendInv'
    OBVIOUS
  <2> USE DEF BackendInv, CurrentIsNotRetired
  <2>1. ASSUME UNCHANGED <<current_backend, made, retired, activation>> PROVE BackendInv'
    BY <2>1 DEF ActivationType, NewOK, OldOK
  <2>2. ASSUME NEW b \in BackendIds, ServerLoads(b) \/ ServerExits(b) PROVE BackendInv'
    BY <2>1, <2>2 DEF ServerLoads, ServerExits
  <2>3. ASSUME NEW g \in Generators,
               \/ StartGenerating(g) \/ StartServer(g) \/ SpawnServer(g)
               \/ WaitReady(g) \/ Post(g) \/ PostFails(g)
        PROVE  BackendInv'
    BY <2>1, <2>3 DEF StartGenerating, StartServer, SpawnServer, WaitReady, Post, PostFails
  <2>4. ASSUME NEW a \in Activators, BeginActivation(a) PROVE BackendInv'
    BY <2>4 DEF BeginActivation, ActivationAt, ActivationType, NewOK, OldOK, NotActivating
  <2>5. ASSUME NEW a \in Activators, LoadBackend(a) PROVE BackendInv'
    BY <2>5 DEF LoadBackend, ActivationAt, ActivationType, NewOK, OldOK, NotActivating
  <2>6. ASSUME NEW a \in Activators, ModelLoadFails(a) PROVE BackendInv'
    BY <2>6 DEF ModelLoadFails, ActivationAt, ActivationType, NewOK, OldOK, NotActivating
  <2>7. ASSUME NEW a \in Activators, Installs(a) PROVE BackendInv'
    BY <2>7 DEF Installs, ActivationAt, ActivationType, NewOK, OldOK, NotActivating
  <2>8. ASSUME NEW a \in Activators, StopOld(a) PROVE BackendInv'
    BY <2>8 DEF StopOld, ActivationAt, ActivationType, NewOK, OldOK, NotActivating
  <2>9. ASSUME NEW a \in Activators, ActivationReturns(a) PROVE BackendInv'
    BY <2>9 DEF ActivationReturns, ActivationAt, ActivationType, NewOK, OldOK, NotActivating
  <2>10. CASE UNCHANGED backendVars
    BY <2>1, <2>10 DEF backendVars
  <2> QED BY <2>2, <2>3, <2>4, <2>5, <2>6, <2>7, <2>8, <2>9, <2>10 DEF BackendNext
<1> QED BY <1>1, <1>2, PTL DEF BackendSpec

\* However many activations overlap, with and without the lock, the current backend is
\* not one of those an activation has stopped (activate_model, activate_downloaded_model).
THEOREM CurrentIsServing == BackendSpec => []CurrentIsNotRetired
<1>1. BackendInv => CurrentIsNotRetired BY DEF BackendInv
<1> QED BY <1>1, BackendInvariant, PTL

GenerationType ==
    generation \in [Generators ->
        [at : {"rest", "start", "spawn", "wait", "post"}, on : Nat \cup {NoBackend}, attempt : 0..1]]

\* Every variable of the local model's backends keeps its type.
THEOREM BackendTypeCorrect == BackendSpec => []BackendTypeOK
<1>1. BackendInit => BackendTypeOK /\ GenerationType
  BY BackendAssumption DEF BackendInit, BackendTypeOK, GenerationType, NotGenerating, BackendIds
<1>2. BackendTypeOK /\ GenerationType /\ BackendInv /\ [BackendNext]_backendVars
        => (BackendTypeOK /\ GenerationType)'
  <2> SUFFICES ASSUME BackendTypeOK, GenerationType, BackendInv, [BackendNext]_backendVars
               PROVE  BackendTypeOK' /\ GenerationType'
    OBVIOUS
  <2>0. /\ current_backend \in 1..made /\ made \in BackendIds /\ retired \subseteq 1..made
        /\ process \in [BackendIds -> {"none", "loading", "ready", "exited"}]
        /\ activation_lock \in Activators \cup {NoBackend}
        /\ made \in Nat /\ MaxBackends \in Nat /\ current_backend \in Nat
        /\ BackendIds = 1..MaxBackends
    BY BackendAssumption DEF BackendTypeOK, BackendIds
  <2>A. ASSUME NEW a \in Activators
        PROVE  /\ activation[a].at \in {"start", "wait", "stop", "end"} =>
                     activation[a].new \in 1..made /\ activation[a].old \in 1..made
    BY DEF BackendInv, ActivationType, NotActivating
  <2>P. ASSUME NEW b, NEW v \in {"none", "loading", "ready", "exited"}
        PROVE  [process EXCEPT ![b] = v] \in [BackendIds -> {"none", "loading", "ready", "exited"}]
    BY <2>0
  <2>G. ASSUME UNCHANGED <<current_backend, made, retired, activation_lock>>, process' \in [BackendIds -> {"none", "loading", "ready", "exited"}],
               GenerationType'
        PROVE  BackendTypeOK'
    BY <2>0, <2>G DEF BackendTypeOK, GenerationType
  <2>1. ASSUME NEW b \in BackendIds, ServerLoads(b) \/ ServerExits(b) PROVE BackendTypeOK' /\ GenerationType'
    BY <2>P, <2>G, <2>1 DEF ServerLoads, ServerExits, GenerationType
  <2>R. (UNCHANGED generation) => GenerationType' BY DEF GenerationType
  <2>T. GenerationType' => \A g \in Generators : generation'[g].attempt \in 0..1 BY DEF GenerationType
  <2>2. ASSUME NEW a \in Activators, BeginActivation(a) PROVE BackendTypeOK' /\ GenerationType'
    <3>1. made' = made + 1 /\ made < MaxBackends /\ UNCHANGED <<current_backend, process, retired, generation>>
          /\ activation_lock' \in Activators \cup {NoBackend}
      BY <2>0, <2>2 DEF BeginActivation
    <3> QED BY <2>0, <2>R, <2>T, <3>1 DEF BackendTypeOK
  <2>3. ASSUME NEW a \in Activators, LoadBackend(a) \/ ModelLoadFails(a) PROVE BackendTypeOK' /\ GenerationType'
    BY <2>P, <2>G, <2>R, <2>3 DEF LoadBackend, ModelLoadFails, Spawn, Stopped
  <2>4. ASSUME NEW a \in Activators, Installs(a) PROVE BackendTypeOK' /\ GenerationType'
    BY <2>0, <2>A, <2>R, <2>T, <2>4 DEF Installs, ActivationAt, BackendTypeOK
  <2>5. ASSUME NEW a \in Activators, StopOld(a) PROVE BackendTypeOK' /\ GenerationType'
    <3>1. /\ activation[a].old \in 1..made /\ retired' = retired \cup {activation[a].old}
          /\ UNCHANGED <<current_backend, made, activation_lock, generation>>
          /\ process' \in [BackendIds -> {"none", "loading", "ready", "exited"}]
      BY <2>A, <2>P, <2>5 DEF StopOld, ActivationAt, Stopped
    <3> QED BY <2>0, <2>R, <2>T, <3>1 DEF BackendTypeOK
  <2>6. ASSUME NEW a \in Activators, ActivationReturns(a) PROVE BackendTypeOK' /\ GenerationType'
    BY <2>0, <2>R, <2>T, <2>6 DEF ActivationReturns, BackendTypeOK
  <2>7. ASSUME NEW g \in Generators, StartGenerating(g) PROVE BackendTypeOK' /\ GenerationType'
    <3>1. GenerationType' BY <2>0, <2>7 DEF StartGenerating, GenerationType
    <3> QED BY <2>0, <2>G, <2>7, <3>1 DEF StartGenerating
  <2>8. ASSUME NEW g \in Generators, NEW place \in {"rest", "start", "spawn", "wait", "post"},
               GenerationGoes(g, place) \/ GenerationReturns(g)
        PROVE  GenerationType'
    BY <2>8 DEF GenerationGoes, GenerationReturns, NotGenerating, GenerationType
  <2>9. ASSUME NEW g \in Generators, StartServer(g) \/ SpawnServer(g) PROVE BackendTypeOK' /\ GenerationType'
    <3>1. GenerationType' BY <2>8, <2>9 DEF StartServer, SpawnServer
    <3> QED BY <2>0, <2>P, <2>G, <2>9, <3>1 DEF StartServer, SpawnServer, Spawn
  <2>10. ASSUME NEW g \in Generators, WaitReady(g) \/ Post(g) PROVE BackendTypeOK' /\ GenerationType'
    <3>1. GenerationType' BY <2>8, <2>10 DEF WaitReady, Post
    <3> QED BY <2>0, <2>P, <2>G, <2>10, <3>1 DEF WaitReady, Post, Stopped
  <2>11. ASSUME NEW g \in Generators, PostFails(g) PROVE BackendTypeOK' /\ GenerationType'
    <3>1. ASSUME generation' = [generation EXCEPT ![g].at = "start", ![g].attempt = 1]
          PROVE  GenerationType'
      <4> DEFINE m == [generation[g] EXCEPT !.at = "start"]
                 r == [m EXCEPT !.attempt = 1]
                 Stage == [at : {"rest", "start", "spawn", "wait", "post"},
                           on : Nat \cup {NoBackend}, attempt : 0..1]
      <4>1. generation[g] \in Stage BY DEF GenerationType
      <4>2. m \in Stage BY <4>1
      <4>3. generation' = [generation EXCEPT ![g] = r] BY <3>1 DEF GenerationType
      <4> HIDE DEF m
      <4>4. r \in Stage BY <4>2
      <4> HIDE DEF r
      <4> QED BY <4>3, <4>4 DEF GenerationType
    <3>2. GenerationType' BY <2>8, <2>11, <3>1 DEF PostFails
    <3> QED BY <2>0, <2>P, <2>G, <2>11, <3>2 DEF PostFails, Stopped
  <2>12. CASE UNCHANGED backendVars BY <2>0, <2>G, <2>R, <2>12 DEF backendVars
  <2> QED BY <2>1, <2>2, <2>3, <2>4, <2>5, <2>6, <2>7, <2>9, <2>10, <2>11, <2>12 DEF BackendNext
<1> QED BY <1>1, <1>2, BackendInvariant, PTL DEF BackendSpec

(***************************************************************************)
(* Plugins                                                                 *)
(***************************************************************************)

PluginCount == Cardinality(Plugins)

\* An operation that is over has nothing left to go through.
TodoOK ==
    /\ todo \in Seq(Plugins)
    /\ loader = "idle" => todo = <<>>

\* A plugin between two states is the one the loader is at.
BusyOK == \A p \in Plugins :
    /\ fiber[p] = "loading" => todo # <<>> /\ p = Head(todo) /\ Loading(p)
    /\ fiber[p] = "unloading" => todo # <<>> /\ p = Head(todo) /\ ~Loading(p)

\* Only a plugin in use holds resources, and only a loaded one offers its service.
HoldOK == \A p \in Plugins :
    /\ disposers[p] # 0 => fiber[p] \in {"loading", "active", "unloading"}
    /\ p \in services <=> fiber[p] \in {"active", "unloading"}

\* What unload_all has left is the end of its order; the plugins before are not in use.
UnloadRest ==
    /\ Len(todo) <= PluginCount
    /\ \A i \in 1..Len(todo) : todo[i] = UnloadOrder[PluginCount - Len(todo) + i]
    /\ \A i \in 1..PluginCount - Len(todo) : fiber[UnloadOrder[i]] \notin {"active", "unloading"}
UnloadOK == loader = "unload" => UnloadRest

PluginInv == PluginTypeOK /\ TodoOK /\ BusyOK /\ HoldOK /\ UnloadOK

\* The loader's order holds every plugin, each behind what it requires; the order of
\* unload_all is the reverse.
LEMMA PluginOrder ==
    /\ PluginCount \in Nat
    /\ TopologicalOrder \in [1..PluginCount -> Plugins]
    /\ \A p \in Plugins : \E i \in 1..PluginCount : TopologicalOrder[i] = p
    /\ Respects(TopologicalOrder)
    /\ UnloadOrder \in [1..PluginCount -> Plugins]
    /\ \A i \in 1..PluginCount : UnloadOrder[i] = TopologicalOrder[PluginCount + 1 - i]
<1>1. PluginCount \in Nat BY PluginsAssumption, FS_CardinalityType DEF PluginCount
<1>2. /\ TopologicalOrder \in [1..PluginCount -> Plugins]
      /\ \A p \in Plugins : \E i \in DOMAIN TopologicalOrder : TopologicalOrder[i] = p
      /\ Respects(TopologicalOrder)
  BY PluginsAssumption DEF TopologicalOrder, PluginCount
<1>3. DOMAIN TopologicalOrder = 1..PluginCount /\ Len(TopologicalOrder) = PluginCount
  BY <1>1, <1>2
<1>4. /\ UnloadOrder \in [1..PluginCount -> Plugins]
      /\ \A i \in 1..PluginCount : UnloadOrder[i] = TopologicalOrder[PluginCount + 1 - i]
  BY <1>1, <1>2, <1>3 DEF UnloadOrder, Reversed
<1> QED BY <1>1, <1>2, <1>3, <1>4

\* What is left after the first of the plugins to go through.
LEMMA RestOfTodo ==
    ASSUME TodoOK, todo # <<>>
    PROVE  /\ Head(todo) \in Plugins /\ Head(todo) = todo[1] /\ Len(todo) \in Nat \ {0}
           /\ Tail(todo) \in Seq(Plugins) /\ Len(Tail(todo)) = Len(todo) - 1
           /\ Len(todo) = 1 => Tail(todo) = <<>>
           /\ \A i \in 1..Len(todo) - 1 : Tail(todo)[i] = todo[i + 1]
<1>1. todo \in Seq(Plugins) BY DEF TodoOK
<1>2. /\ Head(todo) \in Plugins /\ Tail(todo) \in Seq(Plugins)
      /\ Len(Tail(todo)) = Len(todo) - 1
      /\ \A i \in 1..Len(Tail(todo)) : Tail(todo)[i] = todo[i + 1]
  BY <1>1, HeadTailProperties
<1>3. Len(todo) \in Nat \ {0} BY <1>1, EmptySeq
<1>4. Len(todo) = 1 => Tail(todo) = <<>>
  <2>1. Tail(todo) # <<>> => Len(Tail(todo)) \in Nat \ {0} BY <1>2, EmptySeq
  <2> QED BY <1>2, <2>1
<1> QED BY <1>1, <1>2, <1>3, <1>4

\* A plugin is released only when no active one requires it.
LEMMA UnloadIsSafe == ASSUME PluginInv PROVE PluginsUnwind
<1> USE DEF PluginInv
<1>1. ASSUME NEW p \in Plugins, loader = "unload", fiber[p] = "unloading",
             NEW q \in Plugins, p \in Requires[q]
      PROVE  fiber[q] # "active"
  <2>1. todo # <<>> /\ p = Head(todo) BY <1>1 DEF BusyOK
  <2> DEFINE k == PluginCount - Len(todo) + 1
  <2>2. k \in 1..PluginCount /\ p = UnloadOrder[k]
    <3>1. PluginCount \in Nat BY PluginOrder
    <3>2. Len(todo) \in Nat \ {0} /\ p = todo[1] BY <2>1, RestOfTodo
    <3>3. Len(todo) <= PluginCount /\ todo[1] = UnloadOrder[k]
      BY <1>1, <3>1, <3>2 DEF UnloadOK, UnloadRest
    <3> QED BY <3>1, <3>2, <3>3
  <2>3. PICK j \in 1..PluginCount : TopologicalOrder[j] = q BY PluginOrder
  <2> HIDE DEF k
  <2>4. TopologicalOrder[PluginCount + 1 - k] = p /\ PluginCount + 1 - k \in 1..PluginCount
    BY <2>2, PluginOrder
  <2>5. PluginCount + 1 - k < j
    BY <1>1, <2>3, <2>4, PluginOrder DEF Respects
  <2>6. PluginCount + 1 - j \in 1..k - 1 /\ UnloadOrder[PluginCount + 1 - j] = q
    BY <2>2, <2>3, <2>5, PluginOrder
  <2>7. k - 1 = PluginCount - Len(todo) BY <2>1, RestOfTodo, PluginOrder DEF k
  <2> QED BY <1>1, <2>6, <2>7 DEF UnloadOK, UnloadRest
<1>2. UnloadedAfterDependents BY <1>1 DEF UnloadedAfterDependents
<1>3. OnlyActiveHolds BY DEF OnlyActiveHolds, HoldOK, BusyOK, TodoOK, PluginTypeOK
<1> QED BY <1>2, <1>3 DEF PluginsUnwind

\* Going on to the next plugin keeps the bookkeeping, once the one at hand is settled.
LEMMA AdvanceKeeps ==
    ASSUME PluginInv, todo # <<>>, Advance, fiber' \in [Plugins -> LifecycleState],
           \A p \in Plugins : p # Head(todo) => fiber'[p] = fiber[p],
           fiber'[Head(todo)] \notin {"loading", "unloading"},
           loader = "unload" => fiber'[Head(todo)] # "active"
    PROVE  TodoOK' /\ BusyOK' /\ UnloadOK' /\ loader' \in {"idle", "load", "unload", "reload"}
<1> USE DEF PluginInv
<1>1. /\ todo' = Tail(todo)
      /\ loader' = IF Len(todo) = 1 THEN "idle" ELSE loader
  BY DEF Advance
<1>2. TodoOK' BY <1>1, RestOfTodo DEF TodoOK
<1>3. BusyOK' BY DEF BusyOK
<1>4. UnloadOK'
  <2> SUFFICES ASSUME loader' = "unload" PROVE UnloadRest' BY DEF UnloadOK
  <2>1. loader = "unload" BY <1>1
  <2>2. Head(todo) = UnloadOrder[PluginCount - Len(todo) + 1]
    BY <2>1, RestOfTodo DEF UnloadOK, UnloadRest
  <2>3. Len(todo') = Len(todo) - 1 BY <1>1, RestOfTodo
  <2>4. \A i \in 1..Len(todo') : todo'[i] = UnloadOrder[PluginCount - Len(todo') + i]
    <3> SUFFICES ASSUME NEW i \in 1..Len(todo')
                 PROVE  todo'[i] = UnloadOrder[PluginCount - Len(todo') + i]
      OBVIOUS
    <3>1. todo'[i] = todo[i + 1] /\ i + 1 \in 1..Len(todo) BY <1>1, <2>3, RestOfTodo
    <3>2. todo[i + 1] = UnloadOrder[PluginCount - Len(todo) + (i + 1)]
      BY <2>1, <3>1 DEF UnloadOK, UnloadRest
    <3>3. PluginCount - Len(todo) + (i + 1) = PluginCount - Len(todo') + i
      BY <2>3, RestOfTodo, PluginOrder
    <3> QED BY <3>1, <3>2, <3>3
  <2>5. \A i \in 1..PluginCount - Len(todo') : fiber'[UnloadOrder[i]] \notin {"active", "unloading"}
    <3> SUFFICES ASSUME NEW i \in 1..PluginCount - Len(todo')
                 PROVE  fiber'[UnloadOrder[i]] \notin {"active", "unloading"}
      OBVIOUS
    <3>0. Len(todo) \in Nat \ {0} /\ PluginCount \in Nat BY RestOfTodo, PluginOrder
    <3>1. /\ i \in 1..PluginCount - Len(todo) \/ i = PluginCount - Len(todo) + 1
          /\ i \in 1..PluginCount
      BY <2>3, <3>0
    <3>2. UnloadOrder[i] \in Plugins BY <3>1, PluginOrder
    <3>3. CASE UnloadOrder[i] = Head(todo) BY <2>1, <3>3
    <3>4. CASE UnloadOrder[i] # Head(todo)
      BY <2>1, <2>2, <3>1, <3>2, <3>4 DEF UnloadOK, UnloadRest
    <3> QED BY <3>3, <3>4
  <2> QED BY <2>1, <2>3, <2>4, <2>5, RestOfTodo, PluginOrder DEF UnloadOK, UnloadRest
<1>5. loader' \in {"idle", "load", "unload", "reload"} BY <1>1 DEF PluginTypeOK
<1> QED BY <1>2, <1>3, <1>4, <1>5

\* Every step of the loader keeps the invariant.
LEMMA PluginStep == PluginInv /\ [PluginNext]_pluginVars => PluginInv'
<1> SUFFICES ASSUME PluginInv, [PluginNext]_pluginVars PROVE PluginInv'
  OBVIOUS
<1> USE DEF PluginInv
<1>1. CASE LoadAll
  <2>1. TodoOK'
    BY <1>1, PluginOrder DEF LoadAll, TodoOK
  <2> QED BY <1>1, <2>1 DEF LoadAll, PluginTypeOK, BusyOK, HoldOK, UnloadOK, UnloadRest, TodoOK, Loading
<1>2. CASE UnloadAll
  <2>1. TodoOK' /\ Len(todo') = PluginCount
    BY <1>2, PluginOrder DEF UnloadAll, TodoOK
  <2>2. UnloadOK'
    BY <1>2, <2>1, PluginOrder DEF UnloadAll, UnloadOK, UnloadRest
  <2> QED BY <1>2, <2>1, <2>2 DEF UnloadAll, PluginTypeOK, BusyOK, HoldOK, TodoOK, Loading
<1>3. ASSUME NEW p \in Plugins, Reload(p) PROVE PluginInv'
  BY <1>3 DEF Reload, PluginTypeOK, TodoOK, BusyOK, HoldOK, UnloadOK, UnloadRest
<1>4. CASE Skip
  <2>1. /\ todo # <<>> /\ Advance /\ UNCHANGED <<fiber, services, disposers, abandoned>>
        /\ fiber[Head(todo)] \notin {"loading", "unloading"}
        /\ loader = "unload" => fiber[Head(todo)] # "active"
    BY <1>4, RestOfTodo DEF Skip, BusyOK, Loading
  <2> QED BY <2>1, AdvanceKeeps DEF PluginTypeOK, HoldOK
<1>5. CASE BeginLoad
  <2> DEFINE p == Head(todo)
  <2>1. todo # <<>> /\ p \in Plugins /\ Loading(p) /\ fiber[p] \notin {"active", "loading", "unloading"}
    BY <1>5, RestOfTodo DEF BeginLoad, BusyOK
  <2>2. UNCHANGED <<services, disposers, abandoned>> BY <1>5 DEF BeginLoad
  <2>3. CASE Requires[p] \subseteq services
    <3>1. fiber' = [fiber EXCEPT ![p] = "loading"] /\ UNCHANGED <<loader, todo>>
      BY <1>5, <2>3 DEF BeginLoad
    <3>2. loader # "unload" BY <2>1 DEF Loading
    <3>3. PluginTypeOK' BY <2>1, <2>2, <3>1 DEF PluginTypeOK, LifecycleState
    <3>4. BusyOK' /\ HoldOK' BY <2>1, <2>2, <3>1 DEF BusyOK, HoldOK, PluginTypeOK, Loading
    <3> QED BY <3>1, <3>2, <3>3, <3>4 DEF TodoOK, UnloadOK, UnloadRest
  <2>4. CASE ~(Requires[p] \subseteq services)
    <3>1. fiber' = [fiber EXCEPT ![p] = "failed"] /\ Advance
      BY <1>5, <2>4 DEF BeginLoad
    <3>2. /\ fiber' \in [Plugins -> LifecycleState] /\ fiber'[p] = "failed"
          /\ \A q \in Plugins : q # p => fiber'[q] = fiber[q]
      BY <2>1, <3>1 DEF PluginTypeOK, LifecycleState
    <3> QED BY <2>1, <2>2, <3>1, <3>2, AdvanceKeeps DEF PluginTypeOK, HoldOK
  <2> QED BY <2>3, <2>4
<1>6. CASE AddEffect
  <2> DEFINE p == Head(todo)
  <2>1. /\ p \in Plugins /\ fiber[p] = "loading" /\ disposers[p] < MaxEffects
        /\ disposers' = [disposers EXCEPT ![p] = @ + 1]
        /\ UNCHANGED <<fiber, services, abandoned, loader, todo>>
    BY <1>6, RestOfTodo DEF AddEffect
  <2>2. disposers' \in [Plugins -> 0..MaxEffects] BY <2>1, PluginsAssumption DEF PluginTypeOK
  <2> QED BY <2>1, <2>2 DEF PluginTypeOK, TodoOK, BusyOK, HoldOK, UnloadOK, UnloadRest, Loading
<1>7. CASE LoadFails
  <2> DEFINE p == Head(todo)
  <2>1. /\ todo # <<>> /\ p \in Plugins /\ fiber[p] = "loading" /\ Advance
        /\ fiber' = [fiber EXCEPT ![p] = "failed"]
        /\ disposers' = [disposers EXCEPT ![p] = 0] /\ UNCHANGED <<services, abandoned>>
    BY <1>7, RestOfTodo DEF LoadFails
  <2>2. /\ fiber' \in [Plugins -> LifecycleState] /\ fiber'[p] = "failed"
        /\ \A q \in Plugins : q # p => fiber'[q] = fiber[q]
    BY <2>1 DEF PluginTypeOK, LifecycleState
  <2>3. disposers' \in [Plugins -> 0..MaxEffects] BY <2>1, PluginsAssumption DEF PluginTypeOK
  <2>4. HoldOK' BY <2>1, <2>2 DEF HoldOK, PluginTypeOK
  <2> QED BY <2>1, <2>2, <2>3, <2>4, AdvanceKeeps DEF PluginTypeOK
<1>8. CASE LoadSucceeds
  <2> DEFINE p == Head(todo)
  <2>1. /\ todo # <<>> /\ p \in Plugins /\ fiber[p] = "loading" /\ Loading(p) /\ Advance
        /\ fiber' = [fiber EXCEPT ![p] = "active"]
        /\ services' = services \cup {p} /\ UNCHANGED <<disposers, abandoned>>
    BY <1>8, RestOfTodo DEF LoadSucceeds, BusyOK
  <2>2. /\ fiber' \in [Plugins -> LifecycleState] /\ fiber'[p] = "active" /\ loader # "unload"
        /\ \A q \in Plugins : q # p => fiber'[q] = fiber[q]
    BY <2>1 DEF PluginTypeOK, LifecycleState, Loading
  <2>3. HoldOK' BY <2>1, <2>2 DEF HoldOK, PluginTypeOK
  <2> QED BY <2>1, <2>2, <2>3, AdvanceKeeps DEF PluginTypeOK
<1>9. CASE BeginUnload
  <2> DEFINE p == Head(todo)
  <2>1. /\ todo # <<>> /\ p \in Plugins /\ fiber[p] = "active" /\ ~Loading(p)
        /\ fiber' = [fiber EXCEPT ![p] = "unloading"]
        /\ UNCHANGED <<services, disposers, abandoned, loader, todo>>
    BY <1>9, RestOfTodo DEF BeginUnload
  <2>2. PluginTypeOK' /\ TodoOK' BY <2>1 DEF PluginTypeOK, TodoOK, LifecycleState
  <2>3. BusyOK' /\ HoldOK' BY <2>1 DEF BusyOK, HoldOK, PluginTypeOK, Loading
  <2>4. UnloadOK'
    <3> SUFFICES ASSUME loader = "unload" PROVE UnloadRest' BY <2>1 DEF UnloadOK
    <3>1. \A i \in 1..PluginCount - Len(todo) : UnloadOrder[i] \in Plugins
      BY <2>1, RestOfTodo, PluginOrder
    <3>2. \A i \in 1..PluginCount - Len(todo) : UnloadOrder[i] # p
      BY <2>1 DEF UnloadOK, UnloadRest
    <3> QED BY <2>1, <3>1, <3>2 DEF UnloadOK, UnloadRest, PluginTypeOK
  <2> QED BY <2>2, <2>3, <2>4
<1>10. CASE Dispose
  <2> DEFINE p == Head(todo)
  <2>1. /\ p \in Plugins /\ fiber[p] = "unloading" /\ disposers[p] > 0
        /\ disposers' = [disposers EXCEPT ![p] = @ - 1]
        /\ UNCHANGED <<fiber, services, abandoned, loader, todo>>
    BY <1>10, RestOfTodo DEF Dispose
  <2>2. disposers' \in [Plugins -> 0..MaxEffects] BY <2>1, PluginsAssumption DEF PluginTypeOK
  <2> QED BY <2>1, <2>2 DEF PluginTypeOK, TodoOK, BusyOK, HoldOK, UnloadOK, UnloadRest, Loading
<1>11. CASE GraceEnds
  <2> DEFINE p == Head(todo)
  <2>1. /\ p \in Plugins /\ fiber[p] = "unloading"
        /\ disposers' = [disposers EXCEPT ![p] = 0] /\ abandoned' = abandoned \cup {p}
        /\ UNCHANGED <<fiber, services, loader, todo>>
    BY <1>11, RestOfTodo DEF GraceEnds
  <2>2. disposers' \in [Plugins -> 0..MaxEffects] BY <2>1, PluginsAssumption DEF PluginTypeOK
  <2> QED BY <2>1, <2>2 DEF PluginTypeOK, TodoOK, BusyOK, HoldOK, UnloadOK, UnloadRest, Loading
<1>12. CASE EndUnload
  <2> DEFINE p == Head(todo)
  <2>1. /\ todo # <<>> /\ p \in Plugins /\ disposers[p] = 0 /\ Advance
        /\ fiber' = [fiber EXCEPT ![p] = "disposed"]
        /\ services' = services \ {p} /\ UNCHANGED <<disposers, abandoned>>
    BY <1>12, RestOfTodo DEF EndUnload
  <2>2. /\ fiber' \in [Plugins -> LifecycleState] /\ fiber'[p] = "disposed"
        /\ \A q \in Plugins : q # p => fiber'[q] = fiber[q]
    BY <2>1 DEF PluginTypeOK, LifecycleState
  <2>3. HoldOK' BY <2>1, <2>2 DEF HoldOK, PluginTypeOK
  <2> QED BY <2>1, <2>2, <2>3, AdvanceKeeps DEF PluginTypeOK
<1>13. CASE UNCHANGED pluginVars
  BY <1>13 DEF pluginVars, PluginTypeOK, TodoOK, BusyOK, HoldOK, UnloadOK, UnloadRest, Loading
<1> QED BY <1>1, <1>2, <1>3, <1>4, <1>5, <1>6, <1>7, <1>8, <1>9, <1>10, <1>11, <1>12, <1>13
       DEF PluginNext

LEMMA PluginStarts == PluginInit => PluginInv
BY PluginsAssumption DEF PluginInit, PluginInv, PluginTypeOK, TodoOK, BusyOK, HoldOK, UnloadOK, UnloadRest,
   LifecycleState

\* Whatever fails to load, is reloaded or is cut off by the grace time, unload_all releases a
\* plugin only after those that require it, and between two operations only active plugins
\* hold resources and offer services, for any set of plugins that can be sorted and any
\* number of resources (PluginLoader.unload_all, PluginFiber.unload, EffectScope.dispose).
THEOREM PluginsAreUnwound == PluginSpec => []PluginsUnwind
BY PluginStarts, PluginStep, UnloadIsSafe, PTL DEF PluginSpec

(***************************************************************************)
(* Skills                                                                  *)
(***************************************************************************)

\* A circuit is broken by the last failure, and nobody counts on.
CircuitOK == circuit # "closed" => failure_counts = FailureLimit

\* Undisturbed, one request works on the directory, and what it verifies is whole.
DirectoryOK == ~disturbed =>
    /\ \A t, u \in ExtensionRequests : OnDirectory(t) /\ OnDirectory(u) => t = u
    /\ \A t \in ExtensionRequests : RequestAt(t, "verify") =>
          install_dir # NoDir /\ install_dir.whole

ExtensionInv == DirectoryOK /\ InstalledIsWhole
InvokerInv == CircuitOK /\ ProbeIsReturned
SkillsInv == SkillsTypeOK /\ ExtensionInv /\ InvokerInv

\* A request that moves keeps the type of its record, and the others stay.
LEMMA RequestMoves ==
    ASSUME SkillsTypeOK, NEW t \in ExtensionRequests,
           NEW place \in {"make", "copy", "verify", "undo", "remove", "forget", "forget_removed", "save"},
           RequestGoes(t, place)
    PROVE  /\ ext_requests'[t].at = place
           /\ \A u \in ExtensionRequests : u # t => ext_requests'[u] = ext_requests[u]
           /\ ext_requests' \in [ExtensionRequests -> ExtRequest]
BY DEF SkillsTypeOK, ExtRequest, RequestGoes

\* The same for one that ends.
LEMMA RequestLeaves ==
    ASSUME SkillsTypeOK, NEW t \in ExtensionRequests, RequestEnds(t)
    PROVE  /\ ext_requests'[t].at = "none"
           /\ \A u \in ExtensionRequests : u # t => ext_requests'[u] = ext_requests[u]
           /\ ext_requests' \in [ExtensionRequests -> ExtRequest]
BY DEF SkillsTypeOK, ExtRequest, RequestEnds, NoExtRequest

\* A request off the directory leaves what is said about the directory alone.
LEMMA OffDirectory ==
    ASSUME SkillsTypeOK, ExtensionInv, NEW t \in ExtensionRequests,
           ~OnDirectory(t), ext_requests'[t].at \in {"none", "forget", "forget_removed",
                                                     "remember", "drop", "save"},
           \A u \in ExtensionRequests : u # t => ext_requests'[u] = ext_requests[u],
           UNCHANGED <<install_dir, disturbed>>
    PROVE  ExtensionInv'
BY DEF ExtensionInv, DirectoryOK, InstalledIsWhole, OnDirectory, RequestAt

\* A second request on the directory is noticed.
LEMMA DisturbsNotices ==
    ASSUME SkillsTypeOK, NEW t \in ExtensionRequests, Disturbs(t)
    PROVE  /\ disturbed' \in BOOLEAN
           /\ ~disturbed' => ~disturbed /\ \A u \in ExtensionRequests : u # t => ~OnDirectory(u)
BY Zenon DEF SkillsTypeOK, Disturbs

\* The steps of the extension endpoints.
LEMMA ExtensionStep ==
    ASSUME SkillsTypeOK, ExtensionInv, NEW t \in ExtensionRequests,
           \/ install_extension(t) \/ MakeTarget(t) \/ CopyTree(t) \/ VerifyTarget(t)
           \/ UndoInstall(t) \/ uninstall_extension(t) \/ RemoveTree(t)
           \/ delete_extension_status(t) \/ toggle_extension(t) \/ RememberState(t)
           \/ DropState(t) \/ save_extension_status(t)
    PROVE  SkillsTypeOK' /\ ExtensionInv' /\ UNCHANGED invokerVars
<1>1. CASE install_extension(t)
  <2>1. PICK pkg \in Packages :
          ext_requests' = [ext_requests EXCEPT ![t].at = "make", ![t].good = pkg.good]
    BY <1>1 DEF install_extension
  <2>2. /\ ext_requests'[t].at = "make"
        /\ \A u \in ExtensionRequests : u # t => ext_requests'[u] = ext_requests[u]
        /\ ext_requests' \in [ExtensionRequests -> ExtRequest]
    BY <2>1 DEF SkillsTypeOK, ExtRequest, Packages
  <2>3. /\ install_dir = NoDir /\ Disturbs(t)
        /\ UNCHANGED <<install_dir, extension_status, extension_state, invokerVars>>
    BY <1>1 DEF install_extension
  <2>4. SkillsTypeOK' BY <2>2, <2>3, DisturbsNotices DEF SkillsTypeOK, invokerVars
  <2>5. ExtensionInv'
    BY <2>2, <2>3, DisturbsNotices
       DEF ExtensionInv, DirectoryOK, InstalledIsWhole, OnDirectory, RequestAt
  <2> QED BY <2>3, <2>4, <2>5
<1>2. CASE MakeTarget(t)
  <2>1. /\ RequestAt(t, "make")
        /\ UNCHANGED <<extension_status, extension_state, disturbed, invokerVars>>
    BY <1>2 DEF MakeTarget
  <2>2. CASE install_dir = NoDir
    <3>1. /\ install_dir' = [whole |-> FALSE, good |-> ext_requests[t].good]
          /\ RequestGoes(t, "copy")
      BY <1>2, <2>2 DEF MakeTarget
    <3>2. install_dir' \in [whole : BOOLEAN, good : BOOLEAN] BY <3>1 DEF SkillsTypeOK, ExtRequest
    <3>3. SkillsTypeOK' BY <2>1, <3>1, <3>2, RequestMoves DEF SkillsTypeOK, invokerVars
    <3>4. ExtensionInv'
      BY <2>1, <3>1, RequestMoves
         DEF ExtensionInv, DirectoryOK, InstalledIsWhole, OnDirectory, RequestAt
    <3> QED BY <2>1, <3>3, <3>4
  <2>3. CASE install_dir # NoDir
    <3>1. RequestGoes(t, "undo") /\ UNCHANGED install_dir BY <1>2, <2>3 DEF MakeTarget
    <3>2. SkillsTypeOK' BY <2>1, <3>1, RequestMoves DEF SkillsTypeOK, invokerVars
    <3>3. ExtensionInv'
      BY <2>1, <3>1, RequestMoves
         DEF ExtensionInv, DirectoryOK, InstalledIsWhole, OnDirectory, RequestAt
    <3> QED BY <2>1, <3>2, <3>3
  <2> QED BY <2>2, <2>3
<1>3. CASE CopyTree(t)
  <2>1. /\ RequestAt(t, "copy")
        /\ UNCHANGED <<extension_status, extension_state, disturbed, invokerVars>>
    BY <1>3 DEF CopyTree
  <2>2. CASE /\ install_dir # NoDir
             /\ install_dir' = [whole |-> TRUE, good |-> ext_requests[t].good]
             /\ RequestGoes(t, "verify")
    <3>1. install_dir' \in [whole : BOOLEAN, good : BOOLEAN] /\ install_dir'.whole
      BY <2>2 DEF SkillsTypeOK, ExtRequest
    <3>2. install_dir' # NoDir
      BY <2>2, <3>1, SkillsAssumption
    <3>3. SkillsTypeOK' BY <2>1, <2>2, <3>1, RequestMoves DEF SkillsTypeOK, invokerVars
    <3>4. ext_requests'[t].at = "verify"
          /\ \A u \in ExtensionRequests : u # t => ext_requests'[u] = ext_requests[u]
      BY <2>2, RequestMoves
    <3>5. DirectoryOK'
      BY <2>1, <3>1, <3>2, <3>4 DEF ExtensionInv, DirectoryOK, OnDirectory, RequestAt
    <3>6. InstalledIsWhole' BY <3>4 DEF InstalledIsWhole, OnDirectory
    <3> QED BY <2>1, <3>3, <3>5, <3>6 DEF ExtensionInv
  <2>3. CASE RequestGoes(t, "undo") /\ UNCHANGED install_dir
    <3>2. SkillsTypeOK' BY <2>1, <2>3, RequestMoves DEF SkillsTypeOK, invokerVars
    <3>3. ExtensionInv'
      BY <2>1, <2>3, RequestMoves
         DEF ExtensionInv, DirectoryOK, InstalledIsWhole, OnDirectory, RequestAt
    <3> QED BY <2>1, <3>2, <3>3
  <2> QED BY <1>3, <2>2, <2>3 DEF CopyTree
<1>4. CASE VerifyTarget(t)
  <2>1. /\ RequestAt(t, "verify")
        /\ RequestGoes(t, IF verify_supply_chain THEN "forget" ELSE "undo")
        /\ UNCHANGED <<install_dir, extension_status, extension_state, disturbed, invokerVars>>
    BY <1>4 DEF VerifyTarget
  <2>2. CASE verify_supply_chain
    <3>1. RequestGoes(t, "forget") BY <2>1, <2>2
    <3>2. SkillsTypeOK' BY <2>1, <3>1, RequestMoves DEF SkillsTypeOK, invokerVars
    <3>3. ~disturbed => install_dir = [whole |-> TRUE, good |-> TRUE]
      BY <2>1, <2>2 DEF ExtensionInv, DirectoryOK, verify_supply_chain, SkillsTypeOK
    <3>4. ExtensionInv'
      BY <2>1, <3>1, <3>3, RequestMoves
         DEF ExtensionInv, DirectoryOK, InstalledIsWhole, OnDirectory, RequestAt
    <3> QED BY <2>1, <3>2, <3>4
  <2>3. CASE ~verify_supply_chain
    <3>1. RequestGoes(t, "undo") BY <2>1, <2>3
    <3>2. SkillsTypeOK' BY <2>1, <3>1, RequestMoves DEF SkillsTypeOK, invokerVars
    <3>3. ExtensionInv'
      BY <2>1, <3>1, RequestMoves
         DEF ExtensionInv, DirectoryOK, InstalledIsWhole, OnDirectory, RequestAt
    <3> QED BY <2>1, <3>2, <3>3
  <2> QED BY <2>2, <2>3
<1>5. CASE UndoInstall(t)
  <2>1. /\ install_dir' = NoDir /\ RequestEnds(t) /\ RequestAt(t, "undo")
        /\ UNCHANGED <<extension_status, extension_state, disturbed, invokerVars>>
    BY <1>5 DEF UndoInstall
  <2>2. SkillsTypeOK' BY <2>1, RequestLeaves DEF SkillsTypeOK, invokerVars
  <2>3. ExtensionInv'
    BY <2>1, RequestLeaves
       DEF ExtensionInv, DirectoryOK, InstalledIsWhole, OnDirectory, RequestAt
  <2> QED BY <2>1, <2>2, <2>3
<1>6. CASE uninstall_extension(t)
  <2>1. /\ RequestGoes(t, "remove") /\ Disturbs(t)
        /\ UNCHANGED <<install_dir, extension_status, extension_state, invokerVars>>
    BY <1>6 DEF uninstall_extension
  <2>2. SkillsTypeOK' BY <2>1, RequestMoves, DisturbsNotices DEF SkillsTypeOK, invokerVars
  <2>3. ExtensionInv'
    BY <2>1, RequestMoves, DisturbsNotices
       DEF ExtensionInv, DirectoryOK, InstalledIsWhole, OnDirectory, RequestAt
  <2> QED BY <2>1, <2>2, <2>3
<1>7. CASE RemoveTree(t)
  <2>1. /\ RequestAt(t, "remove") /\ install_dir' = NoDir
        /\ RequestEnds(t) \/ RequestGoes(t, "forget_removed")
        /\ UNCHANGED <<extension_status, extension_state, disturbed, invokerVars>>
    BY <1>7 DEF RemoveTree
  <2>2. SkillsTypeOK' BY <2>1, RequestLeaves, RequestMoves DEF SkillsTypeOK, invokerVars
  <2>3. ExtensionInv'
    BY <2>1, RequestLeaves, RequestMoves
       DEF ExtensionInv, DirectoryOK, InstalledIsWhole, OnDirectory, RequestAt
  <2> QED BY <2>1, <2>2, <2>3
<1>8. CASE delete_extension_status(t)
  <2>1. /\ ext_requests[t].at \in {"forget", "forget_removed"}
        /\ extension_status' = "absent"
        /\ ext_requests' = [ext_requests EXCEPT ![t].enabled = TRUE,
                           ![t].at = IF @ = "forget" THEN "remember" ELSE "drop"]
        /\ UNCHANGED <<install_dir, extension_state, disturbed, invokerVars>>
    BY <1>8 DEF delete_extension_status
  <2>2. /\ ext_requests'[t].at \in {"remember", "drop"}
        /\ \A u \in ExtensionRequests : u # t => ext_requests'[u] = ext_requests[u]
        /\ ext_requests' \in [ExtensionRequests -> ExtRequest]
    BY <2>1 DEF SkillsTypeOK, ExtRequest
  <2>3. SkillsTypeOK' BY <2>1, <2>2 DEF SkillsTypeOK, invokerVars
  <2>4. ExtensionInv' BY <2>1, <2>2, OffDirectory DEF OnDirectory
  <2> QED BY <2>1, <2>3, <2>4
<1>9. CASE toggle_extension(t)
  <2>1. /\ RequestAt(t, "none")
        /\ UNCHANGED <<install_dir, extension_status, extension_state, disturbed, invokerVars>>
    BY <1>9 DEF toggle_extension
  <2>2. PICK wish \in BOOLEAN :
          ext_requests' = [ext_requests EXCEPT ![t].at = "remember", ![t].enabled = wish]
    BY <1>9 DEF toggle_extension
  <2>3. /\ ext_requests'[t].at = "remember"
        /\ \A u \in ExtensionRequests : u # t => ext_requests'[u] = ext_requests[u]
        /\ ext_requests' \in [ExtensionRequests -> ExtRequest]
    BY <2>2 DEF SkillsTypeOK, ExtRequest
  <2>4. SkillsTypeOK' BY <2>1, <2>3 DEF SkillsTypeOK, invokerVars
  <2>5. ExtensionInv' BY <2>1, <2>3, OffDirectory DEF OnDirectory, RequestAt
  <2> QED BY <2>1, <2>4, <2>5
<1>10. CASE RememberState(t)
  <2>1. /\ RequestAt(t, "remember") /\ extension_state' = SwitchOf(t) /\ RequestGoes(t, "save")
        /\ UNCHANGED <<install_dir, extension_status, disturbed, invokerVars>>
    BY <1>10 DEF RememberState
  <2>2. SkillsTypeOK' BY <2>1, RequestMoves DEF SkillsTypeOK, SwitchOf, invokerVars
  <2>3. ExtensionInv' BY <2>1, RequestMoves, OffDirectory DEF OnDirectory, RequestAt
  <2> QED BY <2>1, <2>2, <2>3
<1>11. CASE DropState(t)
  <2>1. /\ RequestAt(t, "drop") /\ extension_state' = "absent" /\ RequestEnds(t)
        /\ UNCHANGED <<install_dir, extension_status, disturbed, invokerVars>>
    BY <1>11 DEF DropState
  <2>2. SkillsTypeOK' BY <2>1, RequestLeaves DEF SkillsTypeOK, invokerVars
  <2>3. ExtensionInv' BY <2>1, RequestLeaves, OffDirectory DEF OnDirectory, RequestAt
  <2> QED BY <2>1, <2>2, <2>3
<1>12. CASE save_extension_status(t)
  <2>1. /\ RequestAt(t, "save") /\ extension_status' = SwitchOf(t) /\ RequestEnds(t)
        /\ UNCHANGED <<install_dir, extension_state, disturbed, invokerVars>>
    BY <1>12 DEF save_extension_status
  <2>2. SkillsTypeOK' BY <2>1, RequestLeaves DEF SkillsTypeOK, SwitchOf, invokerVars
  <2>3. ExtensionInv' BY <2>1, RequestLeaves, OffDirectory DEF OnDirectory, RequestAt
  <2> QED BY <2>1, <2>2, <2>3
<1> QED BY <1>1, <1>2, <1>3, <1>4, <1>5, <1>6, <1>7, <1>8, <1>9, <1>10, <1>11, <1>12

\* A call that moves keeps the type of its record, its being the probe, and the others.
LEMMA SkillCallMoves ==
    ASSUME SkillsTypeOK, NEW k \in SkillCallers, NEW place \in {"none", "probe", "send", "sent"},
           CallGoes(k, place)
    PROVE  /\ skill_calls' \in [SkillCallers -> SkillCall]
           /\ \A j \in SkillCallers : skill_calls'[j].probe = skill_calls[j].probe
BY DEF SkillsTypeOK, SkillCall, CallGoes

\* A call that is over is nobody's probe.
LEMMA SkillCallEnds ==
    ASSUME SkillsTypeOK, NEW k \in SkillCallers,
           skill_calls' = [skill_calls EXCEPT ![k] = NoSkillCall]
    PROVE  /\ skill_calls' \in [SkillCallers -> SkillCall]
           /\ \A j \in SkillCallers : j # k => skill_calls'[j] = skill_calls[j]
BY DEF SkillsTypeOK, SkillCall, NoSkillCall

\* The steps of the calls.
LEMMA SkillCallStep ==
    ASSUME SkillsTypeOK, InvokerInv, NEW k \in SkillCallers,
           \/ InvokeSkill(k) \/ TakeProbe(k) \/ PayloadFails(k) \/ SendToSkill(k)
           \/ CallFails(k) \/ CallSucceeds(k)
    PROVE  SkillsTypeOK' /\ InvokerInv' /\ UNCHANGED extensionVars
<1> USE DEF InvokerInv
<1>1. CASE InvokeSkill(k)
  <2>1. /\ CallGoes(k, "send") \/ CallGoes(k, "probe")
        /\ UNCHANGED <<extensionVars, skill_process, failure_counts, circuit, half_open_probe,
                       lost_probe>>
    BY <1>1 DEF InvokeSkill
  <2>2. SkillsTypeOK' BY <2>1, SkillCallMoves DEF SkillsTypeOK, extensionVars
  <2>3. InvokerInv' BY <2>1, SkillCallMoves DEF CircuitOK, ProbeIsReturned
  <2> QED BY <2>1, <2>2, <2>3
<1>2. CASE TakeProbe(k)
  <2>1. /\ half_open_probe' = TRUE
        /\ skill_calls' = [skill_calls EXCEPT ![k] = [at |-> "send", probe |-> TRUE]]
        /\ UNCHANGED <<extensionVars, skill_process, failure_counts, circuit, lost_probe>>
    BY <1>2 DEF TakeProbe
  <2>2. /\ skill_calls' \in [SkillCallers -> SkillCall]
        /\ skill_calls'[k].probe
    BY <2>1 DEF SkillsTypeOK, SkillCall
  <2>3. SkillsTypeOK' BY <2>1, <2>2 DEF SkillsTypeOK, extensionVars
  <2>4. InvokerInv' BY <2>1, <2>2 DEF CircuitOK, ProbeIsReturned
  <2> QED BY <2>1, <2>3, <2>4
<1>3. CASE PayloadFails(k)
  <2>1. /\ skill_calls' = [skill_calls EXCEPT ![k] = NoSkillCall]
        /\ lost_probe' = (lost_probe \/ skill_calls[k].probe)
        /\ UNCHANGED <<extensionVars, skill_process, failure_counts, circuit, half_open_probe>>
    BY <1>3 DEF PayloadFails
  <2>2. lost_probe' \in BOOLEAN /\ (lost_probe' <=> lost_probe \/ skill_calls[k].probe)
    BY <2>1, Zenon
  <2>3. SkillsTypeOK' BY <2>1, <2>2, SkillCallEnds DEF SkillsTypeOK, extensionVars
  <2>4. InvokerInv' BY <2>1, <2>2, SkillCallEnds DEF CircuitOK, ProbeIsReturned
  <2> QED BY <2>1, <2>3, <2>4
<1>4. CASE SendToSkill(k)
  <2>1. /\ CallGoes(k, "sent")
        /\ UNCHANGED <<extensionVars, skill_process, failure_counts, circuit, half_open_probe,
                       lost_probe>>
    BY <1>4 DEF SendToSkill
  <2>2. SkillsTypeOK' BY <2>1, SkillCallMoves DEF SkillsTypeOK, extensionVars
  <2>3. InvokerInv' BY <2>1, SkillCallMoves DEF CircuitOK, ProbeIsReturned
  <2> QED BY <2>1, <2>2, <2>3
<1>5. CASE CallFails(k)
  <2>1. /\ record_failure
        /\ skill_calls' = [skill_calls EXCEPT ![k] = NoSkillCall]
        /\ UNCHANGED <<extensionVars, skill_process>>
    BY <1>5 DEF CallFails
  <2>2. /\ failure_counts' = MoreFailures /\ MoreFailures \in 0..FailureLimit
        /\ circuit # "closed" => MoreFailures = FailureLimit
    BY <2>1 DEF record_failure, MoreFailures, CircuitOK, SkillsTypeOK, FailureLimit
  <2>3. CASE MoreFailures = FailureLimit
    <3>1. circuit' = "open" /\ half_open_probe' = FALSE /\ lost_probe' = FALSE
      BY <2>1, <2>3 DEF record_failure
    <3>2. SkillsTypeOK' BY <2>1, <2>2, <3>1, SkillCallEnds DEF SkillsTypeOK, extensionVars
    <3>3. InvokerInv' BY <2>2, <2>3, <3>1 DEF CircuitOK, ProbeIsReturned
    <3> QED BY <2>1, <3>2, <3>3
  <2>4. CASE MoreFailures # FailureLimit
    <3>1. UNCHANGED <<circuit, half_open_probe, lost_probe>> /\ circuit = "closed"
      BY <2>1, <2>2, <2>4 DEF record_failure
    <3>2. SkillsTypeOK' BY <2>1, <2>2, <3>1, SkillCallEnds DEF SkillsTypeOK, extensionVars
    <3>3. InvokerInv' BY <3>1 DEF CircuitOK, ProbeIsReturned
    <3> QED BY <2>1, <3>2, <3>3
  <2> QED BY <2>3, <2>4
<1>6. CASE CallSucceeds(k)
  <2>1. /\ failure_counts' = 0 /\ circuit' = "closed"
        /\ half_open_probe' = FALSE /\ lost_probe' = FALSE
        /\ skill_calls' = [skill_calls EXCEPT ![k] = NoSkillCall]
        /\ UNCHANGED <<extensionVars, skill_process>>
    BY <1>6 DEF CallSucceeds, record_success
  <2>2. failure_counts' \in 0..FailureLimit BY <2>1 DEF FailureLimit
  <2>3. SkillsTypeOK' BY <2>1, <2>2, SkillCallEnds DEF SkillsTypeOK, extensionVars
  <2>4. InvokerInv' BY <2>1 DEF CircuitOK, ProbeIsReturned
  <2> QED BY <2>1, <2>3, <2>4
<1> QED BY <1>1, <1>2, <1>3, <1>4, <1>5, <1>6

\* Whatever fails, at any number of endpoint threads and callers: an undisturbed directory
\* no request works on is a whole copy the supply chain checks accepted, and a broken circuit
\* can be closed again unless a payload could not be serialised (install_extension,
\* SkillInvoker.record_failure, should_probe_half_open).
THEOREM SkillsAlwaysRecover == SkillsSpec => [](SkillsTypeOK /\ SkillsRecover)
<1>1. SkillsInit => SkillsInv
  <2> SUFFICES ASSUME SkillsInit PROVE SkillsInv
    OBVIOUS
  <2>1. failure_counts \in 0..FailureLimit BY DEF SkillsInit, FailureLimit
  <2>2. SkillsTypeOK BY <2>1 DEF SkillsInit, SkillsTypeOK, NoExtRequest, ExtRequest, NoSkillCall, SkillCall
  <2>3. ExtensionInv
    BY DEF SkillsInit, ExtensionInv, DirectoryOK, InstalledIsWhole, NoExtRequest, OnDirectory, RequestAt
  <2>4. InvokerInv BY DEF SkillsInit, InvokerInv, CircuitOK, ProbeIsReturned
  <2> QED BY <2>2, <2>3, <2>4 DEF SkillsInv
<1>2. SkillsInv /\ [SkillsNext]_skillVars => SkillsInv'
  <2> SUFFICES ASSUME SkillsInv, [SkillsNext]_skillVars PROVE SkillsInv'
    OBVIOUS
  <2> USE DEF SkillsInv
  <2>1. ASSUME UNCHANGED extensionVars PROVE ExtensionInv'
    BY <2>1 DEF extensionVars, ExtensionInv, DirectoryOK, InstalledIsWhole, OnDirectory, RequestAt
  <2>2. ASSUME UNCHANGED invokerVars PROVE InvokerInv'
    BY <2>2 DEF invokerVars, InvokerInv, CircuitOK, ProbeIsReturned
  <2>3. ASSUME NEW t \in ExtensionRequests,
               \/ install_extension(t) \/ MakeTarget(t) \/ CopyTree(t) \/ VerifyTarget(t)
               \/ UndoInstall(t) \/ uninstall_extension(t) \/ RemoveTree(t)
               \/ delete_extension_status(t) \/ toggle_extension(t) \/ RememberState(t)
               \/ DropState(t) \/ save_extension_status(t)
        PROVE  SkillsInv'
    BY <2>2, <2>3, ExtensionStep
  <2>4. ASSUME NEW k \in SkillCallers,
               \/ InvokeSkill(k) \/ TakeProbe(k) \/ PayloadFails(k) \/ SendToSkill(k)
               \/ CallFails(k) \/ CallSucceeds(k)
        PROVE  SkillsInv'
    BY <2>1, <2>4, SkillCallStep
  <2>5. CASE StartSkill \/ WaitSkillReady \/ StopSkill \/ SkillExits
    <3>1. /\ skill_process' \in {"none", "starting", "up", "dead"}
          /\ UNCHANGED <<extensionVars, failure_counts, circuit, half_open_probe, skill_calls,
                         lost_probe>>
      BY <2>5 DEF StartSkill, WaitSkillReady, StopSkill, SkillExits
    <3> QED BY <2>1, <3>1 DEF extensionVars, SkillsTypeOK, InvokerInv, CircuitOK, ProbeIsReturned
  <2>6. CASE CooldownPasses
    BY <2>1, <2>6 DEF CooldownPasses, extensionVars, SkillsTypeOK, InvokerInv, CircuitOK, ProbeIsReturned
  <2>7. CASE HostRestarts
    <3>1. /\ ext_requests' = [t \in ExtensionRequests |-> NoExtRequest]
          /\ disturbed' = (disturbed \/ \E t \in ExtensionRequests : OnDirectory(t))
          /\ extension_state' = extension_status
          /\ skill_process' = "none" /\ failure_counts' = 0 /\ circuit' = "closed"
          /\ half_open_probe' = FALSE /\ lost_probe' = FALSE
          /\ skill_calls' = [k \in SkillCallers |-> NoSkillCall]
          /\ UNCHANGED <<install_dir, extension_status>>
      BY <2>7 DEF HostRestarts
    <3>2. /\ disturbed' \in BOOLEAN
          /\ ~disturbed' => ~disturbed /\ \A t \in ExtensionRequests : ~OnDirectory(t)
      BY <3>1, Zenon
    <3>3. SkillsTypeOK'
      <4>1. failure_counts' \in 0..FailureLimit BY <3>1 DEF FailureLimit
      <4> QED BY <3>1, <3>2, <4>1 DEF SkillsTypeOK, NoExtRequest, ExtRequest, NoSkillCall, SkillCall
    <3>4. ExtensionInv'
      BY <3>1, <3>2 DEF ExtensionInv, DirectoryOK, InstalledIsWhole, OnDirectory, RequestAt, NoExtRequest
    <3>5. InvokerInv' BY <3>1 DEF InvokerInv, CircuitOK, ProbeIsReturned
    <3> QED BY <3>3, <3>4, <3>5
  <2>8. CASE UNCHANGED skillVars
    BY <2>1, <2>2, <2>8 DEF skillVars, extensionVars, invokerVars, SkillsTypeOK
  <2> QED BY <2>3, <2>4, <2>5, <2>6, <2>7, <2>8 DEF SkillsNext
<1>3. SkillsInv => SkillsTypeOK /\ SkillsRecover
  BY DEF SkillsInv, ExtensionInv, InvokerInv, SkillsRecover
<1> QED BY <1>1, <1>2, <1>3, PTL DEF SkillsSpec

(***************************************************************************)
(* The sample library                                                      *)
(***************************************************************************)

SampleStates == {"candidate", "verified", "rejected", "stale", "archived"}
SampleKinds == {"user", "auto", "none"}

SampleRow ==
    {s \in [state : SampleStates, kind : SampleKinds, status : {"active", "cancelled"},
            injected : 0..StaleAfter, completed : 0..GreenPlans, failures : 0..StaleAfter] :
        /\ s.state = "verified" <=> s.kind # "none"
        /\ s.state = "archived" <=> s.status = "cancelled"}

ReviewOps == {"confirm", "edit", "reject", "restore"}
SampleOps == ReviewOps \cup {"auto_verify", "mark_stale", "archive"}

\* What a party holds between its read of a sample and its write: an operation that the
\* sample it saw allowed.
HoldsRead(read, ops) ==
    read.op \in ops /\ read.id \in SampleIds /\ Allowed(read.op, read.seen)

ReviewerOK == reviewer = NoRead \/ (reviewer.op \in ReviewOps /\ reviewer.id \in SampleIds)

FeedbackOK ==
    /\ feedback \in [ids : SUBSET SampleIds, green : BOOLEAN, candidate : SUBSET SampleIds,
                     read : {feedback.read}]
    /\ \/ feedback.read = NoRead
       \/ feedback.read.op \in {"stale_due", "verify_due"} /\ feedback.read.id \in SampleIds
       \/ HoldsRead(feedback.read, {"mark_stale", "auto_verify"})

UpkeepOK ==
    /\ upkeep \in [todo : SUBSET SampleIds, running : BOOLEAN, failed : BOOLEAN, receipt : BOOLEAN,
                   read : {upkeep.read}]
    /\ upkeep.running \/ (upkeep.todo = {} /\ upkeep.read = NoRead)
    /\ upkeep.read = NoRead \/ HoldsRead(upkeep.read, {"archive"})

RowsOK == samples \in [SampleIds -> SampleRow \cup {NoSample}]

SamplesInv == RowsOK /\ ReviewerOK /\ FeedbackOK /\ UpkeepOK

\* The library's rows.
LEMMA NoSampleIsNoRow == NoSample \notin SampleRow
<1>1. \A s \in SampleRow : s.state # "none" BY DEF SampleRow, SampleStates
<1> QED BY <1>1 DEF NoSample

LEMMA Counting ==
    ASSUME NEW top \in Nat \ {0}, NEW n \in 0..top
    PROVE  UpTo(n + 1, top) \in 0..top /\ 0 \in 0..top
BY DEF UpTo

\* What a transition writes.
LEMMA Targets ==
    ASSUME NEW op \in SampleOps
    PROVE  /\ Target(op)[1] \in SampleStates /\ Target(op)[2] \in SampleKinds
           /\ Target(op)[1] = "verified" <=> Target(op)[2] # "none"
           /\ Target(op)[1] = "archived" <=> op = "archive"
BY DEF SampleOps, ReviewOps, Target, SampleStates, SampleKinds

LEMMA TransitionedRow ==
    ASSUME NEW s \in SampleRow, NEW op \in SampleOps
    PROVE  Transitioned(s, op) \in SampleRow
<1> DEFINE status_ == IF op = "archive" THEN "cancelled" ELSE "active"
           r1 == [s EXCEPT !.state = Target(op)[1]]
           r2 == [r1 EXCEPT !.kind = Target(op)[2]]
           r3 == [r2 EXCEPT !.status = status_]
           rows == [state : SampleStates, kind : SampleKinds, status : {"active", "cancelled"},
                    injected : 0..StaleAfter, completed : 0..GreenPlans, failures : 0..StaleAfter]
<1>1. status_ \in {"active", "cancelled"} /\ (status_ = "cancelled" <=> op = "archive") OBVIOUS
<1>2. Transitioned(s, op) = IF op = "edit" THEN edit_content(r3) ELSE r3 BY DEF Transitioned
<1>3. s \in rows BY DEF SampleRow
<1>4. r1 \in rows /\ r1.state = Target(op)[1] BY <1>3, Targets
<1> HIDE DEF r1
<1>5. r2 \in rows /\ r2.state = Target(op)[1] /\ r2.kind = Target(op)[2] BY <1>4, Targets
<1> HIDE DEF r2, status_
<1>6. r3 \in rows /\ r3.state = Target(op)[1] /\ r3.kind = Target(op)[2] /\ r3.status = status_
  BY <1>1, <1>5
<1> HIDE DEF r3
<1>7. r3 \in SampleRow BY <1>1, <1>6, Targets DEF SampleRow
<1>8. edit_content(r3) \in SampleRow
  <2> DEFINE e1 == [r3 EXCEPT !.injected = 0]
             e2 == [e1 EXCEPT !.completed = 0]
  <2>1. edit_content(r3) = [e2 EXCEPT !.failures = 0] BY DEF edit_content
  <2>2. 0 \in 0..StaleAfter /\ 0 \in 0..GreenPlans BY SamplesAssumption
  <2>3. e1 \in SampleRow BY <1>7, <2>2 DEF SampleRow
  <2> HIDE DEF e1
  <2>4. e2 \in SampleRow BY <2>2, <2>3 DEF SampleRow
  <2> HIDE DEF e2
  <2> QED BY <2>1, <2>2, <2>4 DEF SampleRow
<1> QED BY <1>2, <1>7, <1>8

\* What a count writes keeps the state.
LEMMA CountedRow ==
    ASSUME NEW s \in SampleRow, NEW green \in BOOLEAN
    PROVE  /\ Injected(s) \in SampleRow /\ Injected(s).state = s.state /\ Injected(s).kind = s.kind
           /\ Outcome(s, green) \in SampleRow
           /\ Outcome(s, green).state = s.state /\ Outcome(s, green).kind = s.kind
<1>1. /\ s.injected \in 0..StaleAfter /\ s.completed \in 0..GreenPlans /\ s.failures \in 0..StaleAfter
  BY DEF SampleRow
<1>2. /\ UpTo(s.injected + 1, StaleAfter) \in 0..StaleAfter
      /\ UpTo(s.completed + 1, GreenPlans) \in 0..GreenPlans
      /\ UpTo(s.failures + 1, StaleAfter) \in 0..StaleAfter
      /\ 0 \in 0..StaleAfter
  BY <1>1, Counting, SamplesAssumption
<1>3. Injected(s) \in SampleRow /\ Injected(s).state = s.state /\ Injected(s).kind = s.kind
  BY <1>2 DEF Injected, SampleRow
<1>4. CASE green
  <2> DEFINE e == [s EXCEPT !.completed = UpTo(s.completed + 1, GreenPlans)]
  <2>1. Outcome(s, green) = [e EXCEPT !.failures = 0] BY <1>4 DEF Outcome
  <2>2. e \in SampleRow /\ e.state = s.state /\ e.kind = s.kind BY <1>2 DEF SampleRow
  <2> HIDE DEF e
  <2>3. /\ [e EXCEPT !.failures = 0] \in SampleRow
        /\ [e EXCEPT !.failures = 0].state = e.state /\ [e EXCEPT !.failures = 0].kind = e.kind
    BY <1>2, <2>2 DEF SampleRow
  <2> QED BY <1>3, <2>1, <2>2, <2>3
<1>5. CASE ~green
  <2>1. Outcome(s, green) = [s EXCEPT !.failures = UpTo(s.failures + 1, StaleAfter)] BY <1>5 DEF Outcome
  <2> QED BY <1>2, <1>3, <2>1 DEF SampleRow
<1> QED BY <1>4, <1>5

\* The write of a transition changes that row and no other.
LEMMA MutateWrites ==
    ASSUME RowsOK, NEW read, read.op \in SampleOps, read.id \in SampleIds, mutate(read)
    PROVE  RowsOK' /\ \A i \in SampleIds : i # read.id => samples'[i] = samples[i]
<1>1. CASE InLibrary(read.id)
  <2>1. samples[read.id] \in SampleRow BY <1>1 DEF RowsOK, InLibrary
  <2>2. Transitioned(samples[read.id], read.op) \in SampleRow BY <2>1, TransitionedRow
  <2> QED BY <1>1, <2>2 DEF mutate, RowsOK
<1>2. CASE ~InLibrary(read.id) BY <1>2 DEF mutate, RowsOK
<1> QED BY <1>1, <1>2

\* A step that keeps the verdicts: it changes no state of a row with one.
KeepsVerdicts ==
    \A i \in SampleIds : Verdict(i) /\ samples'[i] # NoSample =>
        samples'[i].state = samples[i].state /\ samples'[i].kind = samples[i].kind

LEMMA NobodyOverrides ==
    ASSUME KeepsVerdicts \/ reviewer' # reviewer
    PROVE  \A i \in SampleIds : Overridden(i) => ReadBefore(i)
BY DEF KeepsVerdicts, Overridden, Seen

\* What the automation was allowed to write over is no verdict.
LEMMA AllowedIsNoVerdict ==
    ASSUME NEW i \in SampleIds, NEW op \in {"mark_stale", "auto_verify", "archive"}, Verdict(i)
    PROVE  ~Allowed(op, Seen(i))
<1>1. Seen(i)[1] = samples[i].state /\ Seen(i)[2] = samples[i].kind BY DEF Seen
<1>2. Seen(i)[1] = "rejected" \/ Seen(i) = <<"verified", "user">> BY <1>1 DEF Verdict, IsUser
<1>3. CASE op = "mark_stale"
  <2>1. Allowed(op, Seen(i)) <=> Seen(i)[1] = "candidate" \/ IsAuto(Seen(i)) BY <1>3 DEF Allowed
  <2> QED BY <1>2, <2>1 DEF IsAuto
<1>4. CASE op = "auto_verify"
  <2>1. Allowed(op, Seen(i)) <=> Seen(i)[1] = "candidate" BY <1>4 DEF Allowed
  <2> QED BY <1>2, <2>1
<1>5. CASE op = "archive"
  <2>1. Allowed(op, Seen(i)) <=> Seen(i)[1] \notin {"rejected", "archived"} /\ ~IsUser(Seen(i)) BY <1>5 DEF Allowed
  <2> QED BY <1>2, <2>1 DEF IsUser
<1> QED BY <1>3, <1>4, <1>5

SawNoVerdict == \A i \in SampleIds : Overridden(i) => ReadBefore(i)

LEMMA SamplesStep ==
    SamplesInv /\ [SamplesNext]_sampleVars => SamplesInv' /\ [SawNoVerdict]_sampleVars
<1> SUFFICES ASSUME SamplesInv, [SamplesNext]_sampleVars PROVE SamplesInv' /\ [SawNoVerdict]_sampleVars
  OBVIOUS
<1>0. RowsOK /\ ReviewerOK /\ FeedbackOK /\ UpkeepOK BY DEF SamplesInv
<1>1. ASSUME UNCHANGED reviewer PROVE ReviewerOK' BY <1>0, <1>1 DEF ReviewerOK
<1>2. ASSUME UNCHANGED feedback PROVE FeedbackOK' BY <1>0, <1>2 DEF FeedbackOK
<1>3. ASSUME UNCHANGED upkeep PROVE UpkeepOK' BY <1>0, <1>3 DEF UpkeepOK
<1>4. ASSUME UNCHANGED samples PROVE RowsOK' /\ KeepsVerdicts
  BY <1>0, <1>4 DEF RowsOK, KeepsVerdicts
<1>5. ASSUME SamplesInv', KeepsVerdicts \/ reviewer' # reviewer
      PROVE  SamplesInv' /\ [SawNoVerdict]_sampleVars
  BY <1>5, NobodyOverrides DEF SawNoVerdict
<1>6. ASSUME NEW i \in SampleIds, NEW r \in SampleRow \cup {NoSample}, samples' = [samples EXCEPT ![i] = r],
             \/ ~InLibrary(i)
             \/ r = NoSample
             \/ r.state = samples[i].state /\ r.kind = samples[i].kind
      PROVE  RowsOK' /\ KeepsVerdicts
  BY <1>0, <1>6 DEF RowsOK, KeepsVerdicts, Verdict, InLibrary
<1>7. Fresh \in SampleRow
  <2>1. 0 \in 0..StaleAfter /\ 0 \in 0..GreenPlans BY SamplesAssumption
  <2> QED BY <2>1 DEF Fresh, SampleRow, SampleStates, SampleKinds
<1>8. ASSUME NEW i \in SampleIds, create_candidate(i) PROVE SamplesInv' /\ KeepsVerdicts
  BY <1>1, <1>2, <1>3, <1>6, <1>7, <1>8 DEF create_candidate, SamplesInv
<1>9. ASSUME NEW i \in SampleIds, delete(i) PROVE SamplesInv' /\ KeepsVerdicts
  BY <1>1, <1>2, <1>3, <1>6, <1>9 DEF delete, SamplesInv
<1>10. ASSUME NEW i \in SampleIds, retrieve(i) PROVE SamplesInv' /\ KeepsVerdicts
  <2>1. samples[i] \in SampleRow BY <1>0, <1>10 DEF retrieve, InLibrary, RowsOK
  <2>2. /\ Injected(samples[i]) \in SampleRow
        /\ Injected(samples[i]).state = samples[i].state /\ Injected(samples[i]).kind = samples[i].kind
    BY <2>1, CountedRow
  <2>3. samples' = [samples EXCEPT ![i] = Injected(samples[i])] /\ UNCHANGED <<reviewer, feedback, upkeep>>
    BY <1>10 DEF retrieve
  <2> QED BY <1>1, <1>2, <1>3, <1>6, <2>2, <2>3 DEF SamplesInv
<1>11. ASSUME NEW i \in SampleIds, NEW op \in ReviewOps, ReviewRead(op, i) PROVE SamplesInv' /\ KeepsVerdicts
  <2>1. reviewer' = [op |-> op, id |-> i, seen |-> Seen(i)] /\ UNCHANGED <<samples, feedback, upkeep>>
    BY <1>11 DEF ReviewRead
  <2>2. ReviewerOK' BY <2>1 DEF ReviewerOK
  <2> QED BY <1>2, <1>3, <1>4, <2>1, <2>2 DEF SamplesInv
<1>12. ASSUME NEW i \in SampleIds, save_plan_as_decomposition_sample(i) PROVE SamplesInv' /\ KeepsVerdicts
  <2>1. /\ reviewer' = [op |-> "confirm", id |-> i, seen |-> <<Fresh.state, Fresh.kind>>]
        /\ ~InLibrary(i) /\ samples' = [samples EXCEPT ![i] = Fresh] /\ UNCHANGED <<feedback, upkeep>>
    BY <1>12 DEF save_plan_as_decomposition_sample
  <2>2. ReviewerOK' BY <2>1 DEF ReviewerOK, ReviewOps
  <2> QED BY <1>2, <1>3, <1>6, <1>7, <2>1, <2>2 DEF SamplesInv
<1>13. CASE ReviewWrite
  <2>1. /\ reviewer # NoRead /\ mutate(reviewer) /\ reviewer' = NoRead /\ UNCHANGED <<feedback, upkeep>>
    BY <1>13 DEF ReviewWrite
  <2>2. reviewer.op \in SampleOps /\ reviewer.id \in SampleIds
    BY <1>0, <2>1 DEF ReviewerOK, SampleOps
  <2>3. RowsOK' BY <1>0, <2>1, <2>2, MutateWrites
  <2>4. ReviewerOK' BY <2>1 DEF ReviewerOK
  <2>5. SamplesInv' BY <1>2, <1>3, <2>1, <2>3, <2>4 DEF SamplesInv
  <2> QED BY <1>5, <2>1, <2>5
<1>14. ASSUME NEW ids \in SUBSET SampleIds, NEW green \in BOOLEAN, NEW c \in SUBSET SampleIds,
              StartFeedback(ids, green, c)
       PROVE  SamplesInv' /\ KeepsVerdicts
  <2>1. /\ feedback' = [ids |-> ids \cup c, green |-> green, candidate |-> IF green THEN c ELSE {},
                        read |-> NoRead]
        /\ UNCHANGED <<samples, reviewer, upkeep>>
    BY <1>14 DEF StartFeedback
  <2>2. FeedbackOK' BY <2>1 DEF FeedbackOK
  <2> QED BY <1>1, <1>3, <1>4, <2>1, <2>2 DEF SamplesInv
<1>15. feedback.ids \subseteq SampleIds /\ feedback.candidate \subseteq SampleIds /\ feedback.green \in BOOLEAN
  BY <1>0 DEF FeedbackOK
<1>16. ASSUME NEW ids \in SUBSET SampleIds, NEW c \in SUBSET SampleIds, NEW read,
              \/ read = NoRead
              \/ read.op \in {"stale_due", "verify_due"} /\ read.id \in SampleIds
              \/ HoldsRead(read, {"mark_stale", "auto_verify"}),
              feedback' = [ids |-> ids, green |-> feedback.green, candidate |-> c, read |-> read]
       PROVE  FeedbackOK'
  <2>1. feedback'.read = read BY <1>16
  <2>2. feedback' \in [ids : SUBSET SampleIds, green : BOOLEAN, candidate : SUBSET SampleIds, read : {feedback'.read}]
    BY <1>15, <1>16
  <2> QED BY <1>16, <2>1, <2>2 DEF FeedbackOK
<1>17. PICK a, g, b, d : feedback = [ids |-> a, green |-> g, candidate |-> b, read |-> d]
  <2>1. PICK rd : feedback \in [ids : SUBSET SampleIds, green : BOOLEAN, candidate : SUBSET SampleIds, read : {rd}]
    BY <1>0 DEF FeedbackOK
  <2>2. feedback = [ids |-> feedback.ids, green |-> feedback.green, candidate |-> feedback.candidate,
                    read |-> feedback.read]
    BY <2>1
  <2> QED BY <2>2
<1>18. feedback.ids = a /\ feedback.green = g /\ feedback.candidate = b /\ feedback.read = d BY <1>17
<1>19. ASSUME NEW i \in SampleIds, record_plan_outcome(i) PROVE SamplesInv' /\ KeepsVerdicts
  <2> DEFINE sample == Outcome(samples[i], feedback.green)
             due == InLibrary(i) /\ StaleDue(sample, feedback.green)
             read == IF due THEN [op |-> "stale_due", id |-> i] ELSE NoRead
  <2>1. /\ samples' = IF InLibrary(i) THEN [samples EXCEPT ![i] = sample] ELSE samples
        /\ feedback' = [feedback EXCEPT !.ids = feedback.ids \ {i}, !.read = read]
        /\ UNCHANGED <<reviewer, upkeep>>
    BY <1>19 DEF record_plan_outcome
  <2>2. \/ read = NoRead
        \/ read.op \in {"stale_due", "verify_due"} /\ read.id \in SampleIds
    OBVIOUS
  <2>3. RowsOK' /\ KeepsVerdicts
    <3>1. CASE InLibrary(i)
      <4>1. samples[i] \in SampleRow BY <1>0, <3>1 DEF InLibrary, RowsOK
      <4>2. sample \in SampleRow /\ sample.state = samples[i].state /\ sample.kind = samples[i].kind
        BY <1>15, <4>1, CountedRow
      <4>3. samples' = [samples EXCEPT ![i] = sample] BY <2>1, <3>1
      <4> HIDE DEF sample
      <4> QED BY <1>6, <4>2, <4>3
    <3>2. CASE ~InLibrary(i) BY <1>4, <2>1, <3>2
    <3> QED BY <3>1, <3>2
  <2> HIDE DEF read
  <2>4. feedback' = [ids |-> feedback.ids \ {i}, green |-> feedback.green, candidate |-> feedback.candidate,
                     read |-> read]
    <3>1. feedback' = [[ids |-> a, green |-> g, candidate |-> b, read |-> d] EXCEPT !.ids = a \ {i}, !.read = read]
      BY <1>17, <1>18, <2>1
    <3> QED BY <1>18, <3>1
  <2>5. FeedbackOK' BY <1>15, <1>16, <2>2, <2>4
  <2> QED BY <1>1, <1>3, <2>1, <2>3, <2>5 DEF SamplesInv
<1>20. ASSUME NEW i \in SampleIds, auto_verify_candidate(i) PROVE SamplesInv' /\ KeepsVerdicts
  <2> DEFINE read == IF /\ InLibrary(i) /\ samples[i].state = "candidate"
                        /\ samples[i].completed >= GreenPlans
                     THEN [op |-> "verify_due", id |-> i] ELSE NoRead
  <2>1. /\ feedback' = [feedback EXCEPT !.candidate = {}, !.read = read]
        /\ UNCHANGED <<samples, reviewer, upkeep>>
    BY <1>20 DEF auto_verify_candidate
  <2>2. \/ read = NoRead
        \/ read.op \in {"stale_due", "verify_due"} /\ read.id \in SampleIds
    OBVIOUS
  <2> HIDE DEF read
  <2>3. feedback' = [ids |-> feedback.ids, green |-> feedback.green, candidate |-> {}, read |-> read]
    <3>1. feedback' = [[ids |-> a, green |-> g, candidate |-> b, read |-> d] EXCEPT !.candidate = {}, !.read = read]
      BY <1>17, <2>1
    <3> QED BY <1>18, <3>1
  <2>4. FeedbackOK' BY <1>15, <1>16, <2>2, <2>3
  <2> QED BY <1>1, <1>3, <1>4, <2>1, <2>4 DEF SamplesInv
<1>21. ASSUME NEW read, feedback' = [feedback EXCEPT !.read = read]
       PROVE  /\ feedback' = [ids |-> feedback.ids, green |-> feedback.green, candidate |-> feedback.candidate,
                              read |-> read]
  <2>1. feedback' = [[ids |-> a, green |-> g, candidate |-> b, read |-> d] EXCEPT !.read = read] BY <1>17, <1>21
  <2> QED BY <1>18, <2>1
<1>22. ASSUME NEW op \in {"mark_stale", "auto_verify"}, FeedbackRead(op) PROVE SamplesInv' /\ KeepsVerdicts
  <2> DEFINE i == feedback.read.id
             read == IF InLibrary(i) /\ Allowed(op, Seen(i))
                     THEN [op |-> op, id |-> i, seen |-> Seen(i)] ELSE NoRead
  <2>1. /\ feedback.read # NoRead /\ feedback.read.op \in {"stale_due", "verify_due"}
        /\ feedback' = [feedback EXCEPT !.read = read] /\ UNCHANGED <<samples, reviewer, upkeep>>
    BY <1>22 DEF FeedbackRead
  <2>2. i \in SampleIds BY <1>0, <2>1 DEF FeedbackOK, HoldsRead
  <2>3. read = NoRead \/ HoldsRead(read, {"mark_stale", "auto_verify"}) BY <2>2 DEF HoldsRead
  <2> HIDE DEF read, i
  <2>4. FeedbackOK' BY <1>15, <1>16, <1>21, <2>1, <2>3
  <2> QED BY <1>1, <1>3, <1>4, <2>1, <2>4 DEF SamplesInv
<1>23. ASSUME NEW read, NEW ops \in SUBSET {"mark_stale", "auto_verify", "archive"}, HoldsRead(read, ops), mutate(read),
              read = IF feedback' # feedback THEN feedback.read ELSE upkeep.read
       PROVE  RowsOK' /\ SawNoVerdict
  <2>1. read.op \in {"mark_stale", "auto_verify", "archive"} /\ read.id \in SampleIds /\ Allowed(read.op, read.seen)
    BY <1>23 DEF HoldsRead
  <2>2. RowsOK' /\ \A i \in SampleIds : i # read.id => samples'[i] = samples[i]
    BY <1>0, <1>23, <2>1, MutateWrites DEF SampleOps
  <2>3. ASSUME NEW i \in SampleIds, Overridden(i) PROVE ReadBefore(i)
    <3>1. Verdict(i) /\ i = read.id BY <2>2, <2>3 DEF Overridden, Seen
    <3>2. ~Allowed(read.op, Seen(i)) BY <2>1, <3>1, AllowedIsNoVerdict
    <3>3. read.seen # Seen(i) BY <2>1, <3>2
    <3> QED BY <1>23, <3>1, <3>3 DEF ReadBefore
  <2> QED BY <2>2, <2>3 DEF SawNoVerdict
<1>24. CASE FeedbackWrite
  <2>1. /\ feedback.read # NoRead /\ feedback.read.op \in {"mark_stale", "auto_verify"}
        /\ mutate(feedback.read) /\ feedback' = [feedback EXCEPT !.read = NoRead]
        /\ UNCHANGED <<reviewer, upkeep>>
    BY <1>24 DEF FeedbackWrite
  <2>2. HoldsRead(feedback.read, {"mark_stale", "auto_verify"}) BY <1>0, <2>1 DEF FeedbackOK
  <2>3. feedback'.read = NoRead BY <1>21, <2>1
  <2>4. feedback' # feedback BY <2>1, <2>3
  <2>5. RowsOK' /\ SawNoVerdict BY <1>23, <2>1, <2>2, <2>4
  <2>6. FeedbackOK' BY <1>15, <1>16, <1>21, <2>1
  <2> QED BY <1>1, <1>3, <2>1, <2>5, <2>6 DEF SamplesInv
<1>25. PICK todo_, running_, failed_, receipt_, read_ :
          /\ upkeep = [todo |-> todo_, running |-> running_, failed |-> failed_, receipt |-> receipt_,
                       read |-> read_]
          /\ todo_ \subseteq SampleIds /\ running_ \in BOOLEAN /\ failed_ \in BOOLEAN /\ receipt_ \in BOOLEAN
  <2>1. PICK rd : upkeep \in [todo : SUBSET SampleIds, running : BOOLEAN, failed : BOOLEAN, receipt : BOOLEAN,
                              read : {rd}]
    BY <1>0 DEF UpkeepOK
  <2>2. /\ upkeep = [todo |-> upkeep.todo, running |-> upkeep.running, failed |-> upkeep.failed,
                     receipt |-> upkeep.receipt, read |-> upkeep.read]
        /\ upkeep.todo \subseteq SampleIds /\ upkeep.running \in BOOLEAN /\ upkeep.failed \in BOOLEAN
        /\ upkeep.receipt \in BOOLEAN
    BY <2>1
  <2> QED BY <2>2
<1>26. /\ upkeep.todo = todo_ /\ upkeep.running = running_ /\ upkeep.failed = failed_
       /\ upkeep.receipt = receipt_ /\ upkeep.read = read_
  BY <1>25
<1>27. ASSUME NEW t \in SUBSET SampleIds, NEW n \in BOOLEAN, NEW f \in BOOLEAN, NEW rc \in BOOLEAN, NEW read,
              read = NoRead \/ HoldsRead(read, {"archive"}),
              n \/ (t = {} /\ read = NoRead),
              upkeep' = [todo |-> t, running |-> n, failed |-> f, receipt |-> rc, read |-> read]
       PROVE  UpkeepOK'
  <2>1. upkeep'.read = read /\ upkeep'.todo = t /\ upkeep'.running = n BY <1>27
  <2>2. upkeep' \in [todo : SUBSET SampleIds, running : BOOLEAN, failed : BOOLEAN, receipt : BOOLEAN,
                     read : {upkeep'.read}]
    BY <1>27
  <2> QED BY <1>27, <2>1, <2>2 DEF UpkeepOK
<1>28. ASSUME NEW evicted \in SUBSET SampleIds, NEW cold \in SUBSET SampleIds, StartUpkeep(evicted, cold)
       PROVE  SamplesInv' /\ KeepsVerdicts
  <2>1. /\ upkeep' = [upkeep EXCEPT !.running = TRUE, !.todo = evicted \cup cold] /\ ~upkeep.running
        /\ UNCHANGED <<samples, reviewer, feedback>>
    BY <1>28 DEF StartUpkeep
  <2>2. upkeep' = [todo |-> evicted \cup cold, running |-> TRUE, failed |-> failed_, receipt |-> receipt_,
                   read |-> read_]
    BY <1>25, <2>1
  <2>3. read_ = NoRead BY <1>0, <1>26, <2>1 DEF UpkeepOK
  <2>4. UpkeepOK' BY <1>25, <1>27, <2>2, <2>3
  <2> QED BY <1>1, <1>2, <1>4, <2>1, <2>4 DEF SamplesInv
<1>29. ASSUME NEW i \in SampleIds, ArchiveRead(i) PROVE SamplesInv' /\ KeepsVerdicts
  <2> DEFINE ok == InLibrary(i) /\ Allowed("archive", Seen(i))
             read == IF ok THEN [op |-> "archive", id |-> i, seen |-> Seen(i)] ELSE NoRead
  <2>1. /\ i \in upkeep.todo
        /\ upkeep' = [upkeep EXCEPT !.todo = upkeep.todo \ {i}, !.failed = upkeep.failed \/ ~ok, !.read = read]
        /\ UNCHANGED <<samples, reviewer, feedback>>
    BY <1>29 DEF ArchiveRead
  <2>2. read = NoRead \/ HoldsRead(read, {"archive"}) BY DEF HoldsRead
  <2> DEFINE f == failed_ \/ ~ok
  <2>3. f \in BOOLEAN OBVIOUS
  <2>4. upkeep' = [upkeep EXCEPT !.todo = todo_ \ {i}, !.failed = f, !.read = read] BY <1>26, <2>1
  <2> HIDE DEF read, f, ok
  <2>5. upkeep' = [todo |-> todo_ \ {i}, running |-> running_, failed |-> f, receipt |-> receipt_, read |-> read]
    BY <1>25, <2>4
  <2>6. running_ = TRUE BY <1>0, <1>25, <1>26, <2>1 DEF UpkeepOK
  <2>7. UpkeepOK' BY <1>25, <1>27, <2>2, <2>3, <2>5, <2>6
  <2> QED BY <1>1, <1>2, <1>4, <2>1, <2>7 DEF SamplesInv
<1>30. CASE ArchiveWrite
  <2> DEFINE f == failed_ \/ ~InLibrary(read_.id)
  <2>1. /\ upkeep.read # NoRead /\ mutate(upkeep.read)
        /\ upkeep' = [upkeep EXCEPT !.read = NoRead, !.failed = f]
        /\ UNCHANGED <<reviewer, feedback>>
    BY <1>26, <1>30 DEF ArchiveWrite
  <2>2. HoldsRead(upkeep.read, {"archive"}) BY <1>0, <2>1 DEF UpkeepOK
  <2>3. RowsOK' /\ SawNoVerdict BY <1>23, <2>1, <2>2
  <2>4. f \in BOOLEAN OBVIOUS
  <2> HIDE DEF f
  <2>5. upkeep' = [todo |-> todo_, running |-> running_, failed |-> f, receipt |-> receipt_, read |-> NoRead]
    BY <1>25, <2>1
  <2>6. running_ = TRUE BY <1>0, <1>25, <1>26, <2>1 DEF UpkeepOK
  <2>7. UpkeepOK' BY <1>25, <1>27, <2>4, <2>5, <2>6
  <2> QED BY <1>1, <1>2, <2>1, <2>3, <2>7 DEF SamplesInv
<1>31. CASE EndUpkeep
  <2> DEFINE rc == ~failed_
  <2>1. /\ upkeep.todo = {} /\ upkeep.read = NoRead
        /\ upkeep' = [upkeep EXCEPT !.running = FALSE, !.receipt = rc, !.failed = FALSE]
        /\ UNCHANGED <<samples, reviewer, feedback>>
    BY <1>26, <1>31 DEF EndUpkeep
  <2>2. rc \in BOOLEAN OBVIOUS
  <2> HIDE DEF rc
  <2>3. upkeep' = [todo |-> todo_, running |-> FALSE, failed |-> FALSE, receipt |-> rc, read |-> read_]
    BY <1>25, <2>1
  <2>4. UpkeepOK' BY <1>25, <1>26, <1>27, <2>1, <2>2, <2>3
  <2>5. SamplesInv' /\ KeepsVerdicts BY <1>1, <1>2, <1>4, <2>1, <2>4 DEF SamplesInv
  <2> QED BY <1>5, <2>5
<1>32. CASE NextDay
  <2>1. upkeep' = [upkeep EXCEPT !.receipt = FALSE] /\ UNCHANGED <<samples, reviewer, feedback>>
    BY <1>32 DEF NextDay
  <2>2. upkeep' = [todo |-> todo_, running |-> running_, failed |-> failed_, receipt |-> FALSE, read |-> read_]
    BY <1>25, <2>1
  <2>3. /\ read_ = NoRead \/ HoldsRead(read_, {"archive"})
        /\ running_ \/ (todo_ = {} /\ read_ = NoRead)
    BY <1>0, <1>26 DEF UpkeepOK
  <2>4. UpkeepOK' BY <1>25, <1>27, <2>2, <2>3
  <2>5. SamplesInv' /\ KeepsVerdicts BY <1>1, <1>2, <1>4, <2>1, <2>4 DEF SamplesInv
  <2> QED BY <1>5, <2>5
<1>33. CASE UNCHANGED sampleVars
  <2>1. SamplesInv' BY <1>1, <1>2, <1>3, <1>4, <1>33 DEF sampleVars, SamplesInv
  <2> QED BY <1>33, <2>1
<1>34. CASE \E i \in SampleIds :
              \/ create_candidate(i) \/ delete(i) \/ retrieve(i)
              \/ save_plan_as_decomposition_sample(i)
              \/ \E op \in {"confirm", "edit", "reject", "restore"} : ReviewRead(op, i)
              \/ record_plan_outcome(i) \/ auto_verify_candidate(i) \/ ArchiveRead(i)
  <2>1. SamplesInv' /\ KeepsVerdicts
    BY <1>8, <1>9, <1>10, <1>11, <1>12, <1>19, <1>20, <1>29, <1>34 DEF ReviewOps
  <2> QED BY <1>5, <2>1
<1>35. CASE \E ids \in SUBSET SampleIds, green \in BOOLEAN, i \in SampleIds :
               \/ ids # {} /\ StartFeedback(ids, green, {})
               \/ StartFeedback(ids, green, {i})
  <2>1. PICK ids \in SUBSET SampleIds, green \in BOOLEAN, c \in SUBSET SampleIds : StartFeedback(ids, green, c)
    BY <1>35
  <2> QED BY <1>5, <1>14, <2>1
<1>36. CASE \E op \in {"mark_stale", "auto_verify"} : FeedbackRead(op) BY <1>5, <1>22, <1>36
<1>37. CASE \E evicted, cold \in SUBSET SampleIds : StartUpkeep(evicted, cold) BY <1>5, <1>28, <1>37
<1> QED BY <1>13, <1>24, <1>30, <1>31, <1>32, <1>33, <1>34, <1>35, <1>36, <1>37 DEF SamplesNext

LEMMA SamplesStart == SamplesInit => SamplesInv
<1> SUFFICES ASSUME SamplesInit PROVE SamplesInv OBVIOUS
<1>1. /\ samples = [i \in SampleIds |-> NoSample] /\ reviewer = NoRead
      /\ feedback = [ids |-> {}, green |-> FALSE, candidate |-> {}, read |-> NoRead]
      /\ upkeep = [todo |-> {}, running |-> FALSE, failed |-> FALSE, receipt |-> FALSE, read |-> NoRead]
  BY DEF SamplesInit
<1>2. RowsOK /\ ReviewerOK BY <1>1 DEF RowsOK, ReviewerOK
<1>3. FeedbackOK BY <1>1 DEF FeedbackOK
<1>4. UpkeepOK BY <1>1 DEF UpkeepOK
<1> QED BY <1>2, <1>3, <1>4 DEF SamplesInv

\* The library's rows are consistent, and the automation overrides no verdict it has seen.
THEOREM VerdictsAreRespected == SamplesSpec => []SamplesTypeOK /\ AutomationSawNoVerdict
<1>1. SamplesInv => SamplesTypeOK
  <2> SUFFICES ASSUME SamplesInv PROVE SamplesTypeOK OBVIOUS
  <2>1. samples \in [SampleIds -> {NoSample} \cup
          [state : {"candidate", "verified", "rejected", "stale", "archived"},
           kind : {"user", "auto", "none"}, status : {"active", "cancelled"},
           injected : 0..StaleAfter, completed : 0..GreenPlans,
           failures : 0..StaleAfter]]
    BY DEF SamplesInv, RowsOK, SampleRow, SampleStates, SampleKinds
  <2>2. \A i \in SampleIds : InLibrary(i) =>
          /\ samples[i].state = "verified" <=> samples[i].kind # "none"
          /\ samples[i].state = "archived" <=> samples[i].status = "cancelled"
    BY DEF SamplesInv, RowsOK, SampleRow, InLibrary
  <2>3. feedback.ids \subseteq SampleIds /\ feedback.candidate \subseteq SampleIds
    BY DEF SamplesInv, FeedbackOK
  <2>4. upkeep.todo \subseteq SampleIds /\ (upkeep.running \/ (upkeep.todo = {} /\ upkeep.read = NoRead))
    BY DEF SamplesInv, UpkeepOK
  <2> QED BY <2>1, <2>2, <2>3, <2>4 DEF SamplesTypeOK
<1> QED BY <1>1, SamplesStart, SamplesStep, PTL DEF SamplesSpec, AutomationSawNoVerdict, SawNoVerdict

(***************************************************************************)
(* The settings' backups                                                   *)
(***************************************************************************)

\* A thread's record has its fields.
IsSaver(w) ==
    w \in [at : {w.at}, call : {w.call}, loaded : {w.loaded}, saving : {w.saving},
           migrating : {w.migrating}, listed : {w.listed}, copy : {w.copy}]

WritersOK == writer \in [Writers -> {writer[t] : t \in Writers}] /\ \A t \in Writers : IsSaver(writer[t])

\* Backups and what the savers have listed of them.
BackupsOK ==
    /\ \A b \in backups : b.order \in 1..MaxOrder + 1
    /\ \A t \in Writers : \A b \in writer[t].listed : b.order \in 1..MaxOrder + 1

\* No backup anybody knows of sorts after b.
SortsLast(b) ==
    /\ \A c \in backups : c.order <= b.order
    /\ \A t \in Writers : \A c \in writer[t].listed : c.order <= b.order

\* The backup that sorts last is there.
NewestIsThere ==
    /\ backups = {} => \A t \in Writers : writer[t].listed = {}
    /\ backups # {} => \E b \in backups : SortsLast(b)

SettingsInv == WritersOK /\ BackupsOK /\ NewestIsThere

\* A field of a thread's record changes.
LEMMA SaverChanges ==
    ASSUME NEW w, IsSaver(w), NEW v
    PROVE  /\ IsSaver([w EXCEPT !.at = v]) /\ [w EXCEPT !.at = v].listed = w.listed
           /\ IsSaver([w EXCEPT !.call = v]) /\ [w EXCEPT !.call = v].listed = w.listed
           /\ IsSaver([w EXCEPT !.loaded = v]) /\ [w EXCEPT !.loaded = v].listed = w.listed
           /\ IsSaver([w EXCEPT !.saving = v]) /\ [w EXCEPT !.saving = v].listed = w.listed
           /\ IsSaver([w EXCEPT !.migrating = v]) /\ [w EXCEPT !.migrating = v].listed = w.listed
           /\ IsSaver([w EXCEPT !.copy = v]) /\ [w EXCEPT !.copy = v].listed = w.listed
           /\ IsSaver([w EXCEPT !.listed = v]) /\ [w EXCEPT !.listed = v].listed = v
<1>1. PICK a, c, l, s, m, ls, k :
         w = [at |-> a, call |-> c, loaded |-> l, saving |-> s, migrating |-> m, listed |-> ls, copy |-> k]
  <2>1. w = [at |-> w.at, call |-> w.call, loaded |-> w.loaded, saving |-> w.saving,
             migrating |-> w.migrating, listed |-> w.listed, copy |-> w.copy]
    BY DEF IsSaver
  <2> QED BY <2>1
<1> QED BY <1>1 DEF IsSaver

LEMMA RestingSaver == IsSaver(Resting) /\ Resting.listed = {}
BY DEF Resting, IsSaver

LEMMA WritersKept ==
    ASSUME WritersOK, NEW t \in Writers, NEW w, IsSaver(w), writer' = [writer EXCEPT ![t] = w]
    PROVE  WritersOK' /\ writer'[t] = w /\ \A u \in Writers : u # t => writer'[u] = writer[u]
<1>1. writer'[t] = w /\ \A u \in Writers : u # t => writer'[u] = writer[u] BY DEF WritersOK
<1>2. writer' \in [Writers -> {writer'[u] : u \in Writers}] BY DEF WritersOK
<1>3. \A u \in Writers : IsSaver(writer'[u]) BY <1>1 DEF WritersOK
<1> QED BY <1>1, <1>2, <1>3 DEF WritersOK

\* The savers list nothing new, or all there is.
LEMMA ListingKeeps ==
    ASSUME SettingsInv, NEW t \in Writers, NEW w, IsSaver(w), writer' = [writer EXCEPT ![t] = w],
           w.listed = writer[t].listed \/ w.listed = {} \/ w.listed = backups,
           UNCHANGED backups
    PROVE  SettingsInv'
<1>1. WritersOK' /\ writer'[t] = w /\ \A u \in Writers : u # t => writer'[u] = writer[u]
  BY WritersKept DEF SettingsInv
<1>2. \A u \in Writers : \A c \in writer'[u].listed :
         c \in backups \/ \E x \in Writers : c \in writer[x].listed
  BY <1>1
<1>3. BackupsOK' BY <1>2 DEF SettingsInv, BackupsOK
<1>4. NewestIsThere' BY <1>1, <1>2 DEF SettingsInv, NewestIsThere, SortsLast
<1> QED BY <1>1, <1>3, <1>4 DEF SettingsInv

\* A power loss forgets what was listed.
LEMMA ForgettingKeeps ==
    ASSUME SettingsInv, writer' = [t \in Writers |-> Resting], UNCHANGED backups
    PROVE  SettingsInv'
<1>1. \A t \in Writers : writer'[t] = Resting /\ writer'[t].listed = {} /\ IsSaver(writer'[t])
  BY RestingSaver
<1>2. WritersOK' BY <1>1 DEF WritersOK
<1>3. BackupsOK' BY <1>1 DEF SettingsInv, BackupsOK
<1>4. NewestIsThere' BY <1>1 DEF SettingsInv, NewestIsThere, SortsLast
<1> QED BY <1>2, <1>3, <1>4 DEF SettingsInv

\* The backup that sorts last is not among the oldest.
LEMMA NewestStays ==
    ASSUME NEW listed, NEW b \in listed, b.order \in Nat,
           \A c \in listed : c.order \in Nat /\ c.order <= b.order
    PROVE  b \in Stay(listed)
<1>1. {c \in listed : c.order > b.order} = {} OBVIOUS
<1>2. Cardinality({c \in listed : c.order > b.order}) = 0 BY <1>1, FS_EmptySet
<1>3. Cardinality({c \in listed : c.order > b.order}) < max_backups - 1 BY <1>2, SettingsAssumption
<1> QED BY <1>3 DEF Stay, Newest

\* The name of the next backup sorts after all there are, or with the last.
LEMMA NextOrder ==
    ASSUME NEW B, \A b \in B : b.order \in 1..MaxOrder + 1
    PROVE  LET next == 1 + Cardinality({n \in 1..MaxOrder : \E b \in B : b.order >= n})
           IN  next \in 1..MaxOrder + 1 /\ \A b \in B : (\A c \in B : c.order <= b.order) => b.order <= next
<1> DEFINE seen == {n \in 1..MaxOrder : \E b \in B : b.order >= n}
<1>0. MaxOrder \in Nat BY SettingsAssumption DEF MaxOrder
<1> HIDE DEF MaxOrder
<1>1. IsFiniteSet(1..MaxOrder) /\ Cardinality(1..MaxOrder) = MaxOrder
  <2>1. IsFiniteSet(1..MaxOrder) /\ Cardinality(1..MaxOrder) = IF 1 > MaxOrder THEN 0 ELSE MaxOrder - 1 + 1
    BY <1>0, FS_Interval
  <2> QED BY <1>0, <2>1
<1>2. IsFiniteSet(seen) /\ Cardinality(seen) <= MaxOrder
  BY <1>1, FS_Subset
<1>3. Cardinality(seen) \in Nat BY <1>2, FS_CardinalityType
<1>4. ASSUME NEW b \in B, \A c \in B : c.order <= b.order PROVE b.order <= 1 + Cardinality(seen)
  <2> DEFINE top == IF b.order <= MaxOrder THEN b.order ELSE MaxOrder
  <2>0. b.order \in 1..MaxOrder + 1 OBVIOUS
  <2>1. top \in Nat /\ top <= MaxOrder /\ b.order <= 1 + top /\ top <= b.order BY <1>0, <2>0
  <2> HIDE DEF top
  <2>2. 1..top \subseteq seen
    <3> SUFFICES ASSUME NEW n \in 1..top PROVE n \in seen OBVIOUS
    <3>1. n \in 1..MaxOrder /\ b.order >= n BY <1>0, <2>0, <2>1
    <3> QED BY <3>1
  <2> HIDE DEF seen
  <2>3. Cardinality(1..top) = top
    <3>1. Cardinality(1..top) = IF 1 > top THEN 0 ELSE top - 1 + 1 BY <2>1, FS_Interval
    <3> QED BY <2>1, <3>1
  <2>4. Cardinality(1..top) <= Cardinality(seen) BY <1>2, <2>2, FS_Subset
  <2> QED BY <1>3, <2>0, <2>1, <2>3, <2>4
<1>5. 1 + Cardinality(seen) \in 1..MaxOrder + 1 BY <1>0, <1>2, <1>3
<1> QED BY <1>4, <1>5

LEMMA SettingsStep ==
    SettingsInv /\ [SettingsNext]_settingsVars =>
        SettingsInv' /\ [backups # {} => backups' # {}]_settingsVars
<1> SUFFICES ASSUME SettingsInv, [SettingsNext]_settingsVars
             PROVE  SettingsInv' /\ (backups # {} => backups' # {})
  OBVIOUS
<1>0. WritersOK /\ BackupsOK /\ NewestIsThere BY DEF SettingsInv
<1>1. ASSUME NEW t \in Writers PROVE IsSaver(writer[t]) BY <1>0 DEF WritersOK
<1>2. ASSUME NEW t \in Writers, NEW c \in Endpoints, BeginCall(t, c) PROVE SettingsInv' /\ UNCHANGED backups
  <2> DEFINE m == [Resting EXCEPT !.at = "load"]
             w == [m EXCEPT !.call = c]
  <2>1. writer' = [writer EXCEPT ![t] = w] /\ UNCHANGED backups BY <1>2 DEF BeginCall
  <2>2. IsSaver(m) /\ m.listed = {} BY RestingSaver, SaverChanges
  <2> HIDE DEF m
  <2>3. IsSaver(w) /\ w.listed = {} BY <2>2, SaverChanges
  <2> HIDE DEF w
  <2> QED BY <2>1, <2>3, ListingKeeps
<1>3. ASSUME NEW t \in Writers, LoadSettings(t) PROVE SettingsInv' /\ UNCHANGED backups
  <2>1. UNCHANGED backups BY <1>3 DEF LoadSettings
  <2>2. \E place, v, s, mg :
           \/ writer' = [writer EXCEPT ![t] = [writer[t] EXCEPT !.at = place]]
           \/ writer' = [writer EXCEPT ![t] = [[writer[t] EXCEPT !.at = place] EXCEPT !.loaded = v]]
           \/ writer' = [writer EXCEPT ![t] = [[[[writer[t] EXCEPT !.at = place] EXCEPT !.migrating = mg]
                                                EXCEPT !.loaded = v] EXCEPT !.saving = s]]
    BY <1>3 DEF LoadSettings
  <2>3. PICK place, v, s, mg :
           \/ writer' = [writer EXCEPT ![t] = [writer[t] EXCEPT !.at = place]]
           \/ writer' = [writer EXCEPT ![t] = [[writer[t] EXCEPT !.at = place] EXCEPT !.loaded = v]]
           \/ writer' = [writer EXCEPT ![t] = [[[[writer[t] EXCEPT !.at = place] EXCEPT !.migrating = mg]
                                                EXCEPT !.loaded = v] EXCEPT !.saving = s]]
    BY <2>2
  <2> DEFINE w1 == [writer[t] EXCEPT !.at = place]
             w2 == [w1 EXCEPT !.loaded = v]
             w3 == [w1 EXCEPT !.migrating = mg]
             w4 == [w3 EXCEPT !.loaded = v]
             w5 == [w4 EXCEPT !.saving = s]
  <2>4. IsSaver(w1) /\ w1.listed = writer[t].listed BY <1>1, SaverChanges
  <2>5. writer' \in {[writer EXCEPT ![t] = w1], [writer EXCEPT ![t] = w2], [writer EXCEPT ![t] = w5]} BY <2>3
  <2> HIDE DEF w1
  <2>6. IsSaver(w2) /\ w2.listed = writer[t].listed /\ IsSaver(w3) /\ w3.listed = writer[t].listed
    BY <2>4, SaverChanges
  <2> HIDE DEF w2, w3
  <2>7. IsSaver(w4) /\ w4.listed = writer[t].listed
    <3>1. IsSaver(w3) /\ w3.listed = writer[t].listed BY <2>6
    <3>2. IsSaver([w3 EXCEPT !.loaded = v]) /\ [w3 EXCEPT !.loaded = v].listed = w3.listed
      BY ONLY <3>1, SaverChanges
    <3> QED BY <3>1, <3>2
  <2> HIDE DEF w4
  <2>8. IsSaver(w5) /\ w5.listed = writer[t].listed BY <2>7, SaverChanges
  <2> HIDE DEF w5
  <2> QED BY <2>1, <2>4, <2>5, <2>6, <2>8, ListingKeeps
<1>4. ASSUME NEW t \in Writers, RestoreBackup(t) PROVE SettingsInv' /\ UNCHANGED backups
  <2> DEFINE w == [writer[t] EXCEPT !.at = "load"]
  <2>1. writer' = [writer EXCEPT ![t] = w] /\ UNCHANGED backups BY <1>4 DEF RestoreBackup
  <2>2. IsSaver(w) /\ w.listed = writer[t].listed BY <1>1, SaverChanges
  <2> HIDE DEF w
  <2> QED BY <2>1, <2>2, ListingKeeps
<1>5. ASSUME NEW t \in Writers, NEW v \in 0..1, ApplyChange(t, v) PROVE SettingsInv' /\ UNCHANGED backups
  <2> DEFINE m == [writer[t] EXCEPT !.at = "save"]
             w == [m EXCEPT !.saving = Applied(writer[t], v)]
  <2>1. writer' = [writer EXCEPT ![t] = w] /\ UNCHANGED backups BY <1>0, <1>5 DEF ApplyChange, WritersOK
  <2>2. IsSaver(m) /\ m.listed = writer[t].listed BY <1>1, SaverChanges
  <2> HIDE DEF m
  <2>3. IsSaver(w) /\ w.listed = writer[t].listed BY <2>2, SaverChanges
  <2> HIDE DEF w
  <2> QED BY <2>1, <2>3, ListingKeeps
<1>6. ASSUME NEW t \in Writers, ReturnSettings(t) PROVE SettingsInv' /\ UNCHANGED backups
  BY <1>6, RestingSaver, ListingKeeps DEF ReturnSettings
<1>7. ASSUME NEW t \in Writers, ReadCurrent(t) PROVE SettingsInv' /\ UNCHANGED backups
  <2> DEFINE w1 == [writer[t] EXCEPT !.at = "unlink"]
             w2 == [w1 EXCEPT !.copy = file]
             w3 == [w2 EXCEPT !.listed = backups]
             w4 == [writer[t] EXCEPT !.at = "replace"]
  <2>1. writer' \in {[writer EXCEPT ![t] = w3], [writer EXCEPT ![t] = w4]} /\ UNCHANGED backups
    BY <1>7 DEF ReadCurrent
  <2>2. IsSaver(w1) /\ IsSaver(w4) /\ w4.listed = writer[t].listed BY <1>1, SaverChanges
  <2> HIDE DEF w1, w4
  <2>3. IsSaver(w2) BY <2>2, SaverChanges
  <2> HIDE DEF w2
  <2>4. IsSaver(w3) /\ w3.listed = backups BY <2>3, SaverChanges
  <2> HIDE DEF w3
  <2> QED BY <2>1, <2>2, <2>4, ListingKeeps
<1>8. ASSUME NEW t \in Writers, UnlinkOldest(t) PROVE SettingsInv' /\ (backups # {} => backups' # {})
  <2> DEFINE w1 == [writer[t] EXCEPT !.at = "copy"]
             w == [w1 EXCEPT !.listed = {}]
  <2>1. /\ backups' = backups \ (writer[t].listed \ Stay(writer[t].listed))
        /\ writer' = [writer EXCEPT ![t] = w]
    BY <1>0, <1>8 DEF UnlinkOldest, WritersOK
  <2>2. IsSaver(w1) BY <1>1, SaverChanges
  <2> HIDE DEF w1
  <2>3. IsSaver(w) /\ w.listed = {} BY <2>2, SaverChanges
  <2> HIDE DEF w
  <2>4. WritersOK' /\ writer'[t] = w /\ \A u \in Writers : u # t => writer'[u] = writer[u]
    BY <1>0, <2>1, <2>3, WritersKept
  <2>5. \A u \in Writers : writer'[u].listed \subseteq writer[u].listed BY <2>3, <2>4
  <2>6. BackupsOK' BY <1>0, <2>1, <2>5 DEF BackupsOK
  <2>7. CASE backups = {}
    BY <1>0, <2>1, <2>4, <2>5, <2>6, <2>7 DEF SettingsInv, NewestIsThere
  <2>8. CASE backups # {}
    <3>1. PICK b \in backups : SortsLast(b) BY <1>0, <2>8 DEF NewestIsThere
    <3>2. b \in backups'
      <4>1. CASE b \in writer[t].listed
        <5>1. b.order \in Nat /\ \A c \in writer[t].listed : c.order \in Nat /\ c.order <= b.order
          BY <1>0, <3>1 DEF BackupsOK, SortsLast
        <5> QED BY <2>1, <4>1, <5>1, NewestStays
      <4>2. CASE b \notin writer[t].listed BY <2>1, <4>2
      <4> QED BY <4>1, <4>2
    <3>3. SortsLast(b)' BY <2>1, <2>5, <3>1 DEF SortsLast
    <3> QED BY <2>4, <2>6, <3>2, <3>3 DEF SettingsInv, NewestIsThere
  <2> QED BY <2>7, <2>8
<1>9. ASSUME NEW t \in Writers, CopyCurrent(t) PROVE SettingsInv' /\ (backups # {} => backups' # {})
  <2> DEFINE next == 1 + Cardinality({n \in 1..MaxOrder : \E b \in backups : b.order >= n})
             new == [order |-> next, content |-> writer[t].copy]
             w == [writer[t] EXCEPT !.at = "replace"]
  <2>1. backups' = backups \cup {new} /\ writer' = [writer EXCEPT ![t] = w]
    BY <1>9 DEF CopyCurrent
  <2>2. IsSaver(w) /\ w.listed = writer[t].listed BY <1>1, SaverChanges
  <2> HIDE DEF w
  <2>3. WritersOK' /\ \A u \in Writers : writer'[u].listed = writer[u].listed
    BY <1>0, <2>1, <2>2, WritersKept
  <2>4. next \in 1..MaxOrder + 1 /\ \A b \in backups : (\A c \in backups : c.order <= b.order) => b.order <= next
    BY <1>0, NextOrder DEF BackupsOK
  <2>5. new \in backups' /\ new.order = next BY <2>1
  <2> HIDE DEF next
  <2>6. BackupsOK' BY <1>0, <2>1, <2>3, <2>4, <2>5 DEF BackupsOK
  <2>7. /\ \A c \in backups : c.order <= next
        /\ \A u \in Writers : \A c \in writer[u].listed : c.order <= next
    <3>1. CASE backups = {} BY <1>0, <3>1 DEF NewestIsThere
    <3>2. CASE backups # {}
      <4>1. PICK b \in backups : SortsLast(b) BY <1>0, <3>2 DEF NewestIsThere
      <4>2. b.order <= next BY <2>4, <4>1 DEF SortsLast
      <4>3. MaxOrder \in Nat BY SettingsAssumption DEF MaxOrder
      <4>4. \A n \in 1..MaxOrder + 1 : n <= b.order => n <= next
        BY <1>0, <2>4, <4>2, <4>3 DEF BackupsOK
      <4>5. \A c \in backups : c.order <= next BY <1>0, <4>1, <4>4 DEF BackupsOK, SortsLast
      <4>6. \A u \in Writers : \A c \in writer[u].listed : c.order <= next
        BY <1>0, <4>1, <4>4 DEF BackupsOK, SortsLast
      <4> QED BY <4>5, <4>6
    <3> QED BY <3>1, <3>2
  <2>8. PICK x : x = new OBVIOUS
  <2>9. next <= next
    <3>1. MaxOrder \in Nat BY SettingsAssumption DEF MaxOrder
    <3> QED BY <2>4, <3>1
  <2>10. x.order = next /\ x \in backups' /\ backups' = backups \cup {x} BY <2>1, <2>5, <2>8
  <2> HIDE DEF new
  <2>11. SortsLast(x)' BY <2>3, <2>7, <2>9, <2>10 DEF SortsLast
  <2>12. backups' # {} /\ NewestIsThere' BY <2>10, <2>11 DEF NewestIsThere
  <2> QED BY <2>3, <2>6, <2>12 DEF SettingsInv
<1>10. ASSUME NEW t \in Writers, ReplaceFile(t) PROVE SettingsInv' /\ UNCHANGED backups
  <2> DEFINE w1 == [writer[t] EXCEPT !.at = "apply"]
             w == [w1 EXCEPT !.migrating = FALSE]
  <2>1. writer' \in {[writer EXCEPT ![t] = Resting], [writer EXCEPT ![t] = w]} /\ UNCHANGED backups
    BY <1>10 DEF ReplaceFile
  <2>2. IsSaver(w1) /\ w1.listed = writer[t].listed BY <1>1, SaverChanges
  <2> HIDE DEF w1
  <2>3. IsSaver(w) /\ w.listed = writer[t].listed BY <2>2, SaverChanges
  <2> HIDE DEF w
  <2> QED BY <2>1, <2>3, RestingSaver, ListingKeeps
<1>11. ASSUME NEW content, PowerLoss(content) PROVE SettingsInv' /\ UNCHANGED backups
  BY <1>11, ForgettingKeeps DEF PowerLoss
<1>12. CASE UNCHANGED settingsVars
  BY <1>0, <1>12 DEF settingsVars, SettingsInv, WritersOK, BackupsOK, NewestIsThere, SortsLast
<1> QED BY <1>2, <1>3, <1>4, <1>5, <1>6, <1>7, <1>8, <1>9, <1>10, <1>11, <1>12 DEF SettingsNext

LEMMA SettingsStarts == SettingsInit => SettingsInv
<1> SUFFICES ASSUME SettingsInit PROVE SettingsInv OBVIOUS
<1>1. backups = {} /\ writer = [t \in Writers |-> Resting] BY DEF SettingsInit
<1>2. \A t \in Writers : IsSaver(writer[t]) /\ writer[t].listed = {} BY <1>1, RestingSaver
<1>3. writer \in [Writers -> {writer[t] : t \in Writers}] BY <1>1
<1> QED BY <1>1, <1>2, <1>3 DEF SettingsInv, WritersOK, BackupsOK, NewestIsThere

\* Once there is a backup, there is one at every later moment.
THEOREM SettingsAlwaysSurvive == SettingsSpec => SettingsSurvive
BY SettingsStarts, SettingsStep, PTL DEF SettingsSpec, SettingsSurvive

WriterPlaces == {"idle", "load", "restore", "apply", "save", "unlink", "copy", "replace"}
Backup == [order : Nat \ {0}, content : Content]
Saver == [at : WriterPlaces, call : Endpoints, loaded : Content, saving : Content, migrating : BOOLEAN,
          listed : SUBSET Backup, copy : Content]

SaversOK ==
    /\ writer \in [Writers -> Saver]
    /\ \A t \in Writers : writer[t].migrating => writer[t].at \in {"save", "unlink", "copy", "replace"}

\* The backups a thread may still make before its call is over.
Owes(w) == CASE w.at = "idle" -> 0
             [] w.at \in {"load", "restore"} -> 2
             [] w.at = "apply" -> 1
             [] w.at \in {"save", "unlink", "copy"} -> IF w.migrating THEN 2 ELSE 1
             [] w.at = "replace" -> IF w.migrating THEN 1 ELSE 0

Owed == {p \in Writers \X (1..2) : p[2] <= Owes(writer[p[1]])}

\* Every backup, and every one still to come, was paid for by a call.
BackupsPaid ==
    /\ IsFiniteSet(Owed) /\ changes \in 0..MaxChanges
    /\ Cardinality(Owed) <= 2 * changes
    /\ \A b \in backups : b.order + Cardinality(Owed) <= 2 * changes

SettingsTypes ==
    /\ file \in Content \cup {Missing, Damaged}
    /\ backups \subseteq Backup
    /\ v1_backup \in BOOLEAN
    /\ lock \in Writers \cup {NoWriter}
    /\ SaversOK /\ BackupsPaid

LEMMA OwesTwo == ASSUME NEW w \in Saver PROVE Owes(w) \in 0..2
BY DEF Owes, Saver, WriterPlaces

LEMMA OwedIsFinite == ASSUME NEW S, S \subseteq Writers \X (1..2)
                      PROVE  IsFiniteSet(S) /\ Cardinality(S) \in Nat
<1>1. IsFiniteSet(1..2)
  <2>1. PICK a \in Int, b \in Int : a = 1 /\ b = 2 OBVIOUS
  <2>2. IsFiniteSet(a..b) BY FS_Interval
  <2> QED BY <2>1, <2>2
<1>2. IsFiniteSet(Writers \X (1..2)) BY <1>1, SettingsAssumption, FS_Product
<1> QED BY <1>2, FS_Subset, FS_CardinalityType

\* A thread goes on.
LEMMA SaverGoes ==
    ASSUME SaversOK, NEW t \in Writers, NEW w \in Saver, writer' = [writer EXCEPT ![t] = w],
           w.migrating => w.at \in {"save", "unlink", "copy", "replace"}
    PROVE  /\ SaversOK' /\ writer'[t] = w
           /\ \A u \in Writers : u # t => writer'[u] = writer[u]
BY DEF SaversOK

\* What is owed does not grow.
LEMMA PaidGoes ==
    ASSUME SaversOK, BackupsPaid, NEW t \in Writers, NEW w \in Saver, writer' = [writer EXCEPT ![t] = w],
           w.migrating => w.at \in {"save", "unlink", "copy", "replace"},
           Owes(w) <= Owes(writer[t]), backups' \subseteq backups, UNCHANGED changes,
           \A b \in backups : b.order \in Nat
    PROVE  SaversOK' /\ BackupsPaid'
<1>1. SaversOK' /\ writer'[t] = w /\ \A u \in Writers : u # t => writer'[u] = writer[u] BY SaverGoes
<1>2. Owes(w) \in 0..2 /\ Owes(writer[t]) \in 0..2 BY OwesTwo DEF SaversOK
<1>3. Owed' \subseteq Owed
  <2> SUFFICES ASSUME NEW p \in Owed' PROVE p \in Owed OBVIOUS
  <2>1. p \in Writers \X (1..2) /\ p[2] <= Owes(writer'[p[1]]) BY DEF Owed
  <2>2. p[2] \in 1..2 /\ p[1] \in Writers BY <2>1
  <2>3. CASE p[1] = t BY <1>1, <1>2, <2>1, <2>2, <2>3 DEF Owed
  <2>4. CASE p[1] # t BY <1>1, <2>1, <2>2, <2>4 DEF Owed
  <2> QED BY <2>3, <2>4
<1>4. IsFiniteSet(Owed') /\ Cardinality(Owed') <= Cardinality(Owed) BY <1>3, FS_Subset DEF BackupsPaid
<1>5. Cardinality(Owed) \in Nat /\ Cardinality(Owed') \in Nat
  BY <1>4, FS_CardinalityType DEF BackupsPaid
<1>6. changes \in Nat /\ changes' = changes BY SettingsAssumption DEF BackupsPaid
<1>7. \A b \in backups' : b.order \in Nat /\ b.order + Cardinality(Owed) <= 2 * changes BY DEF BackupsPaid
<1>8. Cardinality(Owed') <= 2 * changes BY <1>4, <1>5, <1>6 DEF BackupsPaid
<1>9. \A b \in backups' : b.order + Cardinality(Owed') <= 2 * changes BY <1>4, <1>5, <1>6, <1>7
<1> QED BY <1>1, <1>4, <1>6, <1>8, <1>9 DEF BackupsPaid

\* A call is begun: it may make two backups.
LEMMA PaidBegins ==
    ASSUME SaversOK, BackupsPaid, NEW t \in Writers, NEW c \in Endpoints, BeginCall(t, c),
           \A b \in backups : b.order \in Nat
    PROVE  SaversOK' /\ BackupsPaid'
<1> DEFINE m == [Resting EXCEPT !.at = "load"]
           w == [m EXCEPT !.call = c]
<1>1. Resting \in Saver /\ ~Resting.migrating
  BY DEF Resting, Saver, WriterPlaces, Endpoints, Content, DEFAULT_SETTINGS
<1>2. writer' = [writer EXCEPT ![t] = w] /\ changes' = changes + 1 /\ changes < MaxChanges /\ UNCHANGED backups
  BY DEF BeginCall
<1> HIDE DEF m
<1>A. m \in Saver /\ ~m.migrating /\ m.at = "load" BY <1>1 DEF m, Saver, WriterPlaces
<1>B. w \in Saver /\ ~w.migrating /\ w.at = "load" BY <1>A DEF Saver
<1> HIDE DEF w
<1>3. SaversOK' /\ writer'[t] = w /\ \A u \in Writers : u # t => writer'[u] = writer[u] BY <1>2, <1>B, SaverGoes
<1>4. Owed' \subseteq (Owed \cup {<<t, 1>>}) \cup {<<t, 2>>}
  <2> SUFFICES ASSUME NEW p \in Owed' PROVE p \in (Owed \cup {<<t, 1>>}) \cup {<<t, 2>>} OBVIOUS
  <2>1. p \in Writers \X (1..2) /\ p[2] <= Owes(writer'[p[1]]) BY DEF Owed
  <2>2. p[2] \in {1, 2} /\ p[1] \in Writers /\ p = <<p[1], p[2]>> BY <2>1
  <2>3. CASE p[1] = t BY <2>2, <2>3
  <2>4. CASE p[1] # t BY <1>3, <2>1, <2>2, <2>4 DEF Owed
  <2> QED BY <2>3, <2>4
<1>5. IsFiniteSet(Owed) /\ Cardinality(Owed) \in Nat BY OwedIsFinite DEF Owed
<1>6. /\ IsFiniteSet(Owed \cup {<<t, 1>>})
      /\ Cardinality(Owed \cup {<<t, 1>>}) \in {Cardinality(Owed), Cardinality(Owed) + 1}
  BY <1>5, FS_AddElement
<1>7. /\ IsFiniteSet((Owed \cup {<<t, 1>>}) \cup {<<t, 2>>})
      /\ Cardinality((Owed \cup {<<t, 1>>}) \cup {<<t, 2>>}) <= Cardinality(Owed) + 2
  <2> DEFINE one == Owed \cup {<<t, 1>>}
  <2>1. IsFiniteSet(one) /\ Cardinality(one) \in {Cardinality(Owed), Cardinality(Owed) + 1} BY <1>6
  <2> HIDE DEF one
  <2>2. /\ IsFiniteSet(one \cup {<<t, 2>>})
        /\ Cardinality(one \cup {<<t, 2>>}) \in {Cardinality(one), Cardinality(one) + 1}
    BY <2>1, FS_AddElement
  <2>3. Cardinality(one \cup {<<t, 2>>}) <= Cardinality(Owed) + 2 BY <1>5, <2>1, <2>2
  <2> QED BY <2>2, <2>3 DEF one
<1>8. IsFiniteSet(Owed') /\ Cardinality(Owed') <= Cardinality((Owed \cup {<<t, 1>>}) \cup {<<t, 2>>})
  BY <1>4, <1>7, FS_Subset
<1>9. Cardinality(Owed') \in Nat /\ Cardinality((Owed \cup {<<t, 1>>}) \cup {<<t, 2>>}) \in Nat
  BY <1>7, <1>8, FS_CardinalityType
<1>10. Cardinality(Owed') <= Cardinality(Owed) + 2 BY <1>5, <1>7, <1>8, <1>9
<1>11. changes \in Nat /\ changes' \in 0..MaxChanges BY <1>2, SettingsAssumption DEF BackupsPaid
<1>12. Cardinality(Owed') <= 2 * changes' BY <1>2, <1>5, <1>9, <1>10, <1>11 DEF BackupsPaid
<1>13. \A b \in backups' : b.order + Cardinality(Owed') <= 2 * changes'
  BY <1>2, <1>5, <1>9, <1>10, <1>11 DEF BackupsPaid
<1> QED BY <1>3, <1>8, <1>11, <1>12, <1>13 DEF BackupsPaid

\* The next name comes after the last.
LEMMA NextComes ==
    ASSUME NEW B, NEW top \in Nat, \A b \in B : b.order \in Nat /\ b.order <= top
    PROVE  Cardinality({n \in 1..MaxOrder : \E b \in B : b.order >= n}) \in 0..top
<1> DEFINE seen == {n \in 1..MaxOrder : \E b \in B : b.order >= n}
<1>1. seen \subseteq 1..top
  <2>1. MaxOrder \in Nat BY SettingsAssumption DEF MaxOrder
  <2> QED BY <2>1
<1> HIDE DEF seen
<1>2. IsFiniteSet(1..top) /\ Cardinality(1..top) = top
  <2>1. IsFiniteSet(1..top) /\ Cardinality(1..top) = IF 1 > top THEN 0 ELSE top - 1 + 1
    BY FS_Interval
  <2> QED BY <2>1
<1>3. IsFiniteSet(seen) /\ Cardinality(seen) <= top BY <1>1, <1>2, FS_Subset
<1>4. Cardinality(seen) \in Nat BY <1>3, FS_CardinalityType
<1> QED BY <1>3, <1>4 DEF seen

\* A backup is made: one less is owed.
LEMMA PaidCopies ==
    ASSUME SaversOK, BackupsPaid, NEW t \in Writers, CopyCurrent(t), backups \subseteq Backup
    PROVE  SaversOK' /\ BackupsPaid' /\ backups' \subseteq Backup
<1> DEFINE next == 1 + Cardinality({n \in 1..MaxOrder : \E b \in backups : b.order >= n})
           new == [order |-> next, content |-> writer[t].copy]
           w == [writer[t] EXCEPT !.at = "replace"]
<1>0. writer[t] \in Saver /\ writer[t].at = "copy" /\ \A b \in backups : b.order \in Nat
  BY DEF SaversOK, CopyCurrent, Backup
<1>1. w \in Saver /\ w.at = "replace" /\ w.migrating = writer[t].migrating
  BY <1>0 DEF Saver, WriterPlaces
<1>2. writer' = [writer EXCEPT ![t] = w] /\ UNCHANGED changes /\ backups' = backups \cup {new}
  BY DEF CopyCurrent
<1>3. Owes(w) = Owes(writer[t]) - 1 /\ Owes(writer[t]) \in 1..2
  BY <1>0, <1>1 DEF Owes, Saver, WriterPlaces
<1> HIDE DEF w
<1>4. SaversOK' /\ writer'[t] = w /\ \A u \in Writers : u # t => writer'[u] = writer[u] BY <1>1, <1>2, SaverGoes
<1>5. <<t, Owes(writer[t])>> \in Owed BY <1>3 DEF Owed
<1>6. Owed' \subseteq Owed \ {<<t, Owes(writer[t])>>}
  <2> SUFFICES ASSUME NEW p \in Owed' PROVE p \in Owed /\ p # <<t, Owes(writer[t])>> OBVIOUS
  <2>1. p \in Writers \X (1..2) /\ p[2] <= Owes(writer'[p[1]]) BY DEF Owed
  <2>2. p[2] \in 1..2 /\ p[1] \in Writers BY <2>1
  <2>3. CASE p[1] = t
    <3>1. p[2] < Owes(writer[t]) BY <1>3, <1>4, <2>1, <2>2, <2>3
    <3> QED BY <1>3, <2>1, <2>2, <2>3, <3>1 DEF Owed
  <2>4. CASE p[1] # t BY <1>4, <2>1, <2>2, <2>4 DEF Owed
  <2> QED BY <2>3, <2>4
<1>7. IsFiniteSet(Owed) /\ Cardinality(Owed) \in Nat BY OwedIsFinite DEF Owed
<1>8. /\ IsFiniteSet(Owed \ {<<t, Owes(writer[t])>>})
      /\ Cardinality(Owed \ {<<t, Owes(writer[t])>>}) = Cardinality(Owed) - 1
  BY <1>5, <1>7, FS_RemoveElement
<1>9. IsFiniteSet(Owed') /\ Cardinality(Owed') <= Cardinality(Owed) - 1 BY <1>6, <1>8, FS_Subset
<1>10. Cardinality(Owed') \in Nat BY <1>9, FS_CardinalityType
<1>11. changes \in Nat /\ changes' = changes BY <1>2, SettingsAssumption DEF BackupsPaid
<1> DEFINE top == 2 * changes - Cardinality(Owed)
<1>12. top \in Nat /\ \A b \in backups : b.order <= top
  BY <1>0, <1>7, <1>11 DEF BackupsPaid
<1>13. next \in Nat \ {0} /\ next <= 1 + top
  <2> HIDE DEF top
  <2>1. Cardinality({n \in 1..MaxOrder : \E b \in backups : b.order >= n}) \in 0..top
    BY <1>0, <1>12, NextComes
  <2> QED BY <1>12, <2>1
<1>14. new \in Backup /\ new.order = next BY <1>0, <1>13 DEF Backup, Saver
<1> HIDE DEF next
<1>15. new.order + Cardinality(Owed') <= 2 * changes
  BY <1>7, <1>9, <1>10, <1>11, <1>13, <1>14
<1> HIDE DEF new
<1>16. \A b \in backups' : b.order + Cardinality(Owed') <= 2 * changes'
  BY <1>0, <1>2, <1>7, <1>9, <1>10, <1>11, <1>15 DEF BackupsPaid
<1>17. Cardinality(Owed') <= 2 * changes' BY <1>7, <1>9, <1>10, <1>11 DEF BackupsPaid
<1>18. backups' \subseteq Backup BY <1>2, <1>14
<1> QED BY <1>4, <1>9, <1>11, <1>16, <1>17, <1>18 DEF BackupsPaid

\* Every variable of the settings keeps its type: the orders of the backups stay within what the
\* calls can make.
THEOREM SettingsTypeCorrect == SettingsSpec => []SettingsTypeOK
<1>1. SettingsInit => SettingsTypes
  <2> SUFFICES ASSUME SettingsInit PROVE SettingsTypes OBVIOUS
  <2>1. Resting \in Saver /\ ~Resting.migrating /\ Owes(Resting) = 0
    BY DEF Resting, Saver, WriterPlaces, Endpoints, Content, DEFAULT_SETTINGS, Owes
  <2>2. \A t \in Writers : writer[t] = Resting BY DEF SettingsInit
  <2>3. SaversOK BY <2>1, <2>2 DEF SettingsInit, SaversOK
  <2>4. Owed = {} BY <2>1, <2>2 DEF Owed
  <2>5. BackupsPaid BY <2>4, FS_EmptySet, SettingsAssumption DEF BackupsPaid, SettingsInit
  <2>6. [schema |-> 1, flat |-> 1, modern |-> 0] \in Content BY DEF Content
  <2>7. file \in Content \cup {Missing, Damaged} BY <2>6 DEF SettingsInit
  <2> QED BY <2>3, <2>5, <2>7 DEF SettingsInit, SettingsTypes
<1>2. SettingsTypes /\ SettingsInv /\ [SettingsNext]_settingsVars => SettingsTypes'
  <2> SUFFICES ASSUME SettingsTypes, SettingsInv, [SettingsNext]_settingsVars PROVE SettingsTypes'
    OBVIOUS
  <2>0. /\ SaversOK /\ BackupsPaid /\ backups \subseteq Backup /\ \A b \in backups : b.order \in Nat
        /\ file \in Content \cup {Missing, Damaged} /\ v1_backup \in BOOLEAN
        /\ lock \in Writers \cup {NoWriter}
    BY DEF SettingsTypes, Backup
  <2>S. ASSUME NEW t \in Writers
        PROVE  writer[t] \in Saver /\ (writer[t].migrating => writer[t].at \in {"save", "unlink", "copy", "replace"})
    BY <2>0 DEF SaversOK
  <2>D. DEFAULT_SETTINGS \in Content /\ \A c \in Content : migrate_v1_to_v2(c) \in Content
    BY DEF DEFAULT_SETTINGS, migrate_v1_to_v2, Content
  <2>1. ASSUME NEW t \in Writers, NEW c \in Endpoints, BeginCall(t, c) PROVE SettingsTypes'
    BY <2>0, <2>1, PaidBegins DEF BeginCall, SettingsTypes
  <2>2. ASSUME NEW t \in Writers, LoadSettings(t) PROVE SettingsTypes'
    <3>1. writer[t].at = "load" /\ ~writer[t].migrating /\ Owes(writer[t]) = 2
      BY <2>S, <2>2 DEF LoadSettings, Owes, Saver
    <3>2. PICK place \in {"apply", "restore", "save"}, v \in Content, s \in Content :
             \/ writer' = [writer EXCEPT ![t] = [writer[t] EXCEPT !.at = "apply"]]
             \/ writer' = [writer EXCEPT ![t] = [[writer[t] EXCEPT !.at = place] EXCEPT !.loaded = v]]
             \/ writer' = [writer EXCEPT ![t] = [[[[writer[t] EXCEPT !.at = "save"] EXCEPT !.migrating = TRUE]
                                                EXCEPT !.loaded = v] EXCEPT !.saving = v]]
      <4>1. CASE Valid /\ file.schema = 2
        <5>1. file \in Content BY <2>0, <4>1 DEF Valid
        <5>2. writer' = [writer EXCEPT ![t] = [[writer[t] EXCEPT !.at = "apply"] EXCEPT !.loaded = file]]
          BY <2>2, <4>1 DEF LoadSettings
        <5> QED BY <5>1, <5>2
      <4>2. CASE ~(Valid /\ file.schema = 2) /\ file = Damaged /\ backups # {}
        <5> DEFINE last == CHOOSE b \in Newest(backups, 1) : TRUE
        <5>1. Newest(backups, 1) # {}
          <6>1. PICK b \in backups : SortsLast(b) BY <4>2 DEF SettingsInv, NewestIsThere
          <6>2. {c \in backups : c.order > b.order} = {} BY <2>0, <6>1 DEF SortsLast
          <6>3. Cardinality({c \in backups : c.order > b.order}) = 0 BY <6>2, FS_EmptySet
          <6> QED BY <6>1, <6>3 DEF Newest
        <5>2. last \in backups BY <5>1 DEF Newest
        <5>3. last.content \in Content BY <2>0, <5>2 DEF Backup
        <5>4. writer' = [writer EXCEPT ![t] = [[writer[t] EXCEPT !.at = "restore"] EXCEPT !.loaded = last.content]]
          BY <2>2, <4>2 DEF LoadSettings
        <5> HIDE DEF last
        <5> QED BY <5>3, <5>4
      <4>3. CASE ~(Valid /\ file.schema = 2) /\ ~(file = Damaged /\ backups # {})
        <5> DEFINE migrated == IF Valid THEN migrate_v1_to_v2(file) ELSE DEFAULT_SETTINGS
        <5>1. migrated \in Content BY <2>0, <2>D DEF Valid
        <5>2. \/ writer' = [writer EXCEPT ![t] = [writer[t] EXCEPT !.at = "apply"]]
              \/ writer' = [writer EXCEPT ![t] = [[[[writer[t] EXCEPT !.at = "save"] EXCEPT !.migrating = TRUE]
                                                EXCEPT !.loaded = migrated] EXCEPT !.saving = migrated]]
          BY <2>2, <4>3 DEF LoadSettings
        <5> HIDE DEF migrated
        <5> QED BY <5>1, <5>2
      <4> QED BY <4>1, <4>2, <4>3
    <3> DEFINE w1 == [writer[t] EXCEPT !.at = place]
               w2 == [w1 EXCEPT !.loaded = v]
               w3 == [writer[t] EXCEPT !.at = "save"]
               w4 == [w3 EXCEPT !.migrating = TRUE]
               w5 == [w4 EXCEPT !.loaded = v]
               w6 == [w5 EXCEPT !.saving = v]
               w7 == [writer[t] EXCEPT !.at = "apply"]
    <3>3. writer' \in {[writer EXCEPT ![t] = w7], [writer EXCEPT ![t] = w2], [writer EXCEPT ![t] = w6]} BY <3>2
    <3>4. w7 \in Saver /\ w7.at = "apply" /\ ~w7.migrating BY <2>S, <3>1 DEF Saver, WriterPlaces
    <3>5. w1 \in Saver /\ w1.at = place /\ ~w1.migrating BY <2>S, <3>1 DEF Saver, WriterPlaces
    <3>6. w3 \in Saver /\ w3.at = "save" BY <2>S DEF Saver, WriterPlaces
    <3> HIDE DEF w1, w3, w7
    <3>7. w2 \in Saver /\ w2.at = place /\ ~w2.migrating BY <3>5 DEF Saver
    <3>8. w4 \in Saver /\ w4.at = "save" BY <3>6 DEF Saver
    <3> HIDE DEF w2, w4
    <3>9. w5 \in Saver /\ w5.at = "save" BY <3>8 DEF Saver
    <3> HIDE DEF w5
    <3>10. w6 \in Saver /\ w6.at = "save" BY <3>9 DEF Saver
    <3> HIDE DEF w6
    <3>11. PICK w \in Saver :
              writer' = [writer EXCEPT ![t] = w] /\ (w.migrating => w.at \in {"save", "unlink", "copy", "replace"})
      BY <3>3, <3>4, <3>7, <3>10
    <3>12. Owes(w) <= Owes(writer[t]) BY <3>1, OwesTwo
    <3>13. UNCHANGED <<file, backups, lock, changes>> /\ v1_backup' \in BOOLEAN BY <2>0, <2>2 DEF LoadSettings
    <3>14. SaversOK' /\ BackupsPaid'
      <4>1. backups' \subseteq backups /\ changes' = changes BY <3>13
      <4>2. /\ w \in Saver /\ writer' = [writer EXCEPT ![t] = w]
            /\ w.migrating => w.at \in {"save", "unlink", "copy", "replace"}
        BY <3>11
      <4> QED BY <2>0, <3>12, <4>1, <4>2, PaidGoes
    <3> QED BY <2>0, <3>13, <3>14 DEF SettingsTypes
  <2>3. ASSUME NEW t \in Writers, RestoreBackup(t) PROVE SettingsTypes'
    <3> DEFINE w == [writer[t] EXCEPT !.at = "load"]
    <3>1. w \in Saver /\ ~w.migrating /\ w.at = "load" BY <2>S, <2>3 DEF RestoreBackup, Saver, WriterPlaces
    <3>2. Owes(w) <= Owes(writer[t]) BY <2>3, <3>1 DEF RestoreBackup, Owes
    <3>3. /\ writer' = [writer EXCEPT ![t] = w] /\ file' \in Content
          /\ UNCHANGED <<backups, v1_backup, lock, changes>>
      BY <2>S, <2>3 DEF RestoreBackup, Saver
    <3> HIDE DEF w
    <3> QED BY <2>0, <3>1, <3>2, <3>3, PaidGoes DEF SettingsTypes
  <2>4. ASSUME NEW t \in Writers, NEW value \in 0..1, ApplyChange(t, value) PROVE SettingsTypes'
    <3> DEFINE m == [writer[t] EXCEPT !.at = "save"]
               w == [m EXCEPT !.saving = Applied(writer[t], value)]
    <3>1. Applied(writer[t], value) \in Content
      <4>1. writer[t].loaded \in Content BY <2>S DEF Saver
      <4>2. [writer[t].loaded EXCEPT !.flat = value] \in Content
            /\ [writer[t].loaded EXCEPT !.modern = value] \in Content
        BY <4>1 DEF Content
      <4> QED BY <2>D, <4>2 DEF Applied
    <3>2. /\ writer' = [writer EXCEPT ![t] = w] /\ lock' \in Writers \cup {NoWriter}
          /\ UNCHANGED <<file, backups, v1_backup, changes>>
      BY <2>0, <2>4 DEF ApplyChange, SaversOK
    <3>3. m \in Saver /\ m.at = "save" /\ ~m.migrating BY <2>S, <2>4 DEF ApplyChange, Saver, WriterPlaces
    <3> HIDE DEF m
    <3>4. w \in Saver /\ w.at = "save" /\ ~w.migrating BY <3>1, <3>3 DEF Saver
    <3> HIDE DEF w
    <3>5. Owes(w) <= Owes(writer[t]) BY <2>4, <3>4 DEF ApplyChange, Owes
    <3> QED BY <2>0, <3>2, <3>4, <3>5, PaidGoes DEF SettingsTypes
  <2>R. Resting \in Saver /\ ~Resting.migrating /\ Owes(Resting) = 0
    BY DEF Resting, Saver, WriterPlaces, Endpoints, Content, DEFAULT_SETTINGS, Owes
  <2>5. ASSUME NEW t \in Writers, ReturnSettings(t) PROVE SettingsTypes'
    <3>1. Owes(Resting) <= Owes(writer[t]) BY <2>S, <2>R, OwesTwo
    <3> QED BY <2>0, <2>R, <2>5, <3>1, PaidGoes DEF ReturnSettings, SettingsTypes
  <2>6. ASSUME NEW t \in Writers, ReadCurrent(t) PROVE SettingsTypes'
    <3> DEFINE w1 == [writer[t] EXCEPT !.at = "unlink"]
               w2 == [w1 EXCEPT !.copy = file]
               w3 == [w2 EXCEPT !.listed = backups]
               w4 == [writer[t] EXCEPT !.at = "replace"]
    <3>1. /\ writer' = [writer EXCEPT ![t] = IF Valid THEN w3 ELSE w4]
          /\ UNCHANGED <<file, backups, v1_backup, lock, changes>>
      BY <2>6 DEF ReadCurrent
    <3>2. w1 \in Saver /\ w1.at = "unlink" /\ w1.migrating = writer[t].migrating BY <2>S DEF Saver, WriterPlaces
    <3>3. w4 \in Saver /\ w4.at = "replace" /\ w4.migrating = writer[t].migrating BY <2>S DEF Saver, WriterPlaces
    <3> HIDE DEF w1, w4
    <3>4. Valid => w2 \in Saver /\ w2.at = "unlink" /\ w2.migrating = writer[t].migrating
      BY <2>0, <3>2 DEF Saver, Valid
    <3> HIDE DEF w2
    <3>5. Valid => w3 \in Saver /\ w3.at = "unlink" /\ w3.migrating = writer[t].migrating
      BY <2>0, <3>4 DEF Saver
    <3> HIDE DEF w3
    <3>6. PICK w \in Saver : writer' = [writer EXCEPT ![t] = w] /\ w.at \in {"unlink", "replace"}
                              /\ w.migrating = writer[t].migrating
      BY <3>1, <3>3, <3>5
    <3>7. Owes(w) <= Owes(writer[t])
      <4>1. writer[t].at = "save" /\ writer[t].migrating \in BOOLEAN BY <2>S, <2>6 DEF ReadCurrent, Saver
      <4> QED BY <3>6, <4>1 DEF Owes
    <3> QED BY <2>0, <3>1, <3>6, <3>7, PaidGoes DEF SettingsTypes
  <2>7. ASSUME NEW t \in Writers, UnlinkOldest(t) PROVE SettingsTypes'
    <3> DEFINE m == [writer[t] EXCEPT !.at = "copy"]
               w == [m EXCEPT !.listed = {}]
    <3>1. /\ writer' = [writer EXCEPT ![t] = w] /\ backups' \subseteq backups
          /\ UNCHANGED <<file, v1_backup, lock, changes>>
      BY <2>0, <2>7 DEF UnlinkOldest, SaversOK
    <3>2. m \in Saver /\ m.at = "copy" /\ m.migrating = writer[t].migrating BY <2>S DEF Saver, WriterPlaces
    <3> HIDE DEF m
    <3>3. w \in Saver /\ w.at = "copy" /\ w.migrating = writer[t].migrating BY <3>2 DEF Saver
    <3> HIDE DEF w
    <3>4. Owes(w) <= Owes(writer[t])
      <4>1. writer[t].at = "unlink" /\ writer[t].migrating \in BOOLEAN BY <2>S, <2>7 DEF UnlinkOldest, Saver
      <4> QED BY <3>3, <4>1 DEF Owes
    <3> QED BY <2>0, <3>1, <3>3, <3>4, PaidGoes DEF SettingsTypes
  <2>8. ASSUME NEW t \in Writers, CopyCurrent(t) PROVE SettingsTypes'
    BY <2>0, <2>8, PaidCopies DEF CopyCurrent, SettingsTypes
  <2>9. ASSUME NEW t \in Writers, ReplaceFile(t) PROVE SettingsTypes'
    <3> DEFINE m == [writer[t] EXCEPT !.at = "apply"]
               w == [m EXCEPT !.migrating = FALSE]
    <3>1. /\ writer' = [writer EXCEPT ![t] = IF ~writer[t].migrating THEN Resting ELSE w]
          /\ UNCHANGED <<backups, v1_backup, changes>>
          /\ file' \in Content /\ lock' \in Writers \cup {NoWriter}
      BY <2>0, <2>S, <2>9 DEF ReplaceFile, Saver
    <3>2. m \in Saver /\ m.at = "apply" BY <2>S DEF Saver, WriterPlaces
    <3> HIDE DEF m
    <3>3. w \in Saver /\ w.at = "apply" /\ ~w.migrating BY <3>2 DEF Saver
    <3> HIDE DEF w
    <3>4. writer[t].at = "replace" /\ writer[t].migrating \in BOOLEAN BY <2>S, <2>9 DEF ReplaceFile, Saver
    <3>5. CASE ~writer[t].migrating
      <4>1. Owes(Resting) <= Owes(writer[t]) BY <2>S, <2>R, OwesTwo
      <4> QED BY <2>0, <2>R, <3>1, <3>5, <4>1, PaidGoes DEF SettingsTypes
    <3>6. CASE writer[t].migrating
      <4>1. Owes(w) <= Owes(writer[t]) BY <3>3, <3>4, <3>6 DEF Owes
      <4> QED BY <2>0, <3>1, <3>3, <3>6, <4>1, PaidGoes DEF SettingsTypes
    <3> QED BY <3>4, <3>5, <3>6
  <2>10. ASSUME NEW content \in {file, Damaged}, PowerLoss(content) PROVE SettingsTypes'
    <3>1. /\ writer' = [t \in Writers |-> Resting] /\ lock' = NoWriter /\ file' = content
          /\ UNCHANGED <<backups, v1_backup, changes>>
      BY <2>10 DEF PowerLoss
    <3>2. SaversOK' BY <2>R, <3>1 DEF SaversOK
    <3>3. Owed' = {} BY <2>R, <3>1 DEF Owed
    <3>4. IsFiniteSet(Owed) /\ Cardinality(Owed) \in Nat BY OwedIsFinite DEF Owed
    <3>5. BackupsPaid' BY <2>0, <3>1, <3>3, <3>4, FS_EmptySet, SettingsAssumption DEF BackupsPaid
    <3> QED BY <2>0, <3>1, <3>2, <3>5 DEF SettingsTypes
  <2>11. CASE UNCHANGED settingsVars
    BY <2>0, <2>11 DEF settingsVars, SettingsTypes, SaversOK, BackupsPaid, Owed, Owes
  <2> QED BY <2>1, <2>2, <2>3, <2>4, <2>5, <2>6, <2>7, <2>8, <2>9, <2>10, <2>11 DEF SettingsNext
<1>3. SettingsTypes => SettingsTypeOK
  <2> SUFFICES ASSUME SettingsTypes PROVE SettingsTypeOK OBVIOUS
  <2>1. IsFiniteSet(Owed) /\ Cardinality(Owed) \in Nat BY OwedIsFinite DEF Owed
  <2>2. \A b \in backups : b \in [order : 1..MaxOrder, content : Content]
    <3> SUFFICES ASSUME NEW b \in backups PROVE b \in [order : 1..MaxOrder, content : Content] OBVIOUS
    <3>1. b \in Backup /\ b.order + Cardinality(Owed) <= 2 * changes /\ changes \in 0..MaxChanges
      BY DEF SettingsTypes, BackupsPaid
    <3>2. b.order \in 1..MaxOrder
      <4>1. b.order \in Nat \ {0} BY <3>1 DEF Backup
      <4> QED BY <2>1, <3>1, <4>1, SettingsAssumption DEF MaxOrder
    <3> QED BY <3>1, <3>2 DEF Backup
  <2>3. \A t \in Writers : writer[t] \in Saver BY DEF SettingsTypes, SaversOK
  <2> QED BY <2>2, <2>3 DEF SettingsTypes, SettingsTypeOK, Saver, WriterPlaces
<1> QED BY <1>1, <1>2, <1>3, SettingsStarts, SettingsStep, PTL DEF SettingsSpec

(***************************************************************************)
(* Subagents and UI sequences                                              *)
(***************************************************************************)

Working == {"loop", "route", "tools", "consent", "invoke"}

\* A tool can only start late when it was admitted before the interruption, and an
\* agent has at most one admitted tool at a time.
LateOK ==
    /\ late \in {0, 1}
    /\ ~interrupted \/ agent \in {"consent", "invoke"} => late = 0

SubagentInv ==
    /\ SubagentTypeOK
    /\ agent \in {"tools", "consent", "invoke"} => tool_calls # <<>>
    /\ LateOK

LEMMA SubagentInvIsEnough == SubagentInv => SubagentTypeOK /\ InterruptStopsTools
BY DEF SubagentInv, LateOK, InterruptStopsTools

LEMMA SubagentStarts == SubagentInit => SubagentInv
<1> SUFFICES ASSUME SubagentInit PROVE SubagentInv OBVIOUS
<1>1. role \in Roles /\ agent = "loop" /\ llm_call_count = 0 /\ tool_calls = <<>>
      /\ interrupted = FALSE /\ late = 0
  BY DEF SubagentInit
<1>2. 0 \in 0..MaxLlmCalls BY SubagentsAssumption
<1>3. <<>> \in Seq(ToolCall) BY EmptySeq
<1> QED BY <1>1, <1>2, <1>3 DEF SubagentInv, SubagentTypeOK, LateOK

\* The remaining calls of an answer.
LEMMA NextToolKeeps ==
    ASSUME SubagentInv, agent \in {"tools", "consent", "invoke"}, NextTool
    PROVE  /\ tool_calls' \in Seq(ToolCall)
           /\ agent' \in {"loop", "tools"}
           /\ agent' = "tools" => tool_calls' # <<>>
<1>1. tool_calls \in Seq(ToolCall) /\ tool_calls # <<>> BY DEF SubagentInv, SubagentTypeOK
<1>2. Tail(tool_calls) \in Seq(ToolCall) /\ Len(Tail(tool_calls)) = Len(tool_calls) - 1
      /\ Len(tool_calls) \in Nat /\ Len(tool_calls) # 0
  BY <1>1, EmptySeq, HeadTailProperties
<1>3. Len(tool_calls) # 1 => Tail(tool_calls) # <<>>
  <2>1. Len(tool_calls) # 1 => Len(Tail(tool_calls)) # 0 BY <1>2
  <2> QED BY <1>2, <2>1, EmptySeq
<1> QED BY <1>2, <1>3 DEF NextTool

LEMMA SubagentStep == SubagentInv /\ [SubagentNext]_agentVars => SubagentInv'
<1> SUFFICES ASSUME SubagentInv, [SubagentNext]_agentVars PROVE SubagentInv' OBVIOUS
<1>0. /\ role \in Roles /\ agent \in Working \cup Results /\ llm_call_count \in 0..MaxLlmCalls
      /\ tool_calls \in Seq(ToolCall) /\ interrupted \in BOOLEAN
      /\ (agent \in {"tools", "consent", "invoke"} => tool_calls # <<>>)
      /\ late \in {0, 1} /\ (~interrupted \/ agent \in {"consent", "invoke"} => late = 0)
      /\ MaxLlmCalls \in Nat
  BY SubagentsAssumption DEF SubagentInv, SubagentTypeOK, LateOK, Working
<1> USE DEF SubagentInv, SubagentTypeOK, LateOK
<1>1. CASE Interrupt
  <2>1. interrupted' = TRUE /\ late = 0 /\ UNCHANGED <<role, agent, llm_call_count, tool_calls, late>>
    BY <1>0, <1>1 DEF Interrupt
  <2> QED BY <1>0, <2>1
<1>2. CASE StopLoop BY <1>0, <1>2 DEF StopLoop, Finish, Results
<1>3. CASE CallModel BY <1>0, <1>3 DEF CallModel
<1>4. CASE RouteFails BY <1>0, <1>4 DEF RouteFails, Finish, Results
<1>5. CASE FinalAnswer BY <1>0, <1>5 DEF FinalAnswer, Finish, Results
<1>6. CASE AskTools
  <2>1. PICK n \in 1..MaxToolCalls : tool_calls' \in [1..n -> ToolCall] BY <1>6 DEF AskTools
  <2>2. tool_calls' \in Seq(ToolCall) /\ tool_calls' # <<>>
    <3>1. n \in Nat /\ n > 0 BY <2>1, SubagentsAssumption
    <3>2. tool_calls' \in Seq(ToolCall) /\ Len(tool_calls') = n BY <2>1, <3>1
    <3> QED BY <3>1, <3>2, EmptySeq
  <2> QED BY <1>0, <1>6, <2>2 DEF AskTools
<1>7. CASE RefuseTool
  <2>1. agent = "tools" /\ NextTool /\ UNCHANGED <<role, llm_call_count, interrupted, late>>
    BY <1>7 DEF RefuseTool
  <2> QED BY <1>0, <2>1, NextToolKeeps
<1>8. CASE AdmitTool BY <1>0, <1>8 DEF AdmitTool, StopsTool
<1>9. CASE Decide
  <2>1. agent = "consent" /\ UNCHANGED <<role, llm_call_count, interrupted, late>>
        /\ ((agent' = "invoke" /\ tool_calls' = tool_calls) \/ NextTool)
    BY <1>9 DEF Decide
  <2> QED BY <1>0, <2>1, NextToolKeeps
<1>10. CASE InvokeTool
  <2>1. agent = "invoke" /\ late = 0 /\ NextTool /\ UNCHANGED <<role, llm_call_count, interrupted>>
        /\ late' = (IF interrupted THEN 1 ELSE 0)
    BY <1>0, <1>10 DEF InvokeTool
  <2> QED BY <1>0, <2>1, NextToolKeeps
<1>11. CASE UNCHANGED agentVars BY <1>0, <1>11 DEF agentVars
<1> QED BY <1>1, <1>2, <1>3, <1>4, <1>5, <1>6, <1>7, <1>8, <1>9, <1>10, <1>11 DEF SubagentNext
-----------------------------------------------------------------------------
(* UI sequences: a stop is obeyed, clicks go where the step looked               *)

FullConsent == IF IsHard THEN <<TRUE, TRUE>> ELSE <<TRUE>>
ScreenPlaces == Positions \cup {NoPosition}
\* What a step saw when it used what it saw.
Look == {r \in [used : ScreenPlaces, seen : ScreenPlaces] : r.used = r.seen}
UiPlaces == {"idle", "ask", "step", "locate", "act", "page"}

SequenceOK ==
    /\ session_at \in [place : UiPlaces, step : Nat]
    /\ ui_interrupted \in BOOLEAN
    /\ screen \in [element : ScreenPlaces, page : PageIds]
    /\ cache \in [position : ScreenPlaces, expired : BOOLEAN]
    /\ located \in Look

\* Which step is at hand, and how many were performed before it.
StepsOK ==
    /\ clicks \in Seq(Look)
    /\ session_at.step <= Len(UiSteps) + 1
    /\ Len(clicks) <= Len(UiSteps)
    /\ session_at.place \in {"ask", "step", "locate", "act"} =>
           session_at.step >= 1 /\ Len(clicks) <= session_at.step - 1
    /\ session_at.place = "page" => Len(clicks) <= session_at.step
    /\ session_at.place \in {"locate", "act", "page"} => session_at.step <= Len(UiSteps)

\* Only a step the flag let through is performed after the stop.
StopOK ==
    /\ after_stop \in {0, 1}
    /\ after_stop = 1 => ui_interrupted /\ session_at.place \in {"idle", "step", "page"}

ConsentOK ==
    /\ answers \in Seq(BOOLEAN) /\ Len(answers) <= 2
    /\ session_at.place = "ask" =>
           clicks = <<>> /\ (answers = <<>> \/ (IsHard /\ answers = <<TRUE>>))
    /\ session_at.place \in {"step", "locate", "act", "page"} => answers = FullConsent
    /\ clicks # <<>> => answers = FullConsent

UiInv == SequenceOK /\ StepsOK /\ StopOK /\ ConsentOK

LEMMA StepsAreCounted == Len(UiSteps) \in Nat
BY UiAssumption, LenProperties

LEMMA UiInvIsEnough == UiInv => UiTypeOK /\ UiStopsAndLooks
<1> SUFFICES ASSUME UiInv PROVE UiTypeOK /\ UiStopsAndLooks OBVIOUS
<1>1. UiTypeOK
  BY StepsAreCounted
  DEF UiInv, SequenceOK, StepsOK, ConsentOK, UiTypeOK, UiPlaces, ScreenPlaces
<1>2. \A i \in DOMAIN clicks : clicks[i].used = clicks[i].seen
  <2>1. \A i \in DOMAIN clicks : clicks[i] \in Look BY ElementOfSeq, LenProperties DEF UiInv, StepsOK
  <2> QED BY <2>1 DEF Look
<1>3. after_stop <= 1 BY DEF UiInv, StopOK
<1>4. clicks # <<>> => answers = FullConsent BY DEF UiInv, ConsentOK
<1> QED BY <1>1, <1>2, <1>3, <1>4 DEF FullConsent, UiStopsAndLooks

LEMMA UiStarts == UiInit => UiInv
<1> SUFFICES ASSUME UiInit PROVE UiInv OBVIOUS
<1>1. <<>> \in Seq(Look) /\ Len(<<>>) = 0 /\ <<>> \in Seq(BOOLEAN) BY EmptySeq
<1>2. (CHOOSE p \in Positions : TRUE) \in Positions /\ (CHOOSE p \in PageIds : TRUE) \in PageIds
  BY UiAssumption
<1>3. NotLocated \in Look BY DEF NotLocated, Look, ScreenPlaces
<1>4. SequenceOK BY <1>2, <1>3 DEF UiInit, SequenceOK, UiPlaces, ScreenPlaces
<1>5. StepsOK BY <1>1, StepsAreCounted DEF UiInit, StepsOK
<1>6. StopOK BY DEF UiInit, StopOK
<1>7. ConsentOK BY <1>1 DEF UiInit, ConsentOK
<1> QED BY <1>4, <1>5, <1>6, <1>7 DEF UiInv

LEMMA TwoAnswers == \A x, y : Append(<<x>>, y) = <<x, y>> /\ Len(<<x>>) = 1
<1> SUFFICES ASSUME NEW x, NEW y PROVE Append(<<x>>, y) = <<x, y>> /\ Len(<<x>>) = 1 OBVIOUS
<1>1. <<x>> \in Seq({x, y}) /\ <<x, y>> \in Seq({x, y}) /\ Len(<<x>>) = 1 /\ Len(<<x, y>>) = 2 OBVIOUS
<1>2. Append(<<x>>, y) \in Seq({x, y}) /\ Len(Append(<<x>>, y)) = 2
      /\ Append(<<x>>, y)[1] = x /\ Append(<<x>>, y)[2] = y
  BY <1>1, AppendProperties
<1>3. 1..2 = {1, 2} /\ <<x, y>>[1] = x /\ <<x, y>>[2] = y OBVIOUS
<1>4. PICK two : two = Append(<<x>>, y) OBVIOUS
<1>5. PICK pair : pair = <<x, y>> OBVIOUS
<1>6. two \in Seq({x, y}) /\ pair \in Seq({x, y}) /\ Len(two) = Len(pair)
      /\ \A i \in 1..Len(two) : two[i] = pair[i]
  BY <1>1, <1>2, <1>3, <1>4, <1>5
<1>7. two = pair BY ONLY <1>6, SeqEqual
<1> QED BY <1>1, <1>4, <1>5, <1>7

LEMMA UiStepKeeps == UiInv /\ [UiNext]_uiVars => UiInv'
<1> SUFFICES ASSUME UiInv, [UiNext]_uiVars PROVE UiInv' OBVIOUS
<1>0. SequenceOK /\ StepsOK /\ StopOK /\ ConsentOK /\ Len(UiSteps) \in Nat
      /\ <<>> \in Seq(Look) /\ <<>> \in Seq(BOOLEAN)
      /\ Len(clicks) \in Nat /\ session_at.step \in Nat
  BY StepsAreCounted, EmptySeq, LenProperties DEF UiInv, StepsOK, SequenceOK
<1> USE DEF UiPlaces
<1>1. CASE execute_sequence
  <2>1. /\ session_at' = [place |-> "ask", step |-> 1] /\ ui_interrupted' = FALSE
        /\ answers' = <<>> /\ clicks' = <<>> /\ after_stop' = 0 /\ located' = NotLocated
        /\ UNCHANGED <<cache, screen>>
    BY <1>1 DEF execute_sequence
  <2>2. NotLocated \in Look BY DEF NotLocated, Look, ScreenPlaces
  <2>3. Len(<<>>) = 0 OBVIOUS
  <2>4. SequenceOK' BY <1>0, <2>1, <2>2 DEF SequenceOK
  <2>5. StepsOK' BY <1>0, <2>1, <2>3 DEF StepsOK
  <2>6. StopOK' /\ ConsentOK' BY <1>0, <2>1, <2>3 DEF StopOK, ConsentOK
  <2> QED BY <2>4, <2>5, <2>6 DEF UiInv
<1>2. CASE stop
  <2>1. ui_interrupted' = TRUE /\ UNCHANGED <<cache, session_at, answers, located, clicks, after_stop, screen>>
    BY <1>2 DEF stop
  <2> QED BY <1>0, <2>1 DEF UiInv, SequenceOK, StepsOK, StopOK, ConsentOK, FullConsent
<1>3. ASSUME NEW b \in BOOLEAN, answer_consent(b) PROVE UiInv'
  <2>1. /\ session_at.place = "ask" /\ answers' = Append(answers, b)
        /\ session_at' = [session_at EXCEPT !.place =
                            IF ~b THEN "idle" ELSE IF IsHard /\ Len(answers) = 0 THEN "ask" ELSE "step"]
        /\ UNCHANGED <<cache, ui_interrupted, located, clicks, after_stop, screen>>
    BY <1>3 DEF answer_consent, SequenceAt, SequenceGoes
  <2>2. clicks = <<>> /\ (answers = <<>> \/ (IsHard /\ answers = <<TRUE>>)) BY <1>0, <2>1 DEF ConsentOK
  <2>3. session_at' \in [place : {"idle", "ask", "step"}, step : Nat] /\ session_at'.step = session_at.step
        /\ (session_at'.place = "ask" => b /\ IsHard /\ Len(answers) = 0)
        /\ (session_at'.place = "step" => b /\ ~(IsHard /\ Len(answers) = 0))
    BY <1>0, <2>1 DEF SequenceOK
  <2>4. SequenceOK' /\ StepsOK' BY <1>0, <2>1, <2>2, <2>3 DEF SequenceOK, StepsOK
  <2>5. StopOK' BY <1>0, <2>1 DEF StopOK
  <2>6. ConsentOK'
    <3>1. CASE b = FALSE
      <4>1. session_at'.place = "idle" /\ clicks' = <<>> BY <1>0, <2>1, <2>2, <3>1 DEF SequenceOK
      <4>2. answers' \in Seq(BOOLEAN) /\ Len(answers') <= 2
        <5>1. Len(answers) \in {0, 1} /\ answers \in Seq(BOOLEAN) BY <1>0, <2>2 DEF ConsentOK
        <5> QED BY <2>1, <5>1, AppendProperties
      <4> QED BY <4>1, <4>2 DEF ConsentOK
    <3>2. CASE b = TRUE /\ answers = <<>>
      <4>1. answers' = <<TRUE>> /\ Len(answers) = 0 BY <2>1, <3>2
      <4>2. <<TRUE>> \in Seq(BOOLEAN) /\ Len(<<TRUE>>) = 1 OBVIOUS
      <4>3. session_at'.place = (IF IsHard THEN "ask" ELSE "step") /\ clicks' = <<>>
        BY <1>0, <2>1, <2>2, <3>2, <4>1 DEF SequenceOK
      <4>4. ~IsHard => FullConsent = <<TRUE>> BY DEF FullConsent
      <4>5. answers' \in Seq(BOOLEAN) /\ Len(answers') <= 2 BY <4>1, <4>2
      <4>6. CASE IsHard BY <4>1, <4>3, <4>5, <4>6 DEF ConsentOK
      <4>7. CASE ~IsHard BY <4>1, <4>3, <4>4, <4>5, <4>7 DEF ConsentOK
      <4> QED BY <4>6, <4>7
    <3>3. CASE b = TRUE /\ IsHard /\ answers = <<TRUE>>
      <4>0. Append(<<TRUE>>, TRUE) = <<TRUE, TRUE>> /\ Len(<<TRUE>>) = 1 BY TwoAnswers, Zenon
      <4>1. answers' = <<TRUE, TRUE>> /\ Len(answers) = 1 BY <2>1, <3>3, <4>0
      <4>2. <<TRUE, TRUE>> \in Seq(BOOLEAN) /\ Len(<<TRUE, TRUE>>) = 2 OBVIOUS
      <4>3. session_at'.place = "step" /\ clicks' = <<>>
        BY <1>0, <2>1, <2>2, <3>3, <4>1 DEF SequenceOK
      <4>4. FullConsent = <<TRUE, TRUE>> BY <3>3 DEF FullConsent
      <4> QED BY <4>1, <4>2, <4>3, <4>4 DEF ConsentOK
    <3> QED BY <1>3, <2>2, <3>1, <3>2, <3>3
  <2> QED BY <2>4, <2>5, <2>6 DEF UiInv
<1>4. CASE BeginStep
  <2>1. /\ session_at.place = "step" /\ UNCHANGED <<cache, ui_interrupted, answers, located, clicks, after_stop, screen>>
        /\ session_at' = [session_at EXCEPT !.place =
                             IF ui_interrupted \/ session_at.step > Len(UiSteps) THEN "idle"
                             ELSE IF UiStep.action = "read" THEN "page" ELSE "locate"]
    BY <1>4 DEF BeginStep, SequenceAt, SequenceGoes, Stops
  <2>2. session_at' \in [place : {"idle", "page", "locate"}, step : Nat] /\ session_at'.step = session_at.step
        /\ (session_at'.place # "idle" => ~ui_interrupted /\ session_at.step <= Len(UiSteps))
    BY <1>0, <2>1 DEF SequenceOK
  <2>3. SequenceOK' BY <1>0, <2>1, <2>2 DEF SequenceOK
  <2>4. StepsOK' BY <1>0, <2>1, <2>2 DEF StepsOK
  <2>5. StopOK' /\ ConsentOK' BY <1>0, <2>1, <2>2 DEF StopOK, ConsentOK, FullConsent
  <2> QED BY <2>3, <2>4, <2>5 DEF UiInv
<1>5. CASE locate
  <2> DEFINE hit == cache.position # NoPosition /\ ~cache.expired /\ _verify_cache
  <2>1. /\ session_at.place = "locate" /\ UNCHANGED <<ui_interrupted, answers, clicks, after_stop, screen>>
        /\ located' = [used |-> IF hit THEN cache.position ELSE screen.element, seen |-> screen.element]
        /\ cache' = IF hit THEN cache ELSE _locate_full
        /\ session_at' = [session_at EXCEPT !.place = IF screen.element = NoPosition THEN "idle" ELSE "act"]
    BY <1>5 DEF locate, SequenceAt, SequenceGoes
  <2>2. hit => cache.position = screen.element BY DEF _verify_cache
  <2>3. screen.element \in ScreenPlaces BY <1>0 DEF SequenceOK
  <2> HIDE DEF hit
  <2>4. located' = [used |-> screen.element, seen |-> screen.element] BY <2>1, <2>2
  <2>5. located' \in Look BY <2>3, <2>4 DEF Look
  <2>6. cache' \in [position : ScreenPlaces, expired : BOOLEAN] BY <1>0, <2>1, <2>3 DEF _locate_full, SequenceOK
  <2>7. session_at' \in [place : {"idle", "act"}, step : Nat] /\ session_at'.step = session_at.step
    BY <1>0, <2>1 DEF SequenceOK
  <2>8. SequenceOK' BY <1>0, <2>1, <2>5, <2>6, <2>7 DEF SequenceOK
  <2>9. StepsOK' BY <1>0, <2>1, <2>7 DEF StepsOK
  <2>10. StopOK' /\ ConsentOK' BY <1>0, <2>1, <2>7 DEF StopOK, ConsentOK, FullConsent
  <2> QED BY <2>8, <2>9, <2>10 DEF UiInv
<1>6. ASSUME NEW b \in BOOLEAN, _execute_step(b) PROVE UiInv'
  <2>1. /\ session_at.place = "act" /\ UNCHANGED <<cache, ui_interrupted, answers, located, screen>>
        /\ clicks' \in {Append(clicks, located), clicks}
        /\ after_stop' \in {after_stop, IF ui_interrupted THEN after_stop + 1 ELSE after_stop}
        /\ session_at' \in {[session_at EXCEPT !.place = p] : p \in {"page", "idle"}}
    BY <1>6 DEF _execute_step, SequenceAt, SequenceGoes
  <2>2. session_at' \in [place : {"page", "idle"}, step : Nat] /\ session_at'.step = session_at.step
    BY <1>0, <2>1 DEF SequenceOK
  <2>3. after_stop = 0 BY <1>0, <2>1 DEF StopOK
  <2>4. located \in Look BY <1>0 DEF SequenceOK
  <2>5. clicks' \in Seq(Look) /\ Len(clicks') \in Nat /\ Len(clicks') <= Len(clicks) + 1
    BY <1>0, <2>1, <2>4, AppendProperties DEF StepsOK
  <2>6. SequenceOK' BY <1>0, <2>1, <2>2 DEF SequenceOK
  <2>7. StepsOK' BY <1>0, <2>1, <2>2, <2>5 DEF StepsOK
  <2>8. StopOK' BY <1>0, <2>1, <2>2, <2>3 DEF StopOK, SequenceOK
  <2>9. ConsentOK' BY <1>0, <2>1, <2>2 DEF ConsentOK, FullConsent
  <2> QED BY <2>6, <2>7, <2>8, <2>9 DEF UiInv
<1>7. CASE _check_page
  <2>1. /\ session_at.place = "page" /\ UNCHANGED <<cache, ui_interrupted, answers, located, clicks, after_stop, screen>>
        /\ session_at' \in {[session_at EXCEPT !.place = "idle"], [place |-> "step", step |-> session_at.step + 1]}
    BY <1>7 DEF _check_page, SequenceAt
  <2>2. session_at' \in [place : {"idle", "step"}, step : Nat]
        /\ (session_at'.place = "idle" => session_at'.step = session_at.step)
        /\ (session_at'.place = "step" => session_at'.step = session_at.step + 1)
    BY <1>0, <2>1 DEF SequenceOK
  <2>3. SequenceOK' BY <1>0, <2>1, <2>2 DEF SequenceOK
  <2>4. StepsOK' BY <1>0, <2>1, <2>2 DEF StepsOK
  <2>5. StopOK' /\ ConsentOK' BY <1>0, <2>1, <2>2 DEF StopOK, ConsentOK, FullConsent
  <2> QED BY <2>3, <2>4, <2>5 DEF UiInv
<1>8. CASE ScreenChanges
  <2>1. screen' \in [element : ScreenPlaces, page : PageIds] /\ UNCHANGED sessionVars
    BY <1>8 DEF ScreenChanges, ScreenPlaces
  <2> QED BY <1>0, <2>1 DEF sessionVars, UiInv, SequenceOK, StepsOK, StopOK, ConsentOK, FullConsent
<1>9. CASE CacheExpires \/ invalidate
  <2>1. /\ cache' \in {[cache EXCEPT !.expired = TRUE], [position |-> NoPosition, expired |-> FALSE]}
        /\ UNCHANGED <<session_at, ui_interrupted, answers, located, clicks, after_stop, screen>>
    BY <1>9 DEF CacheExpires, invalidate
  <2>2. cache' \in [position : ScreenPlaces, expired : BOOLEAN]
    <3>1. cache \in [position : ScreenPlaces, expired : BOOLEAN] /\ NoPosition \in ScreenPlaces
      BY <1>0 DEF SequenceOK, ScreenPlaces
    <3>2. [cache EXCEPT !.expired = TRUE] \in [position : ScreenPlaces, expired : BOOLEAN] BY <3>1
    <3>3. [position |-> NoPosition, expired |-> FALSE] \in [position : ScreenPlaces, expired : BOOLEAN]
      BY <3>1
    <3> QED BY <2>1, <3>2, <3>3
  <2> QED BY <1>0, <2>1, <2>2 DEF UiInv, SequenceOK, StepsOK, StopOK, ConsentOK, FullConsent
<1>10. CASE UNCHANGED uiVars
  BY <1>0, <1>10 DEF uiVars, sessionVars, UiInv, SequenceOK, StepsOK, StopOK, ConsentOK, FullConsent
<1> QED BY <1>1, <1>2, <1>3, <1>4, <1>5, <1>6, <1>7, <1>8, <1>9, <1>10 DEF UiNext

\* What the user interrupts stops: at most the tool that was already admitted, or the
\* step under way, still runs, wherever the interruption falls.
THEOREM InterruptsAlwaysStop ==
    SubagentSpec /\ UiSpec => [](SubagentTypeOK /\ UiTypeOK /\ InterruptsStop)
<1>1. SubagentInv /\ UiInv => SubagentTypeOK /\ UiTypeOK /\ InterruptsStop
  BY SubagentInvIsEnough, UiInvIsEnough DEF InterruptsStop
<1> QED BY <1>1, SubagentStarts, SubagentStep, UiStarts, UiStepKeeps, PTL DEF SubagentSpec, UiSpec

(***************************************************************************)
(* The plan card                                                           *)
(***************************************************************************)

\* Every step shows as done; a plan is over by then, one way or the other.
ShownDone == {"done", "degraded"}
AllShownDone(c) == \A s \in ManualSteps : c.step_status[s] \in ShownDone
EndsOK(c) == AllShownDone(c) => c.status \in {"done", "cancelled"}

\* The step a plan waits at has not been done ...
HeldOK(c) == P!WaitsForConsent(c) => c.step_status[c.paused_step_id] \notin ShownDone
\* ... and has a request.
RequestOK(c) == P!WaitsForConsent(c) => P!get_step_consent_request(c, c.paused_step_id) # None

Between(c) == c \in ManualContext /\ EndsOK(c) /\ HeldOK(c)
KeptIn(copy, conv) ==
    /\ copy \in PlanCopy /\ Between(copy.context) /\ RequestOK(copy.context)
    /\ copy.goal => conv.goal > 0
    /\ copy.reply => conv.reply > 0

\* The rows show a context.
RowShows(row, c) ==
    LET plan == _manual_plan_projection(c)
    IN  \/ row \in {NoManualPlan, plan}
        \/ plan.status = "cancelled" /\ row = [plan EXCEPT !.status = "done"]

\* Without company a call has the snapshot in hand, but for the message it has just
\* appended.
AloneIn(k, snap, row, conv) ==
    /\ k.at \in {"created", "goal", "row", "execute", "reply", "delete"} => k.copy = snap
    /\ k.at = "goal_id" => k.copy = [snap EXCEPT !.goal = TRUE]
    /\ k.at = "reply_id" => k.copy = [snap EXCEPT !.reply = TRUE]
    /\ k.at \in {"created", "goal"} => conv.goal = 0
    /\ k.at \in {"goal", "goal_id", "execute"} => RowShows(row, snap.context)
    /\ k.at \in {"reply", "reply_id"} /\ k.then # "delete" => RowShows(row, snap.context)

Quiet == \A r \in PlanRequests : plan_calls[r] = NoPlanCall

CallsOK ==
    /\ \A r \in PlanRequests : IF plan_calls[r].at = "none" THEN plan_calls[r] = NoPlanCall
                               ELSE KeptIn(plan_calls[r].copy, conversation)
    /\ snapshot # NoManualPlan => KeptIn(snapshot, conversation)
    /\ snapshot = NoManualPlan =>
          /\ Quiet /\ plan_row = NoManualPlan
          /\ conversation.goal = 0 /\ conversation.reply = 0
          /\ \A s \in ManualSteps : plan_consents[s] = "none"

OrderlyOK ==
    ~entangled =>
       /\ \A q, r \in PlanRequests : plan_calls[q].at = "none" \/ plan_calls[r].at = "none" \/ q = r
       /\ \A r \in PlanRequests : AloneIn(plan_calls[r], snapshot, plan_row, conversation)
       /\ conversation.goal <= 1 /\ conversation.reply <= 1
       /\ conversation.reply = 1 =>
             snapshot.reply \/ \E r \in PlanRequests : plan_calls[r].at = "reply_id"
       /\ Quiet /\ snapshot # NoManualPlan => RowShows(plan_row, snapshot.context)

ManualInv == ManualTypeOK /\ CallsOK /\ ConsentIsAnswerable /\ OrderlyOK

\* A nonempty set of naturals has a least element (the order is well-founded).
LEMMA LeastNatural == ASSUME NEW T, T \subseteq Nat, T # {} PROVE \E x \in T : \A y \in T : x <= y
<1> DEFINE R == OpToRel(<, Nat)
<1>1. IsWellFoundedOn(R, Nat) BY NatLessThanWellFounded
<1>2. PICK x \in T : \A y \in T : ~(<<y, x>> \in R) BY <1>1, WFMin
<1>3. ASSUME NEW y \in T PROVE x <= y
  <2>1. ~(y < x) BY <1>2 DEF OpToRel
  <2> QED BY <2>1
<1> QED BY <1>3

\* The engine takes the first of the ready steps (ready_steps[0]).
LEMMA FirstManualStep ==
    ASSUME NEW S, S \subseteq ManualSteps, S # {}
    PROVE  P!FirstOf(S) \in S
<1>1. S \subseteq Nat BY ManualAssumption
<1>2. \E s \in S : \A t \in S : s <= t BY <1>1, LeastNatural
<1>3. \E s \in S : \A t \in S : [x \in ManualSteps |-> x][s] <= [x \in ManualSteps |-> x][t]
  BY <1>2
<1> QED BY <1>3 DEF P!FirstOf

\* Rewriting the status of some steps keeps the type of a context.
LEMMA SetStatusKeeps ==
    ASSUME NEW c \in ManualContext, NEW S, NEW v \in P!StepStatus
    PROVE  LET d == P!SetStatus(c, S, v)
           IN  /\ d \in ManualContext
               /\ \A s \in ManualSteps : d.step_status[s] = IF s \in S THEN v ELSE c.step_status[s]
               /\ d.status = c.status /\ d.paused_reason = c.paused_reason
               /\ d.paused_step_id = c.paused_step_id /\ d.plan_status = c.plan_status
               /\ d.step_consent_requests = c.step_consent_requests
               /\ d.consent_request = c.consent_request
BY DEF P!SetStatus, ManualContext

LEMMA SettleKeeps ==
    ASSUME NEW c \in ManualContext, NEW S \in SUBSET ManualSteps, NEW v \in P!StepStatus
    PROVE  LET d == P!Settle(c, S, v)
           IN  /\ d \in ManualContext
               /\ \A s \in ManualSteps : d.step_status[s] = IF s \in S THEN v ELSE c.step_status[s]
               /\ d.status = c.status /\ d.paused_reason = c.paused_reason
               /\ d.paused_step_id = c.paused_step_id /\ d.plan_status = c.plan_status
               /\ d.step_consent_requests = c.step_consent_requests
               /\ d.consent_request = c.consent_request
BY DEF P!Settle, P!SetStatus, ManualContext

\* Contexts with the same steps and the same wait, as far as the card looks.
LEMMA ContextFields ==
    ASSUME NEW c \in ManualContext
    PROVE  /\ c.status \in P!PlanStatus /\ c.step_status \in [ManualSteps -> P!StepStatus]
           /\ c.paused_step_id \in ManualSteps \cup {None} /\ c.plan_status \in P!Verdict
           /\ c.step_consent_requests \in [ManualSteps -> ManualSteps \cup {None}]
           /\ c.consent_request \in ManualSteps \cup {None}
           /\ \A s \in ManualSteps : P!get_step_consent_request(c, s) \in ManualSteps \cup {None}
           /\ None \notin ManualSteps
BY ManualAssumption DEF ManualContext, P!get_step_consent_request, None

\* What an endpoint makes of a context before it saves it.
LEMMA StartedOK ==
    ASSUME NEW c, Between(c), c.status \notin {"done", "cancelled"}
    PROVE  Between(Started(c)) /\ RequestOK(Started(c)) /\ ~AllShownDone(Started(c))
           /\ Started(c).step_status = c.step_status /\ Started(c).paused_step_id = None
           /\ Started(c).paused_reason = "none" /\ Started(c).status = "running"
<1>1. c \in ManualContext /\ ~AllShownDone(c) BY DEF Between, EndsOK
<1>2. /\ Started(c) \in ManualContext /\ Started(c).step_status = c.step_status
      /\ Started(c).paused_step_id = None /\ Started(c).paused_reason = "none"
      /\ Started(c).status = "running"
  BY <1>1 DEF Started, ManualContext, P!PlanStatus, P!PausedReason
<1> QED BY <1>1, <1>2 DEF Between, RequestOK, EndsOK, HeldOK, AllShownDone, P!WaitsForConsent

LEMMA PausedOK ==
    ASSUME NEW c, Between(c), RequestOK(c)
    PROVE  LET d == IF P!is_terminal(c) THEN c
                    ELSE [c EXCEPT !.status = "paused", !.paused_reason = "manual_pause",
                                   !.paused_step_id = None]
           IN  Between(d) /\ RequestOK(d)
<1> DEFINE d == [c EXCEPT !.status = "paused", !.paused_reason = "manual_pause",
                          !.paused_step_id = None]
<1>1. CASE P!is_terminal(c) BY <1>1
<1>2. CASE ~P!is_terminal(c)
  <2>1. c \in ManualContext /\ ~AllShownDone(c)
    BY <1>2 DEF Between, EndsOK, P!is_terminal, P!FINAL_PLAN_STATUSES
  <2>2. d \in ManualContext /\ d.step_status = c.step_status /\ d.paused_step_id = None
    BY <2>1 DEF ManualContext, P!PlanStatus, P!PausedReason
  <2>3. Between(d) /\ RequestOK(d)
    BY <2>1, <2>2 DEF Between, RequestOK, EndsOK, HeldOK, AllShownDone, P!WaitsForConsent
  <2> QED BY <1>2, <2>3
<1> QED BY <1>1, <1>2

LEMMA CancelledOK ==
    ASSUME NEW c, Between(c), RequestOK(c), NEW S \in SUBSET ManualSteps
    PROVE  LET d == [P!Settle(c, S, "cancelled") EXCEPT !.status = "cancelled"]
           IN  Between(d) /\ RequestOK(d)
<1> DEFINE e == P!Settle(c, S, "cancelled")
           d == [e EXCEPT !.status = "cancelled"]
<1>1. c \in ManualContext BY DEF Between
<1>2. /\ e \in ManualContext
      /\ \A s \in ManualSteps : e.step_status[s] = IF s \in S THEN "cancelled" ELSE c.step_status[s]
      /\ e.paused_reason = c.paused_reason /\ e.paused_step_id = c.paused_step_id
      /\ e.step_consent_requests = c.step_consent_requests /\ e.consent_request = c.consent_request
  BY <1>1, SettleKeeps DEF P!StepStatus
<1> HIDE DEF e
<1>3. /\ d \in ManualContext /\ d.step_status = e.step_status /\ d.status = "cancelled"
      /\ d.paused_reason = e.paused_reason /\ d.paused_step_id = e.paused_step_id
      /\ d.step_consent_requests = e.step_consent_requests /\ d.consent_request = e.consent_request
  BY <1>2 DEF ManualContext, P!PlanStatus
<1> HIDE DEF d
<1>4. c.paused_step_id \in ManualSteps \cup {None} BY <1>1, ContextFields
<1>5. Between(d) /\ RequestOK(d)
  BY <1>2, <1>3, <1>4 DEF Between, RequestOK, EndsOK, HeldOK, P!WaitsForConsent, ShownDone,
     P!get_step_consent_request
<1> QED BY <1>5 DEF d, e

LEMMA DeclinedOK ==
    ASSUME NEW c, Between(c), NEW s \in ManualSteps
    PROVE  Between(Declined(c, s)) /\ RequestOK(Declined(c, s))
<1> DEFINE e == P!Settle(c, {s}, "skipped")
           d == [e EXCEPT !.status = "paused", !.paused_reason = "consent_declined",
                          !.paused_step_id = s]
<1>1. c \in ManualContext BY DEF Between
<1>2. e \in ManualContext /\ e.step_status[s] = "skipped"
  BY <1>1, SettleKeeps DEF P!StepStatus
<1> HIDE DEF e
<1>3. d \in ManualContext /\ d.step_status[s] = "skipped" /\ d.paused_reason = "consent_declined"
  BY <1>2 DEF ManualContext, P!PlanStatus
<1> HIDE DEF d
<1>4. Between(d) /\ RequestOK(d)
  BY <1>3 DEF Between, RequestOK, EndsOK, HeldOK, P!WaitsForConsent, AllShownDone, ShownDone
<1> QED BY <1>4 DEF d, e, Declined

LEMMA TimedOutOK ==
    ASSUME NEW c, Between(c), NEW s \in ManualSteps
    PROVE  Between(TimedOut(c, s)) /\ RequestOK(TimedOut(c, s))
<1> DEFINE e == P!SetStatus(c, {s}, "failed")
           d == [e EXCEPT !.status = "paused", !.paused_reason = "timeout", !.paused_step_id = s]
<1>1. c \in ManualContext BY DEF Between
<1>2. e \in ManualContext /\ e.step_status[s] = "failed"
  BY <1>1, SetStatusKeeps DEF P!StepStatus
<1> HIDE DEF e
<1>3. d \in ManualContext /\ d.step_status[s] = "failed" /\ d.paused_reason = "timeout"
  BY <1>2 DEF ManualContext, P!PlanStatus
<1> HIDE DEF d
<1>4. Between(d) /\ RequestOK(d)
  BY <1>3 DEF Between, RequestOK, EndsOK, HeldOK, P!WaitsForConsent, AllShownDone, ShownDone
<1> QED BY <1>4 DEF d, e, TimedOut

LEMMA RequestStored ==
    ASSUME NEW c \in ManualContext, NEW s \in ManualSteps, NEW q \in ManualSteps
    PROVE  LET d == P!set_step_consent_request(c, s, q)
           IN  /\ d \in ManualContext /\ P!get_step_consent_request(d, s) = q
               /\ d.step_status = c.step_status /\ d.status = c.status
               /\ d.paused_reason = c.paused_reason /\ d.paused_step_id = c.paused_step_id
<1> DEFINE d == P!set_step_consent_request(c, s, q)
<1>1. c.step_consent_requests \in [ManualSteps -> ManualSteps \cup {None}] /\ q # None
  BY ContextFields
<1>2. /\ d = [c EXCEPT !.step_consent_requests = [c.step_consent_requests EXCEPT ![s] = q],
                       !.consent_request = q]
  BY DEF P!set_step_consent_request, ManualContext
<1>3. [c.step_consent_requests EXCEPT ![s] = q] \in [ManualSteps -> ManualSteps \cup {None}]
      /\ [c.step_consent_requests EXCEPT ![s] = q][s] = q
  BY <1>1
<1> HIDE DEF d
<1>4. /\ d \in ManualContext /\ d.step_consent_requests[s] = q
      /\ d.step_status = c.step_status /\ d.status = c.status
      /\ d.paused_reason = c.paused_reason /\ d.paused_step_id = c.paused_step_id
  BY <1>2, <1>3 DEF ManualContext
<1>5. P!get_step_consent_request(d, s) = q BY <1>1, <1>4 DEF P!get_step_consent_request
<1> QED BY <1>4, <1>5 DEF d

LEMMA AskingOK ==
    ASSUME NEW c, Between(c), NEW s \in ManualSteps
    PROVE  Between(Asking(c, s)) /\ RequestOK(Asking(c, s))
<1> DEFINE e == P!SetStatus(c, {s}, "blocked")
           f == P!set_step_consent_request(e, s, s)
           d == [f EXCEPT !.status = "paused", !.paused_reason = "waiting_consent",
                          !.paused_step_id = s]
<1>1. c \in ManualContext BY DEF Between
<1>2. e \in ManualContext /\ e.step_status[s] = "blocked"
  BY <1>1, SetStatusKeeps DEF P!StepStatus
<1> HIDE DEF e
<1>3. f \in ManualContext /\ P!get_step_consent_request(f, s) = s /\ f.step_status[s] = "blocked"
  BY <1>2, RequestStored
<1> HIDE DEF f
<1>4. /\ d \in ManualContext /\ d.step_status[s] = "blocked" /\ d.paused_step_id = s
      /\ d.step_consent_requests = f.step_consent_requests /\ d.consent_request = f.consent_request
  BY <1>3 DEF ManualContext, P!PlanStatus, P!PausedReason
<1> HIDE DEF d
<1>5. P!get_step_consent_request(d, s) = s BY <1>3, <1>4 DEF P!get_step_consent_request
<1>6. Between(d) /\ RequestOK(d)
  BY <1>4, <1>5, ContextFields, <1>1 DEF Between, RequestOK, EndsOK, HeldOK, AllShownDone, ShownDone
<1> QED BY <1>6 DEF d, e, f, Asking

\* The engine's operators leave the wait and the requests alone, and finish no step.
Follows(d, c) ==
    /\ d \in ManualContext
    /\ \A s \in ManualSteps : d.step_status[s] \in ShownDone => c.step_status[s] = d.step_status[s]
    /\ d.paused_reason = c.paused_reason /\ d.paused_step_id = c.paused_step_id

LEMMA FollowerOK ==
    ASSUME NEW c, NEW d, Between(c), Follows(d, c), d.status = c.status
    PROVE  Between(d)
<1>1. d.paused_step_id \in ManualSteps \cup {None} BY ContextFields DEF Follows
<1> QED BY <1>1 DEF Between, Follows, EndsOK, HeldOK, AllShownDone, P!WaitsForConsent

LEMMA FailurePropagates ==
    ASSUME NEW c, Between(c), NEW F
    PROVE  Between(P!propagate_failure(c, F))
           /\ Follows(P!propagate_failure(c, F), c) /\ P!propagate_failure(c, F).status = c.status
<1> DEFINE S == {t \in P!StepsWith(c, {"pending", "ready"}) : \E f \in F : t \in P!Downstream(f)}
           d == P!Settle(c, S, "blocked")
<1>1. c \in ManualContext BY DEF Between
<1>2. S \in SUBSET ManualSteps BY DEF P!StepsWith
<1> HIDE DEF S
<1>3. /\ d \in ManualContext
      /\ \A s \in ManualSteps : d.step_status[s] = IF s \in S THEN "blocked" ELSE c.step_status[s]
      /\ d.status = c.status /\ d.paused_reason = c.paused_reason
      /\ d.paused_step_id = c.paused_step_id
  BY <1>1, <1>2, SettleKeeps DEF P!StepStatus
<1> HIDE DEF d
<1>4. Follows(d, c) BY <1>3 DEF Follows, ShownDone
<1>5. Between(d) BY <1>3, <1>4, FollowerOK
<1> QED BY <1>3, <1>4, <1>5 DEF d, S, P!propagate_failure

LEMMA UnblockFollows ==
    ASSUME NEW c, Between(c), NEW U \in SUBSET ManualSteps
    PROVE  Between(P!propagate_unblock(c, U))
<1> DEFINE e == P!SetStatus(c, U, "pending")
           d == P!propagate_unblock(c, U)
<1>1. c \in ManualContext BY DEF Between
<1>2. /\ e \in ManualContext
      /\ \A s \in ManualSteps : e.step_status[s] = IF s \in U THEN "pending" ELSE c.step_status[s]
      /\ e.status = c.status /\ e.paused_reason = c.paused_reason
      /\ e.paused_step_id = c.paused_step_id
  BY <1>1, SetStatusKeeps DEF P!StepStatus
<1>3. c.processed_steps \ U \in SUBSET ManualSteps
      /\ c.published_step_events \ U \in SUBSET ManualSteps
  BY <1>1 DEF ManualContext
<1>4. d = [e EXCEPT !.processed_steps = c.processed_steps \ U,
                    !.published_step_events = c.published_step_events \ U]
  BY DEF P!propagate_unblock
<1> HIDE DEF e, d
<1>5. /\ d \in ManualContext /\ d.step_status = e.step_status /\ d.status = e.status
      /\ d.paused_reason = e.paused_reason /\ d.paused_step_id = e.paused_step_id
  BY <1>2, <1>3, <1>4 DEF ManualContext
<1>6. Follows(d, c) BY <1>2, <1>5 DEF Follows, ShownDone
<1> QED BY <1>2, <1>5, <1>6, FollowerOK DEF d

\* _finalize_plan_status: a verdict on a plan whose steps all show as done is completed.
LEMMA FinalizedOK ==
    ASSUME NEW c, Between(c)
    PROVE  Between(P!finalize_plan_status(c))
<1> DEFINE d == P!finalize_plan_status(c)
           v == P!evaluate_plan_status(c)
<1>1. c \in ManualContext BY DEF Between
<1>2. CASE ~P!CanFinalize(c) BY <1>2 DEF P!finalize_plan_status
<1>3. CASE P!CanFinalize(c)
  <2>1. v \in P!Verdict \ {"none"}
    <3>1. v # "none" BY <1>3 DEF P!CanFinalize
    <3> QED BY <3>1 DEF P!evaluate_plan_status, P!Verdict
  <2>2. AllShownDone(c) => v = "completed"
    <3> SUFFICES ASSUME AllShownDone(c), v # "completed" PROVE FALSE OBVIOUS
    <3>1. {c.step_status[s] : s \in ManualSteps} \subseteq ShownDone BY DEF AllShownDone
    <3>2. v = "none" BY <3>1 DEF P!evaluate_plan_status, ShownDone
    <3> QED BY <2>1, <3>2
  <2>3. d = [c EXCEPT !.plan_status = v, !.status = IF v = "completed" THEN "done" ELSE "failed"]
    BY <1>3 DEF P!finalize_plan_status
  <2> HIDE DEF v, d
  <2>4. /\ d \in ManualContext /\ d.step_status = c.step_status
        /\ d.status = (IF v = "completed" THEN "done" ELSE "failed")
        /\ d.paused_reason = c.paused_reason /\ d.paused_step_id = c.paused_step_id
    BY <1>1, <2>1, <2>3 DEF ManualContext, P!PlanStatus
  <2>5. Between(d)
    BY <2>2, <2>4 DEF Between, EndsOK, HeldOK, AllShownDone, P!WaitsForConsent
  <2> QED BY <2>5 DEF d
<1> QED BY <1>2, <1>3

\* Nothing is ready: the plan is over, failed or waits for its dependencies.
LEMMA NothingReadyOK ==
    ASSUME NEW c, Between(c), ~AllShownDone(c), c.paused_step_id = None
    PROVE  Between(NothingReadyIn(c))
<1>1. c \in ManualContext BY DEF Between
<1>2. CASE P!all_steps_final(c)
  <2> DEFINE d == [c EXCEPT !.status = "done"]
  <2>1. d \in ManualContext /\ d.status = "done" /\ d.paused_step_id = None
    BY <1>1 DEF ManualContext, P!PlanStatus
  <2>2. Between(d) BY <2>1 DEF Between, EndsOK, HeldOK, P!WaitsForConsent
  <2> QED BY <1>2, <2>2 DEF NothingReadyIn
<1>3. CASE ~P!all_steps_final(c) /\ P!all_dependencies_failed(c)
  <2> DEFINE e == P!propagate_failure(c, P!StepsWith(c, P!DEPENDENCY_FAILED_STATUSES))
             d == [e EXCEPT !.status = "failed"]
  <2>1. Between(e) /\ Follows(e, c) BY FailurePropagates
  <2>2. e \in ManualContext /\ e.paused_step_id = None /\ ~AllShownDone(e)
    BY <2>1 DEF Between, Follows, AllShownDone
  <2> HIDE DEF e
  <2>3. d \in ManualContext /\ d.step_status = e.step_status /\ d.paused_step_id = None
    BY <2>2 DEF ManualContext, P!PlanStatus
  <2> HIDE DEF d
  <2>4. Between(d) BY <2>2, <2>3 DEF Between, EndsOK, HeldOK, P!WaitsForConsent, AllShownDone
  <2> QED BY <1>3, <2>4 DEF d, e, NothingReadyIn
<1>4. CASE ~P!all_steps_final(c) /\ ~P!all_dependencies_failed(c)
  <2> DEFINE d == [c EXCEPT !.status = "paused", !.paused_reason = "waiting_dependencies"]
  <2>1. d \in ManualContext /\ d.step_status = c.step_status /\ d.paused_step_id = None
    BY <1>1 DEF ManualContext, P!PlanStatus, P!PausedReason
  <2>2. Between(d) BY <2>1 DEF Between, EndsOK, HeldOK, P!WaitsForConsent, AllShownDone
  <2> QED BY <1>4, <2>2 DEF NothingReadyIn
<1> QED BY <1>2, <1>3, <1>4

\* One step of the engine.
LEMMA RunOneOK ==
    ASSUME NEW c, Between(c), c.paused_step_id = None, NEW s \in ManualSteps, NEW d \in RunOne(c, s)
    PROVE  Between(d)
<1>1. c \in ManualContext BY DEF Between
<1>2. CASE s \in NeedsAuth /\ c.step_status[s] # "ready"
  <2> DEFINE e == P!SetStatus(c, {s}, "blocked")
  <2>1. e \in ManualContext /\ e.step_status[s] = "blocked"
    BY <1>1, SetStatusKeeps DEF P!StepStatus
  <2>2. d = [e EXCEPT !.status = "paused", !.paused_reason = "waiting_consent",
                      !.paused_step_id = s]
    BY <1>2 DEF RunOne
  <2> HIDE DEF e
  <2>3. d \in ManualContext /\ d.step_status[s] = "blocked" /\ d.paused_step_id = s
    BY <2>1, <2>2 DEF ManualContext, P!PlanStatus, P!PausedReason
  <2> QED BY <2>3 DEF Between, EndsOK, HeldOK, AllShownDone, ShownDone
<1>3. CASE ~(s \in NeedsAuth /\ c.step_status[s] # "ready")
  <2> DEFINE e == P!Settle(c, {s}, "done")
             f == P!Settle(c, {s}, "failed")
  <2>1. e \in ManualContext /\ e.paused_step_id = None BY <1>1, SettleKeeps DEF P!StepStatus
  <2>2. f \in ManualContext /\ f.step_status[s] = "failed" /\ f.paused_reason = c.paused_reason
    BY <1>1, SettleKeeps DEF P!StepStatus
  <2>3. \/ d = (IF P!all_steps_final(e) THEN [e EXCEPT !.status = "done"] ELSE e)
        \/ d = [f EXCEPT !.status = "failed", !.paused_step_id = s]
    BY <1>3 DEF RunOne
  <2> HIDE DEF e, f
  <2>4. CASE d = (IF P!all_steps_final(e) THEN [e EXCEPT !.status = "done"] ELSE e)
    <3>1. CASE P!all_steps_final(e)
      <4>1. d \in ManualContext /\ d.status = "done" /\ d.paused_step_id = None
        BY <2>1, <2>4, <3>1 DEF ManualContext, P!PlanStatus
      <4> QED BY <4>1 DEF Between, EndsOK, HeldOK, P!WaitsForConsent
    <3>2. CASE ~P!all_steps_final(e)
      <4>1. ~AllShownDone(e) BY <3>2 DEF AllShownDone, ShownDone, P!all_steps_final, P!FINAL_STEP_STATUSES
      <4> QED BY <2>1, <2>4, <3>2, <4>1 DEF Between, EndsOK, HeldOK, P!WaitsForConsent
    <3> QED BY <3>1, <3>2
  <2>5. CASE d = [f EXCEPT !.status = "failed", !.paused_step_id = s]
    <3>1. d \in ManualContext /\ d.step_status[s] = "failed" /\ d.paused_step_id = s
      BY <2>2, <2>5 DEF ManualContext, P!PlanStatus
    <3> QED BY <3>1 DEF Between, EndsOK, HeldOK, AllShownDone, ShownDone
  <2> QED BY <2>3, <2>4, <2>5
<1> QED BY <1>2, <1>3

LEMMA EngineRunsOK ==
    ASSUME NEW c, Between(c), c.status \notin {"done", "cancelled"}, NEW d \in EngineRuns(c)
    PROVE  Between(d)
<1> DEFINE b == Started(c)
           ready == P!get_ready_steps(b)
<1>1. Between(b) /\ ~AllShownDone(b) /\ b.paused_step_id = None BY StartedOK
<1>2. ready \subseteq ManualSteps BY DEF P!get_ready_steps
<1>3. IF ready = {} THEN d = NothingReadyIn(b) ELSE d \in RunOne(b, P!FirstOf(ready))
  BY DEF EngineRuns
<1> HIDE DEF b, ready
<1>4. CASE ready = {} BY <1>1, <1>3, <1>4, NothingReadyOK
<1>5. CASE ready # {}
  <2>1. P!FirstOf(ready) \in ManualSteps BY <1>2, <1>5, FirstManualStep
  <2> QED BY <1>1, <1>3, <1>5, <2>1, RunOneOK
<1> QED BY <1>4, <1>5

\* execute_next returns a context whose steps agree with its status.
LEMMA ExecuteNextOK ==
    ASSUME NEW c, Between(c), NEW d \in execute_next(c)
    PROVE  Between(d)
<1>1. CASE IsOver(c) BY <1>1 DEF execute_next
<1>2. CASE ~IsOver(c) /\ c.status = "failed" /\ P!CanFinalize(c)
  BY <1>2, FinalizedOK DEF execute_next
<1>3. CASE ~IsOver(c) /\ ~(c.status = "failed" /\ P!CanFinalize(c))
  <2>1. PICK e \in EngineRuns(c) :
          \E g \in Released(c, P!propagate_failure(e, P!StepsWith(e, {"failed"}))) :
             d = P!finalize_plan_status(g)
    BY <1>3 DEF execute_next
  <2> DEFINE f == P!propagate_failure(e, P!StepsWith(e, {"failed"}))
  <2>2. PICK g \in Released(c, f) : d = P!finalize_plan_status(g) BY <2>1
  <2>3. Between(e) BY <1>3, EngineRunsOK DEF IsOver
  <2>4. Between(f) BY <2>3, FailurePropagates
  <2> HIDE DEF f
  <2>5. g = f \/ \E U \in SUBSET ManualSteps : g = P!propagate_unblock(f, U) BY DEF Released
  <2>6. Between(g) BY <2>4, <2>5, UnblockFollows
  <2> QED BY <2>2, <2>6, FinalizedOK
<1> QED BY <1>1, <1>2, <1>3

\* prepare_consent_pause: whatever waits has a request afterwards.
LEMMA PreparedOK ==
    ASSUME NEW c, Between(c)
    PROVE  LET d == P!prepare_consent_pause(c) IN Between(d) /\ RequestOK(d)
<1> DEFINE d == P!prepare_consent_pause(c)
           s == c.paused_step_id
           q == IF P!NeedsNewRequest(c) THEN s ELSE P!get_step_consent_request(c, s)
           e == P!set_step_consent_request(c, s, q)
<1>1. c \in ManualContext BY DEF Between
<1>2. CASE ~P!WaitsForConsent(c) BY <1>2 DEF P!prepare_consent_pause, RequestOK
<1>3. CASE P!WaitsForConsent(c)
  <2>1. s \in ManualSteps BY <1>1, <1>3, ContextFields DEF P!WaitsForConsent
  <2>2. q \in ManualSteps BY <1>1, <1>3, <2>1, ContextFields DEF P!NeedsNewRequest
  <2>3. d = [e EXCEPT !.status = "paused"] BY <1>3 DEF P!prepare_consent_pause
  <2>4. c.step_status[s] \notin ShownDone BY <1>3 DEF Between, HeldOK
  <2>5. q # None BY <2>2, ContextFields, <1>1
  <2> HIDE DEF q
  <2>6. /\ e \in ManualContext /\ P!get_step_consent_request(e, s) = q
        /\ e.step_status = c.step_status /\ e.paused_step_id = s
    BY <1>1, <2>1, <2>2, RequestStored
  <2> HIDE DEF e, d
  <2>7. /\ d \in ManualContext /\ d.step_status = c.step_status /\ d.paused_step_id = s
        /\ d.step_consent_requests = e.step_consent_requests /\ d.consent_request = e.consent_request
    BY <2>3, <2>6 DEF ManualContext, P!PlanStatus
  <2>8. P!get_step_consent_request(d, s) = q BY <2>6, <2>7 DEF P!get_step_consent_request
  <2>9. Between(d) /\ RequestOK(d)
    BY <2>1, <2>4, <2>5, <2>7, <2>8 DEF Between, EndsOK, HeldOK, RequestOK, AllShownDone
  <2> QED BY <2>9 DEF d
<1> QED BY <1>2, <1>3

LEMMA EngineInputOK ==
    ASSUME NEW c, Between(c), NEW d \in EngineInputs(c)
    PROVE  Between(d)
<1>1. CASE d = c BY <1>1
<1>2. ASSUME NEW s \in ManualSteps, d = Resumed(c, s) PROVE Between(d)
  <2> DEFINE e == P!SetStatus(c, {s}, "ready")
  <2>1. c \in ManualContext BY DEF Between
  <2>2. e \in ManualContext /\ e.step_status[s] = "ready"
    BY <2>1, SetStatusKeeps DEF P!StepStatus
  <2>3. d = [e EXCEPT !.status = "running", !.paused_reason = "none", !.paused_step_id = None]
    BY <1>2 DEF Resumed
  <2> HIDE DEF e
  <2>4. d \in ManualContext /\ d.step_status[s] = "ready" /\ d.paused_step_id = None
    BY <2>2, <2>3 DEF ManualContext, P!PlanStatus, P!PausedReason
  <2> QED BY <2>4 DEF Between, EndsOK, HeldOK, AllShownDone, ShownDone, P!WaitsForConsent
<1> QED BY <1>1, <1>2 DEF EngineInputs

PlanCall ==
    [at : {"none", "created", "goal", "goal_id", "row", "execute", "reply", "reply_id", "delete"},
     copy : PlanCopy \cup {NoManualPlan}, then : {"return", "reply", "delete"}]

\* A row in which every step that shows as waiting has its request.
Answerable(row) ==
    row # NoManualPlan =>
        \A s \in ManualSteps : row.steps[s] = "consent" => row.consent_request_id[s] # None

\* _manual_plan_projection of a context that is fit to be saved.
LEMMA ProjectionOK ==
    ASSUME NEW c, Between(c), RequestOK(c), NEW v \in P!PlanStatus
    PROVE  LET plan == _manual_plan_projection(c)
               row == [plan EXCEPT !.status = v]
           IN  /\ plan \in PlanRow /\ Answerable(plan) /\ row \in PlanRow /\ Answerable(row)
               /\ plan.status = (IF c.status = "failed" THEN "paused" ELSE c.status)
               /\ (\A s \in ManualSteps : plan.steps[s] = "done") => AllShownDone(c)
<1> DEFINE plan == _manual_plan_projection(c)
           row == [plan EXCEPT !.status = v]
           ids == [s \in ManualSteps |-> P!get_step_consent_request(c, s)]
           st == [s \in ManualSteps |->
                    CASE c.step_status[s] = "blocked" /\ c.paused_reason = "waiting_consent"
                            /\ c.paused_step_id = s -> "consent"
                      [] c.step_status[s] = "degraded" -> "done"
                      [] c.step_status[s] = "cancelled" -> "skipped"
                      [] OTHER -> c.step_status[s]]
<1>1. c \in ManualContext BY DEF Between
<1>2. /\ c.status \in P!PlanStatus /\ c.step_status \in [ManualSteps -> P!StepStatus]
      /\ \A s \in ManualSteps : P!get_step_consent_request(c, s) \in ManualSteps \cup {None}
      /\ None \notin ManualSteps
  BY <1>1, ContextFields
<1>3. ids \in [ManualSteps -> ManualSteps \cup {None}] BY <1>2
<1>4. ASSUME NEW s \in ManualSteps
      PROVE  /\ st[s] \in P!StepStatus \cup {"consent"}
             /\ st[s] = "consent" => ids[s] # None
             /\ st[s] = "done" => c.step_status[s] \in ShownDone
  <2>1. c.step_status[s] \in P!StepStatus BY <1>2
  <2>2. CASE c.step_status[s] = "blocked" /\ c.paused_reason = "waiting_consent"
             /\ c.paused_step_id = s
    <3>1. st[s] = "consent" BY <2>2
    <3>2. P!WaitsForConsent(c) BY <1>2, <2>2 DEF P!WaitsForConsent
    <3>3. ids[s] # None BY <2>2, <3>2 DEF RequestOK
    <3> QED BY <3>1, <3>3
  <2>3. CASE ~(c.step_status[s] = "blocked" /\ c.paused_reason = "waiting_consent"
             /\ c.paused_step_id = s)
    <3>1. st[s] = CASE c.step_status[s] = "degraded" -> "done"
                    [] c.step_status[s] = "cancelled" -> "skipped"
                    [] OTHER -> c.step_status[s]
      BY <2>3
    <3> HIDE DEF st
    <3> QED BY <2>1, <3>1 DEF P!StepStatus, ShownDone
  <2> QED BY <2>2, <2>3
<1>5. st \in [ManualSteps -> P!StepStatus \cup {"consent"}] BY <1>4
<1>6. plan = [status |-> IF c.status = "failed" THEN "paused" ELSE c.status, steps |-> st,
              consent_request_id |-> ids]
  BY DEF _manual_plan_projection
<1> HIDE DEF st, ids, plan
<1>7. /\ plan \in PlanRow /\ row \in PlanRow /\ plan.steps = st /\ row.steps = st
      /\ plan.consent_request_id = ids /\ row.consent_request_id = ids
      /\ plan.status = (IF c.status = "failed" THEN "paused" ELSE c.status)
  BY <1>2, <1>3, <1>5, <1>6 DEF PlanRow, P!PlanStatus
<1> HIDE DEF row
<1>8. Answerable(plan) /\ Answerable(row) BY <1>4, <1>7 DEF Answerable
<1>9. (\A s \in ManualSteps : plan.steps[s] = "done") => AllShownDone(c)
  BY <1>4, <1>7 DEF AllShownDone
<1> QED BY <1>7, <1>8, <1>9 DEF row, plan

\* A thread's step, from what it does to its own call and to what is shared.
LEMMA CallStep ==
    ASSUME ManualInv, NEW r \in PlanRequests, NEW k \in PlanCall,
           plan_calls' = [plan_calls EXCEPT ![r] = k],
           IF k.at = "none" THEN k = NoPlanCall ELSE KeptIn(k.copy, conversation'),
           snapshot' # NoManualPlan, KeptIn(snapshot', conversation'),
           plan_row' \in PlanRow \cup {NoManualPlan}, Answerable(plan_row'),
           plan_consents' \in [ManualSteps -> {"none", "pending", "allowed", "denied"}],
           conversation' \in [goal : Nat, reply : Nat],
           conversation'.goal >= conversation.goal, conversation'.reply >= conversation.reply,
           manual_calls' \in 0..MaxManualCalls, entangled' \in BOOLEAN,
           ~entangled' =>
              /\ ~entangled /\ \A q \in PlanRequests \ {r} : plan_calls[q].at = "none"
              /\ AloneIn(k, snapshot', plan_row', conversation')
              /\ conversation'.goal <= 1 /\ conversation'.reply <= 1
              /\ conversation'.reply = 1 => snapshot'.reply \/ k.at = "reply_id"
              /\ k.at = "none" => RowShows(plan_row', snapshot'.context)
    PROVE  ManualInv'
<1>1. /\ plan_calls \in [PlanRequests -> PlanCall]
      /\ \A q \in PlanRequests : IF plan_calls[q].at = "none" THEN plan_calls[q] = NoPlanCall
                                 ELSE KeptIn(plan_calls[q].copy, conversation)
      /\ conversation \in [goal : Nat, reply : Nat]
  BY DEF ManualInv, ManualTypeOK, PlanCall, CallsOK
<1>2. plan_calls' \in [PlanRequests -> PlanCall] /\ plan_calls'[r] = k
      /\ \A q \in PlanRequests \ {r} : plan_calls'[q] = plan_calls[q]
  BY <1>1
<1>3. ManualTypeOK' BY <1>2 DEF ManualTypeOK, PlanCall, KeptIn
<1>4. \A copy : KeptIn(copy, conversation) => KeptIn(copy, conversation')
  BY <1>1 DEF KeptIn
<1>5. CallsOK'
  <2>1. ASSUME NEW q \in PlanRequests
        PROVE  IF plan_calls'[q].at = "none" THEN plan_calls'[q] = NoPlanCall
               ELSE KeptIn(plan_calls'[q].copy, conversation')
    BY <1>1, <1>2, <1>4
  <2> QED BY <2>1 DEF CallsOK
<1>6. ConsentIsAnswerable' BY DEF ConsentIsAnswerable, Answerable
<1>7. OrderlyOK'
  <2> SUFFICES ASSUME ~entangled' PROVE OrderlyOK' BY DEF OrderlyOK
  <2>1. \A q \in PlanRequests \ {r} : plan_calls'[q].at = "none" BY <1>2
  <2>2. \A q, s \in PlanRequests : plan_calls'[q].at = "none" \/ plan_calls'[s].at = "none" \/ q = s
    BY <2>1
  <2>3. ASSUME NEW q \in PlanRequests
        PROVE  AloneIn(plan_calls'[q], snapshot', plan_row', conversation')
    <3>1. CASE q = r BY <1>2, <3>1
    <3>2. CASE q # r BY <2>1, <3>2 DEF AloneIn
    <3> QED BY <3>1, <3>2
  <2>4. Quiet' => RowShows(plan_row', snapshot'.context)
    <3>1. Quiet' => k.at = "none" BY <1>2 DEF Quiet, NoPlanCall
    <3> QED BY <3>1
  <2> QED BY <1>2, <2>2, <2>3, <2>4 DEF OrderlyOK
<1> QED BY <1>3, <1>5, <1>6, <1>7 DEF ManualInv

\* What the invariant says of a call that begins ...
LEMMA CallMayBegin ==
    ASSUME ManualInv, NEW r \in PlanRequests, CallBegins(r)
    PROVE  /\ plan_calls[r] = NoPlanCall
           /\ manual_calls' \in 0..MaxManualCalls /\ entangled' \in BOOLEAN
           /\ ~entangled' => ~entangled /\ Quiet /\ \A q \in PlanRequests : plan_calls[q].at = "none"
<1>1. manual_calls \in 0..MaxManualCalls /\ MaxManualCalls \in Nat /\ entangled \in BOOLEAN
  BY ManualAssumption DEF ManualInv, ManualTypeOK
<1>2. plan_calls[r] = NoPlanCall BY DEF CallBegins, PlanCallAt, ManualInv, CallsOK
<1>3. manual_calls' \in 0..MaxManualCalls BY <1>1 DEF CallBegins
<1>4. entangled' = (entangled \/ \E q \in PlanRequests : plan_calls[q] # NoPlanCall)
  BY DEF CallBegins
<1>5. ~entangled' => ~entangled /\ Quiet BY <1>4 DEF Quiet
<1>6. Quiet => \A q \in PlanRequests : plan_calls[q].at = "none" BY DEF Quiet, NoPlanCall
<1> QED BY <1>1, <1>2, <1>3, <1>4, <1>5, <1>6

\* ... and of one that is under way.
LEMMA CallUnderWay ==
    ASSUME ManualInv, NEW r \in PlanRequests, plan_calls[r].at # "none", CallContinues
    PROVE  /\ plan_calls[r] \in PlanCall /\ KeptIn(plan_calls[r].copy, conversation)
           /\ snapshot # NoManualPlan /\ KeptIn(snapshot, conversation)
           /\ manual_calls' \in 0..MaxManualCalls /\ entangled' \in BOOLEAN
           /\ ~entangled' =>
                /\ ~entangled /\ \A q \in PlanRequests \ {r} : plan_calls[q].at = "none"
                /\ AloneIn(plan_calls[r], snapshot, plan_row, conversation)
                /\ conversation.goal <= 1 /\ conversation.reply <= 1
                /\ conversation.reply = 1 => snapshot.reply \/ plan_calls[r].at = "reply_id"
<1>1. plan_calls \in [PlanRequests -> PlanCall] BY DEF ManualInv, ManualTypeOK, PlanCall
<1>2. KeptIn(plan_calls[r].copy, conversation) BY DEF ManualInv, CallsOK
<1>3. snapshot # NoManualPlan
  <2>1. plan_calls[r] # NoPlanCall BY DEF NoPlanCall
  <2> QED BY <2>1 DEF ManualInv, CallsOK, Quiet
<1>4. KeptIn(snapshot, conversation) BY <1>3 DEF ManualInv, CallsOK
<1>5. manual_calls' \in 0..MaxManualCalls /\ entangled' \in BOOLEAN /\ entangled' = entangled
  BY DEF CallContinues, ManualInv, ManualTypeOK
<1>6. ~entangled => /\ \A q \in PlanRequests \ {r} : plan_calls[q].at = "none"
                    /\ AloneIn(plan_calls[r], snapshot, plan_row, conversation)
                    /\ conversation.goal <= 1 /\ conversation.reply <= 1
  BY DEF ManualInv, OrderlyOK
<1>7. ~entangled /\ conversation.reply = 1 => snapshot.reply \/ plan_calls[r].at = "reply_id"
  <2> SUFFICES ASSUME ~entangled, conversation.reply = 1
               PROVE  snapshot.reply \/ plan_calls[r].at = "reply_id"
    OBVIOUS
  <2>1. snapshot.reply \/ \E q \in PlanRequests : plan_calls[q].at = "reply_id"
    BY DEF ManualInv, OrderlyOK
  <2> QED BY <1>6, <2>1
<1> QED BY <1>1, <1>2, <1>3, <1>4, <1>5, <1>6, <1>7

\* What every call finds.
LEMMA Shared ==
    ASSUME ManualInv
    PROVE  /\ plan_row \in PlanRow \cup {NoManualPlan} /\ Answerable(plan_row)
           /\ plan_consents \in [ManualSteps -> {"none", "pending", "allowed", "denied"}]
           /\ conversation \in [goal : Nat, reply : Nat]
           /\ conversation.goal \in Nat /\ conversation.reply \in Nat
           /\ snapshot # NoManualPlan => KeptIn(snapshot, conversation)
           /\ NoPlanCall \in PlanCall /\ NoPlanCall.at = "none"
           /\ ~entangled => conversation.goal <= 1 /\ conversation.reply <= 1
           /\ ~entangled /\ Quiet /\ snapshot # NoManualPlan =>
                 /\ RowShows(plan_row, snapshot.context)
                 /\ conversation.reply = 1 => snapshot.reply
<1>1. ~entangled /\ Quiet /\ snapshot # NoManualPlan =>
                 /\ RowShows(plan_row, snapshot.context)
                 /\ conversation.reply = 1 => snapshot.reply
  BY DEF ManualInv, OrderlyOK, Quiet, NoPlanCall
<1>2. NoPlanCall \in PlanCall /\ NoPlanCall.at = "none" BY DEF NoPlanCall, PlanCall
<1>3. /\ plan_row \in PlanRow \cup {NoManualPlan} /\ Answerable(plan_row)
      /\ plan_consents \in [ManualSteps -> {"none", "pending", "allowed", "denied"}]
      /\ conversation \in [goal : Nat, reply : Nat]
      /\ conversation.goal \in Nat /\ conversation.reply \in Nat
  BY DEF ManualInv, ManualTypeOK, ConsentIsAnswerable, Answerable
<1> QED BY <1>1, <1>2, <1>3 DEF ManualInv, CallsOK, OrderlyOK

\* A copy with another context.
LEMMA WithContextKept ==
    ASSUME NEW copy, NEW conv, KeptIn(copy, conv), NEW c, Between(c), RequestOK(c)
    PROVE  KeptIn(WithContext(copy, c), conv) /\ WithContext(copy, c) \in PlanCopy
           /\ WithContext(copy, c).context = c /\ WithContext(copy, c).reply = copy.reply
           /\ WithContext(copy, c) # NoManualPlan
<1>1. copy \in PlanCopy /\ c \in ManualContext BY DEF KeptIn, Between
<1>2. /\ WithContext(copy, c) \in PlanCopy /\ WithContext(copy, c).context = c
      /\ WithContext(copy, c).goal = copy.goal /\ WithContext(copy, c).reply = copy.reply
  BY <1>1 DEF WithContext, PlanCopy
<1> QED BY <1>2, ManualAssumption DEF KeptIn

\* A call that has begun and saved its copy goes on to the rows, or to the reply that
\* precedes their deletion.
LEMMA SavedCall ==
    ASSUME ManualInv, NEW r \in PlanRequests, NEW copy, KeptIn(copy, conversation),
           copy # NoManualPlan, NEW place, NEW next,
           <<place, next>> \in {<<"row", "return">>, <<"row", "reply">>, <<"reply", "delete">>},
           snapshot' = copy, CallGoesOn(r, place, copy, next),
           plan_consents' \in [ManualSteps -> {"none", "pending", "allowed", "denied"}],
           UNCHANGED <<plan_row, conversation>>,
           manual_calls' \in 0..MaxManualCalls, entangled' \in BOOLEAN,
           ~entangled' =>
              /\ ~entangled /\ \A q \in PlanRequests \ {r} : plan_calls[q].at = "none"
              /\ conversation.reply = 1 => copy.reply
    PROVE  ManualInv'
<1> DEFINE k == [at |-> place, copy |-> copy, then |-> next]
<1>1. k \in PlanCall /\ k.at = place /\ k.copy = copy /\ place \in {"row", "reply"}
      /\ (place = "reply" => k.then = "delete")
  BY DEF PlanCall, KeptIn
<1>2. plan_calls' = [plan_calls EXCEPT ![r] = k] BY DEF CallGoesOn
<1> HIDE DEF k
<1>3. AloneIn(k, snapshot', plan_row', conversation') BY <1>1 DEF AloneIn
<1>4. IF k.at = "none" THEN k = NoPlanCall ELSE KeptIn(k.copy, conversation') BY <1>1
<1>5. /\ plan_row' \in PlanRow \cup {NoManualPlan} /\ Answerable(plan_row')
      /\ conversation' \in [goal : Nat, reply : Nat]
      /\ conversation'.goal >= conversation.goal /\ conversation'.reply >= conversation.reply
  BY Shared
<1>6. snapshot' # NoManualPlan /\ KeptIn(snapshot', conversation') OBVIOUS
<1>7. ~entangled' =>
        /\ ~entangled /\ \A q \in PlanRequests \ {r} : plan_calls[q].at = "none"
        /\ AloneIn(k, snapshot', plan_row', conversation')
        /\ conversation'.goal <= 1 /\ conversation'.reply <= 1
        /\ conversation'.reply = 1 => snapshot'.reply \/ k.at = "reply_id"
        /\ k.at = "none" => RowShows(plan_row', snapshot'.context)
  BY <1>1, <1>3, Shared
<1> QED BY <1>1, <1>2, <1>4, <1>5, <1>6, <1>7, CallStep

\* Requests that have just begun.
LEMMA BeginnersStep ==
    ASSUME ManualInv, NEW r \in PlanRequests,
           decompose_plan(r) \/ plan_status(r) \/ LoadPlanContext(r) \/ PausePlan(r)
             \/ ResumePlan(r) \/ CancelPlan(r) \/ decide_plan_consent(r)
    PROVE  ManualInv'
<1>0. CallBegins(r)
  BY DEF decompose_plan, plan_status, LoadPlanContext, PausePlan, ResumePlan, CancelPlan,
     decide_plan_consent
<1>a. /\ plan_calls[r] = NoPlanCall
      /\ manual_calls' \in 0..MaxManualCalls /\ entangled' \in BOOLEAN
      /\ ~entangled' => ~entangled /\ Quiet /\ \A q \in PlanRequests : plan_calls[q].at = "none"
  BY <1>0, CallMayBegin
<1>b. /\ plan_row \in PlanRow \cup {NoManualPlan} /\ Answerable(plan_row)
      /\ plan_consents \in [ManualSteps -> {"none", "pending", "allowed", "denied"}]
      /\ conversation \in [goal : Nat, reply : Nat]
      /\ conversation.goal \in Nat /\ conversation.reply \in Nat
      /\ snapshot # NoManualPlan => KeptIn(snapshot, conversation)
      /\ NoPlanCall \in PlanCall /\ NoPlanCall.at = "none"
      /\ ~entangled => conversation.goal <= 1 /\ conversation.reply <= 1
      /\ ~entangled /\ Quiet /\ snapshot # NoManualPlan =>
            /\ RowShows(plan_row, snapshot.context)
            /\ conversation.reply = 1 => snapshot.reply
  BY Shared
<1>1. CASE decompose_plan(r)
  <2> DEFINE copy == [context |-> P!CreatedContext, goal |-> FALSE, reply |-> FALSE]
             k == [at |-> "created", copy |-> copy, then |-> "return"]
  <2>1. snapshot = NoManualPlan /\ snapshot' = copy /\ CallGoesOn(r, "created", copy, "return")
        /\ UNCHANGED <<plan_row, plan_consents, conversation>>
    BY <1>1 DEF decompose_plan
  <2>2. plan_row = NoManualPlan /\ conversation.goal = 0 /\ conversation.reply = 0
    BY <2>1 DEF ManualInv, CallsOK
  <2>3. Between(P!CreatedContext) /\ RequestOK(P!CreatedContext)
    <3>1. /\ P!CreatedContext \in ManualContext /\ P!CreatedContext.paused_step_id = None
          /\ P!CreatedContext.paused_reason = "none"
          /\ \A s \in ManualSteps : P!CreatedContext.step_status[s] = "pending"
          /\ P!CreatedContext.status = "pending"
      BY DEF P!CreatedContext, ManualContext, P!PlanStatus, P!StepStatus, P!PausedReason, P!Verdict
    <3>2. EndsOK(P!CreatedContext)
      <4>1. PICK s : s \in ManualSteps BY ManualAssumption
      <4> QED BY <3>1, <4>1 DEF EndsOK, AllShownDone, ShownDone
    <3> QED BY <3>1, <3>2 DEF Between, HeldOK, RequestOK, P!WaitsForConsent
  <2>4. copy \in PlanCopy /\ KeptIn(copy, conversation) BY <2>3 DEF KeptIn, PlanCopy, Between
  <2>5. copy # NoManualPlan BY <2>4, ManualAssumption
  <2>6. k \in PlanCall /\ k.at = "created" /\ k.copy = copy /\ ~copy.reply BY <2>4 DEF PlanCall
  <2>7. plan_calls' = [plan_calls EXCEPT ![r] = k] BY <2>1 DEF CallGoesOn
  <2> HIDE DEF copy, k
  <2>8. AloneIn(k, snapshot', plan_row', conversation') BY <2>1, <2>2, <2>6 DEF AloneIn
  <2>a. /\ plan_row' \in PlanRow \cup {NoManualPlan} /\ Answerable(plan_row')
        /\ plan_consents' \in [ManualSteps -> {"none", "pending", "allowed", "denied"}]
        /\ conversation' \in [goal : Nat, reply : Nat]
        /\ conversation'.goal >= conversation.goal /\ conversation'.reply >= conversation.reply
        /\ snapshot' # NoManualPlan /\ KeptIn(snapshot', conversation')
        /\ IF k.at = "none" THEN k = NoPlanCall ELSE KeptIn(k.copy, conversation')
    BY <1>a, <1>b, <2>1, <2>2, <2>4, <2>5, <2>6, <2>8
  <2>b. ~entangled' =>
          /\ ~entangled /\ \A q \in PlanRequests \ {r} : plan_calls[q].at = "none"
          /\ AloneIn(k, snapshot', plan_row', conversation')
          /\ conversation'.goal <= 1 /\ conversation'.reply <= 1
          /\ conversation'.reply = 1 => snapshot'.reply \/ k.at = "reply_id"
          /\ k.at = "none" => RowShows(plan_row', snapshot'.context)
    BY <1>a, <1>b, <2>1, <2>2, <2>4, <2>5, <2>6, <2>8
  <2> QED BY <1>a, <2>6, <2>7, <2>a, <2>b, CallStep
<1>2. CASE plan_status(r) \/ LoadPlanContext(r)
  <2>1. PICK at \in {"row", "execute"} :
          /\ snapshot # NoManualPlan /\ CallGoesOn(r, at, snapshot, "return")
          /\ UNCHANGED <<snapshot, plan_row, plan_consents, conversation>>
    BY <1>2 DEF plan_status, LoadPlanContext
  <2> DEFINE k == [at |-> at, copy |-> snapshot, then |-> "return"]
  <2>2. KeptIn(snapshot, conversation) BY <1>b, <2>1
  <2>3. k \in PlanCall /\ k.at \in {"row", "execute"} /\ k.copy = snapshot BY <2>2 DEF PlanCall, KeptIn
  <2>4. plan_calls' = [plan_calls EXCEPT ![r] = k] BY <2>1 DEF CallGoesOn
  <2> HIDE DEF k
  <2>5. ~entangled' => AloneIn(k, snapshot', plan_row', conversation')
    BY <1>a, <1>b, <2>1, <2>3 DEF AloneIn
  <2>a. /\ plan_row' \in PlanRow \cup {NoManualPlan} /\ Answerable(plan_row')
        /\ plan_consents' \in [ManualSteps -> {"none", "pending", "allowed", "denied"}]
        /\ conversation' \in [goal : Nat, reply : Nat]
        /\ conversation'.goal >= conversation.goal /\ conversation'.reply >= conversation.reply
        /\ snapshot' # NoManualPlan /\ KeptIn(snapshot', conversation')
        /\ IF k.at = "none" THEN k = NoPlanCall ELSE KeptIn(k.copy, conversation')
    BY <1>a, <1>b, <2>1, <2>2, <2>3, <2>5
  <2>b. ~entangled' =>
          /\ ~entangled /\ \A q \in PlanRequests \ {r} : plan_calls[q].at = "none"
          /\ AloneIn(k, snapshot', plan_row', conversation')
          /\ conversation'.goal <= 1 /\ conversation'.reply <= 1
          /\ conversation'.reply = 1 => snapshot'.reply \/ k.at = "reply_id"
          /\ k.at = "none" => RowShows(plan_row', snapshot'.context)
    BY <1>a, <1>b, <2>1, <2>2, <2>3, <2>5
  <2> QED BY <1>a, <2>3, <2>4, <2>a, <2>b, CallStep
<1>3. CASE PausePlan(r) \/ ResumePlan(r) \/ CancelPlan(r)
  <2>1. snapshot # NoManualPlan /\ UNCHANGED <<plan_row, plan_consents, conversation>>
    BY <1>3 DEF PausePlan, ResumePlan, CancelPlan
  <2>2. KeptIn(snapshot, conversation) /\ Between(snapshot.context) /\ RequestOK(snapshot.context)
    BY <1>b, <2>1 DEF KeptIn
  <2>3. \E d : /\ Between(d) /\ RequestOK(d)
               /\ snapshot' = WithContext(snapshot, d)
               /\ \/ CallGoesOn(r, "row", WithContext(snapshot, d), "return")
                  \/ CallGoesOn(r, "reply", WithContext(snapshot, d), "delete")
    <3>1. CASE PausePlan(r)
      <4> DEFINE c == snapshot.context
                 d == IF P!is_terminal(c) THEN c
                      ELSE [c EXCEPT !.status = "paused", !.paused_reason = "manual_pause",
                                     !.paused_step_id = None]
      <4>1. Between(d) /\ RequestOK(d) BY <2>2, PausedOK
      <4>2. snapshot' = WithContext(snapshot, d)
            /\ CallGoesOn(r, "row", WithContext(snapshot, d), "return")
        BY <3>1 DEF PausePlan
      <4> QED BY <4>1, <4>2
    <3>2. CASE ResumePlan(r)
      <4> DEFINE c == snapshot.context
                 d == IF P!is_terminal(c) THEN c ELSE Started(c)
      <4>1. Between(d) /\ RequestOK(d)
        BY <2>2, StartedOK DEF P!is_terminal, P!FINAL_PLAN_STATUSES
      <4>2. snapshot' = WithContext(snapshot, d)
            /\ CallGoesOn(r, "row", WithContext(snapshot, d), "return")
        BY <3>2 DEF ResumePlan
      <4> QED BY <4>1, <4>2
    <3>3. CASE CancelPlan(r)
      <4> DEFINE c == snapshot.context
                 open == {s \in ManualSteps : c.step_status[s] \notin P!FINAL_STEP_STATUSES}
                 d == [P!Settle(c, open, "cancelled") EXCEPT !.status = "cancelled"]
      <4>1. Between(d) /\ RequestOK(d) BY <2>2, CancelledOK
      <4>2. snapshot' = WithContext(snapshot, d)
            /\ CallGoesOn(r, "reply", WithContext(snapshot, d), "delete")
        BY <3>3 DEF CancelPlan
      <4> QED BY <4>1, <4>2
    <3> QED BY <1>3, <3>1, <3>2, <3>3
  <2>4. PICK d : /\ Between(d) /\ RequestOK(d)
                 /\ snapshot' = WithContext(snapshot, d)
                 /\ \/ CallGoesOn(r, "row", WithContext(snapshot, d), "return")
                    \/ CallGoesOn(r, "reply", WithContext(snapshot, d), "delete")
    BY <2>3
  <2>5. KeptIn(WithContext(snapshot, d), conversation) /\ WithContext(snapshot, d) # NoManualPlan
        /\ WithContext(snapshot, d).reply = snapshot.reply
    BY <2>2, <2>4, WithContextKept
  <2> QED BY <1>a, <1>b, <2>1, <2>4, <2>5, SavedCall
<1>4. CASE decide_plan_consent(r)
  <2>1. PICK s \in ManualSteps, allowed \in BOOLEAN :
          /\ plan_consents[s] # "none"
          /\ plan_consents' = [plan_consents EXCEPT ![s] = IF allowed THEN "allowed" ELSE "denied"]
          /\ IF allowed THEN UNCHANGED <<snapshot, plan_calls>>
             ELSE LET c == Declined(snapshot.context, s)
                  IN  /\ snapshot' = WithContext(snapshot, c)
                      /\ CallGoesOn(r, "row", WithContext(snapshot, c), "return")
    BY <1>4 DEF decide_plan_consent
  <2>2. UNCHANGED <<plan_row, conversation>> BY <1>4 DEF decide_plan_consent
  <2>3. snapshot # NoManualPlan BY <2>1 DEF ManualInv, CallsOK
  <2>4. KeptIn(snapshot, conversation) /\ Between(snapshot.context) BY <1>b, <2>3 DEF KeptIn
  <2>5. plan_consents' \in [ManualSteps -> {"none", "pending", "allowed", "denied"}] BY <1>b, <2>1
  <2>6. CASE allowed
    <3>1. UNCHANGED <<snapshot, plan_calls>> BY <2>1, <2>6
    <3>2. plan_calls' = [plan_calls EXCEPT ![r] = NoPlanCall]
      <4>1. plan_calls \in [PlanRequests -> PlanCall] BY DEF ManualInv, ManualTypeOK, PlanCall
      <4> QED BY <1>a, <3>1, <4>1
    <3>3. AloneIn(NoPlanCall, snapshot', plan_row', conversation') BY DEF AloneIn, NoPlanCall
    <3>a. /\ plan_row' \in PlanRow \cup {NoManualPlan} /\ Answerable(plan_row')
        /\ plan_consents' \in [ManualSteps -> {"none", "pending", "allowed", "denied"}]
        /\ conversation' \in [goal : Nat, reply : Nat]
        /\ conversation'.goal >= conversation.goal /\ conversation'.reply >= conversation.reply
        /\ snapshot' # NoManualPlan /\ KeptIn(snapshot', conversation')
        /\ IF NoPlanCall.at = "none" THEN NoPlanCall = NoPlanCall ELSE KeptIn(NoPlanCall.copy, conversation')
      BY <1>a, <1>b, <2>2, <2>3, <2>4, <2>5, <3>1, <3>3
    <3>b. ~entangled' =>
          /\ ~entangled /\ \A q \in PlanRequests \ {r} : plan_calls[q].at = "none"
          /\ AloneIn(NoPlanCall, snapshot', plan_row', conversation')
          /\ conversation'.goal <= 1 /\ conversation'.reply <= 1
          /\ conversation'.reply = 1 => snapshot'.reply \/ NoPlanCall.at = "reply_id"
          /\ NoPlanCall.at = "none" => RowShows(plan_row', snapshot'.context)
      BY <1>a, <1>b, <2>2, <2>3, <2>4, <2>5, <3>1, <3>3
    <3> QED BY <1>a, <1>b, <3>2, <3>a, <3>b, CallStep
  <2>7. CASE ~allowed
    <3> DEFINE c == Declined(snapshot.context, s)
               copy == WithContext(snapshot, c)
    <3>1. Between(c) /\ RequestOK(c) BY <2>4, DeclinedOK
    <3>2. KeptIn(copy, conversation) /\ copy # NoManualPlan /\ copy.reply = snapshot.reply
      BY <2>4, <3>1, WithContextKept
    <3>3. snapshot' = copy /\ CallGoesOn(r, "row", copy, "return") BY <2>1, <2>7
    <3> HIDE DEF copy
    <3> QED BY <1>a, <1>b, <2>2, <2>3, <2>5, <3>2, <3>3, SavedCall
  <2> QED BY <2>6, <2>7
<1> QED BY <1>1, <1>2, <1>3, <1>4

\* Calls under way: the rows, the messages, the engine.
LEMMA WorkersStep ==
    ASSUME ManualInv, NEW r \in PlanRequests,
           SaveCreatedRow(r) \/ AppendGoal(r) \/ SaveGoalId(r) \/ SaveRow(r) \/ ExecuteNothing(r)
             \/ AppendReply(r) \/ SaveReplyId(r) \/ delete_plan(r)
    PROVE  ManualInv'
<1> DEFINE at == plan_calls[r].at
           copy == plan_calls[r].copy
<1>0. at # "none" /\ CallContinues
  BY DEF SaveCreatedRow, AppendGoal, SaveGoalId, SaveRow, ExecuteNothing, AppendReply,
     SaveReplyId, delete_plan, PlanCallAt
<1>a. /\ plan_calls[r] \in PlanCall /\ KeptIn(copy, conversation)
      /\ snapshot # NoManualPlan /\ KeptIn(snapshot, conversation)
      /\ manual_calls' \in 0..MaxManualCalls /\ entangled' \in BOOLEAN
      /\ ~entangled' =>
           /\ ~entangled /\ \A q \in PlanRequests \ {r} : plan_calls[q].at = "none"
           /\ AloneIn(plan_calls[r], snapshot, plan_row, conversation)
           /\ conversation.goal <= 1 /\ conversation.reply <= 1
           /\ conversation.reply = 1 => snapshot.reply \/ at = "reply_id"
  BY <1>0, CallUnderWay
<1>b. /\ plan_row \in PlanRow \cup {NoManualPlan} /\ Answerable(plan_row)
      /\ plan_consents \in [ManualSteps -> {"none", "pending", "allowed", "denied"}]
      /\ conversation \in [goal : Nat, reply : Nat]
      /\ conversation.goal \in Nat /\ conversation.reply \in Nat
      /\ NoPlanCall \in PlanCall /\ NoPlanCall.at = "none"
  BY Shared
<1>c. copy \in PlanCopy /\ copy # NoManualPlan /\ Between(copy.context) /\ RequestOK(copy.context)
      /\ snapshot \in PlanCopy
  BY <1>a, ManualAssumption DEF KeptIn
<1>d. ASSUME NEW v \in {"return", "delete"}, NEW place \in {"goal", "reply", "delete", "goal_id", "reply_id"},
             NEW x \in PlanCopy
      PROVE  LET k == [at |-> place, copy |-> x, then |-> v]
             IN  k \in PlanCall /\ k.at = place /\ k.copy = x /\ k.then = v
  BY DEF PlanCall
<1>e. \A s : AloneIn(NoPlanCall, s, plan_row', conversation') BY DEF AloneIn, NoPlanCall
<1>1. CASE SaveCreatedRow(r)
  <2> DEFINE k == [at |-> "goal", copy |-> copy, then |-> "return"]
             plan == _manual_plan_projection(copy.context)
  <2>1. at = "created" /\ plan_row' = plan /\ plan_calls' = [plan_calls EXCEPT ![r] = k]
        /\ UNCHANGED <<snapshot, plan_consents, conversation>>
    BY <1>1 DEF SaveCreatedRow, save_plan, PlanCallAt, CallGoesOn, CopyOf
  <2>2. k \in PlanCall /\ k.at = "goal" /\ k.copy = copy BY <1>c, <1>d
  <2>3. plan \in PlanRow /\ Answerable(plan)
    <3>1. "done" \in P!PlanStatus BY DEF P!PlanStatus
    <3> QED BY <1>c, <3>1, ProjectionOK
  <2> HIDE DEF k
  <2>4. RowShows(plan_row', copy.context) BY <2>1 DEF RowShows
  <2>5. ~entangled' => copy = snapshot /\ conversation.goal = 0 BY <1>a, <2>1 DEF AloneIn
  <2> HIDE DEF plan
  <2>6. ~entangled' => AloneIn(k, snapshot', plan_row', conversation')
    BY <2>1, <2>2, <2>4, <2>5 DEF AloneIn
  <2>a. /\ plan_row' \in PlanRow \cup {NoManualPlan} /\ Answerable(plan_row')
        /\ plan_consents' \in [ManualSteps -> {"none", "pending", "allowed", "denied"}]
        /\ conversation' \in [goal : Nat, reply : Nat]
        /\ conversation'.goal >= conversation.goal /\ conversation'.reply >= conversation.reply
        /\ snapshot' # NoManualPlan /\ KeptIn(snapshot', conversation')
        /\ IF k.at = "none" THEN k = NoPlanCall ELSE KeptIn(k.copy, conversation')
    BY <1>a, <1>b, <2>1, <2>2, <2>3, <2>6
  <2>b. ~entangled' =>
          /\ ~entangled /\ \A q \in PlanRequests \ {r} : plan_calls[q].at = "none"
          /\ AloneIn(k, snapshot', plan_row', conversation')
          /\ conversation'.goal <= 1 /\ conversation'.reply <= 1
          /\ conversation'.reply = 1 => snapshot'.reply \/ k.at = "reply_id"
          /\ k.at = "none" => RowShows(plan_row', snapshot'.context)
    BY <1>a, <1>b, <2>1, <2>2, <2>3, <2>6
  <2> QED BY <1>a, <2>1, <2>2, <2>a, <2>b, CallStep
<1>2. CASE AppendGoal(r)
  <2> DEFINE x == [copy EXCEPT !.goal = TRUE]
             k == [at |-> "goal_id", copy |-> x, then |-> "return"]
  <2>1. at = "goal" /\ conversation' = [conversation EXCEPT !.goal = @ + 1]
        /\ plan_calls' = [plan_calls EXCEPT ![r] = k]
        /\ UNCHANGED <<snapshot, plan_row, plan_consents>>
    BY <1>2 DEF AppendGoal, PlanCallAt, CallGoesOn, CopyOf
  <2>2. /\ conversation' \in [goal : Nat, reply : Nat] /\ conversation'.goal = conversation.goal + 1
        /\ conversation'.reply = conversation.reply
    BY <1>b, <2>1
  <2>3. x \in PlanCopy /\ x.context = copy.context /\ x.reply = copy.reply BY <1>c DEF PlanCopy
  <2>4. KeptIn(x, conversation') /\ KeptIn(snapshot, conversation')
    BY <1>a, <1>b, <1>c, <2>2, <2>3 DEF KeptIn
  <2>5. k \in PlanCall /\ k.at = "goal_id" /\ k.copy = x BY <1>d, <2>3
  <2>6. ~entangled' => copy = snapshot /\ conversation.goal = 0 /\ RowShows(plan_row, snapshot.context)
    BY <1>a, <2>1 DEF AloneIn
  <2> HIDE DEF k
  <2>7. ~entangled' => AloneIn(k, snapshot', plan_row', conversation')
    BY <2>1, <2>5, <2>6 DEF AloneIn
  <2> HIDE DEF x
  <2>a. /\ plan_row' \in PlanRow \cup {NoManualPlan} /\ Answerable(plan_row')
        /\ plan_consents' \in [ManualSteps -> {"none", "pending", "allowed", "denied"}]
        /\ conversation' \in [goal : Nat, reply : Nat]
        /\ conversation'.goal >= conversation.goal /\ conversation'.reply >= conversation.reply
        /\ snapshot' # NoManualPlan /\ KeptIn(snapshot', conversation')
        /\ IF k.at = "none" THEN k = NoPlanCall ELSE KeptIn(k.copy, conversation')
    BY <1>a, <1>b, <2>1, <2>2, <2>4, <2>5, <2>6, <2>7
  <2>b. ~entangled' =>
          /\ ~entangled /\ \A q \in PlanRequests \ {r} : plan_calls[q].at = "none"
          /\ AloneIn(k, snapshot', plan_row', conversation')
          /\ conversation'.goal <= 1 /\ conversation'.reply <= 1
          /\ conversation'.reply = 1 => snapshot'.reply \/ k.at = "reply_id"
          /\ k.at = "none" => RowShows(plan_row', snapshot'.context)
    BY <1>a, <1>b, <2>1, <2>2, <2>4, <2>5, <2>6, <2>7
  <2> QED BY <1>a, <2>1, <2>5, <2>a, <2>b, CallStep
<1>3. CASE SaveGoalId(r)
  <2>1. at = "goal_id" /\ snapshot' = copy /\ plan_calls' = [plan_calls EXCEPT ![r] = NoPlanCall]
        /\ UNCHANGED <<plan_row, plan_consents, conversation>>
    BY <1>3 DEF SaveGoalId, PlanCallAt, PlanCallReturns, CopyOf
  <2>2. ~entangled' => copy.context = snapshot.context /\ copy.reply = snapshot.reply
                       /\ RowShows(plan_row, snapshot.context)
    BY <1>a, <1>c, <2>1 DEF AloneIn, PlanCopy
  <2>a. /\ plan_row' \in PlanRow \cup {NoManualPlan} /\ Answerable(plan_row')
        /\ plan_consents' \in [ManualSteps -> {"none", "pending", "allowed", "denied"}]
        /\ conversation' \in [goal : Nat, reply : Nat]
        /\ conversation'.goal >= conversation.goal /\ conversation'.reply >= conversation.reply
        /\ snapshot' # NoManualPlan /\ KeptIn(snapshot', conversation')
        /\ IF NoPlanCall.at = "none" THEN NoPlanCall = NoPlanCall ELSE KeptIn(NoPlanCall.copy, conversation')
    BY <1>a, <1>b, <1>c, <1>e, <2>1, <2>2
  <2>b. ~entangled' =>
          /\ ~entangled /\ \A q \in PlanRequests \ {r} : plan_calls[q].at = "none"
          /\ AloneIn(NoPlanCall, snapshot', plan_row', conversation')
          /\ conversation'.goal <= 1 /\ conversation'.reply <= 1
          /\ conversation'.reply = 1 => snapshot'.reply \/ NoPlanCall.at = "reply_id"
          /\ NoPlanCall.at = "none" => RowShows(plan_row', snapshot'.context)
    BY <1>a, <1>b, <1>c, <1>e, <2>1, <2>2
  <2> QED BY <1>a, <1>b, <2>1, <2>a, <2>b, CallStep
<1>4. CASE SaveRow(r)
  <2> DEFINE plan == _manual_plan_projection(copy.context)
             k == IF plan_calls[r].then = "reply"
                  THEN [at |-> "reply", copy |-> copy, then |-> "return"] ELSE NoPlanCall
  <2>1. at = "row" /\ plan_row' = plan /\ plan_calls' = [plan_calls EXCEPT ![r] = k]
        /\ UNCHANGED <<snapshot, plan_consents, conversation>>
    BY <1>4 DEF SaveRow, save_plan, PlanCallAt, CallGoesOn, PlanCallReturns, CopyOf
  <2>2. \/ k \in PlanCall /\ k.at = "reply" /\ k.copy = copy /\ k.then = "return"
        \/ k = NoPlanCall
    BY <1>c, <1>d
  <2>3. plan \in PlanRow /\ Answerable(plan)
    <3>1. "done" \in P!PlanStatus BY DEF P!PlanStatus
    <3> QED BY <1>c, <3>1, ProjectionOK
  <2> HIDE DEF k
  <2>4. RowShows(plan_row', copy.context) BY <2>1 DEF RowShows
  <2>5. ~entangled' => copy = snapshot BY <1>a, <2>1 DEF AloneIn
  <2> HIDE DEF plan
  <2>6. ~entangled' => AloneIn(k, snapshot', plan_row', conversation')
    <3>1. CASE k = NoPlanCall BY <1>e, <3>1
    <3>2. CASE k # NoPlanCall BY <2>1, <2>2, <2>4, <2>5, <3>2 DEF AloneIn
    <3> QED BY <3>1, <3>2
  <2>a. /\ plan_row' \in PlanRow \cup {NoManualPlan} /\ Answerable(plan_row')
        /\ plan_consents' \in [ManualSteps -> {"none", "pending", "allowed", "denied"}]
        /\ conversation' \in [goal : Nat, reply : Nat]
        /\ conversation'.goal >= conversation.goal /\ conversation'.reply >= conversation.reply
        /\ snapshot' # NoManualPlan /\ KeptIn(snapshot', conversation')
        /\ IF k.at = "none" THEN k = NoPlanCall ELSE KeptIn(k.copy, conversation')
    BY <1>a, <1>b, <2>1, <2>2, <2>3, <2>4, <2>5, <2>6
  <2>b. ~entangled' =>
          /\ ~entangled /\ \A q \in PlanRequests \ {r} : plan_calls[q].at = "none"
          /\ AloneIn(k, snapshot', plan_row', conversation')
          /\ conversation'.goal <= 1 /\ conversation'.reply <= 1
          /\ conversation'.reply = 1 => snapshot'.reply \/ k.at = "reply_id"
          /\ k.at = "none" => RowShows(plan_row', snapshot'.context)
    BY <1>a, <1>b, <2>1, <2>2, <2>3, <2>4, <2>5, <2>6
  <2> QED BY <1>a, <1>b, <2>1, <2>2, <2>a, <2>b, CallStep
<1>5. CASE ExecuteNothing(r)
  <2> DEFINE plan == _manual_plan_projection(copy.context)
             done == \A s \in ManualSteps : plan.steps[s] = "done"
             v == IF done THEN "done" ELSE plan.status
             row == [plan EXCEPT !.status = v]
             k == [at |-> "reply", copy |-> copy, then |-> "return"]
  <2>1. at = "execute" /\ plan_row' = [plan EXCEPT !.status = IF done THEN "done" ELSE @]
        /\ plan_calls' = [plan_calls EXCEPT ![r] = k]
        /\ UNCHANGED <<snapshot, plan_consents, conversation>>
    BY <1>5 DEF ExecuteNothing, save_plan, PlanCallAt, CallGoesOn, CopyOf
  <2>2. k \in PlanCall /\ k.at = "reply" /\ k.copy = copy BY <1>c, <1>d
  <2>3. "done" \in P!PlanStatus BY DEF P!PlanStatus
  <2>4. /\ plan \in PlanRow /\ plan.status = (IF copy.context.status = "failed" THEN "paused" ELSE copy.context.status)
        /\ done => AllShownDone(copy.context)
    BY <1>c, <2>3, ProjectionOK
  <2>5. v \in P!PlanStatus BY <2>3, <2>4 DEF PlanRow
  <2>6. row \in PlanRow /\ Answerable(row) BY <1>c, <2>5, ProjectionOK
  <2>7. plan_row' = row BY <2>1
  <2>8. row = plan \/ (plan.status = "cancelled" /\ row = [plan EXCEPT !.status = "done"])
    <3>0. v = plan.status => row = plan
      <4> HIDE DEF plan, v
      <4> QED BY <2>4 DEF PlanRow
    <3>1. CASE ~done BY <3>0, <3>1
    <3>2. CASE done
      <4>1. copy.context.status \in {"done", "cancelled"} BY <1>c, <2>4, <3>2 DEF Between, EndsOK
      <4>2. plan.status \in {"done", "cancelled"} BY <2>4, <4>1
      <4>3. v = "done" BY <3>2
      <4> QED BY <3>0, <4>2, <4>3
    <3> QED BY <3>1, <3>2
  <2>9. RowShows(plan_row', copy.context) BY <2>7, <2>8 DEF RowShows
  <2>10. ~entangled' => copy = snapshot BY <1>a, <2>1 DEF AloneIn
  <2> HIDE DEF plan, row, k
  <2>11. ~entangled' => AloneIn(k, snapshot', plan_row', conversation')
    BY <2>1, <2>2, <2>9, <2>10 DEF AloneIn
  <2>a. /\ plan_row' \in PlanRow \cup {NoManualPlan} /\ Answerable(plan_row')
        /\ plan_consents' \in [ManualSteps -> {"none", "pending", "allowed", "denied"}]
        /\ conversation' \in [goal : Nat, reply : Nat]
        /\ conversation'.goal >= conversation.goal /\ conversation'.reply >= conversation.reply
        /\ snapshot' # NoManualPlan /\ KeptIn(snapshot', conversation')
        /\ IF k.at = "none" THEN k = NoPlanCall ELSE KeptIn(k.copy, conversation')
    BY <1>a, <1>b, <2>1, <2>2, <2>6, <2>7, <2>10, <2>11
  <2>b. ~entangled' =>
          /\ ~entangled /\ \A q \in PlanRequests \ {r} : plan_calls[q].at = "none"
          /\ AloneIn(k, snapshot', plan_row', conversation')
          /\ conversation'.goal <= 1 /\ conversation'.reply <= 1
          /\ conversation'.reply = 1 => snapshot'.reply \/ k.at = "reply_id"
          /\ k.at = "none" => RowShows(plan_row', snapshot'.context)
    BY <1>a, <1>b, <2>1, <2>2, <2>6, <2>7, <2>10, <2>11
  <2> QED BY <1>a, <2>1, <2>2, <2>a, <2>b, CallStep
<1>6. CASE AppendReply(r) /\ (copy.reply \/ ~HasFinalReply(copy.context))
  <2> DEFINE k == IF plan_calls[r].then = "delete"
                  THEN [at |-> "delete", copy |-> copy, then |-> "return"] ELSE NoPlanCall
  <2>1. at = "reply" /\ plan_calls' = [plan_calls EXCEPT ![r] = k]
        /\ UNCHANGED <<snapshot, plan_row, plan_consents, conversation>>
    BY <1>6 DEF AppendReply, AfterReply, PlanCallAt, CallGoesOn, PlanCallReturns, CopyOf
  <2>2. \/ k \in PlanCall /\ k.at = "delete" /\ k.copy = copy
        \/ k = NoPlanCall /\ plan_calls[r].then # "delete"
    BY <1>c, <1>d
  <2>3. ~entangled' => copy = snapshot /\ (plan_calls[r].then # "delete" => RowShows(plan_row, snapshot.context))
    BY <1>a, <2>1 DEF AloneIn
  <2> HIDE DEF k
  <2>4. ~entangled' => AloneIn(k, snapshot', plan_row', conversation')
    <3>1. CASE k = NoPlanCall BY <1>e, <3>1
    <3>2. CASE k # NoPlanCall BY <2>1, <2>2, <2>3, <3>2 DEF AloneIn
    <3> QED BY <3>1, <3>2
  <2>a. /\ plan_row' \in PlanRow \cup {NoManualPlan} /\ Answerable(plan_row')
        /\ plan_consents' \in [ManualSteps -> {"none", "pending", "allowed", "denied"}]
        /\ conversation' \in [goal : Nat, reply : Nat]
        /\ conversation'.goal >= conversation.goal /\ conversation'.reply >= conversation.reply
        /\ snapshot' # NoManualPlan /\ KeptIn(snapshot', conversation')
        /\ IF k.at = "none" THEN k = NoPlanCall ELSE KeptIn(k.copy, conversation')
    BY <1>a, <1>b, <2>1, <2>2, <2>3, <2>4
  <2>b. ~entangled' =>
          /\ ~entangled /\ \A q \in PlanRequests \ {r} : plan_calls[q].at = "none"
          /\ AloneIn(k, snapshot', plan_row', conversation')
          /\ conversation'.goal <= 1 /\ conversation'.reply <= 1
          /\ conversation'.reply = 1 => snapshot'.reply \/ k.at = "reply_id"
          /\ k.at = "none" => RowShows(plan_row', snapshot'.context)
    BY <1>a, <1>b, <2>1, <2>2, <2>3, <2>4
  <2> QED BY <1>a, <1>b, <2>1, <2>2, <2>a, <2>b, CallStep
<1>7. CASE AppendReply(r) /\ ~(copy.reply \/ ~HasFinalReply(copy.context))
  <2> DEFINE x == [copy EXCEPT !.reply = TRUE]
             k == [at |-> "reply_id", copy |-> x, then |-> plan_calls[r].then]
  <2>1. at = "reply" /\ conversation' = [conversation EXCEPT !.reply = @ + 1]
        /\ plan_calls' = [plan_calls EXCEPT ![r] = k]
        /\ UNCHANGED <<snapshot, plan_row, plan_consents>>
    BY <1>7 DEF AppendReply, PlanCallAt, CallGoesOn, CopyOf
  <2>2. /\ conversation' \in [goal : Nat, reply : Nat] /\ conversation'.goal = conversation.goal
        /\ conversation'.reply = conversation.reply + 1
    BY <1>b, <2>1
  <2>3. x \in PlanCopy /\ x.context = copy.context /\ x.goal = copy.goal BY <1>c DEF PlanCopy
  <2>4. KeptIn(x, conversation') /\ KeptIn(snapshot, conversation')
    BY <1>a, <1>b, <1>c, <2>2, <2>3 DEF KeptIn
  <2>5. k \in PlanCall /\ k.at = "reply_id" /\ k.copy = x /\ k.then = plan_calls[r].then
    BY <1>a, <2>3 DEF PlanCall
  <2>6. ~entangled' => /\ copy = snapshot /\ conversation.reply = 0
                       /\ plan_calls[r].then # "delete" => RowShows(plan_row, snapshot.context)
    <3>1. ~entangled' => copy = snapshot BY <1>a, <2>1 DEF AloneIn
    <3>2. ~entangled' => conversation.reply # 1 BY <1>7, <1>a, <2>1, <3>1
    <3>3. ~entangled' => (plan_calls[r].then # "delete" => RowShows(plan_row, snapshot.context))
      BY <1>a, <2>1 DEF AloneIn
    <3> QED BY <1>a, <1>b, <3>1, <3>2, <3>3
  <2> HIDE DEF k
  <2>7. ~entangled' => AloneIn(k, snapshot', plan_row', conversation')
    BY <2>1, <2>5, <2>6 DEF AloneIn
  <2> HIDE DEF x
  <2>a. /\ plan_row' \in PlanRow \cup {NoManualPlan} /\ Answerable(plan_row')
        /\ plan_consents' \in [ManualSteps -> {"none", "pending", "allowed", "denied"}]
        /\ conversation' \in [goal : Nat, reply : Nat]
        /\ conversation'.goal >= conversation.goal /\ conversation'.reply >= conversation.reply
        /\ snapshot' # NoManualPlan /\ KeptIn(snapshot', conversation')
        /\ IF k.at = "none" THEN k = NoPlanCall ELSE KeptIn(k.copy, conversation')
    BY <1>a, <1>b, <2>1, <2>2, <2>4, <2>5, <2>6, <2>7
  <2>b. ~entangled' =>
          /\ ~entangled /\ \A q \in PlanRequests \ {r} : plan_calls[q].at = "none"
          /\ AloneIn(k, snapshot', plan_row', conversation')
          /\ conversation'.goal <= 1 /\ conversation'.reply <= 1
          /\ conversation'.reply = 1 => snapshot'.reply \/ k.at = "reply_id"
          /\ k.at = "none" => RowShows(plan_row', snapshot'.context)
    BY <1>a, <1>b, <2>1, <2>2, <2>4, <2>5, <2>6, <2>7
  <2> QED BY <1>a, <2>1, <2>5, <2>a, <2>b, CallStep
<1>8. CASE SaveReplyId(r)
  <2> DEFINE k == IF plan_calls[r].then = "delete"
                  THEN [at |-> "delete", copy |-> copy, then |-> "return"] ELSE NoPlanCall
  <2>1. at = "reply_id" /\ snapshot' = copy /\ plan_calls' = [plan_calls EXCEPT ![r] = k]
        /\ UNCHANGED <<plan_row, plan_consents, conversation>>
    BY <1>8 DEF SaveReplyId, AfterReply, PlanCallAt, CallGoesOn, PlanCallReturns, CopyOf
  <2>2. \/ k \in PlanCall /\ k.at = "delete" /\ k.copy = copy
        \/ k = NoPlanCall /\ plan_calls[r].then # "delete"
    BY <1>c, <1>d
  <2>3. ~entangled' => copy.reply /\ copy.context = snapshot.context
           /\ (plan_calls[r].then # "delete" => RowShows(plan_row, snapshot.context))
    BY <1>a, <1>c, <2>1 DEF AloneIn, PlanCopy
  <2> HIDE DEF k
  <2>4. ~entangled' => AloneIn(k, snapshot', plan_row', conversation')
    <3>1. CASE k = NoPlanCall BY <1>e, <3>1
    <3>2. CASE k # NoPlanCall BY <2>1, <2>2, <2>3, <3>2 DEF AloneIn
    <3> QED BY <3>1, <3>2
  <2>a. /\ plan_row' \in PlanRow \cup {NoManualPlan} /\ Answerable(plan_row')
        /\ plan_consents' \in [ManualSteps -> {"none", "pending", "allowed", "denied"}]
        /\ conversation' \in [goal : Nat, reply : Nat]
        /\ conversation'.goal >= conversation.goal /\ conversation'.reply >= conversation.reply
        /\ snapshot' # NoManualPlan /\ KeptIn(snapshot', conversation')
        /\ IF k.at = "none" THEN k = NoPlanCall ELSE KeptIn(k.copy, conversation')
    BY <1>a, <1>b, <1>c, <2>1, <2>2, <2>3, <2>4
  <2>b. ~entangled' =>
          /\ ~entangled /\ \A q \in PlanRequests \ {r} : plan_calls[q].at = "none"
          /\ AloneIn(k, snapshot', plan_row', conversation')
          /\ conversation'.goal <= 1 /\ conversation'.reply <= 1
          /\ conversation'.reply = 1 => snapshot'.reply \/ k.at = "reply_id"
          /\ k.at = "none" => RowShows(plan_row', snapshot'.context)
    BY <1>a, <1>b, <1>c, <2>1, <2>2, <2>3, <2>4
  <2> QED BY <1>a, <1>b, <2>1, <2>2, <2>a, <2>b, CallStep
<1>9. CASE delete_plan(r)
  <2>1. at = "delete" /\ plan_row' = NoManualPlan /\ plan_calls' = [plan_calls EXCEPT ![r] = NoPlanCall]
        /\ UNCHANGED <<snapshot, plan_consents, conversation>>
    BY <1>9 DEF delete_plan, PlanCallAt, PlanCallReturns
  <2>2. Answerable(plan_row') /\ RowShows(plan_row', snapshot.context)
    BY <2>1 DEF Answerable, RowShows
  <2>a. /\ plan_row' \in PlanRow \cup {NoManualPlan} /\ Answerable(plan_row')
        /\ plan_consents' \in [ManualSteps -> {"none", "pending", "allowed", "denied"}]
        /\ conversation' \in [goal : Nat, reply : Nat]
        /\ conversation'.goal >= conversation.goal /\ conversation'.reply >= conversation.reply
        /\ snapshot' # NoManualPlan /\ KeptIn(snapshot', conversation')
        /\ IF NoPlanCall.at = "none" THEN NoPlanCall = NoPlanCall ELSE KeptIn(NoPlanCall.copy, conversation')
    BY <1>a, <1>b, <1>e, <2>1, <2>2
  <2>b. ~entangled' =>
          /\ ~entangled /\ \A q \in PlanRequests \ {r} : plan_calls[q].at = "none"
          /\ AloneIn(NoPlanCall, snapshot', plan_row', conversation')
          /\ conversation'.goal <= 1 /\ conversation'.reply <= 1
          /\ conversation'.reply = 1 => snapshot'.reply \/ NoPlanCall.at = "reply_id"
          /\ NoPlanCall.at = "none" => RowShows(plan_row', snapshot'.context)
    BY <1>a, <1>b, <1>e, <2>1, <2>2
  <2> QED BY <1>a, <1>b, <2>1, <2>a, <2>b, CallStep
<1> QED BY <1>1, <1>2, <1>3, <1>4, <1>5, <1>6, <1>7, <1>8, <1>9

\* An execute request changes its copy, saves it and goes on to the rows.
LEMMA ExecutorsStep ==
    ASSUME ManualInv, NEW r \in PlanRequests,
           ExecuteDeclined(r) \/ ExecuteAsks(r) \/ ExecuteTimesOut(r) \/ ExecuteStep(r)
    PROVE  ManualInv'
<1> DEFINE copy == plan_calls[r].copy
<1>0. plan_calls[r].at = "execute" /\ CallContinues
  BY DEF ExecuteDeclined, ExecuteAsks, ExecuteTimesOut, ExecuteStep, PlanCallAt
<1>1. /\ KeptIn(copy, conversation) /\ snapshot # NoManualPlan
      /\ manual_calls' \in 0..MaxManualCalls /\ entangled' \in BOOLEAN
      /\ ~entangled' =>
           /\ ~entangled /\ \A q \in PlanRequests \ {r} : plan_calls[q].at = "none"
           /\ AloneIn(plan_calls[r], snapshot, plan_row, conversation)
           /\ conversation.reply = 1 => snapshot.reply
  BY <1>0, CallUnderWay
<1>2. ~entangled' /\ conversation.reply = 1 => copy.reply BY <1>0, <1>1 DEF AloneIn
<1>3. Between(copy.context) BY <1>1 DEF KeptIn
<1>4. plan_consents \in [ManualSteps -> {"none", "pending", "allowed", "denied"}] BY Shared
<1>5. \E d : /\ Between(d) /\ RequestOK(d)
             /\ \/ SaveChanged(r, d, "return") \/ SaveChanged(r, d, "reply")
             /\ plan_consents' \in [ManualSteps -> {"none", "pending", "allowed", "denied"}]
             /\ UNCHANGED <<plan_row, conversation>>
  <2>1. CASE ExecuteDeclined(r)
    BY <1>3, <1>4, <2>1, DeclinedOK DEF ExecuteDeclined, CopyOf
  <2>2. CASE ExecuteTimesOut(r)
    BY <1>3, <1>4, <2>2, TimedOutOK DEF ExecuteTimesOut, CopyOf
  <2>3. CASE ExecuteAsks(r)
    <3>1. PICK s \in NeedsAuth : /\ plan_consents' = [plan_consents EXCEPT ![s] = "pending"]
                                 /\ SaveChanged(r, Asking(copy.context, s), "return")
      BY <2>3 DEF ExecuteAsks, CopyOf
    <3>2. s \in ManualSteps BY ManualAssumption
    <3> QED BY <1>3, <1>4, <2>3, <3>1, <3>2, AskingOK DEF ExecuteAsks
  <2>4. CASE ExecuteStep(r)
    <3>1. PICK c \in UNION {execute_next(d) : d \in EngineInputs(copy.context)} :
            /\ plan_consents' = IF P!NeedsNewRequest(c)
                                THEN [plan_consents EXCEPT ![c.paused_step_id] = "pending"]
                                ELSE plan_consents
            /\ SaveChanged(r, P!prepare_consent_pause(c), "reply")
      BY <2>4 DEF ExecuteStep, CopyOf
    <3>2. PICK d \in EngineInputs(copy.context) : c \in execute_next(d) OBVIOUS
    <3>3. Between(d) BY <1>3, EngineInputOK
    <3>4. Between(c) BY <3>2, <3>3, ExecuteNextOK
    <3>5. Between(P!prepare_consent_pause(c)) /\ RequestOK(P!prepare_consent_pause(c))
      BY <3>4, PreparedOK
    <3>6. P!NeedsNewRequest(c) => c.paused_step_id \in ManualSteps
      BY <3>4, ContextFields DEF Between, P!NeedsNewRequest, P!WaitsForConsent
    <3>7. plan_consents' \in [ManualSteps -> {"none", "pending", "allowed", "denied"}]
      BY <1>4, <3>1, <3>6
    <3> QED BY <2>4, <3>1, <3>5, <3>7 DEF ExecuteStep
  <2> QED BY <2>1, <2>2, <2>3, <2>4
<1>6. PICK d : /\ Between(d) /\ RequestOK(d)
               /\ \/ SaveChanged(r, d, "return") \/ SaveChanged(r, d, "reply")
               /\ plan_consents' \in [ManualSteps -> {"none", "pending", "allowed", "denied"}]
               /\ UNCHANGED <<plan_row, conversation>>
  BY <1>5
<1> DEFINE x == WithContext(copy, d)
<1>7. KeptIn(x, conversation) /\ x # NoManualPlan /\ x.reply = copy.reply
  BY <1>1, <1>6, WithContextKept
<1>8. snapshot' = x /\ (CallGoesOn(r, "row", x, "return") \/ CallGoesOn(r, "row", x, "reply"))
  BY <1>6 DEF SaveChanged, CopyOf
<1> HIDE DEF x
<1> QED BY <1>1, <1>2, <1>6, <1>7, <1>8, SavedCall

LEMMA HostDiesStep == ASSUME ManualInv, HostDies PROVE ManualInv'
<1>1. /\ manual_calls' = manual_calls + 1 /\ manual_calls < MaxManualCalls
      /\ entangled' = (entangled \/ \E r \in PlanRequests : plan_calls[r] # NoPlanCall)
      /\ plan_calls' = [r \in PlanRequests |-> NoPlanCall]
      /\ plan_consents' = [s \in ManualSteps |-> "none"]
      /\ UNCHANGED <<snapshot, plan_row, conversation>>
  BY DEF HostDies
<1>2. NoPlanCall \in PlanCall /\ NoPlanCall.at = "none" BY Shared
<1>3. ManualTypeOK'
  BY <1>1, <1>2, ManualAssumption DEF ManualInv, ManualTypeOK, PlanCall
<1>4. Quiet' /\ \A r \in PlanRequests : plan_calls'[r].at = "none" BY <1>1, <1>2 DEF Quiet
<1>5. CallsOK' BY <1>1, <1>4 DEF ManualInv, CallsOK, Quiet
<1>6. ConsentIsAnswerable' BY <1>1 DEF ManualInv, ConsentIsAnswerable
<1>7. OrderlyOK'
  <2> SUFFICES ASSUME ~entangled' PROVE OrderlyOK' BY DEF OrderlyOK
  <2>1. ~entangled /\ Quiet BY <1>1 DEF Quiet
  <2>2. /\ conversation.goal <= 1 /\ conversation.reply <= 1
        /\ snapshot # NoManualPlan => RowShows(plan_row, snapshot.context)
        /\ conversation.reply = 1 => snapshot.reply
    <3>1. \A r \in PlanRequests : plan_calls[r].at = "none" BY <1>2, <2>1 DEF Quiet
    <3> QED BY <2>1, <3>1 DEF ManualInv, OrderlyOK
  <2>3. \A r \in PlanRequests : AloneIn(plan_calls'[r], snapshot', plan_row', conversation')
    BY <1>4 DEF AloneIn
  <2> QED BY <1>1, <1>4, <2>2, <2>3 DEF OrderlyOK
<1> QED BY <1>3, <1>5, <1>6, <1>7 DEF ManualInv

LEMMA ManualStep == ManualInv /\ [ManualNext]_manualVars => ManualInv'
<1> SUFFICES ASSUME ManualInv, [ManualNext]_manualVars PROVE ManualInv' OBVIOUS
<1>1. CASE HostDies BY <1>1, HostDiesStep
<1>2. CASE UNCHANGED manualVars
  BY <1>2 DEF manualVars, ManualInv, ManualTypeOK, CallsOK, OrderlyOK, ConsentIsAnswerable, Quiet
<1>3. ASSUME NEW r \in PlanRequests,
             \/ decompose_plan(r) \/ SaveCreatedRow(r) \/ AppendGoal(r) \/ SaveGoalId(r)
             \/ plan_status(r) \/ LoadPlanContext(r) \/ ExecuteNothing(r) \/ ExecuteDeclined(r)
             \/ ExecuteAsks(r) \/ ExecuteTimesOut(r) \/ ExecuteStep(r) \/ SaveRow(r)
             \/ AppendReply(r) \/ SaveReplyId(r) \/ PausePlan(r) \/ ResumePlan(r)
             \/ CancelPlan(r) \/ delete_plan(r) \/ decide_plan_consent(r)
      PROVE  ManualInv'
  BY <1>3, BeginnersStep, WorkersStep, ExecutorsStep
<1> QED BY <1>1, <1>2, <1>3 DEF ManualNext

LEMMA ManualStarts == ManualInit => ManualInv
<1> SUFFICES ASSUME ManualInit PROVE ManualInv OBVIOUS
<1>1. /\ snapshot = NoManualPlan /\ plan_row = NoManualPlan
      /\ plan_consents = [s \in ManualSteps |-> "none"]
      /\ conversation = [goal |-> 0, reply |-> 0]
      /\ plan_calls = [r \in PlanRequests |-> NoPlanCall]
      /\ manual_calls = 0 /\ entangled = FALSE
  BY DEF ManualInit
<1>2. NoPlanCall \in PlanCall /\ NoPlanCall.at = "none" BY DEF NoPlanCall, PlanCall
<1>3. ManualTypeOK
  <2>1. conversation \in [goal : Nat, reply : Nat] /\ manual_calls \in 0..MaxManualCalls
    BY <1>1, ManualAssumption
  <2>2. plan_consents \in [ManualSteps -> {"none", "pending", "allowed", "denied"}] BY <1>1
  <2>3. plan_calls \in [PlanRequests -> PlanCall] BY <1>1, <1>2
  <2> QED BY <1>1, <2>1, <2>2, <2>3 DEF ManualTypeOK, PlanCall
<1>4. Quiet /\ \A r \in PlanRequests : plan_calls[r].at = "none" BY <1>1, <1>2 DEF Quiet
<1>5. CallsOK BY <1>1, <1>4 DEF CallsOK, Quiet
<1>6. OrderlyOK BY <1>1, <1>4 DEF OrderlyOK, AloneIn
<1> QED BY <1>1, <1>3, <1>5, <1>6 DEF ManualInv, ConsentIsAnswerable

LEMMA ManualInvIsEnough == ManualInv => ManualTypeOK /\ CardShowsThePlan
<1> SUFFICES ASSUME ManualInv PROVE CardShowsThePlan BY DEF ManualInv
<1>1. MessagesAreKept BY DEF ManualInv, CallsOK, OrderlyOK, KeptIn, MessagesAreKept
<1>2. RowFollowsSnapshot
  <2> SUFFICES ASSUME plan_row # NoManualPlan, ~entangled, Quiet
               PROVE  LET plan == _manual_plan_projection(snapshot.context)
                      IN  \/ plan_row = plan
                          \/ plan.status = "cancelled" /\ plan_row = [plan EXCEPT !.status = "done"]
    BY DEF RowFollowsSnapshot, Quiet
  <2>1. snapshot # NoManualPlan BY DEF ManualInv, CallsOK
  <2>2. RowShows(plan_row, snapshot.context) BY <2>1, Shared
  <2> QED BY <2>2 DEF RowShows
<1> QED BY <1>1, <1>2 DEF ManualInv, CardShowsThePlan

\* CardShowsThePlan for every plan and any number of requests and calls: the messages a
\* snapshot names are there, a step that waits shows its request, and between calls the
\* rows are the snapshot's (_manual_plan_projection, save_plan, _manual_plan_final_reply).
THEOREM CardsAlwaysShow == ManualSpec => [](ManualTypeOK /\ CardShowsThePlan)
BY ManualStarts, ManualStep, ManualInvIsEnough, PTL DEF ManualSpec

(***************************************************************************)
(* The annotation window                                                   *)
(***************************************************************************)

AnnotatedElements == [id : ElementIds, danger : {"none", "soft", "hard"}]
AnnotatedPage == [id : AnnotatedPages, features : SUBSET Words, elements : SUBSET AnnotatedElements]

\* The features of each page are its texts without those that all pages had in common when
\* the features were made; a page that came later has neither texts nor features.
TextsLeft(common, known, shot) ==
    \A i \in DOMAIN known :
        /\ known[i].features = shot[known[i].id] \ common
        /\ shot[known[i].id] # {} => common \subseteq shot[known[i].id]
FeaturesFit(known, shot) == \E common \in SUBSET Words : TextsLeft(common, known, shot)

\* A list of pages with the texts they were annotated from and the transitions between them.
MapFits(known, moves, shot) ==
    /\ known \in Seq(AnnotatedPage)
    /\ shot \in [AnnotatedPages -> SUBSET Words]
    /\ \A t \in moves : {t.from, t.to} \subseteq {known[i].id : i \in DOMAIN known}
    /\ FeaturesFit(known, shot)

\* The session's pages fit, the exported ones did when they were written, and a page that
\* is not there has left no texts.
AnnotationInv ==
    /\ MapFits(pages, transitions, page_texts)
    /\ \A p \in AnnotatedPages : ~HasPage(p) => page_texts[p] = {}
    /\ exporting \in BOOLEAN /\ package.manifest \in BOOLEAN
    /\ annotations \in 0..MaxAnnotations
    /\ exporting => package.manifest
    /\ package.map # NoMap =>
          package.manifest /\ MapFits(package.map.pages, package.map.transitions, package.map.shot)
    /\ package = [manifest |-> package.manifest, map |-> package.map]

LEMMA AnnotatedPageAt ==
    ASSUME NEW known \in Seq(AnnotatedPage), NEW i \in DOMAIN known
    PROVE  /\ known[i] \in AnnotatedPage
           /\ known[i].id \in AnnotatedPages
           /\ known[i].features \subseteq Words /\ IsFiniteSet(known[i].features)
           /\ known[i].elements \subseteq AnnotatedElements
           /\ i \in Nat
<1>1. known[i] \in AnnotatedPage /\ i \in Nat OBVIOUS
<1>2. known[i].features \subseteq Words /\ known[i].id \in AnnotatedPages
      /\ known[i].elements \subseteq AnnotatedElements
  BY <1>1 DEF AnnotatedPage
<1> QED BY <1>1, <1>2, FS_Subset, AnnotationAssumption

-----------------------------------------------------------------------------
(* The page on the screen                                                      *)

\* On a screen that shows all features of a page and not all of any other, that page is
\* the one identify returns.
LEMMA IdentifyNames ==
    ASSUME NEW known \in Seq(AnnotatedPage), NEW on_screen, NEW i \in DOMAIN known,
           known[i].features # {}, known[i].features \subseteq on_screen,
           \A j \in DOMAIN known \ {i} : ~(known[j].features \subseteq on_screen)
    PROVE  identify(known, on_screen) = <<known[i]>>
<1> DEFINE size(j) == Size(known[j])
           hits(j) == Hits(known[j], on_screen)
           reaching == {j \in DOMAIN known : Reaches(known[j], on_screen)}
           best == {j \in reaching : \A k \in reaching : ~Beats(known[k], known[j], on_screen)}
<1>1. ASSUME NEW j \in DOMAIN known
      PROVE  size(j) \in Nat /\ hits(j) \in Nat
             /\ (known[j].features # {} => size(j) > 0)
             /\ (known[j].features \subseteq on_screen => hits(j) = size(j))
             /\ (~(known[j].features \subseteq on_screen) => hits(j) < size(j))
  <2> DEFINE F == known[j].features
             G == known[j].features \cap on_screen
  <2>1. IsFiniteSet(F) /\ G \subseteq F BY AnnotatedPageAt
  <2>2. Cardinality(F) \in Nat /\ (F # {} => Cardinality(F) > 0)
    BY <2>1, FS_CardinalityType, FS_EmptySet
  <2>3. IsFiniteSet(G) /\ Cardinality(G) \in Nat BY <2>1, FS_Subset, FS_CardinalityType
  <2>4. G # F => Cardinality(G) < Cardinality(F)
    BY <2>1, <2>2, <2>3, FS_Subset
  <2>5. (F \subseteq on_screen => G = F) /\ (~(F \subseteq on_screen) => G # F) OBVIOUS
  <2> QED BY <2>2, <2>3, <2>4, <2>5 DEF Size, Hits
<1>2. hits(i) = size(i) /\ size(i) \in Nat /\ size(i) > 0 BY <1>1
<1>3. i \in reaching BY <1>2 DEF Reaches
<1>4. ASSUME NEW j \in DOMAIN known, j # i
      PROVE  Beats(known[i], known[j], on_screen) /\ ~Beats(known[j], known[i], on_screen)
  <2>1. hits(j) \in Nat /\ size(j) \in Nat /\ hits(j) < size(j) BY <1>1, <1>4
  <2>2. ASSUME NEW s \in Nat, NEW h \in Nat, NEW t \in Nat, h < t, s > 0
        PROVE  s * t > h * s /\ ~(h * s > s * t)
    BY <2>2
  <2>3. size(i) * size(j) > hits(j) * size(i) /\ ~(hits(j) * size(i) > size(i) * size(j))
    BY <1>2, <2>1, <2>2
  <2> QED BY <1>2, <2>3 DEF Beats
<1>5. ~Beats(known[i], known[i], on_screen)
  <2>1. ASSUME NEW s \in Nat PROVE ~(s * s > s * s) OBVIOUS
  <2> QED BY <1>2, <2>1 DEF Beats
<1>6. i \in best BY <1>3, <1>4, <1>5
<1>7. \A j \in best : j = i BY <1>3, <1>4
<1>8. i \in Nat OBVIOUS
<1>9. (CHOOSE j \in best : \A k \in best : j <= k) = i BY <1>6, <1>7, <1>8
<1> HIDE DEF best
<1>10. reaching # {} BY <1>3
<1> QED BY <1>9, <1>10 DEF identify, best

\* A map that fits is one that can be used.
LEMMA FittingMapNames ==
    ASSUME NEW known, NEW moves, NEW shot, MapFits(known, moves, shot), NEW i \in DOMAIN known,
           \E j \in DOMAIN known \ {i} : ~(shot[known[i].id] \subseteq shot[known[j].id]),
           \A j \in DOMAIN known \ {i} : ~(shot[known[j].id] \subseteq shot[known[i].id])
    PROVE  identify(known, shot[known[i].id]) = <<known[i]>>
<1> DEFINE text(j) == shot[known[j].id]
<1>1. known \in Seq(AnnotatedPage) BY DEF MapFits
<1>2. PICK common \in SUBSET Words : \A j \in DOMAIN known :
          /\ known[j].features = text(j) \ common
          /\ text(j) # {} => common \subseteq text(j)
  BY DEF MapFits, FeaturesFit, TextsLeft
<1>3. \A j \in DOMAIN known \ {i} : text(j) # {} OBVIOUS
<1>4. PICK j \in DOMAIN known \ {i} : ~(text(i) \subseteq text(j)) OBVIOUS
<1>5. text(i) # {} /\ common \subseteq text(i) BY <1>2, <1>4
<1>6. known[i].features # {}
  <2>1. PICK w \in text(i) : w \notin text(j) BY <1>4
  <2>2. w \notin common BY <1>2, <1>3, <1>4, <2>1
  <2> QED BY <1>2, <2>1, <2>2
<1>7. known[i].features \subseteq text(i) BY <1>2
<1>8. ASSUME NEW k \in DOMAIN known \ {i} PROVE ~(known[k].features \subseteq text(i))
  <2>1. PICK w \in text(k) : w \notin text(i) OBVIOUS
  <2> QED BY <1>2, <1>5, <2>1
<1> HIDE DEF text
<1> QED BY <1>1, <1>6, <1>7, <1>8, IdentifyNames DEF text

LEMMA AnnotationInvIsEnough == AnnotationInv => AnnotationTypeOK /\ MapIsUsable
<1> SUFFICES ASSUME AnnotationInv PROVE AnnotationTypeOK /\ MapIsUsable OBVIOUS
<1>1. AnnotationTypeOK
  BY AnnotatedPageAt DEF AnnotationInv, MapFits, AnnotationTypeOK
<1>2. ASSUME package.map # NoMap PROVE MapIsUsable
  <2> DEFINE map == package.map
  <2>1. package.manifest /\ MapFits(map.pages, map.transitions, map.shot) BY <1>2 DEF AnnotationInv
  <2>2. \A t \in map.transitions : {t.from, t.to} \subseteq {map.pages[i].id : i \in DOMAIN map.pages}
    BY <2>1 DEF MapFits
  <2>3. ASSUME NEW i \in DOMAIN map.pages,
               \E j \in DOMAIN map.pages \ {i} : ~(map.shot[map.pages[i].id] \subseteq map.shot[map.pages[j].id]),
               \A j \in DOMAIN map.pages \ {i} : ~(map.shot[map.pages[j].id] \subseteq map.shot[map.pages[i].id])
        PROVE  identify(map.pages, map.shot[map.pages[i].id]) = <<map.pages[i]>>
    BY <2>1, <2>3, FittingMapNames
  <2> QED BY <2>1, <2>2, <2>3 DEF MapIsUsable
<1>3. package.map = NoMap => MapIsUsable BY DEF MapIsUsable
<1> QED BY <1>1, <1>2, <1>3

-----------------------------------------------------------------------------
(* The session                                                                 *)

LEMMA AnnotationStarts == AnnotationInit => AnnotationInv
<1> SUFFICES ASSUME AnnotationInit PROVE AnnotationInv OBVIOUS
<1>1. /\ pages = <<>> /\ transitions = {} /\ page_texts = [p \in AnnotatedPages |-> {}]
      /\ package = [manifest |-> FALSE, map |-> NoMap] /\ exporting = FALSE /\ annotations = 0
  BY DEF AnnotationInit
<1>2. TextsLeft({}, pages, page_texts) BY <1>1 DEF TextsLeft
<1>3. MapFits(pages, transitions, page_texts)
  BY <1>1, <1>2 DEF MapFits, FeaturesFit
<1>4. package.manifest = FALSE /\ package.map = NoMap BY <1>1
<1>5. 0 \in 0..MaxAnnotations BY AnnotationAssumption
<1>6. \A p \in AnnotatedPages : page_texts[p] = {} BY <1>1
<1> QED BY <1>1, <1>3, <1>4, <1>5, <1>6 DEF AnnotationInv

LEMMA AnnotationStep == AnnotationInv /\ [AnnotationNext]_annotationVars => AnnotationInv'
<1> SUFFICES ASSUME AnnotationInv, [AnnotationNext]_annotationVars PROVE AnnotationInv' OBVIOUS
<1>0. /\ pages \in Seq(AnnotatedPage) /\ page_texts \in [AnnotatedPages -> SUBSET Words]
      /\ MapFits(pages, transitions, page_texts)
      /\ \A p \in AnnotatedPages : ~HasPage(p) => page_texts[p] = {}
      /\ exporting \in BOOLEAN /\ package.manifest \in BOOLEAN
      /\ annotations \in 0..MaxAnnotations /\ MaxAnnotations \in Nat
      /\ (exporting => package.manifest)
      /\ (package.map # NoMap =>
            package.manifest /\ MapFits(package.map.pages, package.map.transitions, package.map.shot))
      /\ package = [manifest |-> package.manifest, map |-> package.map]
  BY AnnotationAssumption DEF AnnotationInv, MapFits
<1>A. Annotates => annotations' \in 0..MaxAnnotations BY <1>0 DEF Annotates
<1>1. ASSUME NEW p \in AnnotatedPages, add_page(p) PROVE AnnotationInv'
  <2> DEFINE new == [id |-> p, features |-> {}, elements |-> {}]
  <2>1. /\ ~HasPage(p) /\ Annotates /\ pages' = Append(pages, new)
        /\ UNCHANGED <<transitions, page_texts, package, exporting>>
    BY <1>1 DEF add_page
  <2>2. new \in AnnotatedPage BY DEF AnnotatedPage
  <2>3. /\ pages' \in Seq(AnnotatedPage)
        /\ DOMAIN pages' = DOMAIN pages \cup {Len(pages) + 1}
        /\ \A i \in DOMAIN pages : pages'[i] = pages[i]
        /\ pages'[Len(pages) + 1] = new
    BY <1>0, <2>1, <2>2
  <2>4. page_texts[p] = {} BY <1>0, <2>1
  <2>5. FeaturesFit(pages', page_texts')
    <3>1. PICK common \in SUBSET Words : TextsLeft(common, pages, page_texts)
      BY <1>0 DEF MapFits, FeaturesFit
    <3>2. page_texts' = page_texts BY <2>1
    <3>3. new.id = p /\ new.features = {} OBVIOUS
    <3> HIDE DEF new
    <3>4. TextsLeft(common, pages', page_texts')
      BY <2>3, <2>4, <3>1, <3>2, <3>3 DEF TextsLeft
    <3> QED BY <3>4 DEF FeaturesFit
  <2>6. {pages[i].id : i \in DOMAIN pages} \subseteq {pages'[i].id : i \in DOMAIN pages'} BY <2>3
  <2>7. MapFits(pages', transitions', page_texts')
    BY <1>0, <2>1, <2>3, <2>5, <2>6 DEF MapFits
  <2>8. \A q \in AnnotatedPages : ~HasPage(q)' => page_texts'[q] = {}
    BY <1>0, <2>1, <2>3 DEF HasPage
  <2> QED BY <1>0, <1>A, <2>1, <2>7, <2>8 DEF AnnotationInv
<1>2. ASSUME NEW p \in AnnotatedPages, NEW e \in ElementIds, NEW k \in Keywords, add_element(p, e, k)
      PROVE  AnnotationInv'
  <2> DEFINE marked == [id |-> e, danger |-> detect_danger(k)]
  <2>1. PICK i \in DOMAIN pages :
            /\ pages' = [pages EXCEPT ![i].elements = @ \cup {marked}]
            /\ Annotates /\ UNCHANGED <<transitions, page_texts, package, exporting>>
    BY <1>2 DEF add_element
  <2>2. marked \in AnnotatedElements BY DEF AnnotatedElements, detect_danger
  <2>3. pages' = [pages EXCEPT ![i] = [pages[i] EXCEPT !.elements = @ \cup {marked}]]
    BY <1>0, <2>1
  <2>4. [pages[i] EXCEPT !.elements = @ \cup {marked}] \in AnnotatedPage
    <3>1. pages[i] \in AnnotatedPage BY <1>0, AnnotatedPageAt
    <3> QED BY <2>2, <3>1 DEF AnnotatedPage
  <2>5. pages' \in Seq(AnnotatedPage) /\ DOMAIN pages' = DOMAIN pages
        /\ \A j \in DOMAIN pages : pages'[j].id = pages[j].id /\ pages'[j].features = pages[j].features
    <3>1. pages[i] \in AnnotatedPage BY <1>0, AnnotatedPageAt
    <3>2. /\ [pages[i] EXCEPT !.elements = @ \cup {marked}].id = pages[i].id
          /\ [pages[i] EXCEPT !.elements = @ \cup {marked}].features = pages[i].features
      BY <3>1 DEF AnnotatedPage
    <3> HIDE DEF marked
    <3> QED BY <1>0, <2>3, <2>4, <3>2
  <2>6. FeaturesFit(pages', page_texts')
    <3>1. PICK common \in SUBSET Words : TextsLeft(common, pages, page_texts)
      BY <1>0 DEF MapFits, FeaturesFit
    <3>2. page_texts' = page_texts BY <2>1
    <3>3. TextsLeft(common, pages', page_texts') BY <2>5, <3>1, <3>2 DEF TextsLeft
    <3> QED BY <3>3 DEF FeaturesFit
  <2>7. {pages[j].id : j \in DOMAIN pages} = {pages'[j].id : j \in DOMAIN pages'} BY <2>5
  <2>8. MapFits(pages', transitions', page_texts') BY <1>0, <2>1, <2>5, <2>6, <2>7 DEF MapFits
  <2>9. \A q \in AnnotatedPages : HasPage(q)' = HasPage(q) BY <2>5 DEF HasPage
  <2> QED BY <1>0, <1>A, <2>1, <2>8, <2>9 DEF AnnotationInv
<1>3. ASSUME NEW p \in AnnotatedPages, NEW q \in AnnotatedPages, NEW e \in ElementIds,
             add_transition(p, q, e)
      PROVE  AnnotationInv'
  <2>1. /\ HasPage(p) /\ HasPage(q) /\ Annotates
        /\ transitions' = transitions \cup {[from |-> p, to |-> q, target |-> e]}
        /\ UNCHANGED <<pages, page_texts, package, exporting>>
    BY <1>3 DEF add_transition
  <2>2. {p, q} \subseteq {pages[i].id : i \in DOMAIN pages} BY <2>1 DEF HasPage
  <2>3. MapFits(pages', transitions', page_texts') 
    <3>1. FeaturesFit(pages', page_texts') BY <1>0, <2>1 DEF MapFits
    <3> QED BY <1>0, <2>1, <2>2, <3>1 DEF MapFits
  <2> QED BY <1>0, <1>A, <2>1, <2>3 DEF AnnotationInv, HasPage
<1>4. ASSUME NEW texts \in [AnnotatedPages -> SUBSET Words], generate_features(texts)
      PROVE  AnnotationInv'
  <2>1. /\ page_texts' = [p \in AnnotatedPages |-> IF HasPage(p) THEN texts[p] ELSE {}]
        /\ pages' = [i \in DOMAIN pages |->
                       [pages[i] EXCEPT !.features = texts[pages[i].id] \ Common(texts)]]
        /\ UNCHANGED <<transitions, package, exporting, annotations>>
    BY <1>4 DEF generate_features
  <2>2. Common(texts) \subseteq Words
        /\ \A i \in DOMAIN pages : Common(texts) \subseteq texts[pages[i].id]
    BY DEF Common
  <2>3. ASSUME NEW i \in DOMAIN pages
        PROVE  /\ pages'[i] \in AnnotatedPage /\ pages'[i].id = pages[i].id
               /\ pages'[i].features = texts[pages[i].id] \ Common(texts)
               /\ page_texts'[pages[i].id] = texts[pages[i].id]
    <3>1. pages[i] \in AnnotatedPage /\ pages[i].id \in AnnotatedPages BY <1>0, AnnotatedPageAt
    <3>2. texts[pages[i].id] \ Common(texts) \in SUBSET Words BY <3>1
    <3>3. pages'[i] = [pages[i] EXCEPT !.features = texts[pages[i].id] \ Common(texts)] BY <2>1
    <3>4. HasPage(pages[i].id) BY DEF HasPage
    <3> QED BY <2>1, <3>1, <3>2, <3>3, <3>4 DEF AnnotatedPage
  <2>4. DOMAIN pages' = DOMAIN pages /\ DOMAIN pages = 1..Len(pages) /\ Len(pages) \in Nat
    BY <1>0, <2>1
  <2>5. pages' \in [1..Len(pages) -> AnnotatedPage] BY <2>1, <2>3, <2>4
  <2>6. pages' \in Seq(AnnotatedPage) BY <2>4, <2>5
  <2>7. page_texts' \in [AnnotatedPages -> SUBSET Words] BY <2>1
  <2>8. FeaturesFit(pages', page_texts')
    <3>1. TextsLeft(Common(texts), pages', page_texts') BY <2>2, <2>3, <2>4 DEF TextsLeft
    <3> QED BY <2>2, <3>1 DEF FeaturesFit
  <2>9. {pages[j].id : j \in DOMAIN pages} = {pages'[j].id : j \in DOMAIN pages'} BY <2>3, <2>4
  <2>10. MapFits(pages', transitions', page_texts')
    BY <1>0, <2>1, <2>6, <2>7, <2>8, <2>9 DEF MapFits
  <2>11. \A p \in AnnotatedPages : ~HasPage(p)' => page_texts'[p] = {}
    <3>1. \A p \in AnnotatedPages : HasPage(p)' = HasPage(p) BY <2>3, <2>4 DEF HasPage
    <3> QED BY <2>1, <3>1
  <2> QED BY <1>0, <2>1, <2>10, <2>11 DEF AnnotationInv
<1>5. CASE ExportManifest
  <2>1. /\ package' = [package EXCEPT !.manifest = TRUE] /\ exporting' = TRUE
        /\ UNCHANGED <<pages, transitions, page_texts, annotations>>
    BY <1>5 DEF ExportManifest
  <2>2. package' = [manifest |-> TRUE, map |-> package.map]
        /\ package'.manifest = TRUE /\ package'.map = package.map
    BY <1>0, <2>1
  <2> QED BY <1>0, <2>1, <2>2 DEF AnnotationInv, HasPage
<1>6. CASE ExportMap
  <2> DEFINE map == [pages |-> pages, transitions |-> transitions, shot |-> page_texts]
  <2>1. /\ exporting /\ package' = [package EXCEPT !.map = map] /\ exporting' = FALSE
        /\ UNCHANGED <<pages, transitions, page_texts, annotations>>
    BY <1>6 DEF ExportMap
  <2>2. map.pages = pages /\ map.transitions = transitions /\ map.shot = page_texts OBVIOUS
  <2> HIDE DEF map
  <2>3. package' = [manifest |-> package.manifest, map |-> map]
        /\ package'.manifest = package.manifest /\ package'.map = map
    BY <1>0, <2>1
  <2> QED BY <1>0, <2>1, <2>2, <2>3 DEF AnnotationInv, HasPage
<1>7. CASE AnnotationRestart
  <2>1. /\ pages' = <<>> /\ transitions' = {} /\ exporting' = FALSE
        /\ page_texts' = [p \in AnnotatedPages |-> {}] /\ UNCHANGED <<package, annotations>>
    BY <1>7 DEF AnnotationRestart
  <2>2. MapFits(pages', transitions', page_texts')
    <3>1. TextsLeft({}, pages', page_texts') BY <2>1 DEF TextsLeft
    <3> QED BY <2>1, <3>1 DEF MapFits, FeaturesFit
  <2> QED BY <1>0, <2>1, <2>2 DEF AnnotationInv
<1>8. CASE UNCHANGED annotationVars
  BY <1>0, <1>8 DEF annotationVars, AnnotationInv, HasPage
<1> QED BY <1>1, <1>2, <1>3, <1>4, <1>5, <1>6, <1>7, <1>8 DEF AnnotationNext

\* Every map the annotation window exports can be used, for any pages, texts and order of
\* requests: its transitions join its pages, and a page that shows something of its own is
\* recognised on the screen it was annotated from (AnnotationSession.export, identify).
THEOREM MapsAreUsable == AnnotationSpec => [](AnnotationTypeOK /\ MapIsUsable)
BY AnnotationStarts, AnnotationStep, AnnotationInvIsEnough, PTL DEF AnnotationSpec
==============================================================================
