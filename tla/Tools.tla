-------------------------------- MODULE Tools --------------------------------
(***************************************************************************)
(* Tool calls (shell/tool_registry): the registry's permission, the consent *)
(* a call may have to wait for, and its execution, which happens at once or *)
(* when a later resume() answers the request.  Calls and answers come from  *)
(* several threads; pending_actions, the gateway and the registry are       *)
(* shared and unlocked.  A consent request carries the name of the call     *)
(* that submitted it.  Parameters, results and audit texts are left out.    *)
(***************************************************************************)
EXTENDS Naturals, FiniteSets

CONSTANTS ToolCalls,    \* calls of execute() or enable_external()
          Answers,      \* calls of resume()
          NoCall

ASSUME NoCallAssumption == NoCall \notin ToolCalls

VARIABLES tool,         \* per call: the manifest it names
          toolcall,     \* per call: what it does, where it is
          tool_answer,       \* per resume: where it is
          enabled,      \* whether the external tool was enabled
          consent,      \* the gateway: request -> none, pending, allow, deny
          last_artifact,    \* the request submitted last
          pending_actions,  \* request -> the call parked under it
          runs          \* per call: how often it was performed

toolVars == <<tool, toolcall, tool_answer, enabled, consent, last_artifact,
              pending_actions, runs>>

\* external tools are never "allow" (load_external); builtin ones never "deny".
Manifests == [kind : {"builtin"}, permission : {"allow", "ask"}, network : BOOLEAN]
             \cup [kind : {"external"}, permission : {"ask", "deny"}, network : {TRUE}]

ToolsInit ==
    /\ tool \in [ToolCalls -> Manifests]
    /\ toolcall = [c \in ToolCalls |-> [pc |-> "new", action |-> "execute"]]
    /\ tool_answer = [a \in Answers |-> [pc |-> "new", request |-> NoCall, allowed |-> FALSE]]
    /\ enabled = FALSE
    /\ consent = [c \in ToolCalls |-> "none"]
    /\ last_artifact = NoCall
    /\ pending_actions = [c \in ToolCalls |-> NoCall]
    /\ runs = [c \in ToolCalls |-> 0]

\* A result is reduced to whether the call has returned: denied, completed and error
\* results and their audit records differ in what they say.
MoveTo(c, pc) == toolcall' = [toolcall EXCEPT ![c].pc = pc]

\* ToolRegistry.resolve_permission; local_only is the privacy mode of the call.
resolve_permission(c, local_only) ==
    IF local_only /\ tool[c].network THEN "deny"
    ELSE IF tool[c].kind = "external" /\ ~enabled THEN "deny"
    ELSE tool[c].permission

set_external_enabled(c) ==
    enabled' = (enabled \/ toolcall[c].action = "enable_external")

\* _execute_allowed, or the switch of the external tool.  A handler that raises has
\* been called as well.
Perform(c) == runs' = [runs EXCEPT ![c] = @ + 1] /\ set_external_enabled(c)

-----------------------------------------------------------------------------
execute(c, local_only) ==
    /\ toolcall[c].pc = "new"
    /\ LET permission == resolve_permission(c, local_only) IN
       /\ toolcall' = [toolcall EXCEPT ![c] =
             [pc |-> IF permission = "ask" THEN "submit" ELSE "returned",
              action |-> "execute"]]
       /\ IF permission = "allow" THEN Perform(c) ELSE UNCHANGED <<enabled, runs>>
    /\ UNCHANGED <<tool, tool_answer, consent, last_artifact, pending_actions>>

enable_external(c) ==
    /\ toolcall[c].pc = "new"
    /\ toolcall' = [toolcall EXCEPT ![c] =
          [pc |-> IF tool[c].kind = "external" /\ ~enabled
                  THEN "submit" ELSE "returned",
           action |-> "enable_external"]]
    /\ UNCHANGED <<tool, tool_answer, enabled, consent, last_artifact, pending_actions, runs>>

\* UIHostConsentGateway.submit: no decision provider, so it waits for the user.
SubmitConsent(c) ==
    /\ toolcall[c].pc = "submit"
    /\ consent' = [consent EXCEPT ![c] = "pending"]
    /\ last_artifact' = c
    /\ MoveTo(c, "asked")
    /\ UNCHANGED <<tool, tool_answer, enabled, pending_actions, runs>>

\* The request id is taken from last_artifact, whoever wrote that last.  When that
\* request is already decided, the call is refused: submit() answered False.
ParkAction(c) ==
    /\ toolcall[c].pc = "asked"
    /\ IF consent[last_artifact] = "pending"
       THEN /\ pending_actions' = [pending_actions EXCEPT ![last_artifact] = c]
            /\ MoveTo(c, "requires_consent")
       ELSE /\ UNCHANGED pending_actions
            /\ MoveTo(c, "returned")
    /\ UNCHANGED <<tool, tool_answer, enabled, consent, last_artifact, runs>>

-----------------------------------------------------------------------------
(* resume(): look, decide, pop, run.                                       *)

ResumeLook(a, r, allowed) ==
    /\ tool_answer[a].pc = "new"
    /\ pending_actions[r] # NoCall /\ consent[r] # "none"
    /\ tool_answer' = [tool_answer EXCEPT ![a] =
          [pc |-> IF consent[r] = "pending" THEN "decide" ELSE "pop",
           request |-> r, allowed |-> allowed]]
    /\ UNCHANGED <<tool, toolcall, enabled, consent, last_artifact, pending_actions, runs>>

\* gateway.decide overwrites an earlier decision and becomes the last artifact.
ResumeDecide(a) ==
    /\ tool_answer[a].pc = "decide"
    /\ consent' = [consent EXCEPT ![tool_answer[a].request] =
                      IF tool_answer[a].allowed THEN "allow" ELSE "deny"]
    /\ last_artifact' = tool_answer[a].request
    /\ tool_answer' = [tool_answer EXCEPT ![a].pc = "pop"]
    /\ UNCHANGED <<tool, toolcall, enabled, pending_actions, runs>>

\* Mutant: the parked call is read and not removed.
LeftKept(r) == pending_actions

\* What pop leaves: two answers may both have looked, the second one finds nothing
\* and raises.  The answer given decides, not the one the gateway recorded.
Left(r) == [pending_actions EXCEPT ![r] = NoCall]

TakeParked(a) ==
    /\ tool_answer[a].pc = "pop"
    /\ LET r == tool_answer[a].request
           c == pending_actions[r]
       IN /\ pending_actions' = Left(r)
          /\ IF c = NoCall \/ ~tool_answer[a].allowed
             THEN UNCHANGED <<enabled, runs>> ELSE Perform(c)
          /\ IF c = NoCall THEN UNCHANGED toolcall ELSE MoveTo(c, "returned")
    /\ tool_answer' = [tool_answer EXCEPT ![a].pc = "done"]
    /\ UNCHANGED <<tool, consent, last_artifact>>

ToolsNext ==
    \/ \E c \in ToolCalls : \/ \E local_only \in BOOLEAN : execute(c, local_only)
                            \/ enable_external(c)
                            \/ SubmitConsent(c) \/ ParkAction(c)
    \/ \E a \in Answers : \/ \E r \in ToolCalls, allowed \in BOOLEAN : ResumeLook(a, r, allowed)
                          \/ ResumeDecide(a) \/ TakeParked(a)

ToolsSpec == ToolsInit /\ [][ToolsNext]_toolVars

-----------------------------------------------------------------------------
ToolsTypeOK ==
    /\ tool \in [ToolCalls -> Manifests] /\ enabled \in BOOLEAN
    /\ toolcall \in [ToolCalls -> [pc : {"new", "submit", "asked", "requires_consent",
                                         "returned"},
                                   action : {"execute", "enable_external"}]]
    /\ consent \in [ToolCalls -> {"none", "pending", "allow", "deny"}]
    /\ last_artifact \in ToolCalls \cup {NoCall}
    /\ pending_actions \in [ToolCalls -> ToolCalls \cup {NoCall}]
    /\ tool_answer \in [Answers -> [pc : {"new", "decide", "pop", "done"},
                               request : ToolCalls \cup {NoCall}, allowed : BOOLEAN]]

\* A tool call is performed at most once, and only if it was not refused before: one
\* approval is spent by one run, however many answers to it arrive at the same time
\* and whichever call the racing last_artifact has parked under it.
PerformedOnce ==
    \A c \in ToolCalls :
       /\ runs[c] <= 1
       /\ runs[c] = 1 => toolcall[c].pc = "returned"
       /\ \A r \in ToolCalls : pending_actions[r] = c => runs[c] = 0
=============================================================================
