-------------------------------- MODULE Chat --------------------------------
(* Chat turns of the desktop host.  A turn holds the host's try-lock from the       *)
(* request to its answer.  A turn that needs consent for the cloud is parked and    *)
(* resumed by the consent endpoint, which takes no lock; privacy mode, persona and  *)
(* model change meanwhile.                                                          *)
EXTENDS SessionBinding

CONSTANTS
    Turns,         \* requests to /api/chat
    ConsentPosts,  \* requests to POST /api/consent
    MaxRestarts    \* bound on restarts of the process

ASSUME ChatAssumption ==
    /\ Turns \cap ConsentPosts = {}
    /\ {"none", "free", "switch"} \cap (Turns \cup ConsentPosts) = {}

VARIABLES
    privacy_mode,
    socket_guard,      \* the process-wide guard against non-local connections
    local_available,
    thread,            \* per request: its place and the turn it executes
    asked,             \* the gateway's pending requests, named after their turns
    latest_request,    \* the request of the gateway's last_artifact
    pending_turns,     \* request -> the turn parked under it and its session
    routed,            \* the routing decision of a turn
    stored,            \* per request: the sessions its two rows went to
    sent,              \* turns posted to the cloud
    allows,            \* turns the user has allowed at least once
    restarts

chatVars == <<privacy_mode, socket_guard, local_available, thread, asked, latest_request,
              pending_turns, routed, stored, sent, allows, restarts>>

Modes == {"local_only", "ask", "auto"}
Threads == Turns \cup ConsentPosts
NoRows == [user |-> NoSession, assistant |-> NoSession]
Unasked == [state |-> "none", session |-> NoSession]
Unrouted == [model |-> "none", fallback |-> FALSE, consent |-> FALSE]
Decisions == [model : {"none", "local", "cloud"}, fallback : BOOLEAN, consent : BOOLEAN]
Unparked(t) == [turn |-> t, session |-> NoSession]
Request == [at : {"new", "prepare", "submit", "park", "look", "resume", "pop", "decide", "user",
                  "model", "fallback", "assistant", "over"},
            turn : Threads, request : Threads,
            plan : {"none", "fixed", "local", "cloud", "declined"}]
NotStarted(th) == [at |-> "new", turn |-> th, request |-> th, plan |-> "none"]

\* apply_privacy_socket_guard: the guard is on in the local mode only.
GuardFor(mode) == mode = "local_only"

\* With the guard on, a socket connects to addresses of this machine only.
Connects == ~socket_guard

ChatInit ==
    /\ privacy_mode \in Modes
    /\ socket_guard = GuardFor(privacy_mode)
    /\ local_available \in BOOLEAN
    /\ thread = [th \in Threads |-> NotStarted(th)]
    /\ asked = [t \in Turns |-> Unasked]
    /\ latest_request = "none"
    /\ pending_turns = [t \in Turns |-> Unparked(t)]
    /\ routed = [t \in Turns |-> Unrouted]
    /\ stored = [th \in Threads |-> NoRows]
    /\ sent = {}
    /\ allows = {}
    /\ restarts = 0

-----------------------------------------------------------------------------
(* Routing                                                                     *)

\* What the estimates say about the installed models: a local one that matches, one that
\* only has the context, or none; a cloud one within the cost limit, above it, or none.
Estimates == [local : {"match", "context", "none"}, cloud : {"cheap", "dear", "none"},
              consent : BOOLEAN]
Profiles == [sensitive : BOOLEAN, complex : BOOLEAN]

LocalModel == [model |-> "local", fallback |-> FALSE, consent |-> FALSE]
CloudModel(e) == [model |-> "cloud", fallback |-> e.local # "none", consent |-> e.consent]

\* ModelRouter.route.  (A local decision also names a cloud fallback, which nobody runs.)
route(e, profile) ==
    IF privacy_mode = "local_only"
    THEN IF e.local # "none" THEN LocalModel ELSE Unrouted
    ELSE IF e.local # "none" /\ profile.sensitive THEN LocalModel
    ELSE IF e.local = "match" /\ ~profile.complex THEN LocalModel
    ELSE IF e.cloud = "cheap" THEN CloudModel(e)
    ELSE IF e.local # "none" THEN LocalModel
    ELSE IF e.cloud # "none" THEN CloudModel(e)
    ELSE Unrouted

\* _cloud_fallback_decision: no local backend to fall back to, consent by privacy mode.
CloudFallback == [model |-> "cloud", fallback |-> FALSE, consent |-> privacy_mode = "ask"]

-----------------------------------------------------------------------------
(* The chat request, up to the decision                                       *)

MoveThread(th, place) == [thread EXCEPT ![th].at = place]
RequestOver(th) == [NotStarted(th) EXCEPT !.at = "over"]
Execute(th, plan) == [thread EXCEPT ![th].at = "user", ![th].plan = plan]

\* The request returns, and gives back the lock when it has it.
RequestReturns(th) ==
    /\ thread' = [thread EXCEPT ![th] = RequestOver(th)]
    /\ model_lock' = IF model_lock = th THEN "free" ELSE model_lock

bound == <<canonical, sessions, published, recovery_required, orchestrator_session,
           gateway_session, switch>>
settings == <<privacy_mode, socket_guard, local_available, restarts>>
consents == <<asked, latest_request, pending_turns>>

chat(t) ==
    /\ thread[t].at = "new"
    /\ model_lock = "free"
    /\ model_lock' = t
    /\ thread' = MoveThread(t, "prepare")
    /\ UNCHANGED <<bound, settings, consents, routed, stored, sent, allows>>

\* _safety_result: the fixed reply is stored like any other turn.
SafetyStop(t) ==
    /\ thread[t].at = "prepare"
    /\ thread' = Execute(t, "fixed")
    /\ UNCHANGED <<bound, model_lock, settings, consents, routed, stored, sent,
                   allows>>

\* _prepare_turn ends the turn: only a memory command, or a clarification that is
\* stored as an assistant row without a user row.
MemoryOnly(t) ==
    /\ thread[t].at = "prepare"
    /\ stored' \in {stored, [stored EXCEPT ![t].assistant = orchestrator_session]}
    /\ RequestReturns(t)
    /\ UNCHANGED <<bound, settings, consents, routed, sent, allows>>

\* A decision without a model answers without storing anything.
Follow(t, decision) ==
    /\ routed' = [routed EXCEPT ![t] = decision]
    /\ IF decision.model = "none" THEN RequestReturns(t)
       ELSE /\ thread' = IF decision.consent THEN MoveThread(t, "submit")
                         ELSE Execute(t, decision.model)
            /\ UNCHANGED model_lock

RouteTurn(t) ==
    /\ thread[t].at = "prepare"
    /\ local_available
    /\ \E e \in Estimates, profile \in Profiles : Follow(t, route(e, profile))
    /\ UNCHANGED <<bound, settings, consents, stored, sent, allows>>

\* _run_without_local_backend
RouteWithoutLocal(t) ==
    /\ thread[t].at = "prepare"
    /\ ~local_available
    /\ \/ /\ privacy_mode # "local_only"
          /\ Follow(t, CloudFallback)
       \/ /\ thread' = Execute(t, "fixed")
          /\ UNCHANGED <<routed, model_lock>>
    /\ UNCHANGED <<bound, settings, consents, stored, sent, allows>>

-----------------------------------------------------------------------------
(* Asking for consent: submit, park and look again                            *)

Visible(t) == asked[t].state # "none" /\ asked[t].session = gateway_session

submit(t) ==
    /\ thread[t].at = "submit"
    /\ asked' = [asked EXCEPT ![t] = [state |-> "pending", session |-> gateway_session]]
    /\ latest_request' = t
    /\ thread' = MoveThread(t, "park")
    /\ UNCHANGED <<bound, model_lock, settings, pending_turns, routed, stored, sent, allows>>

\* The request id is the one of last_artifact, which a decision on another request
\* may have replaced since submit.
Park(t) ==
    /\ thread[t].at = "park"
    /\ pending_turns' = [pending_turns EXCEPT ![latest_request] =
                            [turn |-> t, session |-> orchestrator_session]]
    /\ thread' = [thread EXCEPT ![t].at = "look", ![t].request = latest_request]
    /\ UNCHANGED <<bound, model_lock, settings, asked, latest_request, routed, stored, sent,
                   allows>>

\* Mutant: any decision is followed as if it were an approval.
LookAgainAny(t) ==
    LET r == thread[t].request IN
    /\ thread[t].at = "look"
    /\ IF Visible(r) /\ asked[r].state # "pending"
       THEN /\ pending_turns' = [pending_turns EXCEPT ![r] = Unparked(r)]
            /\ thread' = Execute(t, "cloud")
            /\ UNCHANGED model_lock
       ELSE RequestReturns(t) /\ UNCHANGED pending_turns
    /\ UNCHANGED <<bound, settings, asked, latest_request, routed, stored, sent, allows>>

\* A decision that arrived meanwhile is followed at once.
LookAgain(t) ==
    LET r == thread[t].request IN
    /\ thread[t].at = "look"
    /\ IF Visible(r) /\ asked[r].state # "pending"
       THEN /\ pending_turns' = [pending_turns EXCEPT ![r] = Unparked(r)]
            /\ thread' = Execute(t, IF asked[r].state = "allow" THEN "cloud" ELSE "declined")
            /\ UNCHANGED model_lock
       ELSE RequestReturns(t) /\ UNCHANGED pending_turns
    /\ UNCHANGED <<bound, settings, asked, latest_request, routed, stored, sent, allows>>

-----------------------------------------------------------------------------
(* The consent endpoint                                                       *)

\* The client knows the request from the modal, which shows what the gateway shows.
consent_decision(c, r, allowed) ==
    /\ thread[c].at = "new"
    /\ Visible(r)
    /\ thread' = [thread EXCEPT ![c] = [at |-> "resume", turn |-> c, request |-> r,
                                       plan |-> IF allowed THEN "cloud" ELSE "declined"]]
    /\ allows' = IF allowed THEN allows \cup {r} ELSE allows
    /\ UNCHANGED <<bound, model_lock, settings, consents, routed, stored, sent>>

\* resume_pending_turn looks the turn up, compares the session and then removes it.
ResumeLookup(c) ==
    LET parked == pending_turns[thread[c].request] IN
    /\ thread[c].at = "resume"
    /\ thread' = IF parked.session = orchestrator_session
                 THEN [thread EXCEPT ![c].at = "pop", ![c].turn = parked.turn]
                 ELSE MoveThread(c, "decide")
    /\ UNCHANGED <<bound, model_lock, settings, consents, routed, stored, sent, allows>>

\* UIHostConsentGateway.decide: the decided request becomes the last artifact.
RecordDecision(c) ==
    /\ asked' = [asked EXCEPT ![thread[c].request].state =
                    IF thread[c].plan = "cloud" THEN "allow" ELSE "deny"]
    /\ latest_request' = thread[c].request

\* A second answer finds nothing to remove: pop raises KeyError.
ResumePop(c) ==
    LET r == thread[c].request IN
    /\ thread[c].at = "pop"
    /\ IF pending_turns[r].session = NoSession
       THEN thread' = MoveThread(c, "decide") /\ UNCHANGED consents
       ELSE /\ pending_turns' = [pending_turns EXCEPT ![r] = Unparked(r)]
            /\ IF Visible(r) /\ asked[r].state = "pending" THEN RecordDecision(c)
               ELSE UNCHANGED <<asked, latest_request>>
            /\ thread' = Execute(c, thread[c].plan)
    /\ UNCHANGED <<bound, model_lock, settings, routed, stored, sent, allows>>

\* Nothing to resume: the answer is only recorded, over an earlier one if need be.
DecideOnly(c) ==
    /\ thread[c].at = "decide"
    /\ IF Visible(thread[c].request) THEN RecordDecision(c) ELSE UNCHANGED <<asked, latest_request>>
    /\ thread' = [thread EXCEPT ![c] = RequestOver(c)]
    /\ UNCHANGED <<bound, model_lock, settings, pending_turns, routed, stored, sent, allows>>

-----------------------------------------------------------------------------
(* Executing a turn, by the chat request or by the consent request            *)

AppendUser(th) ==
    /\ thread[th].at = "user"
    /\ stored' = [stored EXCEPT ![th].user = orchestrator_session]
    /\ thread' = MoveThread(th, IF thread[th].plan \in {"fixed", "declined"} THEN "assistant"
                                ELSE "model")
    /\ UNCHANGED <<bound, model_lock, settings, consents, routed, sent, allows>>

\* post_cloud_completion does not look at the privacy mode; only the socket guard stops
\* it.  A message that has left may still end in an error.
CloudOutcomes ==
    {[left |-> FALSE, ok |-> FALSE]}
        \cup (IF Connects THEN [left : {TRUE}, ok : BOOLEAN] ELSE {})

CloudCall(th) ==
    /\ thread[th].at = "model"
    /\ thread[th].plan = "cloud"
    /\ \E outcome \in CloudOutcomes :
          /\ sent' = IF outcome.left THEN sent \cup {thread[th].turn} ELSE sent
          /\ thread' = MoveThread(th, IF outcome.ok THEN "assistant" ELSE "fallback")
    /\ UNCHANGED <<bound, model_lock, settings, consents, routed, stored, allows>>

\* The local model answers, or raises and leaves the user row alone.
LocalReply(th) ==
    /\ \/ thread[th].at = "model" /\ thread[th].plan = "local"
       \/ thread[th].at = "fallback" /\ routed[thread[th].turn].fallback
    /\ \/ thread' = MoveThread(th, "assistant") /\ UNCHANGED model_lock
       \/ RequestReturns(th)
    /\ UNCHANGED <<bound, settings, consents, routed, stored, sent, allows>>

NoBackendReply(th) ==
    /\ thread[th].at = "fallback"
    /\ ~routed[thread[th].turn].fallback
    /\ thread' = MoveThread(th, "assistant")
    /\ UNCHANGED <<bound, model_lock, settings, consents, routed, stored, sent,
                   allows>>

AppendAssistant(th) ==
    /\ thread[th].at = "assistant"
    /\ stored' = [stored EXCEPT ![th].assistant = orchestrator_session]
    /\ RequestReturns(th)
    /\ UNCHANGED <<bound, settings, consents, routed, sent, allows>>

-----------------------------------------------------------------------------
(* Settings, models, restarts; a request that would change nothing is left out *)

\* POST /api/privacy/mode
set_privacy_mode(mode) ==
    /\ mode # privacy_mode \/ socket_guard # GuardFor(mode)
    /\ privacy_mode' = mode
    /\ socket_guard' = GuardFor(mode)
    /\ UNCHANGED <<bindingVars, local_available, thread, consents, routed, stored,
                   sent, allows, restarts>>

\* POST /api/settings
set_settings(mode) ==
    /\ mode # privacy_mode
    /\ privacy_mode' = mode
    /\ UNCHANGED <<bindingVars, socket_guard, local_available, thread, consents,
                   routed, stored, sent, allows, restarts>>

\* A local model is loaded under the lock.
activate_model ==
    /\ model_lock = "free" /\ ~local_available
    /\ local_available' = TRUE
    /\ UNCHANGED <<bindingVars, privacy_mode, socket_guard, thread, consents, routed,
                   stored, sent, allows, restarts>>

clear_chat ==
    /\ stored' = [th \in Threads |->
                   [r \in {"user", "assistant"} |->
                       IF stored[th][r] = orchestrator_session THEN NoSession ELSE stored[th][r]]]
    /\ stored' # stored
    /\ UNCHANGED <<bindingVars, privacy_mode, socket_guard, local_available, thread, consents,
                   routed, sent, allows, restarts>>

\* Requests under way, the gateway and the parked turns live in memory only.
Restart ==
    /\ restarts < MaxRestarts
    /\ restarts' = restarts + 1
    /\ RestoreBinding
    /\ thread' = [th \in Threads |-> IF thread[th].at = "new" THEN thread[th] ELSE RequestOver(th)]
    /\ asked' = [t \in Turns |-> Unasked]
    /\ latest_request' = "none"
    /\ pending_turns' = [t \in Turns |-> Unparked(t)]
    /\ socket_guard' = GuardFor(privacy_mode)
    /\ local_available' \in BOOLEAN
    /\ UNCHANGED <<privacy_mode, routed, stored, sent, allows>>

ChatNext ==
    \/ BindingNext /\ UNCHANGED chatVars
    \/ \E t \in Turns :
          \/ chat(t) \/ SafetyStop(t) \/ MemoryOnly(t) \/ RouteTurn(t) \/ RouteWithoutLocal(t)
          \/ submit(t) \/ Park(t) \/ LookAgain(t)
    \/ \E c \in ConsentPosts :
          \/ \E t \in Turns, allowed \in BOOLEAN : consent_decision(c, t, allowed)
          \/ ResumeLookup(c) \/ ResumePop(c) \/ DecideOnly(c)
    \/ \E th \in Threads :
          AppendUser(th) \/ CloudCall(th) \/ LocalReply(th) \/ NoBackendReply(th)
             \/ AppendAssistant(th)
    \/ \E mode \in Modes : set_privacy_mode(mode) \/ set_settings(mode)
    \/ activate_model \/ clear_chat
    \/ Restart

DesktopInit == BindingInit /\ ChatInit

ChatSpec == DesktopInit /\ [][ChatNext]_<<bindingVars, chatVars>>

ChatTypeOK ==
    /\ BindingTypeOK
    /\ model_lock \in Turns \cup {"free", "switch"}
    /\ privacy_mode \in Modes
    /\ socket_guard \in BOOLEAN
    /\ local_available \in BOOLEAN
    /\ thread \in [Threads -> Request]
    /\ asked \in [Turns -> [state : {"none", "pending", "allow", "deny"}, session : 0..MaxSessions]]
    /\ latest_request \in Turns \cup {"none"}
    /\ pending_turns \in [Turns -> [turn : Turns, session : 0..MaxSessions]]
    /\ routed \in [Turns -> Decisions]
    /\ stored \in [Threads -> [user : 0..MaxSessions, assistant : 0..MaxSessions]]
    /\ sent \subseteq Turns /\ allows \subseteq Turns

\* The two rows of a chat request are in one session although the orchestrator reads
\* its session anew for each of them and a persona switch rebinds it.
TurnStaysInSession ==
    \A t \in Turns : NoSession \in {stored[t].user, stored[t].assistant}
                       \/ stored[t].user = stored[t].assistant

\* As long as the user has allowed nothing, no turn that needs consent leaves for the
\* cloud: whatever crosses the answers, the turn's own second look, a persona switch and a
\* restart, an approval is never inferred (_submit_routing_consent, resume_pending_turn).
RefusedStaysLocal ==
    \A t \in sent : routed[t].consent => allows # {}

\* Every turn that needs consent reaches the cloud only after the user allowed that very
\* turn: a request without a decision of its own is not inferred to be allowed.  An answer
\* to one request that falls between another turn's submit and its look at last_artifact
\* is taken for the answer to both.
OnlyAllowedLeaves ==
    \A t \in sent : routed[t].consent => t \in allows
=============================================================================
