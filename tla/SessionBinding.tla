--------------------------- MODULE SessionBinding ---------------------------
(* The desktop's canonical session.  A persona switch commits a new session in one *)
(* transaction, publishes it, and then binds the holders one after another; a       *)
(* restart rebuilds all of them from the committed row.                             *)
EXTENDS Naturals, FiniteSets

CONSTANTS
    PersonaChoices,
    SwitchRequests,   \* values of switch_request_id
    MaxSessions       \* bound on sessions created

ASSUME BindingAssumption == MaxSessions \in Nat \ {0}

VARIABLES
    canonical,              \* desktop_session_state: active session and revision
    sessions,               \* the rows of sessions
    published,              \* the context the provider hands out
    recovery_required,
    orchestrator_session,   \* ConversationOrchestrator.session_id
    gateway_session,        \* UIHostConsentGateway.active_session_id
    model_lock,             \* who holds the host's try-lock
    switch                  \* the one switch under way

bindingVars == <<canonical, sessions, published, recovery_required,
                 orchestrator_session, gateway_session, model_lock, switch>>

NoRequest == "none"
NoSession == 0
NoSwitch == [at |-> "idle"]

Canonical == [session : 1..MaxSessions, revision : 1..MaxSessions]
SessionRow == [id : 1..MaxSessions, persona : PersonaChoices, request : SwitchRequests \cup {NoRequest}]

Switch == [at : {"asked", "publish", "bind", "bind_gateway"}, request : SwitchRequests,
           persona : PersonaChoices, expected : 1..MaxSessions]

\* restore_or_create on an empty database.
BindingInit ==
    /\ canonical = [session |-> 1, revision |-> 1]
    /\ sessions \in {{[id |-> 1, persona |-> p, request |-> NoRequest]} : p \in PersonaChoices}
    /\ published = canonical
    /\ recovery_required = FALSE
    /\ orchestrator_session = 1
    /\ gateway_session = 1
    /\ model_lock = "free"
    /\ switch = NoSwitch

\* Mutant: the endpoint does not take the lock.
CanSwitchAnytime == switch = NoSwitch

\* activate_persona answers session_busy while a chat turn or a model load holds the lock.
CanSwitch == model_lock = "free"

activate_persona(q, p, revision) ==
    /\ CanSwitch
    /\ model_lock' = "switch"
    /\ switch' = [at |-> "asked", request |-> q, persona |-> p, expected |-> revision]
    /\ UNCHANGED <<canonical, sessions, published, recovery_required,
                   orchestrator_session, gateway_session>>

SwitchReturns ==
    /\ switch' = NoSwitch
    /\ model_lock' = "free"

\* Mutant: the request is looked up in the published context, not in the table.
CreatedByPublished(q) == {s \in sessions : s.request = q /\ s.id = published.session}

\* The sessions a request has already created.
CreatedBy(q) == {s \in sessions : s.request = q}

\* A replayed request is answered from its session, when that is still the active one.
idempotent_replay ==
    /\ switch.at = "asked"
    /\ \E s \in CreatedBy(switch.request) :
          IF s.persona = switch.persona /\ s.id = canonical.session
          THEN switch' = [switch EXCEPT !.at = "publish"] /\ UNCHANGED model_lock
          ELSE SwitchReturns
    /\ UNCHANGED <<canonical, sessions, published, recovery_required,
                   orchestrator_session, gateway_session>>

\* revision_conflict, persona_not_found, a snapshot that cannot be built, a failed or
\* rolled-back transaction: nothing changes.
RejectSwitch ==
    /\ switch.at = "asked"
    /\ CreatedBy(switch.request) = {}
    /\ SwitchReturns
    /\ UNCHANGED <<canonical, sessions, published, recovery_required,
                   orchestrator_session, gateway_session>>

\* The new session, the active persona and the canonical row, in one transaction.
CommitSwitch ==
    /\ switch.at = "asked"
    /\ CreatedBy(switch.request) = {}
    /\ switch.expected = canonical.revision
    /\ Cardinality(sessions) < MaxSessions
    /\ LET id == Cardinality(sessions) + 1 IN
         /\ sessions' = sessions \cup
               {[id |-> id, persona |-> switch.persona, request |-> switch.request]}
         /\ canonical' = [session |-> id, revision |-> canonical.revision + 1]
    /\ switch' = [switch EXCEPT !.at = "publish"]
    /\ UNCHANGED <<published, recovery_required, orchestrator_session, gateway_session, model_lock>>

\* A failure after the commit leaves the holders to a restart or a replay.
PublishFails ==
    /\ switch.at = "publish"
    /\ recovery_required' = TRUE
    /\ SwitchReturns
    /\ UNCHANGED <<canonical, sessions, published, orchestrator_session, gateway_session>>

PublishBinding ==
    /\ switch.at = "publish"
    /\ published' = canonical
    /\ recovery_required' = FALSE
    /\ switch' = [switch EXCEPT !.at = "bind"]
    /\ UNCHANGED <<canonical, sessions, orchestrator_session, gateway_session, model_lock>>

\* rebind_runtime_session assigns the holders in the order of the binding table.
BindOrchestrator ==
    /\ switch.at = "bind"
    /\ orchestrator_session' = published.session
    /\ switch' = [switch EXCEPT !.at = "bind_gateway"]
    /\ UNCHANGED <<canonical, sessions, published, recovery_required, gateway_session, model_lock>>

BindGateway ==
    /\ switch.at = "bind_gateway"
    /\ gateway_session' = published.session
    /\ SwitchReturns
    /\ UNCHANGED <<canonical, sessions, published, recovery_required, orchestrator_session>>

\* restore_or_create in a new process.
RestoreBinding ==
    /\ published' = canonical
    /\ recovery_required' = FALSE
    /\ orchestrator_session' = canonical.session
    /\ gateway_session' = canonical.session
    /\ model_lock' = "free"
    /\ switch' = NoSwitch
    /\ UNCHANGED <<canonical, sessions>>

BindingNext ==
    \/ \E q \in SwitchRequests, p \in PersonaChoices, r \in 1..MaxSessions : activate_persona(q, p, r)
    \/ idempotent_replay \/ RejectSwitch \/ CommitSwitch
    \/ PublishFails \/ PublishBinding \/ BindOrchestrator \/ BindGateway

BindingTypeOK ==
    /\ canonical \in Canonical
    /\ sessions \subseteq SessionRow
    /\ published \in Canonical
    /\ recovery_required \in BOOLEAN
    /\ orchestrator_session \in 1..MaxSessions
    /\ gateway_session \in 1..MaxSessions
    /\ switch \in Switch \cup {NoSwitch}

\* A switch request makes at most one session, however often the client repeats it:
\* after a lost answer, a failed publication, a restart or a later switch.
OneSessionPerRequest ==
    \A q \in SwitchRequests : Cardinality({s \in sessions : s.request = q}) <= 1
=============================================================================
