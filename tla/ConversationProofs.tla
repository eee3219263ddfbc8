------------------------- MODULE ConversationProofs -------------------------
(* Theorems about a conversation: the session its turns are in, what is asked of a     *)
(* refused host, the reply that leaves, what is remembered afterwards, and the card of  *)
(* a plan the user is shown while it is still being written.                            *)
EXTENDS Services, FiniteSetTheorems, WellFoundedInduction, TLAPS

(***************************************************************************)
(* The session and its turns                                               *)
(***************************************************************************)

\* Sessions are numbered in the order they are made, and the revision counts them.
NumberingOK ==
    /\ IsFiniteSet(sessions)
    /\ canonical.revision = Cardinality(sessions) /\ Cardinality(sessions) <= MaxSessions
    /\ \A s \in sessions : s.id <= Cardinality(sessions)

\* A request has one session; a switch under way holds the lock.
RequestsOK == \A r, s \in sessions : r.request = s.request /\ r.request \in SwitchRequests => r = s
SwitchOK == switch # NoSwitch => model_lock = "switch"

BindingInv == BindingTypeOK /\ NumberingOK /\ RequestsOK

\* Each switch request has made one session or none.
LEMMA OneSession == ASSUME BindingInv PROVE OneSessionPerRequest
<1> SUFFICES ASSUME NEW q \in SwitchRequests
             PROVE  Cardinality({s \in sessions : s.request = q}) <= 1
  BY DEF OneSessionPerRequest
<1> DEFINE ofq == {s \in sessions : s.request = q}
<1>1. CASE ofq = {}
  BY <1>1, FS_EmptySet
<1>2. CASE ofq # {}
  <2>1. PICK s : s \in ofq BY <1>2
  <2>2. ofq = {s} BY <2>1 DEF BindingInv, RequestsOK
  <2>3. Cardinality({s}) = 1 BY FS_Singleton
  <2> QED BY <2>2, <2>3
<1> QED BY <1>1, <1>2

\* What a switch does to the lock and to the session the turns are stored in.
LockMoves ==
    \/ UNCHANGED model_lock
    \/ model_lock = "free" /\ model_lock' = "switch"
    \/ model_lock = "switch" /\ model_lock' = "free"

\* The steps of a switch.
LEMMA BindingStep ==
    ASSUME BindingInv, SwitchOK, BindingNext
    PROVE  /\ BindingInv' /\ SwitchOK' /\ LockMoves
           /\ orchestrator_session' = orchestrator_session \/ model_lock = "switch"
<1> USE DEF BindingInv
<1>0. NoSwitch.at = "idle" BY DEF NoSwitch
<1>1. ASSUME NEW q \in SwitchRequests, NEW p \in PersonaChoices, NEW r \in 1..MaxSessions,
             activate_persona(q, p, r)
      PROVE  /\ BindingInv' /\ SwitchOK' /\ LockMoves /\ UNCHANGED orchestrator_session
  <2>1. /\ model_lock = "free" /\ model_lock' = "switch"
        /\ switch' = [at |-> "asked", request |-> q, persona |-> p, expected |-> r]
        /\ UNCHANGED <<canonical, sessions, published, recovery_required,
                       orchestrator_session, gateway_session>>
    BY <1>1 DEF activate_persona, CanSwitch
  <2>2. switch' \in Switch BY <2>1 DEF Switch
  <2>3. BindingTypeOK' BY <2>1, <2>2 DEF BindingTypeOK
  <2>4. NumberingOK' /\ RequestsOK' BY <2>1 DEF NumberingOK, RequestsOK
  <2> QED BY <2>1, <2>3, <2>4 DEF SwitchOK, LockMoves
<1>2. ASSUME switch.at \in {"asked", "publish", "bind", "bind_gateway"}, SwitchReturns
      PROVE  LockMoves /\ SwitchOK' /\ switch' \in Switch \cup {NoSwitch}
  <2>1. model_lock = "switch" BY <1>0, <1>2 DEF SwitchOK
  <2> QED BY <1>2, <2>1 DEF SwitchReturns, LockMoves, SwitchOK
<1>3. ASSUME NEW here \in {"asked", "publish", "bind", "bind_gateway"}, NEW there \in {"publish", "bind", "bind_gateway"},
             switch.at = here, switch' = [switch EXCEPT !.at = there], UNCHANGED model_lock
      PROVE  LockMoves /\ SwitchOK' /\ switch' \in Switch \cup {NoSwitch}
  <2>1. switch # NoSwitch BY <1>0, <1>3
  <2>2. model_lock = "switch" BY <2>1 DEF SwitchOK
  <2>3. switch \in Switch BY <2>1 DEF BindingTypeOK
  <2>4. switch' \in Switch BY <1>3, <2>3 DEF Switch
  <2> QED BY <1>3, <2>2, <2>4 DEF LockMoves, SwitchOK
<1>4. CASE idempotent_replay
  <2>1. /\ switch.at = "asked"
        /\ (switch' = [switch EXCEPT !.at = "publish"] /\ UNCHANGED model_lock) \/ SwitchReturns
        /\ UNCHANGED <<canonical, sessions, published, recovery_required,
                       orchestrator_session, gateway_session>>
    BY <1>4 DEF idempotent_replay
  <2>2. LockMoves /\ SwitchOK' /\ switch' \in Switch \cup {NoSwitch} BY <1>2, <1>3, <2>1
  <2>3. BindingTypeOK' BY <2>1, <2>2 DEF BindingTypeOK
  <2>4. NumberingOK' /\ RequestsOK' BY <2>1 DEF NumberingOK, RequestsOK
  <2> QED BY <2>1, <2>2, <2>3, <2>4
<1>5. CASE RejectSwitch
  <2>1. /\ switch.at = "asked" /\ SwitchReturns
        /\ UNCHANGED <<canonical, sessions, published, recovery_required,
                       orchestrator_session, gateway_session>>
    BY <1>5 DEF RejectSwitch
  <2>2. LockMoves /\ SwitchOK' /\ switch' \in Switch \cup {NoSwitch} BY <1>2, <2>1
  <2>3. BindingTypeOK' BY <2>1, <2>2 DEF BindingTypeOK
  <2>4. NumberingOK' /\ RequestsOK' BY <2>1 DEF NumberingOK, RequestsOK
  <2> QED BY <2>1, <2>2, <2>3, <2>4
<1>6. CASE CommitSwitch
  <2> DEFINE n == Cardinality(sessions)
             row == [id |-> n + 1, persona |-> switch.persona, request |-> switch.request]
  <2>1. /\ switch.at = "asked" /\ CreatedBy(switch.request) = {} /\ n < MaxSessions
        /\ sessions' = sessions \cup {row}
        /\ canonical' = [session |-> n + 1, revision |-> canonical.revision + 1]
        /\ switch' = [switch EXCEPT !.at = "publish"]
        /\ UNCHANGED <<published, recovery_required, orchestrator_session, gateway_session, model_lock>>
    BY <1>6 DEF CommitSwitch
  <2>2. switch \in Switch BY <1>0, <2>1 DEF BindingTypeOK
  <2>3. LockMoves /\ SwitchOK' /\ switch' \in Switch \cup {NoSwitch} BY <1>3, <2>1
  <2>4. n \in Nat BY FS_CardinalityType DEF NumberingOK
  <2>5. \A s \in sessions : s.id \in Nat /\ s.id <= n BY DEF BindingTypeOK, SessionRow, NumberingOK
  <2>6. row \notin sessions BY <2>4, <2>5
  <2>7. IsFiniteSet(sessions') /\ Cardinality(sessions') = n + 1
    BY <2>1, <2>6, FS_AddElement DEF NumberingOK
  <2>8. canonical.revision = n BY DEF NumberingOK
  <2> HIDE DEF n
  <2>9. n + 1 \in 1..MaxSessions /\ n + 1 <= MaxSessions BY <2>1, <2>4, BindingAssumption
  <2>10. row \in SessionRow BY <2>2, <2>9 DEF SessionRow, Switch
  <2>11. canonical' \in Canonical BY <2>1, <2>8, <2>9 DEF Canonical
  <2>12. BindingTypeOK' BY <2>1, <2>3, <2>10, <2>11 DEF BindingTypeOK
  <2>13. \A s \in sessions' : s.id <= n + 1
    <3>1. \A s \in sessions : s.id <= n + 1 BY <2>4, <2>5
    <3> QED BY <2>1, <2>4, <3>1
  <2>14. NumberingOK' BY <2>1, <2>7, <2>8, <2>9, <2>13 DEF NumberingOK
  <2>15. RequestsOK' BY <2>1 DEF RequestsOK, CreatedBy
  <2> QED BY <2>1, <2>3, <2>12, <2>14, <2>15
<1>7. CASE PublishFails
  <2>1. /\ switch.at = "publish" /\ SwitchReturns /\ recovery_required' \in BOOLEAN
        /\ UNCHANGED <<canonical, sessions, published, orchestrator_session, gateway_session>>
    BY <1>7 DEF PublishFails
  <2>2. LockMoves /\ SwitchOK' /\ switch' \in Switch \cup {NoSwitch} BY <1>2, <2>1
  <2>3. BindingTypeOK' BY <2>1, <2>2 DEF BindingTypeOK
  <2>4. NumberingOK' /\ RequestsOK' BY <2>1 DEF NumberingOK, RequestsOK
  <2> QED BY <2>1, <2>2, <2>3, <2>4
<1>8. CASE PublishBinding
  <2>1. /\ switch.at = "publish" /\ switch' = [switch EXCEPT !.at = "bind"]
        /\ published' = canonical /\ recovery_required' \in BOOLEAN
        /\ UNCHANGED <<canonical, sessions, orchestrator_session, gateway_session, model_lock>>
    BY <1>8 DEF PublishBinding
  <2>2. LockMoves /\ SwitchOK' /\ switch' \in Switch \cup {NoSwitch} BY <1>3, <2>1
  <2>3. BindingTypeOK' BY <2>1, <2>2 DEF BindingTypeOK
  <2>4. NumberingOK' /\ RequestsOK' BY <2>1 DEF NumberingOK, RequestsOK
  <2> QED BY <2>1, <2>2, <2>3, <2>4
<1>9. CASE BindOrchestrator
  <2>1. /\ switch.at = "bind" /\ switch' = [switch EXCEPT !.at = "bind_gateway"]
        /\ orchestrator_session' = published.session
        /\ UNCHANGED <<canonical, sessions, published, recovery_required, gateway_session, model_lock>>
    BY <1>9 DEF BindOrchestrator
  <2>2. LockMoves /\ SwitchOK' /\ switch' \in Switch \cup {NoSwitch} BY <1>3, <2>1
  <2>3. orchestrator_session' \in 1..MaxSessions BY <2>1 DEF BindingTypeOK, Canonical
  <2>4. BindingTypeOK' BY <2>1, <2>2, <2>3 DEF BindingTypeOK
  <2>5. NumberingOK' /\ RequestsOK' BY <2>1 DEF NumberingOK, RequestsOK
  <2>6. model_lock = "switch" BY <1>0, <2>1 DEF SwitchOK
  <2> QED BY <2>2, <2>4, <2>5, <2>6
<1>10. CASE BindGateway
  <2>1. /\ switch.at = "bind_gateway" /\ SwitchReturns
        /\ gateway_session' = published.session
        /\ UNCHANGED <<canonical, sessions, published, recovery_required, orchestrator_session>>
    BY <1>10 DEF BindGateway
  <2>2. LockMoves /\ SwitchOK' /\ switch' \in Switch \cup {NoSwitch} BY <1>2, <2>1
  <2>3. gateway_session' \in 1..MaxSessions BY <2>1 DEF BindingTypeOK, Canonical
  <2>4. BindingTypeOK' BY <2>1, <2>2, <2>3 DEF BindingTypeOK
  <2>5. NumberingOK' /\ RequestsOK' BY <2>1 DEF NumberingOK, RequestsOK
  <2> QED BY <2>1, <2>2, <2>4, <2>5
<1> QED BY <1>1, <1>4, <1>5, <1>6, <1>7, <1>8, <1>9, <1>10 DEF BindingNext

\* A new process binds every holder to the committed session.
LEMMA RestoreKeeps ==
    ASSUME BindingInv, RestoreBinding
    PROVE  BindingInv' /\ SwitchOK'
<1>1. canonical'.session \in 1..MaxSessions BY DEF BindingInv, BindingTypeOK, Canonical, RestoreBinding
<1> QED BY <1>1 DEF BindingInv, BindingTypeOK, NumberingOK, RequestsOK, SwitchOK, RestoreBinding

(***************************************************************************)
(* The turns and the answers                                               *)
(***************************************************************************)

\* Of a chat request: it holds the lock while it runs; the rows it has stored so far are
\* where the second one will go; and while nothing is allowed, it goes to the cloud only
\* by a decision that asks for no consent.
TurnOK(t) ==
    /\ thread[t].turn = t /\ thread[t].at \notin {"resume", "pop", "decide"}
    /\ thread[t].at = "park" => latest_request \in Turns
    /\ thread[t].at = "look" => thread[t].request \in Turns
    /\ thread[t].at \notin {"new", "over"} => model_lock = t
    /\ thread[t].at \in {"new", "prepare", "submit", "park", "look", "user"} =>
          stored[t].user = NoSession /\ stored[t].assistant = NoSession
    /\ thread[t].at \in {"model", "fallback", "assistant"} =>
          stored[t].assistant = NoSession /\ stored[t].user \in {NoSession, orchestrator_session}
    /\ NoSession \in {stored[t].user, stored[t].assistant} \/ stored[t].user = stored[t].assistant
    /\ thread[t].at \in {"new", "prepare"} => thread[t].plan # "cloud"
    /\ allows = {} =>
          /\ asked[t].state # "allow"
          /\ thread[t].at \in {"new", "prepare"} => t \notin sent
          /\ thread[t].plan = "cloud" \/ t \in sent => ~routed[t].consent

\* Of a consent request: it resumes a turn, with a refusal while nothing is allowed.
PostOK(c) ==
    /\ thread[c].at \notin {"prepare", "submit", "park", "look"}
    /\ thread[c].at \in {"pop", "user", "model", "fallback", "assistant"} => thread[c].turn \in Turns
    /\ thread[c].at \in {"resume", "pop", "decide"} => thread[c].request \in Turns
    /\ allows = {} => thread[c].plan # "cloud"

ChatInv ==
    /\ BindingInv /\ SwitchOK /\ ChatTypeOK
    /\ \A t \in Turns : TurnOK(t)
    /\ \A c \in ConsentPosts : PostOK(c)

\* A step of request th: what it leaves alone, and what it may change.
Places == {"new", "prepare", "submit", "park", "look", "resume", "pop", "decide", "user", "model",
           "fallback", "assistant", "over"}
Plans == {"none", "fixed", "local", "cloud", "declined"}

OthersRest(th) ==
    /\ thread' \in [Threads -> Request]
    /\ \A o \in Threads \ {th} : thread'[o] = thread[o]

LockStep(th) ==
    \/ model_lock' = model_lock
    \/ th \in Turns /\ model_lock = "free" /\ model_lock' = th
    \/ th \in Turns /\ model_lock = th /\ model_lock' = "free"

ConsentsStep ==
    /\ asked' \in [Turns -> [state : {"none", "pending", "allow", "deny"}, session : 0..MaxSessions]]
    /\ \A o \in Turns : allows' = {} /\ asked'[o].state = "allow" => asked[o].state = "allow"
    /\ latest_request' = latest_request \/ latest_request' \in Turns
    /\ pending_turns' \in [Turns -> [turn : Turns, session : 0..MaxSessions]]

RecordStep(th) ==
    /\ routed' \in [Turns -> Decisions]
    /\ \A o \in Turns \ {th} : routed'[o] = routed[o]
    /\ stored' \in [Threads -> [user : 0..MaxSessions, assistant : 0..MaxSessions]]
    /\ \A o \in Turns \ {th} : stored'[o] = stored[o]
    /\ allows \subseteq allows' /\ allows' \subseteq Turns
    /\ sent' \subseteq Turns
    /\ \A o \in Turns \ {th} : allows' = {} /\ o \in sent' => o \in sent

RequestStep(th) ==
    /\ OthersRest(th) /\ LockStep(th) /\ ConsentsStep /\ RecordStep(th)
    /\ UNCHANGED <<bound, settings>>

\* The other requests keep their invariant in a step of one.
LEMMA RequestStepKeeps ==
    ASSUME ChatInv, NEW th \in Threads, RequestStep(th),
           th \in Turns => TurnOK(th)', th \in ConsentPosts => PostOK(th)'
    PROVE  ChatInv'
<1>1. /\ canonical' = canonical /\ sessions' = sessions /\ published' = published
      /\ recovery_required' = recovery_required /\ orchestrator_session' = orchestrator_session
      /\ gateway_session' = gateway_session /\ switch' = switch
      /\ privacy_mode' = privacy_mode /\ socket_guard' = socket_guard
      /\ local_available' = local_available
  BY DEF RequestStep, bound, settings
<1>2. model_lock' \in Turns \cup {"free", "switch"} BY DEF ChatInv, ChatTypeOK, RequestStep, LockStep
<1>3. BindingInv'
  BY <1>1 DEF ChatInv, BindingInv, BindingTypeOK, NumberingOK, RequestsOK
<1>4. SwitchOK'
  BY <1>1, ChatAssumption DEF ChatInv, SwitchOK, RequestStep, LockStep
<1>5. ChatTypeOK'
  BY <1>1, <1>2, <1>3
     DEF ChatInv, BindingInv, ChatTypeOK, RequestStep, OthersRest, ConsentsStep, RecordStep
<1>6. ASSUME NEW o \in Turns, o # th PROVE TurnOK(o)'
  <2>1. thread'[o] = thread[o] /\ routed'[o] = routed[o] /\ stored'[o] = stored[o]
    BY <1>6 DEF RequestStep, OthersRest, RecordStep, Threads
  <2>2. model_lock = o => model_lock' = o
    BY <1>6, ChatAssumption DEF RequestStep, LockStep, Threads
  <2>3. allows' = {} => allows = {} BY DEF RequestStep, RecordStep
  <2>4. allows' = {} => (o \in sent' => o \in sent) /\ (asked'[o].state = "allow" => asked[o].state = "allow")
    BY <1>6 DEF RequestStep, RecordStep, ConsentsStep
  <2>5. latest_request \in Turns => latest_request' \in Turns BY DEF RequestStep, ConsentsStep
  <2> QED BY <1>1, <2>1, <2>2, <2>3, <2>4, <2>5 DEF ChatInv, TurnOK
<1>7. ASSUME NEW o \in ConsentPosts, o # th PROVE PostOK(o)'
  BY <1>7 DEF ChatInv, PostOK, RequestStep, OthersRest, RecordStep, Threads
<1> QED BY <1>3, <1>4, <1>5, <1>6, <1>7 DEF ChatInv

\* What becomes of a request's record.
LEMMA ThreadMoves ==
    ASSUME ChatTypeOK, NEW th \in Threads, NEW place \in Places, thread' = MoveThread(th, place)
    PROVE  /\ OthersRest(th)
           /\ thread'[th].at = place /\ thread'[th].turn = thread[th].turn
           /\ thread'[th].request = thread[th].request /\ thread'[th].plan = thread[th].plan
BY DEF ChatTypeOK, OthersRest, MoveThread, Request, Places

LEMMA ThreadExecutes ==
    ASSUME ChatTypeOK, NEW th \in Threads, NEW plan \in Plans, thread' = Execute(th, plan)
    PROVE  /\ OthersRest(th)
           /\ thread'[th].at = "user" /\ thread'[th].turn = thread[th].turn
           /\ thread'[th].request = thread[th].request /\ thread'[th].plan = plan
<1> DEFINE r == [at |-> "user", turn |-> thread[th].turn, request |-> thread[th].request, plan |-> plan]
<1>1. thread[th] \in Request BY DEF ChatTypeOK
<1>2. r \in Request BY <1>1 DEF Request, Plans
<1>3. thread' = [thread EXCEPT ![th] = r]
  <2> DEFINE m == [thread[th] EXCEPT !.at = "user"]
  <2>1. m \in Request /\ m.at = "user" /\ m.turn = thread[th].turn /\ m.request = thread[th].request
    BY <1>1 DEF Request
  <2>2. Execute(th, plan) = [thread EXCEPT ![th] = [m EXCEPT !.plan = plan]] BY DEF Execute, ChatTypeOK
  <2> HIDE DEF m
  <2>3. [m EXCEPT !.plan = plan] = r BY <2>1 DEF Request
  <2> QED BY <2>2, <2>3
<1> HIDE DEF r
<1>4. OthersRest(th) /\ thread'[th] = r BY <1>2, <1>3 DEF ChatTypeOK, OthersRest
<1> QED BY <1>4 DEF r

LEMMA ThreadEnds ==
    ASSUME ChatTypeOK, NEW th \in Threads, thread' = [thread EXCEPT ![th] = RequestOver(th)]
    PROVE  /\ OthersRest(th)
           /\ thread'[th].at = "over" /\ thread'[th].turn = th /\ thread'[th].plan = "none"
<1>1. RequestOver(th) = [at |-> "over", turn |-> th, request |-> th, plan |-> "none"]
  BY DEF RequestOver, NotStarted
<1>2. RequestOver(th) \in Request BY <1>1 DEF Request
<1> QED BY <1>1, <1>2 DEF ChatTypeOK, OthersRest

LEMMA RequestOverEnds ==
    ASSUME ChatTypeOK, NEW th \in Threads, RequestReturns(th)
    PROVE  /\ OthersRest(th) /\ LockStep(th)
           /\ thread'[th].at = "over" /\ thread'[th].turn = th /\ thread'[th].plan = "none"
<1>1. LockStep(th) BY ChatAssumption DEF ChatTypeOK, RequestReturns, LockStep, Threads
<1> QED BY <1>1, ThreadEnds DEF RequestReturns

\* The steps of a chat request.
LEMMA TurnStep ==
    ASSUME ChatInv, NEW t \in Turns,
           \/ chat(t) \/ SafetyStop(t) \/ MemoryOnly(t) \/ RouteTurn(t) \/ RouteWithoutLocal(t)
           \/ submit(t) \/ Park(t) \/ LookAgain(t)
    PROVE  ChatInv'
<1>0. ChatTypeOK /\ TurnOK(t) /\ t \in Threads /\ t \notin ConsentPosts
  BY ChatAssumption DEF ChatInv, Threads
<1>00. orchestrator_session \in 1..MaxSessions /\ gateway_session \in 1..MaxSessions
  BY <1>0 DEF ChatTypeOK, BindingTypeOK
<1>000. SUFFICES TurnOK(t)' /\ RequestStep(t) BY <1>0, RequestStepKeeps
<1>1. CASE chat(t)
  <2>1. /\ thread[t].at = "new" /\ model_lock = "free" /\ model_lock' = t
        /\ thread' = MoveThread(t, "prepare")
        /\ UNCHANGED <<bound, settings, asked, latest_request, pending_turns, routed, stored, sent, allows>>
    BY <1>1 DEF chat, consents
  <2>2. /\ OthersRest(t) /\ thread'[t].at = "prepare" /\ thread'[t].turn = thread[t].turn
        /\ thread'[t].plan = thread[t].plan
    BY <1>0, <2>1, ThreadMoves DEF Places
  <2>3. TurnOK(t)' BY <1>0, <2>1, <2>2 DEF TurnOK
  <2>4. RequestStep(t)
    BY <1>0, <2>1, <2>2 DEF RequestStep, LockStep, ConsentsStep, RecordStep, ChatTypeOK
  <2> QED BY <2>3, <2>4
<1>2. CASE SafetyStop(t)
  <2>1. /\ thread[t].at = "prepare" /\ thread' = Execute(t, "fixed")
        /\ UNCHANGED <<bound, model_lock, settings, asked, latest_request, pending_turns, routed,
                       stored, sent, allows>>
    BY <1>2 DEF SafetyStop, consents
  <2>2. /\ OthersRest(t) /\ thread'[t].at = "user" /\ thread'[t].turn = thread[t].turn
        /\ thread'[t].plan = "fixed"
    BY <1>0, <2>1, ThreadExecutes DEF Plans
  <2>3. TurnOK(t)' BY <1>0, <2>1, <2>2 DEF TurnOK
  <2>4. RequestStep(t)
    BY <1>0, <2>1, <2>2 DEF RequestStep, LockStep, ConsentsStep, RecordStep, ChatTypeOK
  <2> QED BY <2>3, <2>4
<1>3. CASE MemoryOnly(t)
  <2>1. /\ thread[t].at = "prepare" /\ RequestReturns(t)
        /\ stored' \in {stored, [stored EXCEPT ![t].assistant = orchestrator_session]}
        /\ UNCHANGED <<bound, settings, asked, latest_request, pending_turns, routed, sent, allows>>
    BY <1>3 DEF MemoryOnly, consents
  <2>2. /\ OthersRest(t) /\ LockStep(t) /\ thread'[t].at = "over" /\ thread'[t].turn = t
        /\ thread'[t].plan = "none"
    BY <1>0, <2>1, RequestOverEnds
  <2>3. /\ stored' \in [Threads -> [user : 0..MaxSessions, assistant : 0..MaxSessions]]
        /\ \A o \in Turns \ {t} : stored'[o] = stored[o]
        /\ stored'[t].user = stored[t].user
    BY <1>0, <1>00, <2>1 DEF ChatTypeOK, Threads
  <2>4. stored[t].user = NoSession BY <1>0, <2>1 DEF TurnOK
  <2>5. TurnOK(t)' BY <1>0, <2>1, <2>2, <2>3, <2>4 DEF TurnOK
  <2>6. RequestStep(t)
    BY <1>0, <2>1, <2>2, <2>3 DEF RequestStep, ConsentsStep, RecordStep, ChatTypeOK
  <2> QED BY <2>5, <2>6
<1>4. ASSUME thread[t].at = "prepare", NEW d \in Decisions, Follow(t, d),
             UNCHANGED <<bound, settings, consents, stored, sent, allows>>
      PROVE  TurnOK(t)' /\ RequestStep(t)
  <2>1. /\ routed' = [routed EXCEPT ![t] = d]
        /\ UNCHANGED <<bound, settings, asked, latest_request, pending_turns, stored, sent, allows>>
    BY <1>4 DEF Follow, consents
  <2>2. /\ routed' \in [Turns -> Decisions] /\ routed'[t] = d
        /\ \A o \in Turns \ {t} : routed'[o] = routed[o]
    BY <1>0, <2>1 DEF ChatTypeOK
  <2>3. RecordStep(t) /\ ConsentsStep
    BY <1>0, <2>1, <2>2 DEF ConsentsStep, RecordStep, ChatTypeOK
  <2>4. CASE d.model = "none"
    <3>1. RequestReturns(t) BY <1>4, <2>4 DEF Follow
    <3>2. /\ OthersRest(t) /\ LockStep(t) /\ thread'[t].at = "over" /\ thread'[t].turn = t
          /\ thread'[t].plan = "none"
      BY <1>0, <3>1, RequestOverEnds
    <3>3. TurnOK(t)' BY <1>0, <1>4, <2>1, <2>2, <3>2 DEF TurnOK
    <3> QED BY <2>1, <2>3, <3>2, <3>3 DEF RequestStep
  <2>5. CASE d.model # "none" /\ d.consent
    <3>1. thread' = MoveThread(t, "submit") /\ UNCHANGED model_lock BY <1>4, <2>5 DEF Follow
    <3>2. /\ OthersRest(t) /\ thread'[t].at = "submit" /\ thread'[t].turn = thread[t].turn
          /\ thread'[t].plan = thread[t].plan
      BY <1>0, <3>1, ThreadMoves DEF Places
    <3>3. TurnOK(t)' BY <1>0, <1>4, <2>1, <2>2, <3>1, <3>2 DEF TurnOK
    <3> QED BY <2>1, <2>3, <3>1, <3>2, <3>3 DEF RequestStep, LockStep
  <2>6. CASE d.model # "none" /\ ~d.consent
    <3>1. thread' = Execute(t, d.model) /\ UNCHANGED model_lock BY <1>4, <2>6 DEF Follow
    <3>2. d.model \in Plans BY DEF Decisions, Plans
    <3>3. /\ OthersRest(t) /\ thread'[t].at = "user" /\ thread'[t].turn = thread[t].turn
      BY <1>0, <3>1, <3>2, ThreadExecutes
    <3>4. TurnOK(t)' BY <1>0, <1>4, <2>1, <2>2, <2>6, <3>1, <3>3 DEF TurnOK
    <3> QED BY <2>1, <2>3, <3>1, <3>3, <3>4 DEF RequestStep, LockStep
  <2> QED BY <2>4, <2>5, <2>6
<1>5. CASE RouteTurn(t)
  <2>1. PICK e \in Estimates, profile \in Profiles : Follow(t, route(e, profile))
    BY <1>5 DEF RouteTurn
  <2>2. route(e, profile) \in Decisions
    <3>1. LocalModel \in Decisions /\ Unrouted \in Decisions BY DEF LocalModel, Unrouted, Decisions
    <3>2. CloudModel(e) \in Decisions BY DEF CloudModel, Decisions, Estimates
    <3> QED BY <3>1, <3>2 DEF route
  <2> QED BY <1>4, <1>5, <2>1, <2>2 DEF RouteTurn
<1>6. CASE RouteWithoutLocal(t)
  <2>1. CASE Follow(t, CloudFallback)
    <3>1. CloudFallback \in Decisions BY DEF CloudFallback, Decisions
    <3> QED BY <1>4, <1>6, <2>1, <3>1 DEF RouteWithoutLocal
  <2>2. CASE thread' = Execute(t, "fixed") /\ UNCHANGED <<routed, model_lock>>
    <3>1. /\ thread[t].at = "prepare"
          /\ UNCHANGED <<bound, model_lock, settings, asked, latest_request, pending_turns, routed,
                         stored, sent, allows>>
      BY <1>6, <2>2 DEF RouteWithoutLocal, consents
    <3>2. /\ OthersRest(t) /\ thread'[t].at = "user" /\ thread'[t].turn = thread[t].turn
          /\ thread'[t].plan = "fixed"
      BY <1>0, <2>2, ThreadExecutes DEF Plans
    <3>3. TurnOK(t)' BY <1>0, <3>1, <3>2 DEF TurnOK
    <3>4. RequestStep(t)
      BY <1>0, <3>1, <3>2 DEF RequestStep, LockStep, ConsentsStep, RecordStep, ChatTypeOK
    <3> QED BY <3>3, <3>4
  <2> QED BY <1>6, <2>1, <2>2 DEF RouteWithoutLocal
<1>7. CASE submit(t)
  <2>1. /\ thread[t].at = "submit" /\ thread' = MoveThread(t, "park")
        /\ asked' = [asked EXCEPT ![t] = [state |-> "pending", session |-> gateway_session]]
        /\ latest_request' = t
        /\ UNCHANGED <<bound, model_lock, settings, pending_turns, routed, stored, sent, allows>>
    BY <1>7 DEF submit
  <2>2. /\ OthersRest(t) /\ thread'[t].at = "park" /\ thread'[t].turn = thread[t].turn
        /\ thread'[t].plan = thread[t].plan
    BY <1>0, <2>1, ThreadMoves DEF Places
  <2>3. /\ asked' \in [Turns -> [state : {"none", "pending", "allow", "deny"}, session : 0..MaxSessions]]
        /\ asked'[t].state = "pending"
        /\ \A o \in Turns : asked'[o].state = "allow" => asked[o].state = "allow"
    BY <1>0, <1>00, <2>1 DEF ChatTypeOK
  <2>4. TurnOK(t)' BY <1>0, <2>1, <2>2, <2>3 DEF TurnOK
  <2>5. RequestStep(t)
    BY <1>0, <2>1, <2>2, <2>3 DEF RequestStep, LockStep, ConsentsStep, RecordStep, ChatTypeOK
  <2> QED BY <2>4, <2>5
<1>8. CASE Park(t)
  <2>1. /\ thread[t].at = "park"
        /\ pending_turns' = [pending_turns EXCEPT ![latest_request] =
                                [turn |-> t, session |-> orchestrator_session]]
        /\ thread' = [thread EXCEPT ![t].at = "look", ![t].request = latest_request]
        /\ UNCHANGED <<bound, model_lock, settings, asked, latest_request, routed, stored, sent, allows>>
    BY <1>8 DEF Park
  <2>2. latest_request \in Turns BY <1>0, <2>1 DEF TurnOK
  <2>3. pending_turns' \in [Turns -> [turn : Turns, session : 0..MaxSessions]]
    BY <1>0, <1>00, <2>1, <2>2 DEF ChatTypeOK
  <2> DEFINE r == [at |-> "look", turn |-> thread[t].turn, request |-> latest_request,
                   plan |-> thread[t].plan]
  <2>4. thread[t] \in Request BY <1>0 DEF ChatTypeOK
  <2>5. r \in Request BY <2>2, <2>4 DEF Request, Threads
  <2>6. thread' = [thread EXCEPT ![t] = r]
    <3> DEFINE m == [thread[t] EXCEPT !.at = "look"]
    <3>1. m \in Request /\ m.at = "look" /\ m.turn = thread[t].turn /\ m.plan = thread[t].plan
      BY <2>4 DEF Request
    <3>2. thread' = [thread EXCEPT ![t] = [m EXCEPT !.request = latest_request]]
      BY <1>0, <2>1 DEF ChatTypeOK
    <3> HIDE DEF m
    <3>3. [m EXCEPT !.request = latest_request] = r BY <3>1 DEF Request
    <3> QED BY <3>2, <3>3
  <2> HIDE DEF r
  <2>7. OthersRest(t) /\ thread'[t] = r BY <1>0, <2>5, <2>6 DEF ChatTypeOK, OthersRest
  <2>8. TurnOK(t)' BY <1>0, <2>1, <2>2, <2>7 DEF TurnOK, r
  <2>9. RequestStep(t)
    BY <1>0, <2>1, <2>3, <2>7 DEF RequestStep, LockStep, ConsentsStep, RecordStep, ChatTypeOK
  <2> QED BY <2>8, <2>9
<1>9. CASE LookAgain(t)
  <2> DEFINE q == thread[t].request
  <2>1. /\ thread[t].at = "look"
        /\ UNCHANGED <<bound, settings, asked, latest_request, routed, stored, sent, allows>>
    BY <1>9 DEF LookAgain
  <2>2. q \in Turns BY <1>0, <2>1 DEF TurnOK
  <2>3. CASE RequestReturns(t) /\ UNCHANGED pending_turns
    <3>1. /\ OthersRest(t) /\ LockStep(t) /\ thread'[t].at = "over" /\ thread'[t].turn = t
          /\ thread'[t].plan = "none"
      BY <1>0, <2>3, RequestOverEnds
    <3>2. TurnOK(t)' BY <1>0, <2>1, <3>1 DEF TurnOK
    <3>3. RequestStep(t)
      BY <1>0, <2>1, <2>3, <3>1 DEF RequestStep, ConsentsStep, RecordStep, ChatTypeOK
    <3> QED BY <3>2, <3>3
  <2>4. CASE /\ pending_turns' = [pending_turns EXCEPT ![q] = Unparked(q)]
             /\ thread' = Execute(t, IF asked[q].state = "allow" THEN "cloud" ELSE "declined")
             /\ UNCHANGED model_lock
    <3> DEFINE p == IF asked[q].state = "allow" THEN "cloud" ELSE "declined"
    <3>1. /\ OthersRest(t) /\ thread'[t].at = "user" /\ thread'[t].turn = thread[t].turn
          /\ thread'[t].plan = p
      BY <1>0, <2>4, ThreadExecutes DEF Plans
    <3>2. pending_turns' \in [Turns -> [turn : Turns, session : 0..MaxSessions]]
      <4>1. Unparked(q) \in [turn : Turns, session : 0..MaxSessions]
        BY <2>2, BindingAssumption DEF Unparked, NoSession
      <4> QED BY <1>0, <2>4, <4>1 DEF ChatTypeOK
    <3>3. allows = {} => p # "cloud" BY <2>2 DEF ChatInv, TurnOK
    <3>4. TurnOK(t)' BY <1>0, <2>1, <2>4, <3>1, <3>3 DEF TurnOK
    <3>5. RequestStep(t)
      BY <1>0, <2>1, <2>4, <3>1, <3>2 DEF RequestStep, LockStep, ConsentsStep, RecordStep, ChatTypeOK
    <3> QED BY <3>4, <3>5
  <2> QED BY <1>9, <2>3, <2>4 DEF LookAgain
<1> QED BY <1>1, <1>2, <1>3, <1>5, <1>6, <1>7, <1>8, <1>9

\* The steps of a consent request.
LEMMA PostStep ==
    ASSUME ChatInv, NEW c \in ConsentPosts,
           \/ \E t \in Turns, allowed \in BOOLEAN : consent_decision(c, t, allowed)
           \/ ResumeLookup(c) \/ ResumePop(c) \/ DecideOnly(c)
    PROVE  ChatInv'
<1>0. ChatTypeOK /\ PostOK(c) /\ c \in Threads /\ c \notin Turns
  BY ChatAssumption DEF ChatInv, Threads
<1>00. orchestrator_session \in 1..MaxSessions BY <1>0 DEF ChatTypeOK, BindingTypeOK
<1>000. SUFFICES PostOK(c)' /\ RequestStep(c) BY <1>0, RequestStepKeeps
<1>1. ASSUME NEW t \in Turns, NEW allowed \in BOOLEAN, consent_decision(c, t, allowed)
      PROVE  PostOK(c)' /\ RequestStep(c)
  <2> DEFINE r == [at |-> "resume", turn |-> c, request |-> t,
                   plan |-> IF allowed THEN "cloud" ELSE "declined"]
  <2>1. /\ thread' = [thread EXCEPT ![c] = r]
        /\ allows' = IF allowed THEN allows \cup {t} ELSE allows
        /\ UNCHANGED <<bound, model_lock, settings, asked, latest_request, pending_turns, routed,
                       stored, sent>>
    BY <1>1 DEF consent_decision, consents
  <2>2. r \in Request BY <1>0 DEF Request, Threads
  <2>3. OthersRest(c) /\ thread'[c] = r BY <1>0, <2>1, <2>2 DEF ChatTypeOK, OthersRest
  <2>4. PostOK(c)' BY <2>1, <2>3 DEF PostOK
  <2>5. RequestStep(c)
    BY <1>0, <2>1, <2>3 DEF RequestStep, LockStep, ConsentsStep, RecordStep, ChatTypeOK
  <2> QED BY <2>4, <2>5
<1>2. CASE ResumeLookup(c)
  <2> DEFINE parked == pending_turns[thread[c].request]
  <2>1. /\ thread[c].at = "resume"
        /\ thread' = IF parked.session = orchestrator_session
                     THEN [thread EXCEPT ![c].at = "pop", ![c].turn = parked.turn]
                     ELSE MoveThread(c, "decide")
        /\ UNCHANGED <<bound, model_lock, settings, asked, latest_request, pending_turns, routed,
                       stored, sent, allows>>
    BY <1>2 DEF ResumeLookup, consents
  <2>2. thread[c].request \in Turns BY <1>0, <2>1 DEF PostOK
  <2>3. /\ OthersRest(c) /\ thread'[c].at \in {"pop", "decide"}
        /\ thread'[c].at = "pop" => thread'[c].turn \in Turns
        /\ thread'[c].request = thread[c].request /\ thread'[c].plan = thread[c].plan
    <3>1. CASE thread' = MoveThread(c, "decide")
      BY <1>0, <3>1, ThreadMoves DEF Places
    <3>2. CASE thread' = [thread EXCEPT ![c].at = "pop", ![c].turn = parked.turn]
      <4>1. parked.turn \in Turns BY <1>0, <2>2 DEF ChatTypeOK
      <4> DEFINE m == [thread[c] EXCEPT !.at = "pop"]
                 r == [m EXCEPT !.turn = parked.turn]
      <4>2. /\ m \in Request /\ m.at = "pop" /\ m.request = thread[c].request /\ m.plan = thread[c].plan
        BY <1>0, SMTT(20) DEF Request, ChatTypeOK
      <4>3. thread' = [thread EXCEPT ![c] = r] BY <1>0, <3>2 DEF ChatTypeOK
      <4> HIDE DEF m, parked
      <4>4. /\ r \in Request /\ r.at = "pop" /\ r.turn \in Turns /\ r.request = m.request /\ r.plan = m.plan
        BY <4>1, <4>2 DEF Request, Threads
      <4> HIDE DEF r
      <4>5. OthersRest(c) /\ thread'[c] = r BY <1>0, <4>3, <4>4 DEF ChatTypeOK, OthersRest
      <4> QED BY <4>2, <4>4, <4>5
    <3> QED BY <2>1, <3>1, <3>2
  <2>4. PostOK(c)' BY <1>0, <2>1, <2>2, <2>3 DEF PostOK
  <2>5. RequestStep(c)
    BY <1>0, <2>1, <2>3 DEF RequestStep, LockStep, ConsentsStep, RecordStep, ChatTypeOK
  <2> QED BY <2>4, <2>5
<1>3. ASSUME thread[c].request \in Turns, RecordDecision(c), allows' = allows
      PROVE  /\ asked' \in [Turns -> [state : {"none", "pending", "allow", "deny"}, session : 0..MaxSessions]]
             /\ \A o \in Turns : allows' = {} /\ asked'[o].state = "allow" => asked[o].state = "allow"
             /\ latest_request' \in Turns
  <2> DEFINE v == IF thread[c].plan = "cloud" THEN "allow" ELSE "deny"
             q == thread[c].request
  <2>1. asked' = [asked EXCEPT ![q].state = v] /\ latest_request' = q BY <1>3 DEF RecordDecision
  <2>2. allows = {} => v = "deny" BY <1>0 DEF PostOK
  <2>3. v \in {"allow", "deny"} /\ q \in Turns BY <1>3
  <2> HIDE DEF v, q
  <2>4. asked' \in [Turns -> [state : {"none", "pending", "allow", "deny"}, session : 0..MaxSessions]]
    BY <1>0, <2>1, <2>3 DEF ChatTypeOK
  <2>5. \A o \in Turns : asked'[o].state = IF o = q THEN v ELSE asked[o].state
    BY <1>0, <2>1, <2>3 DEF ChatTypeOK
  <2> QED BY <1>3, <2>1, <2>2, <2>3, <2>4, <2>5
<1>4. CASE ResumePop(c)
  <2> DEFINE q == thread[c].request
  <2>1. /\ thread[c].at = "pop"
        /\ UNCHANGED <<bound, model_lock, settings, routed, stored, sent, allows>>
    BY <1>4 DEF ResumePop
  <2>2. q \in Turns /\ thread[c].turn \in Turns BY <1>0, <2>1 DEF PostOK
  <2>3. CASE thread' = MoveThread(c, "decide") /\ UNCHANGED consents
    <3>1. /\ OthersRest(c) /\ thread'[c].at = "decide" /\ thread'[c].request = q
          /\ thread'[c].plan = thread[c].plan
      BY <1>0, <2>3, ThreadMoves DEF Places
    <3>2. PostOK(c)' BY <1>0, <2>1, <2>2, <3>1 DEF PostOK
    <3>3. RequestStep(c)
      BY <1>0, <2>1, <2>3, <3>1 DEF RequestStep, LockStep, ConsentsStep, RecordStep, ChatTypeOK, consents
    <3> QED BY <3>2, <3>3
  <2>4. CASE /\ pending_turns' = [pending_turns EXCEPT ![q] = Unparked(q)]
             /\ IF Visible(q) /\ asked[q].state = "pending" THEN RecordDecision(c)
                ELSE UNCHANGED <<asked, latest_request>>
             /\ thread' = Execute(c, thread[c].plan)
    <3>1. thread[c].plan \in Plans BY <1>0 DEF ChatTypeOK, Request, Plans
    <3>2. /\ OthersRest(c) /\ thread'[c].at = "user" /\ thread'[c].turn = thread[c].turn
          /\ thread'[c].plan = thread[c].plan
      BY <1>0, <2>4, <3>1, ThreadExecutes
    <3>3. pending_turns' \in [Turns -> [turn : Turns, session : 0..MaxSessions]]
      <4>1. Unparked(q) \in [turn : Turns, session : 0..MaxSessions]
        BY <2>2, BindingAssumption DEF Unparked, NoSession
      <4> QED BY <1>0, <2>4, <4>1 DEF ChatTypeOK
    <3>4. ConsentsStep
      <4>1. CASE RecordDecision(c) BY <1>3, <2>1, <2>2, <3>3, <4>1 DEF ConsentsStep
      <4>2. CASE UNCHANGED <<asked, latest_request>> BY <1>0, <3>3, <4>2 DEF ConsentsStep, ChatTypeOK
      <4> QED BY <2>4, <4>1, <4>2
    <3>5. PostOK(c)' BY <1>0, <2>1, <2>2, <3>2 DEF PostOK
    <3>6. RequestStep(c)
      BY <1>0, <2>1, <3>2, <3>4 DEF RequestStep, LockStep, RecordStep, ChatTypeOK
    <3> QED BY <3>5, <3>6
  <2> QED BY <1>4, <2>3, <2>4 DEF ResumePop
<1>5. CASE DecideOnly(c)
  <2>1. /\ thread[c].at = "decide" /\ thread' = [thread EXCEPT ![c] = RequestOver(c)]
        /\ UNCHANGED <<bound, model_lock, settings, pending_turns, routed, stored, sent, allows>>
    BY <1>5 DEF DecideOnly
  <2>2. /\ OthersRest(c) /\ thread'[c].at = "over" /\ thread'[c].plan = "none"
    BY <1>0, <2>1, ThreadEnds
  <2>3. thread[c].request \in Turns BY <1>0, <2>1 DEF PostOK
  <2>4. ConsentsStep
    <3>1. CASE RecordDecision(c) BY <1>0, <1>3, <2>1, <2>3, <3>1 DEF ConsentsStep, ChatTypeOK
    <3>2. CASE UNCHANGED <<asked, latest_request>> BY <1>0, <2>1, <3>2 DEF ConsentsStep, ChatTypeOK
    <3> QED BY <1>5, <3>1, <3>2 DEF DecideOnly
  <2>5. PostOK(c)' BY <2>2 DEF PostOK
  <2>6. RequestStep(c)
    BY <1>0, <2>1, <2>2, <2>4 DEF RequestStep, LockStep, RecordStep, ChatTypeOK
  <2> QED BY <2>5, <2>6
<1> QED BY <1>1, <1>2, <1>4, <1>5

\* The steps of a turn that is executed, by its own request or by the consent request.
LEMMA ExecutionStep ==
    ASSUME ChatInv, NEW th \in Threads,
           \/ AppendUser(th) \/ CloudCall(th) \/ LocalReply(th) \/ NoBackendReply(th)
           \/ AppendAssistant(th)
    PROVE  ChatInv'
<1>0. /\ ChatTypeOK
      /\ th \in Turns => TurnOK(th)
      /\ th \in ConsentPosts => PostOK(th)
      /\ th \in Turns => th \notin ConsentPosts
      /\ orchestrator_session \in 1..MaxSessions
  BY ChatAssumption DEF ChatInv, ChatTypeOK, BindingTypeOK
<1>00. th \in Turns \/ th \in ConsentPosts BY DEF Threads
<1>000. SUFFICES /\ th \in Turns => TurnOK(th)'
                 /\ th \in ConsentPosts => PostOK(th)'
                 /\ RequestStep(th)
  BY RequestStepKeeps
<1>1. CASE AppendUser(th)
  <2> DEFINE place == IF thread[th].plan \in {"fixed", "declined"} THEN "assistant" ELSE "model"
  <2>1. /\ thread[th].at = "user" /\ thread' = MoveThread(th, place)
        /\ stored' = [stored EXCEPT ![th].user = orchestrator_session]
        /\ UNCHANGED <<bound, model_lock, settings, asked, latest_request, pending_turns, routed,
                       sent, allows>>
    BY <1>1 DEF AppendUser, consents
  <2>2. place \in {"assistant", "model"} OBVIOUS
  <2> HIDE DEF place
  <2>3. /\ OthersRest(th) /\ thread'[th].at = place /\ thread'[th].turn = thread[th].turn
        /\ thread'[th].plan = thread[th].plan
    BY <1>0, <2>1, <2>2, ThreadMoves DEF Places
  <2>4. /\ stored' \in [Threads -> [user : 0..MaxSessions, assistant : 0..MaxSessions]]
        /\ \A o \in Turns \ {th} : stored'[o] = stored[o]
        /\ stored'[th].user = orchestrator_session /\ stored'[th].assistant = stored[th].assistant
    BY <1>0, <2>1 DEF ChatTypeOK, Threads
  <2>5. orchestrator_session' = orchestrator_session BY <2>1 DEF bound
  <2>6. th \in Turns => TurnOK(th)' BY <1>0, <2>1, <2>2, <2>3, <2>4, <2>5 DEF TurnOK
  <2>7. th \in ConsentPosts => PostOK(th)' BY <1>0, <2>1, <2>2, <2>3 DEF PostOK
  <2>8. RequestStep(th)
    BY <1>0, <2>1, <2>3, <2>4 DEF RequestStep, LockStep, ConsentsStep, RecordStep, ChatTypeOK
  <2> QED BY <2>6, <2>7, <2>8
<1>2. CASE CloudCall(th)
  <2>1. PICK outcome \in CloudOutcomes :
          /\ sent' = IF outcome.left THEN sent \cup {thread[th].turn} ELSE sent
          /\ thread' = MoveThread(th, IF outcome.ok THEN "assistant" ELSE "fallback")
    BY <1>2 DEF CloudCall
  <2> DEFINE place == IF outcome.ok THEN "assistant" ELSE "fallback"
  <2>2. /\ thread[th].at = "model" /\ thread[th].plan = "cloud"
        /\ UNCHANGED <<bound, model_lock, settings, asked, latest_request, pending_turns, routed,
                       stored, allows>>
    BY <1>2 DEF CloudCall, consents
  <2>3. place \in {"assistant", "fallback"} OBVIOUS
  <2>4. sent' \in {sent, sent \cup {thread[th].turn}} /\ thread' = MoveThread(th, place) BY <2>1
  <2> HIDE DEF place
  <2>5. /\ OthersRest(th) /\ thread'[th].at = place /\ thread'[th].turn = thread[th].turn
        /\ thread'[th].plan = thread[th].plan
    BY <1>0, <2>3, <2>4, ThreadMoves DEF Places
  <2>6. thread[th].turn \in Turns BY <1>0, <1>00, <2>2 DEF TurnOK, PostOK
  <2>7. allows = {} => thread[th].turn = th BY <1>0, <1>00, <2>2 DEF TurnOK, PostOK
  <2>8. orchestrator_session' = orchestrator_session BY <2>2 DEF bound
  <2>9. th \in Turns => TurnOK(th)' BY <1>0, <2>2, <2>3, <2>4, <2>5, <2>8 DEF TurnOK
  <2>10. th \in ConsentPosts => PostOK(th)' BY <1>0, <2>2, <2>3, <2>5 DEF PostOK
  <2>11. RequestStep(th)
    BY <1>0, <2>2, <2>4, <2>5, <2>6, <2>7
       DEF RequestStep, LockStep, ConsentsStep, RecordStep, ChatTypeOK
  <2> QED BY <2>9, <2>10, <2>11
<1>3. ASSUME thread[th].at \in {"model", "fallback"}, thread' = MoveThread(th, "assistant"),
             UNCHANGED <<bound, model_lock, settings, consents, routed, stored, sent, allows>>
      PROVE  /\ th \in Turns => TurnOK(th)'
             /\ th \in ConsentPosts => PostOK(th)'
             /\ RequestStep(th)
  <2>1. UNCHANGED <<bound, model_lock, settings, asked, latest_request, pending_turns, routed,
                    stored, sent, allows>>
    BY <1>3 DEF consents
  <2>2. /\ OthersRest(th) /\ thread'[th].at = "assistant" /\ thread'[th].turn = thread[th].turn
        /\ thread'[th].plan = thread[th].plan
    BY <1>0, <1>3, ThreadMoves DEF Places
  <2>3. orchestrator_session' = orchestrator_session BY <2>1 DEF bound
  <2>4. th \in Turns => TurnOK(th)' BY <1>0, <1>3, <2>1, <2>2, <2>3 DEF TurnOK
  <2>5. th \in ConsentPosts => PostOK(th)' BY <1>0, <1>3, <2>1, <2>2 DEF PostOK
  <2>6. RequestStep(th)
    BY <1>0, <2>1, <2>2 DEF RequestStep, LockStep, ConsentsStep, RecordStep, ChatTypeOK
  <2> QED BY <2>4, <2>5, <2>6
<1>4. ASSUME thread[th].at \in {"model", "fallback", "assistant"}, RequestReturns(th),
             stored' \in [Threads -> [user : 0..MaxSessions, assistant : 0..MaxSessions]],
             \A o \in Turns \ {th} : stored'[o] = stored[o],
             stored'[th].user = stored[th].user,
             stored'[th].assistant \in {stored[th].assistant, orchestrator_session},
             UNCHANGED <<bound, settings, consents, routed, sent, allows>>
      PROVE  /\ th \in Turns => TurnOK(th)'
             /\ th \in ConsentPosts => PostOK(th)'
             /\ RequestStep(th)
  <2>1. UNCHANGED <<bound, settings, asked, latest_request, pending_turns, routed, sent, allows>>
    BY <1>4 DEF consents
  <2>2. /\ OthersRest(th) /\ LockStep(th) /\ thread'[th].at = "over" /\ thread'[th].turn = th
        /\ thread'[th].plan = "none"
    BY <1>0, <1>4, RequestOverEnds
  <2>3. th \in Turns => NoSession \in {stored'[th].user, stored'[th].assistant}
                          \/ stored'[th].user = stored'[th].assistant
    BY <1>0, <1>4 DEF TurnOK
  <2>4. th \in Turns => TurnOK(th)' BY <1>0, <1>4, <2>1, <2>2, <2>3 DEF TurnOK
  <2>5. th \in ConsentPosts => PostOK(th)' BY <2>2 DEF PostOK
  <2>6. RequestStep(th)
    BY <1>0, <1>4, <2>1, <2>2 DEF RequestStep, ConsentsStep, RecordStep, ChatTypeOK
  <2> QED BY <2>4, <2>5, <2>6
<1>5. CASE LocalReply(th)
  <2>1. /\ thread[th].at \in {"model", "fallback"}
        /\ (thread' = MoveThread(th, "assistant") /\ UNCHANGED model_lock) \/ RequestReturns(th)
        /\ UNCHANGED <<bound, settings, consents, routed, stored, sent, allows>>
    BY <1>5 DEF LocalReply
  <2>2. stored' = stored /\ stored \in [Threads -> [user : 0..MaxSessions, assistant : 0..MaxSessions]]
    BY <1>0, <2>1 DEF ChatTypeOK
  <2>3. CASE thread' = MoveThread(th, "assistant") /\ UNCHANGED model_lock BY <1>3, <2>1, <2>3
  <2>4. CASE RequestReturns(th)
    <3>1. /\ stored' \in [Threads -> [user : 0..MaxSessions, assistant : 0..MaxSessions]]
          /\ \A o \in Turns \ {th} : stored'[o] = stored[o]
          /\ stored'[th].user = stored[th].user
          /\ stored'[th].assistant \in {stored[th].assistant, orchestrator_session}
      BY <2>2
    <3> QED BY <1>4, <2>1, <2>4, <3>1
  <2> QED BY <2>1, <2>3, <2>4
<1>6. CASE NoBackendReply(th)
  BY <1>3, <1>6 DEF NoBackendReply
<1>7. CASE AppendAssistant(th)
  <2>1. /\ thread[th].at = "assistant" /\ RequestReturns(th)
        /\ stored' = [stored EXCEPT ![th].assistant = orchestrator_session]
        /\ UNCHANGED <<bound, settings, consents, routed, sent, allows>>
    BY <1>7 DEF AppendAssistant
  <2>2. /\ stored' \in [Threads -> [user : 0..MaxSessions, assistant : 0..MaxSessions]]
        /\ \A o \in Turns \ {th} : stored'[o] = stored[o]
        /\ stored'[th].user = stored[th].user
        /\ stored'[th].assistant = orchestrator_session
    BY <1>0, <2>1 DEF ChatTypeOK, Threads
  <2> QED BY <1>4, <2>1, <2>2
<1> QED BY <1>1, <1>2, <1>5, <1>6, <1>7

\* Every step of the desktop keeps the invariant.
LEMMA ChatStep == ChatInv /\ [ChatNext]_<<bindingVars, chatVars>> => ChatInv'
<1> SUFFICES ASSUME ChatInv, [ChatNext]_<<bindingVars, chatVars>> PROVE ChatInv'
  OBVIOUS
<1>0. ChatTypeOK /\ BindingInv /\ SwitchOK BY DEF ChatInv
<1>1. ASSUME UNCHANGED chatVars, BindingInv', SwitchOK', LockMoves,
             orchestrator_session' = orchestrator_session \/ model_lock = "switch"
      PROVE  ChatInv'
  <2>1. UNCHANGED <<privacy_mode, socket_guard, local_available, thread, asked, latest_request,
                    pending_turns, routed, stored, sent, allows>>
    BY <1>1 DEF chatVars
  <2>2. ChatTypeOK' BY <1>0, <1>1, <2>1 DEF ChatTypeOK, BindingInv, LockMoves
  <2>3. ASSUME NEW t \in Turns PROVE TurnOK(t)'
    <3>1. model_lock = t => model_lock' = t /\ orchestrator_session' = orchestrator_session
      BY <1>1, ChatAssumption DEF LockMoves
    <3>2. TurnOK(t) BY DEF ChatInv
    <3> QED BY <2>1, <3>1, <3>2 DEF TurnOK
  <2>4. ASSUME NEW c \in ConsentPosts PROVE PostOK(c)'
    BY <2>1 DEF ChatInv, PostOK
  <2> QED BY <1>1, <2>2, <2>3, <2>4 DEF ChatInv
<1>2. CASE BindingNext /\ UNCHANGED chatVars
  BY <1>0, <1>1, <1>2, BindingStep
<1>3. ASSUME NEW t \in Turns,
             \/ chat(t) \/ SafetyStop(t) \/ MemoryOnly(t) \/ RouteTurn(t) \/ RouteWithoutLocal(t)
             \/ submit(t) \/ Park(t) \/ LookAgain(t)
      PROVE  ChatInv'
  BY <1>3, TurnStep
<1>4. ASSUME NEW c \in ConsentPosts,
             \/ \E t \in Turns, allowed \in BOOLEAN : consent_decision(c, t, allowed)
             \/ ResumeLookup(c) \/ ResumePop(c) \/ DecideOnly(c)
      PROVE  ChatInv'
  BY <1>4, PostStep
<1>5. ASSUME NEW th \in Threads,
             \/ AppendUser(th) \/ CloudCall(th) \/ LocalReply(th) \/ NoBackendReply(th)
             \/ AppendAssistant(th)
      PROVE  ChatInv'
  BY <1>5, ExecutionStep
<1>6. ASSUME UNCHANGED <<bindingVars, thread, consents, routed, stored, sent, allows>>,
             privacy_mode' \in Modes, socket_guard' \in BOOLEAN, local_available' \in BOOLEAN
      PROVE  ChatInv'
  <2>1. /\ UNCHANGED <<canonical, sessions, published, recovery_required, orchestrator_session,
                       gateway_session, model_lock, switch>>
        /\ UNCHANGED <<thread, asked, latest_request, pending_turns, routed, stored, sent, allows>>
    BY <1>6 DEF bindingVars, consents
  <2>2. BindingInv' /\ SwitchOK'
    BY <1>0, <2>1 DEF BindingInv, BindingTypeOK, NumberingOK, RequestsOK, SwitchOK
  <2>3. ChatTypeOK' BY <1>0, <1>6, <2>1, <2>2 DEF ChatTypeOK, BindingInv
  <2>4. ASSUME NEW t \in Turns PROVE TurnOK(t)' BY <2>1 DEF ChatInv, TurnOK
  <2>5. ASSUME NEW c \in ConsentPosts PROVE PostOK(c)' BY <2>1 DEF ChatInv, PostOK
  <2> QED BY <2>2, <2>3, <2>4, <2>5 DEF ChatInv
<1>7. ASSUME NEW mode \in Modes, set_privacy_mode(mode) PROVE ChatInv'
  <2>1. UNCHANGED <<bindingVars, thread, consents, routed, stored, sent, allows>>
    BY <1>7 DEF set_privacy_mode
  <2>2. privacy_mode' \in Modes /\ socket_guard' \in BOOLEAN /\ local_available' \in BOOLEAN
    BY <1>0, <1>7 DEF set_privacy_mode, GuardFor, ChatTypeOK
  <2> QED BY <1>6, <2>1, <2>2
<1>8. ASSUME NEW mode \in Modes, set_settings(mode) PROVE ChatInv'
  <2>1. UNCHANGED <<bindingVars, thread, consents, routed, stored, sent, allows>>
    BY <1>8 DEF set_settings
  <2>2. privacy_mode' \in Modes /\ socket_guard' \in BOOLEAN /\ local_available' \in BOOLEAN
    BY <1>0, <1>8 DEF set_settings, ChatTypeOK
  <2> QED BY <1>6, <2>1, <2>2
<1>9. CASE activate_model
  <2>1. UNCHANGED <<bindingVars, thread, consents, routed, stored, sent, allows>>
    BY <1>9 DEF activate_model
  <2>2. privacy_mode' \in Modes /\ socket_guard' \in BOOLEAN /\ local_available' \in BOOLEAN
    BY <1>0, <1>9 DEF activate_model, ChatTypeOK
  <2> QED BY <1>6, <2>1, <2>2
<1>10. CASE clear_chat
  <2> DEFINE kept(th, row) == IF stored[th][row] = orchestrator_session THEN NoSession
                              ELSE stored[th][row]
  <2>1. /\ stored' = [th \in Threads |-> [row \in {"user", "assistant"} |-> kept(th, row)]]
        /\ UNCHANGED <<bindingVars, privacy_mode, socket_guard, local_available, thread, consents,
                       routed, sent, allows, restarts>>
    BY <1>10 DEF clear_chat
  <2>2. /\ UNCHANGED <<canonical, sessions, published, recovery_required, orchestrator_session,
                       gateway_session, model_lock, switch>>
        /\ UNCHANGED <<privacy_mode, socket_guard, local_available, thread, asked, latest_request,
                       pending_turns, routed, sent, allows>>
    BY <2>1 DEF bindingVars, consents
  <2>3. \A th \in Threads : /\ stored'[th].user = kept(th, "user")
                            /\ stored'[th].assistant = kept(th, "assistant")
    BY <2>1
  <2>4. \A th \in Threads : /\ stored[th].user \in 0..MaxSessions
                            /\ stored[th].assistant \in 0..MaxSessions
    BY <1>0 DEF ChatTypeOK
  <2>5. stored' \in [Threads -> [user : 0..MaxSessions, assistant : 0..MaxSessions]]
    <3>1. ASSUME NEW th \in Threads
          PROVE  [row \in {"user", "assistant"} |-> kept(th, row)]
                    \in [user : 0..MaxSessions, assistant : 0..MaxSessions]
      <4>1. kept(th, "user") \in 0..MaxSessions /\ kept(th, "assistant") \in 0..MaxSessions
        BY <2>4, BindingAssumption DEF NoSession
      <4> HIDE DEF kept
      <4> QED BY <4>1
    <3> HIDE DEF kept
    <3> QED BY <2>1, <3>1
  <2>6. BindingInv' /\ SwitchOK'
    BY <1>0, <2>2 DEF BindingInv, BindingTypeOK, NumberingOK, RequestsOK, SwitchOK
  <2>7. ChatTypeOK' BY <1>0, <2>2, <2>5, <2>6 DEF ChatTypeOK, BindingInv
  <2>8. ASSUME NEW t \in Turns PROVE TurnOK(t)'
    <3>1. stored'[t].user = kept(t, "user") /\ stored'[t].assistant = kept(t, "assistant")
      BY <2>3 DEF Threads
    <3>2. /\ stored[t].user = NoSession => stored'[t].user = NoSession
          /\ stored[t].assistant = NoSession => stored'[t].assistant = NoSession
          /\ stored[t].user = orchestrator_session => stored'[t].user = NoSession
          /\ stored[t].user = stored[t].assistant => stored'[t].user = stored'[t].assistant
      BY <3>1
    <3>3. TurnOK(t) BY DEF ChatInv
    <3> QED BY <2>2, <3>2, <3>3 DEF TurnOK
  <2>9. ASSUME NEW c \in ConsentPosts PROVE PostOK(c)' BY <2>2 DEF ChatInv, PostOK
  <2> QED BY <2>6, <2>7, <2>8, <2>9 DEF ChatInv
<1>11. CASE Restart
  <2>1. /\ RestoreBinding
        /\ thread' = [th \in Threads |-> IF thread[th].at = "new" THEN thread[th] ELSE RequestOver(th)]
        /\ asked' = [t \in Turns |-> Unasked]
        /\ latest_request' = "none"
        /\ pending_turns' = [t \in Turns |-> Unparked(t)]
        /\ socket_guard' = GuardFor(privacy_mode)
        /\ local_available' \in BOOLEAN
        /\ UNCHANGED <<privacy_mode, routed, stored, sent, allows>>
    BY <1>11 DEF Restart
  <2>2. BindingInv' /\ SwitchOK' BY <1>0, <2>1, RestoreKeeps
  <2>3. \A th \in Threads : RequestOver(th) = [at |-> "over", turn |-> th, request |-> th, plan |-> "none"]
    BY DEF RequestOver, NotStarted
  <2>4. thread' \in [Threads -> Request]
    <3>1. \A th \in Threads : RequestOver(th) \in Request BY <2>3 DEF Request
    <3> QED BY <1>0, <2>1, <3>1 DEF ChatTypeOK
  <2>5. \A th \in Threads : \/ thread'[th] = thread[th] /\ thread[th].at = "new"
                            \/ thread'[th].at = "over" /\ thread'[th].turn = th /\ thread'[th].plan = "none"
    BY <2>1, <2>3
  <2>6. asked' \in [Turns -> [state : {"none", "pending", "allow", "deny"}, session : 0..MaxSessions]]
    <3>1. Unasked \in [state : {"none", "pending", "allow", "deny"}, session : 0..MaxSessions]
      BY BindingAssumption DEF Unasked, NoSession
    <3> QED BY <2>1, <3>1
  <2>7. pending_turns' \in [Turns -> [turn : Turns, session : 0..MaxSessions]]
    <3>1. \A t \in Turns : Unparked(t) \in [turn : Turns, session : 0..MaxSessions]
      BY BindingAssumption DEF Unparked, NoSession
    <3> QED BY <2>1, <3>1
  <2>8. model_lock' = "free" /\ orchestrator_session' = canonical.session BY <2>1 DEF RestoreBinding
  <2>9. ChatTypeOK'
    BY <1>0, <2>1, <2>2, <2>4, <2>6, <2>7, <2>8 DEF ChatTypeOK, BindingInv, GuardFor
  <2>10. ASSUME NEW t \in Turns PROVE TurnOK(t)'
    <3>1. t \in Threads /\ TurnOK(t) BY DEF Threads, ChatInv
    <3>2. asked'[t].state = "none" BY <2>1 DEF Unasked
    <3>3. CASE thread'[t] = thread[t] /\ thread[t].at = "new"
      BY <2>1, <2>8, <3>1, <3>2, <3>3 DEF TurnOK
    <3>4. CASE thread'[t].at = "over" /\ thread'[t].turn = t /\ thread'[t].plan = "none"
      BY <2>1, <2>8, <3>1, <3>2, <3>4 DEF TurnOK
    <3> QED BY <2>5, <3>1, <3>3, <3>4
  <2>11. ASSUME NEW c \in ConsentPosts PROVE PostOK(c)'
    BY <2>1, <2>5 DEF ChatInv, PostOK, Threads
  <2> QED BY <2>2, <2>9, <2>10, <2>11 DEF ChatInv
<1>12. CASE UNCHANGED <<bindingVars, chatVars>>
  <2>1. /\ UNCHANGED <<canonical, sessions, published, recovery_required, orchestrator_session,
                       gateway_session, model_lock, switch>>
        /\ UNCHANGED chatVars
    BY <1>12 DEF bindingVars
  <2>2. BindingInv' /\ SwitchOK'
    BY <1>0, <2>1 DEF BindingInv, BindingTypeOK, NumberingOK, RequestsOK, SwitchOK
  <2> QED BY <1>1, <2>1, <2>2 DEF LockMoves
<1> QED BY <1>2, <1>3, <1>4, <1>5, <1>7, <1>8, <1>9, <1>10, <1>11, <1>12 DEF ChatNext

LEMMA ChatStarts == DesktopInit => ChatInv
<1> SUFFICES ASSUME DesktopInit PROVE ChatInv OBVIOUS
<1>1. PICK p \in PersonaChoices : sessions = {[id |-> 1, persona |-> p, request |-> NoRequest]}
  BY DEF DesktopInit, BindingInit
<1>2. /\ canonical = [session |-> 1, revision |-> 1] /\ published = canonical
      /\ recovery_required = FALSE /\ orchestrator_session = 1 /\ gateway_session = 1
      /\ model_lock = "free" /\ switch = NoSwitch
  BY DEF DesktopInit, BindingInit
<1>3. 1 \in 1..MaxSessions /\ 0 \in 0..MaxSessions /\ 1 <= MaxSessions BY BindingAssumption
<1>4. BindingTypeOK
  <2>1. canonical \in Canonical /\ published \in Canonical BY <1>2, <1>3 DEF Canonical
  <2>2. sessions \subseteq SessionRow BY <1>1, <1>3 DEF SessionRow
  <2> QED BY <1>2, <1>3, <2>1, <2>2 DEF BindingTypeOK
<1>5. NumberingOK
  <2>1. IsFiniteSet(sessions) /\ Cardinality(sessions) = 1 BY <1>1, FS_Singleton
  <2> QED BY <1>1, <1>2, <1>3, <2>1 DEF NumberingOK
<1>6. RequestsOK /\ SwitchOK BY <1>1, <1>2 DEF RequestsOK, SwitchOK
<1>7. /\ privacy_mode \in Modes /\ socket_guard = GuardFor(privacy_mode) /\ local_available \in BOOLEAN
      /\ thread = [th \in Threads |-> NotStarted(th)] /\ asked = [t \in Turns |-> Unasked]
      /\ latest_request = "none" /\ pending_turns = [t \in Turns |-> Unparked(t)]
      /\ routed = [t \in Turns |-> Unrouted] /\ stored = [th \in Threads |-> NoRows]
      /\ sent = {} /\ allows = {}
  BY DEF DesktopInit, ChatInit
<1>8. thread \in [Threads -> Request]
  BY <1>7 DEF NotStarted, Request
<1>9. /\ asked \in [Turns -> [state : {"none", "pending", "allow", "deny"}, session : 0..MaxSessions]]
      /\ pending_turns \in [Turns -> [turn : Turns, session : 0..MaxSessions]]
      /\ routed \in [Turns -> Decisions]
      /\ stored \in [Threads -> [user : 0..MaxSessions, assistant : 0..MaxSessions]]
  BY <1>3, <1>7 DEF Unasked, Unparked, Unrouted, Decisions, NoRows, NoSession
<1>10. ChatTypeOK BY <1>2, <1>4, <1>7, <1>8, <1>9 DEF ChatTypeOK, GuardFor
<1>11. ASSUME NEW t \in Turns PROVE TurnOK(t)
  BY <1>7 DEF TurnOK, Threads, NotStarted, NoRows, NoSession, Unasked
<1>12. ASSUME NEW c \in ConsentPosts PROVE PostOK(c)
  BY <1>7 DEF PostOK, Threads, NotStarted
<1> QED BY <1>4, <1>5, <1>6, <1>10, <1>11, <1>12 DEF ChatInv, BindingInv

\* The invariant is enough for the properties of the turns.
LEMMA ChatInvIsEnough ==
    ChatInv => ChatTypeOK /\ RefusedStaysLocal /\ OneSessionPerRequest /\ TurnStaysInSession
<1> SUFFICES ASSUME ChatInv
             PROVE  ChatTypeOK /\ RefusedStaysLocal /\ OneSessionPerRequest /\ TurnStaysInSession
  OBVIOUS
<1>1. OneSessionPerRequest BY OneSession DEF ChatInv
<1>2. TurnStaysInSession BY DEF ChatInv, TurnOK, TurnStaysInSession
<1>3. RefusedStaysLocal BY DEF ChatInv, ChatTypeOK, TurnOK, RefusedStaysLocal
<1> QED BY <1>1, <1>2, <1>3 DEF ChatInv

\* As long as nothing is allowed, no turn that needs consent leaves for the cloud.
THEOREM ChatKeepsRefusals == ChatSpec => []RefusedStaysLocal
<1>1. ChatInv => RefusedStaysLocal BY ChatInvIsEnough
<1> QED BY <1>1, ChatStarts, ChatStep, PTL DEF ChatSpec

(***************************************************************************)
(* Persona snapshots                                                       *)
(***************************************************************************)

\* Of the row at most one column has changed: its text, or the digest, is what was written.
RowOK ==
    session_row # NoSnapshot =>
        \E w \in Written : session_row.json = w.json \/ session_row.sha256 = w.sha256

\* What is bound was read from a text that was written.
ContextOK ==
    context.kind = "bound" => \E w \in Written : context = PersonaFromSnapshot(w.json.payload)

SnapshotInv ==
    /\ SnapshotTypeOK /\ RowOK /\ ContextOK
    /\ session_row \in Written => context # SwitchRefused

\* What a written row holds.
LEMMA WrittenRows ==
    ASSUME persona \in PersonaShapes, NEW w \in Written
    PROVE  /\ w.schema = 1 /\ w.persona_id = persona.id
           /\ w.source \in SnapshotSources /\ w.json.payload.source = w.source
           /\ w.json = CanonicalJson(w.json.payload) /\ w.sha256 = Sha256(w.json)
           /\ w.json.payload.id = persona.id
           /\ w.json.payload.ocean = NormalizedOcean(persona)
           /\ w.json.payload.level = Level(NormalizedOcean(persona))
           /\ w.json.payload.status = persona.status
           /\ w.json.payload.manifest = persona.manifest
           /\ w.json.payload.prompt \in {persona.prompt, "assembled"}
           /\ w # NoSnapshot
<1>1. PICK p, s : /\ w = build_persona_snapshot(p, s)
                  /\ p \in {persona, [persona EXCEPT !.prompt = "assembled"]}
                  /\ s \in SnapshotSources
  BY DEF Written, SnapshotForNewSession, SnapshotSources
<1>2. /\ p.id = persona.id /\ p.ocean = persona.ocean /\ p.status = persona.status
      /\ p.manifest = persona.manifest /\ p.prompt \in {persona.prompt, "assembled"}
  BY <1>1 DEF PersonaShapes
<1>3. NormalizedOcean(p) = NormalizedOcean(persona) BY <1>2 DEF NormalizedOcean
<1>4. w.json = CanonicalJson(Payload(p, s)) /\ w.json.payload = Payload(p, s)
  BY <1>1 DEF build_persona_snapshot, CanonicalJson
<1>5. w.schema = 1 /\ w.persona_id = p.id /\ w.source = s /\ w.sha256 = Sha256(w.json)
  BY <1>1 DEF build_persona_snapshot, Sha256
<1>6. w # NoSnapshot BY <1>5 DEF NoSnapshot
<1>7. /\ Payload(p, s).source = s /\ Payload(p, s).id = p.id
      /\ Payload(p, s).ocean = NormalizedOcean(p) /\ Payload(p, s).level = Level(NormalizedOcean(p))
      /\ Payload(p, s).status = p.status /\ Payload(p, s).manifest = p.manifest
      /\ Payload(p, s).prompt = p.prompt
  BY DEF Payload
<1> QED BY <1>1, <1>2, <1>3, <1>4, <1>5, <1>6, <1>7

\* A row as it was written can be read.
LEMMA WrittenIsValid ==
    ASSUME persona \in PersonaShapes, NEW w \in Written
    PROVE  validate_persona_snapshot(w)
<1>1. persona.prompt = "own" /\ persona.ocean \in TraitValues \cup {NoOcean} BY DEF PersonaShapes
<1>2. NormalizedOcean(persona) \in 0..100
  <2>1. CASE persona.ocean = NoOcean BY <2>1 DEF NormalizedOcean
  <2>2. CASE persona.ocean # NoOcean
    <3>1. persona.ocean \in 0..100 BY <1>1, <2>2, SnapshotsAssumption
    <3> QED BY <2>2, <3>1 DEF NormalizedOcean
  <2> QED BY <2>1, <2>2
<1> QED BY <1>1, <1>2, WrittenRows DEF validate_persona_snapshot, PayloadIsValid

\* A row that can be read says what was written.
LEMMA ValidIsWritten ==
    ASSUME persona \in PersonaShapes, RowOK, session_row # NoSnapshot,
           validate_persona_snapshot(session_row)
    PROVE  \E w \in Written : session_row.json.payload = w.json.payload
<1>1. PICK w \in Written : session_row.json = w.json \/ session_row.sha256 = w.sha256
  BY DEF RowOK
<1>2. CASE session_row.json = w.json BY <1>2
<1>3. CASE session_row.sha256 = w.sha256
  <2>1. Sha256(CanonicalJson(session_row.json.payload)) = session_row.sha256
    BY DEF validate_persona_snapshot
  <2>2. w.sha256 = w.json /\ w.json = CanonicalJson(w.json.payload) BY WrittenRows DEF Sha256
  <2>3. CanonicalJson(session_row.json.payload) = CanonicalJson(w.json.payload)
    BY <1>3, <2>1, <2>2 DEF Sha256
  <2>4. CanonicalJson(session_row.json.payload).payload = CanonicalJson(w.json.payload).payload
    BY <2>3
  <2> QED BY <2>4 DEF CanonicalJson
<1> QED BY <1>1, <1>2, <1>3

LEMMA SnapshotStep == SnapshotInv /\ [SnapshotNext]_snapshotVars => SnapshotInv'
<1> SUFFICES ASSUME SnapshotInv, [SnapshotNext]_snapshotVars PROVE SnapshotInv' OBVIOUS
<1>0. persona \in PersonaShapes BY DEF SnapshotInv, SnapshotTypeOK
<1>1. persona' = persona
  BY DEF SnapshotNext, snapshotVars, CreateSession, BackfillLegacySession, RowChanges, RestoreSession
<1>2. Written' = Written BY <1>1 DEF Written
<1>3. ASSUME NEW payload PROVE PersonaFromSnapshot(payload).kind = "bound" BY DEF PersonaFromSnapshot
<1>4. Unbound.kind = "unbound" /\ SwitchRefused.kind = "refused" BY DEF Unbound, SwitchRefused
<1>5. CASE CreateSession
  <2>1. CASE Buildable(persona)
    <3>1. /\ session_row' = SnapshotForNewSession(persona)
          /\ context' = PersonaFromSnapshot(session_row'.json.payload)
      BY <1>5, <2>1 DEF CreateSession
    <3>2. session_row' \in Written BY <3>1 DEF Written
    <3>3. context'.kind = "bound" BY <1>3, <3>1
    <3> QED BY <1>0, <1>1, <1>2, <1>4, <3>1, <3>2, <3>3 DEF SnapshotInv, SnapshotTypeOK, RowOK, ContextOK
  <2>2. CASE ~Buildable(persona)
    <3>1. context' = SwitchRefused /\ session_row' = NoSnapshot BY <1>5, <2>2 DEF CreateSession
    <3>2. session_row' \notin Written' BY <1>0, <1>2, <3>1, WrittenRows
    <3> QED BY <1>0, <1>1, <1>4, <3>1, <3>2 DEF SnapshotInv, SnapshotTypeOK, RowOK, ContextOK
  <2> QED BY <2>1, <2>2
<1>6. CASE BackfillLegacySession
  <2>1. context' = Unbound /\ session_row' \in Written
    BY <1>6 DEF BackfillLegacySession, Written
  <2> QED BY <1>0, <1>1, <1>2, <1>4, <2>1 DEF SnapshotInv, SnapshotTypeOK, RowOK, ContextOK
<1>7. CASE RowChanges
  <2>1. session_row \in Written /\ context' = Unbound BY <1>7 DEF RowChanges
  <2>2. session_row'.json = session_row.json \/ session_row'.sha256 = session_row.sha256
    <3>1. PICK p, s : session_row = build_persona_snapshot(p, s)
      BY <2>1 DEF Written, SnapshotForNewSession
    <3>2. \A v : /\ [session_row EXCEPT !.json = v].sha256 = session_row.sha256
                 /\ [session_row EXCEPT !.schema = v].json = session_row.json
                 /\ [session_row EXCEPT !.persona_id = v].json = session_row.json
                 /\ [session_row EXCEPT !.source = v].json = session_row.json
                 /\ [session_row EXCEPT !.sha256 = v].json = session_row.json
      BY <3>1 DEF build_persona_snapshot
    <3> QED BY <1>7, <3>2 DEF RowChanges
  <2> QED BY <1>0, <1>1, <1>2, <1>4, <2>1, <2>2 DEF SnapshotInv, SnapshotTypeOK, RowOK, ContextOK
<1>8. CASE RestoreSession
  <2>1. /\ session_row # NoSnapshot /\ session_row' = session_row
        /\ context' = IF validate_persona_snapshot(session_row)
                      THEN PersonaFromSnapshot(session_row.json.payload) ELSE SwitchRefused
    BY <1>8 DEF RestoreSession
  <2>2. RowOK' BY <1>2, <2>1 DEF SnapshotInv, RowOK
  <2>3. CASE validate_persona_snapshot(session_row)
    <3>1. PICK w \in Written : session_row.json.payload = w.json.payload
      BY <1>0, <2>1, <2>3, ValidIsWritten DEF SnapshotInv
    <3>2. context'.kind = "bound" /\ context' = PersonaFromSnapshot(w.json.payload) BY <1>3, <2>1, <2>3, <3>1
    <3> QED BY <1>0, <1>1, <1>2, <1>4, <2>2, <3>2 DEF SnapshotInv, SnapshotTypeOK, ContextOK
  <2>4. CASE ~validate_persona_snapshot(session_row)
    <3>1. session_row' \notin Written' BY <1>0, <1>2, <2>1, <2>4, WrittenIsValid
    <3>2. context' = SwitchRefused BY <2>1, <2>4
    <3> QED BY <1>0, <1>1, <1>4, <2>2, <3>1, <3>2 DEF SnapshotInv, SnapshotTypeOK, ContextOK
  <2> QED BY <2>3, <2>4
<1>9. CASE UNCHANGED snapshotVars
  BY <1>2, <1>9 DEF snapshotVars, SnapshotInv, SnapshotTypeOK, RowOK, ContextOK
<1> QED BY <1>5, <1>6, <1>7, <1>8, <1>9 DEF SnapshotNext

LEMMA SnapshotStarts == SnapshotInit => SnapshotInv
<1> SUFFICES ASSUME SnapshotInit PROVE SnapshotInv OBVIOUS
<1>1. persona \in PersonaShapes /\ session_row = NoSnapshot /\ context = Unbound BY DEF SnapshotInit
<1>2. session_row \notin Written BY <1>1, WrittenRows
<1> QED BY <1>1, <1>2 DEF SnapshotInv, SnapshotTypeOK, RowOK, ContextOK, Unbound

LEMMA SnapshotInvIsEnough == SnapshotInv => SnapshotKeepsPersona
<1> SUFFICES ASSUME SnapshotInv PROVE SnapshotKeepsPersona OBVIOUS
<1>1. ASSUME context.kind = "bound"
      PROVE  /\ context.ocean = NormalizedOcean(persona)
             /\ context.status = persona.status
             /\ context.prompt \in {persona.prompt, "assembled"}
             /\ context.manifest = persona.manifest
  <2>1. PICK w \in Written : context = PersonaFromSnapshot(w.json.payload)
    BY <1>1 DEF SnapshotInv, ContextOK
  <2>2. /\ context.ocean = w.json.payload.ocean /\ context.status = w.json.payload.status
        /\ context.prompt = w.json.payload.prompt /\ context.manifest = w.json.payload.manifest
    BY <2>1 DEF PersonaFromSnapshot
  <2> QED BY <2>2, WrittenRows DEF SnapshotInv, SnapshotTypeOK
<1> QED BY <1>1 DEF SnapshotInv, SnapshotKeepsPersona

\* A persona switch makes one session per request, a turn stays in its session, and a
\* session stays bound to the persona it was made for, or to none, for any number of
\* requests, turns and restarts (session_binding.switch_persona, http_host's chat handler,
\* validate_persona_snapshot).
THEOREM SwitchesStaySafe == ChatSpec /\ SnapshotSpec => []SwitchesAreSafe
<1>1. ChatSpec => []ChatInv BY ChatStarts, ChatStep, PTL DEF ChatSpec
<1>2. SnapshotSpec => []SnapshotInv BY SnapshotStarts, SnapshotStep, PTL DEF SnapshotSpec
<1>3. ChatInv /\ SnapshotInv => SwitchesAreSafe
  BY ChatInvIsEnough, SnapshotInvIsEnough DEF SwitchesAreSafe
<1> QED BY <1>1, <1>2, <1>3, PTL

(***************************************************************************)
(* A reply                                                                 *)
(***************************************************************************)

\* The candidate is a text once the model has answered; what a managed session is about to
\* release has passed the scan.
CandidateOK ==
    /\ cand \in Text \cup {NoText}
    /\ step \in {"arithmetic", "correct", "scan", "retry", "rescan", "release", "fail_closed"} =>
          cand \in Text
    /\ session.managed /\ step \in {"release", "fail_closed"} => cand.l4 # "retry"

ShownOK == shown \subseteq Text /\ (session.managed => \A t \in shown : t.l4 # "retry")

RowKept == [text : Text, status : {"completed", "error", "partial"}, pending : BOOLEAN, polished : BOOLEAN]

KeptOK == \/ reply_kept = NoRow
          \/ reply_kept \in RowKept /\ (session.managed => reply_kept.text.l4 # "retry")

ReplyInv == ReplyTypeOK /\ CandidateOK /\ ShownOK /\ KeptOK

\* The texts there are.
LEMMA ReplyTexts ==
    /\ Frozen \in Text /\ Frozen.l4 = "direct"
    /\ NoText \notin Text
    /\ \A t \in Generated : t \in Text
    /\ \A t \in Text : Warnings(t) \subseteq Text
<1>1. Frozen \in Text /\ Frozen.l4 = "direct" BY DEF Frozen, Text
<1>2. NoText \notin Text
  <2>1. \A t \in Text : t.origin # "none" BY DEF Text
  <2> QED BY <2>1 DEF NoText
<1>3. \A t \in Generated : t \in Text BY DEF Generated
<1>4. ASSUME NEW t \in Text, NEW w \in Warnings(t) PROVE w \in Text
  <2>1. PICK v \in {"direct", "observe", "retry"} : w = [t EXCEPT !.warned = TRUE, !.l4 = v]
    BY <1>4 DEF Warnings
  <2> DEFINE m == [t EXCEPT !.warned = TRUE]
  <2>2. m \in Text BY DEF Text
  <2>3. w = [m EXCEPT !.l4 = v] BY <2>1
  <2> HIDE DEF m
  <2> QED BY <2>2, <2>3 DEF Text
<1> QED BY <1>1, <1>2, <1>3, <1>4

LEMMA L3Results ==
    ASSUME NEW audited
    PROVE  L3Result(audited) \in {"unmanaged", "invalid_emotion_signal", "low_intensity_correction",
                                  "low_intensity_comfort", "standard_intensity"}
BY DEF L3Result, resolve_l3

LEMMA RowsKept ==
    ASSUME NEW t \in Text, NEW s \in {"completed", "error", "partial"}, NEW b \in BOOLEAN
    PROVE  /\ MessageRow(t, s, b) \in RowKept /\ MessageRow(t, s, b).text = t
           /\ \A row \in Polish(MessageRow(t, s, b)) : row \in RowKept /\ row.text = t
<1>1. MessageRow(t, s, b) \in RowKept /\ MessageRow(t, s, b).text = t BY DEF MessageRow, RowKept
<1> DEFINE r == MessageRow(t, s, b)
<1> HIDE DEF r
<1>2. r \in RowKept /\ r.text = t BY <1>1 DEF r
<1>3. [r EXCEPT !.polished = TRUE] \in RowKept /\ [r EXCEPT !.polished = TRUE].text = t
  BY <1>2 DEF RowKept
<1>4. \A row \in Polish(r) : row \in RowKept /\ row.text = t BY <1>2, <1>3 DEF Polish
<1> QED BY <1>1, <1>4 DEF r

LEMMA ReplyStep == ReplyInv /\ [ReplyNext]_replyVars => ReplyInv'
<1> SUFFICES ASSUME ReplyInv, [ReplyNext]_replyVars PROVE ReplyInv' OBVIOUS
<1> DEFINE steps == {"context", "generate", "arithmetic", "correct", "scan", "retry", "rescan",
                     "release", "fail_closed", "raised", "over"}
<1>0. /\ session \in Sessions /\ step \in steps /\ CandidateOK /\ ShownOK /\ KeptOK
      /\ signals \subseteq {"warning_appended", "retry_taken"} /\ pending \in BOOLEAN
      /\ l3 \in {"unmanaged", "invalid_emotion_signal", "low_intensity_correction",
                 "low_intensity_comfort", "standard_intensity"}
  BY DEF ReplyInv, ReplyTypeOK
<1>1. session' = session
  BY DEF ReplyNext, replyVars, AssembleContext, IdentityAnswer, Generate, ArithmeticCorrected, RetryGenerate,
         ArithmeticHolds, ArithmeticRetry, CorrectionFails, FirstScan, SecondScan, ScanFails, BackendRaises,
         ReformatRaises, Replay, Persist, PersistFailClosed, Disconnect, StreamError
<1>2. ASSUME step' \in steps, CandidateOK', ShownOK', KeptOK',
             signals' \subseteq {"warning_appended", "retry_taken"}, pending' \in BOOLEAN,
             l3' \in {"unmanaged", "invalid_emotion_signal", "low_intensity_correction",
                      "low_intensity_comfort", "standard_intensity"}
      PROVE  ReplyInv'
  BY <1>0, <1>1, <1>2 DEF ReplyInv, ReplyTypeOK, CandidateOK, ShownOK
<1>3. ASSUME UNCHANGED shown PROVE ShownOK' BY <1>0, <1>1, <1>3 DEF ShownOK
<1>4. ASSUME UNCHANGED reply_kept PROVE KeptOK' BY <1>0, <1>1, <1>4 DEF KeptOK
<1>5. CASE AssembleContext
  BY <1>0, <1>2, <1>3, <1>4, <1>5 DEF AssembleContext, CandidateOK
<1>6. ASSUME NEW v \in {"direct", "observe", "retry"}, IdentityAnswer(v) PROVE ReplyInv'
  <2>1. /\ cand' = [[Frozen EXCEPT !.origin = "identity"] EXCEPT !.l4 = v] /\ step' = "release"
        /\ session.managed => v = "direct"
        /\ UNCHANGED <<signals, l3, pending, shown, reply_kept>>
    BY <1>6 DEF IdentityAnswer
  <2>2. [Frozen EXCEPT !.origin = "identity"] \in Text BY ReplyTexts DEF Text
  <2>3. cand' \in Text /\ cand'.l4 = v BY <2>1, <2>2 DEF Text
  <2> QED BY <1>0, <1>1, <1>2, <1>3, <1>4, <2>1, <2>3 DEF CandidateOK
<1>7. ASSUME NEW t \in Generated, Generate(t) PROVE ReplyInv'
  <2>1. /\ cand' = t /\ step' = "arithmetic"
        /\ shown' \in {shown, shown \cup {t}} /\ (session.managed => shown' = shown)
        /\ UNCHANGED <<signals, l3, pending, reply_kept>>
    BY <1>7 DEF Generate, Buffered
  <2>2. t \in Text BY ReplyTexts
  <2>3. ShownOK' BY <1>0, <1>1, <2>1, <2>2 DEF ShownOK
  <2> QED BY <1>0, <1>2, <1>4, <2>1, <2>2, <2>3 DEF CandidateOK
<1>8. ASSUME NEW t \in Text, NEW there \in {"scan", "rescan"}, AppendWarning(t, there),
             UNCHANGED <<l3, shown, reply_kept>>
      PROVE  ReplyInv'
  <2>1. cand' \in Text BY <1>8, ReplyTexts DEF AppendWarning
  <2>2. /\ signals' \subseteq {"warning_appended", "retry_taken"} /\ pending' \in BOOLEAN /\ step' = there
    BY <1>0, <1>8 DEF AppendWarning, WithAuditEvent
  <2> QED BY <1>0, <1>2, <1>3, <1>4, <1>8, <2>1, <2>2 DEF CandidateOK
<1>9. ASSUME NEW t \in Text, NEW there \in {"scan", "rescan"}, cand' = t, step' = there,
             UNCHANGED <<signals, pending, l3, shown, reply_kept>>
      PROVE  ReplyInv'
  BY <1>0, <1>2, <1>3, <1>4, <1>9 DEF CandidateOK
<1>10. ASSUME NEW t \in Generated, ArithmeticCorrected(t) PROVE ReplyInv'
  <2>1. t \in Text BY ReplyTexts
  <2> QED BY <1>8, <1>9, <1>10, <2>1 DEF ArithmeticCorrected
<1>11. ASSUME NEW t \in Generated, RetryGenerate(t) PROVE ReplyInv'
  <2>1. t \in Text BY ReplyTexts
  <2> QED BY <1>8, <1>9, <1>11, <2>1 DEF RetryGenerate
<1>12. CASE ArithmeticHolds
  BY <1>0, <1>2, <1>3, <1>4, <1>12 DEF ArithmeticHolds, CandidateOK
<1>13. CASE ArithmeticRetry
  <2>1. /\ step = "arithmetic" /\ step' = "correct" /\ signals' \subseteq {"warning_appended", "retry_taken"}
        /\ l3' = L3Result(signals') /\ UNCHANGED <<session, turn, cand, pending, shown, reply_kept>>
    BY <1>0, <1>13 DEF ArithmeticRetry, WithAuditEvent
  <2>2. L3Result(signals') \in {"unmanaged", "invalid_emotion_signal", "low_intensity_correction",
                                "low_intensity_comfort", "standard_intensity"}
    BY L3Results
  <2> QED BY <1>0, <1>2, <1>3, <1>4, <2>1, <2>2 DEF CandidateOK
<1>14. CASE CorrectionFails
  <2>1. cand \in Text BY <1>0, <1>14 DEF CorrectionFails, CandidateOK
  <2> QED BY <1>8, <1>14, <2>1 DEF CorrectionFails
<1>15. ASSUME NEW r \in {"bypass", "direct", "retry"}, FirstScan(r) PROVE ReplyInv'
  <2>1. /\ step = "scan" /\ step' \in {"retry", "release"}
        /\ session.managed /\ step' = "release" => cand.l4 # "retry"
        /\ UNCHANGED <<cand, signals, pending, shown, reply_kept>>
    <3>1. /\ first' = [l4 |-> IF session.managed THEN cand.l4 ELSE "none", repetition |-> r]
          /\ step' = IF "retry" \in {first'.l4, r} THEN "retry" ELSE "release"
      BY <1>15 DEF FirstScan
    <3>2. session.managed => first'.l4 = cand.l4 BY <3>1
    <3> QED BY <1>15, <3>1, <3>2 DEF FirstScan
  <2>2. l3' \in {l3, L3Result(signals)} BY <1>15 DEF FirstScan
  <2> QED BY <1>0, <1>1, <1>2, <1>3, <1>4, <2>1, <2>2, L3Results DEF CandidateOK
<1>16. ASSUME NEW r \in {"bypass", "direct", "retry"}, SecondScan(r) PROVE ReplyInv'
  <2>1. /\ step = "rescan" /\ step' = "release"
        /\ cand' = IF (session.managed /\ cand.l4 = "retry") \/ r = "retry" THEN Frozen ELSE cand
        /\ UNCHANGED <<signals, l3, pending, shown, reply_kept>>
    BY <1>16 DEF SecondScan
  <2>2. cand \in Text BY <1>0, <2>1 DEF CandidateOK
  <2>3. cand' \in Text /\ (session.managed => cand'.l4 # "retry") BY <2>1, <2>2, ReplyTexts
  <2> QED BY <1>0, <1>1, <1>2, <1>3, <1>4, <2>1, <2>3 DEF CandidateOK
<1>17. CASE ScanFails
  <2>1. /\ cand' \in {cand, Frozen} /\ step' \in {"raised", "fail_closed"}
        /\ step' = "fail_closed" => cand' = Frozen
        /\ pending' \in BOOLEAN
        /\ UNCHANGED <<signals, l3, shown, reply_kept>>
    BY <1>0, <1>17 DEF ScanFails
  <2> QED BY <1>0, <1>2, <1>3, <1>4, <2>1, ReplyTexts DEF CandidateOK
<1>18. CASE BackendRaises \/ ReformatRaises
  BY <1>0, <1>2, <1>3, <1>4, <1>18 DEF BackendRaises, ReformatRaises, CandidateOK
<1>19. CASE Replay
  <2>1. /\ step = "release" /\ shown' = shown \cup {cand}
        /\ UNCHANGED <<step, cand, signals, l3, pending, reply_kept>>
    BY <1>19 DEF Replay
  <2>2. ShownOK' BY <1>0, <1>1, <2>1 DEF ShownOK, CandidateOK
  <2> QED BY <1>0, <1>1, <1>2, <1>4, <2>1, <2>2 DEF CandidateOK
<1>20. ASSUME step' = "over", KeptOK', UNCHANGED <<cand, signals, l3, pending, shown>> PROVE ReplyInv'
  BY <1>0, <1>2, <1>3, <1>20 DEF CandidateOK
<1>21. CASE Persist
  <2>1. /\ step = "release" /\ reply_kept' \in Polish(MessageRow(cand, "completed", pending))
        /\ step' = "over" /\ UNCHANGED <<cand, signals, l3, pending, shown>>
    BY <1>21 DEF Persist
  <2>2. cand \in Text /\ (session.managed => cand.l4 # "retry") BY <1>0, <2>1 DEF CandidateOK
  <2>3. reply_kept' \in RowKept /\ reply_kept'.text = cand BY <1>0, <2>1, <2>2, RowsKept
  <2> QED BY <1>1, <1>20, <2>1, <2>2, <2>3 DEF KeptOK
<1>22. CASE PersistFailClosed
  <2>1. /\ step = "fail_closed" /\ reply_kept' = MessageRow(cand, "error", pending)
        /\ step' = "over" /\ UNCHANGED <<cand, signals, l3, pending, shown>>
    BY <1>22 DEF PersistFailClosed
  <2>2. cand \in Text /\ (session.managed => cand.l4 # "retry") BY <1>0, <2>1 DEF CandidateOK
  <2>3. reply_kept' \in RowKept /\ reply_kept'.text = cand BY <1>0, <2>1, <2>2, RowsKept
  <2> QED BY <1>1, <1>20, <2>1, <2>2, <2>3 DEF KeptOK
<1>23. ASSUME NEW t \in shown, NEW s \in {"partial", "error"}, reply_kept' = MessageRow(t, s, FALSE)
       PROVE  KeptOK'
  <2>1. t \in Text /\ (session.managed => t.l4 # "retry") BY <1>0 DEF ShownOK
  <2>2. reply_kept' \in RowKept /\ reply_kept'.text = t BY <1>23, <2>1, RowsKept
  <2> QED BY <1>1, <2>1, <2>2 DEF KeptOK
<1>24. CASE Disconnect
  <2>1. PICK t \in shown \cup {NoText} :
          reply_kept' = IF t = NoText THEN reply_kept ELSE MessageRow(t, "partial", FALSE)
    BY <1>24 DEF Disconnect
  <2>2. KeptOK' BY <1>4, <1>23, <2>1
  <2> QED BY <1>20, <1>24, <2>2 DEF Disconnect
<1>25. CASE StreamError
  <2>1. \/ reply_kept' = reply_kept
        \/ \E t \in shown : reply_kept' = MessageRow(t, "error", FALSE)
        \/ reply_kept' = MessageRow(Frozen, "error", FALSE)
    BY <1>25 DEF StreamError
  <2>2. ASSUME reply_kept' = MessageRow(Frozen, "error", FALSE) PROVE KeptOK'
    <3>1. reply_kept' \in RowKept /\ reply_kept'.text = Frozen BY <2>2, ReplyTexts, RowsKept
    <3> QED BY <3>1, ReplyTexts DEF KeptOK
  <2>3. KeptOK' BY <1>4, <1>23, <2>1, <2>2
  <2> QED BY <1>20, <1>25, <2>3 DEF StreamError
<1>26. CASE UNCHANGED replyVars
  BY <1>0, <1>2, <1>3, <1>4, <1>26 DEF replyVars, CandidateOK
<1> QED BY <1>5, <1>6, <1>7, <1>10, <1>11, <1>12, <1>13, <1>14, <1>15, <1>16, <1>17, <1>18, <1>19,
           <1>21, <1>22, <1>24, <1>25, <1>26
        DEF ReplyNext

\* In a session under L4 only what passed the exit scan, or frozen copy, is shown or kept.
THEOREM RepliesAreScanned == ReplySpec => [](ReplyTypeOK /\ OnlyScannedLeaves)
<1>1. ReplyInit => ReplyInv
  <2> SUFFICES ASSUME ReplyInit PROVE ReplyInv OBVIOUS
  <2>1. /\ session \in Sessions /\ step = "context" /\ cand = NoText /\ signals = TurnSignals
        /\ l3 = L3Result(signals) /\ pending = FALSE /\ shown = {} /\ reply_kept = NoRow
    BY DEF ReplyInit
  <2>2. signals \subseteq {"warning_appended", "retry_taken"} BY <2>1 DEF TurnSignals
  <2> QED BY <2>1, <2>2, L3Results DEF ReplyInv, ReplyTypeOK, CandidateOK, ShownOK, KeptOK
<1>2. ReplyInv => ReplyTypeOK /\ OnlyScannedLeaves
  BY DEF ReplyInv, ShownOK, KeptOK, OnlyScannedLeaves
<1> QED BY <1>1, <1>2, ReplyStep, PTL DEF ReplySpec

(***************************************************************************)
(* Notes: a confirmed draft is a memory                                    *)
(***************************************************************************)

HandPlaces == {"rest", "embed", "status", "overlap", "vectors", "done", "add", "embed_draft", "confirm"}
HandRecord == [at : HandPlaces, id : NoteIds \cup {Nothing}, body : NoteBodies \cup {Nothing},
               draft : DraftIds \cup {Nothing}, status : {Nothing, "active", "invalid"},
               hits : SUBSET NoteIds]

DraftIsStored(d) == \E i \in 1..next_note - 1 : memory_chunks[i].draft = d

\* What the next statement of a call relies on: the row it writes to was inserted, and
\* the draft it will mark has its text in the table.
HandOK(h) ==
    /\ hand[h] \in HandRecord
    /\ hand[h].at \in {"embed", "status", "embed_draft"} =>
           hand[h].id \in 1..next_note - 1 /\ hand[h].body \in NoteBodies
    /\ hand[h].at = "status" => hand[h].status # Nothing
    /\ hand[h].at \in {"add", "embed_draft", "confirm"} => hand[h].draft \in DraftIds
    /\ hand[h].at \in {"embed_draft", "confirm"} => DraftIsStored(hand[h].draft)

ChunksOK ==
    /\ memory_chunks \in [NoteIds -> Chunk \cup {Nothing}]
    /\ next_note \in 1..MaxNotes + 1
    /\ \A i \in 1..next_note - 1 : memory_chunks[i] \in Chunk

DraftsOK ==
    /\ memory_drafts \in [DraftIds -> {Nothing, "pending", "confirmed", "discarded"}]
    /\ \A d \in DraftIds : memory_drafts[d] = "confirmed" => DraftIsStored(d)

NotesInv ==
    /\ ChunksOK /\ DraftsOK
    /\ hand \in [Hands -> HandRecord]
    /\ \A h \in Hands : HandOK(h)
    /\ note_calls \in 0..MaxNoteCalls

LEMMA NotesInvIsEnough == NotesInv => NotesTypeOK /\ ConfirmedIsKept
BY DEF NotesInv, ChunksOK, DraftsOK, DraftIsStored, NotesTypeOK, ConfirmedIsKept

LEMMA EmptyHand == Empty_Hand \in HandRecord /\ Empty_Hand.at = "rest"
BY DEF Empty_Hand, HandRecord, HandPlaces

LEMMA NotesStart == NotesInit => NotesInv
<1> SUFFICES ASSUME NotesInit PROVE NotesInv OBVIOUS
<1>1. ChunksOK BY NotesAssumption DEF NotesInit, ChunksOK, NoteIds
<1>2. DraftsOK BY NotesAssumption DEF NotesInit, DraftsOK
<1>3. hand \in [Hands -> HandRecord] /\ \A h \in Hands : hand[h] = Empty_Hand
  BY EmptyHand DEF NotesInit
<1>4. \A h \in Hands : HandOK(h) BY <1>3, EmptyHand DEF HandOK
<1>5. note_calls \in 0..MaxNoteCalls BY NotesAssumption DEF NotesInit
<1> QED BY <1>1, <1>2, <1>3, <1>4, <1>5 DEF NotesInv

\* A step that loses no chunk's draft keeps every promise but those of the hands it moves.
LEMMA DraftsStay ==
    ASSUME NotesInv, ChunksOK', next_note' \in {next_note, next_note + 1},
           \A i \in 1..next_note - 1 : memory_chunks'[i].draft = memory_chunks[i].draft
    PROVE  /\ \A d : DraftIsStored(d) => DraftIsStored(d)'
           /\ \A h \in Hands : hand'[h] = hand[h] => HandOK(h)'
<1>1. next_note \in Nat /\ 1..next_note - 1 \subseteq 1..next_note' - 1 
  <2>1. next_note \in Nat /\ next_note' \in Nat /\ next_note <= next_note'
    BY NotesAssumption DEF NotesInv, ChunksOK
  <2>2. \A m, n \in Nat : m <= n => 1..m - 1 \subseteq 1..n - 1 OBVIOUS
  <2> QED BY <2>1, <2>2
<1>2. \A d : DraftIsStored(d) => DraftIsStored(d)' BY <1>1 DEF DraftIsStored
<1>3. ASSUME NEW h \in Hands, hand'[h] = hand[h] PROVE HandOK(h)'
  <2>1. HandOK(h) BY DEF NotesInv
  <2>2. DraftIsStored(hand[h].draft) => DraftIsStored(hand[h].draft)' 
    <3>1. PICK d : d = hand[h].draft OBVIOUS
    <3> QED BY <1>2, <1>3, <3>1
  <2> QED BY <1>1, <1>3, <2>1, <2>2 DEF HandOK
<1> QED BY <1>2, <1>3

\* One hand moves.
LEMMA HandMoves ==
    ASSUME NotesInv, NEW h \in Hands, NEW r \in HandRecord, hand' = [hand EXCEPT ![h] = r]
    PROVE  hand' \in [Hands -> HandRecord] /\ hand'[h] = r
           /\ \A g \in Hands : g # h => hand'[g] = hand[g]
BY DEF NotesInv

\* The rows that a chunk's content or status is written to.
LEMMA RowsAreChunks ==
    ASSUME NotesInv PROVE Rows \subseteq 1..next_note - 1 /\ 1..next_note - 1 \subseteq NoteIds
BY NotesAssumption DEF NotesInv, ChunksOK, Rows, NoteIds

LEMMA ChunkRewritten ==
    ASSUME NotesInv, NEW i \in 1..next_note - 1, NEW c \in Chunk, c.draft = memory_chunks[i].draft,
           memory_chunks' = [memory_chunks EXCEPT ![i] = c], next_note' = next_note
    PROVE  ChunksOK' /\ \A j \in 1..next_note - 1 : memory_chunks'[j].draft = memory_chunks[j].draft
<1>1. i \in NoteIds BY RowsAreChunks
<1> QED BY <1>1, RowsAreChunks DEF NotesInv, ChunksOK

LEMMA NotesStep == NotesInv /\ [NotesNext]_noteVars => NotesInv'
<1> SUFFICES ASSUME NotesInv, [NotesNext]_noteVars PROVE NotesInv' OBVIOUS
<1>0. /\ ChunksOK /\ DraftsOK /\ hand \in [Hands -> HandRecord] /\ note_calls \in 0..MaxNoteCalls
      /\ \A h \in Hands : HandOK(h)
      /\ Rows \subseteq 1..next_note - 1 /\ 1..next_note - 1 \subseteq NoteIds
      /\ MaxNotes \in Nat /\ MaxNoteCalls \in Nat /\ Cli \in Hands /\ next_note \in 1..MaxNotes + 1
  BY NotesAssumption, RowsAreChunks DEF NotesInv, ChunksOK, Hands
<1>1. ASSUME NEW h \in Hands, Begins(h) PROVE note_calls' \in 0..MaxNoteCalls
  BY <1>0, <1>1 DEF Begins
\* A step that leaves chunks and drafts alone and moves one hand.
<1>2. ASSUME NEW h \in Hands, NEW r \in HandRecord, hand' = [hand EXCEPT ![h] = r], HandOK(h)',
             note_calls' \in 0..MaxNoteCalls, UNCHANGED <<memory_chunks, next_note, memory_drafts>>
      PROVE  NotesInv'
  <2>1. ChunksOK' /\ DraftsOK' BY <1>0, <1>2 DEF ChunksOK, DraftsOK, DraftIsStored
  <2>2. \A i \in 1..next_note - 1 : memory_chunks'[i].draft = memory_chunks[i].draft BY <1>2
  <2> QED BY <1>2, <2>1, <2>2, HandMoves, DraftsStay DEF NotesInv
\* A step that rewrites one chunk.
<1>3. ASSUME NEW i \in 1..next_note - 1, NEW c \in Chunk, c.draft = memory_chunks[i].draft,
             memory_chunks' = [memory_chunks EXCEPT ![i] = c], UNCHANGED <<next_note, memory_drafts>>
      PROVE  ChunksOK' /\ DraftsOK' /\ \A h \in Hands : hand'[h] = hand[h] => HandOK(h)'
  <2>1. ChunksOK' /\ \A j \in 1..next_note - 1 : memory_chunks'[j].draft = memory_chunks[j].draft
    BY <1>3, ChunkRewritten
  <2>2. \A d : DraftIsStored(d) => DraftIsStored(d)' BY <1>3, <2>1, DraftsStay
  <2>3. DraftsOK' BY <1>0, <1>3, <2>2 DEF DraftsOK
  <2> QED BY <1>3, <2>1, <2>3, DraftsStay
\* add_memory_chunk's first statement.
<1>4. ASSUME NEW h \in Hands, NEW b \in NoteBodies, NEW d \in DraftIds \cup {Nothing},
             NEW place \in {"embed", "embed_draft"}, InsertChunk(h, b, d, place),
             hand[h].draft = d \/ place = "embed", place = "embed_draft" => d \in DraftIds,
             UNCHANGED memory_drafts, note_calls' \in 0..MaxNoteCalls
      PROVE  NotesInv'
  <2> DEFINE c == [body |-> b, vector |-> Nothing, status |-> "active", draft |-> d]
             r1 == [hand[h] EXCEPT !.at = place]
             r2 == [r1 EXCEPT !.id = next_note]
             r == [r2 EXCEPT !.body = b]
  <2>1. next_note <= MaxNotes /\ memory_chunks' = [memory_chunks EXCEPT ![next_note] = c]
        /\ next_note' = next_note + 1 /\ hand' = [hand EXCEPT ![h] = r]
    BY <1>0, <1>4 DEF InsertChunk
  <2>2. c \in Chunk /\ c.draft = d BY DEF Chunk
  <2> HIDE DEF c
  <2>3. next_note \in NoteIds BY <1>0, <2>1 DEF NoteIds
  <2>4. hand[h] \in HandRecord BY <1>0
  <2>5. r1 \in HandRecord /\ r1.at = place /\ r1.draft = hand[h].draft BY <2>4 DEF HandRecord, HandPlaces
  <2> HIDE DEF r1
  <2>6. r2 \in HandRecord /\ r2.at = place /\ r2.draft = hand[h].draft /\ r2.id = next_note
    BY <2>3, <2>5 DEF HandRecord
  <2> HIDE DEF r2
  <2>7. r \in HandRecord /\ r.at = place /\ r.draft = hand[h].draft /\ r.id = next_note /\ r.body = b
    BY <2>6 DEF HandRecord
  <2> HIDE DEF r
  <2>8. hand' \in [Hands -> HandRecord] /\ hand'[h] = r /\ \A g \in Hands : g # h => hand'[g] = hand[g]
    BY <2>1, <2>7, HandMoves
  <2>9. memory_chunks'[next_note] = c /\ \A i \in 1..next_note - 1 : memory_chunks'[i] = memory_chunks[i]
    BY <1>0, <2>1, <2>3 DEF ChunksOK
  <2>10. ChunksOK'
    <3>1. memory_chunks' \in [NoteIds -> Chunk \cup {Nothing}] BY <1>0, <2>1, <2>2 DEF ChunksOK
    <3>2. next_note' \in 1..MaxNotes + 1 BY <1>0, <2>1
    <3>3. \A i \in 1..next_note' - 1 : i = next_note \/ i \in 1..next_note - 1 BY <1>0, <2>1
    <3>4. \A i \in 1..next_note' - 1 : memory_chunks'[i] \in Chunk BY <1>0, <2>2, <2>9, <3>3 DEF ChunksOK
    <3> QED BY <3>1, <3>2, <3>4 DEF ChunksOK
  <2>11. \A x : DraftIsStored(x) => DraftIsStored(x)' BY <2>1, <2>9, <2>10, DraftsStay
  <2>12. \A g \in Hands : g # h => HandOK(g)' BY <2>1, <2>8, <2>9, <2>10, DraftsStay
  <2>13. next_note \in 1..next_note' - 1 BY <1>0, <2>1
  <2>14. HandOK(h)'
    <3>1. place = "embed_draft" => memory_chunks'[next_note].draft = r.draft BY <1>4, <2>2, <2>7, <2>9
    <3>2. place = "embed_draft" => DraftIsStored(hand[h].draft)' BY <2>8, <2>13, <3>1 DEF DraftIsStored
    <3> QED BY <1>4, <2>7, <2>8, <2>13, <3>2 DEF HandOK
  <2>15. DraftsOK' BY <1>0, <1>4, <2>11 DEF DraftsOK
  <2> QED BY <1>4, <2>8, <2>10, <2>12, <2>14, <2>15 DEF NotesInv
<1>5. ASSUME NEW h \in Hands, add_memory_chunk(h) PROVE NotesInv'
  BY <1>1, <1>4, <1>5 DEF add_memory_chunk
<1>6. ASSUME NEW h \in Hands, update_memory_chunk(h) PROVE NotesInv'
  <2>1. PICK i \in Rows, b \in NoteBodies, s \in {Nothing, "active", "invalid"} :
          /\ memory_chunks' = [memory_chunks EXCEPT ![i].body = b]
          /\ hand' = [hand EXCEPT ![h] = [@ EXCEPT !.at = "embed", !.id = i, !.body = b, !.status = s]]
          /\ UNCHANGED <<next_note, memory_drafts>>
    BY <1>6 DEF update_memory_chunk
  <2> DEFINE c == [memory_chunks[i] EXCEPT !.body = b]
             r1 == [hand[h] EXCEPT !.at = "embed"]
             r2 == [r1 EXCEPT !.id = i]
             r3 == [r2 EXCEPT !.body = b]
             r == [r3 EXCEPT !.status = s]
  <2>2. i \in 1..next_note - 1 /\ i \in NoteIds BY <1>0, <2>1
  <2>3. memory_chunks' = [memory_chunks EXCEPT ![i] = c] /\ hand' = [hand EXCEPT ![h] = r]
    BY <1>0, <2>1, <2>2
  <2>4. c \in Chunk /\ c.draft = memory_chunks[i].draft
    <3>1. memory_chunks[i] \in Chunk BY <1>0, <2>2 DEF ChunksOK
    <3> QED BY <3>1 DEF Chunk
  <2> HIDE DEF c
  <2>5. hand[h] \in HandRecord BY <1>0
  <2>6. r1 \in HandRecord /\ r1.at = "embed" BY <2>5 DEF HandRecord, HandPlaces
  <2> HIDE DEF r1
  <2>7. r2 \in HandRecord /\ r2.at = "embed" /\ r2.id = i BY <2>2, <2>6 DEF HandRecord
  <2> HIDE DEF r2
  <2>8. r3 \in HandRecord /\ r3.at = "embed" /\ r3.id = i /\ r3.body = b BY <2>7 DEF HandRecord
  <2> HIDE DEF r3
  <2>9. r \in HandRecord /\ r.at = "embed" /\ r.id = i /\ r.body = b BY <2>8 DEF HandRecord
  <2> HIDE DEF r
  <2>10. hand' \in [Hands -> HandRecord] /\ hand'[h] = r /\ \A g \in Hands : g # h => hand'[g] = hand[g]
    BY <2>3, <2>9, HandMoves
  <2>11. ChunksOK' /\ DraftsOK' /\ \A g \in Hands : hand'[g] = hand[g] => HandOK(g)'
    BY <1>3, <2>1, <2>2, <2>3, <2>4
  <2>12. HandOK(h)' BY <2>1, <2>2, <2>9, <2>10 DEF HandOK
  <2>13. note_calls' \in 0..MaxNoteCalls BY <1>1, <1>6 DEF update_memory_chunk
  <2> QED BY <2>10, <2>11, <2>12, <2>13 DEF NotesInv
<1>7. ASSUME NEW h \in Hands, maybe_write_embedding(h) PROVE NotesInv'
  <2> DEFINE i == hand[h].id
             c == [memory_chunks[i] EXCEPT !.vector = IF i \in Rows THEN hand[h].body ELSE @]
             r == [hand[h] EXCEPT !.at = IF hand[h].at = "embed_draft" THEN "confirm"
                                      ELSE IF hand[h].status # Nothing THEN "status" ELSE "done"]
  <2>1. hand[h].at \in {"embed", "embed_draft"} /\ UNCHANGED <<next_note, memory_drafts, note_calls>>
    BY <1>7 DEF maybe_write_embedding
  <2>2. HandOK(h) /\ i \in 1..next_note - 1 /\ i \in NoteIds /\ hand[h].body \in NoteBodies
    BY <1>0, <2>1 DEF HandOK
  <2>3. memory_chunks' = [memory_chunks EXCEPT ![i] = c] /\ hand' = [hand EXCEPT ![h] = r]
    BY <1>0, <1>7, <2>2 DEF maybe_write_embedding, ChunksOK
  <2>4. c \in Chunk /\ c.draft = memory_chunks[i].draft
    <3>1. memory_chunks[i] \in Chunk BY <1>0, <2>2 DEF ChunksOK
    <3> QED BY <2>2, <3>1 DEF Chunk
  <2> HIDE DEF c
  <2>5. r \in HandRecord /\ r.id = hand[h].id /\ r.body = hand[h].body /\ r.draft = hand[h].draft
        /\ r.status = hand[h].status /\ (r.at = "confirm" => hand[h].at = "embed_draft")
        /\ r.at \in {"confirm", "status", "done"} /\ (r.at = "status" => r.status # Nothing)
    BY <1>0, <2>1 DEF HandRecord, HandPlaces
  <2> HIDE DEF r
  <2>6. hand' \in [Hands -> HandRecord] /\ hand'[h] = r /\ \A g \in Hands : g # h => hand'[g] = hand[g]
    BY <2>3, <2>5, HandMoves
  <2>7. ChunksOK' /\ DraftsOK' /\ \A g \in Hands : hand'[g] = hand[g] => HandOK(g)'
    BY <1>3, <2>1, <2>2, <2>3, <2>4
  <2>8. \A d : DraftIsStored(d) => DraftIsStored(d)'
    BY <2>1, <2>2, <2>3, <2>4, ChunkRewritten, DraftsStay
  <2>9. HandOK(h)'
    <3>1. PICK d : d = r.draft OBVIOUS
    <3>2. r.at = "confirm" => DraftIsStored(d)' /\ d \in DraftIds BY <2>2, <2>5, <2>8, <3>1 DEF HandOK
    <3>3. r.at = "confirm" => DraftIsStored(hand[h].draft)' BY <2>6, <3>1, <3>2
    <3> QED BY <2>1, <2>2, <2>5, <2>6, <3>1, <3>2, <3>3 DEF HandOK
  <2> QED BY <1>0, <2>1, <2>6, <2>7, <2>9 DEF NotesInv
\* A status is written on a row that is there.
<1>8. ASSUME NEW i \in 1..next_note - 1, NEW s \in {"active", "invalid"}, SetStatus(i, s),
             UNCHANGED <<next_note, memory_drafts>>
      PROVE  ChunksOK' /\ DraftsOK' /\ \A h \in Hands : hand'[h] = hand[h] => HandOK(h)'
  <2> DEFINE c == [memory_chunks[i] EXCEPT !.status = IF i \in Rows THEN s ELSE @]
  <2>1. memory_chunks' = [memory_chunks EXCEPT ![i] = c] BY <1>0, <1>8 DEF SetStatus, ChunksOK
  <2>2. memory_chunks[i] \in Chunk BY <1>0, <1>8 DEF ChunksOK
  <2>3. c \in Chunk /\ c.draft = memory_chunks[i].draft BY <2>2 DEF Chunk
  <2> HIDE DEF c
  <2> QED BY <1>3, <1>8, <2>1, <2>3
<1>9. ASSUME NEW h \in Hands, PatchStatus(h) PROVE NotesInv'
  <2> DEFINE r == [hand[h] EXCEPT !.at = "done"]
  <2>1. hand[h].at = "status" /\ SetStatus(hand[h].id, hand[h].status) /\ hand' = [hand EXCEPT ![h] = r]
        /\ UNCHANGED <<next_note, memory_drafts, note_calls>>
    BY <1>9 DEF PatchStatus
  <2>2. HandOK(h) /\ hand[h].id \in 1..next_note - 1 /\ hand[h].status \in {"active", "invalid"}
    BY <1>0, <2>1 DEF HandOK, HandRecord
  <2>3. r \in HandRecord /\ r.at = "done" BY <1>0 DEF HandRecord, HandPlaces
  <2> HIDE DEF r
  <2>4. hand' \in [Hands -> HandRecord] /\ hand'[h] = r /\ \A g \in Hands : g # h => hand'[g] = hand[g]
    BY <2>1, <2>3, HandMoves
  <2>5. HandOK(h)' BY <2>3, <2>4 DEF HandOK
  <2> QED BY <1>0, <1>8, <2>1, <2>2, <2>4, <2>5 DEF NotesInv
<1>10. ASSUME NEW h \in Hands, invalidate_or_restore(h) PROVE NotesInv'
  <2>1. PICK i \in Rows, s \in {"active", "invalid"} : SetStatus(i, s)
    BY <1>10 DEF invalidate_or_restore
  <2>2. UNCHANGED <<next_note, memory_drafts, hand>> /\ note_calls' \in 0..MaxNoteCalls
    BY <1>1, <1>10 DEF invalidate_or_restore
  <2>3. ChunksOK' /\ DraftsOK' /\ \A g \in Hands : HandOK(g)' BY <1>0, <1>8, <2>1, <2>2
  <2> QED BY <1>0, <2>2, <2>3 DEF NotesInv
<1>11. ASSUME NEW h \in Hands, delete_memory_chunk(h) PROVE NotesInv'
  <2>1. PICK i \in Rows : memory_chunks' = [memory_chunks EXCEPT ![i].status = "deleted"]
    BY <1>11 DEF delete_memory_chunk
  <2>2. UNCHANGED <<next_note, memory_drafts, hand>> /\ note_calls' \in 0..MaxNoteCalls
    BY <1>1, <1>11 DEF delete_memory_chunk
  <2> DEFINE c == [memory_chunks[i] EXCEPT !.status = "deleted"]
  <2>3. i \in 1..next_note - 1 /\ memory_chunks[i] \in Chunk BY <1>0, <2>1 DEF ChunksOK
  <2>4. memory_chunks' = [memory_chunks EXCEPT ![i] = c] /\ c \in Chunk /\ c.draft = memory_chunks[i].draft
    BY <2>1, <2>3 DEF Chunk
  <2> HIDE DEF c
  <2>5. ChunksOK' /\ DraftsOK' /\ \A g \in Hands : HandOK(g)' BY <1>3, <2>2, <2>3, <2>4
  <2> QED BY <1>0, <2>2, <2>5 DEF NotesInv
<1>12. ASSUME NEW h \in Hands, recall(h) \/ RecallMore(h) PROVE NotesInv'
  <2>1. UNCHANGED <<memory_chunks, next_note, memory_drafts>> /\ note_calls' \in 0..MaxNoteCalls
    BY <1>0, <1>1, <1>12 DEF recall, RecallMore
  <2>2. hand[h] \in HandRecord /\ Active \subseteq NoteIds BY <1>0 DEF Active
  <2>3. PICK r \in HandRecord : hand' = [hand EXCEPT ![h] = r] /\ r.at \in {"overlap", "vectors", "done"}
    <3>1. CASE recall(h)
      <4>1. PICK found \in SUBSET Active :
              hand' = [hand EXCEPT ![h] = [@ EXCEPT !.at = "overlap", !.hits = found]]
        BY <3>1 DEF recall
      <4> DEFINE r1 == [hand[h] EXCEPT !.at = "overlap"]
                 r2 == [r1 EXCEPT !.hits = found]
      <4>2. hand' = [hand EXCEPT ![h] = r2] BY <1>0, <4>1
      <4>3. r1 \in HandRecord /\ r1.at = "overlap" BY <2>2 DEF HandRecord, HandPlaces
      <4> HIDE DEF r1
      <4>4. r2 \in HandRecord /\ r2.at = "overlap" BY <2>2, <4>3 DEF HandRecord
      <4> QED BY <4>2, <4>4
    <3>2. CASE RecallMore(h)
      <4>1. PICK found \in SUBSET Active :
              hand' = [hand EXCEPT ![h] = [@ EXCEPT !.hits = hand[h].hits \cup found,
                          !.at = IF hand[h].at = "overlap" THEN "vectors" ELSE "done"]]
        BY <3>2 DEF RecallMore
      <4> DEFINE r1 == [hand[h] EXCEPT !.hits = hand[h].hits \cup found]
                 r2 == [r1 EXCEPT !.at = IF hand[h].at = "overlap" THEN "vectors" ELSE "done"]
      <4>2. hand' = [hand EXCEPT ![h] = r2] BY <1>0, <4>1
      <4>3. r1 \in HandRecord BY <2>2 DEF HandRecord
      <4> HIDE DEF r1
      <4>4. r2 \in HandRecord /\ r2.at \in {"vectors", "done"} BY <4>3 DEF HandRecord, HandPlaces
      <4> HIDE DEF r2
      <4> QED BY <4>2, <4>4
    <3> QED BY <1>12, <3>1, <3>2
  <2>4. HandOK(h)' BY <1>0, <2>3 DEF HandOK
  <2> QED BY <1>2, <2>1, <2>3, <2>4
<1>13. ASSUME NEW h \in Hands, NoteReturns(h) PROVE NotesInv'
  <2>1. hand' = [hand EXCEPT ![h] = Empty_Hand] /\ UNCHANGED <<memory_chunks, next_note, memory_drafts, note_calls>>
    BY <1>13 DEF NoteReturns
  <2>2. HandOK(h)' BY <1>0, <2>1, EmptyHand DEF HandOK
  <2> QED BY <1>0, <1>2, <2>1, <2>2, EmptyHand
<1>14. CASE create_draft_from_session \/ discard_draft
  <2>1. PICK d \in DraftIds, s \in {"pending", "discarded"} : memory_drafts' = [memory_drafts EXCEPT ![d] = s]
    BY <1>14 DEF create_draft_from_session, discard_draft
  <2>2. UNCHANGED <<memory_chunks, next_note, hand>> /\ note_calls' \in 0..MaxNoteCalls
    BY <1>0, <1>1, <1>14 DEF create_draft_from_session, discard_draft
  <2>3. DraftsOK' BY <1>0, <2>1, <2>2 DEF DraftsOK, DraftIsStored
  <2> QED BY <1>0, <2>2, <2>3 DEF NotesInv, ChunksOK, HandOK, DraftIsStored
<1>15. CASE confirm_draft
  <2>1. PICK d \in DraftIds : hand' = [hand EXCEPT ![Cli] = [@ EXCEPT !.at = "add", !.draft = d]]
    BY <1>15 DEF confirm_draft
  <2>2. UNCHANGED <<memory_chunks, next_note, memory_drafts>> /\ note_calls' \in 0..MaxNoteCalls
    BY <1>0, <1>1, <1>15 DEF confirm_draft
  <2> DEFINE r1 == [hand[Cli] EXCEPT !.at = "add"]
             r == [r1 EXCEPT !.draft = d]
  <2>3. hand' = [hand EXCEPT ![Cli] = r] BY <1>0, <2>1
  <2>4. r1 \in HandRecord /\ r1.at = "add" BY <1>0 DEF HandRecord, HandPlaces
  <2> HIDE DEF r1
  <2>5. r \in HandRecord /\ r.at = "add" /\ r.draft = d BY <2>4 DEF HandRecord
  <2> HIDE DEF r
  <2>6. HandOK(Cli)' BY <1>0, <2>1, <2>3, <2>5 DEF HandOK
  <2> QED BY <1>0, <1>2, <2>2, <2>3, <2>5, <2>6
<1>16. CASE AddDraft
  <2>1. PICK b \in NoteBodies : InsertChunk(Cli, b, hand[Cli].draft, "embed_draft") BY <1>16 DEF AddDraft
  <2>2. hand[Cli].at = "add" /\ UNCHANGED <<memory_drafts, note_calls>> BY <1>16 DEF AddDraft
  <2>3. hand[Cli].draft \in DraftIds BY <1>0, <2>2 DEF HandOK
  <2> QED BY <1>0, <1>4, <2>1, <2>2, <2>3
<1>17. CASE MarkConfirmed
  <2> DEFINE r == [hand[Cli] EXCEPT !.at = "done"]
  <2>1. hand[Cli].at = "confirm" /\ memory_drafts' = [memory_drafts EXCEPT ![hand[Cli].draft] = "confirmed"]
        /\ hand' = [hand EXCEPT ![Cli] = r] /\ UNCHANGED <<memory_chunks, next_note, note_calls>>
    BY <1>17 DEF MarkConfirmed
  <2>2. HandOK(Cli) /\ hand[Cli].draft \in DraftIds /\ DraftIsStored(hand[Cli].draft)
    BY <1>0, <2>1 DEF HandOK
  <2>3. r \in HandRecord /\ r.at = "done" BY <1>0 DEF HandRecord, HandPlaces
  <2> HIDE DEF r
  <2>4. hand' \in [Hands -> HandRecord] /\ hand'[Cli] = r /\ \A g \in Hands : g # Cli => hand'[g] = hand[g]
    BY <1>0, <2>1, <2>3, HandMoves
  <2>5. ChunksOK' /\ \A d : DraftIsStored(d) => DraftIsStored(d)' BY <1>0, <2>1 DEF ChunksOK, DraftIsStored
  <2>6. DraftsOK'
    <3>1. \A d \in DraftIds : memory_drafts'[d] = "confirmed" => DraftIsStored(d)
      BY <1>0, <2>1, <2>2 DEF DraftsOK
    <3>2. memory_drafts' \in [DraftIds -> {Nothing, "pending", "confirmed", "discarded"}]
      BY <1>0, <2>1 DEF DraftsOK
    <3> QED BY <2>5, <3>1, <3>2 DEF DraftsOK
  <2>7. \A g \in Hands : HandOK(g)'
    <3>1. HandOK(Cli)' BY <2>3, <2>4 DEF HandOK
    <3>2. \A i \in 1..next_note - 1 : memory_chunks'[i].draft = memory_chunks[i].draft BY <2>1
    <3> QED BY <2>1, <2>4, <2>5, <3>1, <3>2, DraftsStay
  <2> QED BY <1>0, <2>1, <2>4, <2>5, <2>6, <2>7 DEF NotesInv
<1>18. CASE NoteProcessDies
  <2>1. PICK dead : hand' = [h \in Hands |-> IF h \in dead THEN Empty_Hand ELSE hand[h]]
    BY <1>18 DEF NoteProcessDies
  <2>2. UNCHANGED <<memory_chunks, next_note, memory_drafts>> /\ note_calls' \in 0..MaxNoteCalls
    BY <1>0, <1>18 DEF NoteProcessDies
  <2>3. hand' \in [Hands -> HandRecord] /\ \A h \in Hands : hand'[h] \in {Empty_Hand, hand[h]}
    BY <1>0, <2>1, EmptyHand
  <2>4. ChunksOK' /\ DraftsOK' BY <1>0, <2>2 DEF ChunksOK, DraftsOK, DraftIsStored
  <2>5. ASSUME NEW h \in Hands PROVE HandOK(h)'
    <3>1. CASE hand'[h] = Empty_Hand BY <3>1, EmptyHand DEF HandOK
    <3>2. CASE hand'[h] = hand[h] BY <1>0, <2>2, <3>2 DEF HandOK, DraftIsStored
    <3> QED BY <2>3, <3>1, <3>2
  <2> QED BY <2>2, <2>3, <2>4, <2>5 DEF NotesInv
<1>19. CASE UNCHANGED noteVars
  BY <1>0, <1>19 DEF noteVars, NotesInv, ChunksOK, DraftsOK, HandOK, DraftIsStored
<1> QED BY <1>5, <1>6, <1>7, <1>9, <1>10, <1>11, <1>12, <1>13, <1>14, <1>15, <1>16, <1>17, <1>18, <1>19
        DEF NotesNext

(***************************************************************************)
(* Memory: what replaces an event is stored, vectors are of their contents *)
(***************************************************************************)

\* A non-empty set of ids has a least and a largest member.
LEMMA IdsHaveEnds ==
    ASSUME NEW N \in Nat, NEW T, T \subseteq 1..N, T # {}
    PROVE  (\E x \in T : \A y \in T : x <= y) /\ (\E x \in T : \A y \in T : y <= x)
<1> DEFINE R == {p \in Nat \X Nat : p[1] < p[2]}
           U == {N - y : y \in T}
<1>1. IsWellFoundedOn(R, Nat) BY NatLessThanWellFounded DEF OpToRel
<1>2. T \subseteq Nat /\ U \subseteq Nat /\ U # {}
  <2>1. \A y \in T : y \in Nat /\ N - y \in Nat OBVIOUS
  <2> QED BY <2>1
<1>3. \A x, y \in Nat : ~(<<y, x>> \in R) => x <= y OBVIOUS
<1> HIDE DEF R
<1>4. (\E x \in T : \A y \in T : ~(<<y, x>> \in R)) /\ (\E x \in U : \A y \in U : ~(<<y, x>> \in R))
  <2> HIDE DEF U
  <2> QED BY <1>1, <1>2, WFMin
<1>5. \E x \in T : \A y \in T : x <= y BY <1>2, <1>3, <1>4
<1>6. \E x \in T : \A y \in T : y <= x
  <2>1. PICK u \in U : \A v \in U : u <= v
    <3> HIDE DEF U
    <3> QED BY <1>2, <1>3, <1>4
  <2>2. PICK x \in T : u = N - x OBVIOUS
  <2>3. ASSUME NEW y \in T PROVE y <= x
    <3>1. N - y \in U OBVIOUS
    <3>2. N - x <= N - y BY <2>1, <2>2, <3>1
    <3>3. x \in Nat /\ y \in Nat BY <1>2
    <3> QED BY <3>2, <3>3
  <2> QED BY <2>3
<1> QED BY <1>5, <1>6

WorkerPlaces == {"rest", "recalled", "answering", "extract", "store", "supersede", "gc", "mark"}
WorkerRecord == [at : WorkerPlaces, left : 0..MaxExtracted, upto : 0..MaxTurns,
                 id : EventIds \cup {NULL}, event : SemanticEvent \cup {NULL},
                 duplicate : EventIds \cup {NULL}, marks : SUBSET EventIds]

\* A row's vector is of its content, and whoever replaced it is a later row that is there.
EventRowOK(e) ==
    /\ e < next_event
    /\ semantic_events[e].vector \in {NULL, semantic_events[e].content}
    /\ semantic_events[e].superseded_by \in {NULL} \cup {s \in Stored : s > e}
    /\ semantic_events[e].status = "superseded" => semantic_events[e].superseded_by # NULL

TableOK ==
    /\ semantic_events \in [EventIds -> SemanticEvent \cup {NULL}]
    /\ next_event \in 1..MaxEvents + 1
    /\ \A e \in Stored : EventRowOK(e)

\* What an extraction holds between its statements.
WorkerOK(w) ==
    /\ worker[w] \in WorkerRecord
    /\ worker[w].marks \subseteq Stored
    /\ worker[w].at = "store" =>
          /\ worker[w].id \in EventIds /\ worker[w].id < next_event
          /\ semantic_events[worker[w].id] = NULL
          /\ worker[w].event \in SemanticEvent
          /\ worker[w].event.vector \in {NULL, worker[w].event.content}
          /\ worker[w].event.status = "active" /\ worker[w].event.superseded_by = NULL
          /\ worker[w].duplicate # NULL => worker[w].duplicate \in Stored /\ worker[w].duplicate < worker[w].id
    /\ worker[w].at = "supersede" =>
          worker[w].id \in Stored /\ worker[w].duplicate \in Stored /\ worker[w].duplicate < worker[w].id

\* What an editor read and will write back: a status it read as superseded had a
\* successor then, and a successor is never taken back.
EditOK(u) ==
    edits[u] # NULL =>
        /\ edits[u] \in [id : EventIds, row : SemanticEvent]
        /\ edits[u].id \in Stored
        /\ edits[u].row.vector \in {NULL, edits[u].row.content}
        /\ edits[u].row.status = "superseded" => semantic_events[edits[u].id].superseded_by # NULL

MemoryWorkers == {"turn", "idle"}

DistinctIds ==
    worker["turn"].at = "store" /\ worker["idle"].at = "store" => worker["turn"].id # worker["idle"].id

TurnsOK ==
    /\ user_turns \in 0..MaxTurns /\ last_extracted_turn \in 0..MaxTurns /\ episodes \in 0..MaxEpisodes
    /\ worker["turn"].at \in {"recalled", "answering"} => user_turns < MaxTurns

MemoryInv ==
    /\ TableOK
    /\ worker \in [MemoryWorkers -> WorkerRecord] /\ \A w \in MemoryWorkers : WorkerOK(w)
    /\ DistinctIds
    /\ edits \in [Editors -> [id : EventIds, row : SemanticEvent] \cup {NULL}]
    /\ \A u \in Editors : EditOK(u)
    /\ TurnsOK

LEMMA MemoryInvIsEnough == MemoryInv => MemoryTypeOK /\ EventsStayUsable
<1> SUFFICES ASSUME MemoryInv PROVE MemoryTypeOK /\ EventsStayUsable OBVIOUS
<1>1. MemoryTypeOK
  <2>1. \A w \in MemoryWorkers : worker[w].at \in WorkerPlaces BY DEF MemoryInv, WorkerRecord
  <2>2. \A u \in Editors : edits[u] # NULL => edits[u].id \in Stored BY DEF MemoryInv, EditOK
  <2> QED BY <2>1, <2>2 DEF MemoryInv, TableOK, TurnsOK, MemoryTypeOK, MemoryWorkers, WorkerPlaces
<1>2. SupersededIsReplaced /\ VectorIsOfContent
  BY DEF MemoryInv, TableOK, EventRowOK, SupersededIsReplaced, VectorIsOfContent
<1> QED BY <1>1, <1>2 DEF EventsStayUsable

LEMMA RestingWorker == Resting_Worker \in WorkerRecord /\ Resting_Worker.at = "rest" /\ Resting_Worker.marks = {}
BY MemoryAssumption DEF Resting_Worker, WorkerRecord, WorkerPlaces

LEMMA MemoryStarts == MemoryInit => MemoryInv
<1> SUFFICES ASSUME MemoryInit PROVE MemoryInv OBVIOUS
<1>1. TableOK BY MemoryAssumption DEF MemoryInit, TableOK, Stored
<1>2. worker \in [MemoryWorkers -> WorkerRecord] /\ \A w \in MemoryWorkers : worker[w] = Resting_Worker
  BY RestingWorker DEF MemoryInit, MemoryWorkers
<1>3. (\A w \in MemoryWorkers : WorkerOK(w)) /\ DistinctIds
  BY <1>2, RestingWorker DEF WorkerOK, DistinctIds, MemoryWorkers
<1>4. edits \in [Editors -> [id : EventIds, row : SemanticEvent] \cup {NULL}] /\ \A u \in Editors : EditOK(u)
  BY DEF MemoryInit, EditOK
<1>5. TurnsOK BY <1>2, RestingWorker, MemoryAssumption DEF MemoryInit, TurnsOK, MemoryWorkers
<1> QED BY <1>1, <1>2, <1>3, <1>4, <1>5 DEF MemoryInv

\* _find_duplicate names an active row.
LEMMA DuplicateIsStored ==
    ASSUME MemoryInv, NEW c
    PROVE  _find_duplicate(c) \in {NULL} \cup get_active
<1> DEFINE near == {e \in get_active : Near(c, semantic_events[e].content)}
           Before(e, f) == \/ semantic_events[e].importance > semantic_events[f].importance
                           \/ /\ semantic_events[e].importance = semantic_events[f].importance
                              /\ e >= f
           heavy == {e \in near : semantic_events[e].importance = 2}
           pool == IF heavy = {} THEN near ELSE heavy
<1>1. \A e \in near : e \in EventIds /\ e \in Nat /\ semantic_events[e].importance \in {1, 2}
  <2>1. \A e \in near : semantic_events[e] \in SemanticEvent /\ e \in EventIds
    BY DEF MemoryInv, TableOK, get_active, Stored
  <2>2. \A r \in SemanticEvent : r.importance \in {1, 2} BY DEF SemanticEvent, Importance
  <2>3. EventIds \subseteq Nat BY MemoryAssumption DEF EventIds
  <2> HIDE DEF near
  <2> QED BY <2>1, <2>2, <2>3
<1>2. near \subseteq get_active OBVIOUS
<1>3. _find_duplicate(c) = IF near = {} THEN NULL ELSE CHOOSE e \in near : \A f \in near : Before(e, f)
  BY DEF _find_duplicate
<1> HIDE DEF near
<1>4. ASSUME near # {} PROVE \E e \in near : \A f \in near : Before(e, f)
  <2>1. pool \subseteq near /\ pool # {} /\ (\A f \in near : f \notin pool => semantic_events[f].importance = 1 /\ heavy # {})
    BY <1>1, <1>4
  <2>2. pool \subseteq 1..MaxEvents /\ MaxEvents \in Nat BY <1>1, <2>1, MemoryAssumption DEF EventIds
  <2>3. PICK e \in pool : \A f \in pool : f <= e
    <3> HIDE DEF pool
    <3> QED BY <2>1, <2>2, IdsHaveEnds
  <2>4. ASSUME NEW f \in near PROVE Before(e, f)
    <3>1. e \in Nat /\ f \in Nat BY <1>1, <2>1, <2>3
    <3>2. CASE heavy = {} BY <1>1, <2>3, <3>1, <3>2
    <3>3. CASE heavy # {}
      <4>1. semantic_events[e].importance = 2 BY <2>3, <3>3
      <4>2. CASE semantic_events[f].importance = 2 BY <2>3, <3>1, <3>3, <4>1, <4>2
      <4>3. CASE semantic_events[f].importance = 1 BY <4>1, <4>3
      <4> QED BY <1>1, <4>2, <4>3
    <3> QED BY <3>2, <3>3
  <2> QED BY <2>1, <2>3, <2>4
<1> HIDE DEF Before
<1> QED BY <1>2, <1>3, <1>4

\* A step that takes no row and no successor away keeps what the others hold.
LEMMA OthersHold ==
    ASSUME MemoryInv, NEW e0, next_event \in Nat, next_event' \in Nat, next_event <= next_event',
           \A e \in Stored : /\ e \in Stored'
                             /\ semantic_events[e].superseded_by # NULL => semantic_events'[e].superseded_by # NULL,
           \A e \in EventIds : e # e0 /\ semantic_events[e] = NULL => semantic_events'[e] = NULL
    PROVE  /\ \A w \in MemoryWorkers : worker'[w] = worker[w] /\ (worker[w].at = "store" => worker[w].id # e0)
                  => WorkerOK(w)'
           /\ \A u \in Editors : edits'[u] = edits[u] => EditOK(u)'
<1>1. ASSUME NEW w \in MemoryWorkers, worker'[w] = worker[w], worker[w].at = "store" => worker[w].id # e0
      PROVE  WorkerOK(w)'
  <2>1. WorkerOK(w) BY DEF MemoryInv
  <2>2. worker'[w] \in WorkerRecord /\ worker'[w].marks \subseteq Stored' BY <1>1, <2>1 DEF WorkerOK
  <2>3. worker[w].at = "store" => worker[w].id \in Nat BY <2>1, MemoryAssumption DEF WorkerOK, EventIds
  <2>4. worker[w].at = "store" => worker[w].id < next_event' BY <2>1, <2>3 DEF WorkerOK
  <2>5. worker[w].at = "store" => semantic_events'[worker[w].id] = NULL BY <1>1, <2>1 DEF WorkerOK
  <2> QED BY <1>1, <2>1, <2>2, <2>4, <2>5 DEF WorkerOK
<1>2. ASSUME NEW u \in Editors, edits'[u] = edits[u] PROVE EditOK(u)'
  <2>1. EditOK(u) BY DEF MemoryInv
  <2> QED BY <1>2, <2>1 DEF EditOK
<1> QED BY <1>1, <1>2

\* The fields of rows that are there are rewritten.
LEMMA RowsRewritten ==
    ASSUME MemoryInv, next_event' = next_event,
           semantic_events' \in [EventIds -> SemanticEvent \cup {NULL}],
           \A e \in EventIds : semantic_events'[e] = NULL <=> semantic_events[e] = NULL,
           \A e \in Stored :
              /\ semantic_events'[e].vector \in {NULL, semantic_events'[e].content}
              /\ semantic_events'[e].superseded_by \in {semantic_events[e].superseded_by} \cup {s \in Stored : s > e}
              /\ semantic_events'[e].status = "superseded" => semantic_events'[e].superseded_by # NULL
    PROVE  /\ TableOK' /\ Stored' = Stored
           /\ \A w \in MemoryWorkers : worker'[w] = worker[w] => WorkerOK(w)'
           /\ \A u \in Editors : edits'[u] = edits[u] => EditOK(u)'
<1>1. Stored' = Stored BY DEF Stored
<1>2. next_event \in Nat /\ next_event <= next_event' BY MemoryAssumption DEF MemoryInv, TableOK
<1>3. \A e \in Stored : EventRowOK(e) BY DEF MemoryInv, TableOK
<1>4. \A e \in Stored : EventRowOK(e)' BY <1>1, <1>3 DEF EventRowOK
<1>5. TableOK' BY <1>1, <1>4 DEF MemoryInv, TableOK
<1>6. NULL \notin Stored BY MemoryAssumption DEF Stored
<1>7. \A e \in Stored : semantic_events[e].superseded_by # NULL => semantic_events'[e].superseded_by # NULL
  BY <1>6
<1>8. PICK e0 : e0 \notin EventIds BY MemoryAssumption
<1>9. \A w \in MemoryWorkers : worker[w].at = "store" => worker[w].id # e0 BY <1>8 DEF MemoryInv, WorkerOK
<1>10. /\ \A w \in MemoryWorkers : worker'[w] = worker[w] => WorkerOK(w)'
       /\ \A u \in Editors : edits'[u] = edits[u] => EditOK(u)'
  BY <1>1, <1>2, <1>7, <1>9, OthersHold
<1> QED BY <1>1, <1>5, <1>10

\* A new row, whose id no other extraction holds.
LEMMA RowInserted ==
    ASSUME MemoryInv, NEW e0 \in EventIds, NEW r \in SemanticEvent, semantic_events[e0] = NULL,
           r.vector \in {NULL, r.content}, r.superseded_by = NULL, r.status = "active",
           semantic_events' = [semantic_events EXCEPT ![e0] = r],
           next_event' \in {next_event, next_event + 1}, next_event' \in 1..MaxEvents + 1, e0 < next_event'
    PROVE  /\ TableOK' /\ Stored' = Stored \cup {e0}
           /\ \A w \in MemoryWorkers : worker'[w] = worker[w] /\ (worker[w].at = "store" => worker[w].id # e0)
                  => WorkerOK(w)'
           /\ \A u \in Editors : edits'[u] = edits[u] => EditOK(u)'
<1>0. MaxEvents \in Nat /\ NULL \notin SemanticEvent /\ EventIds \subseteq Nat BY MemoryAssumption DEF EventIds
<1>1. semantic_events'[e0] = r /\ \A e \in EventIds : e # e0 => semantic_events'[e] = semantic_events[e]
  BY DEF MemoryInv, TableOK
<1>2. Stored' = Stored \cup {e0} BY <1>0, <1>1 DEF Stored
<1>3. next_event \in Nat /\ next_event' \in Nat /\ next_event <= next_event'
  BY <1>0 DEF MemoryInv, TableOK
<1>4. \A e \in Stored : e # e0 /\ e \in EventIds BY DEF Stored
<1>5. \A e \in Stored : EventRowOK(e)'
  <2>1. \A e \in Stored : EventRowOK(e) /\ e \in Nat BY <1>0, <1>4 DEF MemoryInv, TableOK
  <2>2. \A e \in Stored : e < next_event' BY <1>3, <2>1 DEF EventRowOK
  <2> QED BY <1>1, <1>2, <1>4, <2>1, <2>2 DEF EventRowOK
<1>6. EventRowOK(e0)' BY <1>1 DEF EventRowOK
<1>7. semantic_events' \in [EventIds -> SemanticEvent \cup {NULL}] BY DEF MemoryInv, TableOK
<1>8. TableOK' BY <1>2, <1>5, <1>6, <1>7 DEF TableOK
<1>9. \A e \in Stored : e \in Stored' /\ semantic_events'[e] = semantic_events[e] BY <1>1, <1>2, <1>4
<1> QED BY <1>1, <1>2, <1>3, <1>8, <1>9, OthersHold

\* One worker moves.
LEMMA WorkerMoves ==
    ASSUME MemoryInv, NEW w \in MemoryWorkers, NEW r \in WorkerRecord, worker' = [worker EXCEPT ![w] = r]
    PROVE  /\ worker' \in [MemoryWorkers -> WorkerRecord] /\ worker'[w] = r
           /\ \A v \in MemoryWorkers : v # w => worker'[v] = worker[v]
BY DEF MemoryInv

\* What an assignment to one column of a row leaves of it.
LEMMA RowStatus ==
    ASSUME NEW r \in SemanticEvent, NEW s \in {"active", "superseded", "dormant"}
    PROVE  /\ [r EXCEPT !.status = s] \in SemanticEvent /\ [r EXCEPT !.status = s].status = s
           /\ [r EXCEPT !.status = s].vector = r.vector
           /\ [r EXCEPT !.status = s].content = r.content
           /\ [r EXCEPT !.status = s].superseded_by = r.superseded_by
BY DEF SemanticEvent

LEMMA RowSuccessor ==
    ASSUME NEW r \in SemanticEvent, NEW n \in EventIds
    PROVE  /\ [r EXCEPT !.superseded_by = n] \in SemanticEvent /\ [r EXCEPT !.superseded_by = n].superseded_by = n
           /\ [r EXCEPT !.superseded_by = n].status = r.status
           /\ [r EXCEPT !.superseded_by = n].vector = r.vector
           /\ [r EXCEPT !.superseded_by = n].content = r.content
BY DEF SemanticEvent

LEMMA RowContent ==
    ASSUME NEW r \in SemanticEvent, NEW c \in EventContents
    PROVE  /\ [r EXCEPT !.content = c] \in SemanticEvent /\ [r EXCEPT !.content = c].content = c
           /\ [r EXCEPT !.content = c].status = r.status
           /\ [r EXCEPT !.content = c].vector = r.vector
           /\ [r EXCEPT !.content = c].superseded_by = r.superseded_by
BY DEF SemanticEvent

LEMMA RowVector ==
    ASSUME NEW r \in SemanticEvent, NEW v \in EventContents \cup {NULL}
    PROVE  /\ [r EXCEPT !.vector = v] \in SemanticEvent /\ [r EXCEPT !.vector = v].vector = v
           /\ [r EXCEPT !.vector = v].status = r.status
           /\ [r EXCEPT !.vector = v].content = r.content
           /\ [r EXCEPT !.vector = v].superseded_by = r.superseded_by
BY DEF SemanticEvent

LEMMA RowImportance ==
    ASSUME NEW r \in SemanticEvent, NEW i \in Importance
    PROVE  /\ [r EXCEPT !.importance = i] \in SemanticEvent /\ [r EXCEPT !.importance = i].importance = i
           /\ [r EXCEPT !.importance = i].status = r.status
           /\ [r EXCEPT !.importance = i].vector = r.vector
           /\ [r EXCEPT !.importance = i].content = r.content
           /\ [r EXCEPT !.importance = i].superseded_by = r.superseded_by
BY DEF SemanticEvent

LEMMA RowRecalled ==
    ASSUME NEW r \in SemanticEvent
    PROVE  /\ [r EXCEPT !.recalled = TRUE] \in SemanticEvent /\ [r EXCEPT !.recalled = TRUE].recalled = TRUE
           /\ [r EXCEPT !.recalled = TRUE].status = r.status
           /\ [r EXCEPT !.recalled = TRUE].vector = r.vector
           /\ [r EXCEPT !.recalled = TRUE].content = r.content
           /\ [r EXCEPT !.recalled = TRUE].superseded_by = r.superseded_by
BY DEF SemanticEvent

\* One row is rewritten.
LEMMA RowRewritten ==
    ASSUME MemoryInv, NEW e \in Stored, NEW r \in SemanticEvent, next_event' = next_event,
           semantic_events' = [semantic_events EXCEPT ![e] = r],
           r.vector \in {NULL, r.content},
           r.superseded_by \in {semantic_events[e].superseded_by} \cup {s \in Stored : s > e},
           r.status = "superseded" => r.superseded_by # NULL
    PROVE  /\ TableOK' /\ Stored' = Stored
           /\ \A w \in MemoryWorkers : worker'[w] = worker[w] => WorkerOK(w)'
           /\ \A u \in Editors : edits'[u] = edits[u] => EditOK(u)'
           /\ \A f \in EventIds : f # e => semantic_events'[f] = semantic_events[f]
           /\ semantic_events'[e] = r
<1>1. e \in EventIds /\ semantic_events[e] # NULL /\ r # NULL BY MemoryAssumption DEF Stored
<1>2. semantic_events'[e] = r /\ \A f \in EventIds : f # e => semantic_events'[f] = semantic_events[f]
  BY <1>1 DEF MemoryInv, TableOK
<1>3. semantic_events' \in [EventIds -> SemanticEvent \cup {NULL}] BY DEF MemoryInv, TableOK
<1>4. \A f \in EventIds : semantic_events'[f] = NULL <=> semantic_events[f] = NULL BY <1>1, <1>2
<1>5. \A f \in Stored : f \in EventIds /\ EventRowOK(f) BY DEF MemoryInv, TableOK, Stored
<1>6. \A f \in Stored :
         /\ semantic_events'[f].vector \in {NULL, semantic_events'[f].content}
         /\ semantic_events'[f].superseded_by \in {semantic_events[f].superseded_by} \cup {s \in Stored : s > f}
         /\ semantic_events'[f].status = "superseded" => semantic_events'[f].superseded_by # NULL
  BY <1>2, <1>5 DEF EventRowOK
<1> QED BY <1>2, <1>3, <1>4, <1>6, RowsRewritten

\* A worker goes to another place.
LEMMA WorkerGoes ==
    ASSUME MemoryInv, NEW w \in MemoryWorkers, NEW place \in WorkerPlaces, Goes(w, place)
    PROVE  \E r \in WorkerRecord : /\ worker' = [worker EXCEPT ![w] = r] /\ r.at = place
                                   /\ r.marks = worker[w].marks /\ r.id = worker[w].id
                                   /\ r.duplicate = worker[w].duplicate
<1> DEFINE r == [worker[w] EXCEPT !.at = place]
<1>1. worker[w] \in WorkerRecord BY DEF MemoryInv
<1>2. r \in WorkerRecord /\ r.at = place /\ r.marks = worker[w].marks /\ r.id = worker[w].id
      /\ r.duplicate = worker[w].duplicate
  BY <1>1 DEF WorkerRecord
<1>3. worker' = [worker EXCEPT ![w] = r] BY DEF Goes
<1> HIDE DEF r
<1> QED BY <1>2, <1>3

\* The worker that turns to the next event of the list has forgotten the last one.
LEMMA WorkerTurnsToNext ==
    ASSUME MemoryInv, NEW w \in MemoryWorkers, NextRaw(w)
    PROVE  \E r \in WorkerRecord : /\ worker' = [worker EXCEPT ![w] = r] /\ r.at = "extract"
                                   /\ r.marks = worker[w].marks
<1> DEFINE r1 == [worker[w] EXCEPT !.at = "extract"]
           r2 == [r1 EXCEPT !.id = NULL]
           r3 == [r2 EXCEPT !.event = NULL]
           r == [r3 EXCEPT !.duplicate = NULL]
<1>1. worker[w] \in WorkerRecord BY DEF MemoryInv
<1>2. worker' = [worker EXCEPT ![w] = r] BY DEF NextRaw, MemoryInv
<1>3. r1 \in WorkerRecord /\ r1.at = "extract" /\ r1.marks = worker[w].marks
  BY <1>1 DEF WorkerRecord, WorkerPlaces
<1> HIDE DEF r1
<1>4. r2 \in WorkerRecord /\ r2.at = "extract" /\ r2.marks = worker[w].marks BY <1>3 DEF WorkerRecord
<1> HIDE DEF r2
<1>5. r3 \in WorkerRecord /\ r3.at = "extract" /\ r3.marks = worker[w].marks BY <1>4 DEF WorkerRecord
<1> HIDE DEF r3
<1>6. r \in WorkerRecord /\ r.at = "extract" /\ r.marks = worker[w].marks BY <1>5 DEF WorkerRecord
<1> HIDE DEF r
<1> QED BY <1>2, <1>6

LEMMA ExtractingWorker ==
    ASSUME NEW n \in 0..MaxTurns,
           NEW r, r = [Resting_Worker EXCEPT !.at = "extract", !.left = MaxExtracted, !.upto = n]
    PROVE  r \in WorkerRecord /\ r.at = "extract" /\ r.marks = {}
<1>1. r = [at |-> "extract", left |-> MaxExtracted, upto |-> n, id |-> NULL, event |-> NULL,
           duplicate |-> NULL, marks |-> {}]
  BY DEF Resting_Worker
<1>2. MaxExtracted \in 0..MaxExtracted BY MemoryAssumption
<1>3. "extract" \in WorkerPlaces BY DEF WorkerPlaces
<1>4. r.at = "extract" /\ r.marks = {} BY ONLY <1>1
<1>5. r \in WorkerRecord BY ONLY n \in 0..MaxTurns, <1>1, <1>2, <1>3 DEF WorkerRecord
<1> QED BY <1>4, <1>5

LEMMA MemoryStep == MemoryInv /\ [MemoryNext]_memoryVars => MemoryInv'
<1> SUFFICES ASSUME MemoryInv, [MemoryNext]_memoryVars PROVE MemoryInv' OBVIOUS
<1>0. /\ TableOK /\ worker \in [MemoryWorkers -> WorkerRecord] /\ (\A w \in MemoryWorkers : WorkerOK(w))
      /\ DistinctIds /\ TurnsOK
      /\ edits \in [Editors -> [id : EventIds, row : SemanticEvent] \cup {NULL}] /\ (\A u \in Editors : EditOK(u))
      /\ MaxEvents \in Nat /\ MaxTurns \in Nat /\ MaxExtracted \in Nat /\ MaxEpisodes \in Nat
      /\ NULL \notin EventIds /\ NULL \notin SemanticEvent /\ EventIds \subseteq Nat
      /\ "turn" \in MemoryWorkers /\ "idle" \in MemoryWorkers
      /\ next_event \in 1..MaxEvents + 1 /\ user_turns \in 0..MaxTurns
      /\ last_extracted_turn \in 0..MaxTurns /\ episodes \in 0..MaxEpisodes
  BY MemoryAssumption DEF MemoryInv, MemoryWorkers, EventIds, TableOK, TurnsOK
<1>00. \A e \in Stored : e \in EventIds /\ semantic_events[e] \in SemanticEvent /\ EventRowOK(e) /\ e < next_event
  BY <1>0 DEF TableOK, Stored, EventRowOK
\* A step of one worker that leaves the table, the editors and the counters alone.
<1>1. ASSUME NEW w \in MemoryWorkers, NEW r \in WorkerRecord, worker' = [worker EXCEPT ![w] = r],
             r.marks \subseteq Stored, r.at \notin {"store", "supersede"},
             UNCHANGED <<semantic_events, next_event, edits>>, TurnsOK'
      PROVE  MemoryInv'
  <2>1. worker' \in [MemoryWorkers -> WorkerRecord] /\ worker'[w] = r
        /\ \A v \in MemoryWorkers : v # w => worker'[v] = worker[v]
    BY <1>1, WorkerMoves
  <2>2. Stored' = Stored /\ TableOK' BY <1>0, <1>1 DEF TableOK, Stored, EventRowOK
  <2>3. \A u \in Editors : EditOK(u)' BY <1>0, <1>1, <2>2 DEF EditOK
  <2>4. \A v \in MemoryWorkers : WorkerOK(v)' BY <1>0, <1>1, <2>1, <2>2 DEF WorkerOK
  <2>5. DistinctIds' BY <1>0, <1>1, <2>1 DEF DistinctIds, MemoryWorkers
  <2> QED BY <1>0, <1>1, <2>1, <2>2, <2>3, <2>4, <2>5 DEF MemoryInv
<1>2. CASE Recall
  <2>1. PICK hits \in SUBSET get_active :
          worker' = [worker EXCEPT !["turn"] = [@ EXCEPT !.at = "recalled", !.marks = hits]]
    BY <1>2 DEF Recall
  <2> DEFINE r1 == [worker["turn"] EXCEPT !.at = "recalled"]
             r == [r1 EXCEPT !.marks = hits]
  <2>2. worker' = [worker EXCEPT !["turn"] = r] BY <1>0, <2>1
  <2>3. r1 \in WorkerRecord /\ r1.at = "recalled" BY <1>0 DEF WorkerRecord, WorkerPlaces
  <2>4. hits \subseteq Stored /\ hits \in SUBSET EventIds BY <2>1, <1>00 DEF get_active
  <2> HIDE DEF r1
  <2>5. r \in WorkerRecord /\ r.at = "recalled" /\ r.marks = hits BY <2>3, <2>4 DEF WorkerRecord
  <2> HIDE DEF r
  <2>6. user_turns < MaxTurns /\ UNCHANGED <<semantic_events, next_event, edits, user_turns, last_extracted_turn, episodes>>
    BY <1>2 DEF Recall
  <2>7. TurnsOK' BY <1>0, <2>6 DEF TurnsOK
  <2> QED BY <1>0, <1>1, <2>2, <2>4, <2>5, <2>6, <2>7
<1>3. CASE update_recall_stats
  <2>1. /\ worker["turn"].at = "recalled"
        /\ semantic_events' = [e \in EventIds |->
              IF e \in worker["turn"].marks THEN [semantic_events[e] EXCEPT !.recalled = TRUE] ELSE semantic_events[e]]
        /\ worker' = [worker EXCEPT !["turn"] = [@ EXCEPT !.at = "answering", !.marks = {}]]
        /\ UNCHANGED <<next_event, edits, user_turns, last_extracted_turn, episodes>>
    BY <1>3 DEF update_recall_stats, At
  <2> DEFINE r1 == [worker["turn"] EXCEPT !.at = "answering"]
             r == [r1 EXCEPT !.marks = {}]
  <2>2. worker' = [worker EXCEPT !["turn"] = r] BY <1>0, <2>1
  <2>3. r1 \in WorkerRecord /\ r1.at = "answering" BY <1>0 DEF WorkerRecord, WorkerPlaces
  <2> HIDE DEF r1
  <2>4. r \in WorkerRecord /\ r.at = "answering" /\ r.marks = {} BY <2>3 DEF WorkerRecord
  <2> HIDE DEF r
  <2>5. worker["turn"].marks \subseteq Stored BY <1>0 DEF WorkerOK
  <2>6. \A e \in EventIds : \/ semantic_events'[e] = semantic_events[e]
                            \/ e \in Stored /\ semantic_events'[e] = [semantic_events[e] EXCEPT !.recalled = TRUE]
    BY <2>1, <2>5
  <2>7. \A e \in Stored : /\ semantic_events'[e] \in SemanticEvent
                          /\ semantic_events'[e].status = semantic_events[e].status
                          /\ semantic_events'[e].vector = semantic_events[e].vector
                          /\ semantic_events'[e].content = semantic_events[e].content
                          /\ semantic_events'[e].superseded_by = semantic_events[e].superseded_by
    BY <1>00, <2>6, RowRecalled
  <2>8. /\ semantic_events' \in [EventIds -> SemanticEvent \cup {NULL}]
        /\ \A e \in EventIds : semantic_events'[e] = NULL <=> semantic_events[e] = NULL
    <3>1. \A e \in EventIds : e \notin Stored => semantic_events'[e] = NULL /\ semantic_events[e] = NULL
      BY <2>6 DEF Stored
    <3>2. \A e \in EventIds : semantic_events'[e] \in SemanticEvent \cup {NULL} BY <2>7, <3>1
    <3>3. \A e \in EventIds : semantic_events'[e] = NULL <=> semantic_events[e] = NULL
      BY <1>0, <1>00, <2>7, <3>1
    <3> QED BY <2>1, <3>2, <3>3
  <2>9. /\ TableOK' /\ Stored' = Stored
        /\ \A v \in MemoryWorkers : worker'[v] = worker[v] => WorkerOK(v)'
        /\ \A u \in Editors : edits'[u] = edits[u] => EditOK(u)'
    BY <1>00, <2>1, <2>7, <2>8, RowsRewritten DEF EventRowOK
  <2>10. worker' \in [MemoryWorkers -> WorkerRecord] /\ worker'["turn"] = r
         /\ \A v \in MemoryWorkers : v # "turn" => worker'[v] = worker[v]
    BY <1>0, <2>2, <2>4, WorkerMoves
  <2>11. \A v \in MemoryWorkers : WorkerOK(v)' BY <2>4, <2>9, <2>10 DEF WorkerOK
  <2>12. DistinctIds' /\ TurnsOK' BY <1>0, <2>1, <2>4, <2>10 DEF DistinctIds, TurnsOK
  <2> QED BY <1>0, <2>1, <2>9, <2>10, <2>11, <2>12 DEF MemoryInv
<1>4. CASE TurnEnd
  <2>1. worker["turn"].at = "answering" /\ user_turns' = user_turns + 1
        /\ UNCHANGED <<semantic_events, next_event, edits, last_extracted_turn, episodes>>
    BY <1>4 DEF TurnEnd, At
  <2>2. user_turns' \in 0..MaxTurns BY <1>0, <2>1 DEF TurnsOK
  <2>3. PICK r \in WorkerRecord : worker' = [worker EXCEPT !["turn"] = r] /\ r.at \in {"extract", "rest"}
                                  /\ r.marks \subseteq Stored
    <3>1. CASE should_extract(user_turns + 1)
      <4> DEFINE r == [Resting_Worker EXCEPT !.at = "extract", !.left = MaxExtracted, !.upto = user_turns + 1]
      <4>1. worker' = [worker EXCEPT !["turn"] = r] BY <1>4, <3>1 DEF TurnEnd
      <4>2. r \in WorkerRecord /\ r.at = "extract" /\ r.marks = {} BY <2>1, <2>2, ExtractingWorker
      <4> HIDE DEF r
      <4> QED BY <4>1, <4>2
    <3>2. CASE ~should_extract(user_turns + 1)
      <4>1. Goes("turn", "rest") BY <1>4, <3>2 DEF TurnEnd
      <4>2. "rest" \in WorkerPlaces BY DEF WorkerPlaces
      <4>3. worker["turn"].marks \subseteq Stored BY <1>0 DEF WorkerOK
      <4> QED BY <1>0, <4>1, <4>2, <4>3, WorkerGoes
    <3> QED BY <3>1, <3>2
  <2>4. worker'["turn"].at \in {"extract", "rest"} BY <1>0, <2>3
  <2>5. TurnsOK' BY <1>0, <2>1, <2>2, <2>4 DEF TurnsOK
  <2> QED BY <1>0, <1>1, <2>1, <2>3, <2>5
<1>5. CASE on_idle
  <2>1. worker["idle"].at = "rest" /\ episodes' \in 0..MaxEpisodes
        /\ UNCHANGED <<semantic_events, next_event, edits, user_turns, last_extracted_turn>>
    BY <1>0, <1>5 DEF on_idle, At, NewEpisode
  <2>2. PICK r \in WorkerRecord : worker' = [worker EXCEPT !["idle"] = r] /\ r.at \in {"extract", "gc"}
                                  /\ r.marks \subseteq Stored
    <3>1. CASE user_turns > last_extracted_turn /\ ~should_extract(user_turns)
      <4> DEFINE r == [Resting_Worker EXCEPT !.at = "extract", !.left = MaxExtracted, !.upto = user_turns]
      <4>1. worker' = [worker EXCEPT !["idle"] = r] BY <1>5, <3>1 DEF on_idle
      <4>2. r \in WorkerRecord /\ r.at = "extract" /\ r.marks = {} BY <1>0, ExtractingWorker
      <4> HIDE DEF r
      <4> QED BY <4>1, <4>2
    <3>2. CASE ~(user_turns > last_extracted_turn /\ ~should_extract(user_turns))
      <4>1. Goes("idle", "gc") BY <1>5, <3>2 DEF on_idle
      <4>2. "gc" \in WorkerPlaces BY DEF WorkerPlaces
      <4>3. worker["idle"].marks \subseteq Stored BY <1>0 DEF WorkerOK
      <4> QED BY <1>0, <4>1, <4>2, <4>3, WorkerGoes
    <3> QED BY <3>1, <3>2
  <2>3. worker'["turn"] = worker["turn"] BY <1>0, <2>2 DEF MemoryWorkers
  <2>4. TurnsOK' BY <1>0, <2>1, <2>3 DEF TurnsOK
  <2> QED BY <1>0, <1>1, <2>1, <2>2, <2>4
<1>6. ASSUME NEW w \in MemoryWorkers, ExtractOne(w) PROVE MemoryInv'
  <2>1. PICK c \in EventContents, i \in Importance, embedded \in BOOLEAN :
          LET d == _find_duplicate(c)
              known == d # NULL /\ i <= semantic_events[d].importance
          IN  /\ worker' = [worker EXCEPT ![w] = [@ EXCEPT
                               !.left = worker[w].left - 1,
                               !.at = IF known THEN "extract" ELSE "store",
                               !.id = IF known THEN NULL ELSE next_event,
                               !.event = IF known THEN NULL
                                         ELSE NewEvent(c, IF embedded THEN c ELSE NULL, i),
                               !.duplicate = IF known THEN NULL ELSE d]]
              /\ next_event' = IF known THEN next_event ELSE next_event + 1
    BY <1>6 DEF ExtractOne
  <2>2. /\ worker[w].at = "extract" /\ worker[w].left > 0 /\ next_event <= MaxEvents
        /\ UNCHANGED <<semantic_events, edits, user_turns, last_extracted_turn, episodes>>
    BY <1>6 DEF ExtractOne, At
  <2> DEFINE d == _find_duplicate(c)
             known == d # NULL /\ i <= semantic_events[d].importance
             v == IF embedded THEN c ELSE NULL
             n == NewEvent(c, v, i)
             r1 == [worker[w] EXCEPT !.left = worker[w].left - 1]
             r2 == [r1 EXCEPT !.at = IF known THEN "extract" ELSE "store"]
             r3 == [r2 EXCEPT !.id = IF known THEN NULL ELSE next_event]
             r4 == [r3 EXCEPT !.event = IF known THEN NULL ELSE n]
             r == [r4 EXCEPT !.duplicate = IF known THEN NULL ELSE d]
  <2>3. worker' = [worker EXCEPT ![w] = r] /\ next_event' = IF known THEN next_event ELSE next_event + 1
    <3> HIDE DEF n, known, d
    <3> QED BY <1>0, <2>1 DEF d, known, n
  <2>4. d \in {NULL} \cup get_active BY DuplicateIsStored
  <2> HIDE DEF d
  <2>5. d \in {NULL} \cup Stored /\ (d # NULL => d < next_event) /\ d \in EventIds \cup {NULL}
    BY <1>00, <2>4 DEF get_active
  <2> HIDE DEF known
  <2>6. n \in SemanticEvent /\ n.vector \in {NULL, n.content} /\ n.status = "active" /\ n.superseded_by = NULL
    <3>1. v \in {NULL, c} OBVIOUS
    <3> HIDE DEF v
    <3> QED BY <2>1, <3>1 DEF NewEvent, SemanticEvent
  <2> HIDE DEF n
  <2>7. next_event \in EventIds /\ next_event \in Nat BY <1>0, <2>2 DEF EventIds
  <2>8. r1 \in WorkerRecord /\ r1.marks = worker[w].marks
    <3>1. worker[w].left \in 0..MaxExtracted BY <1>0 DEF WorkerRecord
    <3>2. worker[w].left - 1 \in 0..MaxExtracted BY <1>0, <2>2, <3>1
    <3> QED BY <1>0, <3>2 DEF WorkerRecord
  <2> HIDE DEF r1
  <2>9. r2 \in WorkerRecord /\ r2.marks = worker[w].marks /\ r2.at = IF known THEN "extract" ELSE "store"
    BY <2>8 DEF WorkerRecord, WorkerPlaces
  <2> HIDE DEF r2
  <2>10. r3 \in WorkerRecord /\ r3.marks = worker[w].marks /\ r3.at = r2.at
         /\ r3.id = IF known THEN NULL ELSE next_event
    BY <2>7, <2>9 DEF WorkerRecord
  <2> HIDE DEF r3
  <2>11. r4 \in WorkerRecord /\ r4.marks = worker[w].marks /\ r4.at = r2.at /\ r4.id = r3.id
         /\ r4.event = IF known THEN NULL ELSE n
    BY <2>6, <2>10 DEF WorkerRecord
  <2> HIDE DEF r4
  <2>12. r \in WorkerRecord /\ r.marks = worker[w].marks /\ r.at = r2.at /\ r.id = r3.id
         /\ r.event = r4.event /\ r.duplicate = IF known THEN NULL ELSE d
    BY <2>5, <2>11 DEF WorkerRecord
  <2> HIDE DEF r
  <2>13. worker' \in [MemoryWorkers -> WorkerRecord] /\ worker'[w] = r
         /\ \A x \in MemoryWorkers : x # w => worker'[x] = worker[x]
    BY <2>3, <2>12, WorkerMoves
  <2>14. worker[w].marks \subseteq Stored BY <1>0 DEF WorkerOK
  <2>15. TurnsOK' BY <1>0, <2>2, <2>9, <2>12, <2>13 DEF TurnsOK
  <2>16. CASE known
    <3>1. r.at = "extract" /\ next_event' = next_event BY <2>3, <2>9, <2>12, <2>16
    <3> QED BY <1>1, <2>2, <2>3, <2>12, <2>14, <2>15, <3>1
  <2>17. CASE ~known
    <3>1. r.at = "store" /\ r.id = next_event /\ r.event = n /\ r.duplicate = d /\ next_event' = next_event + 1
      BY <2>3, <2>9, <2>10, <2>11, <2>12, <2>17
    <3>2. Stored' = Stored /\ next_event' \in 1..MaxEvents + 1 /\ next_event <= next_event' /\ next_event' \in Nat
      BY <1>0, <2>2, <3>1 DEF Stored
    <3>3. TableOK'
      <4>1. \A e \in Stored : EventRowOK(e)'
        <5>1. \A e \in Stored : e < next_event'
          <6>1. \A e \in Stored : e \in Nat /\ e < next_event BY <1>0, <1>00
          <6> QED BY <2>7, <3>1, <6>1
        <5> QED BY <1>00, <2>2, <3>2, <5>1 DEF EventRowOK
      <4> QED BY <1>0, <2>2, <3>2, <4>1 DEF TableOK
    <3>4. semantic_events[next_event] = NULL
      <4>1. next_event \notin Stored BY <1>00, <2>7
      <4> QED BY <2>7, <4>1 DEF Stored
    <3>5. WorkerOK(w)'
      <4>1. next_event < next_event' BY <2>7, <3>1
      <4>2. worker'[w] = r /\ r.marks \subseteq Stored' /\ semantic_events'[r.id] = NULL
        BY <2>2, <2>12, <2>13, <2>14, <3>1, <3>2, <3>4
      <4> QED BY <2>5, <2>6, <2>7, <2>12, <3>1, <3>2, <4>1, <4>2 DEF WorkerOK
    <3>6. PICK e0 : e0 \notin EventIds BY <1>0
    <3>7. \A x \in MemoryWorkers : worker[x].at = "store" => worker[x].id # e0 BY <1>0, <3>6 DEF WorkerOK
    <3>8. /\ \A x \in MemoryWorkers : worker'[x] = worker[x] => WorkerOK(x)'
          /\ \A u \in Editors : edits'[u] = edits[u] => EditOK(u)'
      BY <2>2, <2>7, <3>2, <3>7, OthersHold
    <3>9. \A u \in Editors : EditOK(u)' BY <2>2, <3>8
    <3>10. \A x \in MemoryWorkers : WorkerOK(x)' BY <2>13, <3>5, <3>8
    <3>11. DistinctIds'
      <4>1. \A x \in MemoryWorkers : worker[x].at = "store" => worker[x].id # next_event
        BY <1>0, <2>7 DEF WorkerOK
      <4> QED BY <2>13, <3>1, <4>1 DEF DistinctIds, MemoryWorkers
    <3> QED BY <1>0, <2>2, <2>13, <2>15, <3>3, <3>9, <3>10, <3>11 DEF MemoryInv
  <2> QED BY <2>16, <2>17
<1>7. ASSUME NEW w \in MemoryWorkers, store(w) PROVE MemoryInv'
  <2>1. /\ worker[w].at = "store"
        /\ semantic_events' = [semantic_events EXCEPT ![worker[w].id] = worker[w].event]
        /\ IF worker[w].duplicate = NULL THEN NextRaw(w) ELSE Goes(w, "supersede")
        /\ UNCHANGED <<next_event, edits, user_turns, last_extracted_turn, episodes>>
    BY <1>7 DEF store, At
  <2>2. WorkerOK(w) BY <1>0
  <2>3. PICK e0, r : e0 = worker[w].id /\ r = worker[w].event OBVIOUS
  <2>4. e0 \in EventIds /\ e0 < next_event /\ r \in SemanticEvent /\ semantic_events[e0] = NULL
        /\ r.vector \in {NULL, r.content} /\ r.superseded_by = NULL /\ r.status = "active"
    BY <2>1, <2>2, <2>3 DEF WorkerOK
  <2>5. /\ TableOK' /\ Stored' = Stored \cup {e0}
        /\ \A x \in MemoryWorkers : worker'[x] = worker[x] /\ (worker[x].at = "store" => worker[x].id # e0)
               => WorkerOK(x)'
        /\ \A u \in Editors : edits'[u] = edits[u] => EditOK(u)'
    BY <1>0, <2>1, <2>3, <2>4, RowInserted
  <2>6. PICK m \in WorkerRecord : /\ worker' = [worker EXCEPT ![w] = m] /\ m.marks = worker[w].marks
                                  /\ m.at \in {"extract", "supersede"}
                                  /\ m.at = "supersede" => m.id = e0 /\ m.duplicate = worker[w].duplicate
                                                           /\ worker[w].duplicate # NULL
    <3>1. CASE worker[w].duplicate = NULL BY <2>1, <3>1, WorkerTurnsToNext
    <3>2. CASE worker[w].duplicate # NULL
      <4>1. "supersede" \in WorkerPlaces BY DEF WorkerPlaces
      <4> QED BY <2>1, <2>3, <3>2, <4>1, WorkerGoes
    <3> QED BY <3>1, <3>2
  <2>7. worker' \in [MemoryWorkers -> WorkerRecord] /\ worker'[w] = m
        /\ \A x \in MemoryWorkers : x # w => worker'[x] = worker[x]
    BY <2>6, WorkerMoves
  <2>8. \A x \in MemoryWorkers : x # w => (worker[x].at = "store" => worker[x].id # e0)
    BY <1>0, <2>1, <2>3 DEF DistinctIds, MemoryWorkers
  <2>9. WorkerOK(w)' BY <2>1, <2>2, <2>3, <2>5, <2>6, <2>7 DEF WorkerOK
  <2>10. (\A x \in MemoryWorkers : WorkerOK(x)') /\ (\A u \in Editors : EditOK(u)')
    BY <2>1, <2>5, <2>7, <2>8, <2>9
  <2>11. DistinctIds' BY <2>6, <2>7 DEF DistinctIds, MemoryWorkers
  <2>12. TurnsOK' BY <1>0, <2>1, <2>6, <2>7 DEF TurnsOK
  <2> QED BY <1>0, <2>1, <2>5, <2>7, <2>10, <2>11, <2>12 DEF MemoryInv
<1>8. ASSUME NEW w \in MemoryWorkers, mark_superseded(w) PROVE MemoryInv'
  <2>1. /\ worker[w].at = "supersede"
        /\ semantic_events' = [semantic_events EXCEPT ![worker[w].duplicate] =
                             [@ EXCEPT !.status = "superseded", !.superseded_by = worker[w].id]]
        /\ NextRaw(w) /\ UNCHANGED <<next_event, edits, user_turns, last_extracted_turn, episodes>>
    BY <1>8 DEF mark_superseded, At
  <2>2. PICK e, n : e = worker[w].duplicate /\ n = worker[w].id OBVIOUS
  <2>3. e \in Stored /\ n \in Stored /\ n > e /\ n \in EventIds
    <3>1. WorkerOK(w) BY <1>0
    <3>2. e \in Stored /\ n \in Stored /\ e < n BY <2>1, <2>2, <3>1 DEF WorkerOK
    <3>3. e \in Nat /\ n \in Nat BY <1>0, <1>00, <3>2
    <3> QED BY <1>00, <3>2, <3>3
  <2> DEFINE r1 == [semantic_events[e] EXCEPT !.status = "superseded"]
             r == [r1 EXCEPT !.superseded_by = n]
  <2>4. semantic_events' = [semantic_events EXCEPT ![e] = r] BY <1>0, <1>00, <2>1, <2>2, <2>3 DEF TableOK
  <2>5. semantic_events[e] \in SemanticEvent /\ EventRowOK(e) BY <1>00, <2>3
  <2>6. r1 \in SemanticEvent /\ r1.vector = semantic_events[e].vector /\ r1.content = semantic_events[e].content
    BY <2>5, RowStatus
  <2> HIDE DEF r1
  <2>7. r \in SemanticEvent /\ r.vector \in {NULL, r.content} /\ r.superseded_by = n
    BY <2>3, <2>5, <2>6, RowSuccessor DEF EventRowOK
  <2> HIDE DEF r
  <2>8. n # NULL BY <1>0, <2>3
  <2>9. /\ TableOK' /\ Stored' = Stored
        /\ \A x \in MemoryWorkers : worker'[x] = worker[x] => WorkerOK(x)'
        /\ \A u \in Editors : edits'[u] = edits[u] => EditOK(u)'
    BY <2>1, <2>3, <2>4, <2>7, <2>8, RowRewritten
  <2>10. PICK m \in WorkerRecord : worker' = [worker EXCEPT ![w] = m] /\ m.marks = worker[w].marks
                                   /\ m.at = "extract"
    BY <2>1, WorkerTurnsToNext
  <2>11. worker' \in [MemoryWorkers -> WorkerRecord] /\ worker'[w] = m
         /\ \A x \in MemoryWorkers : x # w => worker'[x] = worker[x]
    BY <2>10, WorkerMoves
  <2>12. WorkerOK(w) BY <1>0
  <2>13. WorkerOK(w)' BY <2>9, <2>10, <2>11, <2>12 DEF WorkerOK
  <2>14. (\A x \in MemoryWorkers : WorkerOK(x)') /\ (\A u \in Editors : EditOK(u)')
    BY <2>1, <2>9, <2>11, <2>13
  <2>15. DistinctIds' BY <2>10, <2>11 DEF DistinctIds, MemoryWorkers
  <2>16. TurnsOK' BY <1>0, <2>1, <2>10, <2>11 DEF TurnsOK
  <2> QED BY <1>0, <2>1, <2>9, <2>11, <2>14, <2>15, <2>16 DEF MemoryInv
<1>9. ASSUME NEW w \in MemoryWorkers, ExtractFails(w) PROVE MemoryInv'
  <2>1. worker' = [worker EXCEPT ![w] = Resting_Worker]
        /\ UNCHANGED <<semantic_events, next_event, edits, user_turns, last_extracted_turn, episodes>>
    BY <1>9 DEF ExtractFails
  <2>2. TurnsOK' BY <1>0, <2>1, RestingWorker DEF TurnsOK
  <2> QED BY <1>1, <2>1, <2>2, RestingWorker
<1>10. ASSUME NEW w \in MemoryWorkers, mark_extracted(w) PROVE MemoryInv'
  <2> DEFINE r == [Resting_Worker EXCEPT !.at = IF w = "idle" THEN "gc" ELSE "rest"]
  <2>1. last_extracted_turn' = Max({last_extracted_turn, worker[w].upto}) /\ worker' = [worker EXCEPT ![w] = r]
        /\ UNCHANGED <<semantic_events, next_event, edits, user_turns, episodes>>
    BY <1>10 DEF mark_extracted
  <2>2. r \in WorkerRecord /\ r.at \in {"gc", "rest"} /\ r.marks = {}
    <3>1. r.at \in {"gc", "rest"} /\ r.marks = {} /\ r = [Resting_Worker EXCEPT !.at = r.at]
      BY RestingWorker DEF WorkerRecord, Resting_Worker
    <3> QED BY <3>1, RestingWorker DEF WorkerRecord, WorkerPlaces
  <2> HIDE DEF r
  <2>3. last_extracted_turn' \in 0..MaxTurns
    <3>1. worker[w].upto \in 0..MaxTurns BY <1>0 DEF WorkerRecord
    <3>2. \A a, b \in 0..MaxTurns : \E x \in {a, b} : \A y \in {a, b} : x >= y BY <1>0
    <3>3. Max({last_extracted_turn, worker[w].upto}) \in {last_extracted_turn, worker[w].upto}
      BY <1>0, <3>1, <3>2 DEF Max
    <3> QED BY <1>0, <2>1, <3>1, <3>3
  <2>4. TurnsOK' BY <1>0, <2>1, <2>2, <2>3 DEF TurnsOK
  <2> QED BY <1>1, <2>1, <2>2, <2>4
<1>11. CASE ReadForGc
  <2>1. PICK old \in SUBSET get_active :
          worker' = [worker EXCEPT !["idle"] = [@ EXCEPT !.at = "mark", !.marks = old]]
    BY <1>11 DEF ReadForGc
  <2> DEFINE r1 == [worker["idle"] EXCEPT !.at = "mark"]
             r == [r1 EXCEPT !.marks = old]
  <2>2. worker' = [worker EXCEPT !["idle"] = r] BY <1>0, <2>1
  <2>3. r1 \in WorkerRecord /\ r1.at = "mark" BY <1>0 DEF WorkerRecord, WorkerPlaces
  <2>4. old \subseteq Stored /\ old \in SUBSET EventIds BY <2>1, <1>00 DEF get_active
  <2> HIDE DEF r1
  <2>5. r \in WorkerRecord /\ r.at = "mark" /\ r.marks = old BY <2>3, <2>4 DEF WorkerRecord
  <2> HIDE DEF r
  <2>6. UNCHANGED <<semantic_events, next_event, edits, user_turns, last_extracted_turn, episodes>>
    BY <1>11 DEF ReadForGc
  <2>7. worker'["turn"] = worker["turn"] BY <1>0, <2>2 DEF MemoryWorkers
  <2>8. TurnsOK' BY <1>0, <2>6, <2>7 DEF TurnsOK
  <2> QED BY <1>0, <1>1, <2>2, <2>4, <2>5, <2>6, <2>8
<1>12. CASE mark_dormant
  <2>1. worker["idle"].at = "mark" /\ UNCHANGED <<next_event, edits, user_turns, last_extracted_turn, episodes>>
    BY <1>12 DEF mark_dormant, At
  <2>2. worker["idle"].marks \subseteq Stored BY <1>0 DEF WorkerOK
  <2>3. CASE worker["idle"].marks = {}
    <3>1. Goes("idle", "rest") /\ UNCHANGED semantic_events BY <1>12, <2>3 DEF mark_dormant
    <3>2. "rest" \in WorkerPlaces BY DEF WorkerPlaces
    <3>3. PICK r \in WorkerRecord : worker' = [worker EXCEPT !["idle"] = r] /\ r.at = "rest"
                                    /\ r.marks = worker["idle"].marks
      BY <1>0, <3>1, <3>2, WorkerGoes
    <3>4. worker'["turn"] = worker["turn"] BY <1>0, <3>3 DEF MemoryWorkers
    <3>5. TurnsOK' BY <1>0, <2>1, <3>4 DEF TurnsOK
    <3> QED BY <1>0, <1>1, <2>1, <2>2, <3>1, <3>3, <3>5
  <2>4. CASE worker["idle"].marks # {}
    <3>1. PICK e : e = Min(worker["idle"].marks) OBVIOUS
    <3>2. /\ semantic_events' = [semantic_events EXCEPT ![e].status = "dormant"]
          /\ worker' = [worker EXCEPT !["idle"].marks = @ \ {e}]
      BY <1>12, <2>4, <3>1 DEF mark_dormant
    <3>3. e \in worker["idle"].marks
      <4>1. worker["idle"].marks \subseteq 1..MaxEvents BY <1>00, <2>2 DEF EventIds
      <4>2. \E x \in worker["idle"].marks : \A y \in worker["idle"].marks : x <= y
        BY <1>0, <2>4, <4>1, IdsHaveEnds
      <4> QED BY <3>1, <4>2 DEF Min
    <3>4. e \in Stored /\ e \in EventIds /\ semantic_events[e] \in SemanticEvent /\ EventRowOK(e)
      BY <1>00, <2>2, <3>3
    <3> DEFINE r == [semantic_events[e] EXCEPT !.status = "dormant"]
               m == [worker["idle"] EXCEPT !.marks = worker["idle"].marks \ {e}]
    <3>5. semantic_events' = [semantic_events EXCEPT ![e] = r] /\ worker' = [worker EXCEPT !["idle"] = m]
      BY <1>0, <3>2, <3>4 DEF TableOK
    <3>6. r \in SemanticEvent /\ r.vector \in {NULL, r.content} /\ r.status = "dormant"
          /\ r.superseded_by = semantic_events[e].superseded_by
      BY <3>4, RowStatus DEF EventRowOK
    <3> HIDE DEF r
    <3>7. m \in WorkerRecord /\ m.at = "mark" /\ m.marks \subseteq Stored
      <4>1. worker["idle"] \in WorkerRecord BY <1>0
      <4>2. m \in WorkerRecord /\ m.at = worker["idle"].at /\ m.marks = worker["idle"].marks \ {e}
        BY <4>1 DEF WorkerRecord
      <4> HIDE DEF m
      <4> QED BY <2>1, <2>2, <4>2
    <3> HIDE DEF m
    <3>8. /\ TableOK' /\ Stored' = Stored
          /\ \A x \in MemoryWorkers : worker'[x] = worker[x] => WorkerOK(x)'
          /\ \A u \in Editors : edits'[u] = edits[u] => EditOK(u)'
      BY <2>1, <3>4, <3>5, <3>6, RowRewritten
    <3>9. worker' \in [MemoryWorkers -> WorkerRecord] /\ worker'["idle"] = m
          /\ \A x \in MemoryWorkers : x # "idle" => worker'[x] = worker[x]
      BY <1>0, <3>5, <3>7, WorkerMoves
    <3>10. WorkerOK("idle")' BY <3>7, <3>8, <3>9 DEF WorkerOK
    <3>11. (\A x \in MemoryWorkers : WorkerOK(x)') /\ (\A u \in Editors : EditOK(u)')
      BY <2>1, <3>8, <3>9, <3>10
    <3>12. DistinctIds' BY <3>7, <3>9 DEF DistinctIds
    <3>13. TurnsOK' BY <1>0, <2>1, <3>9 DEF TurnsOK
    <3> QED BY <1>0, <2>1, <3>8, <3>9, <3>11, <3>12, <3>13 DEF MemoryInv
  <2> QED BY <2>3, <2>4
<1>13. ASSUME NEW u \in Editors, create_semantic_event(u) PROVE MemoryInv'
  <2>1. PICK c \in EventContents : semantic_events' = [semantic_events EXCEPT ![next_event] = NewEvent(c, c, 2)]
    BY <1>13 DEF create_semantic_event
  <2>2. next_event <= MaxEvents /\ next_event' = next_event + 1 /\ episodes' \in 0..MaxEpisodes
        /\ UNCHANGED <<worker, edits, user_turns, last_extracted_turn>>
    BY <1>0, <1>13 DEF create_semantic_event, Call, NewEpisode
  <2>3. PICK r : r = NewEvent(c, c, 2) OBVIOUS
  <2>4. r \in SemanticEvent /\ r.vector \in {NULL, r.content} /\ r.superseded_by = NULL /\ r.status = "active"
    BY <2>1, <2>3 DEF NewEvent, SemanticEvent, Importance
  <2>5. next_event \in EventIds /\ next_event < next_event' /\ next_event' \in 1..MaxEvents + 1
    BY <1>0, <2>2 DEF EventIds
  <2>6. semantic_events[next_event] = NULL
    <3>1. next_event \notin Stored BY <1>0, <1>00
    <3> QED BY <2>5, <3>1 DEF Stored
  <2>7. \A w \in MemoryWorkers : worker[w].at = "store" => worker[w].id # next_event
    BY <1>0 DEF WorkerOK
  <2>8. TableOK' /\ (\A w \in MemoryWorkers : WorkerOK(w)') /\ (\A x \in Editors : EditOK(x)')
    <3>1. PICK e0 : e0 = next_event OBVIOUS
    <3> QED BY <2>1, <2>2, <2>3, <2>4, <2>5, <2>6, <2>7, <3>1, RowInserted
  <2>9. DistinctIds' /\ TurnsOK' BY <1>0, <2>2 DEF DistinctIds, TurnsOK
  <2> QED BY <1>0, <2>2, <2>8, <2>9 DEF MemoryInv
<1>14. ASSUME NEW u \in Editors, update_fields(u) PROVE MemoryInv'
  <2>1. PICK e, row :
          /\ e \in Stored
          /\ row \in {WithContent(semantic_events[e], c) : c \in EventContents}
                     \cup {WithImportance(semantic_events[e], i) : i \in Importance}
          /\ edits' = [edits EXCEPT ![u] = [id |-> e, row |-> row]]
    BY <1>14 DEF update_fields
  <2>2. episodes' \in 0..MaxEpisodes /\ UNCHANGED <<semantic_events, next_event, worker, user_turns, last_extracted_turn>>
    BY <1>0, <1>14 DEF update_fields, Call, NewEpisode
  <2>3. e \in EventIds /\ semantic_events[e] \in SemanticEvent /\ EventRowOK(e) BY <1>00, <2>1
  <2>4. row \in SemanticEvent /\ row.vector \in {NULL, row.content} /\ row.status = semantic_events[e].status
    <3>1. ASSUME NEW c \in EventContents, row = WithContent(semantic_events[e], c)
          PROVE  row \in SemanticEvent /\ row.vector \in {NULL, row.content} /\ row.status = semantic_events[e].status
      <4> DEFINE m == [semantic_events[e] EXCEPT !.content = c]
      <4>1. row = [m EXCEPT !.vector = NULL] BY <2>3, <3>1 DEF WithContent, SemanticEvent
      <4>2. m \in SemanticEvent /\ m.status = semantic_events[e].status BY <2>3, RowContent
      <4> HIDE DEF m
      <4> QED BY <4>1, <4>2, RowVector
    <3>2. ASSUME NEW i \in Importance, row = WithImportance(semantic_events[e], i)
          PROVE  row \in SemanticEvent /\ row.vector \in {NULL, row.content} /\ row.status = semantic_events[e].status
      BY <2>3, <3>2, RowImportance DEF WithImportance, EventRowOK
    <3> QED BY <2>1, <3>1, <3>2
  <2>5. PICK x : x = [id |-> e, row |-> row] OBVIOUS
  <2>6. x \in [id : EventIds, row : SemanticEvent] /\ x.id = e /\ x.row = row BY <2>3, <2>4, <2>5
  <2>7. edits' \in [Editors -> [id : EventIds, row : SemanticEvent] \cup {NULL}] /\ edits'[u] = x
        /\ \A v \in Editors : v # u => edits'[v] = edits[v]
    BY <1>0, <2>1, <2>5, <2>6
  <2>8. Stored' = Stored /\ TableOK' /\ (\A w \in MemoryWorkers : WorkerOK(w)') /\ DistinctIds' /\ TurnsOK'
    BY <1>0, <2>2 DEF Stored, TableOK, EventRowOK, WorkerOK, DistinctIds, TurnsOK
  <2>9. EditOK(u)' BY <2>1, <2>2, <2>3, <2>4, <2>6, <2>7, <2>8 DEF EditOK, EventRowOK
  <2>10. \A v \in Editors : EditOK(v)' BY <1>0, <2>2, <2>7, <2>8, <2>9 DEF EditOK
  <2> QED BY <1>0, <2>2, <2>7, <2>8, <2>10 DEF MemoryInv
<1>15. ASSUME NEW u \in Editors, WriteFields(u) PROVE MemoryInv'
  <2>1. PICK e, row : e = edits[u].id /\ row = edits[u].row OBVIOUS
  <2>2. /\ edits[u] # NULL /\ edits' = [edits EXCEPT ![u] = NULL]
        /\ semantic_events' = [semantic_events EXCEPT ![e] = [@ EXCEPT
              !.content = row.content, !.vector = row.vector,
              !.importance = row.importance, !.status = row.status]]
        /\ UNCHANGED <<next_event, worker, user_turns, last_extracted_turn, episodes>>
    BY <1>15, <2>1 DEF WriteFields
  <2>3. /\ e \in Stored /\ row \in SemanticEvent /\ row.vector \in {NULL, row.content}
        /\ row.status = "superseded" => semantic_events[e].superseded_by # NULL
    <3>1. EditOK(u) BY <1>0
    <3> QED BY <2>1, <2>2, <3>1 DEF EditOK
  <2>4. e \in EventIds /\ semantic_events[e] \in SemanticEvent BY <1>00, <2>3
  <2>5. row.content \in EventContents /\ row.vector \in EventContents \cup {NULL} /\ row.importance \in Importance
        /\ row.status \in {"active", "superseded", "dormant"}
    BY <2>3 DEF SemanticEvent
  <2> DEFINE r1 == [semantic_events[e] EXCEPT !.content = row.content]
             r2 == [r1 EXCEPT !.vector = row.vector]
             r3 == [r2 EXCEPT !.importance = row.importance]
             r == [r3 EXCEPT !.status = row.status]
  <2>6. semantic_events' = [semantic_events EXCEPT ![e] = r] BY <1>0, <2>2, <2>4 DEF TableOK
  <2>7. r1 \in SemanticEvent /\ r1.content = row.content /\ r1.superseded_by = semantic_events[e].superseded_by
    BY <2>4, <2>5, RowContent
  <2> HIDE DEF r1
  <2>8. r2 \in SemanticEvent /\ r2.content = row.content /\ r2.vector = row.vector
        /\ r2.superseded_by = semantic_events[e].superseded_by
    BY <2>5, <2>7, RowVector
  <2> HIDE DEF r2
  <2>9. r3 \in SemanticEvent /\ r3.content = row.content /\ r3.vector = row.vector
        /\ r3.superseded_by = semantic_events[e].superseded_by
    BY <2>5, <2>8, RowImportance
  <2> HIDE DEF r3
  <2>10. r \in SemanticEvent /\ r.content = row.content /\ r.vector = row.vector /\ r.status = row.status
         /\ r.superseded_by = semantic_events[e].superseded_by
    BY <2>5, <2>9, RowStatus
  <2> HIDE DEF r
  <2>11. /\ TableOK' /\ Stored' = Stored
         /\ \A x \in MemoryWorkers : worker'[x] = worker[x] => WorkerOK(x)'
         /\ \A v \in Editors : edits'[v] = edits[v] => EditOK(v)'
    BY <2>2, <2>3, <2>6, <2>10, RowRewritten
  <2>12. edits' \in [Editors -> [id : EventIds, row : SemanticEvent] \cup {NULL}] /\ edits'[u] = NULL
         /\ \A v \in Editors : v # u => edits'[v] = edits[v]
    BY <1>0, <2>2
  <2>13. \A v \in Editors : EditOK(v)' BY <2>11, <2>12 DEF EditOK
  <2>14. DistinctIds' /\ TurnsOK' BY <1>0, <2>2 DEF DistinctIds, TurnsOK
  <2> QED BY <1>0, <2>2, <2>11, <2>12, <2>13, <2>14 DEF MemoryInv
<1>16. ASSUME NEW u \in Editors, delete_semantic_event(u) PROVE MemoryInv'
  <2>1. PICK e \in Stored : semantic_events' = [semantic_events EXCEPT ![e].status = "dormant"]
    BY <1>16 DEF delete_semantic_event
  <2>2. episodes' \in 0..MaxEpisodes /\ UNCHANGED <<next_event, worker, edits, user_turns, last_extracted_turn>>
    BY <1>0, <1>16 DEF delete_semantic_event, Call, NewEpisode
  <2>3. e \in EventIds /\ semantic_events[e] \in SemanticEvent /\ EventRowOK(e) BY <1>00, <2>1
  <2> DEFINE r == [semantic_events[e] EXCEPT !.status = "dormant"]
  <2>4. semantic_events' = [semantic_events EXCEPT ![e] = r] BY <1>0, <2>1, <2>3 DEF TableOK
  <2>5. r \in SemanticEvent /\ r.vector \in {NULL, r.content} /\ r.status = "dormant"
        /\ r.superseded_by = semantic_events[e].superseded_by
    BY <2>3, RowStatus DEF EventRowOK
  <2> HIDE DEF r
  <2>6. TableOK' /\ (\A w \in MemoryWorkers : WorkerOK(w)') /\ (\A v \in Editors : EditOK(v)')
    BY <2>1, <2>2, <2>4, <2>5, RowRewritten
  <2>7. DistinctIds' /\ TurnsOK' BY <1>0, <2>2 DEF DistinctIds, TurnsOK
  <2> QED BY <1>0, <2>2, <2>6, <2>7 DEF MemoryInv
<1>17. CASE CompanionStarts
  <2>1. PICK embedded \in SUBSET {e \in Stored : semantic_events[e].vector = NULL} :
          recompute_content_embeddings(embedded)
    BY <1>17 DEF CompanionStarts
  <2>2. /\ episodes' \in 0..MaxEpisodes /\ last_extracted_turn' = 0 /\ UNCHANGED <<next_event, user_turns>>
        /\ worker' = [w \in MemoryWorkers |-> Resting_Worker] /\ edits' = [u \in Editors |-> NULL]
    BY <1>0, <1>17 DEF CompanionStarts, NewEpisode, MemoryWorkers
  <2>3. semantic_events' = [e \in EventIds |->
           IF e \in embedded THEN [semantic_events[e] EXCEPT !.vector = semantic_events[e].content]
           ELSE semantic_events[e]]
    BY <2>1 DEF recompute_content_embeddings
  <2>4. \A e \in EventIds :
           \/ semantic_events'[e] = semantic_events[e]
           \/ e \in Stored /\ semantic_events'[e] = [semantic_events[e] EXCEPT !.vector = semantic_events[e].content]
    BY <2>1, <2>3
  <2>5. \A e \in Stored : semantic_events[e].content \in EventContents BY <1>00 DEF SemanticEvent
  <2>6. \A e \in Stored : /\ semantic_events'[e] \in SemanticEvent
                          /\ semantic_events'[e].status = semantic_events[e].status
                          /\ semantic_events'[e].vector \in {NULL, semantic_events'[e].content}
                          /\ semantic_events'[e].superseded_by = semantic_events[e].superseded_by
    <3> SUFFICES ASSUME NEW e \in Stored
                 PROVE  /\ semantic_events'[e] \in SemanticEvent
                        /\ semantic_events'[e].status = semantic_events[e].status
                        /\ semantic_events'[e].vector \in {NULL, semantic_events'[e].content}
                        /\ semantic_events'[e].superseded_by = semantic_events[e].superseded_by
      OBVIOUS
    <3>1. e \in EventIds /\ semantic_events[e] \in SemanticEvent /\ EventRowOK(e) BY <1>00
    <3>2. CASE semantic_events'[e] = semantic_events[e] BY <3>1, <3>2 DEF EventRowOK
    <3>3. CASE semantic_events'[e] = [semantic_events[e] EXCEPT !.vector = semantic_events[e].content]
      <4>1. PICK row, c : row = semantic_events[e] /\ c = semantic_events[e].content OBVIOUS
      <4>2. row \in SemanticEvent /\ c \in EventContents \cup {NULL} /\ c = row.content
        BY <2>5, <3>1, <4>1
      <4>3. semantic_events'[e] = [row EXCEPT !.vector = c] BY <3>3, <4>1
      <4> QED BY <4>1, <4>2, <4>3, RowVector
    <3> QED BY <2>4, <3>1, <3>2, <3>3
  <2>7. /\ semantic_events' \in [EventIds -> SemanticEvent \cup {NULL}]
        /\ \A e \in EventIds : semantic_events'[e] = NULL <=> semantic_events[e] = NULL
    <3>1. \A e \in EventIds : e \notin Stored => semantic_events'[e] = NULL /\ semantic_events[e] = NULL
      BY <2>4 DEF Stored
    <3>2. \A e \in EventIds : semantic_events'[e] \in SemanticEvent \cup {NULL} BY <2>6, <3>1
    <3>3. \A e \in EventIds : semantic_events'[e] = NULL <=> semantic_events[e] = NULL
      BY <1>0, <1>00, <2>6, <3>1
    <3> QED BY <2>3, <3>2, <3>3
  <2>8. TableOK' BY <1>00, <2>2, <2>6, <2>7, RowsRewritten DEF EventRowOK
  <2>9. worker' \in [MemoryWorkers -> WorkerRecord] /\ \A w \in MemoryWorkers : worker'[w] = Resting_Worker
    BY <2>2, RestingWorker
  <2>10. (\A w \in MemoryWorkers : WorkerOK(w)') /\ DistinctIds'
    BY <2>9, RestingWorker DEF WorkerOK, DistinctIds, MemoryWorkers
  <2>11. edits' \in [Editors -> [id : EventIds, row : SemanticEvent] \cup {NULL}] /\ \A u \in Editors : EditOK(u)'
    BY <2>2 DEF EditOK
  <2>12. TurnsOK' BY <1>0, <2>2, <2>9, RestingWorker DEF TurnsOK
  <2> QED BY <2>8, <2>9, <2>10, <2>11, <2>12 DEF MemoryInv
<1>18. CASE UNCHANGED memoryVars
  BY <1>0, <1>18 DEF memoryVars, MemoryInv, TableOK, Stored, EventRowOK, WorkerOK, EditOK, DistinctIds, TurnsOK
<1> QED BY <1>2, <1>3, <1>4, <1>5, <1>6, <1>7, <1>8, <1>9, <1>10, <1>11, <1>12, <1>13, <1>14, <1>15, <1>16,
           <1>17, <1>18 DEF MemoryNext, MemoryWorkers

\* What replaces an event is stored and is searched by what it says, and a draft the user
\* confirmed has become a memory, for any extractors, editors, crashes and contents
\* (event_extractor.extract, event_repository.update_fields, draft_repo.confirm_draft).
THEOREM MemoryAlwaysKept == MemorySpec /\ NotesSpec => [](MemoryTypeOK /\ NotesTypeOK /\ MemoryIsKept)
<1>1. MemorySpec => []MemoryInv BY MemoryStarts, MemoryStep, PTL DEF MemorySpec
<1>2. NotesSpec => []NotesInv BY NotesStart, NotesStep, PTL DEF NotesSpec
<1>3. MemoryInv /\ NotesInv => MemoryTypeOK /\ NotesTypeOK /\ MemoryIsKept
  BY MemoryInvIsEnough, NotesInvIsEnough DEF MemoryIsKept
<1> QED BY <1>1, <1>2, <1>3, PTL

(***************************************************************************)
(* The streamed card                                                       *)
(***************************************************************************)

\* The client shows the fragments of the attempt r holds the steps of, or none.
ShowsOnly(r, c) ==
    IF r.source = "llm" THEN c.attempts = {r.attempt} /\ c.closed ELSE c.attempts = {}

\* What a stream has shown at each place of its thread; nothing without one.
StreamedOK(r, c) ==
    /\ c.last = "card_final" => r.pc = "ended"
    /\ ~r.stream => c.last = "none"
    /\ r.open => r.stream /\ r.pc = "model"
    /\ r.pc \in {"new", "route"} => r.source = "none" /\ c.attempts = {}
    /\ r.pc = "new" => ~r.stream
    /\ r.pc = "rule" /\ r.stream => c.attempts = {}
    /\ r.pc = "model" /\ r.stream => c.attempts = IF r.open THEN {r.attempt} ELSE {}
    /\ r.pc = "review" /\ r.stream /\ r.steps \in Qualities => ShowsOnly(r, c) /\ r.source = "llm"
    /\ r.pc \in {"gates", "archive", "decided", "created"} /\ r.stream => ShowsOnly(r, c)
    /\ r.pc = "ended" /\ c.last = "card_final" => ShowsOnly(r, c)

StreamRequest ==
    [pc : {"new", "route", "model", "review", "rule", "gates", "archive",
           "decided", "created", "declined", "invalid", "raised", "ended"},
     stream : BOOLEAN, attempt : 0..2, open : BOOLEAN,
     steps : {"none", "no_match"} \cup LlmAnswers,
     source : {"none", "builtin_tool", "llm", "rule"}]
StreamCard ==
    [attempts : SUBSET (1..2), closed : BOOLEAN, had_delta : BOOLEAN,
     last : {"none", "card_delta", "card_retry", "card_final", "not_decomposable",
             "card_degrade", "error"}]
Lineage == [source : Goals \cup {NoGoal}, samples : Goals \cup {NoGoal},
            candidate : Goals \cup {NoGoal}]

DecompositionInv ==
    /\ DecompositionTypeOK
    /\ \A g \in Goals : StreamedOK(request[g], card[g])
    /\ \A g \in Goals : request[g].pc \in {"model", "review"} => request[g].attempt \in 1..2

\* What one goal's thread does is seen in its own request and card.
LEMMA StreamStep ==
    ASSUME DecompositionInv, NEW g \in Goals, NEW r \in StreamRequest, NEW c \in StreamCard,
           request' = [request EXCEPT ![g] = r], card' = [card EXCEPT ![g] = c],
           StreamedOK(r, c), r.pc \in {"model", "review"} => r.attempt \in 1..2,
           lineage' \in Lineage, plans' \in [Goals -> Lineage]
    PROVE  DecompositionInv'
<1>1. request \in [Goals -> StreamRequest] /\ card \in [Goals -> StreamCard]
  BY DEF DecompositionInv, DecompositionTypeOK, StreamRequest, StreamCard
<1>2. request' \in [Goals -> StreamRequest] /\ card' \in [Goals -> StreamCard]
  BY <1>1
<1>3. DecompositionTypeOK'
  BY <1>2 DEF DecompositionTypeOK, StreamRequest, StreamCard, Lineage
<1>4. \A h \in Goals : /\ request'[h] = IF h = g THEN r ELSE request[h]
                       /\ card'[h] = IF h = g THEN c ELSE card[h]
  BY <1>1
<1> QED BY <1>3, <1>4 DEF DecompositionInv

\* A thread that leaves its card alone.
LEMMA QuietDecision ==
    ASSUME DecompositionInv, NEW g \in Goals, NEW r \in StreamRequest,
           request' = [request EXCEPT ![g] = r], UNCHANGED card,
           StreamedOK(r, card[g]), r.pc \in {"model", "review"} => r.attempt \in 1..2,
           lineage' \in Lineage, plans' \in [Goals -> Lineage]
    PROVE  DecompositionInv'
<1>1. card \in [Goals -> StreamCard]
  BY DEF DecompositionInv, DecompositionTypeOK, StreamCard
<1>2. card[g] \in StreamCard /\ card' = [card EXCEPT ![g] = card[g]] BY <1>1
<1> QED BY <1>2, StreamStep

LEMMA DecompositionStep ==
    DecompositionInv /\ [DecompositionNext]_decompositionVars => DecompositionInv'
<1> SUFFICES ASSUME DecompositionInv, [DecompositionNext]_decompositionVars
             PROVE  DecompositionInv'
  OBVIOUS
<1>1. CASE UNCHANGED decompositionVars
  BY <1>1 DEF decompositionVars, DecompositionInv, DecompositionTypeOK
<1>2. ASSUME NEW g \in Goals,
             \/ \E stream \in BOOLEAN : StartDecide(g, stream)
             \/ DeclineEarly(g) \/ UseBuiltin(g)
             \/ \E found \in BOOLEAN : RetrieveSamples(g, found)
             \/ Delta(g) \/ ModelRaises(g)
             \/ \E said \in LlmAnswers : Answer(g, said)
             \/ RetryStream(g) \/ FailStream(g) \/ AcceptStream(g) \/ ReviewAnswer(g)
             \/ \E steps \in RulePlans : rule_decompose(g, steps)
             \/ DeclineAtGates(g) \/ PassGates(g)
             \/ \E kept, duplicate \in BOOLEAN : ArchiveCandidate(g, kept, duplicate)
             \/ create_plan(g) \/ CreateRaises(g) \/ PublishPlan(g)
             \/ NotDecomposable(g) \/ FailRequest(g)
      PROVE  DecompositionInv'
  <2> DEFINE q == request[g]
             k == card[g]
  <2>0. /\ q \in StreamRequest /\ k \in StreamCard /\ StreamedOK(q, k)
        /\ q.pc \in {"model", "review"} => q.attempt \in 1..2
        /\ lineage \in Lineage /\ plans \in [Goals -> Lineage] /\ Unlinked \in Lineage
        /\ request \in [Goals -> StreamRequest] /\ card \in [Goals -> StreamCard]
    BY DEF DecompositionInv, DecompositionTypeOK, StreamRequest, StreamCard, Lineage, Unlinked
  <2> HIDE DEF q, k
  <2>1. ASSUME NEW p \in {"declined", "invalid", "raised"}, q.pc \notin {"ended", "model"}, MovesTo(g, p),
               UNCHANGED <<lineage, card, plans>>
        PROVE  DecompositionInv'
    <3> DEFINE r == [q EXCEPT !.pc = p]
    <3>1. request' = [request EXCEPT ![g] = r] BY <2>1 DEF MovesTo, q
    <3>2. r \in StreamRequest /\ r.pc = p BY <2>0 DEF StreamRequest
    <3>3. StreamedOK(r, card[g]) BY <2>0, <2>1 DEF StreamedOK, StreamRequest, k
    <3> HIDE DEF r
    <3> QED BY <2>0, <2>1, <3>1, <3>2, <3>3, QuietDecision
  <2>2. CASE \E stream \in BOOLEAN : StartDecide(g, stream)
    <3> PICK stream \in BOOLEAN : StartDecide(g, stream) BY <2>2
    <3> DEFINE r == [q EXCEPT !.pc = "route", !.stream = stream]
    <3>1. q.pc = "new" /\ request' = [request EXCEPT ![g] = r] /\ lineage' = Unlinked
          /\ UNCHANGED <<card, plans>>
      BY <2>0 DEF StartDecide, InState, q
    <3>2. r \in StreamRequest /\ r.pc = "route" BY <2>0 DEF StreamRequest
    <3>3. StreamedOK(r, card[g]) BY <2>0, <3>1 DEF StreamedOK, StreamRequest, k
    <3> HIDE DEF r
    <3> QED BY <2>0, <3>1, <3>2, <3>3, QuietDecision
  <2>3. CASE DeclineEarly(g)
    BY <2>1, <2>3 DEF DeclineEarly, Decline, InState, q
  <2>4. CASE UseBuiltin(g)
    <3>1. PICK steps \in {"good", "poor"} :
             request' = [request EXCEPT ![g].pc = "gates", ![g].steps = steps,
                                        ![g].source = "builtin_tool"]
      BY <2>4 DEF UseBuiltin, AlgorithmPlans, CalculatorPlans
    <3> DEFINE r == [q EXCEPT !.pc = "gates", !.steps = steps, !.source = "builtin_tool"]
    <3>2. q.pc = "route" /\ request' = [request EXCEPT ![g] = r] /\ UNCHANGED <<lineage, card, plans>>
      BY <2>0, <2>4, <3>1 DEF UseBuiltin, InState, q
    <3>3. r \in StreamRequest /\ r.pc = "gates" BY <2>0 DEF StreamRequest, LlmAnswers, Qualities
    <3>4. StreamedOK(r, card[g]) BY <2>0, <3>2 DEF StreamedOK, StreamRequest, k, ShowsOnly
    <3> HIDE DEF r
    <3> QED BY <2>0, <3>2, <3>3, <3>4, QuietDecision
  <2>5. CASE \E found \in BOOLEAN : RetrieveSamples(g, found)
    <3>1. PICK next \in {"model", "rule"} :
             request' = [request EXCEPT ![g].pc = next, ![g].attempt = 1]
      BY <2>5 DEF RetrieveSamples
    <3> DEFINE r == [q EXCEPT !.pc = next, !.attempt = 1]
    <3>2. q.pc = "route" /\ request' = [request EXCEPT ![g] = r] /\ UNCHANGED <<card, plans>>
      BY <2>0, <2>5, <3>1 DEF RetrieveSamples, InState, q
    <3>3. lineage' \in Lineage BY <2>0, <2>5 DEF RetrieveSamples, Lineage
    <3>n. 1 \in 0..2 /\ 1 \in 1..2 OBVIOUS
    <3>4. r \in StreamRequest /\ r.attempt \in 1..2 BY <2>0, <3>n DEF StreamRequest
    <3>5. StreamedOK(r, card[g]) BY <2>0, <3>2 DEF StreamedOK, StreamRequest, k
    <3> HIDE DEF r
    <3> QED BY <2>0, <3>2, <3>3, <3>4, <3>5, QuietDecision
  <2>6. CASE Delta(g)
    <3> DEFINE r == [q EXCEPT !.open = TRUE]
               c == [k EXCEPT !.attempts = @ \cup {q.attempt}, !.closed = FALSE,
                              !.had_delta = TRUE, !.last = "card_delta"]
    <3>1. q.pc = "model" /\ q.stream /\ request' = [request EXCEPT ![g] = r]
          /\ card' = [card EXCEPT ![g] = c] /\ UNCHANGED <<lineage, plans>>
      BY <2>0, <2>6 DEF Delta, InState, Streams, q, k
    <3>2. r \in StreamRequest /\ r.pc = "model" /\ r.attempt = q.attempt BY <2>0, <3>1 DEF StreamRequest
    <3>3. c \in StreamCard BY <2>0, <3>1 DEF StreamCard, StreamRequest
    <3>4. k.attempts \cup {q.attempt} = {q.attempt}
      BY <2>0, <3>1 DEF StreamedOK
    <3>5. StreamedOK(r, c) BY <2>0, <3>1, <3>4 DEF StreamedOK, StreamRequest, StreamCard
    <3> HIDE DEF r, c
    <3> QED BY <2>0, <3>1, <3>2, <3>3, <3>5, StreamStep
  <2> DEFINE done == IF q.open THEN [k EXCEPT !.closed = TRUE, !.last = "card_delta"] ELSE k
  <2>7. /\ CompleteAttempt(g) => card' = [card EXCEPT ![g] = done]
        /\ done \in StreamCard /\ done.attempts = k.attempts
        /\ q.open => done.closed /\ done.last = "card_delta"
        /\ ~q.open => done = k
    <3>1. CompleteAttempt(g) => card' = [card EXCEPT ![g] = done]
      <4>1. CASE q.open BY <2>0, <4>1 DEF CompleteAttempt, q, k
      <4>2. CASE ~q.open BY <2>0, <4>2 DEF CompleteAttempt, q, k
      <4> QED BY <4>1, <4>2
    <3>2. done \in StreamCard /\ done.attempts = k.attempts
        /\ (q.open => done.closed /\ done.last = "card_delta") /\ (~q.open => done = k)
      BY <2>0 DEF StreamCard
    <3> QED BY <3>1, <3>2
  <2> HIDE DEF done
  <2>8. CASE ModelRaises(g)
    <3> DEFINE r == [q EXCEPT !.open = FALSE, !.pc = "raised"]
    <3>1. q.pc = "model" /\ request' = [request EXCEPT ![g] = r]
          /\ card' = [card EXCEPT ![g] = done] /\ UNCHANGED <<lineage, plans>>
      BY <2>0, <2>7, <2>8 DEF ModelRaises, InState, q
    <3>2. r \in StreamRequest /\ r.pc = "raised" BY <2>0 DEF StreamRequest
    <3>3. StreamedOK(r, done) BY <2>0, <2>7, <3>1 DEF StreamedOK, StreamRequest
    <3> HIDE DEF r
    <3> QED BY <2>0, <2>7, <3>1, <3>2, <3>3, StreamStep
  <2>9. CASE \E said \in LlmAnswers : Answer(g, said)
    <3> PICK said \in LlmAnswers : Answer(g, said) BY <2>9
    <3> DEFINE origin == IF said \in Qualities THEN "llm" ELSE "none"
               place == IF said = "model_none" THEN "declined" ELSE "review"
               r == [q EXCEPT !.open = FALSE, !.steps = said, !.source = origin, !.pc = place]
    <3>1. q.pc = "model" /\ (q.stream /\ said \in Qualities => q.open)
          /\ request' = [request EXCEPT ![g] = r]
          /\ card' = [card EXCEPT ![g] = done] /\ UNCHANGED <<lineage, plans>>
      <4>1. q.pc = "model" /\ (q.stream /\ said \in Qualities => q.open) /\ CompleteAttempt(g)
            /\ UNCHANGED <<lineage, plans>>
        BY DEF Answer, InState, Streams, q
      <4>2. request' = [request EXCEPT ![g].open = FALSE, ![g].steps = said,
                                       ![g].source = origin, ![g].pc = place]
        BY DEF Answer
      <4> HIDE DEF origin, place
      <4>3. request' = [request EXCEPT ![g] = r] BY <2>0, <4>2 DEF q
      <4> QED BY <2>7, <4>1, <4>3
    <3>2. r \in StreamRequest /\ r.attempt = q.attempt BY <2>0 DEF StreamRequest
    <3>3. StreamedOK(r, done)
      BY <2>0, <2>7, <3>1 DEF StreamedOK, StreamRequest, ShowsOnly, Qualities, LlmAnswers
    <3> HIDE DEF r
    <3> QED BY <2>0, <2>7, <3>1, <3>2, <3>3, StreamStep
  <2>10. CASE RetryStream(g)
    <3> DEFINE r == [q EXCEPT !.pc = "model", !.attempt = 2]
               c == [k EXCEPT !.attempts = {}, !.closed = FALSE, !.last = "card_retry"]
    <3>1. q.pc = "review" /\ q.stream /\ request' = [request EXCEPT ![g] = r]
          /\ card' = [card EXCEPT ![g] = c] /\ UNCHANGED <<lineage, plans>>
      BY <2>0, <2>10 DEF RetryStream, InState, Streams, q, k
    <3>n. 2 \in 0..2 /\ 2 \in 1..2 OBVIOUS
    <3>2. r \in StreamRequest /\ r.attempt \in 1..2 BY <2>0, <3>n DEF StreamRequest
    <3>3. c \in StreamCard BY <2>0 DEF StreamCard
    <3>4. StreamedOK(r, c) BY <2>0, <3>1 DEF StreamedOK, StreamRequest, StreamCard
    <3> HIDE DEF r, c
    <3> QED BY <2>0, <3>1, <3>2, <3>3, <3>4, StreamStep
  <2>11. CASE FailStream(g)
    BY <2>1, <2>11 DEF FailStream, InState, q
  <2>12. ASSUME NEW p, \/ p \in {"gates", "archive"} /\ q.pc \in {"review", "gates"}
                       \/ p \in {"decided", "created"} /\ q.pc \in {"gates", "archive", "decided"},
                q.pc = "review" => q.stream /\ q.steps \in Qualities,
                MovesTo(g, p), UNCHANGED card, lineage' \in Lineage, plans' \in [Goals -> Lineage]
         PROVE  DecompositionInv'
    <3> DEFINE r == [q EXCEPT !.pc = p]
    <3>1. request' = [request EXCEPT ![g] = r] BY <2>12 DEF MovesTo, q
    <3>2. r \in StreamRequest /\ r.pc = p /\ p \notin {"model", "review"} BY <2>0, <2>12 DEF StreamRequest
    <3>3. StreamedOK(r, card[g]) BY <2>0, <2>12 DEF StreamedOK, StreamRequest, ShowsOnly, k
    <3> HIDE DEF r
    <3> QED BY <2>0, <2>12, <3>1, <3>2, <3>3, QuietDecision
  <2>13. CASE AcceptStream(g)
    BY <2>0, <2>12, <2>13 DEF AcceptStream, InState, Streams, Usable, q
  <2>14. CASE ReviewAnswer(g)
    <3> DEFINE p == IF q.steps = "unusable" THEN IF q.attempt = 1 THEN "rule" ELSE "declined"
                    ELSE IF ~LosesConstraint(q.steps) THEN "gates"
                    ELSE IF q.attempt = 1 THEN "model" ELSE "declined"
               n == IF q.attempt = 1 /\ LosesConstraint(q.steps) THEN 2 ELSE q.attempt
               r == [q EXCEPT !.pc = p, !.attempt = n]
    <3>1. q.pc = "review" /\ ~q.stream /\ request' = [request EXCEPT ![g] = r]
          /\ UNCHANGED <<lineage, card, plans>>
      BY <2>0, <2>14 DEF ReviewAnswer, InState, Streams, q
    <3>2. p \in {"rule", "declined", "gates", "model"} /\ n \in 1..2 BY <2>0, <3>1
    <3> HIDE DEF p, n
    <3>n. n \in 0..2 BY <3>2
    <3>3. r \in StreamRequest /\ r.attempt = n BY <2>0, <3>2, <3>n DEF StreamRequest
    <3>4. StreamedOK(r, card[g]) BY <2>0, <3>1, <3>2 DEF StreamedOK, StreamRequest, k
    <3> HIDE DEF r
    <3> QED BY <2>0, <3>1, <3>2, <3>3, <3>4, QuietDecision
  <2>15. CASE \E steps \in RulePlans : rule_decompose(g, steps)
    <3> PICK steps \in RulePlans : rule_decompose(g, steps) BY <2>15
    <3> DEFINE r == [q EXCEPT !.steps = steps, !.source = "rule",
                       !.pc = IF steps = "no_match" THEN "declined" ELSE "gates"]
    <3>1. q.pc = "rule" /\ request' = [request EXCEPT ![g] = r] /\ UNCHANGED <<lineage, card, plans>>
      BY <2>0 DEF rule_decompose, InState, q
    <3>2. r \in StreamRequest /\ r.pc \in {"declined", "gates"}
      BY <2>0 DEF StreamRequest, RulePlans, LlmAnswers, Qualities
    <3>3. StreamedOK(r, card[g]) BY <2>0, <3>1 DEF StreamedOK, StreamRequest, ShowsOnly, k
    <3> HIDE DEF r
    <3> QED BY <2>0, <3>1, <3>2, <3>3, QuietDecision
  <2>16. CASE DeclineAtGates(g)
    BY <2>1, <2>16 DEF DeclineAtGates, Decline, InState, q
  <2>17. CASE PassGates(g)
    <3>1. lineage' \in Lineage BY <2>0, <2>17 DEF PassGates, Lineage
    <3> QED BY <2>0, <2>12, <2>17, <3>1 DEF PassGates, InState, q
  <2>18. CASE \E kept, duplicate \in BOOLEAN : ArchiveCandidate(g, kept, duplicate)
    <3>1. lineage' \in Lineage BY <2>0, <2>18 DEF ArchiveCandidate, Lineage
    <3> QED BY <2>0, <2>12, <2>18, <3>1 DEF ArchiveCandidate, InState, q
  <2>19. CASE create_plan(g)
    BY <2>0, <2>12, <2>19 DEF create_plan, _attach_decomposition_metadata, InState, q
  <2>20. CASE CreateRaises(g)
    BY <2>1, <2>20 DEF CreateRaises, InState, q
  <2>21. ASSUME NEW e \in {"card_final", "not_decomposable", "card_degrade", "error"},
                e = "card_final" => q.pc = "created", q.pc # "model",
                StreamEvent(g, e), MovesTo(g, "ended"), UNCHANGED <<lineage, plans>>
         PROVE  DecompositionInv'
    <3> DEFINE r == [q EXCEPT !.pc = "ended"]
               c == IF q.stream THEN [k EXCEPT !.last = e] ELSE k
    <3>1. request' = [request EXCEPT ![g] = r] BY <2>21 DEF MovesTo, q
    <3>2. card' = [card EXCEPT ![g] = c]
      <4>1. CASE q.stream BY <2>0, <2>21, <4>1 DEF StreamEvent, Streams, q, k
      <4>2. CASE ~q.stream BY <2>0, <2>21, <4>2 DEF StreamEvent, Streams, q, k
      <4> QED BY <4>1, <4>2
    <3>3. r \in StreamRequest /\ r.pc = "ended" BY <2>0 DEF StreamRequest
    <3>4. c \in StreamCard BY <2>0 DEF StreamCard
    <3>5. StreamedOK(r, c)
      <4>1. CASE q.stream BY <2>0, <2>21, <4>1 DEF StreamedOK, StreamRequest, StreamCard, ShowsOnly
      <4>2. CASE ~q.stream BY <2>0, <4>2 DEF StreamedOK, StreamRequest, StreamCard, ShowsOnly
      <4> QED BY <4>1, <4>2
    <3> HIDE DEF r, c
    <3> QED BY <2>0, <2>21, <3>1, <3>2, <3>3, <3>4, <3>5, StreamStep
  <2>22. CASE PublishPlan(g) BY <2>21, <2>22 DEF PublishPlan, InState, q
  <2>23. CASE NotDecomposable(g) BY <2>21, <2>23 DEF NotDecomposable, InState, q
  <2>24. CASE FailRequest(g) BY <2>21, <2>24 DEF FailRequest, InState, q
  <2> QED BY <1>2, <2>2, <2>3, <2>4, <2>5, <2>6, <2>8, <2>9, <2>10, <2>11, <2>13, <2>14, <2>15,
             <2>16, <2>17, <2>18, <2>19, <2>20, <2>22, <2>23, <2>24
<1> QED BY <1>1, <1>2 DEF DecompositionNext

LEMMA DecompositionStarts == DecompositionInit => DecompositionInv
<1> SUFFICES ASSUME DecompositionInit PROVE DecompositionInv OBVIOUS
<1>1. DecompositionTypeOK
  BY DEF DecompositionInit, DecompositionTypeOK, Unlinked
<1>2. \A g \in Goals : StreamedOK(request[g], card[g]) /\ request[g].pc = "new"
  BY DEF DecompositionInit, StreamedOK, ShowsOnly
<1> QED BY <1>1, <1>2 DEF DecompositionInv

LEMMA DecompositionInvIsEnough == DecompositionInv => DecompositionTypeOK /\ FinalCardWasStreamed
BY DEF DecompositionInv, StreamedOK, ShowsOnly, FinalCardWasStreamed

(***************************************************************************)
(* The two readings of a card                                              *)
(***************************************************************************)

CardPaths == {Root, Steps, Other} \cup {Card(n) : n \in Nat}
CardFrames == [kind : {"object", "array"}, path : CardPaths, next : Nat,
               key : {NoKey, "steps", "text"}]
Expectations == {"start", "open", "first", "key", "colon", "value", "after", "fail"}

\* Both readings have the same containers open, and only the innermost expects anything
\* but to go on: an object whose value is due knows its key.
NestingOK ==
    LET n == Len(frames)
    IN  /\ frames \in Seq(CardFrames) /\ expects \in Seq(Expectations) /\ Len(expects) = n + 1
        /\ \A k \in 1..n : expects[k] = "after"
        /\ lexeme \in {"in", "out", "steps", "text"}
        /\ n = 0 => expects[1] \in {"start", "after"} /\ lexeme # "in"
        /\ expects[n + 1] = "colon" => lexeme # "out"
        /\ n > 0 =>
              expects[n + 1] \in IF frames[n].kind = "object"
                                 THEN {"open", "key", "colon", "value", "after"}
                                 ELSE {"first", "value", "after"}
        /\ n > 0 /\ frames[n].kind = "object" /\ expects[n + 1] = "value" => frames[n].key # NoKey

\* The steps array is at the second level and the cards are at the third.
PathsOK ==
    LET n == Len(frames)
    IN  /\ n > 0 => frames[1].path = Root /\ frames[1].kind = "object"
        /\ n > 1 => frames[2].path \in {Steps, Other}
        /\ n > 2 => frames[3].path = Other \/ /\ frames[2].path = Steps /\ frames[2].kind = "array"
                                              /\ frames[3].path = Card(frames[2].next)
        /\ \A k \in 4..n : frames[k].path = Other

\* In the first steps array the commas count the elements that are behind.
StepsOpen == Len(frames) > 1 /\ frames[2].path = Steps /\ frames[2].kind = "array"
ClosedOK ==
    /\ items \in Nat /\ arrays \in Nat /\ card_closed \in Seq(Nat)
    /\ Len(frames) > 1 /\ frames[2].path = Steps => arrays > 0
    /\ arrays = 0 => card_closed = <<>>
    /\ arrays = 1 =>
          /\ \A k \in 1..Len(card_closed) : card_closed[k] < items
          /\ \A k \in 2..Len(card_closed) : card_closed[k - 1] < card_closed[k]
          /\ StepsOpen =>
                /\ items = frames[2].next + (IF expects[3] = "after" THEN 1 ELSE 0)
                /\ Len(frames) > 2 => \A k \in 1..Len(card_closed) : card_closed[k] < frames[2].next

ReadingInv == valid \in BOOLEAN /\ (Reading => NestingOK /\ PathsOK /\ ClosedOK)

LEMMA PathsDiffer ==
    /\ Root # Steps /\ Root # Other /\ Steps # Other
    /\ \A n \in Nat : Card(n) \notin {Root, Steps, Other} /\ Card(n).at = "card" /\ Card(n).index = n
    /\ Root.at # "card" /\ Steps.at # "card" /\ Other.at # "card"
    /\ Root \in CardPaths /\ Steps \in CardPaths /\ Other \in CardPaths
    /\ \A n \in Nat : Card(n) \in CardPaths
<1>1. Root.at = "root" /\ Steps.at = "steps" /\ Other.at = "other" BY DEF Root, Steps, Other
<1>2. \A n \in Nat : Card(n).at = "card" /\ Card(n).index = n BY DEF Card
<1> QED BY <1>1, <1>2 DEF CardPaths

\* The next token is read by both: what the innermost container expects becomes e, and
\* its frame f.
LEMMA TopStep ==
    ASSUME NestingOK, PathsOK, ClosedOK, Len(frames) > 0, NEW f, NEW e,
           frames' = [frames EXCEPT ![Len(frames)] = f],
           expects' = [expects EXCEPT ![Len(expects)] = e],
           f \in CardFrames, f.kind = frames[Len(frames)].kind, f.path = frames[Len(frames)].path,
           e \in IF f.kind = "object" THEN {"open", "key", "colon", "value", "after"}
                 ELSE {"first", "value", "after"},
           f.kind = "object" /\ e = "value" => f.key # NoKey,
           e = "colon" => lexeme' # "out", lexeme' \in {"in", "out", "steps", "text"},
           UNCHANGED <<arrays, card_closed>>,
           items' \in Nat, items' >= items,
           arrays = 1 /\ InSteps => items' = f.next + (IF e = "after" THEN 1 ELSE 0),
           ~InSteps => items' = items
    PROVE  (NestingOK /\ PathsOK /\ ClosedOK)'
<1> DEFINE n == Len(frames)
<1>1. /\ n \in Nat /\ n > 0 /\ frames \in Seq(CardFrames) /\ expects \in Seq(Expectations)
      /\ Len(expects) = n + 1 /\ \A k \in 1..n : expects[k] = "after"
  BY DEF NestingOK
<1>2. /\ frames' \in Seq(CardFrames) /\ Len(frames') = n
      /\ \A k \in 1..n : frames'[k] = IF k = n THEN f ELSE frames[k]
  BY <1>1
<1>3. e \in Expectations BY DEF Expectations
<1>4. /\ expects' \in Seq(Expectations) /\ Len(expects') = n + 1
      /\ \A k \in 1..n + 1 : expects'[k] = IF k = n + 1 THEN e ELSE expects[k]
  BY <1>1, <1>3
<1> HIDE DEF n
<1>5. NestingOK'
  <2>1. \A k \in 1..n : expects'[k] = "after" BY <1>1, <1>4
  <2>2. frames'[n] = f /\ expects'[n + 1] = e BY <1>1, <1>2, <1>4
  <2> QED BY <1>1, <1>2, <1>4, <2>1, <2>2 DEF NestingOK
<1>6. n > 2 => frames'[2] = frames[2] BY <1>1, <1>2
<1>7. \A k \in 1..n : frames'[k].path = frames[k].path /\ frames'[k].kind = frames[k].kind
  BY <1>1, <1>2 DEF n
<1>8. PathsOK'
  <2>1. n > 0 => frames'[1].path = Root /\ frames'[1].kind = "object"
    BY <1>1, <1>7 DEF PathsOK, n
  <2>2. n > 1 => frames'[2].path \in {Steps, Other} BY <1>1, <1>7 DEF PathsOK, n
  <2>3. n > 2 => \/ frames'[3].path = Other
                 \/ /\ frames'[2].path = Steps /\ frames'[2].kind = "array"
                    /\ frames'[3].path = Card(frames'[2].next)
    BY <1>1, <1>6, <1>7 DEF PathsOK, n
  <2>4. \A k \in 4..n : frames'[k].path = Other BY <1>1, <1>7 DEF PathsOK, n
  <2> QED BY <1>2, <2>1, <2>2, <2>3, <2>4 DEF PathsOK
<1>9. ClosedOK'
  <2>0. n > 1 => frames'[2].path = frames[2].path /\ frames'[2].kind = frames[2].kind
    BY <1>1, <1>7
  <2>1. StepsOpen' <=> StepsOpen
    <3>1. StepsOpen <=> n > 1 /\ frames[2].path = Steps /\ frames[2].kind = "array"
      BY DEF StepsOpen, n
    <3>2. StepsOpen' <=> n > 1 /\ frames'[2].path = Steps /\ frames'[2].kind = "array"
      BY <1>2 DEF StepsOpen
    <3> QED BY <2>0, <3>1, <3>2
  <2>2. InSteps <=> n = 2 /\ StepsOpen BY <1>1 DEF InSteps, StepsOpen, Top, n
  <2>3. n > 1 /\ frames'[2].path = Steps => arrays > 0 BY <2>0 DEF ClosedOK, n
  <2>4. arrays = 1 => /\ \A k \in 1..Len(card_closed) : card_closed[k] < items'
                      /\ \A k \in 2..Len(card_closed) : card_closed[k - 1] < card_closed[k]
    <3> SUFFICES ASSUME arrays = 1, NEW k \in 1..Len(card_closed) PROVE card_closed[k] < items'
      BY DEF ClosedOK
    <3>1. card_closed[k] \in Nat /\ items \in Nat /\ card_closed[k] < items BY SMTT(20) DEF ClosedOK
    <3> QED BY <3>1
  <2>5. ASSUME arrays = 1, StepsOpen
        PROVE  /\ items' = frames'[2].next + (IF expects'[3] = "after" THEN 1 ELSE 0)
               /\ n > 2 => \A k \in 1..Len(card_closed) : card_closed[k] < frames'[2].next
    <3>1. CASE n = 2
      <4>1. frames'[2] = f /\ expects'[3] = e BY <1>2, <1>4, <3>1
      <4> QED BY <2>2, <2>5, <3>1, <4>1
    <3>2. CASE n > 2
      <4>1. frames'[2] = frames[2] /\ expects'[3] = expects[3] BY <1>1, <1>4, <1>6, <3>2
      <4> QED BY <2>2, <2>5, <3>2, <4>1, SMTT(20) DEF ClosedOK, n
    <3>3. n > 1 BY <2>5 DEF StepsOpen, n
    <3> QED BY <1>1, <3>1, <3>2, <3>3
  <2> QED BY <1>2, <2>1, <2>3, <2>4, <2>5 DEF ClosedOK
<1> QED BY <1>5, <1>8, <1>9

\* A container is opened where its value was due.
LEMMA OpenStep ==
    ASSUME NestingOK, PathsOK, ClosedOK, NEW kind \in Kinds, Open(kind), Reading'
    PROVE  (NestingOK /\ PathsOK /\ ClosedOK)'
<1> DEFINE n == Len(frames)
           new == [kind |-> kind, path |-> ChildPath, next |-> 0, key |-> NoKey]
           low == Consumed
           e == IF kind = "object" THEN "open" ELSE "first"
<1>1. /\ n \in Nat /\ frames \in Seq(CardFrames) /\ expects \in Seq(Expectations)
      /\ Len(expects) = n + 1 /\ \A k \in 1..n : expects[k] = "after"
  BY DEF NestingOK
<1>2. /\ frames' = Append(low, new) /\ expects' = Append(Expect("after"), e)
      /\ IF n = 0 THEN expects[1] = "start" /\ kind = "object" ELSE expects[n + 1] \in {"first", "value"}
      /\ arrays' = (IF ChildPath = Steps THEN arrays + 1 ELSE arrays)
      /\ items' = (IF ChildPath = Steps THEN 0 ELSE Counted)
      /\ lexeme' = "out" /\ UNCHANGED card_closed
  <2>1. expects' # Fail BY DEF Reading, Failed
  <2>2. IF Len(expects) = 1 THEN Expects({"start"}) /\ kind = "object" ELSE ValueOK
    BY <2>1 DEF Open
  <2> QED BY <1>1, <2>1, <2>2 DEF Open, Expects, ValueOK
<1>3. frames = <<>> <=> n = 0 BY <1>1
<1>a. \A k \in 1..n : frames[k].next \in Nat
  <2>1. \A k \in 1..n : frames[k] \in CardFrames BY <1>1
  <2> QED BY <2>1 DEF CardFrames
<1>4. n > 0 => Top = frames[n] /\ frames[n] \in CardFrames BY <1>1 DEF Top
<1>5. n > 0 /\ frames[n].kind = "object" => frames[n].key # NoKey /\ expects[n + 1] = "value"
  BY <1>1, <1>2 DEF NestingOK
<1>6. /\ n = 0 => ChildPath = Root
      /\ n > 0 /\ frames[n].kind = "array" =>
            ChildPath = IF frames[n].path = Steps THEN Card(frames[n].next) ELSE Other
      /\ n > 0 /\ frames[n].kind = "object" =>
            ChildPath \in IF frames[n].path = Root THEN {Steps, Other} ELSE {Other}
  BY <1>1, <1>3, <1>4, <1>5 DEF ChildPath, CardFrames
<1>7. ChildPath \in CardPaths
  BY <1>1, <1>4, <1>6, PathsDiffer DEF CardFrames
<1>8. /\ low \in Seq(CardFrames) /\ Len(low) = n
      /\ \A k \in 1..n : /\ low[k].path = frames[k].path /\ low[k].kind = frames[k].kind
                         /\ low[k].next = frames[k].next
  <2>1. CASE n > 0 /\ frames[n].kind = "object"
    <3> DEFINE f == [frames[n] EXCEPT !.key = NoKey]
    <3>0. frames # <<>> /\ Top = frames[n] /\ Top.kind = "object" BY <1>3, <1>4, <2>1
    <3>1. low = [frames EXCEPT ![n] = f] BY <3>0 DEF Consumed, SetTop
    <3>2. f \in CardFrames /\ f.path = frames[n].path /\ f.kind = frames[n].kind /\ f.next = frames[n].next
      BY <1>4, <2>1 DEF CardFrames
    <3> HIDE DEF f, low
    <3>3. n \in 1..n BY <1>1, <2>1
    <3>4. low \in Seq(CardFrames) /\ Len(low) = n BY <1>1, <3>1, <3>2, <3>3
    <3>5. \A k \in 1..n : low[k] = IF k = n THEN f ELSE frames[k] BY <1>1, <3>1, <3>3
    <3> QED BY <3>2, <3>4, <3>5
  <2>2. CASE ~(n > 0 /\ frames[n].kind = "object")
    <3>1. low = frames BY <1>1, <1>3, <1>4, <2>2 DEF Consumed
    <3> HIDE DEF low
    <3> QED BY <1>1, <3>1
  <2> QED BY <2>1, <2>2
<1>9. new \in CardFrames /\ new.kind = (IF kind = "object" THEN "object" ELSE "array") /\ new.path = ChildPath
      /\ new.next = 0
  BY <1>7 DEF CardFrames, Kinds
<1> HIDE DEF low, new
<1>10. /\ frames' \in Seq(CardFrames) /\ Len(frames') = n + 1 /\ frames'[n + 1] = new
       /\ \A k \in 1..n : frames'[k] = low[k]
  BY <1>1, <1>2, <1>8, <1>9
<1>11. /\ expects' \in Seq(Expectations) /\ Len(expects') = n + 2 /\ expects'[n + 2] = e
       /\ \A k \in 1..n + 1 : expects'[k] = "after"
  <2>1. Expect("after") \in Seq(Expectations) /\ Len(Expect("after")) = n + 1
        /\ \A k \in 1..n + 1 : Expect("after")[k] = "after"
    BY <1>1 DEF Expect, Expectations
  <2>2. e \in Expectations BY DEF Expectations
  <2> QED BY <1>1, <1>2, <2>1, <2>2
<1>12. e = (IF kind = "object" THEN "open" ELSE "first") OBVIOUS
<1> HIDE DEF n, e
<1>13. NestingOK'
  BY <1>1, <1>2, <1>9, <1>10, <1>11, <1>12 DEF NestingOK
<1>14. \A k \in 1..n : /\ frames'[k].path = frames[k].path /\ frames'[k].kind = frames[k].kind
                       /\ frames'[k].next = frames[k].next
  BY <1>8, <1>10
<1>15. PathsOK'
  <2>1. frames'[1].path = Root /\ frames'[1].kind = "object"
    <3>1. CASE n = 0 BY <1>2, <1>6, <1>9, <1>10, <3>1
    <3>2. CASE n > 0 BY <1>1, <1>14, <3>2 DEF PathsOK, n
    <3> QED BY <1>1, <3>1, <3>2
  <2>2. n + 1 > 1 => frames'[2].path \in {Steps, Other}
    <3>1. CASE n = 1
      <4>1. frames[1].path = Root /\ frames[1].kind = "object" BY <3>1 DEF PathsOK, n
      <4> QED BY <1>6, <1>9, <1>10, <3>1, <4>1
    <3>2. CASE n > 1 BY <1>1, <1>14, <3>2 DEF PathsOK, n
    <3> QED BY <1>1, <3>1, <3>2
  <2>3. n + 1 > 2 => \/ frames'[3].path = Other
                     \/ /\ frames'[2].path = Steps /\ frames'[2].kind = "array"
                        /\ frames'[3].path = Card(frames'[2].next)
    <3>1. CASE n = 2
      <4>1. frames[2].path \in {Steps, Other} BY <3>1 DEF PathsOK, n
      <4>2. frames'[2].path = frames[2].path /\ frames'[2].kind = frames[2].kind
            /\ frames'[2].next = frames[2].next
        BY <1>14, <3>1
      <4>3. frames'[3].path = ChildPath BY <1>9, <1>10, <3>1
      <4>4. frames[2].kind \in {"object", "array"} BY <1>4, <3>1 DEF CardFrames
      <4> QED BY <1>6, <3>1, <4>1, <4>2, <4>3, <4>4, PathsDiffer
    <3>2. CASE n > 2
      <4>1. \/ frames[3].path = Other
            \/ /\ frames[2].path = Steps /\ frames[2].kind = "array"
               /\ frames[3].path = Card(frames[2].next)
        BY <3>2 DEF PathsOK, n
      <4>2. 2 \in 1..n /\ 3 \in 1..n BY <1>1, <3>2
      <4> QED BY <1>14, <4>1, <4>2
    <3> QED BY <1>1, <3>1, <3>2
  <2>4. \A k \in 4..n + 1 : frames'[k].path = Other
    <3> TAKE k \in 4..n + 1
    <3>1. CASE k \in 4..n
      <4>1. frames[k].path = Other BY <3>1 DEF PathsOK, n
      <4> QED BY <1>1, <1>14, <3>1, <4>1
    <3>2. CASE k = n + 1
      <4>1. n > 2 /\ frames[n].path \notin {Root, Steps}
        <5>1. n > 2 BY <1>1, <3>2
        <5>2. CASE n = 3
          <6>1. frames[3].path = Other \/ frames[3].path = Card(frames[2].next)
            BY <5>2 DEF PathsOK, n
          <6>2. frames[2].next \in Nat BY <1>a, <5>2
          <6> QED BY <5>1, <5>2, <6>1, <6>2, PathsDiffer
        <5>3. CASE n # 3
          <6>1. n \in 4..n BY <1>1, <5>1, <5>3
          <6>2. frames[n].path = Other BY <6>1 DEF PathsOK, n
          <6> QED BY <5>1, <6>2, PathsDiffer
        <5> QED BY <5>2, <5>3
      <4>2. frames[n].kind \in {"object", "array"} BY <1>1, <1>4, <4>1 DEF CardFrames
      <4>3. ChildPath = Other BY <1>1, <1>6, <4>1, <4>2
      <4> QED BY <1>9, <1>10, <3>2, <4>3
    <3> QED BY <1>1, <3>1, <3>2
  <2> QED BY <1>1, <1>10, <2>1, <2>2, <2>3, <2>4 DEF PathsOK
<1>16. ChildPath = Steps => n = 1
  <2> SUFFICES ASSUME ChildPath = Steps, n # 1 PROVE FALSE OBVIOUS
  <2>1. n # 0 BY <1>6, PathsDiffer
  <2>2. n > 1 /\ frames[n].kind \in {"object", "array"} /\ frames[n].next \in Nat
    BY <1>1, <1>4, <2>1 DEF CardFrames
  <2>3. frames[n].kind = "object" /\ frames[n].path = Root
    <3>1. CASE frames[n].kind = "array" BY <1>1, <1>6, <2>2, <3>1, PathsDiffer
    <3>2. CASE frames[n].kind = "object" BY <1>1, <1>6, <2>2, <3>2, PathsDiffer
    <3> QED BY <2>2, <3>1, <3>2
  <2>4. CASE n = 2 BY <2>3, <2>4, PathsDiffer DEF PathsOK, n
  <2>5. CASE n = 3
    <3>1. frames[2].next \in Nat BY <1>a, <2>5
    <3> QED BY <2>3, <2>5, <3>1, PathsDiffer DEF PathsOK, n
  <2>6. CASE n > 3 BY <1>1, <2>3, <2>6, PathsDiffer DEF PathsOK, n
  <2> QED BY <1>1, <2>2, <2>4, <2>5, <2>6
<1>17. /\ items \in Nat /\ arrays \in Nat /\ card_closed \in Seq(Nat)
       /\ n > 1 /\ frames[2].path = Steps => arrays > 0
       /\ arrays = 0 => card_closed = <<>>
  BY DEF ClosedOK, n
<1>18. Counted \in Nat /\ Counted >= items /\ (~InSteps => Counted = items) /\ (InSteps => Counted = items + 1)
  BY <1>17 DEF Counted
<1>19. CASE ChildPath = Steps
  <2>1. n = 1 /\ arrays' = arrays + 1 /\ items' = 0 BY <1>2, <1>16, <1>19
  <2>2. StepsOpen' => frames'[2].next = 0 /\ expects'[3] # "after" /\ Len(frames') = 2
    BY <1>9, <1>10, <1>11, <1>12, <2>1
  <2>3. arrays' = 1 => card_closed = <<>> BY <1>17, <2>1
  <2>4. arrays' \in Nat /\ arrays' > 0 /\ items' \in Nat /\ card_closed' = card_closed
    BY <1>2, <1>17, <2>1
  <2>5. Len(<<>>) = 0 OBVIOUS
  <2>6. arrays' = 1 => \A k \in 1..Len(card_closed) : FALSE BY <2>3, <2>5
  <2>7. arrays' = 1 => \A k \in 2..Len(card_closed) : FALSE BY <2>3, <2>5
  <2> HIDE DEF StepsOpen
  <2>8. ClosedOK' BY <1>17, <2>1, <2>2, <2>4, <2>6, <2>7 DEF ClosedOK
  <2> QED BY <1>13, <1>15, <2>8
<1>20. CASE ChildPath # Steps
  <2>1. arrays' = arrays /\ items' = Counted BY <1>2, <1>20
  <2>2. n + 1 > 1 /\ frames'[2].path = Steps => n > 1 /\ frames[2].path = Steps
    <3>1. CASE n = 1 BY <1>9, <1>10, <1>20, <3>1
    <3>2. CASE n > 1 BY <1>1, <1>14, <3>2
    <3> QED BY <1>1, <3>1, <3>2
  <2>3. InSteps <=> n = 2 /\ StepsOpen BY <1>1 DEF InSteps, StepsOpen, Top, n
  <2>4. StepsOpen' => n > 1 /\ StepsOpen /\ frames'[2].next = frames[2].next /\ expects'[3] = "after"
    <3> SUFFICES ASSUME StepsOpen' PROVE n > 1 /\ StepsOpen /\ frames'[2].next = frames[2].next
                                         /\ expects'[3] = "after"
      OBVIOUS
    <3>1. n > 1 /\ frames[2].path = Steps BY <1>1, <1>10, <2>2 DEF StepsOpen
    <3>2. frames'[2].kind = frames[2].kind /\ frames'[2].next = frames[2].next BY <1>1, <1>14, <3>1
    <3>3. 3 \in 1..n + 1 BY <1>1, <3>1
    <3> QED BY <1>11, <3>1, <3>2, <3>3 DEF StepsOpen, n
  <2>5. ASSUME arrays = 1
        PROVE  /\ \A k \in 1..Len(card_closed) : card_closed[k] < items'
               /\ StepsOpen' => /\ items' = frames'[2].next + 1
                                /\ \A k \in 1..Len(card_closed) : card_closed[k] < frames'[2].next
    <3>1. \A k \in 1..Len(card_closed) : card_closed[k] \in Nat /\ card_closed[k] < items
      BY <2>5 DEF ClosedOK
    <3>2. \A k \in 1..Len(card_closed) : card_closed[k] < items'
      BY <1>17, <1>18, <2>1, <3>1
    <3>3. ASSUME StepsOpen'
          PROVE  items' = frames'[2].next + 1
                 /\ \A k \in 1..Len(card_closed) : card_closed[k] < frames'[2].next
      <4>1. n > 1 /\ StepsOpen /\ frames'[2].next = frames[2].next BY <2>4, <3>3
      <4>2. /\ items = frames[2].next + (IF expects[3] = "after" THEN 1 ELSE 0)
            /\ n > 2 => \A k \in 1..Len(card_closed) : card_closed[k] < frames[2].next
        BY <2>5, <4>1 DEF ClosedOK, n
      <4>3. frames[2].next \in Nat BY <1>1, <1>a, <4>1
      <4>4. CASE n = 2
        <5>1. expects[3] # "after" BY <1>2, <4>4
        <5>2. items = frames[2].next /\ items' = items + 1
          BY <1>18, <2>1, <2>3, <4>1, <4>2, <4>3, <4>4, <5>1
        <5> QED BY <3>1, <4>1, <5>2
      <4>5. CASE n > 2
        <5>1. 3 \in 1..n BY <1>1, <4>5
        <5>2. items' = items /\ expects[3] = "after" BY <1>1, <1>18, <2>1, <2>3, <4>5, <5>1
        <5> QED BY <4>1, <4>2, <4>5, <5>2
      <4> QED BY <1>1, <4>1, <4>4, <4>5
    <3> QED BY <3>2, <3>3
  <2>6. arrays = 1 => \A k \in 2..Len(card_closed) : card_closed[k - 1] < card_closed[k]
    BY DEF ClosedOK
  <2>7. items' \in Nat BY <1>18, <2>1
  <2> HIDE DEF StepsOpen
  <2>8. ClosedOK'
    BY <1>2, <1>10, <1>17, <2>1, <2>2, <2>4, <2>5, <2>6, <2>7 DEF ClosedOK
  <2> QED BY <1>13, <1>15, <2>8
<1> QED BY <1>19, <1>20

\* A container is closed where nothing more was due.
LEMMA CloseStep ==
    ASSUME NestingOK, PathsOK, ClosedOK, NEW kind \in Kinds, Close(kind), Reading'
    PROVE  (NestingOK /\ PathsOK /\ ClosedOK)'
<1> DEFINE n == Len(frames)
           m == n - 1
<1>1. /\ n \in Nat /\ frames \in Seq(CardFrames) /\ expects \in Seq(Expectations)
      /\ Len(expects) = n + 1 /\ \A k \in 1..n : expects[k] = "after"
  BY DEF NestingOK
<1>2. /\ n > 0 /\ Top.kind = kind
      /\ expects' = Popped(expects) /\ frames' = Popped(frames)
      /\ card_closed' = (IF Top.kind = "object" /\ Top.path.at = "card"
                         THEN Append(card_closed, Top.path.index) ELSE card_closed)
      /\ lexeme' = "out" /\ UNCHANGED <<items, arrays>>
  <2>1. expects' # Fail BY DEF Reading, Failed
  <2>2. frames # <<>> /\ Top.kind = kind BY <2>1 DEF Close
  <2> QED BY <1>1, <2>1, <2>2 DEF Close
<1>3. /\ m \in Nat /\ m < n /\ frames' \in Seq(CardFrames) /\ Len(frames') = m
      /\ \A k \in 1..m : frames'[k] = frames[k]
  <2>1. m \in Nat /\ m < n /\ frames' = SubSeq(frames, 1, m) BY <1>1, <1>2 DEF Popped
  <2> HIDE DEF m
  <2> QED BY <1>1, <2>1
<1>4. /\ expects' \in Seq(Expectations) /\ Len(expects') = m + 1
      /\ \A k \in 1..m + 1 : expects'[k] = expects[k]
  <2>1. expects' = SubSeq(expects, 1, n) BY <1>1, <1>2 DEF Popped
  <2>2. /\ expects' \in Seq(Expectations) /\ Len(expects') = n
        /\ \A k \in 1..n : expects'[k] = expects[k]
    BY <1>1, <2>1
  <2> QED BY <1>1, <2>2
<1>5. \A k \in 1..m + 1 : expects'[k] = "after" BY <1>1, <1>4
<1>6. Top = frames[n] /\ n \in 1..n /\ m + 1 = n BY <1>1, <1>2 DEF Top
<1> HIDE DEF n, m
<1>7. NestingOK'
  <2>1. expects'[m + 1] = "after" BY <1>3, <1>5
  <2>2. \A k \in 1..m : expects'[k] = "after" BY <1>3, <1>5
  <2>3. m > 0 => expects'[m + 1] \in IF frames'[m].kind = "object"
                                     THEN {"open", "key", "colon", "value", "after"}
                                     ELSE {"first", "value", "after"}
    BY <2>1
  <2>4. m = 0 => expects'[1] = "after" BY <2>1
  <2> QED BY <1>2, <1>3, <1>4, <2>1, <2>2, <2>3, <2>4 DEF NestingOK
<1>8. PathsOK'
  <2>1. m > 0 => frames'[1].path = Root /\ frames'[1].kind = "object"
    BY <1>1, <1>3 DEF PathsOK, n
  <2>2. m > 1 => frames'[2].path \in {Steps, Other} BY <1>1, <1>3 DEF PathsOK, n
  <2>3. m > 2 => \/ frames'[3].path = Other
                 \/ /\ frames'[2].path = Steps /\ frames'[2].kind = "array"
                    /\ frames'[3].path = Card(frames'[2].next)
    <3> SUFFICES ASSUME m > 2 PROVE \/ frames'[3].path = Other
                                    \/ /\ frames'[2].path = Steps /\ frames'[2].kind = "array"
                                       /\ frames'[3].path = Card(frames'[2].next)
      OBVIOUS
    <3>1. frames'[2] = frames[2] /\ frames'[3] = frames[3] /\ n > 2 BY <1>1, <1>3
    <3> QED BY <3>1 DEF PathsOK, n
  <2>4. \A k \in 4..m : frames'[k].path = Other
    <3>1. \A k \in 4..m : frames'[k] = frames[k] /\ k \in 4..n BY <1>1, <1>3
    <3> QED BY <3>1 DEF PathsOK, n
  <2> QED BY <1>3, <2>1, <2>2, <2>3, <2>4 DEF PathsOK
<1>9. ClosedOK'
  <2>1. /\ items \in Nat /\ arrays \in Nat /\ card_closed \in Seq(Nat)
        /\ arrays = 0 => card_closed = <<>>
        /\ n > 1 /\ frames[2].path = Steps => arrays > 0
    BY DEF ClosedOK, n
  <2>2. m > 1 => n > 2 /\ frames'[2] = frames[2] /\ expects'[3] = expects[3]
    BY <1>1, <1>3, <1>4
  <2>3. /\ StepsOpen' => n > 2 /\ StepsOpen
        /\ m > 1 /\ frames'[2].path = Steps => n > 1 /\ frames[2].path = Steps
    BY <1>1, <1>3, <2>2 DEF StepsOpen, n
  <2>4. ASSUME Top.kind = "object", Top.path.at = "card"
        PROVE  /\ n = 3 /\ frames[2].path = Steps /\ frames[2].kind = "array"
               /\ Top.path.index = frames[2].next /\ frames[2].next \in Nat
    <3>1. Top.path \notin {Root, Steps, Other} BY <2>4, PathsDiffer
    <3>2. n # 1 /\ n # 2 BY <1>6, <3>1 DEF PathsOK, n
    <3>3. n \notin 4..n BY <1>6, <3>1 DEF PathsOK, n
    <3>4. n = 3 BY <1>1, <1>2, <3>2, <3>3
    <3>5. 2 \in 1..Len(frames) BY <3>4 DEF n
    <3>6. frames[2] \in CardFrames BY <1>1, <3>5
    <3>7. frames[2].next \in Nat BY <3>6 DEF CardFrames
    <3>8. frames[2].path = Steps /\ frames[2].kind = "array" /\ Top.path = Card(frames[2].next)
      BY <1>6, <3>1, <3>4 DEF PathsOK, n
    <3> QED BY <3>4, <3>7, <3>8, PathsDiffer
  <2> HIDE DEF StepsOpen
  <2>5. CASE ~(Top.kind = "object" /\ Top.path.at = "card")
    <3>1. card_closed' = card_closed BY <1>2, <2>5
    <3>2. ASSUME arrays = 1
          PROVE  /\ \A k \in 1..Len(card_closed) : card_closed[k] < items
                 /\ \A k \in 2..Len(card_closed) : card_closed[k - 1] < card_closed[k]
                 /\ StepsOpen' =>
                      /\ items = frames'[2].next + (IF expects'[3] = "after" THEN 1 ELSE 0)
                      /\ \A k \in 1..Len(card_closed) : card_closed[k] < frames'[2].next
      <4>1. StepsOpen' => m > 1 BY <1>3 DEF StepsOpen
      <4> QED BY <2>2, <2>3, <3>2, <4>1 DEF ClosedOK, n
    <3> QED BY <1>2, <1>3, <2>1, <2>3, <3>1, <3>2 DEF ClosedOK
  <2>6. CASE Top.kind = "object" /\ Top.path.at = "card"
    <3> DEFINE x == frames[2].next
               j == Len(card_closed)
    <3>1. card_closed' = Append(card_closed, x) /\ n = 3 /\ x \in Nat /\ arrays > 0
      BY <1>2, <2>1, <2>4, <2>6
    <3>2. StepsOpen BY <2>4, <2>6, <3>1 DEF StepsOpen, n
    <3>3. m = 2 /\ StepsOpen' /\ frames'[2] = frames[2] /\ expects'[3] = "after"
      <4>1. m = 2 BY <1>3, <1>6, <3>1
      <4>2. frames'[2] = frames[2] /\ expects'[3] = "after" BY <1>3, <1>5, <4>1
      <4> QED BY <1>3, <3>2, <4>1, <4>2 DEF StepsOpen
    <3> HIDE DEF x
    <3>4. /\ card_closed' \in Seq(Nat) /\ j \in Nat /\ Len(card_closed') = j + 1
          /\ card_closed'[j + 1] = x /\ \A k \in 1..j : card_closed'[k] = card_closed[k]
      BY <2>1, <3>1
    <3>5. ASSUME arrays = 1
          PROVE  /\ items = x + 1
                 /\ \A k \in 1..j : card_closed[k] \in Nat /\ card_closed[k] < x
                 /\ \A k \in 2..j : card_closed[k - 1] < card_closed[k]
      <4>1. expects[3] = "after" BY <1>1, <3>1
      <4>2. items = x + 1 /\ (\A k \in 1..j : card_closed[k] < x)
            /\ \A k \in 2..j : card_closed[k - 1] < card_closed[k]
        BY <3>1, <3>2, <3>5, <4>1 DEF ClosedOK, n, x
      <4> QED BY <2>1, <4>2
    <3> HIDE DEF j
    <3>6. ASSUME arrays = 1 PROVE \A k \in 1..j + 1 : card_closed'[k] < items
      <4> TAKE k \in 1..j + 1
      <4>1. CASE k = j + 1 BY <3>1, <3>4, <3>5, <3>6, <4>1
      <4>2. CASE k \in 1..j
        <5>1. card_closed'[k] = card_closed[k] /\ card_closed[k] \in Nat /\ card_closed[k] < x
          BY <3>4, <3>5, <3>6, <4>2
        <5> QED BY <3>1, <3>5, <3>6, <5>1
      <4> QED BY <3>4, <4>1, <4>2
    <3>7. ASSUME arrays = 1 PROVE \A k \in 2..j + 1 : card_closed'[k - 1] < card_closed'[k]
      <4> TAKE k \in 2..j + 1
      <4>1. k - 1 \in 1..j /\ card_closed'[k - 1] = card_closed[k - 1] BY <3>4
      <4>2. CASE k = j + 1 BY <3>4, <3>5, <3>7, <4>1, <4>2
      <4>3. CASE k \in 2..j
        <5>1. card_closed'[k] = card_closed[k] BY <3>4, <4>3
        <5> QED BY <3>5, <3>7, <4>1, <4>3, <5>1
      <4> QED BY <3>4, <4>2, <4>3
    <3>8. arrays = 1 => items = frames'[2].next + 1 BY <3>3, <3>5 DEF x
    <3> QED BY <1>2, <1>3, <2>1, <3>1, <3>3, <3>4, <3>6, <3>7, <3>8 DEF ClosedOK
  <2> QED BY <2>5, <2>6
<1> QED BY <1>7, <1>8, <1>9

LEMMA CardStep == ReadingInv /\ [CardNext]_cardVars => ReadingInv'
<1> SUFFICES ASSUME ReadingInv, [CardNext]_cardVars PROVE ReadingInv' OBVIOUS
<1>1. CASE UNCHANGED cardVars
  BY <1>1 DEF cardVars, ReadingInv, Reading, Failed, NestingOK, PathsOK, ClosedOK, StepsOpen
<1>2. CASE CardNext
  <2>1. Reading /\ NestingOK /\ PathsOK /\ ClosedOK
    BY <1>2 DEF CardNext, Open, Close, Comma, Colon, OpenString, CloseString, Scalar, ReadingInv
  <2>2. valid' \in BOOLEAN
    BY <1>2 DEF CardNext, Open, Close, Comma, Colon, OpenString, CloseString, Scalar, ReadingInv
  <2> SUFFICES ASSUME Reading' PROVE (NestingOK /\ PathsOK /\ ClosedOK)'
    BY <2>2 DEF ReadingInv
  <2> DEFINE n == Len(frames)
  <2>3. /\ n \in Nat /\ frames \in Seq(CardFrames) /\ expects \in Seq(Expectations)
        /\ Len(expects) = n + 1 /\ lexeme \in {"in", "out", "steps", "text"}
        /\ items \in Nat /\ arrays \in Nat
    BY <2>1 DEF NestingOK, ClosedOK
  <2>4. expects' # Fail BY DEF Reading, Failed
  <2>5. n > 0 => /\ Top = frames[n] /\ Top \in CardFrames /\ Top.kind \in Kinds
                 /\ expects[n + 1] \in IF Top.kind = "object"
                                       THEN {"open", "key", "colon", "value", "after"}
                                       ELSE {"first", "value", "after"}
    <3> SUFFICES ASSUME n > 0
                 PROVE  /\ Top = frames[n] /\ Top \in CardFrames /\ Top.kind \in Kinds
                        /\ expects[n + 1] \in IF Top.kind = "object"
                                              THEN {"open", "key", "colon", "value", "after"}
                                              ELSE {"first", "value", "after"}
      OBVIOUS
    <3>1. Top = frames[n] /\ Top \in CardFrames BY <2>3 DEF Top
    <3>2. Top.kind \in Kinds BY <3>1 DEF CardFrames, Kinds
    <3>3. expects[n + 1] \in IF Top.kind = "object"
                             THEN {"open", "key", "colon", "value", "after"}
                             ELSE {"first", "value", "after"}
      BY <2>1, <3>1 DEF NestingOK
    <3> QED BY <3>1, <3>2, <3>3
  <2>6. frames = <<>> <=> n = 0 BY <2>3
  \* The innermost frame is unchanged when nothing is said of it.
  <2>7. n > 0 => frames = [frames EXCEPT ![n] = Top]
    BY <2>3, <2>5
  <2>8. Counted = (IF InSteps THEN items + 1 ELSE items) BY DEF Counted
  <2>9. /\ InSteps <=> n = 2 /\ Top.path = Steps /\ Top.kind = "array"
        /\ InSteps => n > 0
        /\ arrays = 1 /\ InSteps => items = Top.next + (IF expects[n + 1] = "after" THEN 1 ELSE 0)
    <3>1. InSteps <=> n = 2 /\ Top.path = Steps /\ Top.kind = "array" BY DEF InSteps
    <3>2. ASSUME InSteps PROVE n = 2 /\ StepsOpen /\ Top = frames[2]
      <4>1. Len(frames) = 2 /\ Top = frames[2] BY <3>2 DEF InSteps, Top
      <4> QED BY <3>2, <4>1 DEF StepsOpen, InSteps
    <3>3. ASSUME InSteps, arrays = 1
          PROVE  items = Top.next + (IF expects[n + 1] = "after" THEN 1 ELSE 0)
      <4>1. items = frames[2].next + (IF expects[3] = "after" THEN 1 ELSE 0)
        BY <2>1, <3>2, <3>3 DEF ClosedOK
      <4>0. Len(frames) = 2 BY <3>3 DEF InSteps
      <4>2. n + 1 = 3 BY <4>0
      <4> QED BY <3>2, <3>3, <4>1, <4>2
    <3> QED BY <3>1, <3>2, <3>3
  <2>10. n > 0 => Top.next \in Nat BY <2>5 DEF CardFrames
  <2>11. CASE \E kind \in Kinds : Open(kind) BY <2>1, <2>11, OpenStep
  <2>12. CASE \E kind \in Kinds : Close(kind) BY <2>1, <2>12, CloseStep
  \* The value that was due begins.
  <2>13. ASSUME n > 0, expects[n + 1] \in {"first", "value"}, UNCHANGED <<frames, arrays, card_closed>>,
                expects' = Expect("after"), items' = Counted, lexeme' \in {"in", "out"}
         PROVE  (NestingOK /\ PathsOK /\ ClosedOK)'
    <3>1. frames' = [frames EXCEPT ![n] = Top] BY <2>7, <2>13
    <3>2. expects' = [expects EXCEPT ![Len(expects)] = "after"] BY <2>13 DEF Expect
    <3>3. items' \in Nat /\ items' >= items BY <2>3, <2>8, <2>13
    <3>4. arrays = 1 /\ InSteps => items' = Top.next + 1 BY <2>8, <2>9, <2>10, <2>13
    <3> QED BY <2>1, <2>5, <2>8, <2>13, <3>1, <3>2, <3>3, <3>4, TopStep
  <2>14. CASE Comma
    <3>1. n > 0 /\ expects[n + 1] = "after"
          /\ expects' = [expects EXCEPT ![Len(expects)] = IF Top.kind = "array" THEN "value" ELSE "key"]
          /\ lexeme' = "out" /\ UNCHANGED <<card_closed, items, arrays>>
      BY <2>3, <2>4, <2>14 DEF Comma, Expects, Expect
    <3>2. CASE Top.kind = "array"
      <4> DEFINE f == [Top EXCEPT !.next = @ + 1]
      <4>1. frames' = [frames EXCEPT ![n] = f] BY <2>6, <2>14, <3>1, <3>2 DEF Comma, SetTop
      <4>2. f \in CardFrames /\ f.kind = "array" /\ f.path = Top.path /\ f.next = Top.next + 1
        BY <2>5, <3>1, <3>2 DEF CardFrames
      <4>3. arrays = 1 /\ InSteps => items' = f.next + (IF "value" = "after" THEN 1 ELSE 0)
        BY <2>9, <2>10, <3>1, <4>2
      <4>4. expects' = [expects EXCEPT ![Len(expects)] = "value"] BY <3>1, <3>2
      <4>5. items' \in Nat /\ items' >= items BY <2>3, <3>1
      <4>6. f.kind = frames[n].kind /\ f.path = frames[n].path BY <2>5, <3>1, <3>2, <4>2
      <4>7. items' = items /\ lexeme' = "out" /\ UNCHANGED <<arrays, card_closed>> /\ Len(frames) > 0
        BY <3>1
      <4> HIDE DEF f
      <4> QED BY <2>1, <4>1, <4>2, <4>3, <4>4, <4>5, <4>6, <4>7, TopStep
    <3>3. CASE Top.kind = "object"
      <4> DEFINE f == [Top EXCEPT !.key = NoKey]
      <4>1. frames' = [frames EXCEPT ![n] = f] BY <2>6, <2>14, <3>1, <3>3 DEF Comma, SetTop
      <4>2. f \in CardFrames /\ f.kind = "object" /\ f.path = Top.path
        BY <2>5, <3>1, <3>3 DEF CardFrames
      <4>3. ~InSteps BY <2>9, <3>3
      <4>4. expects' = [expects EXCEPT ![Len(expects)] = "key"] BY <3>1, <3>3
      <4>5. items' \in Nat /\ items' >= items BY <2>3, <3>1
      <4>6. f.kind = frames[n].kind /\ f.path = frames[n].path BY <2>5, <3>1, <3>3, <4>2
      <4>7. items' = items /\ lexeme' = "out" /\ UNCHANGED <<arrays, card_closed>> /\ Len(frames) > 0
        BY <3>1
      <4> HIDE DEF f
      <4> QED BY <2>1, <4>1, <4>2, <4>3, <4>4, <4>5, <4>6, <4>7, TopStep
    <3> QED BY <2>5, <3>1, <3>2, <3>3 DEF Kinds
  <2>15. CASE Colon
    <3> DEFINE f == [Top EXCEPT !.key = lexeme]
    <3>1. expects[n + 1] = "colon" /\ expects' = [expects EXCEPT ![Len(expects)] = "value"]
          /\ lexeme # "in" /\ lexeme' = "out" /\ UNCHANGED <<card_closed, items, arrays>>
      BY <2>3, <2>4, <2>15 DEF Colon, Expects, Expect
    <3>2. n > 0 /\ Top.kind = "object" /\ lexeme \in {"steps", "text"}
      BY <2>1, <2>3, <2>5, <3>1 DEF NestingOK, Kinds
    <3>3. frames' = [frames EXCEPT ![n] = f] BY <2>6, <2>15, <3>2 DEF Colon, SetTop
    <3>4. f \in CardFrames /\ f.kind = "object" /\ f.path = Top.path /\ f.key # NoKey
      BY <2>5, <3>2 DEF CardFrames, NoKey
    <3>5. ~InSteps BY <2>9, <3>2
    <3>6. items' \in Nat /\ items' >= items BY <2>3, <3>1
    <3>7. f.kind = frames[n].kind /\ f.path = frames[n].path BY <2>5, <3>2, <3>4
    <3> HIDE DEF f
    <3> QED BY <2>1, <3>1, <3>2, <3>3, <3>4, <3>5, <3>6, <3>7, TopStep
  <2>16. CASE OpenString
    <3>1. n > 0 /\ lexeme' = "in" /\ UNCHANGED <<frames, card_closed, arrays>>
      BY <2>3, <2>4, <2>16 DEF OpenString
    <3>2. CASE expects[n + 1] \in {"open", "key"}
      <4>1. expects' = [expects EXCEPT ![Len(expects)] = "colon"] /\ items' = items
        BY <2>3, <2>16, <3>1, <3>2 DEF OpenString, Expects, Expect, ValueOK
      <4>2. Top.kind = "object" BY <2>5, <3>1, <3>2 DEF Kinds
      <4>3. ~InSteps BY <2>9, <4>2
      <4>4. frames' = [frames EXCEPT ![n] = Top] BY <2>7, <3>1
      <4>5. items' \in Nat /\ items' >= items BY <2>3, <4>1
      <4>6. Top \in CardFrames /\ Top = frames[n] BY <2>5, <3>1
      <4> HIDE DEF Top
      <4> QED BY <2>1, <3>1, <4>1, <4>2, <4>3, <4>4, <4>5, <4>6, TopStep
    <3>3. CASE expects[n + 1] \notin {"open", "key"}
      <4>1. expects[n + 1] \in {"first", "value"} /\ expects' = Expect("after") /\ items' = Counted
        BY <2>3, <2>4, <2>16, <3>3 DEF OpenString, Expects, ValueOK
      <4> QED BY <2>13, <3>1, <4>1
    <3> QED BY <3>2, <3>3
  <2>17. CASE Scalar
    <3>1. n > 0 /\ lexeme' = "out" /\ UNCHANGED <<frames, card_closed, arrays>>
          /\ expects[n + 1] \in {"first", "value"} /\ expects' = Expect("after") /\ items' = Counted
      BY <2>3, <2>4, <2>17 DEF Scalar, Expects, ValueOK
    <3> QED BY <2>13, <3>1
  <2>18. CASE \E text \in {"steps", "text"} : CloseString(text)
    <3>1. lexeme = "in" /\ lexeme' \in {"steps", "text"}
          /\ UNCHANGED <<frames, card_closed, expects, items, arrays>>
      BY <2>18 DEF CloseString
    <3>2. n > 0 BY <2>1, <2>3, <3>1 DEF NestingOK
    <3> QED BY <2>1, <3>1, <3>2 DEF NestingOK, PathsOK, ClosedOK, StepsOpen
  <2> QED BY <1>2, <2>11, <2>12, <2>14, <2>15, <2>16, <2>17, <2>18 DEF CardNext
<1> QED BY <1>1, <1>2

LEMMA CardStarts == CardInit => ReadingInv
<1> SUFFICES ASSUME CardInit PROVE NestingOK /\ PathsOK /\ ClosedOK /\ valid \in BOOLEAN
  BY DEF ReadingInv
<1>1. /\ frames = <<>> /\ card_closed = <<>> /\ valid = TRUE /\ expects = <<"start">>
      /\ items = 0 /\ arrays = 0 /\ lexeme = "out"
  BY DEF CardInit
<1>2. NestingOK BY <1>1 DEF NestingOK, Expectations
<1>3. PathsOK BY <1>1 DEF PathsOK
<1>4. ClosedOK BY <1>1 DEF ClosedOK
<1> QED BY <1>1, <1>2, <1>3, <1>4

LEMMA ReadingInvIsEnough == ReadingInv => ScanAgreesWithParser
<1> SUFFICES ASSUME ReadingInv, HasValue
             PROVE  /\ Len(frames) = Len(expects) - 1
                    /\ complete <=> expects = <<"after">>
                    /\ arrays < 2 => \A k \in 1..Len(card_closed) :
                          /\ card_closed[k] < items
                          /\ k > 1 => card_closed[k - 1] < card_closed[k]
  BY DEF ScanAgreesWithParser
<1>1. NestingOK /\ ClosedOK /\ expects # <<"start">> BY DEF HasValue, ReadingInv
<1>2. /\ frames \in Seq(CardFrames) /\ expects \in Seq(Expectations)
      /\ Len(expects) = Len(frames) + 1 /\ Len(frames) \in Nat
      /\ Len(frames) = 0 => expects[1] \in {"start", "after"} /\ lexeme # "in"
  BY <1>1 DEF NestingOK
<1>3. frames = <<>> <=> Len(frames) = 0 BY <1>2
<1>4. Len(frames) = 0 => expects = <<expects[1]>> BY <1>2
<1>5. expects = <<"after">> => Len(frames) = 0
  <2>1. Len(<<"after">>) = 1 OBVIOUS
  <2> QED BY <1>2, <2>1
<1>6. complete <=> expects = <<"after">> BY <1>1, <1>2, <1>3, <1>4, <1>5 DEF complete
<1>7. ASSUME arrays < 2, NEW k \in 1..Len(card_closed)
      PROVE  card_closed[k] < items /\ (k > 1 => card_closed[k - 1] < card_closed[k])
  <2>1. arrays = 1
    <3>1. arrays = 0 => FALSE BY <1>1, <1>7 DEF ClosedOK
    <3> QED BY <1>1, <1>7, <3>1 DEF ClosedOK
  <2>2. k > 1 => k \in 2..Len(card_closed) BY <1>1 DEF ClosedOK
  <2> QED BY <1>1, <2>1, <2>2 DEF ClosedOK
<1> QED BY <1>2, <1>6, <1>7

\* What both readings of a buffer hold keeps its type: the containers never nest deeper than
\* the bound, and what is expected is one of the parser's expectations.
CardTypes == ReadingInv /\ CardTypeOK

\* A sequence of which an element changes has its length, and one more with one more.
LEMMA TopChanges ==
    ASSUME NEW S, NEW s \in Seq(S), NEW k, NEW f, NEW x
    PROVE  /\ Len([s EXCEPT ![k] = f]) = Len(s)
           /\ Len(Append(s, x)) = Len(s) + 1
           /\ Len(Append([s EXCEPT ![k] = f], x)) = Len(s) + 1
<1> DEFINE T == S \cup {f, x}
           t == [s EXCEPT ![k] = f]
<1>0. S \subseteq T /\ f \in T /\ x \in T OBVIOUS
<1> HIDE DEF T
<1>1. s \in Seq(T)
  <2>1. Len(s) \in Nat /\ s \in [1..Len(s) -> T] BY <1>0
  <2> QED BY <2>1
<1>A. t \in Seq(T) /\ Len(t) = Len(s)
  <2>1. Len(s) \in Nat /\ DOMAIN t = 1..Len(s) BY <1>1
  <2>2. \A i \in 1..Len(s) : t[i] \in T BY <1>0, <1>1
  <2>3. t = [i \in 1..Len(s) |-> t[i]] BY <1>1
  <2>4. t \in [1..Len(s) -> T] BY <2>2, <2>3
  <2> HIDE DEF t
  <2> QED BY <2>1, <2>4
<1> HIDE DEF t
<1>2. Len(Append(t, x)) = Len(t) + 1 /\ Len(Append(s, x)) = Len(s) + 1 BY <1>0, <1>1, <1>A
<1> QED BY <1>A, <1>2 DEF t

LEMMA CardTypesStep == CardTypes /\ [CardNext]_cardVars => CardTypes'
<1> SUFFICES ASSUME CardTypes, [CardNext]_cardVars PROVE CardTypes' OBVIOUS
<1>0. ReadingInv' BY CardStep DEF CardTypes
<1>1. CASE UNCHANGED cardVars BY <1>0, <1>1 DEF cardVars, CardTypes, CardTypeOK
<1>2. CASE CardNext
  <2>1. NestingOK /\ MaxDepth \in Nat /\ Len(frames) <= MaxDepth
    BY <1>2, CardAssumption DEF CardNext, Open, Close, Comma, Colon, OpenString, CloseString, Scalar,
                                ReadingInv, CardTypes, CardTypeOK
  <2> DEFINE n == Len(frames)
             m == Len(expects)
  <2>2. /\ frames \in Seq(CardFrames) /\ expects \in Seq(Expectations) /\ n \in Nat /\ m = n + 1
        /\ frames = <<>> <=> n = 0
    BY <2>1 DEF NestingOK
  <2>3. valid' \in BOOLEAN BY <1>0 DEF ReadingInv
  <2>E. {"open", "first", "key", "colon", "value", "after", "fail"} \subseteq Expectations BY DEF Expectations
  <2>4. Fail \in Seq(Expectations) BY <2>E DEF Fail
  <2>5. ASSUME NEW e \in Expectations PROVE Expect(e) \in Seq(Expectations) BY <2>2 DEF Expect
  <2>6. n > 0 => Len(Popped(frames)) = n - 1
    <3> SUFFICES ASSUME n > 0 PROVE Len(Popped(frames)) = n - 1 OBVIOUS
    <3> DEFINE j == n - 1
    <3>1. 1 \in Nat /\ j \in Nat /\ j < n /\ Popped(frames) = SubSeq(frames, 1, j) BY <2>2 DEF Popped
    <3> HIDE DEF j
    <3>2. SubSeq(frames, 1, j) \in Seq(CardFrames) /\ Len(SubSeq(frames, 1, j)) = j BY <2>2, <3>1
    <3> QED BY <3>1, <3>2 DEF j
  <2>7. m > 1 => Popped(expects) \in Seq(Expectations)
    <3> SUFFICES ASSUME m > 1 PROVE Popped(expects) \in Seq(Expectations) OBVIOUS
    <3>1. 1 \in Nat /\ m - 1 \in Nat /\ \A k \in 1..m - 1 : k \in 1..m BY <2>2
    <3> QED BY <2>2, <3>1 DEF Popped
  <2>8. ASSUME NEW f PROVE Len(SetTop(f)) = n
    BY <2>2, TopChanges DEF SetTop
  <2>9. ASSUME NEW x PROVE Len(Append(Consumed, x)) = n + 1
    BY <2>2, TopChanges DEF Consumed, SetTop
  <2> HIDE DEF n, m
  <2>10. ASSUME NEW kind, Open(kind) PROVE Len(frames') <= MaxDepth /\ expects' \in Seq(Expectations)
    <3>1. Len(frames') = n + 1 /\ n < MaxDepth BY <2>9, <2>10 DEF Open, n
    <3>2. expects' \in Seq(Expectations)
      <4>1. ASSUME NEW e \in Expectations PROVE Append(Expect("after"), e) \in Seq(Expectations)
        BY <2>5, <2>E, <4>1
      <4> QED BY <2>4, <2>10, <2>E, <4>1 DEF Open
    <3> QED BY <2>1, <2>2, <3>1, <3>2
  <2>11. ASSUME NEW kind, Close(kind) PROVE Len(frames') <= MaxDepth /\ expects' \in Seq(Expectations)
    <3>1. Len(frames') \in Nat /\ Len(frames') <= n
      <4>1. CASE frames = <<>> \/ Top.kind # kind BY <2>2, <2>11, <4>1 DEF Close, n
      <4>2. CASE ~(frames = <<>> \/ Top.kind # kind) BY <2>2, <2>6, <2>11, <4>2 DEF Close
      <4> QED BY <4>1, <4>2
    <3>2. expects' \in Seq(Expectations) BY <2>2, <2>4, <2>7, <2>11 DEF Close, m
    <3> QED BY <2>1, <2>2, <3>1, <3>2 DEF n
  <2>12. CASE Comma
    <3>1. Len(frames') = n BY <2>8, <2>12 DEF Comma, n
    <3>2. expects' \in Seq(Expectations) BY <2>4, <2>5, <2>12, <2>E DEF Comma
    <3> QED BY <2>1, <2>3, <3>1, <3>2, <1>0 DEF n, CardTypes, CardTypeOK, Expectations
  <2>13. CASE Colon
    <3>1. Len(frames') = n BY <2>8, <2>13 DEF Colon, n
    <3>2. expects' \in Seq(Expectations) BY <2>4, <2>5, <2>13, <2>E DEF Colon
    <3> QED BY <2>1, <2>3, <3>1, <3>2, <1>0 DEF n, CardTypes, CardTypeOK, Expectations
  <2>14. CASE OpenString \/ Scalar \/ \E text \in {"steps", "text"} : CloseString(text)
    <3>1. frames' = frames BY <2>14 DEF OpenString, Scalar, CloseString
    <3>2. expects' \in Seq(Expectations) BY <2>2, <2>4, <2>5, <2>14, <2>E DEF OpenString, Scalar, CloseString
    <3> QED BY <2>1, <2>3, <3>1, <3>2, <1>0 DEF CardTypes, CardTypeOK, Expectations
  <2>15. ASSUME Len(frames') <= MaxDepth, expects' \in Seq(Expectations) PROVE CardTypes'
    BY <1>0, <2>3, <2>15 DEF CardTypes, CardTypeOK, Expectations
  <2> QED BY <1>2, <2>10, <2>11, <2>12, <2>13, <2>14, <2>15 DEF CardNext
<1> QED BY <1>1, <1>2

LEMMA CardTypesStart == CardInit => CardTypes
<1> SUFFICES ASSUME CardInit PROVE CardTypes OBVIOUS
<1>1. frames = <<>> /\ valid = TRUE /\ expects = <<"start">> BY DEF CardInit
<1>2. Len(frames) = 0 /\ Len(expects) = 1 BY <1>1
<1>3. CardTypeOK BY <1>1, <1>2, CardAssumption DEF CardTypeOK
<1> QED BY <1>3, CardStarts DEF CardTypes

\* What the client is shown of a plan is what the model wrote: for any number of requests
\* at once, and for texts of any depth and length (PlanDecomposer.decide with its streamed
\* retry, scan_card_structure beside _PartialJsonParser).
THEOREM CardsStayFaithful ==
    DecompositionSpec /\ CardSpec => [](DecompositionTypeOK /\ CardsAreFaithful)
<1>1. DecompositionInv /\ ReadingInv => DecompositionTypeOK /\ CardsAreFaithful
  BY DecompositionInvIsEnough, ReadingInvIsEnough DEF CardsAreFaithful
<1> QED BY <1>1, DecompositionStarts, DecompositionStep, CardStarts, CardStep,
           PTL DEF DecompositionSpec, CardSpec
==============================================================================
