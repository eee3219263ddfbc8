---------------------------- MODULE Decomposition ----------------------------
(***************************************************************************)
(* Turning a goal into a plan: PlanDecomposer.decide                        *)
(* (core/plan_decomposer.py, core/llm_decomposer.py), the orchestrator's    *)
(* create_plan, and the thread behind POST /api/plan/decompose that streams *)
(* the card while the model writes it (http_host.py).                       *)
(*                                                                          *)
(* Goals and steps are reduced to what the gates tell apart: a list of      *)
(* steps is "good", "lossy" (a method constraint is gone) or "poor" (a      *)
(* scaffold, an echo, irrelevant or of no value).  The decomposer is one    *)
(* object for all callers (chat, /api/plan, IdleThink): the fields that     *)
(* carry the lineage of the last decomposition hold the request that wrote  *)
(* them.                                                                    *)
(***************************************************************************)
EXTENDS Naturals, FiniteSets

CONSTANTS Goals,       \* requests to decompose, each served once by a thread
          NoGoal

VARIABLES request,     \* per goal: where its thread is and what it holds
          lineage,     \* the decomposer's last_source, last_sample_ids, ...
          card,        \* per goal: what its event stream has shown
          plans        \* per goal: the lineage its created plan carries

decompositionVars == <<request, lineage, card, plans>>

\* What the text of a goal can be, as far as decide looks: none of a task's business
\* (_normalize_non_task_input, _is_explanation_request), ...
NonTask == {"greeting", "explanation"}
\* ... or a request for one of the algorithms, perhaps one no tool offers
\* (_tool_requested, _has_unavailable_algorithm_constraint).
AlgorithmRequests == {"booth", "crc32", "gcd", "quicksort", "tool_unavailable"}
\* _algorithm_tool_steps: the operands are found in the text, or they are not.
Operands == BOOLEAN

Qualities == {"good", "lossy", "poor"}
\* _missing_method_constraints: a method the goal names is in no step.
LosesConstraint(steps) == steps = "lossy"
\* _step_relevance, below _MIN_STEP_RELEVANCE; ...
IsIrrelevant(steps) == steps = "poor"
\* ... _zero_value_plan_score, _detect_echo, _contains_generic_scaffold.
IsWorthless(steps) == steps = "poor"

\* What the planners of the four algorithms make of a goal.
AlgorithmPlans(algorithm, found) ==
    IF algorithm = "tool_unavailable" \/ ~found THEN {} ELSE {"good", "poor"}
\* _deterministic_calculator_plan
CalculatorPlans == {"good", "poor"}
\* _parse_json, _validate_steps and _align_stages make steps of a text, or nothing.
LlmAnswers == {"model_none", "unusable"} \cup Qualities
RulePlans == {"good", "poor", "no_match"}

Unlinked == [source |-> NoGoal, samples |-> NoGoal, candidate |-> NoGoal]

DecompositionInit ==
    /\ request = [g \in Goals |-> [pc |-> "new", stream |-> FALSE, attempt |-> 0,
                                   open |-> FALSE, steps |-> "none",
                                   source |-> "none"]]
    /\ lineage = Unlinked
    /\ card = [g \in Goals |-> [attempts |-> {}, closed |-> FALSE, had_delta |-> FALSE,
                                last |-> "none"]]
    /\ plans = [g \in Goals |-> Unlinked]

InState(g, pc) == request[g].pc = pc
MovesTo(g, pc) == request' = [request EXCEPT ![g].pc = pc]
Streams(g) == request[g].stream
\* persist: an event goes to the log and to the open response of a streaming request.
StreamEvent(g, e) == card' = IF Streams(g) THEN [card EXCEPT ![g].last = e] ELSE card

-----------------------------------------------------------------------------
(* PlanDecomposer.decide.                                                  *)

\* decide starts by clearing the fields of the last decomposition.
StartDecide(g, stream) ==
    /\ InState(g, "new")
    /\ request' = [request EXCEPT ![g].pc = "route", ![g].stream = stream]
    /\ lineage' = Unlinked
    /\ UNCHANGED <<card, plans>>

Decline(g) ==
    /\ MovesTo(g, "declined")
    /\ UNCHANGED <<lineage, card, plans>>

\* Greetings, explanations and constraints no tool satisfies end here.
DeclineEarly(g) ==
    /\ InState(g, "route")
    /\ \E reason \in NonTask \cup {"tool_unavailable"} : Decline(g)

\* A deterministic tool plan skips the model and goes straight to the gates.
UseBuiltin(g) ==
    /\ InState(g, "route")
    /\ \E algorithm \in AlgorithmRequests, found \in Operands :
       \E steps \in AlgorithmPlans(algorithm, found) \cup CalculatorPlans :
          request' = [request EXCEPT ![g].pc = "gates", ![g].steps = steps,
                                     ![g].source = "builtin_tool"]
    /\ UNCHANGED <<lineage, card, plans>>

\* Samples are retrieved, or not (learning is off, none fits, retrieval raised).
RetrieveSamples(g, found) ==
    /\ InState(g, "route")
    /\ lineage' = [lineage EXCEPT !.samples = IF found THEN g ELSE NoGoal]
    /\ \E next \in {"model", "rule"} :   \* with or without a model to ask
          request' = [request EXCEPT ![g].pc = next, ![g].attempt = 1]
    /\ UNCHANGED <<card, plans>>

\* on_delta: the first fragment of an attempt opens the card's object.
Delta(g) ==
    /\ InState(g, "model") /\ Streams(g)
    /\ request' = [request EXCEPT ![g].open = TRUE]
    /\ card' = [card EXCEPT ![g].attempts = @ \cup {request[g].attempt},
                            ![g].closed = FALSE, ![g].had_delta = TRUE,
                            ![g].last = "card_delta"]
    /\ UNCHANGED <<lineage, plans>>

\* on_attempt_complete, in a finally: the object is closed if it was opened.
CompleteAttempt(g) ==
    card' = IF request[g].open
            THEN [card EXCEPT ![g].closed = TRUE, ![g].last = "card_delta"] ELSE card

\* decompose_with_llm returns, having streamed its text to whoever listens.
Answer(g, answer) ==
    /\ InState(g, "model")
    /\ Streams(g) /\ answer \in Qualities => request[g].open
    /\ CompleteAttempt(g)
    /\ request' = [request EXCEPT ![g].open = FALSE, ![g].steps = answer,
          ![g].source = IF answer \in Qualities THEN "llm" ELSE "none",
          ![g].pc = IF answer = "model_none" THEN "declined" ELSE "review"]
    /\ UNCHANGED <<lineage, plans>>

\* What decompose_with_llm does not catch ends the whole call.
ModelRaises(g) ==
    /\ InState(g, "model")
    /\ CompleteAttempt(g)
    /\ request' = [request EXCEPT ![g].open = FALSE, ![g].pc = "raised"]
    /\ UNCHANGED <<lineage, plans>>

\* The streamed candidate goes through all gates at once, and has one retry,
\* which is announced: the client drops what it has shown.
Usable(g) ==
    /\ request[g].steps \in Qualities /\ ~LosesConstraint(request[g].steps)
    /\ ~IsIrrelevant(request[g].steps) /\ ~IsWorthless(request[g].steps)

\* Mutant: the client is not told to drop the first attempt.
RetryStreamUnannounced(g) ==
    /\ InState(g, "review") /\ Streams(g) /\ ~Usable(g)
    /\ request[g].attempt = 1
    /\ request' = [request EXCEPT ![g].pc = "model", ![g].attempt = 2]
    /\ UNCHANGED <<card, lineage, plans>>

RetryStream(g) ==
    /\ InState(g, "review") /\ Streams(g) /\ ~Usable(g)
    /\ request[g].attempt = 1
    /\ card' = [card EXCEPT ![g].attempts = {}, ![g].closed = FALSE,
                            ![g].last = "card_retry"]
    /\ request' = [request EXCEPT ![g].pc = "model", ![g].attempt = 2]
    /\ UNCHANGED <<lineage, plans>>

FailStream(g) ==
    /\ InState(g, "review") /\ Streams(g) /\ ~Usable(g)
    /\ request[g].attempt = 2
    /\ MovesTo(g, "invalid")
    /\ UNCHANGED <<lineage, card, plans>>

AcceptStream(g) ==
    /\ InState(g, "review") /\ Streams(g) /\ Usable(g)
    /\ MovesTo(g, "gates")
    /\ UNCHANGED <<lineage, card, plans>>

\* Without a stream: unusable text falls back to the rules, a lost constraint is
\* asked for once more, anything else is left to the gates.
ReviewAnswer(g) ==
    /\ InState(g, "review") /\ ~Streams(g)
    /\ request' = [request EXCEPT
          ![g].pc = IF request[g].steps = "unusable"
                    THEN IF request[g].attempt = 1 THEN "rule" ELSE "declined"
                    ELSE IF ~LosesConstraint(request[g].steps) THEN "gates"
                    ELSE IF request[g].attempt = 1 THEN "model" ELSE "declined",
          ![g].attempt = IF @ = 1 /\ LosesConstraint(request[g].steps) THEN 2 ELSE @]
    /\ UNCHANGED <<lineage, card, plans>>

rule_decompose(g, steps) ==
    /\ InState(g, "rule")
    /\ request' = [request EXCEPT ![g].steps = steps, ![g].source = "rule",
          ![g].pc = IF steps = "no_match" THEN "declined" ELSE "gates"]
    /\ UNCHANGED <<lineage, card, plans>>

FailsGates(g) == IsIrrelevant(request[g].steps) \/ IsWorthless(request[g].steps)

DeclineAtGates(g) ==
    /\ InState(g, "gates") /\ FailsGates(g)
    /\ Decline(g)

\* The plan is accepted: last_source, then a candidate sample, unless the steps
\* are a tool's or the library fails; a duplicate also joins the sample ids.
PassGates(g) ==
    /\ InState(g, "gates") /\ ~FailsGates(g)
    /\ lineage' = [lineage EXCEPT !.source = g]
    /\ MovesTo(g, IF request[g].source = "builtin_tool" THEN "decided" ELSE "archive")
    /\ UNCHANGED <<card, plans>>

ArchiveCandidate(g, stored, duplicate) ==
    /\ InState(g, "archive")
    /\ duplicate => stored
    /\ lineage' = [lineage EXCEPT !.candidate = IF stored THEN g ELSE @,
                                  !.samples = IF duplicate THEN g ELSE @]
    /\ MovesTo(g, "decided")
    /\ UNCHANGED <<card, plans>>

-----------------------------------------------------------------------------
(* create_plan, and the events that end a stream.                          *)

\* The decomposer's fields are copied into the plan and cleared.
_attach_decomposition_metadata(g) ==
    /\ plans' = [plans EXCEPT ![g] = lineage]
    /\ lineage' = Unlinked

create_plan(g) ==
    /\ InState(g, "decided")
    /\ _attach_decomposition_metadata(g)
    /\ MovesTo(g, "created")
    /\ UNCHANGED card

\* The DAG is refused, or the store, the legacy table or the message fails.
CreateRaises(g) ==
    /\ \/ InState(g, "decided") /\ UNCHANGED <<lineage, plans>>
       \/ InState(g, "created") /\ UNCHANGED <<lineage, plans>>
    /\ MovesTo(g, "raised")
    /\ UNCHANGED card

\* card_final and done.
PublishPlan(g) ==
    /\ InState(g, "created")
    /\ StreamEvent(g, "card_final")
    /\ MovesTo(g, "ended")
    /\ UNCHANGED <<lineage, plans>>

NotDecomposable(g) ==
    /\ InState(g, "declined")
    /\ StreamEvent(g, "not_decomposable")
    /\ MovesTo(g, "ended")
    /\ UNCHANGED <<lineage, plans>>

\* A validation error, or a failure before any fragment was shown, is an error
\* event; a failure after one degrades the card.
FailRequest(g) ==
    /\ InState(g, "invalid") \/ InState(g, "raised")
    /\ StreamEvent(g, IF InState(g, "raised") /\ card[g].had_delta
                      THEN "card_degrade" ELSE "error")
    /\ MovesTo(g, "ended")
    /\ UNCHANGED <<lineage, plans>>

DecompositionNext ==
    \E g \in Goals :
       \/ \E stream \in BOOLEAN : StartDecide(g, stream)
       \/ DeclineEarly(g) \/ UseBuiltin(g)
       \/ \E found \in BOOLEAN : RetrieveSamples(g, found)
       \/ Delta(g) \/ ModelRaises(g)
       \/ \E answer \in LlmAnswers : Answer(g, answer)
       \/ RetryStream(g) \/ FailStream(g) \/ AcceptStream(g) \/ ReviewAnswer(g)
       \/ \E steps \in RulePlans : rule_decompose(g, steps)
       \/ DeclineAtGates(g) \/ PassGates(g)
       \/ \E stored, duplicate \in BOOLEAN : ArchiveCandidate(g, stored, duplicate)
       \/ create_plan(g) \/ CreateRaises(g) \/ PublishPlan(g)
       \/ NotDecomposable(g) \/ FailRequest(g)

DecompositionSpec == DecompositionInit /\ [][DecompositionNext]_decompositionVars

-----------------------------------------------------------------------------
DecompositionTypeOK ==
    /\ request \in [Goals ->
          [pc : {"new", "route", "model", "review", "rule", "gates", "archive",
                 "decided", "created", "declined", "invalid", "raised", "ended"},
           stream : BOOLEAN, attempt : 0..2, open : BOOLEAN,
           steps : {"none", "no_match"} \cup LlmAnswers,
           source : {"none", "builtin_tool", "llm", "rule"}]]
    /\ lineage \in [source : Goals \cup {NoGoal}, samples : Goals \cup {NoGoal},
                    candidate : Goals \cup {NoGoal}]
    /\ plans \in [Goals -> [source : Goals \cup {NoGoal}, samples : Goals \cup {NoGoal},
                            candidate : Goals \cup {NoGoal}]]
    /\ card \in [Goals ->
          [attempts : SUBSET (1..2), closed : BOOLEAN, had_delta : BOOLEAN,
           last : {"none", "card_delta", "card_retry", "card_final", "not_decomposable",
                   "card_degrade", "error"}]]

\* What the client is left with is what was accepted: when card_final arrives, the
\* fragments it still shows are those of one attempt, closed, and of the very
\* attempt whose steps became the plan; a plan from a tool or a rule shows none.
FinalCardWasStreamed ==
    \A g \in Goals : card[g].last = "card_final" =>
       IF request[g].source = "llm"
       THEN card[g].attempts = {request[g].attempt} /\ card[g].closed
       ELSE card[g].attempts = {}
=============================================================================
