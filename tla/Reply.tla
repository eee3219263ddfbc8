------------------------------- MODULE Reply -------------------------------
(* One reply of the local model, from the context to the row that keeps it:         *)
(* PersonaSessionCore.assemble_reply and assemble_reply_stream with the arithmetic  *)
(* audit, the L3 prompt, the L4 exit scan, the cross-turn repetition guard, and the *)
(* orchestrator that streams and stores what they release.                          *)
EXTENDS Naturals

VARIABLES
    session,     \* which guards the session has: assets, managed (L3/L4), guard
    turn,        \* the turn's input: stream, emotion, whether the guard can compare
    step,        \* where the reply stands
    cand,        \* the candidate text
    signals,     \* audit events of this turn (PersonaTurnSignals.audit_events)
    l3,          \* the L3 result that shaped the last prompt
    pending,     \* pending_audit_events holds the arithmetic warning
    first,       \* what the two guards said about the first candidate
    shown,       \* the texts the client has seen tokens of
    reply_kept   \* the assistant row: its text, status and pending warning

replyVars == <<session, turn, step, cand, signals, l3, pending, first, shown, reply_kept>>

Sessions == {s \in [assets : BOOLEAN, managed : BOOLEAN, guard : BOOLEAN] :
                s.managed => s.assets}

\* A text is what the guards can tell about it.  origin: "model", "identity" (the
\* deterministic self introduction) or "frozen" (copy of the released assets).
Text == [origin : {"model", "identity", "frozen"},
         l4 : {"direct", "observe", "retry"},
         repeats : BOOLEAN, wrong : BOOLEAN, warned : BOOLEAN]

Generated == {t \in Text : t.origin = "model" /\ ~t.warned}

Frozen == [origin |-> "frozen", l4 |-> "direct", repeats |-> FALSE,
           wrong |-> FALSE, warned |-> FALSE]

NoText == [origin |-> "none"]

NoRow == [status |-> "none"]

\* Whether an arithmetic assertion of the text, neither quoted nor negated, is wrong.
Miscalculates(t) == t.wrong

\* _append_warning changes the text the exit scan sees.
Warnings(t) == {[t EXCEPT !.warned = TRUE, !.l4 = v] : v \in {"direct", "observe", "retry"}}

Confidences == {"none", "not_a_number", "out_of_range", "below_floor", "between", "full"}

\* What resolve_l3 can tell of an emotion: a label without a usable confidence is invalid,
\* an unlisted label, or too much or too little confidence, leaves the standard intensity.
EmotionSignal(label, confidence) ==
    CASE label = "none" /\ confidence = "none" -> "none"
      [] confidence \in {"not_a_number", "out_of_range"} -> "invalid"
      [] confidence = "none" /\ label # "none" -> "invalid"
      [] label = "listed" /\ confidence = "between" -> "sensitive"
      [] OTHER -> "other"

\* An invalid emotion signal comes first, then the audit events, then the emotion.
resolve_l3(audited) ==
    CASE turn.emotion = "invalid" -> "invalid_emotion_signal"
      [] turn.emotion # "invalid" /\ audited # {} -> "low_intensity_correction"
      [] turn.emotion = "sensitive" /\ audited = {} -> "low_intensity_comfort"
      [] OTHER -> "standard_intensity"

\* The intensity of the prompt that _apply_l3 builds.
L3Result(audited) == IF session.managed THEN resolve_l3(audited) ELSE "unmanaged"

WithAuditEvent(event) == signals \cup {event}

\* Mutant: only the repetition guard holds the stream back.
BufferedForGuard == session.guard /\ session.assets

\* The stream holds every token back until the guards have seen the whole text.
Buffered == session.managed \/ (session.guard /\ session.assets)

\* decide_cross_turn_repetition; a guard that fails lets the text pass.
RepetitionVerdicts(t) ==
    IF session.guard /\ session.assets /\ turn.comparable
    THEN {"bypass", IF t.repeats THEN "retry" ELSE "direct"}
    ELSE {"bypass"}

\* The warning of the last reply is claimed once, by the next turn.
TurnSignals == IF turn.claimed THEN {"warning_appended"} ELSE {}

ReplyInit ==
    /\ session \in Sessions
    /\ turn \in [stream : BOOLEAN, comparable : BOOLEAN, claimed : BOOLEAN,
                 emotion : {EmotionSignal(label, confidence) :
                               label \in {"none", "listed", "unlisted"}, confidence \in Confidences}]
    /\ step = "context"
    /\ cand = NoText
    /\ signals = TurnSignals
    /\ l3 = L3Result(signals)
    /\ pending = FALSE
    /\ first = [l4 |-> "none", repetition |-> "bypass"]
    /\ shown = {}
    /\ reply_kept = NoRow

\* No identity question, or one whose fixed answer the exit scan stopped.
AssembleContext ==
    /\ step = "context"
    /\ step' = "generate"
    /\ UNCHANGED <<session, turn, cand, signals, l3, pending, first, shown, reply_kept>>

\* The fixed self introduction, released only when the scan lets it through.
IdentityAnswer(verdict) ==
    /\ step = "context"
    /\ session.managed => verdict = "direct"
    /\ cand' = [Frozen EXCEPT !.origin = "identity", !.l4 = verdict]
    /\ step' = "release"
    /\ UNCHANGED <<session, turn, signals, l3, pending, first, shown, reply_kept>>

Generate(t) ==
    /\ step = "generate"
    /\ cand' = t
    /\ shown' = IF turn.stream /\ ~Buffered THEN shown \cup {t} ELSE shown
    /\ step' = "arithmetic"
    /\ UNCHANGED <<session, turn, signals, l3, pending, first, reply_kept>>

\* The warning goes into the text, and its event to the signals of the next turn.
AppendWarning(t, next) ==
    /\ cand' \in Warnings(t)
    /\ signals' = WithAuditEvent("warning_appended")
    /\ pending' = TRUE
    /\ step' = next

\* audit_arithmetic_reply: a wrong assertion costs one retry.
ArithmeticHolds ==
    /\ step = "arithmetic"
    /\ ~Miscalculates(cand)
    /\ step' = "scan"
    /\ UNCHANGED <<session, turn, cand, signals, l3, pending, first, shown, reply_kept>>

ArithmeticRetry ==
    /\ step = "arithmetic"
    /\ Miscalculates(cand)
    /\ signals' = WithAuditEvent("retry_taken")
    /\ l3' = L3Result(signals')
    /\ step' = "correct"
    /\ UNCHANGED <<session, turn, cand, pending, first, shown, reply_kept>>

ArithmeticCorrected(t) ==
    /\ step = "correct"
    /\ IF Miscalculates(t)
       THEN AppendWarning(t, "scan")
       ELSE /\ cand' = t
            /\ step' = "scan"
            /\ UNCHANGED <<signals, pending>>
    /\ UNCHANGED <<session, turn, l3, first, shown, reply_kept>>

\* The retry raised or came back empty: the first text stays, with the warning.
CorrectionFails ==
    /\ step = "correct"
    /\ AppendWarning(cand, "scan")
    /\ UNCHANGED <<session, turn, l3, first, shown, reply_kept>>

\* Both guards look at the candidate; one shared retry serves the two of them.
FirstScan(repetition) ==
    /\ step = "scan"
    /\ repetition \in RepetitionVerdicts(cand)
    /\ first' = [l4 |-> IF session.managed THEN cand.l4 ELSE "none", repetition |-> repetition]
    /\ step' = IF "retry" \in {first'.l4, repetition} THEN "retry" ELSE "release"
    /\ l3' = IF step' = "retry" THEN L3Result(signals) ELSE l3
    /\ UNCHANGED <<session, turn, cand, signals, pending, shown, reply_kept>>

\* Mutant: the warning of the retried text is not recorded for the next turn.
RetryGenerateUnrecorded(t) ==
    /\ step = "retry"
    /\ IF t.wrong THEN cand' \in Warnings(t) ELSE cand' = t
    /\ step' = "rescan"
    /\ UNCHANGED <<session, turn, signals, pending, l3, first, shown, reply_kept>>

\* The retried text has no arithmetic retry of its own left.
RetryGenerate(t) ==
    /\ step = "retry"
    /\ IF Miscalculates(t)
       THEN AppendWarning(t, "rescan")
       ELSE /\ cand' = t
            /\ step' = "rescan"
            /\ UNCHANGED <<signals, pending>>
    /\ UNCHANGED <<session, turn, l3, first, shown, reply_kept>>

\* The second scan: what fails again is replaced by frozen copy.
SecondScan(repetition) ==
    /\ step = "rescan"
    /\ repetition \in IF first.repetition = "bypass" THEN {"bypass"} ELSE RepetitionVerdicts(cand)
    /\ cand' = IF (session.managed /\ cand.l4 = "retry") \/ repetition = "retry"
               THEN Frozen ELSE cand
    /\ step' = "release"
    /\ UNCHANGED <<session, turn, signals, l3, pending, first, shown, reply_kept>>

\* A scan that fails closes the exit: the synchronous path answers with frozen copy
\* and an error code, the stream raises.
ScanFails ==
    /\ session.managed
    /\ step \in {"scan", "rescan"}
    /\ IF turn.stream
       THEN step' = "raised" /\ UNCHANGED <<cand, pending>>
       ELSE step' = "fail_closed" /\ cand' = Frozen /\ pending' = FALSE
    /\ UNCHANGED <<session, turn, signals, l3, first, shown, reply_kept>>

BackendRaises ==
    /\ step \in {"generate", "retry"}
    /\ step' = "raised"
    /\ UNCHANGED <<session, turn, cand, signals, l3, pending, first, shown, reply_kept>>

\* reformat_local_reply raises on a text that is blank once its markers are stripped.
ReformatRaises ==
    /\ step = "release"
    /\ cand.origin = "model"
    /\ turn.stream /\ Buffered => cand \in shown
    /\ step' = "raised"
    /\ UNCHANGED <<session, turn, cand, signals, l3, pending, first, shown, reply_kept>>

\* _buffered_replay_chunks: tokens of the released text only.
Replay ==
    /\ step = "release"
    /\ turn.stream
    /\ Buffered \/ cand.origin = "identity"
    /\ cand \notin shown
    /\ shown' = shown \cup {cand}
    /\ UNCHANGED <<session, turn, step, cand, signals, l3, pending, first, reply_kept>>

MessageRow(text, outcome, carries) ==
    [text |-> text, status |-> outcome, pending |-> carries, polished |-> FALSE]

\* reformat_local_reply: an emotional turn may cut exclamation marks and append a fixed
\* suffix, after the scan.
Polish(message) == {message} \cup (IF turn.emotion = "none" THEN {}
                                   ELSE {[message EXCEPT !.polished = TRUE]})

Persist ==
    /\ step = "release"
    /\ turn.stream /\ (Buffered \/ cand.origin = "identity") => cand \in shown
    /\ reply_kept' \in Polish(MessageRow(cand, "completed", pending))
    /\ step' = "over"
    /\ UNCHANGED <<session, turn, cand, signals, l3, pending, first, shown>>

PersistFailClosed ==
    /\ step = "fail_closed"
    /\ reply_kept' = MessageRow(cand, "error", pending)
    /\ step' = "over"
    /\ UNCHANGED <<session, turn, cand, signals, l3, pending, first, shown>>

\* The client goes away: what it has seen is kept as a partial row.
Disconnect ==
    /\ turn.stream
    /\ step \notin {"over", "raised"}
    /\ \E t \in shown \cup {NoText} :
          /\ t = NoText <=> shown = {}
          /\ reply_kept' = IF t = NoText THEN reply_kept ELSE MessageRow(t, "partial", FALSE)
    /\ step' = "over"
    /\ UNCHANGED <<session, turn, cand, signals, l3, pending, first, shown>>

\* An exception keeps what was streamed; a managed session that showed nothing keeps
\* the fixed failure reply.
StreamError ==
    /\ step = "raised"
    /\ step' = "over"
    /\ IF ~turn.stream THEN reply_kept' = reply_kept
       ELSE IF shown # {} THEN \E t \in shown : reply_kept' = MessageRow(t, "error", FALSE)
       ELSE reply_kept' = IF session.managed THEN MessageRow(Frozen, "error", FALSE) ELSE reply_kept
    /\ UNCHANGED <<session, turn, cand, signals, l3, pending, first, shown>>

ReplyNext ==
    \/ AssembleContext
    \/ \E v \in {"direct", "observe", "retry"} : IdentityAnswer(v)
    \/ \E t \in Generated : Generate(t) \/ ArithmeticCorrected(t) \/ RetryGenerate(t)
    \/ ArithmeticHolds \/ ArithmeticRetry \/ CorrectionFails
    \/ \E r \in {"bypass", "direct", "retry"} : FirstScan(r) \/ SecondScan(r)
    \/ ScanFails \/ BackendRaises \/ ReformatRaises
    \/ Replay \/ Persist \/ PersistFailClosed \/ Disconnect \/ StreamError

ReplySpec == ReplyInit /\ [][ReplyNext]_replyVars

ReplyTypeOK ==
    /\ session \in Sessions
    /\ step \in {"context", "generate", "arithmetic", "correct", "scan", "retry", "rescan",
                 "release", "fail_closed", "raised", "over"}
    /\ cand \in Text \cup {NoText}
    /\ signals \subseteq {"warning_appended", "retry_taken"}
    /\ l3 \in {"unmanaged", "invalid_emotion_signal", "low_intensity_correction",
               "low_intensity_comfort", "standard_intensity"}
    /\ pending \in BOOLEAN
    /\ shown \subseteq Text

\* Whatever the client saw a token of, or a row keeps, in a session under L4 passed the
\* exit scan or is frozen copy, also when the stream breaks, the scan itself fails or
\* the warning was appended after the generation.  (A row may be polished after the scan.)
OnlyScannedLeaves ==
    session.managed => \A t \in shown \cup (IF reply_kept = NoRow THEN {} ELSE {reply_kept.text}) :
                           t.l4 # "retry"
=============================================================================
