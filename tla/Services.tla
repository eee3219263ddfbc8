------------------------------ MODULE Services ------------------------------
(* The services beside the engine, side by side, and what they promise together. *)
(* They share no state.                                                          *)
EXTENDS Chat, Reply, Decomposition, CardStream, Samples, Downloads, Subagents, Plugins, Tools,
        Schema, Personas, Settings, Memory, Notes, Host, Backend, IdleThink, Skills, ManualPlan,
        Knowledge, UiAutomation, Snapshots, GoalReminders

\* A persona switch makes one session per request, moves no turn between sessions
\* (session_binding.switch_persona, http_host's chat handler under its turn lock), and the
\* session is bound to the persona it was made for, or to none, at every later start
\* (validate_persona_snapshot).
SwitchesAreSafe == OneSessionPerRequest /\ TurnStaysInSession /\ SnapshotKeepsPersona

\* A streamed plan card is what its fragments said: the final card of a decomposition is
\* the one whose steps were announced (plan_decomposer.decompose_stream and its retry), and
\* the bracket scan that names a closed card agrees with the parser that repairs the
\* unfinished text (streaming_card_parser.parse_partial_card).
CardsAreFaithful == FinalCardWasStreamed /\ ScanAgreesWithParser

\* No interleaving or crash spoils what is remembered: what replaces an event is stored and
\* is searched by what it says (event_extractor.extract, event_repository.update_fields),
\* and a draft the user confirmed has become a memory (draft_repo.confirm_draft).
MemoryIsKept == EventsStayUsable /\ ConfirmedIsKept

\* An old database is migrated whatever dies on the way and whatever else runs: starting
\* again finds every table and column (engine._init_v3 .. _init_v15), and the hand-written
\* traits are kept while the levels follow the vectors (complete_persona_level_migration).
MigrationsAreSafe == MigrationHeals /\ MigrationIsSafe

\* What the user interrupts stops: a subagent starts no further tool
\* (SubagentScheduler._execute_tool_call), a UI sequence ends after the step under way and
\* clicks only where it looked (UIAutomationSession.stop, PageLocator.locate).
InterruptsStop == InterruptStopsTools /\ UiStopsAndLooks

\* The program's own initiative bothers nobody: an idle round gives way to the user
\* (IdleThinkCoordinator), reminders keep their distance and their number, and a goal the
\* user closed is not raised again (GoalEvaluator, GoalRepository).
InitiativeIsPolite == IdleThinkGivesWay /\ RemindersAreSpaced /\ ClosedGoalsRest
=============================================================================
