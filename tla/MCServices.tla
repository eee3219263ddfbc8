---------------------------- MODULE MCServices ----------------------------
(* The components that share no state, in one run: Init chooses the one that   *)
(* runs, the others rest in one initial state of theirs.                       *)
EXTENDS Services, StateStore, EventLog, Algorithms, TLC

CONSTANTS p1, p2, p3

VARIABLE which     \* the component that runs

Dependencies == p1 :> {} @@ p2 :> {p1} @@ p3 :> {p1, p2}

\* The second step of the manual plan depends on the first.
ManualChain == 1 :> {} @@ 2 :> {1}

\* Two lines that say the same, one that says something else, one that is broken.
ImportedLines == <<[body |-> 1, title |-> FALSE], [body |-> 1, title |-> TRUE],
                   [body |-> 2, title |-> TRUE], BrokenLine>>
RememberedBodies == <<1, 3>>
VersionOneBodies == <<2>>

\* A read, a click that leads to another page, an input, a dangerous click, an unknown action.
RecordedSteps == <<[action |-> "read", danger |-> "none"],
                   [action |-> "click", danger |-> "none", navigates_to |-> "g2"],
                   [action |-> "input", danger |-> "soft"],
                   [action |-> "click", danger |-> "hard"],
                   [action |-> "scroll", danger |-> "none"]>>

\* -9 .. 9 has operands of one to four bits, and the two next to each power of two; 15 is
\* the longest that fits and 16 the shortest that does not.
SmallIntegers == (-9 .. 9) \cup {-16, -15, 15, 16}
SomeBytes == {{}, {0, 5, 6}, 0 .. 7}

\* Two months of unlike length; a list, a range, steps, a value that only long months have.
ScaledMonths == <<2, 3>>
CronChunk(kind, from, to, step_) == [kind |-> kind, from |-> from, to |-> to, step |-> step_]
CronTexts == {{CronChunk("star", 0, 0, 1)}, {CronChunk("star", 0, 0, 2)}, {CronChunk("value", 1, 1, 1)},
              {CronChunk("value", 3, 3, 1)}, {CronChunk("range", 1, 2, 1)},
              {CronChunk("value", 1, 1, 1), CronChunk("range", 2, 3, 1)}}

Some(S) == CHOOSE x \in S : TRUE

RestingTurn == [stream |-> FALSE, emotion |-> "none", comparable |-> FALSE, claimed |-> FALSE]

RestingTable == [i \in Legacy |-> LegacyRow(i = Some(Legacy))]

ServicesInit ==
    /\ which \in {"chat", "reply", "decomposition", "card", "samples", "state", "events",
                  "downloads", "subagent", "plugins", "tools", "schema", "personas", "settings",
                  "memory", "notes", "host", "backend", "idle_think", "skills",
                  "manual_plan", "knowledge", "ui", "algorithms", "cron",
                  "snapshots", "goals", "annotation"}
    /\ IF which = "chat" THEN TRUE ELSE privacy_mode = "ask" /\ local_available = TRUE
    /\ IF which = "reply" THEN TRUE ELSE session = Some(Sessions) /\ turn = RestingTurn
    /\ IF which = "state" THEN TRUE ELSE serialized = {}
    /\ IF which = "downloads" THEN TRUE ELSE temp = "none"
    /\ IF which = "subagent" THEN TRUE ELSE role = Some(Roles)
    /\ IF which = "tools" THEN TRUE ELSE tool = [c \in ToolCalls |-> Some(Manifests)]
    /\ IF which = "schema" THEN TRUE ELSE version = Some(OldVersions)
    /\ IF which = "personas" THEN TRUE ELSE personas = RestingTable /\ export = NoExport
    /\ IF which = "settings" THEN TRUE ELSE file = Missing
    /\ IF which = "knowledge" THEN TRUE ELSE schema_version = 0
    /\ IF which = "algorithms" THEN TRUE ELSE job_given = Some(AlgorithmJobs)
    /\ IF which = "cron" THEN TRUE
       ELSE expression = [f \in Fields |-> {CronChunk("star", 0, 0, 1)}] /\ after = 0
    /\ IF which = "snapshots" THEN TRUE ELSE persona = Some(PersonaShapes)
    /\ DesktopInit /\ ReplyInit /\ DecompositionInit /\ CardInit /\ SamplesInit /\ StateInit
    /\ EventInit /\ DownloadInit /\ SubagentInit /\ PluginInit /\ ToolsInit
    /\ SchemaInit /\ PersonasInit /\ SettingsInit /\ MemoryInit /\ NotesInit /\ HostInit
    /\ BackendInit /\ IdleInit /\ SkillsInit /\ ManualInit /\ KnowledgeInit /\ UiInit
    /\ AlgorithmInit /\ CronInit /\ SnapshotInit /\ GoalsInit /\ AnnotationInit

\* A component takes a step of its own when it is the one that runs.
ServicesNext ==
    /\ UNCHANGED which
    /\ IF which = "chat" THEN ChatNext ELSE UNCHANGED <<bindingVars, chatVars>>
    /\ IF which = "reply" THEN ReplyNext ELSE UNCHANGED replyVars
    /\ IF which = "decomposition" THEN DecompositionNext ELSE UNCHANGED decompositionVars
    /\ IF which = "card" THEN CardNext ELSE UNCHANGED cardVars
    /\ IF which = "samples" THEN SamplesNext ELSE UNCHANGED sampleVars
    /\ IF which = "state" THEN StateNext ELSE UNCHANGED stateVars
    /\ IF which = "events" THEN EventNext ELSE UNCHANGED eventVars
    /\ IF which = "downloads" THEN DownloadNext ELSE UNCHANGED downloadVars
    /\ IF which = "subagent" THEN SubagentNext ELSE UNCHANGED agentVars
    /\ IF which = "plugins" THEN PluginNext ELSE UNCHANGED pluginVars
    /\ IF which = "tools" THEN ToolsNext ELSE UNCHANGED toolVars
    /\ IF which = "schema" THEN SchemaNext ELSE UNCHANGED schemaVars
    /\ IF which = "personas" THEN PersonasNext ELSE UNCHANGED personaVars
    /\ IF which = "settings" THEN SettingsNext ELSE UNCHANGED settingsVars
    /\ IF which = "memory" THEN MemoryNext ELSE UNCHANGED memoryVars
    /\ IF which = "notes" THEN NotesNext ELSE UNCHANGED noteVars
    /\ IF which = "host" THEN HostNext ELSE UNCHANGED hostVars
    /\ IF which = "backend" THEN BackendNext ELSE UNCHANGED backendVars
    /\ IF which = "idle_think" THEN IdleNext ELSE UNCHANGED idleVars
    /\ IF which = "skills" THEN SkillsNext ELSE UNCHANGED skillVars
    /\ IF which = "manual_plan" THEN ManualNext ELSE UNCHANGED manualVars
    /\ IF which = "knowledge" THEN KnowledgeNext ELSE UNCHANGED knowledgeVars
    /\ IF which = "ui" THEN UiNext ELSE UNCHANGED uiVars
    /\ IF which = "algorithms" THEN AlgorithmNext ELSE UNCHANGED algorithmVars
    /\ IF which = "cron" THEN CronNext ELSE UNCHANGED cronVars
    /\ IF which = "snapshots" THEN SnapshotNext ELSE UNCHANGED snapshotVars
    /\ IF which = "goals" THEN GoalsNext ELSE UNCHANGED goalVars
    /\ IF which = "annotation" THEN AnnotationNext ELSE UNCHANGED annotationVars

serviceVars == <<which, bindingVars, chatVars, replyVars, decompositionVars, cardVars,
                 sampleVars, stateVars, eventVars, downloadVars, agentVars, pluginVars,
                 toolVars, schemaVars, personaVars, settingsVars, memoryVars, noteVars,
                 hostVars, backendVars, idleVars, skillVars, manualVars, knowledgeVars, uiVars,
                 algorithmVars, cronVars, snapshotVars, goalVars, annotationVars>>

ServicesSpec == ServicesInit /\ [][ServicesNext]_serviceVars

\* States are told apart by the component that runs; the others never move.
ServicesView ==
    CASE which = "chat" -> <<which, <<bindingVars, chatVars>>>>
      [] which = "reply" -> <<which, replyVars>>
      [] which = "decomposition" -> <<which, decompositionVars>>
      [] which = "card" -> <<which, cardVars>>
      [] which = "samples" -> <<which, sampleVars>>
      [] which = "state" -> <<which, stateVars>>
      [] which = "events" -> <<which, eventVars>>
      [] which = "downloads" -> <<which, downloadVars>>
      [] which = "subagent" -> <<which, agentVars>>
      [] which = "plugins" -> <<which, pluginVars>>
      [] which = "tools" -> <<which, toolVars>>
      [] which = "schema" -> <<which, schemaVars>>
      [] which = "personas" -> <<which, personaVars>>
      [] which = "settings" -> <<which, settingsVars>>
      [] which = "memory" -> <<which, memoryVars>>
      [] which = "notes" -> <<which, noteVars>>
      [] which = "host" -> <<which, hostVars>>
      [] which = "backend" -> <<which, backendVars>>
      [] which = "idle_think" -> <<which, idleVars>>
      [] which = "skills" -> <<which, skillVars>>
      [] which = "manual_plan" -> <<which, manualVars>>
      [] which = "knowledge" -> <<which, knowledgeVars>>
      [] which = "ui" -> <<which, uiVars>>
      [] which = "algorithms" -> <<which, algorithmVars>>
      [] which = "cron" -> <<which, cronVars>>
      [] which = "snapshots" -> <<which, snapshotVars>>
      [] which = "goals" -> <<which, goalVars>>
      [] which = "annotation" -> <<which, annotationVars>>

\* The component that runs keeps its types.
ServicesTypeOK ==
    /\ which = "chat" => ChatTypeOK
    /\ which = "reply" => ReplyTypeOK
    /\ which = "decomposition" => DecompositionTypeOK
    /\ which = "card" => CardTypeOK
    /\ which = "samples" => SamplesTypeOK
    /\ which = "state" => StateTypeOK
    /\ which = "events" => EventTypeOK
    /\ which = "downloads" => DownloadTypeOK
    /\ which = "subagent" => SubagentTypeOK
    /\ which = "plugins" => PluginTypeOK
    /\ which = "tools" => ToolsTypeOK
    /\ which = "schema" => SchemaTypeOK
    /\ which = "personas" => PersonasTypeOK
    /\ which = "settings" => SettingsTypeOK
    /\ which = "memory" => MemoryTypeOK
    /\ which = "notes" => NotesTypeOK
    /\ which = "host" => HostTypeOK
    /\ which = "backend" => BackendTypeOK
    /\ which = "idle_think" => IdleTypeOK
    /\ which = "skills" => SkillsTypeOK
    /\ which = "manual_plan" => ManualTypeOK
    /\ which = "knowledge" => KnowledgeTypeOK
    /\ which = "ui" => UiTypeOK
    /\ which = "algorithms" => AlgorithmTypeOK
    /\ which = "cron" => CronTypeOK
    /\ which = "snapshots" => SnapshotTypeOK
    /\ which = "goals" => GoalsTypeOK
    /\ which = "annotation" => AnnotationTypeOK

\* The computations the program does without the model agree with their definitions: the
\* four algorithm tools (core/algorithm_tools.py), the next run of a cron expression
\* (CronExpression.next_after) and the page an exported map names for the screen it was
\* drawn from (AnnotationSession.export, PageIdentifier.identify).
AlgorithmsAreRight == ToolsComputeRight /\ NextRunIsNamed /\ MapIsUsable
=============================================================================
