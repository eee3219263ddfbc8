CONSTANTS
    p1 = p1
    p2 = p2
    p3 = p3
    PersonaChoices = {p1}
    SwitchRequests = {q1}
    MaxSessions = 3
    Turns = {c1}
    ConsentPosts = {c2}
    MaxRestarts = 1
    Goals = {g1}
    NoGoal = NoGoal
    MaxDepth = 4
    MaxItems = 1
    MaxArrays = 2
    SampleIds = {i1}
    verified_limit = 1
    StaleAfter = 1
    GreenPlans = 1
    Keys = {k1}
    Values = {v1}
    Absent = Absent
    StateThreads = {h1, h2}
    MaxVersion = 2
    ConflictRetries = 1
    Appenders = {a1, a2}
    Ids = {e1, e2, e3, e4}
    NoEvent = NoEvent
    Requests = {r1, r2}
    Sources = 2
    DownloadRetries = 2
    MaxJobs = 2
    AllowedFiles = {f1}
    OtherFiles = {f2}
    MaxLlmCalls = 2
    MaxToolCalls = 2
    Plugins = {p1, p2, p3}
    Requires <- Dependencies
    MaxEffects = 2
    ToolCalls = {c1, c2}
    Answers = {n1, n2}
    NoCall = NoCall
    Openers = {o1, o2}
    OldVersions = {5, 12}
    MaxCrashes = 1
    Legacy = {l1}
    Presets = {b1}
    Created = {n1}
    NoExport = NoExport
    Foreign = {fx}
    NoStateRow = NoStateRow
    MaxStarts = 3
    Writers = {t1, t2}
    NoWriter = NoWriter
    Missing = Missing
    Damaged = Damaged
    max_backups = 2
    MaxChanges = 3
    MaxFaults = 2
    Editors = {u1, u2}
    NULL = NULL
    MaxEvents = 3
    EventContents = {1, 2}
    EXTRACTION_INTERVAL = 2
    MaxTurns = 2
    MaxExtracted = 1
    MaxEpisodes = 2
    NoteThreads = {t1}
    Cli = cli
    NoteBodies = {b1, b2}
    DraftIds = {d1}
    Nothing = Nothing
    MaxNotes = 2
    MaxNoteCalls = 4
    MaxRuns = 3
    MaxTogether = 2
    LastLogTime = 3
    Generators = {g1}
    Activators = {x1, x2}
    DownloadActivators = {x2}
    NoBackend = NoBackend
    MaxBackends = 3
    Loops = {d1}
    MaxIdlePlans = 2
    max_steps_per_idle = 2
    NoPlan = NoPlan
    MaxIdleRestarts = 1
    ExtensionRequests = {t1}
    SkillCallers = {k1, k2}
    NoDir = NoDir
    MaxHostStarts = 1
    ManualSteps = {1, 2}
    ManualDeps <- ManualChain
    NeedsAuth = {2}
    PlanRequests = {r1, r2}
    NoManualPlan = NoManualPlan
    MaxManualCalls = 4
    KnowledgeFile <- ImportedLines
    BrokenLine = BrokenLine
    Memories <- RememberedBodies
    OldChunks <- VersionOneBodies
    final_limit = 2
    MaxHits = 2
    MaxChunks = 3
    MaxSearches = 2
    MaxKnowledgeDeaths = 1
    PageIds = {"g1", "g2"}
    UiSteps <- RecordedSteps
    Positions = {1, 2}
    NoPosition = NoPosition
    MaxScreenChanges = 2
    MaxSequences = 2
    TraitValues = {33, 34, 67}
    Numbers <- SmallIntegers
    MaxBits = 4
    Bytes <- SomeBytes
    MaxBytes = 2
    MaxList = 4
    HourMinutes = 3
    DayHours = 2
    MonthDays <- ScaledMonths
    WeekDays = 3
    FieldTexts <- CronTexts
    Moments = {0, 11, 25}
    GoalIds = {1}
    CooldownHours = 1
    ReminderCap = 2
    DayLength = 3
    WeekLength = 4
    UrgentHours = 3
    WarnHours = 4
    StaleHours = 4
    GlobalCap = 2
    Deadlines = {5}
    LastHour = 5
    MaxGoalCalls = 3
    AnnotatedPages = {1, 2}
    ElementIds = {1}
    Words = {1, 2}
    NoMap = NoMap
    MaxAnnotations = 3
SPECIFICATION ServicesSpec
VIEW ServicesView
CHECK_DEADLOCK FALSE
INVARIANTS
    ServicesTypeOK
    SwitchesAreSafe
    RefusedStaysLocal
    OnlyScannedLeaves
    
    InstalledIsVerified
    
    
    
    MigrationsAreSafe
    MemoryIsKept
    CrashIsOffered
    CurrentIsNotRetired
    
    
    CardShowsThePlan
    KnowledgeIsFound
    AlgorithmsAreRight
PROPERTIES
    AutomationSawNoVerdict
    
    ImplementsRegister
    ImplementsDurableLog
