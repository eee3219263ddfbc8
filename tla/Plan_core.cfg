CONSTANTS
    s1 = s1
    s2 = s2
    s3 = s3
    NoStep = NoStep
    Steps = {s1, s2, s3}
    Pos <- PosInOrder
    Deps <- JoinDeps
    Consent = {s2}
    FailFast = {s1}
    Degradable = {s2}
    Conditional = {s3}
    RetryMax <- TwoAttempts
    StageOf <- NoStages
    NStages = 0
    FallbackLen = 2
    Workers = {w1}
    Callers = {"stream", "idle", "resume", "manual"}
SPECIFICATION FairSpec
INVARIANTS
    TypeOK
    RunsAfterDependencies
    RunsOnlyGranted
    ReportsAreTrue
    ConsentPauseIsComplete
    AnnouncedIsPersisted
PROPERTIES
    TurnEnds
