CONSTANTS
    s1 = s1
    s2 = s2
    s3 = s3
    NoStep = NoStep
    Steps = {s1, s2, s3}
    Pos <- PosInOrder
    Deps <- JoinDeps
    Consent = {}
    FailFast = {s1}
    Degradable = {}
    Conditional = {}
    RetryMax <- NoRetries
    StageOf <- TwoStages
    NStages = 2
    FallbackLen = 0
    Workers = {w1}
    Callers = {"stream", "idle", "resume"}
SPECIFICATION Spec
INVARIANTS
    NoOrphanedStep
