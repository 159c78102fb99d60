SPECIFICATION Spec
CONSTANTS
    c1 = c1
    c2 = c2
    Callers = {c1, c2}
    MaxAttempts = 3
    BaseDelay = 1
    MaxDelay = 2
    Timeout = 3
    InnerLimit = 5
    FailureThreshold = 3
    Cooldown = 3
    ResetIn = 3
    Second = 3
    Burst = 2
    PerSecond = 2
    IdleFor = 3
    Capacity = 3
    Rate = 2
    Weights = {1, 2, 3}
    MaxTicks = 8
    MaxSetbacks = 2
    MaxQueue = 3
    None = None
    t1 = t1
    t2 = t2
    Token = t1
    Klines <- MCKlines
    Rankings <- MCRankings
    Tracks <- MCTracks
    Step = 10
    Duration = 30
    Checkpoint = 15
    Bucket = 10
    MaxClock = 30
INVARIANTS ProcessesBounded BucketsBound PlanIsEarliest
INVARIANTS EndedStaysEnded NewOnce RecordKeepsUp DangerNeedsEvidence
PROPERTIES CooldownKept RunsEnd SessionEnds
CHECK_DEADLOCK FALSE
