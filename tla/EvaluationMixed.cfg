SPECIFICATION MonitorSpec
CONSTANTS
    None = None
    t1 = t1
    t2 = t2
    Token = t1
    Klines <- MCKlines
    Rankings <- MCRankings
    Tracks <- MCTracks
    Step = 10
    Duration = 30
    Checkpoint = 15
    Bucket = 10
    MaxClock = 30
INVARIANT OneTokenOnly
CHECK_DEADLOCK FALSE
