SPECIFICATION Spec
CONSTANTS
    m1 = m1
    m2 = m2
    r1 = r1
    r2 = r2
    t1 = t1
    NoMint = NoMint
    Slots = {r1, r2}
    Mints = {m1, m2}
    Held = {m1}
    Transferable = {m1, m2}
    Fans = {fan}
    MaxReceipts = 2
    Window = 1
    MaxFaults = 1
    Nobody = Nobody
    Requests = {r1, r2}
    Chains = 2
    TTL = 3
    IntelTTL = 2
    MaxBurst = 2
    MaxClock = 5
    MaxCrashes = 1
    Trending <- MCTrending
    Batch = 2
    Intervals = {1, 2, 3, 4}
    Traders = {t1}
    Rows <- MCRows
    Day = 4
    Dollar = 3
    ScanLimit = 3
    FloorCost = 3
    FloorProfit = 3
    Trusted = 2
    RepeatMin = 2
    MaxTicks = 4
    Unknown = Unknown
    News <- MCNews
    Sightings <- MCSightings
    Decisions <- MCDecisions
    Unsealed = Unsealed
    Threshold = 5
    Today = 2
    MaxArrivals = 4
    NotKnown = NotKnown
    Entries <- MCEntries
    Records <- MCRecords
    MinCluster = 2
    FundingTight = 1
    EntryTight = 1
    Large = 3
    MaxEntries = 5
    Profiles <- MCProfiles
    HolderCounts = {0, 100}
SYMMETRY Symmetry
INVARIANTS OncePerTransfer NoneForgotten AnswersHonest DatasetSound
PROPERTIES BurstsSpaced BadNewsNeverHelps PastStands MoreNeverUnlinks
CHECK_DEADLOCK FALSE
