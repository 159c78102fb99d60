SPECIFICATION ApiSpec
CONSTANTS
    alice = alice
    bob = bob
    o1 = o1
    o2 = o2
    o3 = o3
    o4 = o4
    p1 = p1
    p2 = p2
    small = small
    command = command
    NoAccount = NoAccount
    NoMovement = NoMovement
    NoRequest = NoRequest
    Users = {alice}
    Ops = {o1, o2, o3}
    OpUser <- MCOpUser
    Payments = {}
    PayerOf <- MCPayerOf
    PackOf <- MCPackOf
    Packs = {small, command}
    PackPrice <- MCPackPrice
    PackBonus <- MCPackBonus
    TierPacks = {command}
    PaidAmounts = {1, 2}
    FreeScanGrant = 3
    Price = 2
    Admins = {}
    DailyCap = 1
    MaxInFlight = 2
    MaxDay = 1
    PromoAtStart = FALSE
    Throws = {"check", "issue", "getExecution", "reserve", "mark", "acquire", "persist", "fail", "record"}
    LostAcks = {"issue", "reserve", "mark", "persist", "fail", "record"}
    MaxRestarts = 1
INVARIANTS CapOvershoot
CHECK_DEADLOCK FALSE
