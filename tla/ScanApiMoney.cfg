SPECIFICATION ApiFairSpec
CONSTANTS
    alice = alice
    bob = bob
    o1 = o1
    o2 = o2
    o3 = o3
    o4 = o4
    p1 = p1
    p2 = p2
    small = small
    command = command
    NoAccount = NoAccount
    NoMovement = NoMovement
    NoRequest = NoRequest
    Users = {alice}
    Ops = {o1, o2}
    OpUser <- MCOpUser
    Payments = {p1}
    PayerOf <- MCPayerOf
    PackOf <- MCPackOf
    Packs = {small, command}
    PackPrice <- MCPackPrice
    PackBonus <- MCPackBonus
    TierPacks = {command}
    PaidAmounts = {1, 2}
    FreeScanGrant = 1
    Price = 2
    Admins = {}
    DailyCap = 1
    MaxInFlight = 2
    MaxDay = 0
    PromoAtStart = TRUE
    Throws = {"check", "reserve", "persist"}
    LostAcks = {"reserve", "persist"}
    MaxRestarts = 0
INVARIANTS ResultIsPaid FreeQuotaOnce
PROPERTIES KeepsPromise
CHECK_DEADLOCK FALSE
