SPECIFICATION Spec
CONSTANTS
    alice = alice
    bob = bob
    p1 = p1
    p2 = p2
    small = small
    command = command
    PRO = PRO
    FREE = FREE
    NoAccount = NoAccount
    NoMovement = NoMovement
    Users = {alice, bob}
    Ops = {1, 2, 3}
    Payments = {p1, p2}
    FreeScanGrant = 1
    PayerOf <- MCPayerOf
    PackOf <- MCPackOf
    Packs = {small, command}
    PackPrice <- MCPackPrice
    PackBonus <- MCPackBonus
    TierPacks = {command}
    Price = 1
    PaidAmounts = {1, 2, 3}
    Handlers = {h1, h2}
    Wallets = {w1, w2}
    Watchers = {alice, bob}
    AdminUsers = {}
    Plans = {FREE, PRO}
    PlanCost <- MCPlanCost
    MaxWallets <- MCMaxWallets
    Month = 1
    FreeUntil = 1
    MaxTime = 2
    MaxBuys = 3
    People = {alice, bob, carol}
    NoOne = NoOne
    Rewarders = {q1, q2}
    InvitesPerReward = 2
    Tables = {"users", "tokens", "pricing", "engineVersions", "payments", "paymentEvents",
              "entitlements", "usage", "requests", "executions", "monitors", "snapshots",
              "evidence", "events", "transitions", "observations", "alerts"}
    Ids = {i1, i2}
    Writers = {h1, h2}
    Bodies = {Null, b1}
    Null = Null
    NoRow = NoRow
    MaxWrites = 3
SYMMETRY Symmetry
INVARIANTS SettledIsCredited BooksBalance PlanIsPaid RewardsHonest
PROPERTIES AccountsMoveByTheBook QuotaHolds RepeatsConverge
CHECK_DEADLOCK FALSE
