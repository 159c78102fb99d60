SPECIFICATION MCFairSpec
CONSTANTS
    alice = alice
    wa = wa
    wb = wb
    A = A
    B = B
    X = X
    t1 = t1
    t2 = t2
    t3 = t3
    t4 = t4
    c1 = c1
    c2 = c2
    NoTrade = NoTrade
    NoWatch = NoWatch
    Slots = {c1, c2}
    Watches = {wa, wb}
    Users = {alice}
    UserOf <- MCUserOf
    WalletOf <- MCWalletOf
    Trades = {t1, t2, t3, t4}
    MadeBy <- MCMadeBy
    TimeOf <- MCTimeOf
    Buys = {t1, t3}
    TokenOf <- MCTokenOf
    LargeSells = {t2}
    MinWallets = 2
    Window = 1
    Ending = {wa}
    MaxFaults = 1
INVARIANTS NothingSkipped RepeatsNeedFaults
PROPERTIES TradesAreAlerted
