SPECIFICATION ScanSpec
CONSTANTS
    a1 = a1
    a2 = a2
    x1 = x1
    b1 = b1
    ra = ra
    rb = rb
    e1 = e1
    alice = alice
    bob = bob
    NoRequest = NoRequest
    Calls <- MCCalls
    Requests = {ra, rb}
    Entitlements = {e1}
    Users = {alice, bob}
    RequestOf <- MCRequestOf
    EntitlementOf <- MCEntitlementOf
    UserOf <- MCUserOf
    OwnerOf <- MCOwnerOf
    Throws = {"getExecution", "reserve", "mark", "acquire", "persist", "fail"}
    LostAcks = {"reserve", "mark", "persist", "fail"}
    MaxRestarts = 1
INVARIANTS OneHolder AtMostOneResult NewResultOnRecord
CHECK_DEADLOCK FALSE
