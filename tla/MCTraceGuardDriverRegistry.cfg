\* A second registry of the package holds an anchor of the same action.
SPECIFICATION DriverSpec
CONSTANTS
    r1 = r1
    r2 = r2
    h1 = h1
    a1 = a1
    d1 = d1
    c1 = c1
    c2 = c2
    Registries = {r1, r2}
    Hashes = {h1}
    Addresses = {a1}
    ZeroAddress = zero
    Receipts = {ok}
    NoReceipt = none
    MaxU64 = 4
    MaxTime = 2
    Expiries = {2}
    Leases = {1}
    Drivers = {d1}
    RegistryOf <- ForR1
    SignerOf <- AsA1
    Callers = {c1}
    DriverOf <- SharingD1
    NoEntry = noentry
    QueryLimit = 5
    MaxLag = 1
    MaxAhead = 0
INVARIANTS
    CacheOfOwnRegistry
CHECK_DEADLOCK FALSE
