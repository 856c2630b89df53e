\* One action on one registry: the promise that it is executed once.
SPECIFICATION Spec
CONSTANTS
    r1 = r1
    r2 = r2
    h1 = h1
    a1 = a1
    a2 = a2
    Registries = {r1}
    Hashes = {h1}
    Addresses = {a1, a2}
    ZeroAddress = zero
    Receipts = {ok}
    NoReceipt = none
    MaxU64 = 6
    MaxTime = 6
    Expiries = {4, 6}
    Leases = {1, 2}
INVARIANTS
    ExecutedAtMostOnce
SYMMETRY Symmetries
CHECK_DEADLOCK FALSE
