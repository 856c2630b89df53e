\* The Move contract: leases, completions and the event log.
SPECIFICATION Spec
CONSTANTS
    r1 = r1
    r2 = r2
    h1 = h1
    a1 = a1
    a2 = a2
    Registries = {r1, r2}
    Hashes = {h1}
    Addresses = {a1, a2}
    ZeroAddress = zero
    Receipts = {ok}
    NoReceipt = none
    MaxU64 = 2
    MaxTime = 2
    Expiries = {2}
    Leases = {0, 1, 2}
INVARIANTS
    TypeOK
    LeaseExclusive
    CompletionUnderLease
    WithinAnchoredTerms
    TableMatchesLog
PROPERTIES
    ImplementsLock
SYMMETRY Symmetries
CHECK_DEADLOCK FALSE
