\* One action, two executors that race, retry, crash and come late.
SPECIFICATION HeavySpec
CONSTANTS
    h1 = h1
    h2 = h2
    x1 = x1
    x2 = x2
    a1 = a1
    Hashes = {h1}
    Addresses = {a1}
    ZeroAddress = zero
    NoAddress = none
    Anonymous = anonymous
    NoTrace = notrace
    NoHash = nohash
    Executors = {x1, x2}
    NoAction = noaction
    NoEvent = noevent
    MaxTime = 2
    Expiries = {2}
    Leases = {1}
    MaxGrants = 2
    MaxEvents = 4
INVARIANTS
    HeavyTypeOK
    GrantClosedOnce
    OverlapOnlyAfterLapse
    ReceiptRestsOnClaim
    OnlyAnchorsGoMissing
PROPERTIES
    CallsEnd
CHECK_DEADLOCK FALSE
