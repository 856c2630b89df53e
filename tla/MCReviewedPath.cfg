\* One reviewed action beside another, one executor.
SPECIFICATION PathSpec
CONSTANTS
    h1 = h1
    h2 = h2
    x1 = x1
    a1 = a1
    Hashes = {h1, h2}
    Reviewed = h1
    Addresses = {a1}
    ZeroAddress = zero
    NoAddress = none
    Anonymous = anonymous
    NoTrace = notrace
    NoHash = nohash
    Executors = {x1}
    NoAction = noaction
    NoEvent = noevent
    MaxTime = 1
    Expiries = {1}
    Leases = {1}
    MaxGrants = 1
    MaxEvents = 4

    None = None
    Unknown = Unknown
    Padded = Padded
    Rules <- PathRules
    Policies <- PathPolicies
    Times = {0, 1, 2}
    Ptbs <- PathPtbs
    Manifests <- PathManifests
    Plans <- PathPlans
    AddressOf <- MCAddressOf
    MaxU64 = 3
    Targets <- PathTargets
    Entries <- PathEntries
    Simulators = {"local"}
    Slippages = {None}
    PlanExpires = 1
    MaxChanges = 1
INVARIANTS
    ExecutedWithinPolicy
CHECK_DEADLOCK FALSE
