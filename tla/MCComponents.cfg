SPECIFICATION ComponentsSpec
CONSTANTS
    g1 = g1
    agent = agent
    other = other
    user = user
    loop = loop
    Groups = {g1}
    Actor = agent
    Stranger = other
    StrangerGroup = g1
    Kinds <- WithoutRevocations
    EventPageSize = 1
    MaxPagesPerEventType = 2
    Callers = {user}
    Loop = loop
    MaxEmitted = 3
    MaxFaults = 1

    s1 = s1
    s2 = s2
    junk = junk
    nobody = nobody
    reader = reader
    subscriber = subscriber
    Sessions = {s1, s2}
    NoEnvelope = junk
    NoSession = nobody
    Readers = {reader}
    Subscribers = {subscriber}
    PageSize = 1
    MaxPages = 3
    StreamLimit = 2
    MaxMessages = 4

    c1 = c1
    c2 = c2
    Senders = {c1, c2}
    MaxSent = 3
    MaxSubscribers = 2

    Providers = {"walrus", "local"}
    OwnEvents = 3
    ReadAttempts = 2
    MaxPolls = 2
    MaxOthers = 2

    h1 = h1
    h2 = h2
    a1 = a1
    a2 = a2
    Hashes = {h1, h2}
    Addresses = {a1, a2}
    ZeroAddress = zero
    NoAddress = none
    Anonymous = anonymous
    MaxTime = 3
    Expiries = {0, 2, 3}
    Leases = {0, 1, 2}

    None = None
    Unknown = Unknown
    Padded = Padded
    Rules <- MCRules
    Policies <- MCPolicies
    Times = {1, 2}
    Ptbs <- MCPtbs
    Manifests <- MCManifests
    Plans <- MCPlans
    AddressOf <- MCAddressOf
    MaxU64 = 3
    Targets <- MCTargets
    Entries <- MCEntries
    Simulators = {"local", "devInspect"}
    Slippages <- MCSlippages
    PlanExpires = 2
    MaxChanges = 1
INVARIANTS
    ComponentsTypeOK
    ToldOnce
    NothingSkipped
    KnowsMembership
    ListIsPrefix
    GivenInOrder
    FirstSeesStoredOrder
    OverMeansGiven
    AuditHasArchive
    ApprovedByRules
    RejectionStands
    ApprovedWithinLimits
    DangerReviewed
    PlansAccepted
    OnlyExecutorHolds
PROPERTIES
    LoopTells
    MessagesArrive
    RunEnds
    ImplementsLock
CHECK_DEADLOCK FALSE
