\* Facts that were never simulated under a policy.
SPECIFICATION ReviewSpec
CONSTANTS
    None = None
    Unknown = Unknown
    Padded = Padded
    Rules <- MCRules
    Policies <- MCPolicies
    Times = {1, 2}
    Ptbs <- MCPtbs
    Manifests <- MCManifests
    Plans <- MCPlans
    AddressOf <- MCAddressOf
    MaxU64 = 3
    Targets <- MCTargets
    Entries <- MCEntries
    Simulators = {"local", "devInspect"}
    Slippages <- MCSlippages
    PlanExpires = 2
    MaxChanges = 1
INVARIANTS
    ApprovedOnlySimulated
CHECK_DEADLOCK FALSE
