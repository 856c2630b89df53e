\* The audit of a session against the reference definition of evidence.
SPECIFICATION VerifySpec
CONSTANTS
    t1 = t1
    t2 = t2
    h1 = h1
    Traces = {t1, t2}
    NoTrace = none
    Hashes = {h1}
    NoHash = nohash
    MaxEvents = 5
    MaxFaults = 1
INVARIANTS
    VerifyTypeOK
    ReportsExactly
    AcceptedHasEvidence
SYMMETRY Symmetries
CHECK_DEADLOCK FALSE
