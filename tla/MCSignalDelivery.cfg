SPECIFICATION Spec
CONSTANTS
    Signals = {m1, m2}
    Sessions = {s1, s2}
    Placeholder = Placeholder
    Unbound = Unbound
    ClaimLimits = {1}
    AckOutcomes = {"replied", "expired", "queued"}
    MaxAttempts = 2
    MaxOutstanding = 2
    LeaseTime = 2
    SessionTime = 1
    SignalTime = 3
    MaxGeneration = 3
    MaxTime = 5
INVARIANTS
    TypeOK
    AckNamesNewestLease
    OpenRowsFollowHolder
    LiveLeaseIsFenced
PROPERTIES
    DecidedStays
    NeverGivenUpUnderLease
SYMMETRY DeliverySymmetry
CHECK_DEADLOCK FALSE
