SPECIFICATION LegacySpec
CONSTANTS
    Signals = {m1, m2}
    Sessions = {}
    Placeholder = Placeholder
    Unbound = Unbound
    ClaimLimits = {1, 2}
    AckOutcomes = {"replied", "observed", "failed", "expired", "queued"}
    MaxAttempts = 2
    MaxOutstanding = 2
    LeaseTime = 1
    SessionTime = 1
    SignalTime = 3
    MaxGeneration = 3
    MaxTime = 5
PROPERTY
    EveryDeliveryEnds
CHECK_DEADLOCK FALSE
