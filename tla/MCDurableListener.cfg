SPECIFICATION LSpec
CONSTANTS
    Signals = {m1, m2}
    Sessions = {}
    Placeholder = Placeholder
    Unbound = Unbound
    ClaimLimits = {1}
    AckOutcomes = {"queued"}
    MaxAttempts = 2
    MaxOutstanding = 2
    LeaseTime = 2
    SessionTime = 1
    SignalTime = 3
    MaxGeneration = 0
    MaxTime = 5
    QueueMax = 1
    Margin = 1
    MaxFaults = 2
INVARIANTS
    QueuedIsKept
    ObservedWasPrinted
    LiveLeaseIsJournalled
    RuntimeKeepsGoing
SYMMETRY SignalSymmetry
CHECK_DEADLOCK FALSE
