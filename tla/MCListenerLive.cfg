SPECIFICATION FairLSpec
CONSTANTS
    Signals = {m1}
    Sessions = {}
    Placeholder = Placeholder
    Unbound = Unbound
    ClaimLimits = {1}
    AckOutcomes = {"queued"}
    MaxAttempts = 2
    MaxOutstanding = 2
    LeaseTime = 1
    SessionTime = 1
    SignalTime = 2
    MaxGeneration = 0
    MaxTime = 3
    QueueMax = 1
    Margin = 1
    MaxFaults = 2
PROPERTIES
    EverySignalSurfaces
    QueuedBecomesObserved
CHECK_DEADLOCK FALSE
