\* Two processes sharing a state directory; every token the bounds on aging
\* and faults can lead to exists, so no renewal waits for a token.
SPECIFICATION Spec
CONSTANTS
    Procs = {a, b}
    MaxTokens = 4
    MaxCommands = 6
    MaxSuccessors = 2
    MaxAging = 2
    MaxFaults = 1
    Kinds = {"standing"}
    Modes = {"shared"}
INVARIANTS
    NeverLockedOut
PROPERTY
    DueIsRenewed
CHECK_DEADLOCK FALSE
