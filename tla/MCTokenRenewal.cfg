\* Two copies of the credential, each with its own state directory; requests
\* may be executed after their senders gave up.  A revoked lineage may stop.
SPECIFICATION Spec
CONSTANTS
    Procs = {a, b}
    MaxTokens = 3
    MaxCommands = 3
    MaxSuccessors = 1
    MaxAging = 2
    MaxFaults = 1
    Kinds = {"standing", "timeboxed"}
    Modes = {"copies"}
INVARIANTS
    OverlapIsBounded
    BudgetIsExact
    FenceAgrees
    RevocationReachesAll
CHECK_DEADLOCK FALSE
