\* Two principals, one grant; epochs, versions and clock deep enough for an
\* expiry, a takeover, a reopen and a second submission in one behaviour.
CONSTANTS
    Principals = {p1, p2}
    Nobody = Nobody
    Heads = {h1}
    GrantIds = {g1}
    NoGrant = NoGrant
    Ttls = {0, 2}
    MaxEpoch = 3
    MaxVersion = 2
    MaxTime = 2
SYMMETRY PrincipalSymmetry
SPECIFICATION Spec
INVARIANTS
    TypeOK
    EpochNamesOneOwner
    OpenRowIsTheLease
    SubmissionMatchesLifecycle
PROPERTIES
    LiveLeaseMovesByLeave
    ImplementsFencedAuthority
CHECK_DEADLOCK FALSE
