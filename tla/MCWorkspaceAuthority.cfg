\* One workspace, three people, two invitations, no agents: every order of
\* inviting, routing, accepting, joining, removing and re-creating.
SPECIFICATION Spec
CONSTANTS
    Users = {u1, u2, u3}
    Strangers = {}
    Workspaces = {w1}
    Joinable = {w1}
    Agents = {}
    Invitations = {i1, i2}
    Nobody = Nobody
    Ttls = {1}
    MaxTime = 2
INVARIANTS
    OwnerRemains
PROPERTIES
    JoinSpendsInvitation
    RemovalSticks
    ConsentIsRenewed
    JoinsReviewedAudience
SYMMETRY PeopleSymmetry
CHECK_DEADLOCK FALSE
