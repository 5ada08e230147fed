\* An agent with a home and a workspace it can be a guest of, owned by somebody
\* who can be removed from either; closed workspaces and used-up ids may stop.
SPECIFICATION Spec
CONSTANTS
    Users = {u1, u2}
    Strangers = {elsewhere}
    Workspaces = {w1, w2}
    Joinable = {w1}
    Agents = {a1}
    Invitations = {i1}
    Nobody = Nobody
    Ttls = {1}
    MaxTime = 2
INVARIANTS
    LeadIsAlive
    RightsFollowMembership
PROPERTIES
    AccessNeedsApproval
SYMMETRY PeopleSymmetry
CHECK_DEADLOCK FALSE
