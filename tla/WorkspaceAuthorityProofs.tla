---------------------- MODULE WorkspaceAuthorityProofs ----------------------
(***************************************************************************)
(* Proofs about WorkspaceAuthority: every property its runs check, for any *)
(* sets of people, workspaces, agents and invitations.                     *)
(*                                                                         *)
(* A variable is changed by few commands.  The lemmas ...Steps say by      *)
(* which, once for every group of variables; the proofs that follow look   *)
(* at those commands only.                                                 *)
(***************************************************************************)
EXTENDS WorkspaceAuthority, FiniteSetTheorems, TLAPS

-----------------------------------------------------------------------------
(* The inductive invariant. *)

\* A workspace nobody created has no members, past or present, no household
\* and no invitations.
NothingUncreated ==
    /\ \A w \in Workspaces : creator[w] = Nobody =>
          /\ boundary[w] = "none"
          /\ \A u \in Users : ~Live(w, u) /\ gone[w][u] = 0
    /\ \A i \in Invitations :
          inv[i] # NoInvitation => creator[inv[i].ws] # Nobody

\* Only agents that were created have a seat or had one.
SeatsAreOfAgents ==
    \A a \in Agents, w \in Workspaces :
        seat[a][w] # "none" => agent[a] # NoPrincipal

\* What a live approval rests on: the owner's consent, a household that is
\* shared or the owner's own, and the agent's seat.  It outlives the seat only
\* when the agent is revoked, which is for good.
ApprovalsRest ==
    \A a \in Agents, w \in Workspaces : conn[a][w] = "live" =>
        /\ agent[a] # NoPrincipal
        /\ content[w][agent[a].owner] = "live"
        /\ boundary[w] \in {"shared", agent[a].owner}
        /\ seat[a][w] = "live" \/ agent[a].revoked

Inv ==
    /\ TypeOK
    /\ NothingUncreated
    /\ OwnerRemains
    /\ SeatsAreOfAgents
    /\ LeadIsAlive
    /\ RightsFollowMembership
    /\ ApprovalsRest

-----------------------------------------------------------------------------
(* Which commands change what. *)

LEMMA PeopleSteps ==
    ASSUME [Next]_vars
    PROVE  \/ UNCHANGED people
           \/ \E w \in Workspaces, u \in Users :
                \/ CreateWorkspace(w, u)
                \/ \E v \in Users : RemoveMember(w, u, v)
                \/ \E v \in Users, r \in Roles : ChangeRole(w, u, v, r)
           \/ \E u \in Users, i \in Invitations :
                AcceptInvitation(u, i) \/ JoinHousehold(u, i)
<1>1. UNCHANGED vars \/ Tick => UNCHANGED people
  BY DEF vars, people, Tick
<1>2. ASSUME NEW w, NEW u,
             RenameWorkspace(w, u) \/ ArchiveWorkspace(w, u)
      PROVE  UNCHANGED people
  BY <1>2 DEF RenameWorkspace, ArchiveWorkspace
<1>3. ASSUME NEW w, NEW u, NEW i, NEW e, NEW t,
             RevokeInvitation(w, u, i) \/ InviteMember(w, u, i, e, t)
      PROVE  UNCHANGED people
  BY <1>3 DEF RevokeInvitation, InviteMember
<1>4. ASSUME NEW w, NEW u, NEW p, NEW a,
             \/ CreateAgent(w, u, a) \/ RevokeAgent(w, u, a)
             \/ AddAgent(w, u, a) \/ RemoveAgent(w, u, a)
             \/ SetLead(w, u, a) \/ Approve(w, u, a) \/ Withdraw(w, u, a)
             \/ Provision(w, u, p, a)
      PROVE  UNCHANGED people
  BY <1>4 DEF CreateAgent, RevokeAgent, AddAgent, RemoveAgent, SetLead,
              Approve, Withdraw, Provision
<1>5. ASSUME NEW u, NEW i, RouteInvitation(u, i) \/ Preview(u, i)
      PROVE  UNCHANGED people
  BY <1>5 DEF RouteInvitation, Preview
<1>6. CASE Next
  BY <1>1, <1>2, <1>3, <1>4, <1>5, <1>6 DEF Next
<1> QED
  BY <1>1, <1>6

LEMMA InvitationSteps ==
    ASSUME [Next]_vars
    PROVE  \/ UNCHANGED inv
           \/ \E w \in Workspaces, u \in Users :
                \/ \E v \in Users : RemoveMember(w, u, v)
                \/ \E i \in Invitations : RevokeInvitation(w, u, i)
           \/ \E w \in Workspaces, u \in Users, i \in Invitations,
                 e \in Users \cup Strangers, t \in Ttls :
                InviteMember(w, u, i, e, t)
           \/ \E u \in Users, i \in Invitations :
                AcceptInvitation(u, i) \/ JoinHousehold(u, i)
<1>1. UNCHANGED vars \/ Tick => UNCHANGED inv
  BY DEF vars, Tick
<1>2. ASSUME NEW w, NEW u, NEW v, NEW r,
             \/ CreateWorkspace(w, u) \/ RenameWorkspace(w, u)
             \/ ArchiveWorkspace(w, u) \/ ChangeRole(w, u, v, r)
      PROVE  UNCHANGED inv
  BY <1>2 DEF CreateWorkspace, RenameWorkspace, ArchiveWorkspace, ChangeRole
<1>3. ASSUME NEW w, NEW u, NEW p, NEW a,
             \/ CreateAgent(w, u, a) \/ RevokeAgent(w, u, a)
             \/ AddAgent(w, u, a) \/ RemoveAgent(w, u, a)
             \/ SetLead(w, u, a) \/ Approve(w, u, a) \/ Withdraw(w, u, a)
             \/ Provision(w, u, p, a)
      PROVE  UNCHANGED inv
  BY <1>3 DEF CreateAgent, RevokeAgent, AddAgent, RemoveAgent, SetLead,
              Approve, Withdraw, Provision
<1>4. ASSUME NEW u, NEW i, RouteInvitation(u, i) \/ Preview(u, i)
      PROVE  UNCHANGED inv
  BY <1>4 DEF RouteInvitation, Preview
<1>5. Joinable \subseteq Workspaces
  BY WorkspaceConstants DEF WorkspaceConstants
<1>6. CASE Next
  BY <1>1, <1>2, <1>3, <1>4, <1>5, <1>6 DEF Next
<1> QED
  BY <1>1, <1>6

LEMMA AgentSteps ==
    ASSUME [Next]_vars
    PROVE  \/ UNCHANGED <<agent, seat, lead>>
           \/ \E w \in Workspaces, u \in Users :
                \/ \E v \in Users : RemoveMember(w, u, v)
                \/ \E a \in Agents : \/ CreateAgent(w, u, a)
                                     \/ RevokeAgent(w, u, a)
                                     \/ AddAgent(w, u, a)
                                     \/ RemoveAgent(w, u, a)
                \/ \E a \in Agents \cup {Nobody} : SetLead(w, u, a)
<1>1. UNCHANGED vars \/ Tick => UNCHANGED <<agent, seat, lead>>
  BY DEF vars, Tick, machine
<1>2. ASSUME NEW w, NEW u, NEW v, NEW r,
             \/ CreateWorkspace(w, u) \/ RenameWorkspace(w, u)
             \/ ArchiveWorkspace(w, u) \/ ChangeRole(w, u, v, r)
      PROVE  UNCHANGED <<agent, seat, lead>>
  BY <1>2 DEF CreateWorkspace, RenameWorkspace, ArchiveWorkspace, ChangeRole,
              machine
<1>3. ASSUME NEW w, NEW u, NEW i, NEW e, NEW t,
             RevokeInvitation(w, u, i) \/ InviteMember(w, u, i, e, t)
      PROVE  UNCHANGED <<agent, seat, lead>>
  BY <1>3 DEF RevokeInvitation, InviteMember, machine
<1>4. ASSUME NEW w, NEW u, NEW p, NEW a,
             Approve(w, u, a) \/ Withdraw(w, u, a) \/ Provision(w, u, p, a)
      PROVE  UNCHANGED <<agent, seat, lead>>
  BY <1>4 DEF Approve, Withdraw, Provision
<1>5. ASSUME NEW u, NEW i,
             \/ RouteInvitation(u, i) \/ Preview(u, i)
             \/ AcceptInvitation(u, i) \/ JoinHousehold(u, i)
      PROVE  UNCHANGED <<agent, seat, lead>>
  BY <1>5 DEF RouteInvitation, Preview, AcceptInvitation, JoinHousehold,
              machine
<1>6. CASE Next
  BY <1>1, <1>2, <1>3, <1>4, <1>5, <1>6 DEF Next
<1> QED
  BY <1>1, <1>6

LEMMA ContentSteps ==
    ASSUME [Next]_vars
    PROVE  \/ UNCHANGED <<boundary, content, conn>>
           \/ \E w \in Workspaces, u \in Users :
                \/ \E v \in Users : RemoveMember(w, u, v)
                \/ \E a \in Agents : \/ RemoveAgent(w, u, a)
                                     \/ Approve(w, u, a)
                                     \/ Withdraw(w, u, a)
                \/ \E p \in {"shared", u}, a \in Agents \cup {Nobody} :
                     Provision(w, u, p, a)
           \/ \E u \in Users, i \in Invitations : JoinHousehold(u, i)
<1>1. UNCHANGED vars \/ Tick => UNCHANGED <<boundary, content, conn>>
  BY DEF vars, Tick, machine
<1>2. ASSUME NEW w, NEW u, NEW v, NEW r,
             \/ CreateWorkspace(w, u) \/ RenameWorkspace(w, u)
             \/ ArchiveWorkspace(w, u) \/ ChangeRole(w, u, v, r)
      PROVE  UNCHANGED <<boundary, content, conn>>
  BY <1>2 DEF CreateWorkspace, RenameWorkspace, ArchiveWorkspace, ChangeRole,
              machine
<1>3. ASSUME NEW w, NEW u, NEW i, NEW e, NEW t,
             RevokeInvitation(w, u, i) \/ InviteMember(w, u, i, e, t)
      PROVE  UNCHANGED <<boundary, content, conn>>
  BY <1>3 DEF RevokeInvitation, InviteMember, machine
<1>4. ASSUME NEW w, NEW u, NEW a,
             \/ CreateAgent(w, u, a) \/ RevokeAgent(w, u, a)
             \/ AddAgent(w, u, a) \/ SetLead(w, u, a)
      PROVE  UNCHANGED <<boundary, content, conn>>
  BY <1>4 DEF CreateAgent, RevokeAgent, AddAgent, SetLead
<1>5. ASSUME NEW u, NEW i,
             \/ RouteInvitation(u, i) \/ Preview(u, i)
             \/ AcceptInvitation(u, i)
      PROVE  UNCHANGED <<boundary, content, conn>>
  BY <1>5 DEF RouteInvitation, Preview, AcceptInvitation, machine
<1>6. Joinable \subseteq Workspaces /\ \A u : Owned(u) \subseteq Agents
  BY WorkspaceConstants DEF WorkspaceConstants, Owned
<1>7. CASE Next
  BY <1>1, <1>2, <1>3, <1>4, <1>5, <1>6, <1>7 DEF Next
<1> QED
  BY <1>1, <1>7

-----------------------------------------------------------------------------
(* The types. *)

\* What a person may have last seen of a household.
ReviewRows == [inv : Invitations \cup {Nobody},
               audience : SUBSET (Users \X Roles), fresh : BOOLEAN]

\* The columns of an agent's row.
PrincipalRows == [owner : Users, home : Workspaces, revoked : BOOLEAN]

\* What the approvals of the agents may be.
Conns == [Agents -> [Workspaces -> {"none", "live", "stale", "revoked"}]]

\* A row of the invitations table that is in use has the columns of one.
LEMMA InvitationRow ==
    ASSUME TypeOK, NEW i \in Invitations, inv[i] # NoInvitation
    PROVE  /\ inv[i] \in InvitationRows
           /\ inv[i].ws \in Workspaces
           /\ inv[i].email \in Users \cup Strangers
           /\ inv[i].by \in Users
           /\ inv[i].made \in 1..MaxTime
           /\ inv[i].ends \in Nat
           /\ inv[i].state \in {"pending", "consumed", "revoked"}
<1>1. inv[i] \in InvitationRows
  BY DEF TypeOK
<1> QED
  BY <1>1 DEF InvitationRows

LEMMA PendingRow ==
    ASSUME NEW i, Pending(i)
    PROVE  inv[i] # NoInvitation
  BY DEF Pending, NoInvitation

LEMMA PrincipalRow ==
    ASSUME TypeOK, NEW a \in Agents, agent[a] # NoPrincipal
    PROVE  /\ agent[a].owner \in Users
           /\ agent[a].home \in Workspaces
           /\ agent[a].revoked \in BOOLEAN
  BY DEF TypeOK

LEMMA OwnedRow ==
    ASSUME NEW a, agent[a].owner \in Users
    PROVE  agent[a] # NoPrincipal
  BY WorkspaceConstants DEF WorkspaceConstants, NoPrincipal

LEMMA ReviewsTyped ==
    ASSUME TypeOK, NEW w, Appends(w)
    PROVE  review' \in [Users -> ReviewRows]
<1>1. review \in [Users -> ReviewRows]
  BY DEF TypeOK, ReviewRows
<1>2. ASSUME NEW u \in Users
      PROVE  [review[u] EXCEPT !.fresh = FALSE] \in ReviewRows
  BY <1>1 DEF ReviewRows
<1> QED
  BY <1>1, <1>2 DEF Appends

LEMMA AudienceTyped ==
    ASSUME TypeOK, NEW w \in Workspaces
    PROVE  Audience(w) \in SUBSET (Users \X Roles)
  BY DEF TypeOK, Audience, Live

LEMMA PeopleTyped ==
    ASSUME TypeOK, [Next]_vars
    PROVE  /\ creator' \in [Workspaces -> Users \cup {Nobody}]
           /\ role' \in [Workspaces -> [Users -> Roles \cup {"none"}]]
           /\ gone' \in [Workspaces -> [Users -> 0..MaxTime]]
<1>1. /\ creator \in [Workspaces -> Users \cup {Nobody}]
      /\ role \in [Workspaces -> [Users -> Roles \cup {"none"}]]
      /\ gone \in [Workspaces -> [Users -> 0..MaxTime]]
      /\ clock \in 0..MaxTime /\ 0 \in 0..MaxTime
      /\ {"owner", "member", "none"} \subseteq Roles \cup {"none"}
  BY WorkspaceConstants DEF WorkspaceConstants, TypeOK, Roles
<1> DEFINE Typed ==
             /\ creator' \in [Workspaces -> Users \cup {Nobody}]
             /\ role' \in [Workspaces -> [Users -> Roles \cup {"none"}]]
             /\ gone' \in [Workspaces -> [Users -> 0..MaxTime]]
<1>2. ASSUME NEW w, NEW u, NEW r \in Roles \cup {"none"}
      PROVE  [role EXCEPT ![w][u] = r]
                \in [Workspaces -> [Users -> Roles \cup {"none"}]]
  BY <1>1
<1>3. ASSUME NEW w, NEW u, NEW t \in 0..MaxTime
      PROVE  [gone EXCEPT ![w][u] = t] \in [Workspaces -> [Users -> 0..MaxTime]]
  BY <1>1
<1>4. ASSUME UNCHANGED people
      PROVE  Typed
  BY <1>1, <1>4 DEF people
<1>5. ASSUME NEW w \in Workspaces, NEW u \in Users, CreateWorkspace(w, u)
      PROVE  Typed
  <2>1. /\ creator' = [creator EXCEPT ![w] = u]
        /\ role' = [role EXCEPT ![w][u] = "owner"]
        /\ gone' = [gone EXCEPT ![w][u] = 0]
    BY <1>5 DEF CreateWorkspace
  <2> QED
    BY <2>1, <1>1, <1>2, <1>3
<1>6. ASSUME NEW w, NEW u, NEW v, RemoveMember(w, u, v)
      PROVE  Typed
  <2>1. /\ UNCHANGED creator
        /\ role' = [role EXCEPT ![w][v] = "none"]
        /\ gone' = [gone EXCEPT ![w][v] = clock]
    BY <1>6 DEF RemoveMember
  <2> QED
    BY <2>1, <1>1, <1>2, <1>3
<1>7. ASSUME NEW w, NEW u, NEW v, NEW r \in Roles, ChangeRole(w, u, v, r)
      PROVE  Typed
  <2>1. UNCHANGED <<creator, gone>> /\ role' = [role EXCEPT ![w][v] = r]
    BY <1>7 DEF ChangeRole
  <2> QED
    BY <2>1, <1>1, <1>2
<1>8. ASSUME NEW u, NEW i, AcceptInvitation(u, i) \/ JoinHousehold(u, i)
      PROVE  Typed
  <2>1. CASE Joins(u, i) /\ UNCHANGED creator
    <3>1. /\ role' = [role EXCEPT ![inv[i].ws][u] = "member"]
          /\ gone' = [gone EXCEPT ![inv[i].ws][u] = 0]
      BY <2>1 DEF Joins
    <3> QED
      BY <2>1, <3>1, <1>1, <1>2, <1>3
  <2>2. CASE UNCHANGED <<creator, role, gone>>
    BY <2>2, <1>1
  <2> QED
    BY <1>8, <2>1, <2>2 DEF AcceptInvitation, JoinHousehold
<1> HIDE DEF Typed
<1>9. Typed
  BY <1>4, <1>5, <1>6, <1>7, <1>8, PeopleSteps
<1> QED
  BY <1>9 DEF Typed

LEMMA InvitationsTyped ==
    ASSUME TypeOK, [Next]_vars
    PROVE  inv' \in [Invitations -> InvitationRows \cup {NoInvitation}]
<1>1. inv \in [Invitations -> InvitationRows \cup {NoInvitation}]
  BY DEF TypeOK
<1>2. ASSUME NEW i \in Invitations, Pending(i)
      PROVE  [inv[i] EXCEPT !.state = "revoked"] \in InvitationRows
  BY <1>2, InvitationRow, PendingRow DEF InvitationRows
<1>3. ASSUME NEW w, NEW u, NEW v, RemoveMember(w, u, v)
      PROVE  inv' \in [Invitations -> InvitationRows \cup {NoInvitation}]
  BY <1>1, <1>2, <1>3 DEF RemoveMember, InvitationsAfterRemoval
<1>4. ASSUME NEW w, NEW u, NEW i \in Invitations, RevokeInvitation(w, u, i)
      PROVE  inv' \in [Invitations -> InvitationRows \cup {NoInvitation}]
  <2>1. inv' = [inv EXCEPT ![i] = [inv[i] EXCEPT !.state = "revoked"]]
    BY <1>1, <1>4 DEF RevokeInvitation
  <2>2. Pending(i)
    BY <1>4 DEF RevokeInvitation
  <2> QED
    BY <1>1, <1>2, <2>1, <2>2
<1>5. ASSUME NEW w \in Workspaces, NEW u \in Users, NEW i \in Invitations,
             NEW e \in Users \cup Strangers, NEW t \in Ttls,
             InviteMember(w, u, i, e, t)
      PROVE  inv' \in [Invitations -> InvitationRows \cup {NoInvitation}]
  <2> DEFINE new == [ws |-> w, email |-> e, by |-> u, made |-> clock,
                     ends |-> clock + t, state |-> "pending", who |-> Nobody]
  <2>1. clock \in 1..MaxTime /\ t \in Nat
    BY WorkspaceConstants DEF WorkspaceConstants, TypeOK
  <2>2. new \in InvitationRows
    BY <2>1, WorkspaceConstants DEF WorkspaceConstants, InvitationRows
  <2>3. inv' = [inv EXCEPT ![i] = new]
    BY <1>5 DEF InviteMember
  <2> QED
    BY <1>1, <2>2, <2>3
<1>6. ASSUME NEW u \in Users, NEW i \in Invitations, Pending(i), Joins(u, i)
      PROVE  inv' \in [Invitations -> InvitationRows \cup {NoInvitation}]
  <2> DEFINE new == [inv[i] EXCEPT !.state = "consumed", !.who = u]
  <2>1. new \in InvitationRows
    BY <1>6, InvitationRow, PendingRow DEF InvitationRows
  <2>2. inv' = [inv EXCEPT ![i] = new]
    BY <1>1, <1>6 DEF Joins
  <2> QED
    BY <1>1, <2>1, <2>2
<1>7. ASSUME NEW u \in Users, NEW i \in Invitations,
             AcceptInvitation(u, i) \/ JoinHousehold(u, i)
      PROVE  UNCHANGED inv \/ (Pending(i) /\ Joins(u, i))
  BY <1>7 DEF AcceptInvitation, JoinHousehold, MayAccept, MayJoinHousehold
<1> QED
  BY <1>1, <1>3, <1>4, <1>5, <1>6, <1>7, InvitationSteps

LEMMA AgentsTyped ==
    ASSUME TypeOK, [Next]_vars
    PROVE  /\ agent' \in [Agents -> [owner : Users, home : Workspaces,
                                     revoked : BOOLEAN] \cup {NoPrincipal}]
           /\ seat' \in [Agents -> [Workspaces -> {"none", "live", "ended"}]]
           /\ lead' \in [Workspaces -> Agents \cup {Nobody}]
<1> DEFINE Typed == /\ agent' \in [Agents -> PrincipalRows \cup {NoPrincipal}]
                    /\ seat' \in [Agents ->
                                    [Workspaces -> {"none", "live", "ended"}]]
                    /\ lead' \in [Workspaces -> Agents \cup {Nobody}]
<1>1. /\ agent \in [Agents -> PrincipalRows \cup {NoPrincipal}]
      /\ seat \in [Agents -> [Workspaces -> {"none", "live", "ended"}]]
      /\ lead \in [Workspaces -> Agents \cup {Nobody}]
  BY DEF TypeOK, PrincipalRows
<1>2. ASSUME NEW a, NEW w, NEW x \in {"live", "ended", "none"}
      PROVE  [seat EXCEPT ![a][w] = x]
                \in [Agents -> [Workspaces -> {"none", "live", "ended"}]]
  BY <1>1
<1>3. ASSUME NEW w, NEW S
      PROVE  LeadAfterExit(w, S) \in [Workspaces -> Agents \cup {Nobody}]
  BY <1>1 DEF LeadAfterExit
<1>4. ASSUME NEW w, NEW v
      PROVE  SeatsAfterRemoval(w, v)
                \in [Agents -> [Workspaces -> {"none", "live", "ended"}]]
  BY <1>1 DEF SeatsAfterRemoval
<1>5. ASSUME NEW w, NEW u, NEW v, RemoveMember(w, u, v)
      PROVE  Typed
  BY <1>1, <1>3, <1>4, <1>5 DEF RemoveMember
<1>6. ASSUME NEW w \in Workspaces, NEW u \in Users, NEW a \in Agents,
             CreateAgent(w, u, a)
      PROVE  Typed
  <2> DEFINE new == [owner |-> u, home |-> w, revoked |-> FALSE]
  <2>1. /\ agent' = [agent EXCEPT ![a] = new]
        /\ seat' = [seat EXCEPT ![a][w] = "live"]
        /\ UNCHANGED lead
    BY <1>6 DEF CreateAgent
  <2>2. new \in PrincipalRows
    BY DEF PrincipalRows
  <2> QED
    BY <1>1, <1>2, <2>1, <2>2
<1>7. ASSUME NEW w \in Workspaces, NEW u, NEW a \in Agents,
             RevokeAgent(w, u, a)
      PROVE  Typed
  <2> DEFINE new == [agent[a] EXCEPT !.revoked = TRUE]
  <2>1. agent[a] # NoPrincipal
    BY <1>7, WorkspaceConstants
    DEF RevokeAgent, NoPrincipal, WorkspaceConstants
  <2>2. new \in PrincipalRows
    BY <1>1, <2>1 DEF PrincipalRows
  <2>3. agent' = [agent EXCEPT ![a] = new]
    BY <1>1, <1>7 DEF RevokeAgent
  <2>4. seat' = [seat EXCEPT ![a][w] = "ended"] /\ lead' = LeadAfterRevocation(a)
    BY <1>7 DEF RevokeAgent
  <2>5. lead' \in [Workspaces -> Agents \cup {Nobody}]
    BY <1>1, <2>4 DEF LeadAfterRevocation
  <2> QED
    BY <1>1, <1>2, <2>2, <2>3, <2>4, <2>5
<1>8. ASSUME NEW w, NEW u, NEW a \in Agents,
             AddAgent(w, u, a) \/ RemoveAgent(w, u, a)
      PROVE  Typed
  <2>1. CASE AddAgent(w, u, a)
    <3>1. seat' = [seat EXCEPT ![a][w] = "live"] /\ UNCHANGED <<agent, lead>>
      BY <2>1 DEF AddAgent
    <3> QED
      BY <1>1, <1>2, <3>1
  <2>2. CASE RemoveAgent(w, u, a)
    <3>1. /\ UNCHANGED agent
          /\ lead' = lead \/ lead' = LeadAfterExit(w, {a})
          /\ seat' = [seat EXCEPT ![a][w] = IF @ = "live" THEN "ended" ELSE @]
      BY <2>2 DEF RemoveAgent
    <3>2. seat' \in [Agents -> [Workspaces -> {"none", "live", "ended"}]]
      BY <1>1, <3>1
    <3> QED
      BY <1>1, <1>3, <3>1, <3>2
  <2> QED
    BY <1>8, <2>1, <2>2
<1>9. ASSUME NEW w, NEW u, NEW a \in Agents \cup {Nobody}, SetLead(w, u, a)
      PROVE  Typed
  BY <1>1, <1>9 DEF SetLead
<1>10. ASSUME UNCHANGED <<agent, seat, lead>>
       PROVE  Typed
  BY <1>1, <1>10
<1> HIDE DEF Typed
<1>11. Typed
  BY <1>5, <1>6, <1>7, <1>8, <1>9, <1>10, AgentSteps
<1> QED
  BY <1>11 DEF Typed, PrincipalRows

LEMMA ContentTyped ==
    ASSUME TypeOK, [Next]_vars
    PROVE  /\ boundary' \in [Workspaces -> {"none", "shared"} \cup Users]
           /\ content' \in [Workspaces ->
                              [Users -> {"none", "live", "revoked"}]]
           /\ conn' \in [Agents -> [Workspaces ->
                              {"none", "live", "stale", "revoked"}]]
<1> DEFINE Typed == /\ boundary' \in [Workspaces -> {"none", "shared"} \cup Users]
                    /\ content' \in [Workspaces ->
                                       [Users -> {"none", "live", "revoked"}]]
                    /\ conn' \in Conns
<1>1. /\ boundary \in [Workspaces -> {"none", "shared"} \cup Users]
      /\ content \in [Workspaces -> [Users -> {"none", "live", "revoked"}]]
      /\ conn \in Conns
  BY DEF TypeOK, Conns
<1>2. ASSUME NEW w, NEW S
      PROVE  ApprovalsAfterExit(w, S) \in Conns
  BY <1>1 DEF ApprovalsAfterExit, Conns
<1>3. ASSUME NEW w, NEW u
      PROVE  Outdated(w, u) \in Conns
  BY <1>1 DEF Outdated, Conns
<1>4. ASSUME NEW c \in Conns, NEW w, NEW a
      PROVE  Connected(c, w, a) \in Conns
  BY DEF Connected, Conns
<1>5. ASSUME NEW w, NEW u, NEW v, RemoveMember(w, u, v)
      PROVE  Typed
  <2>1. content' \in [Workspaces -> [Users -> {"none", "live", "revoked"}]]
    BY <1>1, <1>5 DEF RemoveMember, ContentAfterRemoval
  <2> QED
    BY <1>1, <1>2, <1>5, <2>1 DEF RemoveMember
<1>6. ASSUME NEW w, NEW u, NEW a,
             RemoveAgent(w, u, a) \/ Approve(w, u, a) \/ Withdraw(w, u, a)
      PROVE  Typed
  BY <1>1, <1>2, <1>4, <1>6 DEF RemoveAgent, Approve, Withdraw
<1>7. ASSUME NEW w, NEW u \in Users, NEW p \in {"shared", u}, NEW a,
             Provision(w, u, p, a)
      PROVE  Typed
  <2>1. conn' \in Conns
    BY <1>3, <1>4, <1>7 DEF Provision
  <2> QED
    BY <1>1, <1>7, <2>1 DEF Provision
<1>8. ASSUME NEW u, NEW i, JoinHousehold(u, i)
      PROVE  Typed
  <2>1. content' \in [Workspaces -> [Users -> {"none", "live", "revoked"}]]
    BY <1>1, <1>8 DEF JoinHousehold, ContentAfterJoin
  <2> QED
    BY <1>1, <1>2, <1>8, <2>1 DEF JoinHousehold
<1>9. ASSUME UNCHANGED <<boundary, content, conn>>
      PROVE  Typed
  BY <1>1, <1>9
<1> HIDE DEF Typed
<1>10. Typed
  BY <1>5, <1>6, <1>7, <1>8, <1>9, ContentSteps
<1> QED
  BY <1>10 DEF Typed, Conns

LEMMA RestTyped ==
    ASSUME TypeOK, [Next]_vars
    PROVE  /\ clock' \in 1..MaxTime
           /\ archived' \in [Workspaces -> BOOLEAN]
           /\ routed' \in [Users -> SUBSET Invitations]
           /\ review' \in [Users -> ReviewRows]
<1> DEFINE Typed == /\ clock' \in 1..MaxTime
                    /\ archived' \in [Workspaces -> BOOLEAN]
                    /\ routed' \in [Users -> SUBSET Invitations]
                    /\ review' \in [Users -> ReviewRows]
<1>1. /\ clock \in 1..MaxTime
      /\ archived \in [Workspaces -> BOOLEAN]
      /\ routed \in [Users -> SUBSET Invitations]
      /\ review \in [Users -> ReviewRows]
  BY DEF TypeOK, ReviewRows
<1>2. ASSUME UNCHANGED vars \/ Tick
      PROVE  Typed
  <2>1. CASE UNCHANGED vars
    BY <1>1, <2>1 DEF vars
  <2>2. CASE Tick
    <3>1. clock' \in 1..MaxTime
      BY <1>1, <2>2, WorkspaceConstants DEF Tick, WorkspaceConstants
    <3> QED
      BY <1>1, <2>2, <3>1 DEF Tick
  <2> QED
    BY <1>2, <2>1, <2>2
<1>3. ASSUME NEW w, NEW u, NEW v, NEW r,
             \/ CreateWorkspace(w, u) \/ RenameWorkspace(w, u)
             \/ RemoveMember(w, u, v) \/ ChangeRole(w, u, v, r)
      PROVE  Typed
  BY <1>1, <1>3, ReviewsTyped
  DEF CreateWorkspace, RenameWorkspace, RemoveMember, ChangeRole
<1>4. ASSUME NEW w, NEW u, ArchiveWorkspace(w, u)
      PROVE  Typed
  <2>1. archived' \in [Workspaces -> BOOLEAN]
    BY <1>1, <1>4 DEF ArchiveWorkspace
  <2> QED
    BY <1>1, <1>4, <2>1, ReviewsTyped DEF ArchiveWorkspace
<1>5. ASSUME NEW w, NEW u, NEW i, NEW e, NEW t,
             RevokeInvitation(w, u, i) \/ InviteMember(w, u, i, e, t)
      PROVE  Typed
  BY <1>1, <1>5, ReviewsTyped DEF RevokeInvitation, InviteMember
<1>6. ASSUME NEW w, NEW u, NEW a,
             \/ CreateAgent(w, u, a) \/ RevokeAgent(w, u, a)
             \/ AddAgent(w, u, a) \/ RemoveAgent(w, u, a)
      PROVE  Typed
  BY <1>1, <1>6, ReviewsTyped
  DEF CreateAgent, RevokeAgent, AddAgent, RemoveAgent
<1>7. ASSUME NEW w, NEW u, NEW p, NEW a,
             \/ SetLead(w, u, a) \/ Approve(w, u, a) \/ Withdraw(w, u, a)
             \/ Provision(w, u, p, a)
      PROVE  Typed
  BY <1>1, <1>7 DEF SetLead, Approve, Withdraw, Provision
<1>8. ASSUME NEW u \in Users, NEW i \in Invitations,
             RouteInvitation(u, i) \/ AcceptInvitation(u, i)
      PROVE  Typed
  <2>1. routed' \in [Users -> SUBSET Invitations]
    BY <1>1, <1>8 DEF RouteInvitation, AcceptInvitation
  <2> QED
    BY <1>1, <1>8, <2>1, ReviewsTyped DEF RouteInvitation, AcceptInvitation
<1>9. ASSUME NEW u \in Users, NEW i \in Invitations, Preview(u, i)
      PROVE  Typed
  <2> DEFINE seen == [inv |-> i, fresh |-> TRUE,
                      audience |-> Audience(inv[i].ws)]
  <2>1. inv[i].ws \in Workspaces
    BY <1>9, InvitationRow DEF Preview, MayJoinHousehold
  <2>2. seen \in ReviewRows
    BY <2>1, AudienceTyped DEF ReviewRows
  <2>3. review' = [review EXCEPT ![u] = seen]
    BY <1>9 DEF Preview
  <2>4. UNCHANGED <<clock, archived, routed>>
    BY <1>9 DEF Preview
  <2> HIDE DEF seen
  <2> QED
    BY <1>1, <2>2, <2>3, <2>4
<1>10. ASSUME NEW u, NEW i, JoinHousehold(u, i)
       PROVE  Typed
  BY <1>1, <1>10, ReviewsTyped DEF JoinHousehold
<1> HIDE DEF Typed
<1>11. ASSUME Next
       PROVE  Typed
  BY <1>2, <1>3, <1>4, <1>5, <1>6, <1>7, <1>8, <1>9, <1>10, <1>11 DEF Next
<1>12. Typed
  BY <1>2, <1>11
<1> QED
  BY <1>12 DEF Typed

LEMMA TypesKept ==
    ASSUME TypeOK, [Next]_vars
    PROVE  TypeOK'
<1> USE DEF ReviewRows, InvitationRows
<1> QED
  BY PeopleTyped, InvitationsTyped, AgentsTyped, ContentTyped, RestTyped
  DEF TypeOK

LEMMA TypesInit == Init => TypeOK
<1> SUFFICES ASSUME Init
             PROVE  TypeOK
  OBVIOUS
<1> USE WorkspaceConstants DEF WorkspaceConstants
<1>1. clock \in 1..MaxTime
  BY DEF Init
<1>2. gone \in [Workspaces -> [Users -> 0..MaxTime]]
  BY DEF Init
<1>3. review \in [Users -> ReviewRows]
  BY DEF Init, NoReview, ReviewRows
<1> QED
  BY <1>1, <1>2, <1>3 DEF Init, TypeOK, ReviewRows

-----------------------------------------------------------------------------
(* A workspace nobody created is empty. *)

LEMMA MembersCreated ==
    ASSUME NothingUncreated, NEW w \in Workspaces, NEW u \in Users, Live(w, u)
    PROVE  creator[w] # Nobody
  BY DEF NothingUncreated

LEMMA CreatedStays ==
    ASSUME TypeOK, [Next]_vars, NEW w \in Workspaces, creator[w] # Nobody
    PROVE  creator'[w] = creator[w]
<1>1. creator \in [Workspaces -> Users \cup {Nobody}]
  BY DEF TypeOK
<1>2. ASSUME NEW x \in Workspaces, NEW u, CreateWorkspace(x, u)
      PROVE  creator'[w] = creator[w]
  BY <1>1, <1>2 DEF CreateWorkspace
<1>3. ASSUME NEW x, NEW u, NEW v, NEW r,
             RemoveMember(x, u, v) \/ ChangeRole(x, u, v, r)
      PROVE  creator'[w] = creator[w]
  BY <1>3 DEF RemoveMember, ChangeRole
<1>4. ASSUME NEW u, NEW i, AcceptInvitation(u, i) \/ JoinHousehold(u, i)
      PROVE  creator'[w] = creator[w]
  BY <1>4 DEF AcceptInvitation, JoinHousehold
<1>5. ASSUME UNCHANGED people
      PROVE  creator'[w] = creator[w]
  BY <1>5 DEF people
<1> QED
  BY <1>2, <1>3, <1>4, <1>5, PeopleSteps

\* Somebody becomes a member by creating the workspace, for the first time or
\* again, or by spending an invitation to it.
LEMMA Entering ==
    ASSUME TypeOK, [Next]_vars, NEW w \in Workspaces, NEW u \in Users,
           Enters(w, u)
    PROVE  \/ Creates(w, u)
           \/ \E i \in Invitations :
                /\ inv[i].ws = w
                /\ \/ /\ AcceptInvitation(u, i) /\ MayAccept(u, i)
                      /\ LockedFence(u, i) /\ Joins(u, i)
                   \/ JoinHousehold(u, i)
<1>1. /\ creator \in [Workspaces -> Users \cup {Nobody}]
      /\ role \in [Workspaces -> [Users -> Roles \cup {"none"}]]
      /\ role[w][u] = "none" /\ role'[w][u] # "none"
  BY DEF TypeOK, Enters, Live
<1>2. ASSUME NEW x \in Workspaces, NEW v \in Users, CreateWorkspace(x, v)
      PROVE  Creates(w, u)
  BY <1>1, <1>2 DEF CreateWorkspace, Creates
<1>3. ASSUME NEW x, NEW v, NEW o, RemoveMember(x, v, o)
      PROVE  FALSE
  BY <1>1, <1>3 DEF RemoveMember
<1>4. ASSUME NEW x, NEW v, NEW o, NEW r, ChangeRole(x, v, o, r)
      PROVE  FALSE
  BY <1>1, <1>4 DEF ChangeRole, Live
<1>5. ASSUME UNCHANGED people
      PROVE  FALSE
  BY <1>1, <1>5 DEF people
<1>6. ASSUME NEW v, NEW i, Joins(v, i)
      PROVE  inv[i].ws = w /\ v = u
  BY <1>1, <1>6 DEF Joins
<1>7. ASSUME NEW v, NEW i, AcceptInvitation(v, i)
      PROVE  /\ inv[i].ws = w /\ v = u
             /\ MayAccept(v, i) /\ LockedFence(v, i) /\ Joins(v, i)
  <2>1. ~UNCHANGED <<role, gone, inv>>
    BY <1>1
  <2> QED
    BY <1>6, <1>7, <2>1 DEF AcceptInvitation
<1>8. ASSUME NEW v, NEW i, JoinHousehold(v, i)
      PROVE  inv[i].ws = w /\ v = u
  BY <1>6, <1>8 DEF JoinHousehold
<1> QED
  BY <1>2, <1>3, <1>4, <1>5, <1>7, <1>8, PeopleSteps

\* An invitation that was issued keeps its workspace; a new one is issued by a
\* member of its workspace.
LEMMA InvitationKeeps ==
    ASSUME TypeOK, [Next]_vars, NEW i \in Invitations, inv'[i] # NoInvitation
    PROVE  \/ inv[i] # NoInvitation /\ inv'[i].ws = inv[i].ws
           \/ \E w \in Workspaces, u \in Users :
                Live(w, u) /\ inv'[i].ws = w
<1>1. inv \in [Invitations -> InvitationRows \cup {NoInvitation}]
  BY DEF TypeOK
<1>2. NoInvitation.state = "unused"
  BY DEF NoInvitation
<1>3. ASSUME UNCHANGED inv
      PROVE  inv[i] # NoInvitation /\ inv'[i].ws = inv[i].ws
  BY <1>3
<1>4. ASSUME NEW w, NEW u, NEW v, RemoveMember(w, u, v)
      PROVE  inv[i] # NoInvitation /\ inv'[i].ws = inv[i].ws
  <2>1. inv' = InvitationsAfterRemoval(w, v)
    BY <1>4 DEF RemoveMember
  <2>2. \/ inv'[i] = inv[i]
        \/ Pending(i) /\ inv'[i] = [inv[i] EXCEPT !.state = "revoked"]
    BY <2>1 DEF InvitationsAfterRemoval
  <2>3. CASE Pending(i) /\ inv'[i] = [inv[i] EXCEPT !.state = "revoked"]
    <3>1. inv[i] \in InvitationRows
      BY <2>3, InvitationRow, PendingRow
    <3> QED
      BY <2>3, <3>1, PendingRow DEF InvitationRows
  <2> QED
    BY <2>2, <2>3
<1>5. ASSUME NEW w, NEW u, NEW j \in Invitations, RevokeInvitation(w, u, j)
      PROVE  inv[i] # NoInvitation /\ inv'[i].ws = inv[i].ws
  <2>1. inv' = [inv EXCEPT ![j] = [inv[j] EXCEPT !.state = "revoked"]]
    BY <1>1, <1>5 DEF RevokeInvitation
  <2>2. CASE i = j
    <3>1. inv[i] \in InvitationRows /\ inv[i] # NoInvitation
      BY <1>5, <2>2, InvitationRow, PendingRow DEF RevokeInvitation
    <3>2. inv'[i] = [inv[i] EXCEPT !.state = "revoked"]
      BY <1>1, <2>1, <2>2
    <3> QED
      BY <3>1, <3>2 DEF InvitationRows
  <2>3. CASE i # j
    BY <1>1, <2>1, <2>3
  <2> QED
    BY <2>2, <2>3
<1>6. ASSUME NEW w \in Workspaces, NEW u \in Users, NEW j \in Invitations,
             NEW e, NEW t, InviteMember(w, u, j, e, t)
      PROVE  \/ inv[i] # NoInvitation /\ inv'[i].ws = inv[i].ws
             \/ Live(w, u) /\ inv'[i].ws = w
  <2> DEFINE new == [ws |-> w, email |-> e, by |-> u, made |-> clock,
                     ends |-> clock + t, state |-> "pending", who |-> Nobody]
  <2>1. inv' = [inv EXCEPT ![j] = new] /\ Live(w, u)
    BY <1>6 DEF InviteMember, Manages, Admitted
  <2>2. new.ws = w
    OBVIOUS
  <2> HIDE DEF new
  <2> QED
    BY <1>1, <2>1, <2>2
<1>7. ASSUME NEW u, NEW j \in Invitations, Pending(j), Joins(u, j)
      PROVE  inv[i] # NoInvitation /\ inv'[i].ws = inv[i].ws
  <2> DEFINE new == [inv[j] EXCEPT !.state = "consumed", !.who = u]
  <2>1. inv' = [inv EXCEPT ![j] = new]
    BY <1>1, <1>7 DEF Joins
  <2>2. inv[j] \in InvitationRows /\ inv[j] # NoInvitation
    BY <1>7, InvitationRow, PendingRow
  <2>3. new.ws = inv[j].ws
    BY <2>2 DEF InvitationRows
  <2> HIDE DEF new
  <2> QED
    BY <1>1, <2>1, <2>2, <2>3
<1>8. ASSUME NEW u, NEW j \in Invitations,
             AcceptInvitation(u, j) \/ JoinHousehold(u, j)
      PROVE  UNCHANGED inv \/ (Pending(j) /\ Joins(u, j))
  BY <1>8 DEF AcceptInvitation, JoinHousehold, MayAccept, MayJoinHousehold
<1> QED
  BY <1>3, <1>4, <1>5, <1>6, <1>7, <1>8, InvitationSteps

LEMMA UncreatedKept ==
    ASSUME TypeOK, NothingUncreated, [Next]_vars
    PROVE  NothingUncreated'
<1>1. ASSUME NEW w \in Workspaces, creator'[w] = Nobody
      PROVE  boundary'[w] = "none"
  <2>1. creator[w] = Nobody /\ boundary[w] = "none"
    BY <1>1, CreatedStays DEF NothingUncreated
  <2>2. ASSUME NEW x \in Workspaces, NEW u \in Users, NEW p, NEW a,
               Provision(x, u, p, a)
        PROVE  boundary'[w] = "none"
    <3>1. x # w
      BY <2>1, <2>2, MembersCreated DEF Provision, Admitted
    <3> QED
      BY <2>1, <2>2, <3>1, TypeOK DEF Provision, TypeOK
  <2>3. ASSUME NEW x, NEW u, NEW v, RemoveMember(x, u, v)
        PROVE  UNCHANGED boundary
    BY <2>3 DEF RemoveMember
  <2>4. ASSUME NEW x, NEW u, NEW a,
               RemoveAgent(x, u, a) \/ Approve(x, u, a) \/ Withdraw(x, u, a)
        PROVE  UNCHANGED boundary
    BY <2>4 DEF RemoveAgent, Approve, Withdraw
  <2>5. ASSUME NEW u, NEW i, JoinHousehold(u, i)
        PROVE  UNCHANGED boundary
    BY <2>5 DEF JoinHousehold
  <2> QED
    BY <2>1, <2>2, <2>3, <2>4, <2>5, ContentSteps
<1>2. ASSUME NEW w \in Workspaces, NEW u \in Users, creator'[w] = Nobody
      PROVE  ~Live(w, u)'
  <2>1. creator[w] = Nobody /\ ~Live(w, u)
    BY <1>2, CreatedStays DEF NothingUncreated
  <2>2. SUFFICES ASSUME Enters(w, u)
                 PROVE  FALSE
    BY <2>1 DEF Enters, Live
  <2>3. creator'[w] # u
    BY <1>2, WorkspaceConstants DEF WorkspaceConstants
  <2>4. ASSUME NEW i \in Invitations, inv[i] # NoInvitation
        PROVE  inv[i].ws # w
    BY <2>1, <2>4 DEF NothingUncreated
  <2>5. ASSUME NEW i \in Invitations, MayAccept(u, i) \/ JoinHousehold(u, i)
        PROVE  inv[i] # NoInvitation
    BY <2>5, PendingRow DEF MayAccept, JoinHousehold, MayJoinHousehold
  <2> QED
    BY <2>2, <2>3, <2>4, <2>5, Entering DEF Creates
<1>3. ASSUME NEW w \in Workspaces, NEW u \in Users, creator'[w] = Nobody
      PROVE  gone'[w][u] = 0
  <2>1. /\ creator[w] = Nobody /\ ~Live(w, u) /\ gone[w][u] = 0
        /\ gone \in [Workspaces -> [Users -> 0..MaxTime]]
    BY <1>3, CreatedStays DEF NothingUncreated, TypeOK
  <2>2. ASSUME NEW x \in Workspaces, NEW o, CreateWorkspace(x, o)
        PROVE  gone'[w][u] = 0
    BY <2>1, <2>2 DEF CreateWorkspace
  <2>3. ASSUME NEW x \in Workspaces, NEW o, NEW v \in Users, RemoveMember(x, o, v)
        PROVE  gone'[w][u] = 0
    BY <2>1, <2>3 DEF RemoveMember, MayRemove
  <2>4. ASSUME NEW x, NEW o, NEW v, NEW r, ChangeRole(x, o, v, r)
        PROVE  gone'[w][u] = 0
    BY <2>1, <2>4 DEF ChangeRole
  <2>5. ASSUME NEW o, NEW i, AcceptInvitation(o, i) \/ JoinHousehold(o, i)
        PROVE  gone'[w][u] = 0
    <3>1. UNCHANGED gone \/ Joins(o, i)
      BY <2>5 DEF AcceptInvitation, JoinHousehold
    <3> QED
      BY <2>1, <3>1 DEF Joins
  <2>6. ASSUME UNCHANGED people
        PROVE  gone'[w][u] = 0
    BY <2>1, <2>6 DEF people
  <2> QED
    BY <2>2, <2>3, <2>4, <2>5, <2>6, PeopleSteps
<1>4. ASSUME NEW i \in Invitations, inv'[i] # NoInvitation
      PROVE  creator'[inv'[i].ws] # Nobody
  <2>1. CASE inv[i] # NoInvitation /\ inv'[i].ws = inv[i].ws
    BY <2>1, InvitationRow, CreatedStays DEF NothingUncreated
  <2>2. CASE \E w \in Workspaces, u \in Users : Live(w, u) /\ inv'[i].ws = w
    BY <2>2, MembersCreated, CreatedStays
  <2> QED
    BY <1>4, <2>1, <2>2, InvitationKeeps
<1> QED
  BY <1>1, <1>2, <1>3, <1>4 DEF NothingUncreated, NoInvitation

-----------------------------------------------------------------------------
(* The last owner. *)

\* More owners than one: there is another one.
LEMMA AnotherOwner ==
    ASSUME NEW w, NEW v, Cardinality(Owners(w)) > 1
    PROVE  \E o \in Owners(w) : o # v
<1>1. SUFFICES ASSUME Owners(w) \subseteq {v}
               PROVE  FALSE
  OBVIOUS
<1>2. Owners(w) = {} \/ Owners(w) = {v}
  BY <1>1
<1>3. Cardinality({}) = 0 /\ Cardinality({v}) = 1
  BY FS_EmptySet, FS_Singleton
<1> QED
  BY <1>2, <1>3

LEMMA OwnerKept ==
    ASSUME TypeOK, NothingUncreated, OwnerRemains, [Next]_vars
    PROVE  OwnerRemains'
<1> SUFFICES ASSUME NEW w \in Workspaces, creator'[w] # Nobody
             PROVE  \E o \in Users : role'[w][o] = "owner"
  BY DEF OwnerRemains, Owners
<1>1. /\ creator \in [Workspaces -> Users \cup {Nobody}]
      /\ role \in [Workspaces -> [Users -> Roles \cup {"none"}]]
  BY DEF TypeOK
<1>2. ASSUME NEW x \in Workspaces, NEW u \in Users, CreateWorkspace(x, u)
      PROVE  \E o \in Users : role'[w][o] = "owner"
  <2>1. CASE x = w
    BY <1>1, <1>2, <2>1 DEF CreateWorkspace
  <2>2. CASE x # w
    <3>1. creator[w] # Nobody /\ role'[w] = role[w]
      BY <1>1, <1>2, <2>2 DEF CreateWorkspace
    <3> QED
      BY <3>1 DEF OwnerRemains, Owners
  <2> QED
    BY <2>1, <2>2
<1>3. ASSUME creator[w] # Nobody
      PROVE  \E o \in Users : role[w][o] = "owner"
  BY <1>3 DEF OwnerRemains, Owners
<1>4. ASSUME NEW x, NEW v, NEW r, creator[w] # Nobody,
             role' = [role EXCEPT ![x][v] = r],
             x = w /\ r # "owner" => NotLastOwner(w, v)
      PROVE  \E o \in Users : role'[w][o] = "owner"
  <2>1. PICK o \in Users : role[w][o] = "owner"
    BY <1>3, <1>4
  <2>2. CASE x # w \/ o # v \/ r = "owner"
    BY <1>1, <1>4, <2>1, <2>2
  <2>3. CASE x = w /\ o = v /\ r # "owner"
    <3>1. PICK q \in Owners(w) : q # v
      BY <1>4, <2>1, <2>3, AnotherOwner DEF NotLastOwner
    <3> QED
      BY <1>1, <1>4, <3>1 DEF Owners
  <2> QED
    BY <2>2, <2>3
<1>5. ASSUME NEW x, NEW u, NEW v, RemoveMember(x, u, v)
      PROVE  \E o \in Users : role'[w][o] = "owner"
  <2>1. /\ UNCHANGED creator
        /\ role' = [role EXCEPT ![x][v] = "none"] /\ NotLastOwner(x, v)
    BY <1>5 DEF RemoveMember, MayRemove
  <2> QED
    BY <1>4, <2>1
<1>6. ASSUME NEW x, NEW u, NEW v, NEW r, ChangeRole(x, u, v, r)
      PROVE  \E o \in Users : role'[w][o] = "owner"
  <2>1. /\ UNCHANGED creator
        /\ role' = [role EXCEPT ![x][v] = r]
        /\ r # "owner" => NotLastOwner(x, v)
    BY <1>6 DEF ChangeRole
  <2> QED
    BY <1>4, <2>1
<1>7. ASSUME NEW u, NEW i, AcceptInvitation(u, i) \/ JoinHousehold(u, i)
      PROVE  \E o \in Users : role'[w][o] = "owner"
  <2>1. CASE UNCHANGED <<creator, role>>
    BY <2>1, <1>3
  <2>2. CASE UNCHANGED creator /\ Joins(u, i) /\ ~Live(inv[i].ws, u)
    <3>1. role' = [role EXCEPT ![inv[i].ws][u] = "member"]
      BY <2>2 DEF Joins
    <3>2. role[inv[i].ws][u] # "owner"
      BY <2>2 DEF Live
    <3> QED
      BY <1>4, <2>2, <3>1, <3>2 DEF NotLastOwner
  <2> QED
    BY <1>7, <2>1, <2>2
    DEF AcceptInvitation, JoinHousehold, MayAccept, MayJoinHousehold
<1>8. ASSUME UNCHANGED people
      PROVE  \E o \in Users : role'[w][o] = "owner"
  BY <1>3, <1>8 DEF people
<1> QED
  BY <1>2, <1>5, <1>6, <1>7, <1>8, PeopleSteps

-----------------------------------------------------------------------------
(* Agents, content roles and approvals. *)

\* Who stops being a member is removed.
LEMMA Leaving ==
    ASSUME TypeOK, [Next]_vars, NEW w \in Workspaces, NEW u \in Users,
           Live(w, u), role'[w][u] = "none"
    PROVE  \E o \in Users : RemoveMember(w, o, u)
<1>1. /\ role \in [Workspaces -> [Users -> Roles \cup {"none"}]]
      /\ "none" \notin Roles /\ role[w][u] # "none"
  BY DEF TypeOK, Roles, Live
<1>2. ASSUME NEW x, NEW o, CreateWorkspace(x, o)
      PROVE  FALSE
  BY <1>1, <1>2 DEF CreateWorkspace
<1>3. ASSUME NEW x, NEW o, NEW v, RemoveMember(x, o, v)
      PROVE  x = w /\ v = u
  BY <1>1, <1>3 DEF RemoveMember
<1>4. ASSUME NEW x, NEW o, NEW v, NEW r \in Roles, ChangeRole(x, o, v, r)
      PROVE  FALSE
  BY <1>1, <1>4 DEF ChangeRole
<1>5. ASSUME NEW o, NEW i, AcceptInvitation(o, i) \/ JoinHousehold(o, i)
      PROVE  FALSE
  <2>1. UNCHANGED role \/ Joins(o, i)
    BY <1>5 DEF AcceptInvitation, JoinHousehold
  <2> QED
    BY <1>1, <2>1 DEF Joins
<1>6. ASSUME UNCHANGED people
      PROVE  FALSE
  BY <1>1, <1>6 DEF people
<1> QED
  BY <1>2, <1>3, <1>4, <1>5, <1>6, PeopleSteps

\* An agent that exists keeps its owner and, once revoked, stays revoked.
LEMMA PrincipalKeeps ==
    ASSUME TypeOK, [Next]_vars, NEW a \in Agents, agent[a] # NoPrincipal
    PROVE  /\ agent'[a] # NoPrincipal
           /\ agent'[a].owner = agent[a].owner
           /\ agent[a].revoked => agent'[a].revoked
<1>1. agent \in [Agents -> PrincipalRows \cup {NoPrincipal}]
  BY DEF TypeOK, PrincipalRows
<1>2. ASSUME NEW w, NEW u, NEW v, RemoveMember(w, u, v)
      PROVE  UNCHANGED agent
  BY <1>2 DEF RemoveMember
<1>3. ASSUME NEW w, NEW u, NEW b \in Agents, CreateAgent(w, u, b)
      PROVE  agent'[a] = agent[a]
  BY <1>1, <1>3 DEF CreateAgent
<1>4. ASSUME NEW w, NEW u, NEW b \in Agents, RevokeAgent(w, u, b)
      PROVE  /\ agent'[a] # NoPrincipal
             /\ agent'[a].owner = agent[a].owner
             /\ agent[a].revoked => agent'[a].revoked
  <2>1. agent' = [agent EXCEPT ![b] = [agent[b] EXCEPT !.revoked = TRUE]]
    BY <1>1, <1>4 DEF RevokeAgent
  <2>2. CASE a = b
    <3>1. agent'[a] = [agent[a] EXCEPT !.revoked = TRUE]
      BY <1>1, <2>1, <2>2
    <3>2. agent[a] \in PrincipalRows
      BY <1>1
    <3>3. agent'[a].revoked /\ agent'[a].owner = agent[a].owner
      BY <3>1, <3>2 DEF PrincipalRows
    <3> QED
      BY <3>3 DEF NoPrincipal
  <2>3. CASE a # b
    BY <1>1, <2>1, <2>3
  <2> QED
    BY <2>2, <2>3
<1>5. ASSUME NEW w, NEW u, NEW b,
             AddAgent(w, u, b) \/ RemoveAgent(w, u, b) \/ SetLead(w, u, b)
      PROVE  UNCHANGED agent
  BY <1>5 DEF AddAgent, RemoveAgent, SetLead
<1> QED
  BY <1>2, <1>3, <1>4, <1>5, AgentSteps

\* A seat is taken by adding an existing agent whose owner is a member, or
\* with the agent's creation.
LEMMA SeatTaken ==
    ASSUME TypeOK, [Next]_vars, NEW a \in Agents, NEW w \in Workspaces,
           seat'[a][w] # "none", seat'[a][w] # seat[a][w]
    PROVE  \/ /\ seat'[a][w] = "ended" /\ seat[a][w] = "live"
           \/ /\ seat'[a][w] = "live" /\ UNCHANGED <<agent, role>>
              /\ agent[a] # NoPrincipal /\ ~agent[a].revoked
              /\ Live(w, agent[a].owner)
           \/ /\ seat'[a][w] = "live" /\ UNCHANGED role
              /\ agent[a] = NoPrincipal /\ agent'[a] # NoPrincipal
              /\ Live(w, agent'[a].owner)
<1>1. /\ seat \in [Agents -> [Workspaces -> {"none", "live", "ended"}]]
      /\ agent \in [Agents -> PrincipalRows \cup {NoPrincipal}]
  BY DEF TypeOK, PrincipalRows
<1>2. ASSUME NEW x, NEW u, NEW v, RemoveMember(x, u, v)
      PROVE  seat'[a][w] = "ended" /\ seat[a][w] = "live"
  BY <1>1, <1>2 DEF RemoveMember, SeatsAfterRemoval, SeatsOf
<1>3. ASSUME NEW x \in Workspaces, NEW u \in Users, NEW b \in Agents,
             CreateAgent(x, u, b)
      PROVE  /\ seat'[a][w] = "live" /\ UNCHANGED role
             /\ agent[a] = NoPrincipal /\ agent'[a] # NoPrincipal
             /\ Live(w, agent'[a].owner)
  <2> DEFINE new == [owner |-> u, home |-> x, revoked |-> FALSE]
  <2>1. /\ agent' = [agent EXCEPT ![b] = new]
        /\ seat' = [seat EXCEPT ![b][x] = "live"]
        /\ Live(x, u) /\ agent[b] = NoPrincipal /\ UNCHANGED people
    BY <1>3 DEF CreateAgent, Admitted
  <2>2. a = b /\ x = w /\ seat'[a][w] = "live"
    BY <1>1, <2>1
  <2>3. new.owner = u /\ new # NoPrincipal
    BY WorkspaceConstants DEF WorkspaceConstants, NoPrincipal
  <2> HIDE DEF new
  <2> QED
    BY <1>1, <2>1, <2>2, <2>3 DEF people
<1>4. ASSUME NEW x, NEW u, NEW b, RevokeAgent(x, u, b)
      PROVE  seat'[a][w] = "ended" /\ seat[a][w] = "live"
  BY <1>1, <1>4 DEF RevokeAgent
<1>5. ASSUME NEW x \in Workspaces, NEW u, NEW b \in Agents, AddAgent(x, u, b)
      PROVE  /\ seat'[a][w] = "live" /\ UNCHANGED <<agent, role>>
             /\ agent[a] # NoPrincipal /\ ~agent[a].revoked
             /\ Live(w, agent[a].owner)
  <2>1. /\ seat' = [seat EXCEPT ![b][x] = "live"]
        /\ UNCHANGED <<agent, people>>
        /\ agent[b].owner # Nobody /\ ~agent[b].revoked
        /\ Live(x, agent[b].owner)
    BY <1>5 DEF AddAgent, MayChangeSeat
  <2>2. a = b /\ x = w /\ seat'[a][w] = "live"
    BY <1>1, <2>1
  <2>3. agent[b] # NoPrincipal
    BY <2>1 DEF NoPrincipal
  <2> QED
    BY <2>1, <2>2, <2>3 DEF people
<1>6. ASSUME NEW x, NEW u, NEW b, RemoveAgent(x, u, b)
      PROVE  seat'[a][w] = "ended" /\ seat[a][w] = "live"
  BY <1>1, <1>6 DEF RemoveAgent
<1>7. ASSUME NEW x, NEW u, NEW b, SetLead(x, u, b)
      PROVE  FALSE
  BY <1>7 DEF SetLead
<1> QED
  BY <1>2, <1>3, <1>4, <1>5, <1>6, <1>7, AgentSteps

LEMMA SeatsKept ==
    ASSUME TypeOK, SeatsAreOfAgents, [Next]_vars
    PROVE  SeatsAreOfAgents'
<1> SUFFICES ASSUME NEW a \in Agents, NEW w \in Workspaces,
                    seat'[a][w] # "none"
             PROVE  agent'[a] # NoPrincipal
  BY DEF SeatsAreOfAgents
<1>1. CASE seat[a][w] # "none"
  BY <1>1, PrincipalKeeps DEF SeatsAreOfAgents
<1>2. CASE seat[a][w] = "none"
  BY <1>2, SeatTaken, PrincipalKeeps
<1> QED
  BY <1>1, <1>2

\* What a removal takes away: the person's seats, content role and approvals
\* in the workspace, and the lead if it is one of the person's agents.
LEMMA RemovalTakes ==
    ASSUME TypeOK, NEW w \in Workspaces, NEW o, NEW u \in Users,
           RemoveMember(w, o, u)
    PROVE  /\ content'[w][u] # "live"
           /\ \A a \in Owned(u) : /\ seat'[a][w] # "live"
                                  /\ conn'[a][w] # "live"
                                  /\ lead'[w] # a
<1>1. /\ seat \in [Agents -> [Workspaces -> {"none", "live", "ended"}]]
      /\ content \in [Workspaces -> [Users -> {"none", "live", "revoked"}]]
      /\ conn \in Conns
      /\ lead \in [Workspaces -> Agents \cup {Nobody}]
      /\ Nobody \notin Agents
  BY WorkspaceConstants DEF WorkspaceConstants, TypeOK, Conns
<1>2. /\ seat' = SeatsAfterRemoval(w, u)
      /\ lead' = LeadAfterExit(w, Owned(u))
      /\ content' = ContentAfterRemoval(w, u)
      /\ conn' = ApprovalsAfterExit(w, Owned(u))
  BY DEF RemoveMember
<1>3. content'[w][u] # "live"
  BY <1>1, <1>2 DEF ContentAfterRemoval
<1>4. ASSUME NEW a \in Owned(u)
      PROVE  a \in Agents /\ agent[a].owner = u
  BY DEF Owned
<1>5. ASSUME NEW a \in Owned(u)
      PROVE  seat'[a][w] # "live"
  BY <1>1, <1>2, <1>4 DEF SeatsAfterRemoval, SeatsOf
<1>6. ASSUME NEW a \in Owned(u)
      PROVE  conn'[a][w] # "live"
  BY <1>1, <1>2, <1>4 DEF ApprovalsAfterExit, Conns
<1>7. ASSUME NEW a \in Owned(u)
      PROVE  lead'[w] # a
  BY <1>1, <1>2, <1>4 DEF LeadAfterExit
<1> QED
  BY <1>3, <1>5, <1>6, <1>7

\* A content role comes into force by the consent of a member or, unless it
\* was revoked before, with a join.
LEMMA ContentTaken ==
    ASSUME TypeOK, [Next]_vars, NEW w \in Workspaces, NEW u \in Users,
           content'[w][u] = "live", content[w][u] # "live"
    PROVE  /\ role'[w][u] # "none"
           /\ content[w][u] = "revoked" => Live(w, u)
<1>1. /\ content \in [Workspaces -> [Users -> {"none", "live", "revoked"}]]
      /\ role \in [Workspaces -> [Users -> Roles \cup {"none"}]]
  BY DEF TypeOK
<1>2. ASSUME NEW x, NEW o, NEW v, RemoveMember(x, o, v)
      PROVE  FALSE
  BY <1>1, <1>2 DEF RemoveMember, ContentAfterRemoval
<1>3. ASSUME NEW x, NEW o, NEW a,
             RemoveAgent(x, o, a) \/ Approve(x, o, a) \/ Withdraw(x, o, a)
      PROVE  FALSE
  BY <1>3 DEF RemoveAgent, Approve, Withdraw
<1>4. ASSUME NEW x, NEW o, NEW p, NEW a, Provision(x, o, p, a)
      PROVE  Live(w, u) /\ UNCHANGED role
  <2>1. /\ content' = [content EXCEPT ![x][o] = "live"]
        /\ Live(x, o) /\ UNCHANGED people
    BY <1>4 DEF Provision, Admitted
  <2>2. x = w /\ o = u
    BY <1>1, <2>1
  <2> QED
    BY <2>1, <2>2 DEF people
<1>5. ASSUME NEW o, NEW i, JoinHousehold(o, i)
      PROVE  role'[w][u] # "none" /\ content[w][u] # "revoked"
  <2>1. /\ content' = ContentAfterJoin(inv[i].ws, o)
        /\ role' = [role EXCEPT ![inv[i].ws][o] = "member"]
    BY <1>5 DEF JoinHousehold, Joins
  <2>2. inv[i].ws = w /\ o = u /\ content[w][u] # "revoked"
    BY <1>1, <2>1 DEF ContentAfterJoin
  <2> QED
    BY <1>1, <2>1, <2>2
<1> QED
  BY <1>2, <1>3, <1>4, <1>5, ContentSteps DEF Live

LEMMA RightsKept ==
    ASSUME TypeOK, SeatsAreOfAgents, RightsFollowMembership, [Next]_vars
    PROVE  RightsFollowMembership'
<1> SUFFICES ASSUME NEW w \in Workspaces, NEW u \in Users,
                    role'[w][u] = "none"
             PROVE  SeatsOf(w, u)' = {} /\ content'[w][u] # "live"
  BY DEF RightsFollowMembership, Live
<1>1. ASSUME NEW a \in Agents, agent'[a].owner = u, seat'[a][w] = "live"
      PROVE  FALSE
  <2>1. CASE seat[a][w] = "live"
    <3>1. agent[a] # NoPrincipal /\ agent[a].owner = u
      BY <1>1, <2>1, PrincipalKeeps DEF SeatsAreOfAgents
    <3>2. a \in SeatsOf(w, u) /\ a \in Owned(u)
      BY <2>1, <3>1 DEF SeatsOf, Owned
    <3>3. Live(w, u)
      BY <3>2 DEF RightsFollowMembership
    <3> QED
      BY <1>1, <3>2, <3>3, Leaving, RemovalTakes
  <2>2. CASE seat[a][w] # "live"
    BY <1>1, <2>2, SeatTaken DEF Live
  <2> QED
    BY <2>1, <2>2
<1>2. ASSUME content'[w][u] = "live"
      PROVE  FALSE
  <2>1. CASE content[w][u] = "live"
    <3>1. Live(w, u)
      BY <2>1 DEF RightsFollowMembership
    <3> QED
      BY <1>2, <3>1, Leaving, RemovalTakes
  <2>2. CASE content[w][u] # "live"
    BY <1>2, <2>2, ContentTaken
  <2> QED
    BY <2>1, <2>2
<1> QED
  BY <1>1, <1>2 DEF SeatsOf

\* A new lead is alive, and the old one stays only while it is.
LEMMA LeadKept ==
    ASSUME TypeOK, SeatsAreOfAgents, LeadIsAlive, [Next]_vars
    PROVE  LeadIsAlive'
<1> SUFFICES ASSUME NEW w \in Workspaces, NEW a, a = lead'[w], a # Nobody
             PROVE  /\ ~agent'[a].revoked
                    /\ seat'[a][w] = "live"
                    /\ role'[w][agent'[a].owner] # "none"
  BY DEF LeadIsAlive, Live
<1>1. /\ seat \in [Agents -> [Workspaces -> {"none", "live", "ended"}]]
      /\ agent \in [Agents -> PrincipalRows \cup {NoPrincipal}]
      /\ lead \in [Workspaces -> Agents \cup {Nobody}]
      /\ a \in Agents
  BY TypesKept DEF TypeOK, PrincipalRows
<1>2. CASE lead[w] # a
  <2>1. PICK x \in Workspaces, u \in Users, b \in Agents \cup {Nobody} :
               SetLead(x, u, b)
    <3>1. ASSUME NEW x, NEW o, NEW v, RemoveMember(x, o, v)
          PROVE  FALSE
      BY <1>1, <1>2, <3>1 DEF RemoveMember, LeadAfterExit
    <3>2. ASSUME NEW x, NEW o, NEW b, CreateAgent(x, o, b) \/ AddAgent(x, o, b)
          PROVE  FALSE
      BY <1>2, <3>2 DEF CreateAgent, AddAgent
    <3>3. ASSUME NEW x, NEW o, NEW b,
                 RevokeAgent(x, o, b) \/ RemoveAgent(x, o, b)
          PROVE  FALSE
      BY <1>1, <1>2, <3>3
      DEF RevokeAgent, RemoveAgent, LeadAfterExit, LeadAfterRevocation
    <3> QED
      BY <1>2, <3>1, <3>2, <3>3, AgentSteps
  <2>2. x = w /\ b = a
    BY <1>1, <1>2, <2>1 DEF SetLead
  <2>3. /\ UNCHANGED <<agent, seat, role>>
        /\ ~agent[a].revoked /\ seat[a][w] = "live"
        /\ Live(w, agent[a].owner)
    BY <2>1, <2>2 DEF SetLead, people
  <2> QED
    BY <2>3 DEF Live
<1>3. CASE lead[w] = a
  <2>1. /\ ~agent[a].revoked /\ seat[a][w] = "live"
        /\ Live(w, agent[a].owner) /\ agent[a] # NoPrincipal
    BY <1>1, <1>3 DEF LeadIsAlive, SeatsAreOfAgents
  <2>2. agent'[a].owner = agent[a].owner /\ agent[a].owner \in Users
    BY <1>1, <2>1, PrincipalKeeps, PrincipalRow
  <2>3. a \in Owned(agent[a].owner)
    BY <1>1 DEF Owned
  <2>4. role'[w][agent'[a].owner] # "none"
    BY <2>1, <2>2, <2>3, Leaving, RemovalTakes
  <2>5. ASSUME NEW x \in Workspaces, NEW o, NEW v \in Users,
               RemoveMember(x, o, v)
        PROVE  ~agent'[a].revoked /\ seat'[a][w] = "live"
    <3>1. UNCHANGED agent /\ seat' = SeatsAfterRemoval(x, v)
      BY <2>5 DEF RemoveMember
    <3>2. x # w \/ a \notin SeatsOf(x, v)
      BY <2>5, RemovalTakes DEF SeatsOf, Owned
    <3> QED
      BY <1>1, <2>1, <3>1, <3>2 DEF SeatsAfterRemoval
  <2>6. ASSUME NEW x, NEW o, NEW b \in Agents, CreateAgent(x, o, b)
        PROVE  ~agent'[a].revoked /\ seat'[a][w] = "live"
    <3>1. b # a
      BY <2>1, <2>6 DEF CreateAgent
    <3> QED
      BY <1>1, <2>1, <2>6, <3>1 DEF CreateAgent
  <2>7. ASSUME NEW x, NEW o, NEW b \in Agents, RevokeAgent(x, o, b)
        PROVE  ~agent'[a].revoked /\ seat'[a][w] = "live"
    <3>1. b # a
      BY <1>1, <1>3, <2>7, WorkspaceConstants
      DEF RevokeAgent, LeadAfterRevocation, WorkspaceConstants
    <3>2. /\ agent' = [agent EXCEPT ![b] = [agent[b] EXCEPT !.revoked = TRUE]]
          /\ seat' = [seat EXCEPT ![b][x] = "ended"]
      BY <1>1, <2>7 DEF RevokeAgent
    <3> QED
      BY <1>1, <2>1, <3>1, <3>2
  <2>8. ASSUME NEW x, NEW o, NEW b, AddAgent(x, o, b) \/ SetLead(x, o, b)
        PROVE  ~agent'[a].revoked /\ seat'[a][w] = "live"
    BY <1>1, <2>1, <2>8 DEF AddAgent, SetLead
  <2>9. ASSUME NEW x \in Workspaces, NEW o, NEW b \in Agents,
               RemoveAgent(x, o, b)
        PROVE  ~agent'[a].revoked /\ seat'[a][w] = "live"
    <3>1. b # a \/ x # w
      BY <1>1, <1>3, <2>1, <2>9 DEF RemoveAgent, LeadAfterExit
    <3> QED
      BY <1>1, <2>1, <2>9, <3>1 DEF RemoveAgent
  <2>10. ~agent'[a].revoked /\ seat'[a][w] = "live"
    BY <2>1, <2>5, <2>6, <2>7, <2>8, <2>9, AgentSteps
  <2> QED
    BY <2>4, <2>10
<1> QED
  BY <1>2, <1>3

\* The boundary of a household is set once.
LEMMA BoundaryKeeps ==
    ASSUME TypeOK, [Next]_vars, NEW w \in Workspaces, boundary[w] # "none"
    PROVE  boundary'[w] = boundary[w]
<1>1. boundary \in [Workspaces -> {"none", "shared"} \cup Users]
  BY DEF TypeOK
<1>2. ASSUME NEW x, NEW o, NEW v, RemoveMember(x, o, v)
      PROVE  UNCHANGED boundary
  BY <1>2 DEF RemoveMember
<1>3. ASSUME NEW x, NEW o, NEW a,
             RemoveAgent(x, o, a) \/ Approve(x, o, a) \/ Withdraw(x, o, a)
      PROVE  UNCHANGED boundary
  BY <1>3 DEF RemoveAgent, Approve, Withdraw
<1>4. ASSUME NEW x, NEW o, NEW p, NEW a, Provision(x, o, p, a)
      PROVE  boundary'[w] = boundary[w]
  BY <1>1, <1>4 DEF Provision
<1>5. ASSUME NEW o, NEW i, JoinHousehold(o, i)
      PROVE  UNCHANGED boundary
  BY <1>5 DEF JoinHousehold
<1> QED
  BY <1>2, <1>3, <1>4, <1>5, ContentSteps

\* An approval is given by the owner of an agent at work, under the owner's
\* own consent.
LEMMA ApprovalGiven ==
    ASSUME TypeOK, [Next]_vars, NEW w \in Workspaces, NEW a \in Agents,
           conn'[a][w] = "live", conn[a][w] # "live"
    PROVE  /\ UNCHANGED <<agent, seat>>
           /\ agent[a].owner \in Users
           /\ seat[a][w] = "live"
           /\ content'[w][agent[a].owner] = "live"
           /\ boundary'[w] \in {"shared", agent[a].owner}
<1>1. /\ content \in [Workspaces -> [Users -> {"none", "live", "revoked"}]]
      /\ boundary \in [Workspaces -> {"none", "shared"} \cup Users]
      /\ conn \in Conns
      /\ Nobody \notin Agents
  BY WorkspaceConstants DEF WorkspaceConstants, TypeOK, Conns
<1>2. ASSUME NEW x, NEW S, conn' = ApprovalsAfterExit(x, S)
      PROVE  FALSE
  BY <1>1, <1>2 DEF ApprovalsAfterExit, Conns
<1>3. ASSUME NEW x, NEW o, NEW b,
             \/ RemoveMember(x, o, b) \/ RemoveAgent(x, o, b)
             \/ Withdraw(x, o, b)
      PROVE  FALSE
  BY <1>2, <1>3 DEF RemoveMember, RemoveAgent, Withdraw
<1>4. ASSUME NEW o, NEW i, JoinHousehold(o, i)
      PROVE  FALSE
  BY <1>2, <1>4 DEF JoinHousehold
<1>5. ASSUME NEW x, NEW o \in Users, NEW b, Approve(x, o, b)
      PROVE  /\ UNCHANGED <<agent, seat, content, boundary>>
             /\ agent[a].owner = o /\ seat[a][w] = "live"
             /\ content[w][o] = "live" /\ boundary[w] \in {"shared", o}
  <2>1. a = b /\ x = w
    BY <1>1, <1>5 DEF Approve, Connected, Conns
  <2> QED
    BY <1>5, <2>1 DEF Approve, MayConnect, Works
<1>6. ASSUME NEW x, NEW o \in Users, NEW p \in {"shared", o}, NEW b,
             Provision(x, o, p, b)
      PROVE  /\ UNCHANGED <<agent, seat>>
             /\ agent[a].owner = o /\ seat[a][w] = "live"
             /\ content'[w][o] = "live" /\ boundary'[w] \in {"shared", o}
  <2>1. Outdated(x, o)[a][w] # "live"
    BY <1>1 DEF Outdated, Conns
  <2>2. conn' = Connected(Outdated(x, o), x, b) /\ b # Nobody
    BY <1>6, <2>1 DEF Provision
  <2>3. Outdated(x, o) \in Conns
    BY <1>1 DEF Outdated, Conns
  <2>4. a = b /\ x = w
    BY <2>1, <2>2, <2>3 DEF Connected, Conns
  <2>5. MayConnect(w, o, a) /\ UNCHANGED <<agent, seat>>
    BY <1>6, <2>2, <2>4 DEF Provision
  <2>6. content'[w][o] = "live" /\ boundary'[w] = p
    BY <1>1, <1>6, <2>4 DEF Provision
  <2> QED
    BY <2>5, <2>6 DEF MayConnect, Works
<1> QED
  BY <1>3, <1>4, <1>5, <1>6, ContentSteps

LEMMA ApprovalsKept ==
    ASSUME TypeOK, RightsFollowMembership, ApprovalsRest, [Next]_vars
    PROVE  ApprovalsRest'
<1> SUFFICES ASSUME NEW a \in Agents, NEW w \in Workspaces,
                    conn'[a][w] = "live"
             PROVE  /\ agent'[a] # NoPrincipal
                    /\ content'[w][agent'[a].owner] = "live"
                    /\ boundary'[w] \in {"shared", agent'[a].owner}
                    /\ seat'[a][w] = "live" \/ agent'[a].revoked
  BY DEF ApprovalsRest, NoPrincipal
<1>1. CASE conn[a][w] # "live"
  <2>1. agent'[a] = agent[a] /\ agent[a] # NoPrincipal
    BY <1>1, ApprovalGiven, OwnedRow
  <2> QED
    BY <1>1, <2>1, ApprovalGiven
<1>2. CASE conn[a][w] = "live"
  <2> DEFINE o == agent[a].owner
  <2>1. /\ agent[a] # NoPrincipal
        /\ content[w][o] = "live" /\ boundary[w] \in {"shared", o}
        /\ seat[a][w] = "live" \/ agent[a].revoked
    BY <1>2 DEF ApprovalsRest
  <2>2. /\ agent'[a] # NoPrincipal /\ agent'[a].owner = o
        /\ agent[a].revoked => agent'[a].revoked
        /\ o \in Users /\ a \in Owned(o)
    BY <2>1, PrincipalKeeps, PrincipalRow DEF Owned
  <2>3. ASSUME NEW v \in Users, RemoveMember(w, v, o)
        PROVE  FALSE
    BY <2>2, <2>3, RemovalTakes
  <2>4. content'[w][o] = "live"
    <3>1. content \in [Workspaces -> [Users -> {"none", "live", "revoked"}]]
      BY DEF TypeOK
    <3>2. ASSUME NEW x \in Workspaces, NEW u \in Users, NEW v \in Users,
                 RemoveMember(x, u, v)
          PROVE  content'[w][o] = "live"
      <4>1. x # w \/ v # o
        BY <2>3, <3>2
      <4> QED
        BY <2>1, <2>2, <3>1, <3>2, <4>1 DEF RemoveMember, ContentAfterRemoval
    <3>3. ASSUME NEW x, NEW u, NEW b,
                 RemoveAgent(x, u, b) \/ Approve(x, u, b) \/ Withdraw(x, u, b)
          PROVE  content'[w][o] = "live"
      BY <2>1, <3>3 DEF RemoveAgent, Approve, Withdraw
    <3>4. ASSUME NEW x, NEW u, NEW p, NEW b, Provision(x, u, p, b)
          PROVE  content'[w][o] = "live"
      BY <2>1, <2>2, <3>1, <3>4 DEF Provision
    <3>5. ASSUME NEW u, NEW i, JoinHousehold(u, i)
          PROVE  content'[w][o] = "live"
      BY <2>1, <2>2, <3>1, <3>5 DEF JoinHousehold, ContentAfterJoin
    <3> HIDE DEF o
    <3> QED
      BY <2>1, <3>2, <3>3, <3>4, <3>5, ContentSteps
  <2>5. boundary'[w] \in {"shared", o}
    BY <2>1, <2>2, BoundaryKeeps, WorkspaceConstants DEF WorkspaceConstants
  <2>6. seat'[a][w] = "live" \/ agent'[a].revoked
    <3>1. SUFFICES ASSUME seat[a][w] = "live", seat'[a][w] # "live"
                   PROVE  agent'[a].revoked
      BY <2>1, <2>2
    <3>2. /\ seat \in [Agents -> [Workspaces -> {"none", "live", "ended"}]]
          /\ agent \in [Agents -> PrincipalRows \cup {NoPrincipal}]
          /\ conn \in Conns
      BY DEF TypeOK, PrincipalRows, Conns
    <3>3. ASSUME NEW x \in Workspaces, NEW u \in Users, NEW v \in Users,
                 RemoveMember(x, u, v)
          PROVE  FALSE
      <4>1. x = w /\ v = o
        BY <3>1, <3>2, <3>3 DEF RemoveMember, SeatsAfterRemoval, SeatsOf
      <4> QED
        BY <2>3, <3>3, <4>1
    <3>4. ASSUME NEW x, NEW u, NEW b \in Agents, RevokeAgent(x, u, b)
          PROVE  agent'[a].revoked
      <4>1. a = b
        BY <3>1, <3>2, <3>4 DEF RevokeAgent
      <4>2. agent' = [agent EXCEPT ![a] = [agent[a] EXCEPT !.revoked = TRUE]]
        BY <3>2, <3>4, <4>1 DEF RevokeAgent
      <4>3. agent[a] \in PrincipalRows
        BY <2>1, <3>2
      <4> QED
        BY <3>2, <4>2, <4>3 DEF PrincipalRows
    <3>5. ASSUME NEW x, NEW u, NEW b, RemoveAgent(x, u, b)
          PROVE  FALSE
      <4>1. a = b /\ x = w /\ conn' = ApprovalsAfterExit(w, {a})
        BY <3>1, <3>2, <3>5 DEF RemoveAgent
      <4> QED
        BY <1>2, <3>2, <4>1 DEF ApprovalsAfterExit, Conns
    <3>6. ASSUME NEW x, NEW u, NEW b,
                 CreateAgent(x, u, b) \/ AddAgent(x, u, b) \/ SetLead(x, u, b)
          PROVE  FALSE
      BY <3>1, <3>2, <3>6 DEF CreateAgent, AddAgent, SetLead
    <3> QED
      BY <3>1, <3>3, <3>4, <3>5, <3>6, AgentSteps
  <2> QED
    BY <2>2, <2>4, <2>5, <2>6
<1> QED
  BY <1>1, <1>2

\* A workspace that was archived stays so.
LEMMA ArchivedStays ==
    ASSUME TypeOK, [Next]_vars, NEW w \in Workspaces, archived[w]
    PROVE  archived'[w]
<1>1. archived \in [Workspaces -> BOOLEAN]
  BY DEF TypeOK
<1>2. ASSUME UNCHANGED vars \/ Tick
      PROVE  archived'[w]
  BY <1>2 DEF vars, Tick
<1>3. ASSUME NEW x, NEW u, ArchiveWorkspace(x, u)
      PROVE  archived'[w]
  BY <1>1, <1>3 DEF ArchiveWorkspace
<1>4. ASSUME NEW x, NEW u, NEW v, NEW r,
             \/ CreateWorkspace(x, u) \/ RenameWorkspace(x, u)
             \/ RemoveMember(x, u, v) \/ ChangeRole(x, u, v, r)
      PROVE  archived'[w]
  BY <1>4 DEF CreateWorkspace, RenameWorkspace, RemoveMember, ChangeRole
<1>5. ASSUME NEW x, NEW u, NEW i, NEW e, NEW t,
             RevokeInvitation(x, u, i) \/ InviteMember(x, u, i, e, t)
      PROVE  archived'[w]
  BY <1>5 DEF RevokeInvitation, InviteMember
<1>6. ASSUME NEW x, NEW u, NEW p, NEW a,
             \/ CreateAgent(x, u, a) \/ RevokeAgent(x, u, a)
             \/ AddAgent(x, u, a) \/ RemoveAgent(x, u, a)
             \/ SetLead(x, u, a) \/ Approve(x, u, a) \/ Withdraw(x, u, a)
             \/ Provision(x, u, p, a)
      PROVE  archived'[w]
  BY <1>6 DEF CreateAgent, RevokeAgent, AddAgent, RemoveAgent, SetLead,
              Approve, Withdraw, Provision
<1>7. ASSUME NEW u, NEW i,
             \/ RouteInvitation(u, i) \/ AcceptInvitation(u, i)
             \/ Preview(u, i) \/ JoinHousehold(u, i)
      PROVE  archived'[w]
  BY <1>7 DEF RouteInvitation, AcceptInvitation, Preview, JoinHousehold
<1>8. ASSUME Next
      PROVE  archived'[w]
  BY <1>2, <1>3, <1>4, <1>5, <1>6, <1>7, <1>8 DEF Next
<1> QED
  BY <1>2, <1>8

-----------------------------------------------------------------------------
(* The theorems. *)

\* The conjuncts of Inv hold together in every state: no command or request,
\* in any order, leaves it.
THEOREM Invariance == Spec => []Inv
<1>1. Init => Inv
  <2> SUFFICES ASSUME Init
               PROVE  Inv
    OBVIOUS
  <2>1. NothingUncreated
    BY DEF Init, NothingUncreated, Live
  <2>2. OwnerRemains /\ LeadIsAlive
    BY DEF Init, OwnerRemains, LeadIsAlive
  <2>3. SeatsAreOfAgents /\ RightsFollowMembership /\ ApprovalsRest
    BY DEF Init, SeatsAreOfAgents, RightsFollowMembership, ApprovalsRest,
           SeatsOf
  <2> QED
    BY <2>1, <2>2, <2>3, TypesInit DEF Inv
<1>2. Inv /\ [Next]_vars => Inv'
  BY TypesKept, UncreatedKept, OwnerKept, SeatsKept, LeadKept, RightsKept,
     ApprovalsKept DEF Inv
<1> QED
  BY <1>1, <1>2, PTL DEF Spec

\* The rows and requests stay within their types.
THEOREM TypeCorrect == Spec => []TypeOK
<1>1. Inv => TypeOK
  BY DEF Inv
<1> QED
  BY <1>1, Invariance, PTL

\* A workspace that exists has a live owner, whoever removed, demoted,
\* re-invited or re-created whom.
THEOREM OwnersRemain == Spec => []OwnerRemains
<1>1. Inv => OwnerRemains
  BY DEF Inv
<1> QED
  BY <1>1, Invariance, PTL

\* The stored lead is not revoked, sits in the workspace and belongs to a
\* member of it: the three clearing triggers are enough.
THEOREM LeadsAreAlive == Spec => []LeadIsAlive
<1>1. Inv => LeadIsAlive
  BY DEF Inv
<1> QED
  BY <1>1, Invariance, PTL

\* Seats and content roles end with the membership of their person.
THEOREM RightsEnd == Spec => []RightsFollowMembership
<1>1. Inv => RightsFollowMembership
  BY DEF Inv
<1> QED
  BY <1>1, Invariance, PTL

\* One invitation, open and unexpired, is spent for every entry that is not the
\* creator's own create_workspace, and a decided one never changes: the locked
\* decision of both accept paths.
THEOREM JoinsSpend == Spec => JoinSpendsInvitation
<1> DEFINE Entry == \A w \in Workspaces, u \in Users :
                      Enters(w, u) =>
                        \/ Creates(w, u)
                        \/ \E i \in Invitations :
                             Spent(u) = {i} /\ inv[i].ws = w /\ Unexpired(i)
           Decided == \A i \in Invitations :
                        inv[i].state \in {"consumed", "revoked"} =>
                          inv'[i] = inv[i]
<1>1. ASSUME Inv, [Next]_vars
      PROVE  Entry
  <2> SUFFICES ASSUME NEW w \in Workspaces, NEW u \in Users,
                      Enters(w, u), ~Creates(w, u)
               PROVE  \E i \in Invitations :
                        Spent(u) = {i} /\ inv[i].ws = w /\ Unexpired(i)
    OBVIOUS
  <2>1. PICK i \in Invitations :
               /\ inv[i].ws = w /\ Joins(u, i)
               /\ Pending(i) /\ Unexpired(i)
    BY <1>1, Entering
    DEF Inv, MayAccept, JoinHousehold, MayJoinHousehold
  <2> DEFINE new == [inv[i] EXCEPT !.state = "consumed", !.who = u]
  <2>2. /\ inv \in [Invitations -> InvitationRows \cup {NoInvitation}]
        /\ inv[i] \in InvitationRows
    BY <1>1, <2>1, InvitationRow, PendingRow DEF Inv, TypeOK
  <2>3. inv' = [inv EXCEPT ![i] = new]
    BY <2>1, <2>2 DEF Joins
  <2>4. new.state = "consumed" /\ new.who = u
    BY <2>2 DEF InvitationRows
  <2> HIDE DEF new
  <2>5. i \in Spent(u)
    BY <2>1, <2>2, <2>3, <2>4 DEF Spent
  <2>6. ASSUME NEW j \in Spent(u)
        PROVE  j = i
    BY <2>2, <2>3, <2>6 DEF Spent, Pending
  <2> QED
    BY <2>1, <2>5, <2>6
<1>2. ASSUME Inv, [Next]_vars
      PROVE  Decided
  <2> SUFFICES ASSUME NEW i \in Invitations,
                      inv[i].state \in {"consumed", "revoked"}
               PROVE  inv'[i] = inv[i]
    OBVIOUS
  <2>1. /\ inv \in [Invitations -> InvitationRows \cup {NoInvitation}]
        /\ ~Pending(i) /\ inv[i] # NoInvitation
    BY <1>2 DEF Inv, TypeOK, Pending, NoInvitation
  <2>2. ASSUME NEW w, NEW u, NEW v, RemoveMember(w, u, v)
        PROVE  inv'[i] = inv[i]
    BY <2>1, <2>2 DEF RemoveMember, InvitationsAfterRemoval
  <2>3. ASSUME NEW w, NEW u, NEW j, RevokeInvitation(w, u, j)
        PROVE  inv'[i] = inv[i]
    BY <2>1, <2>3 DEF RevokeInvitation
  <2>4. ASSUME NEW w, NEW u, NEW j, NEW e, NEW t, InviteMember(w, u, j, e, t)
        PROVE  inv'[i] = inv[i]
    BY <2>1, <2>4 DEF InviteMember
  <2>5. ASSUME NEW u, NEW j, AcceptInvitation(u, j) \/ JoinHousehold(u, j)
        PROVE  inv'[i] = inv[i]
    <3>1. UNCHANGED inv \/ (Pending(j) /\ Joins(u, j))
      BY <2>5
      DEF AcceptInvitation, JoinHousehold, MayAccept, MayJoinHousehold
    <3> QED
      BY <2>1, <3>1 DEF Joins
  <2> QED
    BY <1>2, <2>2, <2>3, <2>4, <2>5, InvitationSteps
<1>3. Inv /\ [Next]_vars => [Entry /\ Decided]_vars
  BY <1>1, <1>2
<1> QED
  BY <1>3, Invariance, PTL DEF Spec, JoinSpendsInvitation

\* A removed person who is a member again was invited after the removal, or is
\* the creator, who gets back the bare membership.
THEOREM RemovalsStick == Spec => RemovalSticks
<1> DEFINE Again == \A w \in Workspaces, u \in Users :
                      Enters(w, u) /\ gone[w][u] # 0 =>
                        \/ Creates(w, u)
                        \/ \E i \in Spent(u) : inv[i].made > gone[w][u]
<1>1. ASSUME Inv, [Next]_vars
      PROVE  Again
  <2> SUFFICES ASSUME NEW w \in Workspaces, NEW u \in Users,
                      Enters(w, u), gone[w][u] # 0, ~Creates(w, u)
               PROVE  \E i \in Spent(u) : inv[i].made > gone[w][u]
    OBVIOUS
  <2>1. PICK i \in Invitations :
               /\ inv[i].ws = w /\ Joins(u, i)
               /\ Pending(i) /\ PostdatesRemoval(u, i)
    BY <1>1, Entering
    DEF Inv, MayAccept, LockedFence, JoinHousehold, MayJoinHousehold
  <2> DEFINE new == [inv[i] EXCEPT !.state = "consumed", !.who = u]
  <2>2. /\ inv \in [Invitations -> InvitationRows \cup {NoInvitation}]
        /\ inv[i] \in InvitationRows
    BY <1>1, <2>1, InvitationRow, PendingRow DEF Inv, TypeOK
  <2>3. inv' = [inv EXCEPT ![i] = new]
    BY <2>1, <2>2 DEF Joins
  <2>4. new.state = "consumed" /\ new.who = u
    BY <2>2 DEF InvitationRows
  <2> HIDE DEF new
  <2>5. i \in Spent(u)
    BY <2>1, <2>2, <2>3, <2>4 DEF Spent
  <2> QED
    BY <2>1, <2>5 DEF PostdatesRemoval
<1>2. Inv /\ [Next]_vars => [Again]_vars
  BY <1>1
<1> QED
  BY <1>2, Invariance, PTL DEF Spec, RemovalSticks

\* A revoked content role comes back by the consent of a member only.
THEOREM ConsentsAreRenewed == Spec => ConsentIsRenewed
<1> DEFINE Renewed == \A w \in Workspaces, u \in Users :
                        content[w][u] = "revoked" /\ content'[w][u] = "live" =>
                          Live(w, u)
<1>1. Inv /\ [Next]_vars => [Renewed]_vars
  BY ContentTaken DEF Inv
<1> QED
  BY <1>1, Invariance, PTL DEF Spec, ConsentIsRenewed

\* An agent gets the household's content in the step of its approval: no
\* approval waits for its other conditions to come true again.
THEOREM ApprovalGivesAccess == Spec => AccessNeedsApproval
<1> DEFINE Given == \A w \in Workspaces, a \in Agents :
                      ~MayUseContent(w, a) /\ MayUseContent(w, a)' =>
                        conn[a][w] # "live" /\ conn'[a][w] = "live"
<1>1. ASSUME Inv, [Next]_vars, NEW w \in Workspaces, archived[w]
      PROVE  archived'[w]
  BY <1>1, ArchivedStays DEF Inv
<1>2. ASSUME Inv, [Next]_vars
      PROVE  Given
  <2> SUFFICES ASSUME NEW w \in Workspaces, NEW a \in Agents,
                      MayUseContent(w, a)', conn[a][w] = "live"
               PROVE  MayUseContent(w, a)
    BY DEF MayUseContent
  <2>1. /\ agent[a] # NoPrincipal
        /\ content[w][agent[a].owner] = "live"
        /\ boundary[w] \in {"shared", agent[a].owner}
        /\ seat[a][w] = "live" \/ agent[a].revoked
    BY <1>2 DEF Inv, ApprovalsRest
  <2>2. agent[a].owner \in Users /\ ~agent[a].revoked
    BY <1>2, <2>1, PrincipalRow, PrincipalKeeps DEF Inv, MayUseContent, Works
  <2>3. Live(w, agent[a].owner)
    BY <1>2, <2>1, <2>2 DEF Inv, RightsFollowMembership
  <2>4. ~archived[w]
    BY <1>1, <1>2 DEF MayUseContent, Works
  <2> QED
    BY <2>1, <2>2, <2>3, <2>4 DEF MayUseContent, Works
<1>3. Inv /\ [Next]_vars => [Given]_vars
  BY <1>2
<1> QED
  BY <1>3, Invariance, PTL DEF Spec, AccessNeedsApproval

\* Whoever joins a shared household saw its present audience in the preview, or
\* is its creator, who gets back the bare membership.
THEOREM JoinsAreReviewed == Spec => JoinsReviewedAudience
<1> DEFINE Reviewed == \A w \in Workspaces, u \in Users :
                         Enters(w, u) /\ boundary[w] = "shared" =>
                           Creates(w, u) \/ review[u].audience = Audience(w)
<1>1. ASSUME Inv, [Next]_vars
      PROVE  Reviewed
  <2> SUFFICES ASSUME NEW w \in Workspaces, NEW u \in Users,
                      Enters(w, u), boundary[w] = "shared", ~Creates(w, u)
               PROVE  review[u].audience = Audience(w)
    OBVIOUS
  <2>1. PICK i \in Invitations : inv[i].ws = w /\ JoinHousehold(u, i)
    BY <1>1, Entering DEF Inv, LockedFence
  <2> QED
    BY <2>1 DEF JoinHousehold, SameReview
<1>2. Inv /\ [Next]_vars => [Reviewed]_vars
  BY <1>1
<1> QED
  BY <1>2, Invariance, PTL DEF Spec, JoinsReviewedAudience

=============================================================================
