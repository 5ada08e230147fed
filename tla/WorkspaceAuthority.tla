------------------------- MODULE WorkspaceAuthority -------------------------
(***************************************************************************)
(* Who belongs to a workspace, and what a membership carries with it:      *)
(* roles, invitations, the agents a member brought along, the workspace    *)
(* lead, the right to the household's content and the agents a member has  *)
(* allowed to use it.                                                      *)
(*                                                                         *)
(* A command of a signed-in member first plans its locks: it reads its     *)
(* admission and the workspace rows it needs, locks them in the order of   *)
(* their ids, reads the plan again and starts over when it changed.  What  *)
(* it then decides and writes happens under those row locks, up to the     *)
(* commit, so such a command is ONE step here, guarded by the admission    *)
(* and the decision as they stand at that step.                            *)
(*                                                                         *)
(* accept_invitation is the exception: its caller is no member yet, so no  *)
(* plan is made.  The route, the revocation check and the first household  *)
(* check are read without any lock (RouteInvitation); workspace and stream *)
(* are locked only then, and the decision is taken on fresh rows           *)
(* (AcceptInvitation).  Everything may have happened in between.           *)
(***************************************************************************)
EXTENDS Naturals, FiniteSets

CONSTANTS
    Users,        \* signed-in people; a person's verified email is the person
    Strangers,    \* email addresses none of them signs in with
    Workspaces,
    Joinable,     \* the workspaces people are invited to in this instance
    Agents,       \* ids of agent principals, all of them local
    Invitations,  \* ids of invitations
    Nobody,       \* no user, no workspace, no agent, no invitation
    Ttls,         \* lifetimes an invitation may be given
    MaxTime       \* the clock stops here

ASSUME WorkspaceConstants ==
    /\ Nobody \notin Users \cup Workspaces \cup Agents \cup Invitations
    /\ Strangers \cap (Users \cup {Nobody}) = {}
    /\ {"none", "shared"} \cap Users = {}    \* see boundary
    /\ Joinable \subseteq Workspaces
    /\ Ttls \subseteq Nat \ {0}
    /\ MaxTime \in Nat \ {0}

VARIABLES
    clock,      \* the database clock; several commands may share a reading
    creator,    \* workspaces.created_by, Nobody while there is no row
    archived,   \* workspaces.archived_at is set
    role,       \* the role of a live memberships row, "none" otherwise
    gone,       \* memberships.revoked_at, 0 when null or when there is no row
    boundary,   \* the household boundary: "none", "shared", or the person
                \* whose personal household the workspace is
    content,    \* household_member_content_roles: "none", "live", "revoked"
    inv,        \* the invitations rows
    agent,      \* the agent_principals rows
    seat,       \* agent_workspace_memberships: "none", "live", "ended"
    lead,       \* workspaces.lead_agent_principal_id
    conn,       \* the agent's household_content_connections row the approval
                \* pointer names: "none", "live", "stale" when its receipt is
                \* not the owner's current consent, "revoked"
    routed,     \* the accept_invitation requests between route and locks
    review      \* the household preview each person last saw

vars == <<clock, creator, archived, role, gone, boundary, content, inv,
          agent, seat, lead, conn, routed, review>>

people  == <<creator, role, gone>>
machine == <<agent, seat, lead, conn>>

Roles == {"owner", "admin", "member"}

-----------------------------------------------------------------------------
(* What the commands read. *)

Live(w, u) == role[w][u] # "none"

Owners(w) == {u \in Users : role[w][u] = "owner"}

\* humanLocalAdmission, repeated after the locks: a live member of a workspace
\* that is not archived.
Admitted(w, u) == ~archived[w] /\ Live(w, u)

Manages(w, u) == Admitted(w, u) /\ role[w][u] \in {"owner", "admin"}

\* The live members and their roles, as the household preview lists them.
Audience(w) == {<<u, role[w][u]>> : u \in {v \in Users : Live(w, v)}}

\* An invitation nobody has used up or withdrawn, before its expiry.
Pending(i) == inv[i].state = "pending"

Unexpired(i) == inv[i].ends > clock

\* An event on the workspace stream moves head_seq, which every preview
\* digest of the workspace contains.
Appends(w) ==
    review' = [u \in Users |->
                 IF review[u].inv # Nobody /\ inv[review[u].inv].ws = w
                 THEN [review[u] EXCEPT !.fresh = FALSE]
                 ELSE review[u]]

NoReview == [inv |-> Nobody, audience |-> {}, fresh |-> FALSE]

NoInvitation == [ws |-> Nobody, email |-> Nobody, by |-> Nobody, made |-> 0,
                 ends |-> 0, state |-> "unused", who |-> Nobody]

NoPrincipal == [owner |-> Nobody, home |-> Nobody, revoked |-> FALSE]

-----------------------------------------------------------------------------
Init ==
    /\ clock = 1
    /\ creator = [w \in Workspaces |-> Nobody]
    /\ archived = [w \in Workspaces |-> FALSE]
    /\ role = [w \in Workspaces |-> [u \in Users |-> "none"]]
    /\ gone = [w \in Workspaces |-> [u \in Users |-> 0]]
    /\ boundary = [w \in Workspaces |-> "none"]
    /\ content = [w \in Workspaces |-> [u \in Users |-> "none"]]
    /\ inv = [i \in Invitations |-> NoInvitation]
    /\ agent = [a \in Agents |-> NoPrincipal]
    /\ seat = [a \in Agents |-> [w \in Workspaces |-> "none"]]
    /\ lead = [w \in Workspaces |-> Nobody]
    /\ conn = [a \in Agents |-> [w \in Workspaces |-> "none"]]
    /\ routed = [u \in Users |-> {}]
    /\ review = [u \in Users |-> NoReview]

\* Time passes.
Tick ==
    /\ clock < MaxTime
    /\ clock' = clock + 1
    /\ UNCHANGED <<people, archived, boundary, content, inv, machine, routed,
                   review>>

\* create_workspace under an id the client proposes.  A taken id is refused
\* unless the caller is its creator; then the same request runs again, whatever
\* has become of the creator's membership since, and it appends no event.
CreateWorkspace(w, u) ==
    /\ creator[w] \in {Nobody, u}
    /\ creator' = [creator EXCEPT ![w] = u]
    /\ role' = [role EXCEPT ![w][u] = "owner"]
    /\ gone' = [gone EXCEPT ![w][u] = 0]
    /\ UNCHANGED <<clock, archived, boundary, content, inv, machine, routed,
                   review>>

\* rename_workspace: the name is not modelled, the event is.
RenameWorkspace(w, u) ==
    /\ Manages(w, u)
    /\ Appends(w)
    /\ UNCHANGED <<clock, people, archived, boundary, content, inv, machine,
                   routed>>

\* archive_workspace: owners only, once.
ArchiveWorkspace(w, u) ==
    /\ Admitted(w, u)
    /\ role[w][u] = "owner"
    /\ archived' = [archived EXCEPT ![w] = TRUE]
    /\ Appends(w)
    /\ UNCHANGED <<clock, people, boundary, content, inv, machine, routed>>

\* invite_member: always as a member; the invitee may not be a live member.
InviteMember(w, u, i, email, ttl) ==
    /\ Manages(w, u)
    /\ inv[i] = NoInvitation
    /\ email \in Users => ~Live(w, email)
    /\ inv' = [inv EXCEPT ![i] =
                 [ws |-> w, email |-> email, by |-> u, made |-> clock,
                  ends |-> clock + ttl, state |-> "pending", who |-> Nobody]]
    /\ Appends(w)
    /\ UNCHANGED <<clock, people, archived, boundary, content, machine, routed>>

\* revoke_invitation: only while it could still be accepted.
RevokeInvitation(w, u, i) ==
    /\ Manages(w, u)
    /\ inv[i].ws = w
    /\ Pending(i)
    /\ Unexpired(i)
    /\ inv' = [inv EXCEPT ![i].state = "revoked"]
    /\ Appends(w)
    /\ UNCHANGED <<clock, people, archived, boundary, content, machine, routed>>

-----------------------------------------------------------------------------
(* Roles and removal. *)

\* Fault: a demotion that does not count the owners.
UncountedOwners(w, v) == TRUE

\* The last owner can neither be removed nor demoted.
NotLastOwner(w, v) ==
    role[w][v] = "owner" => Cardinality(Owners(w)) > 1

\* Owners may act on everybody, admins on everybody but owners.
Outranks(w, u, v) == role[w][u] = "owner" \/ role[w][v] # "owner"

\* change_role
ChangeRole(w, u, v, r) ==
    /\ Manages(w, u)
    /\ Live(w, v)
    /\ role[w][v] # r
    /\ role[w][u] = "owner" \/ (role[w][v] # "owner" /\ r # "owner")
    /\ r # "owner" => NotLastOwner(w, v)
    /\ role' = [role EXCEPT ![w][v] = r]
    /\ Appends(w)
    /\ UNCHANGED <<clock, creator, archived, gone, boundary, content, inv,
                   machine, routed>>

\* The agents of v that sit in w: remove_local_agents_for_member visits each.
SeatsOf(w, v) == {a \in Agents : agent[a].owner = v /\ seat[a][w] = "live"}

\* local_agent_membership_allowed: u may add a to w, or take it away.
MayChangeSeat(w, u, a) ==
    /\ agent[a].owner # Nobody
    /\ ~agent[a].revoked
    /\ Admitted(w, u)
    /\ Live(w, agent[a].owner)
    /\ agent[a].owner = u \/ role[w][u] \in {"owner", "admin"}

\* The triggers on a seat that ends and on a membership that ends.
LeadAfterExit(w, as) == [lead EXCEPT ![w] = IF @ \in as THEN Nobody ELSE @]

\* Fault: an agent that leaves keeps its approval.
KeepsApprovals(w, as) == conn

\* Leaving a workspace withdraws the approval to use its content, whatever the
\* receipt says.
ApprovalsAfterExit(w, as) ==
    [a \in Agents |->
       IF a \in as /\ conn[a][w] \in {"live", "stale"}
       THEN [conn[a] EXCEPT ![w] = "revoked"]
       ELSE conn[a]]

\* The agents u owns.
Owned(u) == {a \in Agents : agent[a].owner = u}

\* remove_member withdraws every unused invitation to the removed person.
InvitationsAfterRemoval(w, v) ==
    [i \in Invitations |->
       IF inv[i].ws = w /\ inv[i].email = v /\ Pending(i)
       THEN [inv[i] EXCEPT !.state = "revoked"]
       ELSE inv[i]]

\* Fault: a removal that leaves the person's agents in their seats.
KeepsSeats(w, v) == seat

\* remove_member ends the seats of the person's agents in this workspace.
SeatsAfterRemoval(w, v) ==
    [a \in Agents |->
       IF a \in SeatsOf(w, v) THEN [seat[a] EXCEPT ![w] = "ended"]
       ELSE seat[a]]

\* remove_member revokes the person's live content role.
ContentAfterRemoval(w, v) ==
    [content EXCEPT ![w][v] = IF @ = "live" THEN "revoked" ELSE @]

\* The decision on remove_member.
MayRemove(w, u, v) ==
    /\ Manages(w, u)
    /\ Live(w, v)
    /\ Outranks(w, u, v)
    /\ NotLastOwner(w, v)

\* The projection of MemberRemoved raises, and the command with it, when one
\* of the person's seats may not be changed: an agent revoked in its home while
\* it was a guest here keeps its seat and its owner for good.
SeatsCanEnd(w, u, v) == \A a \in SeatsOf(w, v) : MayChangeSeat(w, u, a)

\* remove_member
RemoveMember(w, u, v) ==
    /\ MayRemove(w, u, v)
    /\ SeatsCanEnd(w, u, v)
    /\ seat' = SeatsAfterRemoval(w, v)
    /\ lead' = LeadAfterExit(w, Owned(v))
    /\ content' = ContentAfterRemoval(w, v)
    /\ conn' = ApprovalsAfterExit(w, Owned(v))
    /\ inv' = InvitationsAfterRemoval(w, v)
    /\ role' = [role EXCEPT ![w][v] = "none"]
    /\ gone' = [gone EXCEPT ![w][v] = clock]
    /\ Appends(w)
    /\ UNCHANGED <<clock, creator, archived, boundary, agent, routed>>

-----------------------------------------------------------------------------
(* Agents, their seats and the lead. *)

\* create_agent_principal; a trigger seats the agent in its home workspace.
CreateAgent(w, u, a) ==
    /\ Admitted(w, u)
    /\ agent[a] = NoPrincipal
    /\ agent' = [agent EXCEPT ![a] = [owner |-> u, home |-> w,
                                      revoked |-> FALSE]]
    /\ seat' = [seat EXCEPT ![a][w] = "live"]
    /\ Appends(w)
    /\ UNCHANGED <<clock, people, archived, boundary, content, inv, lead, conn,
                   routed>>

\* Fault: only the workspace of the revocation forgets the agent.
LeadClearedAtHome(a) == LeadAfterExit(agent[a].home, {a})

\* The trigger on a revoked principal clears it wherever it leads.
LeadAfterRevocation(a) ==
    [w \in Workspaces |-> IF lead[w] = a THEN Nobody ELSE lead[w]]

\* revoke_agent_principal in the agent's home: by its owner, an owner or an
\* admin, while its seat there is live.  The sync trigger ends the seat in the
\* home workspace and no other.
RevokeAgent(w, u, a) ==
    /\ Admitted(w, u)
    /\ agent[a].home = w
    /\ agent[a].owner = u \/ role[w][u] \in {"owner", "admin"}
    /\ ~agent[a].revoked
    /\ seat[a][w] = "live"
    /\ agent' = [agent EXCEPT ![a].revoked = TRUE]
    /\ seat' = [seat EXCEPT ![a][w] = "ended"]
    /\ lead' = LeadAfterRevocation(a)
    /\ Appends(w)
    /\ UNCHANGED <<clock, people, archived, boundary, content, inv, conn,
                   routed>>

\* The agent sits in a live workspace its owner belongs to, or it once sat in
\* this one.
HasOrigin(w, a) ==
    \/ \E o \in Workspaces : /\ seat[a][o] = "live"
                             /\ ~archived[o]
                             /\ Live(o, agent[a].owner)
    \/ seat[a][w] # "none"

\* add_agent_to_workspace
AddAgent(w, u, a) ==
    /\ MayChangeSeat(w, u, a)
    /\ HasOrigin(w, a)
    /\ seat' = [seat EXCEPT ![a][w] = "live"]
    /\ Appends(w)
    /\ UNCHANGED <<clock, people, archived, boundary, content, inv, agent,
                   lead, conn, routed>>

\* remove_agent_from_workspace, and revoke_agent_principal issued where the
\* agent is a guest.
RemoveAgent(w, u, a) ==
    /\ MayChangeSeat(w, u, a)
    /\ seat' = [seat EXCEPT ![a][w] = IF @ = "live" THEN "ended" ELSE @]
    /\ lead' = IF seat[a][w] = "live" THEN LeadAfterExit(w, {a}) ELSE lead
    /\ conn' = ApprovalsAfterExit(w, {a})
    /\ Appends(w)
    /\ UNCHANGED <<clock, people, archived, boundary, content, inv, agent,
                   routed>>

\* set_workspace_lead, Nobody to clear it.  A setting: no event.
SetLead(w, u, a) ==
    /\ Manages(w, u)
    /\ a # Nobody => /\ ~agent[a].revoked
                     /\ seat[a][w] = "live"
                     /\ Live(w, agent[a].owner)
    /\ lead' = [lead EXCEPT ![w] = a]
    /\ UNCHANGED <<clock, people, archived, boundary, content, inv, agent,
                   seat, conn, routed, review>>

-----------------------------------------------------------------------------
(* Joining. *)

\* local_agent_workspace_live: the agent works here.
Works(w, a) ==
    /\ ~archived[w]
    /\ seat[a][w] = "live"
    /\ ~agent[a].revoked
    /\ Live(w, agent[a].owner)

\* checkedConnection: the caller's own agent, at work here.  Its credential is
\* taken to be live.
MayConnect(w, u, a) == agent[a].owner = u /\ Works(w, a)

\* writeConnection: a new row or the old one, under the current receipt.
Connected(approvals, w, a) == [approvals EXCEPT ![a][w] = "live"]

\* A new receipt of u outdates the approvals given under the last one.
Outdated(w, u) ==
    [a \in Agents |->
       IF a \in Owned(u) /\ conn[a][w] = "live"
       THEN [conn[a] EXCEPT ![w] = "stale"]
       ELSE conn[a]]

\* The household's purpose ("shared", or the caller for a personal one), set
\* once by an owner, and the caller's own consent to a content role, given or
\* given again by any live member.  The new receipt outdates the approvals the
\* caller's agents had; the request may approve one of them anew.
Provision(w, u, purpose, a) ==
    /\ Admitted(w, u)
    /\ boundary[w] = "none" => role[w][u] = "owner"
    /\ boundary[w] \in {"none", purpose}
    /\ a # Nobody => MayConnect(w, u, a)
    /\ boundary' = [boundary EXCEPT ![w] = purpose]
    /\ content' = [content EXCEPT ![w][u] = "live"]
    /\ conn' = IF a = Nobody THEN Outdated(w, u)
               ELSE Connected(Outdated(w, u), w, a)
    /\ UNCHANGED <<clock, people, archived, inv, agent, seat, lead, routed,
                   review>>

\* household_approve_connection: under the consent the caller has given.
Approve(w, u, a) ==
    /\ Admitted(w, u)
    /\ boundary[w] \in {"shared", u}
    /\ content[w][u] = "live"
    /\ MayConnect(w, u, a)
    /\ conn' = Connected(conn, w, a)
    /\ UNCHANGED <<clock, people, archived, boundary, content, inv, agent,
                   seat, lead, routed, review>>

\* household_withdraw_connection, for an agent that works here.
Withdraw(w, u, a) ==
    /\ Admitted(w, u)
    /\ agent[a].owner = u
    /\ Works(w, a)
    /\ conn' = ApprovalsAfterExit(w, {a})
    /\ UNCHANGED <<clock, people, archived, boundary, content, inv, agent,
                   seat, lead, routed, review>>

\* accept_invitation up to the locks: the token names an invitation of a
\* workspace that is not archived; a removed person is refused, and so is
\* everybody when the workspace has a household boundary.
RouteInvitation(u, i) ==
    /\ inv[i] # NoInvitation
    /\ ~archived[inv[i].ws]
    /\ ~Live(inv[i].ws, u)
    /\ gone[inv[i].ws][u] = 0
    /\ boundary[inv[i].ws] = "none"
    /\ routed' = [routed EXCEPT ![u] = @ \cup {i}]
    /\ UNCHANGED <<clock, people, archived, boundary, content, inv, machine,
                   review>>

\* An invitation outlives a removal only when it was issued after it.
PostdatesRemoval(u, i) ==
    LET at == gone[inv[i].ws][u] IN at # 0 => inv[i].made > at

\* Fault: the fence under the locks looks at the household boundary only.
BoundaryFence(u, i) == boundary[inv[i].ws] = "none"

\* legacyAcceptLockedFence: both checks again, on the locked rows.
LockedFence(u, i) ==
    /\ boundary[inv[i].ws] = "none"
    /\ PostdatesRemoval(u, i)

\* Fault: the invitation read on the way in is trusted under the locks.
AlreadyRead(u, i) == ~Live(inv[i].ws, u)

\* decide, then the conditional UPDATE that consumes the invitation.
MayAccept(u, i) ==
    /\ Pending(i)
    /\ Unexpired(i)
    /\ ~Live(inv[i].ws, u)

\* MemberJoined and InvitationAccepted: a live row with the member role, and
\* the invitation used up.
Joins(u, i) ==
    LET w == inv[i].ws IN
    /\ role' = [role EXCEPT ![w][u] = "member"]
    /\ gone' = [gone EXCEPT ![w][u] = 0]
    /\ inv' = [inv EXCEPT ![i].state = "consumed", ![i].who = u]

\* accept_invitation under the locks.  A refused decision is an event of the
\* stream, a refusal by the fence is not; either ends the request.  Whether the
\* workspace was archived meanwhile is not asked again.
AcceptInvitation(u, i) ==
    /\ i \in routed[u]
    /\ routed' = [routed EXCEPT ![u] = @ \ {i}]
    /\ \/ MayAccept(u, i) /\ LockedFence(u, i) /\ Joins(u, i)
                                               /\ Appends(inv[i].ws)
       \/ ~MayAccept(u, i) /\ Appends(inv[i].ws)
                           /\ UNCHANGED <<role, gone, inv>>
       \/ MayAccept(u, i) /\ ~LockedFence(u, i)
                          /\ UNCHANGED <<role, gone, inv, review>>
    /\ UNCHANGED <<clock, creator, archived, boundary, content, machine>>

\* decideHumanInvite for a link invitation, on locked rows: the recipient, not
\* a member, an invitation newer than any removal, still open, from somebody
\* who may still invite, to a shared household.
MayJoinHousehold(u, i) ==
    LET w == inv[i].ws IN
    /\ inv[i] # NoInvitation
    /\ ~archived[w]
    /\ inv[i].email = u
    /\ Pending(i)
    /\ PostdatesRemoval(u, i)
    /\ Unexpired(i)
    /\ role[w][inv[i].by] \in {"owner", "admin"}
    /\ boundary[w] = "shared"
    /\ ~Live(w, u)

\* household_invitation preview: the recipient's client keeps the digest.
Preview(u, i) ==
    /\ MayJoinHousehold(u, i)
    /\ review' = [review EXCEPT ![u] = [inv |-> i, fresh |-> TRUE,
                                        audience |-> Audience(inv[i].ws)]]
    /\ UNCHANGED <<clock, people, archived, boundary, content, inv, machine,
                   routed>>

\* Fault: a digest over the stream position alone.
SamePosition(u) == review[u].fresh

\* The digest covers the stream position and the audience.
SameReview(u) ==
    review[u].fresh /\ review[u].audience = Audience(inv[review[u].inv].ws)

\* Fault: a join that writes the content role whatever the old row says.
ContentGranted(w, u) == [content EXCEPT ![w][u] = "live"]

\* A first join grants the content role; a revoked one stays revoked.
ContentAfterJoin(w, u) ==
    [content EXCEPT ![w][u] = IF @ = "revoked" THEN @ ELSE "live"]

\* household_invitation accept, with the digest of the last preview.
JoinHousehold(u, i) ==
    /\ review[u].inv = i
    /\ MayJoinHousehold(u, i)
    /\ SameReview(u)
    /\ Joins(u, i)
    /\ content' = ContentAfterJoin(inv[i].ws, u)
    /\ conn' = ApprovalsAfterExit(inv[i].ws, Owned(u))
    /\ Appends(inv[i].ws)
    /\ UNCHANGED <<clock, creator, archived, boundary, agent, seat, lead,
                   routed>>

-----------------------------------------------------------------------------
Next ==
    \/ Tick
    \/ \E w \in Workspaces, u \in Users :
         \/ CreateWorkspace(w, u)
         \/ RenameWorkspace(w, u)
         \/ ArchiveWorkspace(w, u)
         \/ \E v \in Users : RemoveMember(w, u, v)
         \/ \E v \in Users, r \in Roles : ChangeRole(w, u, v, r)
         \/ \E i \in Invitations : RevokeInvitation(w, u, i)
         \/ \E a \in Agents : \/ CreateAgent(w, u, a)
                              \/ RevokeAgent(w, u, a)
                              \/ AddAgent(w, u, a)
                              \/ RemoveAgent(w, u, a)
                              \/ Approve(w, u, a)
                              \/ Withdraw(w, u, a)
         \/ \E a \in Agents \cup {Nobody} : SetLead(w, u, a)
    \/ \E w \in Joinable, u \in Users :
         \/ \E i \in Invitations, e \in Users \cup Strangers, t \in Ttls :
              InviteMember(w, u, i, e, t)
         \/ \E p \in {"shared", u}, a \in Owned(u) \cup {Nobody} :
              Provision(w, u, p, a)
    \/ \E u \in Users, i \in Invitations :
         \/ RouteInvitation(u, i)
         \/ AcceptInvitation(u, i)
         \/ Preview(u, i)
         \/ JoinHousehold(u, i)

Spec == Init /\ [][Next]_vars

-----------------------------------------------------------------------------
(* Properties. *)

InvitationRows ==
    [ws : Workspaces, email : Users \cup Strangers, by : Users,
     made : 1..MaxTime, ends : Nat, state : {"pending", "consumed", "revoked"},
     who : Users \cup {Nobody}]

\* The types of the variables.
TypeOK ==
    /\ clock \in 1..MaxTime
    /\ creator \in [Workspaces -> Users \cup {Nobody}]
    /\ archived \in [Workspaces -> BOOLEAN]
    /\ role \in [Workspaces -> [Users -> Roles \cup {"none"}]]
    /\ gone \in [Workspaces -> [Users -> 0..MaxTime]]
    /\ boundary \in [Workspaces -> {"none", "shared"} \cup Users]
    /\ content \in [Workspaces -> [Users -> {"none", "live", "revoked"}]]
    /\ inv \in [Invitations -> InvitationRows \cup {NoInvitation}]
    /\ agent \in [Agents -> [owner : Users, home : Workspaces,
                             revoked : BOOLEAN] \cup {NoPrincipal}]
    /\ seat \in [Agents -> [Workspaces -> {"none", "live", "ended"}]]
    /\ lead \in [Workspaces -> Agents \cup {Nobody}]
    /\ conn \in [Agents -> [Workspaces -> {"none", "live", "stale", "revoked"}]]
    /\ routed \in [Users -> SUBSET Invitations]
    /\ review \in [Users -> [inv : Invitations \cup {Nobody},
                             audience : SUBSET (Users \X Roles),
                             fresh : BOOLEAN]]

\* A workspace that exists has a live owner, whoever removed, demoted,
\* re-invited or re-created whom (owners_count and assertOwnerCount).
OwnerRemains == \A w \in Workspaces : creator[w] # Nobody => Owners(w) # {}

\* The stored lead never names a dead agent: it is not revoked, in whichever
\* workspace that happened, it sits here, and its owner is a member here (the
\* three clearing triggers).
LeadIsAlive ==
    \A w \in Workspaces : lead[w] # Nobody =>
        /\ ~agent[lead[w]].revoked
        /\ seat[lead[w]][w] = "live"
        /\ Live(w, agent[lead[w]].owner)

\* What a membership carried ends with it and does not come back with it: an
\* agent sits only where its owner is a member, and a content role is in force
\* only for a member (remove_local_agents_for_member,
\* revokeRemovedMemberHousehold).
RightsFollowMembership ==
    \A w \in Workspaces : \A u \in Users : ~Live(w, u) =>
        SeatsOf(w, u) = {} /\ content[w][u] # "live"

\* Somebody becomes a live member of w in this step.
Enters(w, u) == ~Live(w, u) /\ role'[w][u] # "none"

\* The invitations u uses up in this step.
Spent(u) == {i \in Invitations : Pending(i) /\ inv'[i].state = "consumed"
                                            /\ inv'[i].who = u}

\* create_workspace, of an unused id or again by the one who created it: it
\* brings the membership, as owner, and none of what a membership carried
\* before.
Creates(w, u) ==
    /\ creator[w] \in {Nobody, u} /\ creator'[w] = u
    /\ role'[w][u] = "owner"
    /\ UNCHANGED <<inv, content, machine>>

\* A person enters a workspace by spending exactly one open, unexpired
\* invitation to it or by creating it, the one step in which a creator may
\* also return, and an invitation that has left the pending state never
\* changes again: both accept paths, racing for the same rows.
JoinSpendsInvitation ==
    [][/\ \A w \in Workspaces, u \in Users : Enters(w, u) =>
            \/ Creates(w, u)
            \/ \E i \in Invitations :
                 Spent(u) = {i} /\ inv[i].ws = w /\ Unexpired(i)
       /\ \A i \in Invitations : inv[i].state \in {"consumed", "revoked"} =>
            inv'[i] = inv[i]]_vars

\* A removed person is a member again only through an invitation issued after
\* the removal, even when the request was routed before it.  A creator who
\* sends create_workspace again returns without one, and gets back neither the
\* content role nor a seat, an approval or the lead that the removal ended.
RemovalSticks ==
    [][\A w \in Workspaces, u \in Users :
         Enters(w, u) /\ gone[w][u] # 0 =>
            \/ Creates(w, u)
            \/ \E i \in Spent(u) : inv[i].made > gone[w][u]]_vars

\* A content role that was revoked comes back only by the consent of somebody
\* who is a member already: joining again does not restore it.
ConsentIsRenewed ==
    [][\A w \in Workspaces, u \in Users :
         content[w][u] = "revoked" /\ content'[w][u] = "live" =>
            Live(w, u)]_vars

\* What agent_reachable_workspaces tells an agent it may do with the content.
MayUseContent(w, a) ==
    /\ Works(w, a)
    /\ conn[a][w] = "live"
    /\ content[w][agent[a].owner] = "live"
    /\ boundary[w] \in {"shared", agent[a].owner}

\* An agent starts to have the content only in the step in which its owner
\* approves it.  No approval lies dormant through a removal, a lost consent or
\* an ended seat and works again when the person rejoins, consents again or
\* somebody seats the agent again.
AccessNeedsApproval ==
    [][\A w \in Workspaces, a \in Agents :
         ~MayUseContent(w, a) /\ MayUseContent(w, a)' =>
            conn[a][w] # "live" /\ conn'[a][w] = "live"]_vars

\* Whoever joins a household joins the audience shown in the preview, with the
\* roles it showed, although memberships can change without an event.  Only the
\* creator, sending create_workspace again, returns without a preview.
JoinsReviewedAudience ==
    [][\A w \in Workspaces, u \in Users :
         Enters(w, u) /\ boundary[w] = "shared" =>
            Creates(w, u) \/ review[u].audience = Audience(w)]_vars

============================================================================
