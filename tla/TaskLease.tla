------------------------------ MODULE TaskLease ------------------------------
(***************************************************************************)
(* The authority of one task: what the command service commits for the     *)
(* eight task commands.  Each action is a whole transaction: the guards of *)
(* decide(), the fold of its event into swarm.tasks, the lease history     *)
(* rows of swarm.leases (updateProjection) and the grant side effects      *)
(* (applyEventSideEffects).  The stream row is locked FOR UPDATE before    *)
(* any of it is read, so a transaction is one step.  Refused commands      *)
(* leave this state alone; CommandStream models what they append.          *)
(*                                                                         *)
(* Takeover grants are read and consumed by the service but issued outside *)
(* it: IssueGrant is external.  Roles change through the workspace plane;  *)
(* ChangeRole stands for it.                                               *)
(***************************************************************************)
EXTENDS TaskCore

CONSTANTS
    GrantIds,    \* ids of rows of swarm.grants
    NoGrant,     \* grant_id = null
    Ttls,        \* ttl_ms values a client presents
    MaxEpoch,    \* bound on lease epochs
    MaxVersion,  \* bound on task versions
    MaxTime      \* bound on the server clock

ASSUME GrantAssumption == NoGrant \notin GrantIds
ASSUME TtlAssumption == Ttls \subseteq Nat
ASSUME BoundAssumption ==
    MaxEpoch \in Nat /\ MaxVersion \in Nat /\ MaxTime \in Nat

VARIABLES
    now,      \* database clock
    role,     \* current membership role of each principal
    task,     \* the swarm.tasks row
    leases,   \* swarm.leases rows of the task
    grants,   \* swarm.grants rows of the task
    consumed  \* swarm.grant_consumptions

vars == <<now, role, task, leases, grants, consumed>>

Roles == {"admin", "member", "none"}

LeaseRow ==
    [epoch : Nat \ {0}, owner : Principals, expiry : Nat, ended : BOOLEAN]

GrantRow ==
    [state     : {"absent", "issued", "revoked"},
     issued_to : Principals \cup {Nobody},
     epoch     : Nat,
     expires   : Nat]

AbsentGrant ==
    [state |-> "absent", issued_to |-> Nobody, epoch |-> 0, expires |-> 0]

Init ==
    /\ now = 0
    /\ role \in [Principals -> Roles]
    /\ task = NoTask
    /\ leases = {}
    /\ grants = [g \in GrantIds |-> AbsentGrant]
    /\ consumed = {}

-----------------------------------------------------------------------------
isMember(p) == role[p] # "none"
isAdmin(p) == role[p] = "admin"

\* Fault: a grant issued against an earlier holder displaces this one.
validTakeoverGrantOfAnyEpoch(g, me) ==
    /\ g # NoGrant
    /\ grants[g].state = "issued"
    /\ grants[g].issued_to = me
    /\ grants[g].expires > now
    /\ g \notin consumed

\* buildContext: the unspent, unrevoked, unexpired grant issued to the caller
\* and bound to the current epoch.
validTakeoverGrant(g, me) ==
    /\ g # NoGrant
    /\ grants[g].state = "issued"
    /\ grants[g].issued_to = me
    /\ grants[g].epoch = task.epoch
    /\ grants[g].expires > now
    /\ g \notin consumed

\* A consumption row needs an existing grant and is the grant's only one: any
\* other insert aborts the transaction.
ConsumptionInserts(g) ==
    g # NoGrant => grants[g].state # "absent" /\ g \notin consumed

Ended(r) == [r EXCEPT !.ended = TRUE]

EndAll(rows) == {Ended(r) : r \in rows}

NewLeaseRow(e, to, expiry) ==
    [epoch |-> e, owner |-> to, expiry |-> expiry, ended |-> FALSE]

\* updateProjection on a lease-granting event; the row's primary key is its epoch.
GrantLease(e, to, expiry) ==
    /\ \A r \in leases : r.epoch # e
    /\ task' = LeaseGranted(task, e, to, expiry)
    /\ leases' = EndAll(leases) \cup {NewLeaseRow(e, to, expiry)}

Extended(r, e, expiry) ==
    IF r.epoch = e /\ ~r.ended THEN [r EXCEPT !.expiry = expiry] ELSE r

\* Fault: renew extends the task row only.
RenewOpenRowSkipped(rows, e, expiry) == rows

RenewOpenRow(rows, e, expiry) == {Extended(r, e, expiry) : r \in rows}

-----------------------------------------------------------------------------
Create(p) ==
    /\ isMember(p)
    /\ CanCreate(task)
    /\ task' = TaskCreated
    /\ UNCHANGED <<now, role, leases, grants, consumed>>

Acquire(p, ttl) ==
    /\ isMember(p)
    /\ CanAcquire(task, ttl, now)
    /\ task.epoch < MaxEpoch
    /\ GrantLease(task.epoch + 1, p, now + ttl)
    /\ UNCHANGED <<now, role, grants, consumed>>

Renew(p, e, ttl) ==
    /\ isMember(p)
    /\ CanRenew(task, p, e, ttl, now)
    /\ task' = LeaseRenewed(task, now + ttl)
    /\ leases' = RenewOpenRow(leases, e, now + ttl)
    /\ UNCHANGED <<now, role, grants, consumed>>

Handoff(p, e, to, ttl) ==
    /\ isMember(p)
    /\ CanHandoff(task, p, e, isMember(to), ttl, now)
    /\ task.epoch < MaxEpoch
    /\ GrantLease(task.epoch + 1, to, now + ttl)
    /\ UNCHANGED <<now, role, grants, consumed>>

\* Fault: the event always names the presented grant.
TakeoverAlwaysConsumes(p, g, ttl) ==
    /\ isMember(p)
    /\ CanTakeover(task, validTakeoverGrant(g, p), ttl, now)
    /\ task.epoch < MaxEpoch
    /\ GrantLease(task.epoch + 1, p, now + ttl)
    /\ consumed' = consumed \cup {g}
    /\ UNCHANGED <<now, role, grants>>

\* The event names the grant only when the lease was live, so only then is
\* the grant consumed.
Takeover(p, g, ttl) ==
    /\ isMember(p)
    /\ CanTakeover(task, validTakeoverGrant(g, p), ttl, now)
    /\ task.epoch < MaxEpoch
    /\ GrantLease(task.epoch + 1, p, now + ttl)
    /\ consumed' = IF leaseLive(task, now) THEN consumed \cup {g} ELSE consumed
    /\ UNCHANGED <<now, role, grants>>

Submit(p, e, head) ==
    /\ isMember(p)
    /\ CanSubmit(task, p, e, now)
    /\ task' = TaskSubmitted(task, task.epoch, head)
    /\ UNCHANGED <<now, role, leases, grants, consumed>>

\* claimRequiresGrant is constantly false in the service, so a presented grant
\* is not validated, but its consumption is still recorded.
Close(p, e, g) ==
    /\ isMember(p)
    /\ CanClose(task, p, e, isAdmin(p))
    /\ ConsumptionInserts(g)
    /\ task' = TaskClosed(task)
    /\ leases' = EndAll(leases)
    /\ consumed' = IF g = NoGrant THEN consumed ELSE consumed \cup {g}
    /\ UNCHANGED <<now, role, grants>>

RevokeAll(rows) ==
    [g \in GrantIds |->
        IF rows[g].state = "issued" THEN [rows[g] EXCEPT !.state = "revoked"] ELSE rows[g]]

Reopen(p, e) ==
    /\ isMember(p)
    /\ CanReopen(task, p, e, isAdmin(p))
    /\ task.version < MaxVersion
    /\ task' = TaskReopened(task, task.version + 1)
    /\ leases' = EndAll(leases)
    /\ grants' = RevokeAll(grants)
    /\ UNCHANGED <<now, role, consumed>>

\* External: an owner issues a takeover grant bound to the current epoch.
IssueGrant(g, to, ttl) ==
    /\ task.lifecycle # "absent"
    /\ grants[g].state = "absent"
    /\ grants' = [grants EXCEPT ![g] = [state |-> "issued", issued_to |-> to,
                                        epoch |-> task.epoch, expires |-> now + ttl]]
    /\ UNCHANGED <<now, role, task, leases, consumed>>

\* The workspace plane: members are added, promoted, demoted and removed
\* without touching the tasks they own.
ChangeRole(p, r) ==
    /\ role[p] # r
    /\ role' = [role EXCEPT ![p] = r]
    /\ UNCHANGED <<now, task, leases, grants, consumed>>

Tick ==
    /\ now < MaxTime
    /\ now' = now + 1
    /\ UNCHANGED <<role, task, leases, grants, consumed>>

Epochs == 0 .. MaxEpoch

Next ==
    \/ \E p \in Principals :
        \/ Create(p)
        \/ \E ttl \in Ttls : Acquire(p, ttl)
        \/ \E e \in Epochs, ttl \in Ttls : Renew(p, e, ttl)
        \/ \E e \in Epochs, to \in Principals, ttl \in Ttls : Handoff(p, e, to, ttl)
        \/ \E g \in GrantIds \cup {NoGrant}, ttl \in Ttls : Takeover(p, g, ttl)
        \/ \E e \in Epochs, head \in Heads : Submit(p, e, head)
        \/ \E e \in Epochs, g \in GrantIds \cup {NoGrant} : Close(p, e, g)
        \/ \E e \in Epochs : Reopen(p, e)
        \/ \E g \in GrantIds, ttl \in Ttls : IssueGrant(g, p, ttl)
        \/ \E r \in Roles : ChangeRole(p, r)
    \/ Tick

Spec == Init /\ [][Next]_vars

-----------------------------------------------------------------------------
TypeOK ==
    /\ now \in Nat
    /\ role \in [Principals -> Roles]
    /\ task \in TaskState
    /\ leases \subseteq LeaseRow
    /\ grants \in [GrantIds -> GrantRow]
    /\ consumed \subseteq GrantIds

(* An epoch is a fencing token: it names one owner for ever.  No two       *)
(* history rows share an epoch, none is ahead of the task's epoch, every   *)
(* epoch up to it has its row, and the task's owner is the owner its       *)
(* current epoch was issued to, through every handoff, takeover, close and *)
(* reopen.                                                                 *)
EpochNamesOneOwner ==
    /\ \A r1, r2 \in leases : r1.epoch = r2.epoch => r1 = r2
    /\ {r.epoch : r \in leases} = 1 .. task.epoch
    /\ \A r \in leases : r.epoch = task.epoch /\ task.owner # Nobody => r.owner = task.owner

(* The open history row and the task row tell one story: at most one row   *)
(* is open, it carries the task's epoch, owner and expiry, and a task in   *)
(* work always has it (updateProjection writes the two tables apart).      *)
OpenRowIsTheLease ==
    /\ \A r \in leases : ~r.ended => /\ r.epoch = task.epoch
                                     /\ r.owner = task.owner
                                     /\ r.expiry = task.lease_expiry
    /\ task.lifecycle \in {"active", "awaiting_review"} => \E r \in leases : ~r.ended

(* The lifecycle label and the frozen submission agree: a task awaits      *)
(* review exactly when it holds a submission that is not yet closed, a     *)
(* closed task keeps the submission it was closed on, and the submission's *)
(* epoch was issued and never exceeds the live one.                        *)
SubmissionMatchesLifecycle ==
    /\ task.lifecycle = "awaiting_review" => task.submission # NoSubmission
    /\ task.lifecycle = "done" => task.submission # NoSubmission /\ task.disposition = Disposed
    /\ task.lifecycle \in {"absent", "open", "active", "reopened"} => task.submission = NoSubmission
    /\ task.submission.epoch <= task.epoch

HandedOver ==
    /\ isMember(task.owner) /\ isMember(task'.owner)
    /\ consumed' = consumed

(* Exactly one grant is spent: its row names the displaced epoch and the   *)
(* new owner, is not revoked, and was neither expired nor spent before.    *)
TakenByGrant ==
    \E g \in GrantIds \ consumed :
        /\ consumed' = consumed \cup {g}
        /\ grants[g].state = "issued"
        /\ grants[g].issued_to = task'.owner
        /\ grants[g].epoch = task.epoch
        /\ grants[g].expires > now

(* A live lease changes hands only by leave of its holder, still a member, *)
(* or of an owner's grant, which that one move uses up, and under review   *)
(* not at all.  Once the lease has expired no grant is needed and none is  *)
(* spent.  No such move touches the frozen submission (decide, the grant   *)
(* lookup of buildContext and applyEventSideEffects together).             *)
LiveLeaseMovesByLeave ==
    [][ task'.epoch # task.epoch =>
          /\ task'.submission = task.submission
          /\ leaseLive(task, now) => /\ task.lifecycle # "awaiting_review"
                                     /\ HandedOver \/ TakenByGrant
          /\ ~leaseLive(task, now) => consumed' = consumed ]_vars

-----------------------------------------------------------------------------
Issued(rows) == {<<r.epoch, r.owner>> : r \in rows}

(* What the lease promises, abstractly: see FencedAuthority.               *)
Authority == INSTANCE FencedAuthority WITH
    epoch  <- task.epoch,
    holder <- task.owner,
    issued <- Issued(leases)

(* The lease implements the fenced authority token of FencedAuthority.     *)
ImplementsFencedAuthority == Authority!Spec

=============================================================================
