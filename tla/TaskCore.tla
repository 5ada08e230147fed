------------------------------ MODULE TaskCore ------------------------------
(***************************************************************************)
(* The pure protocol core of a task: the state TaskState, the guards of    *)
(* decide() (src/protocol/commands.ts) and the event fold reduceTask()     *)
(* (src/protocol/reducer.ts).  The module has no variables: TaskLease and  *)
(* CommandStream run these operators inside the server's transactions.     *)
(*                                                                         *)
(* Data abstraction: `null' is a distinguished value of each field (Nobody *)
(* for an owner, NoExpiry for a lease expiry, NoSubmission for the frozen  *)
(* submission, Undisposed for a disposition), branch, head and evidence of *)
(* a submission are one value of Heads, and an absent row is the record    *)
(* NoTask, whose lifecycle is "absent".                                    *)
(***************************************************************************)
EXTENDS Integers

CONSTANTS
    Principals,  \* canonical principals: users and agent principals
    Nobody,      \* owner = null
    Heads        \* what a submission freezes besides its epoch

ASSUME NobodyAssumption == Nobody \notin Principals

Lifecycles == {"open", "active", "awaiting_review", "reopened", "done"}

NoExpiry == 0
NoSubmission == [epoch |-> 0, head |-> Nobody]
Undisposed == "none"
Disposed == "disposed"

Submission == [epoch : Nat \ {0}, head : Heads]

TaskState ==
    [lifecycle    : Lifecycles \cup {"absent"},
     version      : Nat,
     epoch        : Nat,
     owner        : Principals \cup {Nobody},
     lease_expiry : Nat,
     submission   : Submission \cup {NoSubmission},
     disposition  : {Undisposed, Disposed}]

NoTask ==
    [lifecycle |-> "absent", version |-> 0, epoch |-> 0, owner |-> Nobody,
     lease_expiry |-> NoExpiry, submission |-> NoSubmission,
     disposition |-> Undisposed]

leaseLive(s, now) ==
    /\ s.owner # Nobody
    /\ s.lease_expiry # NoExpiry
    /\ s.lease_expiry > now

-----------------------------------------------------------------------------
(* The domain guards of decide(), in the code's order.  Membership (the    *)
(* authz gate) and the oracles of DecideCtx are conjoined by the caller.   *)

CanCreate(s) == s.lifecycle = "absent"

CanAcquire(s, ttl, now) ==
    /\ ttl > 0
    /\ \/ s.lifecycle \in {"open", "reopened"}
       \/ s.lifecycle \in {"active", "awaiting_review"} /\ ~leaseLive(s, now)

CanRenew(s, me, e, ttl, now) ==
    /\ s.lifecycle # "absent"
    /\ ttl > 0
    /\ s.lifecycle # "done"
    /\ s.owner = me
    /\ e = s.epoch
    /\ leaseLive(s, now)

\* There is no test for "done" here: decide() has none.
CanHandoff(s, me, e, eligible, ttl, now) ==
    /\ s.lifecycle # "absent"
    /\ ttl > 0
    /\ s.owner = me
    /\ e = s.epoch
    /\ leaseLive(s, now)
    /\ s.lifecycle # "awaiting_review"
    /\ eligible

CanTakeover(s, validTakeoverGrant, ttl, now) ==
    /\ s.lifecycle \notin {"absent", "done"}
    /\ ttl > 0
    /\ leaseLive(s, now) => /\ s.lifecycle # "awaiting_review"
                            /\ validTakeoverGrant

CanSubmit(s, me, e, now) ==
    /\ s.lifecycle # "absent"
    /\ s.owner = me
    /\ e = s.epoch
    /\ leaseLive(s, now)
    /\ s.lifecycle # "done"

CanClose(s, me, e, isAdmin) ==
    /\ s.lifecycle \notin {"absent", "done"}
    /\ s.submission # NoSubmission
    /\ e = s.submission.epoch
    /\ isAdmin \/ s.owner = me

CanReopen(s, me, e, isAdmin) ==
    /\ s.lifecycle \notin {"absent", "open", "reopened"}
    /\ isAdmin \/ s.owner = me
    /\ isAdmin \/ e = s.epoch

-----------------------------------------------------------------------------
(* reduceTask: one operator per event type.                                *)

\* Fault: a lease event forgets the pending submission.
leaseLifecycleAlwaysActive(s) == "active"

leaseLifecycle(s) ==
    IF s.submission # NoSubmission THEN "awaiting_review" ELSE "active"

TaskCreated ==
    [lifecycle |-> "open", version |-> 1, epoch |-> 0, owner |-> Nobody,
     lease_expiry |-> NoExpiry, submission |-> NoSubmission,
     disposition |-> Undisposed]

\* Fault: the fold keeps the displaced owner when there was one.
LeaseGrantedKeepsOwner(s, e, to, expiry) ==
    [s EXCEPT !.lifecycle = leaseLifecycle(s), !.epoch = e,
              !.owner = IF s.owner = Nobody THEN to ELSE s.owner,
              !.lease_expiry = expiry]

\* LeaseAcquired, LeaseHandedOff and LeaseTakenOver fold alike.
LeaseGranted(s, e, to, expiry) ==
    [s EXCEPT !.lifecycle = leaseLifecycle(s), !.epoch = e, !.owner = to,
              !.lease_expiry = expiry]

LeaseRenewed(s, expiry) == [s EXCEPT !.lease_expiry = expiry]

TaskSubmitted(s, e, head) ==
    [s EXCEPT !.lifecycle = "awaiting_review",
              !.submission = [epoch |-> e, head |-> head]]

TaskClosed(s) == [s EXCEPT !.lifecycle = "done", !.disposition = Disposed]

\* Fault: clearing the lease also clears the epoch.
LeaseClearedWithEpoch(s) == [s EXCEPT !.owner = Nobody, !.lease_expiry = NoExpiry, !.epoch = 0]

\* The epoch stays, so a token issued before the reopen stays fenced.
LeaseCleared(s) == [s EXCEPT !.owner = Nobody, !.lease_expiry = NoExpiry]

TaskReopened(s, v) ==
    [LeaseCleared(s) EXCEPT !.lifecycle = "reopened", !.version = v,
                            !.submission = NoSubmission]

=============================================================================
