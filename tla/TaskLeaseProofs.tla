--------------------------- MODULE TaskLeaseProofs ---------------------------
(***************************************************************************)
(* Proofs about TaskLease, for every set of principals, grants, heads and  *)
(* ttls and every bound.  The safety invariants are not inductive one by   *)
(* one: what a submit or a renew does to the history rows depends on the   *)
(* lifecycle telling whether there is an owner.  Inv conjoins them with    *)
(* OwnerMatchesLifecycle, which is what makes the whole inductive.         *)
(***************************************************************************)
EXTENDS TaskLease, TLAPS

(* An owner exists exactly in the lifecycles that have been acquired and   *)
(* not reopened, an owner was issued an epoch, and an absent row none.     *)
OwnerMatchesLifecycle ==
    /\ task.lifecycle \in {"absent", "open", "reopened"} <=> task.owner = Nobody
    /\ task.owner # Nobody => task.epoch > 0
    /\ task.lifecycle = "absent" => task.epoch = 0

Inv ==
    /\ TypeOK
    /\ OwnerMatchesLifecycle
    /\ EpochNamesOneOwner
    /\ OpenRowIsTheLease
    /\ SubmissionMatchesLifecycle

-----------------------------------------------------------------------------
(* Type correctness of the four row operations of the module.              *)

LEMMA LeaseGrantedType ==
    ASSUME NEW s \in TaskState, NEW e \in Nat, NEW to \in Principals, NEW x \in Nat
    PROVE  LeaseGranted(s, e, to, x) \in TaskState
BY DEF TaskState, LeaseGranted, leaseLifecycle, Lifecycles

LEMMA TaskReopenedType ==
    ASSUME NEW s \in TaskState, NEW v \in Nat
    PROVE  TaskReopened(s, v) \in TaskState
<1>1. LeaseCleared(s) \in TaskState
  BY DEF LeaseCleared, TaskState, NoExpiry
<1> QED
  BY <1>1 DEF TaskReopened, TaskState, Lifecycles

LEMMA RowTypes ==
    ASSUME NEW rows \in SUBSET LeaseRow, NEW e \in Nat, NEW x \in Nat
    PROVE  /\ EndAll(rows) \subseteq LeaseRow
           /\ RenewOpenRow(rows, e, x) \subseteq LeaseRow
BY DEF EndAll, Ended, RenewOpenRow, Extended, LeaseRow

(* Every action keeps the variables in their types (TypeOK).               *)
LEMMA TypeStep == TypeOK /\ OwnerMatchesLifecycle /\ [Next]_vars => TypeOK'
<1> SUFFICES ASSUME TypeOK, OwnerMatchesLifecycle, [Next]_vars PROVE TypeOK'
  OBVIOUS
<1> USE DEF TypeOK
<1>1. ASSUME NEW p \in Principals, Create(p) PROVE TypeOK'
  BY <1>1 DEF Create, TaskCreated, TaskState, Lifecycles, NoExpiry
<1>g. ASSUME NEW to \in Principals, NEW ttl \in Ttls,
             GrantLease(task.epoch + 1, to, now + ttl)
      PROVE  task' \in TaskState /\ leases' \subseteq LeaseRow
  <2>1. task.epoch \in Nat /\ ttl \in Nat
    BY TtlAssumption DEF TaskState
  <2>2. task' \in TaskState
    BY <1>g, <2>1, LeaseGrantedType DEF GrantLease
  <2>3. NewLeaseRow(task.epoch + 1, to, now + ttl) \in LeaseRow
    BY <2>1 DEF NewLeaseRow, LeaseRow
  <2>4. EndAll(leases) \subseteq LeaseRow
    BY 0 \in Nat, RowTypes
  <2> QED
    BY <1>g, <2>2, <2>3, <2>4 DEF GrantLease
<1>2. ASSUME NEW p \in Principals, NEW ttl \in Ttls, Acquire(p, ttl) PROVE TypeOK'
  BY <1>2, <1>g DEF Acquire
<1>3. ASSUME NEW p \in Principals, NEW e \in Epochs, NEW ttl \in Ttls, Renew(p, e, ttl)
      PROVE  TypeOK'
  <2>1. now + ttl \in Nat /\ e \in Nat
    BY TtlAssumption, BoundAssumption DEF Epochs
  <2>2. task' \in TaskState
    BY <1>3, <2>1 DEF Renew, LeaseRenewed, TaskState
  <2>3. leases' \subseteq LeaseRow
    BY <1>3, <2>1, RowTypes DEF Renew
  <2> QED
    BY <1>3, <2>2, <2>3 DEF Renew
<1>4. ASSUME NEW p \in Principals, NEW e \in Epochs, NEW to \in Principals,
             NEW ttl \in Ttls, Handoff(p, e, to, ttl)
      PROVE  TypeOK'
  BY <1>4, <1>g DEF Handoff
<1>5. ASSUME NEW p \in Principals, NEW g \in GrantIds \cup {NoGrant}, NEW ttl \in Ttls,
             Takeover(p, g, ttl)
      PROVE  TypeOK'
  <2>1. leaseLive(task, now) => g \in GrantIds
    BY <1>5 DEF Takeover, CanTakeover, validTakeoverGrant
  <2> QED
    BY <1>5, <1>g, <2>1 DEF Takeover
<1>6. ASSUME NEW p \in Principals, NEW e \in Epochs, NEW head \in Heads, Submit(p, e, head)
      PROVE  TypeOK'
  <2>1. task.epoch \in Nat \ {0}
    BY <1>6 DEF Submit, CanSubmit, leaseLive, OwnerMatchesLifecycle, TaskState
  <2>2. task' \in TaskState
    BY <1>6, <2>1 DEF Submit, TaskSubmitted, TaskState, Submission, Lifecycles
  <2> QED
    BY <1>6, <2>2 DEF Submit
<1>7. ASSUME NEW p \in Principals, NEW e \in Epochs, NEW g \in GrantIds \cup {NoGrant},
             Close(p, e, g)
      PROVE  TypeOK'
  <2>1. task' \in TaskState
    BY <1>7 DEF Close, TaskClosed, TaskState, Lifecycles
  <2>2. leases' \subseteq LeaseRow
    BY <1>7, 0 \in Nat, RowTypes DEF Close
  <2> QED
    BY <1>7, <2>1, <2>2 DEF Close
<1>8. ASSUME NEW p \in Principals, NEW e \in Epochs, Reopen(p, e) PROVE TypeOK'
  <2>0. task.version + 1 \in Nat
    BY DEF TaskState
  <2>1. task' \in TaskState
    BY <1>8, <2>0, TaskReopenedType DEF Reopen
  <2>2. leases' \subseteq LeaseRow
    BY <1>8, 0 \in Nat, RowTypes DEF Reopen
  <2>3. grants' \in [GrantIds -> GrantRow]
    BY <1>8 DEF Reopen, RevokeAll, GrantRow
  <2> QED
    BY <1>8, <2>1, <2>2, <2>3 DEF Reopen
<1>9. ASSUME NEW p \in Principals, NEW g \in GrantIds, NEW ttl \in Ttls, IssueGrant(g, p, ttl)
      PROVE  TypeOK'
  <2>1. now + ttl \in Nat /\ task.epoch \in Nat
    BY TtlAssumption DEF TaskState
  <2> QED
    BY <1>9, <2>1 DEF IssueGrant, GrantRow
<1>10. ASSUME NEW p \in Principals, NEW r \in Roles, ChangeRole(p, r) PROVE TypeOK'
  BY <1>10 DEF ChangeRole
<1>11. CASE Tick
  BY <1>11 DEF Tick
<1>12. CASE UNCHANGED vars
  BY <1>12 DEF vars
<1> QED
  BY <1>1, <1>2, <1>3, <1>4, <1>5, <1>6, <1>7, <1>8, <1>9, <1>10, <1>11, <1>12 DEF Next

-----------------------------------------------------------------------------
(* What the folds do to each field, so that later steps need not unfold    *)
(* record updates.                                                         *)

LEMMA LeaseGrantedFields ==
    ASSUME NEW s \in TaskState, NEW e, NEW to, NEW x
    PROVE  LET t == LeaseGranted(s, e, to, x) IN
           /\ t.lifecycle = leaseLifecycle(s)
           /\ t.epoch = e
           /\ t.owner = to
           /\ t.lease_expiry = x
           /\ t.version = s.version
           /\ t.submission = s.submission
           /\ t.disposition = s.disposition
BY DEF LeaseGranted, TaskState

LEMMA TaskReopenedFields ==
    ASSUME NEW s \in TaskState, NEW v
    PROVE  LET t == TaskReopened(s, v) IN
           /\ t.lifecycle = "reopened"
           /\ t.epoch = s.epoch
           /\ t.owner = Nobody
           /\ t.version = v
           /\ t.submission = NoSubmission
<1>1. LeaseCleared(s) \in TaskState /\ LeaseCleared(s).epoch = s.epoch
      /\ LeaseCleared(s).owner = Nobody
  BY DEF LeaseCleared, TaskState, NoExpiry
<1> QED
  BY <1>1 DEF TaskReopened, TaskState

(* Ending rows and renewing the open row keep every row's epoch and owner. *)
LEMMA EndedFields ==
    ASSUME NEW q \in LeaseRow
    PROVE  /\ Ended(q) \in LeaseRow
           /\ Ended(q).epoch = q.epoch /\ Ended(q).owner = q.owner /\ Ended(q).ended = TRUE
BY DEF Ended, LeaseRow

LEMMA ExtendedFields ==
    ASSUME NEW q \in LeaseRow, NEW e \in Nat, NEW x \in Nat
    PROVE  LET r == Extended(q, e, x) IN
           /\ r \in LeaseRow
           /\ r.epoch = q.epoch /\ r.owner = q.owner /\ r.ended = q.ended
           /\ q.epoch = e /\ ~q.ended => r.expiry = x
BY DEF Extended, LeaseRow

EpochsOf(rows) == {r.epoch : r \in rows}

LEMMA EndAllKeeps ==
    ASSUME NEW rows \in SUBSET LeaseRow
    PROVE  EpochsOf(EndAll(rows)) = EpochsOf(rows) /\ Issued(EndAll(rows)) = Issued(rows)
<1>1. \A q \in rows : Ended(q).epoch = q.epoch /\ Ended(q).owner = q.owner
  BY EndedFields
<1>2. \A n : n \in EpochsOf(EndAll(rows)) <=> \E q \in rows : n = Ended(q).epoch
  BY SMT DEF EpochsOf, EndAll
<1>3. \A n : n \in EpochsOf(rows) <=> \E q \in rows : n = q.epoch
  BY SMT DEF EpochsOf
<1>4. EpochsOf(EndAll(rows)) = EpochsOf(rows)
  BY <1>1, <1>2, <1>3, SMT
<1>5. \A p : p \in Issued(EndAll(rows))
             <=> \E q \in rows : p = <<Ended(q).epoch, Ended(q).owner>>
  BY SMT DEF Issued, EndAll
<1>6. \A p : p \in Issued(rows) <=> \E q \in rows : p = <<q.epoch, q.owner>>
  BY SMT DEF Issued
<1>7. Issued(EndAll(rows)) = Issued(rows)
  BY <1>1, <1>5, <1>6, SMT
<1> QED
  BY <1>4, <1>7

LEMMA RenewKeeps ==
    ASSUME NEW rows \in SUBSET LeaseRow, NEW e \in Nat, NEW x \in Nat
    PROVE  /\ EpochsOf(RenewOpenRow(rows, e, x)) = EpochsOf(rows)
           /\ Issued(RenewOpenRow(rows, e, x)) = Issued(rows)
<1>1. \A q \in rows : Extended(q, e, x).epoch = q.epoch /\ Extended(q, e, x).owner = q.owner
  BY ExtendedFields
<1>2. \A n : n \in EpochsOf(RenewOpenRow(rows, e, x)) <=> \E q \in rows : n = Extended(q, e, x).epoch
  BY SMT DEF EpochsOf, RenewOpenRow
<1>3. \A n : n \in EpochsOf(rows) <=> \E q \in rows : n = q.epoch
  BY SMT DEF EpochsOf
<1>4. EpochsOf(RenewOpenRow(rows, e, x)) = EpochsOf(rows)
  BY <1>1, <1>2, <1>3, SMT
<1>5. \A p : p \in Issued(RenewOpenRow(rows, e, x))
             <=> \E q \in rows : p = <<Extended(q, e, x).epoch, Extended(q, e, x).owner>>
  BY SMT DEF Issued, RenewOpenRow
<1>6. \A p : p \in Issued(rows) <=> \E q \in rows : p = <<q.epoch, q.owner>>
  BY SMT DEF Issued
<1>7. Issued(RenewOpenRow(rows, e, x)) = Issued(rows)
  BY <1>1, <1>5, <1>6, SMT
<1> QED
  BY <1>4, <1>7

-----------------------------------------------------------------------------
(* The three operations on the history rows, each against the conjuncts of *)
(* Inv that read them.                                                     *)

Facts ==
    /\ OwnerMatchesLifecycle
    /\ EpochNamesOneOwner
    /\ OpenRowIsTheLease
    /\ SubmissionMatchesLifecycle

(* A lease-granting event: acquire, handoff and takeover.                  *)
LEMMA GrantLeaseStep ==
    ASSUME Inv, NEW to \in Principals, NEW x \in Nat,
           GrantLease(task.epoch + 1, to, x)
    PROVE  Facts'
<1> DEFINE e == task.epoch + 1
           row == NewLeaseRow(e, to, x)
<1>1. task \in TaskState /\ leases \subseteq LeaseRow /\ task.epoch \in Nat /\ e \in Nat
  BY DEF Inv, TypeOK, TaskState
<1>2. /\ task'.lifecycle = leaseLifecycle(task)
      /\ task'.epoch = e /\ task'.owner = to /\ task'.lease_expiry = x
      /\ task'.submission = task.submission /\ task'.disposition = task.disposition
  BY <1>1, LeaseGrantedFields DEF GrantLease
<1>3. leases' = EndAll(leases) \cup {row}
  BY DEF GrantLease
<1>4. row.epoch = e /\ row.owner = to /\ row.expiry = x /\ row.ended = FALSE
  BY DEF NewLeaseRow
<1>5. \A r \in EndAll(leases) : r.ended = TRUE /\ r.epoch \in 1 .. task.epoch
  <2> SUFFICES ASSUME NEW q \in leases
               PROVE  Ended(q).ended = TRUE /\ Ended(q).epoch \in 1 .. task.epoch
    BY DEF EndAll
  <2>1. Ended(q).ended = TRUE /\ Ended(q).epoch = q.epoch
    BY <1>1, EndedFields
  <2>2. q.epoch \in {r.epoch : r \in leases}
    OBVIOUS
  <2> QED
    BY <2>1, <2>2 DEF Inv, EpochNamesOneOwner
<1>6. \A r1, r2 \in EndAll(leases) : r1.epoch = r2.epoch => r1 = r2
  <2> SUFFICES ASSUME NEW q1 \in leases, NEW q2 \in leases, Ended(q1).epoch = Ended(q2).epoch
               PROVE  Ended(q1) = Ended(q2)
    BY DEF EndAll
  <2>1. q1.epoch = q2.epoch
    BY <1>1, EndedFields
  <2> QED
    BY <2>1 DEF Inv, EpochNamesOneOwner
<1>7. leaseLifecycle(task) \in {"active", "awaiting_review"}
  BY DEF leaseLifecycle
<1>8. OwnerMatchesLifecycle'
  BY <1>1, <1>2, <1>7, NobodyAssumption DEF OwnerMatchesLifecycle
<1>9. EpochNamesOneOwner'
  <2>1. {r.epoch : r \in leases'} = 1 .. task'.epoch
    <3>1. {r.epoch : r \in EndAll(leases)} = 1 .. task.epoch
      BY <1>1, EndAllKeeps DEF EpochsOf, Inv, EpochNamesOneOwner
    <3>2. {r.epoch : r \in leases'} = {r.epoch : r \in EndAll(leases)} \cup {e}
      BY <1>3, <1>4, Zenon
    <3>3. (1 .. task.epoch) \cup {e} = 1 .. e
      BY <1>1
    <3> QED
      BY <1>2, <3>1, <3>2, <3>3
  <2>2. \A r1, r2 \in leases' : r1.epoch = r2.epoch => r1 = r2
    BY <1>1, <1>3, <1>4, <1>5, <1>6
  <2>3. \A r \in leases' : r.epoch = task'.epoch /\ task'.owner # Nobody => r.owner = task'.owner
    BY <1>1, <1>2, <1>3, <1>4, <1>5
  <2> QED
    BY <2>1, <2>2, <2>3 DEF EpochNamesOneOwner
<1>10. OpenRowIsTheLease'
  BY <1>2, <1>3, <1>4, <1>5 DEF OpenRowIsTheLease
<1>11. SubmissionMatchesLifecycle'
  <2>1. task.submission.epoch <= task.epoch /\ task.submission.epoch \in Nat
    BY DEF Inv, TypeOK, TaskState, Submission, NoSubmission, SubmissionMatchesLifecycle
  <2> QED
    BY <1>1, <1>2, <2>1 DEF leaseLifecycle, SubmissionMatchesLifecycle
<1> QED
  BY <1>8, <1>9, <1>10, <1>11 DEF Facts

(* Every row ended, the task neither active nor under review: close and    *)
(* reopen.                                                                 *)
LEMMA EndAllStep ==
    ASSUME Inv, leases' = EndAll(leases), task'.epoch = task.epoch,
           task'.owner \in {task.owner, Nobody},
           task'.lifecycle \notin {"active", "awaiting_review"}
    PROVE  EpochNamesOneOwner' /\ OpenRowIsTheLease'
<1>1. leases \subseteq LeaseRow
  BY DEF Inv, TypeOK
<1>2. \A q \in leases : Ended(q).epoch = q.epoch /\ Ended(q).owner = q.owner /\ Ended(q).ended = TRUE
  BY <1>1, EndedFields
<1>3. {r.epoch : r \in leases'} = 1 .. task'.epoch
  BY <1>1, EndAllKeeps DEF EpochsOf, Inv, EpochNamesOneOwner
<1>4. \A r1, r2 \in leases' : r1.epoch = r2.epoch => r1 = r2
  <2> SUFFICES ASSUME NEW q1 \in leases, NEW q2 \in leases, Ended(q1).epoch = Ended(q2).epoch
               PROVE  Ended(q1) = Ended(q2)
    BY DEF EndAll
  <2> QED
    BY <1>2 DEF Inv, EpochNamesOneOwner
<1>5. \A r \in leases' : r.epoch = task'.epoch /\ task'.owner # Nobody => r.owner = task'.owner
  BY <1>2 DEF EndAll, Inv, EpochNamesOneOwner
<1>6. OpenRowIsTheLease'
  BY <1>2 DEF EndAll, OpenRowIsTheLease
<1> QED
  BY <1>3, <1>4, <1>5, <1>6 DEF EpochNamesOneOwner

(* The open row and the task row extended together: renew.                 *)
LEMMA RenewStep ==
    ASSUME Inv, NEW x \in Nat, leases' = RenewOpenRow(leases, task.epoch, x),
           task' = LeaseRenewed(task, x)
    PROVE  Facts'
<1> DEFINE new(q) == Extended(q, task.epoch, x)
<1>1. task \in TaskState /\ leases \subseteq LeaseRow /\ task.epoch \in Nat
  BY DEF Inv, TypeOK, TaskState
<1>2. /\ task'.lifecycle = task.lifecycle /\ task'.epoch = task.epoch
      /\ task'.owner = task.owner /\ task'.lease_expiry = x
      /\ task'.submission = task.submission /\ task'.disposition = task.disposition
  BY <1>1 DEF LeaseRenewed, TaskState
<1>3. ASSUME NEW q \in leases
      PROVE  /\ new(q).epoch = q.epoch /\ new(q).owner = q.owner
             /\ new(q).ended = q.ended
             /\ q.epoch = task.epoch /\ ~q.ended => new(q).expiry = x
  BY <1>1, ExtendedFields
<1>4. \A r \in leases' : \E q \in leases : r = new(q)
  BY DEF RenewOpenRow
<1>5. \A q \in leases : new(q) \in leases'
  BY DEF RenewOpenRow
<1>6. {r.epoch : r \in leases'} = 1 .. task'.epoch
  BY <1>1, <1>2, RenewKeeps DEF EpochsOf, Inv, EpochNamesOneOwner
<1>7. \A r1, r2 \in leases' : r1.epoch = r2.epoch => r1 = r2
  <2> SUFFICES ASSUME NEW q1 \in leases, NEW q2 \in leases, new(q1).epoch = new(q2).epoch
               PROVE  new(q1) = new(q2)
    BY DEF RenewOpenRow
  <2>1. q1.epoch = q2.epoch
    BY <1>3
  <2>2. q1 = q2
    BY <2>1 DEF Inv, EpochNamesOneOwner
  <2> QED
    BY <2>2
<1>8. \A r \in leases' : r.epoch = task'.epoch /\ task'.owner # Nobody => r.owner = task'.owner
  <2> SUFFICES ASSUME NEW q \in leases, new(q).epoch = task'.epoch, task'.owner # Nobody
               PROVE  new(q).owner = task'.owner
    BY DEF RenewOpenRow
  <2>1. q.epoch = task.epoch /\ new(q).owner = q.owner
    BY <1>2, <1>3
  <2> QED
    BY <1>2, <2>1 DEF Inv, EpochNamesOneOwner
<1>9. OpenRowIsTheLease'
  <2>1. ASSUME NEW q \in leases, ~new(q).ended
        PROVE  new(q).epoch = task'.epoch /\ new(q).owner = task'.owner /\ new(q).expiry = task'.lease_expiry
    <3>1. ~q.ended
      BY <1>3, <2>1
    <3>2. q.epoch = task.epoch /\ q.owner = task.owner
      BY <3>1 DEF Inv, OpenRowIsTheLease
    <3>3. new(q).epoch = q.epoch /\ new(q).owner = q.owner /\ new(q).expiry = x
      BY <1>3, <3>1, <3>2
    <3> QED
      BY <1>2, <3>2, <3>3
  <2>2. ASSUME task'.lifecycle \in {"active", "awaiting_review"}
        PROVE  \E r \in leases' : ~r.ended
    <3>1. PICK q \in leases : ~q.ended
      BY <1>2, <2>2 DEF Inv, OpenRowIsTheLease
    <3>2. ~new(q).ended
      BY <1>3, <3>1
    <3> QED
      BY <1>5, <3>2
  <2>3. \A r \in leases' : ~r.ended => /\ r.epoch = task'.epoch
                                       /\ r.owner = task'.owner
                                       /\ r.expiry = task'.lease_expiry
    BY <1>4, <2>1
  <2> QED
    BY <2>2, <2>3 DEF OpenRowIsTheLease
<1>10. OwnerMatchesLifecycle' /\ SubmissionMatchesLifecycle'
  BY <1>2 DEF Inv, OwnerMatchesLifecycle, SubmissionMatchesLifecycle
<1> QED
  BY <1>6, <1>7, <1>8, <1>9, <1>10 DEF Facts, EpochNamesOneOwner

-----------------------------------------------------------------------------
(* Init establishes Inv.                                                   *)
LEMMA InvInit == Init => Inv
<1> SUFFICES ASSUME Init PROVE Inv
  OBVIOUS
<1>1. TypeOK
  BY DEF Init, TypeOK, NoTask, TaskState, NoExpiry, AbsentGrant, GrantRow, LeaseRow
<1>2. Facts
  BY DEF Init, NoTask, Facts, OwnerMatchesLifecycle, EpochNamesOneOwner,
         OpenRowIsTheLease, SubmissionMatchesLifecycle, NoSubmission
<1> QED
  BY <1>1, <1>2 DEF Inv, Facts

(* Every action preserves Inv: grants of the lease by GrantLeaseStep, renew *)
(* by RenewStep, close and reopen by EndAllStep.                           *)
LEMMA InvStep == Inv /\ [Next]_vars => Inv'
<1> SUFFICES ASSUME Inv, [Next]_vars PROVE Inv'
  OBVIOUS
<1>0. TypeOK'
  BY TypeStep DEF Inv
<1>t. task \in TaskState /\ now \in Nat
  BY DEF Inv, TypeOK
<1>x. \A ttl \in Ttls : now + ttl \in Nat
  BY <1>t, TtlAssumption
<1>u. ASSUME UNCHANGED <<task, leases>> PROVE Facts'
  BY <1>u DEF Inv, Facts, OwnerMatchesLifecycle, EpochNamesOneOwner, OpenRowIsTheLease,
              SubmissionMatchesLifecycle
<1>1. ASSUME NEW p \in Principals, Create(p) PROVE Facts'
  <2>1. task.epoch = 0 /\ leases' = leases /\ task' = TaskCreated
    BY <1>1 DEF Create, CanCreate, Inv, OwnerMatchesLifecycle
  <2>2. leases = {}
    BY <2>1 DEF Inv, EpochNamesOneOwner
  <2> QED
    BY <2>1, <2>2 DEF TaskCreated, Facts, OwnerMatchesLifecycle, EpochNamesOneOwner,
       OpenRowIsTheLease, SubmissionMatchesLifecycle, NoSubmission
<1>2. ASSUME NEW p \in Principals, NEW ttl \in Ttls, Acquire(p, ttl) PROVE Facts'
  BY <1>2, <1>x, GrantLeaseStep DEF Acquire
<1>3. ASSUME NEW p \in Principals, NEW e \in Epochs, NEW ttl \in Ttls, Renew(p, e, ttl)
      PROVE  Facts'
  BY <1>3, <1>x, RenewStep DEF Renew, CanRenew
<1>4. ASSUME NEW p \in Principals, NEW e \in Epochs, NEW to \in Principals,
             NEW ttl \in Ttls, Handoff(p, e, to, ttl)
      PROVE  Facts'
  BY <1>4, <1>x, GrantLeaseStep DEF Handoff
<1>5. ASSUME NEW p \in Principals, NEW g \in GrantIds \cup {NoGrant}, NEW ttl \in Ttls,
             Takeover(p, g, ttl)
      PROVE  Facts'
  BY <1>5, <1>x, GrantLeaseStep DEF Takeover
<1>6. ASSUME NEW p \in Principals, NEW e \in Epochs, NEW head \in Heads, Submit(p, e, head)
      PROVE  Facts'
  <2>1. /\ task'.lifecycle = "awaiting_review" /\ task'.epoch = task.epoch
        /\ task'.owner = task.owner /\ task'.lease_expiry = task.lease_expiry
        /\ task'.submission.epoch = task.epoch /\ leases' = leases
    BY <1>6, <1>t DEF Submit, TaskSubmitted, TaskState
  <2>2. /\ task.owner # Nobody /\ task.epoch > 0
        /\ task.lifecycle \in {"active", "awaiting_review"}
    BY <1>6, <1>t DEF Submit, CanSubmit, leaseLive, Inv, OwnerMatchesLifecycle, TaskState, Lifecycles
  <2>3. task.epoch \in Nat /\ task'.submission # NoSubmission
    BY <1>t, <2>1, <2>2 DEF TaskState, NoSubmission
  <2>4. EpochNamesOneOwner' /\ OpenRowIsTheLease'
    BY <2>1, <2>2 DEF Inv, EpochNamesOneOwner, OpenRowIsTheLease
  <2>5. OwnerMatchesLifecycle' /\ SubmissionMatchesLifecycle'
    BY <2>1, <2>2, <2>3 DEF OwnerMatchesLifecycle, SubmissionMatchesLifecycle
  <2> QED
    BY <2>4, <2>5 DEF Facts
<1>7. ASSUME NEW p \in Principals, NEW e \in Epochs, NEW g \in GrantIds \cup {NoGrant},
             Close(p, e, g)
      PROVE  Facts'
  <2>1. /\ task'.lifecycle = "done" /\ task'.disposition = Disposed
        /\ task'.epoch = task.epoch /\ task'.owner = task.owner
        /\ task'.submission = task.submission /\ leases' = EndAll(leases)
    BY <1>7, <1>t DEF Close, TaskClosed, TaskState
  <2>2. /\ task.submission # NoSubmission
        /\ task.lifecycle = "awaiting_review" /\ task.owner # Nobody
    BY <1>7, <1>t DEF Close, CanClose, Inv, SubmissionMatchesLifecycle, OwnerMatchesLifecycle,
                      TaskState, Lifecycles
  <2>3. EpochNamesOneOwner' /\ OpenRowIsTheLease'
    BY <2>1, EndAllStep
  <2>4. OwnerMatchesLifecycle' /\ SubmissionMatchesLifecycle'
    BY <2>1, <2>2 DEF Inv, OwnerMatchesLifecycle, SubmissionMatchesLifecycle
  <2> QED
    BY <2>3, <2>4 DEF Facts
<1>8. ASSUME NEW p \in Principals, NEW e \in Epochs, Reopen(p, e) PROVE Facts'
  <2>1. /\ task'.lifecycle = "reopened" /\ task'.owner = Nobody
        /\ task'.epoch = task.epoch /\ task'.submission = NoSubmission
        /\ leases' = EndAll(leases)
    BY <1>8, <1>t, TaskReopenedFields DEF Reopen
  <2>2. EpochNamesOneOwner' /\ OpenRowIsTheLease'
    BY <2>1, EndAllStep
  <2>3. task.epoch \in Nat
    BY <1>t DEF TaskState
  <2>4. OwnerMatchesLifecycle' /\ SubmissionMatchesLifecycle'
    BY <2>1, <2>3 DEF OwnerMatchesLifecycle, SubmissionMatchesLifecycle, NoSubmission
  <2> QED
    BY <2>2, <2>4 DEF Facts
<1>9. ASSUME NEW p \in Principals, NEW g \in GrantIds, NEW ttl \in Ttls, IssueGrant(g, p, ttl)
      PROVE  Facts'
  BY <1>9, <1>u DEF IssueGrant
<1>10. ASSUME NEW p \in Principals, NEW r \in Roles, ChangeRole(p, r) PROVE Facts'
  BY <1>10, <1>u DEF ChangeRole
<1>11. ASSUME Tick PROVE Facts'
  BY <1>11, <1>u DEF Tick
<1>12. ASSUME UNCHANGED vars PROVE Facts'
  BY <1>12, <1>u DEF vars
<1>13. Facts'
  BY <1>1, <1>2, <1>3, <1>4, <1>5, <1>6, <1>7, <1>8, <1>9, <1>10, <1>11, <1>12 DEF Next
<1> QED
  BY <1>0, <1>13 DEF Inv, Facts

(* The inductive invariant holds in every reachable state.                 *)
THEOREM Invariance == Spec => []Inv
BY InvInit, InvStep, PTL DEF Spec

(* Every variable keeps its type whatever commands the service accepts.    *)
THEOREM TypeCorrect == Spec => []TypeOK
<1>1. Inv => TypeOK
  BY DEF Inv
<1> QED
  BY Invariance, <1>1, PTL

(* For every number of principals, grants and commands an epoch names one  *)
(* owner for ever: the fencing that decide() relies on.                    *)
THEOREM EpochFencing == Spec => []EpochNamesOneOwner
<1>1. Inv => EpochNamesOneOwner
  BY DEF Inv
<1> QED
  BY Invariance, <1>1, PTL

(* swarm.tasks and the open row of swarm.leases never disagree.            *)
THEOREM HistoryAgrees == Spec => []OpenRowIsTheLease
<1>1. Inv => OpenRowIsTheLease
  BY DEF Inv
<1> QED
  BY Invariance, <1>1, PTL

(* The lifecycle label and the frozen submission never disagree.           *)
THEOREM SubmissionAgrees == Spec => []SubmissionMatchesLifecycle
<1>1. Inv => SubmissionMatchesLifecycle
  BY DEF Inv
<1> QED
  BY Invariance, <1>1, PTL

-----------------------------------------------------------------------------
(* A live lease moves only by its holder's leave or by a grant that this   *)
(* move uses up, an expired one without any, and a review keeps its frozen *)
(* submission: acquire, handoff and takeover are the only commands that    *)
(* raise the epoch, and their guards suffice.                              *)
THEOREM LeaseMovesByLeave == Spec => LiveLeaseMovesByLeave
<1> DEFINE ByLeave == /\ task'.submission = task.submission
                      /\ leaseLive(task, now) => /\ task.lifecycle # "awaiting_review"
                                                 /\ HandedOver \/ TakenByGrant
                      /\ ~leaseLive(task, now) => consumed' = consumed
           P == task'.epoch # task.epoch => ByLeave
<1>1. ASSUME Inv, [Next]_vars PROVE [P]_vars
  <2> SUFFICES ASSUME Next, task'.epoch # task.epoch PROVE ByLeave
    BY <1>1
  <2>t. task \in TaskState
    BY <1>1 DEF Inv, TypeOK
  <2>g. ASSUME NEW to, NEW x, GrantLease(task.epoch + 1, to, x)
        PROVE  task'.submission = task.submission /\ task'.owner = to
    BY <2>g, <2>t, LeaseGrantedFields DEF GrantLease
  <2>1. ASSUME NEW p \in Principals PROVE ~Create(p)
    BY <1>1 DEF Create, CanCreate, TaskCreated, Inv, OwnerMatchesLifecycle
  <2>2. ASSUME NEW p \in Principals, NEW ttl \in Ttls, Acquire(p, ttl) PROVE ByLeave
    <3>1. ~leaseLive(task, now)
      BY <1>1, <2>2 DEF Acquire, CanAcquire, leaseLive, Inv, OwnerMatchesLifecycle
    <3> QED
      BY <2>2, <2>g, <3>1 DEF Acquire
  <2>3. ASSUME NEW p \in Principals, NEW e \in Epochs, NEW ttl \in Ttls PROVE ~Renew(p, e, ttl)
    BY <2>t DEF Renew, LeaseRenewed, TaskState
  <2>4. ASSUME NEW p \in Principals, NEW e \in Epochs, NEW to \in Principals,
               NEW ttl \in Ttls, Handoff(p, e, to, ttl)
        PROVE  ByLeave
    <3>1. /\ leaseLive(task, now) /\ task.lifecycle # "awaiting_review"
          /\ task.owner = p /\ isMember(p) /\ isMember(to) /\ consumed' = consumed
      BY <2>4 DEF Handoff, CanHandoff
    <3>2. task'.submission = task.submission /\ task'.owner = to
      BY <2>4, <2>g DEF Handoff
    <3> QED
      BY <3>1, <3>2 DEF HandedOver
  <2>5. ASSUME NEW p \in Principals, NEW g \in GrantIds \cup {NoGrant}, NEW ttl \in Ttls,
               Takeover(p, g, ttl)
        PROVE  ByLeave
    <3>1. task'.submission = task.submission /\ task'.owner = p
      BY <2>5, <2>g DEF Takeover
    <3>2. CASE leaseLive(task, now)
      <4>1. /\ task.lifecycle # "awaiting_review" /\ validTakeoverGrant(g, p)
            /\ consumed' = consumed \cup {g}
        BY <2>5, <3>2 DEF Takeover, CanTakeover
      <4>2. TakenByGrant
        BY <3>1, <4>1 DEF TakenByGrant, validTakeoverGrant
      <4> QED
        BY <3>1, <3>2, <4>1, <4>2
    <3>3. CASE ~leaseLive(task, now)
      BY <2>5, <3>1, <3>3 DEF Takeover
    <3> QED
      BY <3>2, <3>3
  <2>6. ASSUME NEW p \in Principals, NEW e \in Epochs, NEW head \in Heads
        PROVE  ~Submit(p, e, head)
    BY <2>t DEF Submit, TaskSubmitted, TaskState
  <2>7. ASSUME NEW p \in Principals, NEW e \in Epochs, NEW g \in GrantIds \cup {NoGrant}
        PROVE  ~Close(p, e, g)
    BY <2>t DEF Close, TaskClosed, TaskState
  <2>8. ASSUME NEW p \in Principals, NEW e \in Epochs PROVE ~Reopen(p, e)
    BY <2>t, TaskReopenedFields DEF Reopen
  <2>9. task' # task
    OBVIOUS
  <2> HIDE DEF ByLeave
  <2> QED
    BY <2>1, <2>2, <2>3, <2>4, <2>5, <2>6, <2>7, <2>8, <2>9
       DEF Next, IssueGrant, ChangeRole, Tick
<1> QED
  BY <1>1, Invariance, PTL DEF Spec, LiveLeaseMovesByLeave

(* The detailed lease is a fenced authority: every step issues the next    *)
(* epoch to one principal, withdraws the holder, or changes nothing that   *)
(* FencedAuthority sees.                                                   *)
THEOREM Refinement == Spec => ImplementsFencedAuthority
<1>1. Init => Authority!Init
  BY DEF Init, Authority!Init, NoTask, Issued
<1>2. ASSUME Inv, [Next]_vars PROVE [Authority!Next]_(Authority!vars)
  <2>t. task \in TaskState /\ leases \subseteq LeaseRow /\ task.epoch \in Nat
    BY <1>2 DEF Inv, TypeOK, TaskState
  <2>g. ASSUME NEW to \in Principals, NEW x, GrantLease(task.epoch + 1, to, x)
        PROVE  Authority!Next
    <3>1. task'.epoch = task.epoch + 1 /\ task'.owner = to
      BY <2>g, <2>t, LeaseGrantedFields DEF GrantLease
    <3>2. Issued(leases') = Issued(EndAll(leases)) \cup {<<task.epoch + 1, to>>}
      <4> DEFINE row == NewLeaseRow(task.epoch + 1, to, x)
      <4>1. row.epoch = task.epoch + 1 /\ row.owner = to
        BY DEF NewLeaseRow
      <4>2. leases' = EndAll(leases) \cup {row}
        BY <2>g DEF GrantLease
      <4> HIDE DEF row
      <4> QED
        BY <4>1, <4>2, Zenon DEF Issued
    <3>3. Issued(EndAll(leases)) = Issued(leases)
      BY <2>t, EndAllKeeps
    <3> QED
      BY <3>1, <3>2, <3>3 DEF Authority!Next, Authority!Issue
  <2>u. ASSUME task'.epoch = task.epoch, task'.owner = task.owner, Issued(leases') = Issued(leases)
        PROVE  UNCHANGED Authority!vars
    BY <2>u DEF Authority!vars
  <2>1. ASSUME NEW p \in Principals, Create(p) PROVE UNCHANGED Authority!vars
    <3>1. task.epoch = 0 /\ task.owner = Nobody
      BY <1>2, <2>1 DEF Create, CanCreate, Inv, OwnerMatchesLifecycle
    <3> QED
      BY <2>1, <2>u, <3>1 DEF Create, TaskCreated
  <2>2. ASSUME NEW p \in Principals, NEW ttl \in Ttls, Acquire(p, ttl) PROVE Authority!Next
    BY <2>2, <2>g DEF Acquire
  <2>3. ASSUME NEW p \in Principals, NEW e \in Epochs, NEW ttl \in Ttls, Renew(p, e, ttl)
        PROVE  UNCHANGED Authority!vars
    <3>1. now + ttl \in Nat /\ e \in Nat
      BY <1>2, TtlAssumption, BoundAssumption DEF Inv, TypeOK, Epochs
    <3>2. Issued(leases') = Issued(leases)
      BY <2>3, <2>t, <3>1, RenewKeeps DEF Renew
    <3>3. task'.epoch = task.epoch /\ task'.owner = task.owner
      BY <2>3, <2>t DEF Renew, LeaseRenewed, TaskState
    <3> QED
      BY <2>u, <3>2, <3>3
  <2>4. ASSUME NEW p \in Principals, NEW e \in Epochs, NEW to \in Principals,
               NEW ttl \in Ttls, Handoff(p, e, to, ttl)
        PROVE  Authority!Next
    BY <2>4, <2>g DEF Handoff
  <2>5. ASSUME NEW p \in Principals, NEW g \in GrantIds \cup {NoGrant}, NEW ttl \in Ttls,
               Takeover(p, g, ttl)
        PROVE  Authority!Next
    BY <2>5, <2>g DEF Takeover
  <2>6. ASSUME NEW p \in Principals, NEW e \in Epochs, NEW head \in Heads, Submit(p, e, head)
        PROVE  UNCHANGED Authority!vars
    <3>1. task'.epoch = task.epoch /\ task'.owner = task.owner /\ leases' = leases
      BY <2>6, <2>t DEF Submit, TaskSubmitted, TaskState
    <3> QED
      BY <2>u, <3>1
  <2>7. ASSUME NEW p \in Principals, NEW e \in Epochs, NEW g \in GrantIds \cup {NoGrant},
               Close(p, e, g)
        PROVE  UNCHANGED Authority!vars
    <3>1. task'.epoch = task.epoch /\ task'.owner = task.owner
      BY <2>7, <2>t DEF Close, TaskClosed, TaskState
    <3>2. Issued(leases') = Issued(leases)
      BY <2>7, <2>t, EndAllKeeps DEF Close
    <3> QED
      BY <2>u, <3>1, <3>2
  <2>8. ASSUME NEW p \in Principals, NEW e \in Epochs, Reopen(p, e) PROVE Authority!Next
    <3>1. task'.epoch = task.epoch /\ task'.owner = Nobody
      BY <2>8, <2>t, TaskReopenedFields DEF Reopen
    <3>2. Issued(leases') = Issued(leases)
      BY <2>8, <2>t, EndAllKeeps DEF Reopen
    <3> QED
      BY <3>1, <3>2 DEF Authority!Next, Authority!Withdraw
  <2>9. ASSUME UNCHANGED <<task, leases>> PROVE UNCHANGED Authority!vars
    BY <2>9, <2>u
  <2> QED
    BY <1>2, <2>1, <2>2, <2>3, <2>4, <2>5, <2>6, <2>7, <2>8, <2>9
       DEF Next, vars, IssueGrant, ChangeRole, Tick
<1> QED
  BY <1>1, <1>2, Invariance, PTL DEF Spec, ImplementsFencedAuthority, Authority!Spec

=============================================================================
