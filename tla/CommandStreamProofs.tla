------------------------- MODULE CommandStreamProofs -------------------------
(***************************************************************************)
(* Proofs about CommandStream, for every set of principals, requests, ids, *)
(* streams and tasks.  What a request read stays true for as long as it    *)
(* holds the row locks that protect it, so the inductive invariant says of *)
(* each request which locks it holds in which phase and what it may rely   *)
(* on there (RequestSound); the rest is about the committed rows.          *)
(***************************************************************************)
EXTENDS CommandStream, FiniteSetTheorems, TLAPS

(* The shapes of a request's record. *)
Undecided == {"forbidden", "discovery_changed", "conflict", "unavailable"}

Responses == [ok : BOOLEAN, stream : Streams, seq : Nat]

Answers == [status : Undecided] \cup [status : {"decided"}, response : Responses]

RunningReq ==
    [pc : Running \ {"decide"}, body : Body, attempt : Nat, planned : BOOLEAN]

DecidingReq ==
    [pc : {"decide"}, body : Body, planned : BOOLEAN, head : Nat, prior : TaskState]

DoneReq == [pc : {"done"}, body : Body, answer : Answers]

Shapes == {Idle} \cup RunningReq \cup DecidingReq \cup DoneReq

LedgerRows == {NotStored} \cup [stored : {TRUE}, body : Body, response : Responses]

(* The phases in which a request holds each of its locks. *)
HoldsUser(r) ==
    \/ req[r].pc \in {"workspace", "stream", "lookup", "lock", "decide"}
    \/ req[r].pc \in {"recheck", "authenticate"} /\ req[r].planned

HoldsWorkspace(r) ==
    /\ req[r].pc \in {"stream", "recheck", "authenticate", "lookup", "lock", "decide"}
    /\ req[r].planned

HoldsStream(r) ==
    \/ req[r].pc = "decide"
    \/ req[r].pc \in {"recheck", "authenticate", "lookup", "lock"} /\ req[r].planned

(* What holds of one request: its locks, and what they protect. *)
RequestSound(r) ==
    /\ req[r].pc \in {"admit", "plan"} => ~req[r].planned
    /\ req[r].pc \in {"user", "workspace", "stream"} => req[r].planned
    /\ HoldsUser(r) => users[Caller(r)] = r
    /\ HoldsWorkspace(r) => r \in workspace
    /\ HoldsStream(r) => lock[req[r].body.stream] = r
    /\ req[r].pc \in {"lookup", "lock", "decide"} /\ req[r].planned => Caller(r) \in member
    /\ req[r].pc \in {"lock", "decide"} => ~ledger[Key(req[r].body)].stored
    /\ req[r].pc = "decide" =>
          /\ req[r].head = head[req[r].body.stream]
          /\ req[r].prior = tasks[req[r].body.stream][req[r].body.task]
    /\ req[r].pc = "done" /\ req[r].answer.status = "decided" =>
          /\ ledger[Key(req[r].body)].stored
          /\ ledger[Key(req[r].body)].body = req[r].body
          /\ req[r].answer.response = ledger[Key(req[r].body)].response

LockTypes ==
    /\ users \in [Principals -> Requests \cup {Free}]
    /\ workspace \subseteq Requests
    /\ lock \in [Streams -> Requests \cup {Free}]

CommittedTypes ==
    /\ member \subseteq Principals
    /\ head \in [Streams -> Nat]
    /\ events \subseteq Event
    /\ IsFiniteSet(events)
    /\ tasks \in [Streams -> [Tasks -> TaskState]]
    /\ ledger \in [Keys -> LedgerRows]

Inv ==
    /\ CommittedTypes
    /\ LockTypes
    /\ req \in [Requests -> Shapes]
    /\ SeqsAreContiguous
    /\ TakesEffectOnce
    /\ \A r \in Requests : RequestSound(r)

-----------------------------------------------------------------------------
(* Types.                                                                  *)

LEMMA KeyType == ASSUME NEW b \in Body PROVE Key(b) \in Keys
BY DEF Body, Key, Keys

LEMMA StepTypes ==
    ASSUME NEW b \in Body, NEW s \in TaskState, NEW n \in Nat
    PROVE  /\ DecidedEvent(b, s, n) \in Event
           /\ Projected(s, DecidedEvent(b, s, n)) \in TaskState
<1> DEFINE e == DecidedEvent(b, s, n)
<1>1. s.epoch \in Nat /\ s.epoch + 1 \in Nat
  BY DEF TaskState
<1>2. b.kind \in Kinds /\ AcceptedType(b.kind) \in Types
  BY DEF Body, Kinds, Types, AcceptedType
<1>3. e \in Event
  BY <1>1, <1>2, KeyType DEF DecidedEvent, Event, Types, Body
<1>4. TaskCreated \in TaskState
  BY DEF TaskCreated, TaskState, Lifecycles, NoExpiry
<1>5. LeaseGranted(s, e.epoch, e.owner, Now + TTL) \in TaskState
  <2>1. e.epoch \in Nat /\ e.owner \in Principals /\ Now + TTL \in Nat
    BY <1>3 DEF Event, Now, TTL
  <2> HIDE DEF e
  <2> QED
    BY <2>1 DEF LeaseGranted, leaseLifecycle, TaskState, Lifecycles
<1>6. e.type \in Types
  BY <1>3 DEF Event
<1>7. reduceTask(s, e) \in TaskState
  <2> HIDE DEF e
  <2> QED
    BY <1>4, <1>5, <1>6 DEF reduceTask, Types
<1> QED
  BY <1>3, <1>7 DEF Projected

LEMMA ShapeFacts ==
    ASSUME NEW q \in Shapes
    PROVE  /\ q.pc \in Running \cup {"idle", "done"}
           /\ q.pc = "idle" => q = Idle
           /\ q.pc \in Running \ {"decide"} => q \in RunningReq
           /\ q.pc = "decide" => q \in DecidingReq
           /\ q.pc = "done" => q \in DoneReq
           /\ q.pc # "idle" => q.body \in Body
<1>1. CASE q = Idle
  BY <1>1 DEF Idle, Running
<1>2. CASE q \in RunningReq
  BY <1>2 DEF RunningReq, Running
<1>3. CASE q \in DecidingReq
  BY <1>3 DEF DecidingReq, Running
<1>4. CASE q \in DoneReq
  BY <1>4 DEF DoneReq, Running
<1> QED
  BY <1>1, <1>2, <1>3, <1>4 DEF Shapes

LEMMA StoredRowFacts ==
    ASSUME NEW q \in LedgerRows, q.stored
    PROVE  q.body \in Body /\ q.response \in Responses
<1>1. NotStored.stored = FALSE
  BY DEF NotStored
<1>2. q # NotStored
  BY <1>1
<1> QED
  BY <1>2 DEF LedgerRows

LEMMA BegunShape ==
    ASSUME NEW b \in Body, NEW n \in Nat
    PROVE  /\ Begun(b, n) \in RunningReq /\ Begun(b, n) \in Shapes
           /\ Begun(b, n).pc \in {"admit", "plan"} /\ Begun(b, n).planned = FALSE
<1>1. Begun(b, n) \in RunningReq
  BY DEF Begun, RunningReq, Running
<1> QED
  BY <1>1 DEF Shapes, Begun

-----------------------------------------------------------------------------
(* Steps of a transaction that commit nothing.                             *)

(* A step of r takes no lock from another request. *)
OthersKeep(r) ==
    /\ LockTypes'
    /\ \A p \in Principals : \A q \in Requests \ {r} : users[p] = q => users'[p] = q
    /\ \A q \in Requests \ {r} : q \in workspace => q \in workspace'
    /\ \A s \in Streams : \A q \in Requests \ {r} : lock[s] = q => lock'[s] = q

LEMMA ReleaseKeeps ==
    ASSUME LockTypes, NEW r \in Requests, Release(r) PROVE OthersKeep(r)
BY DEF LockTypes, Release, Released, OthersKeep

LEMMA UnchangedKeeps ==
    ASSUME LockTypes, NEW r \in Requests, UNCHANGED <<users, workspace, lock>>
    PROVE  OthersKeep(r)
BY DEF LockTypes, OthersKeep

(* The locks of the other requests and what they protect are untouched, so *)
(* such a step has only its own request to answer for.                     *)
LEMMA PrivateStep ==
    ASSUME Inv, NEW r \in Requests, NEW x \in Shapes,
           req' = [req EXCEPT ![r] = x], UNCHANGED committed,
           OthersKeep(r), RequestSound(r)'
    PROVE  Inv'
<1>1. CommittedTypes' /\ SeqsAreContiguous' /\ TakesEffectOnce'
  BY DEF Inv, committed, CommittedTypes, SeqsAreContiguous, TakesEffectOnce
<1>2. LockTypes' /\ req' \in [Requests -> Shapes]
  BY DEF Inv, OthersKeep
<1>3. ASSUME NEW q \in Requests, q # r PROVE RequestSound(q)'
  <2>1. req'[q] = req[q] /\ req[q] \in Shapes
    BY <1>3 DEF Inv
  <2>2. RequestSound(q)
    BY DEF Inv
  <2>3. req[q].pc # "idle" => req[q].body.user \in Principals /\ req[q].body.stream \in Streams
    BY <2>1, ShapeFacts DEF Body
  <2>4. HoldsUser(q)' = HoldsUser(q) /\ HoldsWorkspace(q)' = HoldsWorkspace(q)
        /\ HoldsStream(q)' = HoldsStream(q) /\ Caller(q)' = Caller(q)
    BY <2>1 DEF HoldsUser, HoldsWorkspace, HoldsStream, Caller
  <2>5. HoldsUser(q) => users'[Caller(q)] = q
    BY <1>3, <2>2, <2>3 DEF RequestSound, OthersKeep, HoldsUser, Caller
  <2>6. HoldsWorkspace(q) => q \in workspace'
    BY <1>3, <2>2 DEF RequestSound, OthersKeep
  <2>7. HoldsStream(q) => lock'[req[q].body.stream] = q
    BY <1>3, <2>2, <2>3 DEF RequestSound, OthersKeep, HoldsStream
  <2> QED
    BY <2>1, <2>2, <2>4, <2>5, <2>6, <2>7 DEF RequestSound, committed
<1> QED
  BY <1>1, <1>2, <1>3 DEF Inv

(* A request that ends releases its locks and must only have answered in   *)
(* agreement with the ledger.                                              *)
LEMMA FinishStep ==
    ASSUME Inv, NEW r \in Requests, req[r].pc # "idle", NEW a \in Answers,
           Finish(r, a), UNCHANGED committed,
           a.status = "decided" =>
              /\ ledger[Key(req[r].body)].stored
              /\ ledger[Key(req[r].body)].body = req[r].body
              /\ a.response = ledger[Key(req[r].body)].response
    PROVE  Inv'
<1> DEFINE x == [pc |-> "done", body |-> req[r].body, answer |-> a]
<1>1. req[r] \in Shapes /\ req \in [Requests -> Shapes] /\ LockTypes
  BY DEF Inv
<1>2. x \in Shapes
  BY <1>1, ShapeFacts DEF Shapes, DoneReq
<1>3. req' = [req EXCEPT ![r] = x] /\ req'[r] = x
  BY <1>1 DEF Finish
<1>4. OthersKeep(r)
  BY <1>1, ReleaseKeeps DEF Finish
<1>5. RequestSound(r)'
  BY <1>3 DEF RequestSound, HoldsUser, HoldsWorkspace, HoldsStream, committed
<1> HIDE DEF x
<1> QED
  BY <1>2, <1>3, <1>4, <1>5, PrivateStep

(* An answer without a decision says nothing about the ledger.             *)
LEMMA RefusedStep ==
    ASSUME Inv, NEW r \in Requests, req[r].pc # "idle", NEW status \in Undecided,
           Finish(r, Answered(status)), UNCHANGED committed
    PROVE  Inv'
<1>1. Answered(status) \in Answers /\ Answered(status).status # "decided"
  BY DEF Answered, Answers, Undecided
<1> QED
  BY <1>1, FinishStep

(* A request that goes on in another phase: what must hold there.          *)
LEMMA PhaseStep ==
    ASSUME Inv, NEW r \in Requests, req[r] \in RunningReq,
           NEW next \in Running \ {"decide"}, NEW planned \in BOOLEAN,
           req' = [req EXCEPT ![r] = [req[r] EXCEPT !.pc = next, !.planned = planned]],
           UNCHANGED committed, OthersKeep(r),
           next \in {"admit", "plan"} => ~planned,
           next \in {"user", "workspace", "stream"} => planned,
           (\/ next \in {"workspace", "stream", "lookup", "lock"}
            \/ next \in {"recheck", "authenticate"} /\ planned)
             => users'[Caller(r)] = r,
           next \in {"stream", "recheck", "authenticate", "lookup", "lock"} /\ planned
             => r \in workspace',
           next \in {"recheck", "authenticate", "lookup", "lock"} /\ planned
             => lock'[req[r].body.stream] = r,
           next \in {"lookup", "lock"} /\ planned => Caller(r) \in member,
           next = "lock" => ~ledger[Key(req[r].body)].stored
    PROVE  Inv'
<1> DEFINE x == [req[r] EXCEPT !.pc = next, !.planned = planned]
<1>1. x \in RunningReq /\ x.pc = next /\ x.planned = planned /\ x.body = req[r].body
  BY DEF RunningReq
<1>2. req'[r] = x /\ x \in Shapes
  BY <1>1 DEF Inv, Shapes
<1> HIDE DEF x
<1>3. next # "decide" /\ next # "done"
  BY DEF Running
<1>4. RequestSound(r)'
  BY <1>1, <1>2, <1>3
     DEF RequestSound, HoldsUser, HoldsWorkspace, HoldsStream, Caller, committed
<1> QED
  BY <1>2, <1>4, PrivateStep DEF x

(* GoTo keeps the plan.                                                    *)
LEMMA GoToStep ==
    ASSUME Inv, NEW r \in Requests, req[r] \in RunningReq,
           NEW next \in Running \ {"decide"}, GoTo(r, next),
           UNCHANGED committed, OthersKeep(r),
           next \in {"admit", "plan"} => ~req[r].planned,
           next \in {"user", "workspace", "stream"} => req[r].planned,
           (\/ next \in {"workspace", "stream", "lookup", "lock"}
            \/ next \in {"recheck", "authenticate"} /\ req[r].planned)
             => users'[Caller(r)] = r,
           (/\ next \in {"stream", "recheck", "authenticate", "lookup", "lock"}
            /\ req[r].planned)
             => r \in workspace',
           next \in {"recheck", "authenticate", "lookup", "lock"} /\ req[r].planned
             => lock'[req[r].body.stream] = r,
           next \in {"lookup", "lock"} /\ req[r].planned => Caller(r) \in member,
           next = "lock" => ~ledger[Key(req[r].body)].stored
    PROVE  Inv'
<1> DEFINE planned == req[r].planned
<1>1. planned \in BOOLEAN
  BY DEF RunningReq
<1>2. [req[r] EXCEPT !.pc = next] = [req[r] EXCEPT !.pc = next, !.planned = planned]
  BY DEF RunningReq
<1>3. req' = [req EXCEPT ![r] = [req[r] EXCEPT !.pc = next, !.planned = planned]]
  BY <1>2 DEF GoTo
<1> HIDE DEF planned
<1> QED
  BY <1>1, <1>3, PhaseStep DEF planned

(* A transaction rolled back for a changed plan starts from nothing.       *)
LEMMA RetryStep ==
    ASSUME Inv, NEW r \in Requests, req[r] \in RunningReq, Retry(r),
           UNCHANGED committed
    PROVE  Inv'
<1>1. CASE req[r].attempt < MaxAttempts
  <2> DEFINE x == Begun(req[r].body, req[r].attempt + 1)
  <2>0. req[r].body \in Body /\ req[r].attempt + 1 \in Nat
    BY DEF RunningReq
  <2>1. x \in Shapes /\ x.pc \in {"admit", "plan"} /\ x.planned = FALSE
    BY <2>0, BegunShape
  <2>2. req' = [req EXCEPT ![r] = x] /\ Release(r)
    BY <1>1 DEF Retry
  <2>3. req'[r] = x
    BY <2>2 DEF Inv
  <2>4. OthersKeep(r)
    BY <2>2, ReleaseKeeps DEF Inv
  <2> HIDE DEF x
  <2>5. RequestSound(r)'
    BY <2>1, <2>3 DEF RequestSound, HoldsUser, HoldsWorkspace, HoldsStream
  <2> QED
    BY <2>1, <2>2, <2>4, <2>5, PrivateStep
<1>2. CASE ~(req[r].attempt < MaxAttempts)
  BY <1>2, RefusedStep DEF Retry, Undecided, RunningReq, Running
<1> QED
  BY <1>1, <1>2

-----------------------------------------------------------------------------
(* Steps before the commit, one by one.                                    *)

(* A request in a phase before the decision has a running record and holds *)
(* what RequestSound says.                                                 *)
LEMMA RunningFacts ==
    ASSUME Inv, NEW r \in Requests, req[r].pc \in Running \ {"decide"}
    PROVE  /\ req[r] \in RunningReq /\ RequestSound(r) /\ LockTypes
           /\ req[r].body \in Body /\ req[r].planned \in BOOLEAN
           /\ Caller(r) \in Principals /\ req[r].body.stream \in Streams
<1>1. req[r] \in Shapes
  BY DEF Inv
<1>2. req[r] \in RunningReq
  BY <1>1, ShapeFacts
<1> QED
  BY <1>2 DEF Inv, RunningReq, Body, Caller

LEMMA ArriveInv ==
    ASSUME Inv, NEW r \in Requests, NEW b \in Body, Arrive(r, b) PROVE Inv'
<1>1. /\ Begun(b, 1) \in Shapes /\ Begun(b, 1).pc \in {"admit", "plan"}
      /\ Begun(b, 1).planned = FALSE
  BY BegunShape
<1>2. req'[r] = Begun(b, 1)
  BY DEF Arrive, Inv
<1>3. RequestSound(r)'
  BY <1>1, <1>2 DEF RequestSound, HoldsUser, HoldsWorkspace, HoldsStream
<1>4. OthersKeep(r)
  BY UnchangedKeeps DEF Arrive, Inv
<1> QED
  BY <1>1, <1>3, <1>4, PrivateStep DEF Arrive

LEMMA AdmitInv == ASSUME Inv, NEW r \in Requests, Admit(r) PROVE Inv'
<1>1. req[r].pc = "admit" /\ req[r].pc \in Running \ {"decide"} /\ "plan" \in Running \ {"decide"}
  BY DEF Admit, Running
<1>2. req[r] \in RunningReq /\ LockTypes /\ ~req[r].planned
  BY <1>1, RunningFacts DEF RequestSound
<1>3. CASE Caller(r) \in member
  <2>1. GoTo(r, "plan") /\ OthersKeep(r) /\ UNCHANGED committed
    BY <1>2, <1>3, UnchangedKeeps DEF Admit
  <2> QED
    BY <1>1, <1>2, <2>1, GoToStep
<1>4. CASE Caller(r) \notin member
  BY <1>1, <1>4, RefusedStep DEF Admit, Undecided
<1> QED
  BY <1>3, <1>4

LEMMA PlanInv == ASSUME Inv, NEW r \in Requests, Plan(r) PROVE Inv'
<1>1. /\ req[r].pc = "plan" /\ req[r].pc \in Running \ {"decide"}
      /\ "user" \in Running \ {"decide"} /\ "recheck" \in Running \ {"decide"}
  BY DEF Plan, Running
<1>2. req[r] \in RunningReq /\ LockTypes /\ ~req[r].planned /\ UNCHANGED committed
  BY <1>1, RunningFacts DEF Plan, RequestSound
<1>3. CASE Caller(r) \in member
  <2>1. OthersKeep(r)
    BY <1>2, <1>3, UnchangedKeeps DEF Plan
  <2>2. req' = [req EXCEPT ![r] = [req[r] EXCEPT !.pc = "user", !.planned = TRUE]]
    BY <1>3 DEF Plan, Inv
  <2> QED
    BY <1>1, <1>2, <2>1, <2>2, PhaseStep
<1>4. CASE Caller(r) \notin member /\ Caller(r) \in Humans
  <2>1. GoTo(r, "recheck") /\ OthersKeep(r)
    BY <1>2, <1>4, UnchangedKeeps DEF Plan
  <2> QED
    BY <1>1, <1>2, <2>1, GoToStep
<1>5. CASE Caller(r) \notin member /\ Caller(r) \notin Humans
  BY <1>1, <1>2, <1>5, RefusedStep DEF Plan, Undecided
<1> QED
  BY <1>3, <1>4, <1>5

(* A row taken when nobody else holds it is taken from nobody.             *)
LEMMA TakenUserKeeps ==
    ASSUME LockTypes, NEW r \in Requests, NEW p \in Principals,
           RowAvailable(users[p], r), users' = [users EXCEPT ![p] = r],
           UNCHANGED <<workspace, lock>>
    PROVE  OthersKeep(r) /\ users'[p] = r
BY FreeAssumption DEF LockTypes, RowAvailable, OthersKeep

LEMMA TakenStreamKeeps ==
    ASSUME LockTypes, NEW r \in Requests, NEW s \in Streams,
           RowAvailable(lock[s], r), lock' = [lock EXCEPT ![s] = r],
           UNCHANGED <<users, workspace>>
    PROVE  OthersKeep(r) /\ lock'[s] = r
BY FreeAssumption DEF LockTypes, RowAvailable, OthersKeep

LEMMA LockUserInv == ASSUME Inv, NEW r \in Requests, LockUser(r) PROVE Inv'
<1>1. req[r].pc = "user" /\ req[r].pc \in Running \ {"decide"}
      /\ "workspace" \in Running \ {"decide"}
  BY DEF LockUser, Running
<1>2. req[r] \in RunningReq /\ LockTypes /\ Caller(r) \in Principals /\ req[r].planned
  BY <1>1, RunningFacts DEF RequestSound
<1>3. OthersKeep(r) /\ users'[Caller(r)] = r
  BY <1>2, TakenUserKeeps DEF LockUser
<1>4. GoTo(r, "workspace") /\ UNCHANGED committed
  BY DEF LockUser
<1> QED
  BY <1>1, <1>2, <1>3, <1>4, GoToStep

LEMMA LockWorkspaceInv == ASSUME Inv, NEW r \in Requests, LockWorkspace(r) PROVE Inv'
<1>1. req[r].pc = "workspace" /\ req[r].pc \in Running \ {"decide"}
      /\ "stream" \in Running \ {"decide"}
  BY DEF LockWorkspace, Running
<1>2. req[r] \in RunningReq /\ LockTypes /\ req[r].planned /\ users[Caller(r)] = r
  BY <1>1, RunningFacts DEF RequestSound, HoldsUser
<1>3. OthersKeep(r) /\ r \in workspace' /\ users' = users
  BY <1>2 DEF LockWorkspace, LockTypes, OthersKeep
<1>4. GoTo(r, "stream") /\ UNCHANGED committed
  BY DEF LockWorkspace
<1> QED
  BY <1>1, <1>2, <1>3, <1>4, GoToStep

LEMMA LockStreamInv == ASSUME Inv, NEW r \in Requests, LockStream(r) PROVE Inv'
<1>1. req[r].pc = "stream" /\ req[r].pc \in Running \ {"decide"}
      /\ "recheck" \in Running \ {"decide"}
  BY DEF LockStream, Running
<1>2. /\ req[r] \in RunningReq /\ LockTypes /\ req[r].planned
      /\ users[Caller(r)] = r /\ r \in workspace /\ req[r].body.stream \in Streams
  BY <1>1, RunningFacts DEF RequestSound, HoldsUser, HoldsWorkspace
<1>3. /\ OthersKeep(r) /\ lock'[req[r].body.stream] = r
      /\ users' = users /\ workspace' = workspace
  BY <1>2, TakenStreamKeeps DEF LockStream
<1>4. GoTo(r, "recheck") /\ UNCHANGED committed
  BY DEF LockStream
<1> QED
  BY <1>1, <1>2, <1>3, <1>4, GoToStep

LEMMA ClosureChangesInv ==
    ASSUME Inv, NEW r \in Requests, ClosureChanges(r) PROVE Inv'
<1>1. req[r].pc \in Running \ {"decide"}
  BY DEF ClosureChanges, Running
<1> QED
  BY <1>1, RunningFacts, RetryStep DEF ClosureChanges

LEMMA RecheckInv == ASSUME Inv, NEW r \in Requests, Recheck(r) PROVE Inv'
<1>1. req[r].pc = "recheck" /\ req[r].pc \in Running \ {"decide"}
      /\ "authenticate" \in Running \ {"decide"}
  BY DEF Recheck, Running
<1>2. /\ req[r] \in RunningReq /\ LockTypes /\ UNCHANGED committed
      /\ req[r].planned => /\ users[Caller(r)] = r /\ r \in workspace
                           /\ lock[req[r].body.stream] = r
  BY <1>1, RunningFacts DEF Recheck, RequestSound, HoldsUser, HoldsWorkspace, HoldsStream
<1>3. CASE Caller(r) \in Humans /\ Caller(r) \notin member
  BY <1>2, <1>3, RetryStep DEF Recheck
<1>4. CASE ~(Caller(r) \in Humans /\ Caller(r) \notin member)
  <2>1. GoTo(r, "authenticate") /\ OthersKeep(r) /\ UNCHANGED <<users, workspace, lock>>
    BY <1>2, <1>4, UnchangedKeeps DEF Recheck
  <2> QED
    BY <1>1, <1>2, <2>1, GoToStep
<1> QED
  BY <1>3, <1>4

(* From here on the users row is held with or without a plan.              *)
LEMMA AuthenticateInv == ASSUME Inv, NEW r \in Requests, Authenticate(r) PROVE Inv'
<1>1. req[r].pc = "authenticate" /\ req[r].pc \in Running \ {"decide"}
      /\ "lookup" \in Running \ {"decide"}
  BY DEF Authenticate, Running
<1>2. /\ req[r] \in RunningReq /\ LockTypes /\ UNCHANGED committed
      /\ Caller(r) \in Principals
      /\ req[r].planned => r \in workspace /\ lock[req[r].body.stream] = r
  BY <1>1, RunningFacts DEF Authenticate, RequestSound, HoldsWorkspace, HoldsStream
<1>3. CASE Caller(r) \in member
  <2>1. /\ GoTo(r, "lookup") /\ OthersKeep(r) /\ users'[Caller(r)] = r
        /\ UNCHANGED <<workspace, lock>>
    BY <1>2, <1>3, TakenUserKeeps DEF Authenticate
  <2> QED
    BY <1>1, <1>2, <1>3, <2>1, GoToStep
<1>4. CASE Caller(r) \notin member
  BY <1>1, <1>2, <1>4, RefusedStep DEF Authenticate, Undecided
<1> QED
  BY <1>3, <1>4

(* A repeat is answered from the ledger; a new command id is known to be   *)
(* new for as long as the users row is held.                               *)
LEMMA LookupInv == ASSUME Inv, NEW r \in Requests, Lookup(r) PROVE Inv'
<1> DEFINE b == req[r].body
           entry == ledger[Key(b)]
<1>1. req[r].pc = "lookup" /\ req[r].pc \in Running \ {"decide"}
      /\ "lock" \in Running \ {"decide"} /\ req[r].pc # "idle"
  BY DEF Lookup, Running
<1>2. /\ req[r] \in RunningReq /\ LockTypes /\ UNCHANGED committed
      /\ users[Caller(r)] = r /\ b \in Body
      /\ req[r].planned => /\ r \in workspace /\ lock[b.stream] = r
                           /\ Caller(r) \in member
  BY <1>1, RunningFacts DEF Lookup, RequestSound, HoldsUser, HoldsWorkspace, HoldsStream
<1>3. entry \in LedgerRows
  BY <1>2, KeyType DEF Inv, CommittedTypes
<1>4. CASE entry.stored /\ SameRequest(entry, b)
  <2>0. entry.response \in Responses
    BY <1>3, <1>4, StoredRowFacts
  <2>1. StoredAnswer(entry) \in Answers
    BY <2>0 DEF StoredAnswer, Answers
  <2>2. Finish(r, StoredAnswer(entry))
    BY <1>4 DEF Lookup
  <2>3. StoredAnswer(entry).response = entry.response /\ entry.body = b
    BY <1>4 DEF StoredAnswer, SameRequest
  <2> QED
    BY <1>1, <1>2, <1>4, <2>1, <2>2, <2>3, FinishStep
<1>5. CASE entry.stored /\ ~SameRequest(entry, b)
  BY <1>1, <1>2, <1>5, RefusedStep DEF Lookup, Undecided
<1>6. CASE ~entry.stored
  <2>1. GoTo(r, "lock") /\ OthersKeep(r) /\ UNCHANGED <<users, workspace, lock>>
    BY <1>2, <1>6, UnchangedKeeps DEF Lookup
  <2> QED
    BY <1>1, <1>2, <1>6, <2>1, GoToStep
<1> QED
  BY <1>4, <1>5, <1>6

(* The head and the task row are read under the stream's lock.             *)
LEMMA LockInv == ASSUME Inv, NEW r \in Requests, Lock(r) PROVE Inv'
<1> DEFINE b == req[r].body
           x == [pc |-> "decide", body |-> b, planned |-> req[r].planned,
                 head |-> head[b.stream], prior |-> tasks[b.stream][b.task]]
<1>1. req[r].pc = "lock" /\ req[r].pc \in Running \ {"decide"}
  BY DEF Lock, Running
<1>2. /\ LockTypes /\ UNCHANGED committed /\ RequestSound(r)
      /\ b \in Body /\ b.stream \in Streams /\ req[r].planned \in BOOLEAN
  BY <1>1, RunningFacts DEF Lock
<1>3. x \in Shapes
  BY <1>2 DEF Shapes, DecidingReq, Inv, CommittedTypes, Body
<1>4. req' = [req EXCEPT ![r] = x] /\ req'[r] = x
  BY DEF Lock, Inv
<1>5. OthersKeep(r) /\ lock'[b.stream] = r /\ UNCHANGED <<users, workspace>>
  BY <1>2, TakenStreamKeeps DEF Lock
<1>6. RequestSound(r)'
  BY <1>1, <1>2, <1>4, <1>5
     DEF RequestSound, HoldsUser, HoldsWorkspace, HoldsStream, Caller, committed
<1> HIDE DEF x
<1> QED
  BY <1>2, <1>3, <1>4, <1>5, <1>6, PrivateStep

LEMMA FailInv == ASSUME Inv, NEW r \in Requests, Fail(r) PROVE Inv'
BY RefusedStep DEF Fail, Undecided

-----------------------------------------------------------------------------
(* The commit.                                                             *)

(* What a request in its last phase has and knows.                         *)
LEMMA DecidingFacts ==
    ASSUME Inv, NEW r \in Requests, req[r].pc = "decide"
    PROVE  /\ req[r] \in DecidingReq /\ RequestSound(r)
           /\ req[r].body \in Body /\ Key(req[r].body) \in Keys
           /\ req[r].body.stream \in Streams /\ req[r].body.task \in Tasks
           /\ users[Caller(r)] = r /\ lock[req[r].body.stream] = r
           /\ req[r].head = head[req[r].body.stream]
           /\ NextSeq(r) \in Nat /\ NextSeq(r) = head[req[r].body.stream] + 1
<1>1. req[r] \in Shapes /\ RequestSound(r)
  BY DEF Inv
<1>2. req[r] \in DecidingReq /\ req[r].body \in Body
  BY <1>1, ShapeFacts DEF DecidingReq
<1> QED
  BY <1>1, <1>2, KeyType
     DEF RequestSound, HoldsUser, HoldsStream, NextSeq, DecidingReq, Body

(* The commit fills the next number of its own stream, under a key no      *)
(* event has.                                                              *)
LEMMA CommitEvents ==
    ASSUME Inv, NEW r \in Requests, Commit(r),
           NEW e, e = DecidedEvent(req[r].body, req[r].prior, NextSeq(r))
    PROVE  /\ e \in Event /\ e \notin events /\ events' = events \cup {e}
           /\ e.stream = req[r].body.stream /\ e.key = Key(req[r].body)
           /\ e.task = req[r].body.task
           /\ e.seq = head[e.stream] + 1
           /\ head' = [head EXCEPT ![e.stream] = e.seq]
           /\ ledger' = [ledger EXCEPT ![e.key] = Stored(req[r].body, e)]
           /\ tasks' = [tasks EXCEPT ![e.stream][e.task] =
                                        reduceTask(tasks[e.stream][e.task], e)]
           /\ Projected(req[r].prior, e) \in TaskState
           /\ ~ledger[e.key].stored
<1> DEFINE b == req[r].body
<1>1. req[r].pc = "decide"
  BY DEF Commit
<1>2. /\ b \in Body /\ NextSeq(r) \in Nat /\ NextSeq(r) = head[b.stream] + 1
      /\ req[r].prior \in TaskState /\ req[r].prior = tasks[b.stream][b.task]
  BY <1>1, DecidingFacts DEF DecidingReq, RequestSound
<1>3. e \in Event /\ Projected(req[r].prior, e) \in TaskState
  BY <1>2, StepTypes
<1>4. e.stream = b.stream /\ e.key = Key(b) /\ e.task = b.task /\ e.seq = NextSeq(r)
  BY DEF DecidedEvent
<1>5. ~SeqTaken(r) /\ ~InsertLoses(r)
  BY DEF Commit
<1>6. e \notin events
  BY <1>4, <1>5 DEF SeqTaken
<1>7. /\ events' = events \cup {e}
      /\ head' = [head EXCEPT ![b.stream] = e.seq]
      /\ ledger' = [ledger EXCEPT ![Key(b)] = Stored(b, e)]
      /\ tasks' = [tasks EXCEPT ![b.stream][b.task] = reduceTask(req[r].prior, e)]
  BY DEF Commit, HeadAfter, LedgerAfter, Projected
<1> QED
  BY <1>2, <1>3, <1>4, <1>5, <1>6, <1>7 DEF InsertLoses

LEMMA CommitCommitted ==
    ASSUME Inv, NEW r \in Requests, Commit(r)
    PROVE  CommittedTypes' /\ SeqsAreContiguous' /\ TakesEffectOnce'
<1> DEFINE b == req[r].body
           e == DecidedEvent(b, req[r].prior, NextSeq(r))
<1>1. /\ e \in Event /\ e \notin events /\ events' = events \cup {e}
      /\ e.stream = b.stream /\ e.key = Key(b) /\ e.task = b.task
      /\ e.seq = head[e.stream] + 1
      /\ head' = [head EXCEPT ![e.stream] = e.seq]
      /\ ledger' = [ledger EXCEPT ![e.key] = Stored(b, e)]
      /\ tasks' = [tasks EXCEPT ![e.stream][e.task] =
                                   reduceTask(tasks[e.stream][e.task], e)]
      /\ reduceTask(tasks[e.stream][e.task], e) \in TaskState
      /\ ~ledger[e.key].stored
  <2>1. req[r].prior = tasks[b.stream][b.task]
    BY DecidingFacts DEF Commit, RequestSound
  <2> QED
    BY <2>1, CommitEvents DEF Projected
<1>2. b \in Body /\ e.stream \in Streams /\ e.task \in Tasks /\ e.key \in Keys /\ e.seq \in Nat
  BY <1>1, DecidingFacts DEF Commit, Event
<1>m. member' = member
  BY DEF Commit
<1> HIDE DEF e, b
<1>3. CommittedTypes'
  <2>1. IsFiniteSet(events')
    BY <1>1, FS_AddElement DEF Inv, CommittedTypes
  <2>2. Response(e) \in Responses
    BY <1>2 DEF Response, Responses
  <2>3. Stored(b, e) \in LedgerRows
    BY <1>2, <2>2 DEF Stored, LedgerRows
  <2>4. tasks' \in [Streams -> [Tasks -> TaskState]]
    BY <1>1, <1>2 DEF Inv, CommittedTypes
  <2> QED
    BY <1>1, <1>2, <1>m, <2>1, <2>3, <2>4 DEF Inv, CommittedTypes
<1>4. SeqsAreContiguous'
  <2> SUFFICES ASSUME NEW s \in Streams
               PROVE  LET mine == {f \in events' : f.stream = s}
                      IN  {f.seq : f \in mine} = 1..head'[s] /\ Cardinality(mine) = head'[s]
    BY DEF SeqsAreContiguous
  <2> DEFINE mine == {f \in events : f.stream = s}
             after == {f \in events' : f.stream = s}
  <2>1. {f.seq : f \in mine} = 1..head[s] /\ Cardinality(mine) = head[s] /\ head[s] \in Nat
    BY DEF Inv, SeqsAreContiguous, CommittedTypes
  <2>2. IsFiniteSet(mine)
    BY FS_Subset DEF Inv, CommittedTypes
  <2>3. CASE s # e.stream
    <3>1. after = mine /\ head'[s] = head[s]
      BY <1>1, <1>2, <2>3 DEF Inv, CommittedTypes
    <3> QED
      BY <2>1, <3>1
  <2>4. CASE s = e.stream
    <3>1. after = mine \cup {e} /\ e \notin mine
      BY <1>1, <2>4
    <3>2. head'[s] = head[s] + 1 /\ e.seq = head[s] + 1
      BY <1>1, <1>2, <2>4 DEF Inv, CommittedTypes
    <3>3. Cardinality(after) = head'[s]
      BY <2>1, <2>2, <3>1, <3>2, FS_AddElement
    <3>4. {f.seq : f \in after} = {f.seq : f \in mine} \cup {e.seq}
      BY <3>1
    <3>5. 1..(head[s] + 1) = (1..head[s]) \cup {head[s] + 1}
      BY <2>1
    <3> HIDE DEF mine, after
    <3>6. {f.seq : f \in after} = 1..head'[s]
      BY <2>1, <3>2, <3>4, <3>5
    <3> QED
      BY <3>3, <3>6 DEF after
  <2> QED
    BY <2>3, <2>4
<1>5. TakesEffectOnce'
  <2> SUFFICES ASSUME NEW k \in Keys
               PROVE  LET mine == {f \in events' : f.key = k}
                      IN  IF ledger'[k].stored
                          THEN \E f \in events' : mine = {f} /\ ledger'[k] = Stored(ledger'[k].body, f)
                          ELSE mine = {}
    BY DEF TakesEffectOnce
  <2> DEFINE mine == {f \in events : f.key = k}
             after == {f \in events' : f.key = k}
  <2>1. CASE k # e.key
    <3>1. after = mine /\ ledger'[k] = ledger[k]
      BY <1>1, <1>2, <2>1 DEF Inv, CommittedTypes
    <3>2. IF ledger[k].stored
          THEN \E f \in events : mine = {f} /\ ledger[k] = Stored(ledger[k].body, f)
          ELSE mine = {}
      BY DEF Inv, TakesEffectOnce
    <3>3. events \subseteq events'
      BY <1>1
    <3> HIDE DEF mine, after
    <3> QED
      BY <3>1, <3>2, <3>3 DEF after
  <2>2. CASE k = e.key
    <3>1. mine = {}
      BY <1>1, <2>2 DEF Inv, TakesEffectOnce
    <3>2. after = {e} /\ e \in events'
      BY <1>1, <2>2, <3>1
    <3>3. ledger'[k] = Stored(b, e)
      BY <1>1, <1>2, <2>2 DEF Inv, CommittedTypes
    <3>4. Stored(b, e).stored = TRUE /\ Stored(b, e).body = b
      BY DEF Stored
    <3> HIDE DEF mine, after
    <3> QED
      BY <3>2, <3>3, <3>4 DEF after
  <2> QED
    BY <2>1, <2>2
<1> QED
  BY <1>3, <1>4, <1>5

(* What the ledger stores it keeps, and the rows another deciding request  *)
(* read are rows of another stream, its key a key of another caller.       *)
LEMMA CommitOthers ==
    ASSUME Inv, NEW r \in Requests, Commit(r), NEW q \in Requests \ {r}
    PROVE  RequestSound(q)'
<1> DEFINE b == req[r].body
           e == DecidedEvent(b, req[r].prior, NextSeq(r))
           c == req[q].body
<1>1. /\ e.stream = b.stream /\ e.key = Key(b) /\ e.task = b.task
      /\ head' = [head EXCEPT ![e.stream] = e.seq]
      /\ ledger' = [ledger EXCEPT ![e.key] = Stored(b, e)]
      /\ tasks' = [tasks EXCEPT ![e.stream][e.task] =
                                   reduceTask(tasks[e.stream][e.task], e)]
      /\ ~ledger[e.key].stored
  BY CommitEvents
<1>2. /\ users[Caller(r)] = r /\ lock[b.stream] = r /\ b \in Body
      /\ Key(b) \in Keys /\ b.stream \in Streams
  BY DecidingFacts DEF Commit
<1>3. /\ req'[q] = req[q] /\ req[q] \in Shapes /\ member' = member /\ Release(r)
      /\ RequestSound(q)
  BY DEF Commit, Finish, Inv
<1>4. OthersKeep(r)
  BY <1>3, ReleaseKeeps DEF Inv
<1>5. req[q].pc # "idle" => c \in Body /\ c.user \in Principals /\ c.stream \in Streams
  BY <1>3, ShapeFacts DEF Body
<1>6. HoldsUser(q)' = HoldsUser(q) /\ HoldsWorkspace(q)' = HoldsWorkspace(q)
      /\ HoldsStream(q)' = HoldsStream(q) /\ Caller(q)' = Caller(q)
  BY <1>3 DEF HoldsUser, HoldsWorkspace, HoldsStream, Caller
<1>7. /\ HoldsUser(q) => users'[Caller(q)] = q
      /\ HoldsWorkspace(q) => q \in workspace'
      /\ HoldsStream(q) => lock'[c.stream] = q
  BY <1>3, <1>4, <1>5
     DEF RequestSound, OthersKeep, HoldsUser, HoldsWorkspace, HoldsStream, Caller
<1>8. ledger \in [Keys -> LedgerRows] /\ tasks \in [Streams -> [Tasks -> TaskState]]
      /\ head \in [Streams -> Nat]
  BY DEF Inv, CommittedTypes
<1> HIDE DEF e
<1>9. req[q].pc \in {"lock", "decide"} => ~ledger'[Key(c)].stored
  <2> SUFFICES ASSUME req[q].pc \in {"lock", "decide"} PROVE ~ledger'[Key(c)].stored
    OBVIOUS
  <2>1. users[c.user] = q /\ ~ledger[Key(c)].stored /\ c \in Body
    BY <1>3, <1>5 DEF RequestSound, HoldsUser, Caller
  <2>2. Key(c) # Key(b)
    BY <1>2, <2>1 DEF Key, Caller
  <2>3. ledger'[Key(c)] = ledger[Key(c)]
    BY <1>1, <1>8, <2>1, <2>2, KeyType
  <2> QED
    BY <2>1, <2>3
<1>10. req[q].pc = "decide" =>
          /\ req[q].head = head'[c.stream]
          /\ req[q].prior = tasks'[c.stream][c.task]
  <2> SUFFICES ASSUME req[q].pc = "decide"
               PROVE  head'[c.stream] = head[c.stream] /\ tasks'[c.stream] = tasks[c.stream]
    BY <1>3 DEF RequestSound
  <2>1. lock[c.stream] = q /\ c.stream \in Streams
    BY <1>3, <1>5 DEF RequestSound, HoldsStream
  <2>2. c.stream # b.stream
    BY <1>2, <2>1
  <2> QED
    BY <1>1, <1>8, <2>1, <2>2
<1>11. req[q].pc = "done" /\ req[q].answer.status = "decided" =>
          ledger'[Key(c)] = ledger[Key(c)]
  <2> SUFFICES ASSUME req[q].pc = "done", req[q].answer.status = "decided"
               PROVE  ledger'[Key(c)] = ledger[Key(c)]
    OBVIOUS
  <2>1. ledger[Key(c)].stored /\ Key(c) \in Keys
    BY <1>3, <1>5, KeyType DEF RequestSound
  <2>2. Key(c) # e.key
    BY <1>1, <2>1
  <2> QED
    BY <1>1, <1>8, <2>1, <2>2
<1> QED
  BY <1>3, <1>6, <1>7, <1>9, <1>10, <1>11 DEF RequestSound

LEMMA CommitInv == ASSUME Inv, NEW r \in Requests, Commit(r) PROVE Inv'
<1> DEFINE b == req[r].body
           e == DecidedEvent(b, req[r].prior, NextSeq(r))
           x == [pc |-> "done", body |-> b, answer |-> StoredAnswer(Stored(b, e))]
<1>1. CommittedTypes' /\ SeqsAreContiguous' /\ TakesEffectOnce'
  BY CommitCommitted
<1>2. /\ e \in Event /\ e.key = Key(b) /\ ledger' = [ledger EXCEPT ![e.key] = Stored(b, e)]
      /\ b \in Body /\ Key(b) \in Keys
  BY CommitEvents, DecidingFacts DEF Commit
<1>3. Response(e) \in Responses
  BY <1>2 DEF Response, Responses, Event
<1>4. x \in Shapes
  BY <1>2, <1>3 DEF Shapes, DoneReq, StoredAnswer, Stored, Answers
<1>5. req' = [req EXCEPT ![r] = x] /\ req'[r] = x /\ Release(r)
  BY DEF Commit, Finish, Inv
<1>6. LockTypes'
  BY <1>5, ReleaseKeeps DEF OthersKeep, Inv
<1>7. req' \in [Requests -> Shapes]
  BY <1>4, <1>5 DEF Inv
<1>8. ledger'[Key(b)] = Stored(b, e)
  BY <1>2 DEF Inv, CommittedTypes
<1>9. RequestSound(r)'
  BY <1>5, <1>8
     DEF RequestSound, HoldsUser, HoldsWorkspace, HoldsStream, StoredAnswer, Stored
<1>10. \A q \in Requests \ {r} : RequestSound(q)'
  BY CommitOthers
<1> QED
  BY <1>1, <1>6, <1>7, <1>9, <1>10 DEF Inv

-----------------------------------------------------------------------------
(* The transactions that change memberships.                               *)

(* Nobody is removed while a planned request relies on its membership: it  *)
(* holds the workspace row.                                                *)
LEMMA MembershipInv ==
    ASSUME Inv, NEW p \in Principals, Join(p) \/ Remove(p) PROVE Inv'
<1>1. /\ member' \subseteq Principals
      /\ UNCHANGED <<head, events, tasks, ledger, users, workspace, lock, req>>
  BY DEF Join, Remove, Inv, CommittedTypes
<1>2. CommittedTypes' /\ LockTypes' /\ req' \in [Requests -> Shapes]
      /\ SeqsAreContiguous' /\ TakesEffectOnce'
  BY <1>1 DEF Inv, CommittedTypes, LockTypes, SeqsAreContiguous, TakesEffectOnce
<1>3. ASSUME NEW r \in Requests PROVE RequestSound(r)'
  <2>1. RequestSound(r)
    BY DEF Inv
  <2>2. req[r].pc \in {"lookup", "lock", "decide"} /\ req[r].planned => Caller(r) \in member'
    <3> SUFFICES ASSUME req[r].pc \in {"lookup", "lock", "decide"}, req[r].planned
                 PROVE  Caller(r) \in member'
      OBVIOUS
    <3>1. r \in workspace /\ Caller(r) \in member
      BY <2>1 DEF RequestSound, HoldsWorkspace
    <3> QED
      BY <3>1 DEF Join, Remove, MembershipWritable
  <2> QED
    BY <1>1, <2>1, <2>2
       DEF RequestSound, HoldsUser, HoldsWorkspace, HoldsStream, Caller
<1> QED
  BY <1>2, <1>3 DEF Inv

-----------------------------------------------------------------------------
(* The theorems.                                                           *)

LEMMA InitInv == Init => Inv
<1> SUFFICES ASSUME Init PROVE Inv
  OBVIOUS
<1>1. NoTask \in TaskState
  BY DEF NoTask, TaskState, NoExpiry
<1>2. CommittedTypes
  BY <1>1, FS_EmptySet DEF Init, CommittedTypes, LedgerRows
<1>3. LockTypes /\ req \in [Requests -> Shapes]
  BY DEF Init, LockTypes, Shapes
<1>4. SeqsAreContiguous
  <2> SUFFICES ASSUME NEW s \in Streams
               PROVE  LET mine == {e \in events : e.stream = s}
                      IN  {e.seq : e \in mine} = 1..head[s] /\ Cardinality(mine) = head[s]
    BY DEF SeqsAreContiguous
  <2>1. {e \in events : e.stream = s} = {} /\ head[s] = 0
    BY DEF Init
  <2> QED
    BY <2>1, FS_EmptySet
<1>5. TakesEffectOnce
  BY DEF Init, TakesEffectOnce, NotStored
<1>6. \A r \in Requests : RequestSound(r)
  BY DEF Init, Idle, RequestSound, HoldsUser, HoldsWorkspace, HoldsStream
<1> QED
  BY <1>2, <1>3, <1>4, <1>5, <1>6 DEF Inv

LEMMA NextInv == Inv /\ [Next]_vars => Inv'
<1> SUFFICES ASSUME Inv, [Next]_vars PROVE Inv'
  OBVIOUS
<1>1. ASSUME NEW r \in Requests, Step(r) PROVE Inv'
  BY <1>1, AdmitInv, PlanInv, LockUserInv, LockWorkspaceInv, LockStreamInv, RecheckInv,
     AuthenticateInv, LookupInv, LockInv, CommitInv DEF Step
<1>2. CASE UNCHANGED vars
  <2> USE <1>2 DEF vars
  <2>1. CommittedTypes' /\ LockTypes' /\ req' \in [Requests -> Shapes]
        /\ SeqsAreContiguous' /\ TakesEffectOnce'
    BY DEF Inv, CommittedTypes, LockTypes, SeqsAreContiguous, TakesEffectOnce
  <2>2. \A r \in Requests : RequestSound(r)'
    BY DEF Inv, RequestSound, HoldsUser, HoldsWorkspace, HoldsStream, Caller
  <2> QED
    BY <2>1, <2>2 DEF Inv
<1> QED
  BY <1>1, <1>2, ArriveInv, ClosureChangesInv, FailInv, MembershipInv DEF Next

(* Every interleaving of the transactions' statements, with failures and   *)
(* retries anywhere, keeps the invariant that ties locks to rows.          *)
THEOREM Invariance == Spec => []Inv
<1> QED
  BY InitInv, NextInv, PTL DEF Spec

(* I2: the sequence numbers of every stream are exactly 1 to its head,     *)
(* each used once.                                                         *)
THEOREM ContiguousStreams == Spec => []SeqsAreContiguous
<1>1. Inv => SeqsAreContiguous
  BY DEF Inv
<1> QED
  BY <1>1, Invariance, PTL

(* A command id takes effect once, however often and wherever it is        *)
(* repeated.                                                               *)
THEOREM EffectOnce == Spec => []TakesEffectOnce
<1>1. Inv => TakesEffectOnce
  BY DEF Inv
<1> QED
  BY <1>1, Invariance, PTL

(* Every decided answer is the stored response of exactly this command.    *)
THEOREM RepeatsAgree == Spec => []AnswersAgree
<1>1. Inv => AnswersAgree
  BY DEF Inv, RequestSound, AnswersAgree
<1> QED
  BY <1>1, Invariance, PTL

(* The row locks leave the primary keys nothing to do.                     *)
THEOREM NoKeyCollides == Spec => []NoCollision
<1>1. Inv => NoCollision
  <2> SUFFICES ASSUME Inv, NEW r \in Requests, req[r].pc = "decide"
               PROVE  ~SeqTaken(r) /\ ~InsertLoses(r)
    BY DEF NoCollision
  <2> DEFINE s == req[r].body.stream
  <2>1. s \in Streams /\ NextSeq(r) = head[s] + 1 /\ RequestSound(r) /\ head[s] \in Nat
    BY DecidingFacts DEF Inv, CommittedTypes
  <2>2. \A e \in events : e.stream = s => e.seq \in 1..head[s]
    BY <2>1 DEF Inv, SeqsAreContiguous
  <2>3. ~SeqTaken(r)
    BY <2>1, <2>2 DEF SeqTaken
  <2>4. ~InsertLoses(r)
    BY <2>1 DEF RequestSound, InsertLoses
  <2> QED
    BY <2>3, <2>4
<1> QED
  BY <1>1, Invariance, PTL

(* The caller of a planned request stays a member until it commits.        *)
THEOREM CallerStaysMember == Spec => []MembershipHeld
<1>1. Inv => MembershipHeld
  BY DEF Inv, RequestSound, MembershipHeld
<1> QED
  BY <1>1, Invariance, PTL

-----------------------------------------------------------------------------
(* Rebuilding a task from its stream.  The fold is a recursive function;   *)
(* what is needed of recursion is that a function that satisfies its       *)
(* equation exists, which the invariant says of the streams as they grow,  *)
(* and that there is no other.                                             *)

\* The fold f of task t over the first h events of the log.
FoldEvent(prior, e, t) == IF e.task = t THEN reduceTask(prior, e) ELSE prior

FoldStep(f, log, t, n) ==
    IF n = 0 THEN NoTask ELSE FoldEvent(f[n - 1], log[n], t)

Folds(f, h, log, t) == f = [n \in 0..h |-> FoldStep(f, log, t, n)]

Log(s) == [n \in 1..head[s] |-> EventAt(s, n)]

\* Some fold of the stream ends in the task's row.
FoldsEndInRows ==
    \A s \in Streams, t \in Tasks :
        \E f : Folds(f, head[s], Log(s), t) /\ f[head[s]] = tasks[s][t]

LEMMA LeastNat ==
    ASSUME NEW T \in SUBSET Nat, T # {}
    PROVE  \E x \in T : \A y \in T : x <= y
<1> DEFINE R == OpToRel(<, Nat)
<1>1. IsWellFoundedOn(R, Nat)
  BY NatLessThanWellFounded
<1>2. \A x, y \in Nat : <<y, x>> \in R <=> y < x
  BY DEF OpToRel
<1> HIDE DEF R
<1>3. PICK x \in T : \A y \in T : ~(<<y, x>> \in R)
  BY <1>1, WFMin
<1>4. ASSUME NEW y \in T
      PROVE  x <= y
  <2>1. x \in Nat /\ y \in Nat
    OBVIOUS
  <2>2. ~(<<y, x>> \in R)
    BY <1>3
  <2>3. ~(y < x)
    BY <1>2, <2>1, <2>2
  <2> QED
    BY <2>1, <2>3
<1> QED
  BY <1>4

LEMMA FoldValue ==
    ASSUME NEW h \in Nat, NEW log, NEW t, NEW f, Folds(f, h, log, t)
    PROVE  \A n \in 0..h : f[n] = FoldStep(f, log, t, n)
<1>1. f = [n \in 0..h |-> FoldStep(f, log, t, n)]
  BY DEF Folds
<1> QED
  BY <1>1

LEMMA FoldUnique ==
    ASSUME NEW h \in Nat, NEW log, NEW t, NEW f, NEW g,
           Folds(f, h, log, t), Folds(g, h, log, t)
    PROVE  f = g
<1> DEFINE T == {n \in 0..h : f[n] # g[n]}
<1>1. /\ \A n \in 0..h : f[n] = FoldStep(f, log, t, n)
      /\ \A n \in 0..h : g[n] = FoldStep(g, log, t, n)
  BY FoldValue
<1>2. ASSUME T # {}
      PROVE  FALSE
  <2>1. PICK n \in T : \A m \in T : n <= m
    <3>1. T \in SUBSET Nat
      OBVIOUS
    <3> HIDE DEF T
    <3> QED
      BY <1>2, <3>1, LeastNat
  <2>2. n \in 0..h /\ f[n] # g[n] /\ n \in Nat
    OBVIOUS
  <2>3. n # 0
    BY <1>1, <2>2 DEF FoldStep
  <2>4. n - 1 \in 0..h /\ ~(n <= n - 1)
    BY <2>2, <2>3
  <2>5. f[n - 1] = g[n - 1]
    BY <2>1, <2>4
  <2> QED
    BY <1>1, <2>2, <2>5 DEF FoldStep
<1>3. f = [n \in 0..h |-> f[n]] /\ g = [n \in 0..h |-> g[n]]
  BY DEF Folds
<1>4. \A n \in 0..h : f[n] = g[n]
  BY <1>2
<1> QED
  BY <1>3, <1>4

\* A log that begins like another one has the same fold up to there, and one
\* value more.
SameStart(log, more, h) == \A n \in 1..h : more[n] = log[n]

FoldGoesOn(f, h, more, t) ==
    \E g : /\ Folds(g, h + 1, more, t)
           /\ g[h + 1] = FoldEvent(f[h], more[h + 1], t)

LEMMA FoldExtends ==
    ASSUME NEW h \in Nat, NEW log, NEW more, NEW t, NEW f,
           Folds(f, h, log, t), SameStart(log, more, h)
    PROVE  FoldGoesOn(f, h, more, t)
<1> DEFINE last == FoldEvent(f[h], more[h + 1], t)
           g == [n \in 0..(h + 1) |-> IF n = h + 1 THEN last ELSE f[n]]
<1>1. \A n \in 0..h : f[n] = FoldStep(f, log, t, n)
  BY FoldValue
<1>2. g[h + 1] = last /\ \A n \in 0..h : g[n] = f[n]
  OBVIOUS
<1> HIDE DEF last
<1>3. ASSUME NEW n \in 0..(h + 1)
      PROVE  g[n] = FoldStep(g, more, t, n)
  <2> HIDE DEF g
  <2>1. CASE n = h + 1
    <3>1. n # 0 /\ n - 1 = h /\ g[n] = last /\ g[n - 1] = f[h]
      BY <1>2, <2>1
    <3> QED
      BY <2>1, <3>1 DEF FoldStep, last
  <2>2. CASE n = 0
    BY <1>1, <1>2, <2>2 DEF FoldStep
  <2>3. CASE n # 0 /\ n # h + 1
    <3>1. n \in 1..h /\ n \in 0..h /\ n - 1 \in 0..h
      BY <2>3
    <3>2. /\ g[n] = f[n] /\ g[n - 1] = f[n - 1] /\ more[n] = log[n]
          /\ f[n] = FoldStep(f, log, t, n)
      BY <1>1, <1>2, <3>1 DEF SameStart
    <3> QED
      BY <2>3, <3>2 DEF FoldStep
  <2> QED
    BY <2>1, <2>2, <2>3
<1>4. g = [n \in 0..(h + 1) |-> FoldStep(g, more, t, n)]
  <2>1. g = [n \in 0..(h + 1) |-> g[n]]
    OBVIOUS
  <2> HIDE DEF g
  <2> QED
    BY <1>3, <2>1
<1>5. Folds(g, h + 1, more, t)
  <2> HIDE DEF g
  <2> QED
    BY <1>4 DEF Folds
<1> QED
  BY <1>2, <1>5 DEF last, FoldGoesOn

\* A fold of the stream is the function FoldOf computes.
LEMMA FoldIsFoldOf ==
    ASSUME NEW s \in Streams, NEW t \in Tasks, head[s] \in Nat,
           NEW f, Folds(f, head[s], Log(s), t)
    PROVE  FoldOf(s, t) = f[head[s]]
<1> DEFINE body(g) ==
             [n \in 0..head[s] |->
                IF n = 0 THEN NoTask
                ELSE IF EventAt(s, n).task = t
                     THEN reduceTask(g[n - 1], EventAt(s, n))
                ELSE g[n - 1]]
           fold == CHOOSE g : g = body(g)
<1>1. FoldOf(s, t) = fold[head[s]]
  BY DEF FoldOf
<1>2. ASSUME NEW g
      PROVE  body(g) = [n \in 0..head[s] |-> FoldStep(g, Log(s), t, n)]
  <2>1. ASSUME NEW n \in 0..head[s]
        PROVE  (IF n = 0 THEN NoTask
                ELSE IF EventAt(s, n).task = t
                     THEN reduceTask(g[n - 1], EventAt(s, n))
                ELSE g[n - 1]) = FoldStep(g, Log(s), t, n)
    <3>1. CASE n = 0
      BY <3>1 DEF FoldStep
    <3>2. CASE n # 0
      <4>1. Log(s)[n] = EventAt(s, n)
        BY <3>2 DEF Log
      <4> QED
        BY <3>2, <4>1 DEF FoldStep, FoldEvent
    <3> QED
      BY <3>1, <3>2
  <2> QED
    BY <2>1
<1> HIDE DEF body
<1>3. f = body(f)
  BY <1>2 DEF Folds
<1>4. fold = body(fold)
  BY <1>3
<1> HIDE DEF fold
<1>5. Folds(fold, head[s], Log(s), t)
  BY <1>2, <1>4 DEF Folds
<1>6. fold = f
  BY <1>5, FoldUnique
<1> QED
  BY <1>1, <1>6

\* An event added elsewhere is not found in its place.
LEMMA EventStays ==
    ASSUME NEW s, NEW n, NEW e, events' = events \cup {e},
           ~(e.stream = s /\ e.seq = n)
    PROVE  EventAt(s, n)' = EventAt(s, n)
<1>1. \A x : x \in events' /\ x.stream = s /\ x.seq = n
             <=> x \in events /\ x.stream = s /\ x.seq = n
  OBVIOUS
<1> QED
  BY <1>1 DEF EventAt

LEMMA EventAdded ==
    ASSUME NEW s, NEW n, NEW e, events' = events \cup {e},
           e.stream = s, e.seq = n,
           \A x \in events : ~(x.stream = s /\ x.seq = n)
    PROVE  EventAt(s, n)' = e
<1>1. \A x : x \in events' /\ x.stream = s /\ x.seq = n <=> x = e
  OBVIOUS
<1> QED
  BY <1>1 DEF EventAt

\* Only a commit writes events, heads and task rows.
LEMMA WritesAreCommits ==
    ASSUME [Next]_vars
    PROVE  \/ UNCHANGED <<head, events, tasks>>
           \/ \E r \in Requests : Commit(r)
<1>1. ASSUME NEW r \in Requests, Step(r), ~Commit(r)
      PROVE  UNCHANGED <<head, events, tasks>>
  BY <1>1 DEF Step, Admit, Plan, LockUser, LockWorkspace, LockStream, Recheck,
              Authenticate, Lookup, Lock, committed
<1>2. ASSUME NEW r \in Requests, ClosureChanges(r) \/ Fail(r)
      PROVE  UNCHANGED <<head, events, tasks>>
  BY <1>2 DEF ClosureChanges, Fail, committed
<1>3. ASSUME NEW r \in Requests, NEW b \in Body, Arrive(r, b)
      PROVE  UNCHANGED <<head, events, tasks>>
  BY <1>3 DEF Arrive, committed
<1>4. ASSUME NEW p \in Principals, Join(p) \/ Remove(p)
      PROVE  UNCHANGED <<head, events, tasks>>
  BY <1>4 DEF Join, Remove
<1>5. ASSUME UNCHANGED vars
      PROVE  UNCHANGED <<head, events, tasks>>
  BY <1>5 DEF vars, committed
<1> QED
  BY <1>1, <1>2, <1>3, <1>4, <1>5 DEF Next

LEMMA InitFolds == Init => FoldsEndInRows
<1> SUFFICES ASSUME Init, NEW s \in Streams, NEW t \in Tasks
             PROVE  \E f : Folds(f, head[s], Log(s), t)
                           /\ f[head[s]] = tasks[s][t]
  BY DEF FoldsEndInRows
<1> DEFINE f == [n \in 0..0 |-> NoTask]
<1>1. head[s] = 0 /\ tasks[s][t] = NoTask
  BY DEF Init
<1>2. \A n \in 0..0 : FoldStep(f, Log(s), t, n) = NoTask
  BY DEF FoldStep
<1>3. Folds(f, 0, Log(s), t)
  BY <1>2 DEF Folds
<1>4. f[0] = NoTask
  OBVIOUS
<1> QED
  BY <1>1, <1>3, <1>4

LEMMA FoldsKept ==
    ASSUME Inv, FoldsEndInRows, [Next]_vars
    PROVE  FoldsEndInRows'
<1>1. CASE UNCHANGED <<head, events, tasks>>
  <2>1. \A s : Log(s)' = Log(s)
    BY <1>1 DEF Log, EventAt
  <2> QED
    BY <1>1, <2>1 DEF FoldsEndInRows
<1>2. ASSUME NEW r \in Requests, Commit(r)
      PROVE  FoldsEndInRows'
  <2> DEFINE e == DecidedEvent(req[r].body, req[r].prior, NextSeq(r))
  <2>1. /\ events' = events \cup {e}
        /\ e.stream \in Streams /\ e.task \in Tasks
        /\ e.seq = head[e.stream] + 1
        /\ head' = [head EXCEPT ![e.stream] = e.seq]
        /\ tasks' = [tasks EXCEPT ![e.stream][e.task] =
                        reduceTask(tasks[e.stream][e.task], e)]
    BY <1>2, CommitEvents, DecidingFacts DEF Commit
  <2> HIDE DEF e
  <2>2. SUFFICES ASSUME NEW s \in Streams, NEW t \in Tasks
                 PROVE  \E f : Folds(f, head'[s], Log(s)', t)
                               /\ f[head'[s]] = tasks'[s][t]
    BY DEF FoldsEndInRows
  <2>3. /\ head \in [Streams -> Nat] /\ head[s] \in Nat
        /\ tasks \in [Streams -> [Tasks -> TaskState]]
    BY DEF Inv, CommittedTypes
  <2>4. PICK f : Folds(f, head[s], Log(s), t) /\ f[head[s]] = tasks[s][t]
    BY DEF FoldsEndInRows
  <2>5. \A x \in events : x.stream = s => x.seq \in 1..head[s]
    BY DEF Inv, SeqsAreContiguous
  <2>6. CASE s # e.stream
    <3>1. head'[s] = head[s] /\ tasks'[s][t] = tasks[s][t]
      BY <2>1, <2>3, <2>6
    <3>2. \A n : EventAt(s, n)' = EventAt(s, n)
      BY <2>1, <2>6, EventStays
    <3>3. Log(s)' = Log(s)
      BY <3>1, <3>2 DEF Log
    <3> QED
      BY <2>4, <3>1, <3>3
  <2>7. CASE s = e.stream
    <3> PICK h \in Nat : h = head[s]
      BY <2>3
    <3>1. head'[s] = h + 1
      BY <2>1, <2>3, <2>7
    <3>2. EventAt(s, h + 1)' = e
      <4>1. \A x \in events : ~(x.stream = s /\ x.seq = h + 1)
        BY <2>3, <2>5
      <4>2. e.seq = h + 1
        BY <2>1, <2>7
      <4> QED
        BY <2>1, <2>7, <4>1, <4>2, EventAdded
    <3>3. \A n \in 1..h : EventAt(s, n)' = EventAt(s, n)
      <4>1. \A n \in 1..h : n # e.seq
        BY <2>1, <2>3, <2>7
      <4> QED
        BY <2>1, <4>1, EventStays
    <3> PICK log : log = Log(s)
      OBVIOUS
    <3> PICK more : more = Log(s)'
      OBVIOUS
    <3>4. more[h + 1] = e
      <4>1. h + 1 \in 1..head'[s]
        BY <3>1
      <4> QED
        BY <3>2, <4>1 DEF Log
    <3>5. SameStart(log, more, h)
      <4>1. \A n \in 1..h : n \in 1..head'[s] /\ n \in 1..head[s]
        BY <2>3, <3>1
      <4> QED
        BY <3>3, <4>1 DEF Log, SameStart
    <3>6. tasks'[s][t] = FoldEvent(tasks[s][t], e, t)
      BY <2>1, <2>3, <2>7 DEF FoldEvent
    <3>7. Folds(f, h, log, t) /\ f[h] = tasks[s][t]
      BY <2>4
    <3>8. PICK g : /\ Folds(g, h + 1, more, t)
                   /\ g[h + 1] = FoldEvent(f[h], more[h + 1], t)
      BY <3>5, <3>7, FoldExtends DEF FoldGoesOn
    <3>9. g[h + 1] = tasks'[s][t]
      BY <3>4, <3>6, <3>7, <3>8
    <3> QED
      BY <3>1, <3>8, <3>9
  <2> QED
    BY <2>6, <2>7
<1> QED
  BY <1>1, <1>2, WritesAreCommits

(* The task rows, kept up to date one event at a time by whoever holds the *)
(* stream, are what rebuilding each task from its stream gives.            *)
THEOREM RowsAreRebuilt == Spec => []ProjectionIsFold
<1>1. Inv /\ FoldsEndInRows => ProjectionIsFold
  <2> SUFFICES ASSUME Inv, FoldsEndInRows, NEW s \in Streams, NEW t \in Tasks
               PROVE  tasks[s][t] = FoldOf(s, t)
    BY DEF ProjectionIsFold
  <2>1. PICK f : Folds(f, head[s], Log(s), t) /\ f[head[s]] = tasks[s][t]
    BY DEF FoldsEndInRows
  <2>2. head[s] \in Nat
    BY DEF Inv, CommittedTypes
  <2> QED
    BY <2>1, <2>2, FoldIsFoldOf
<1>2. Init => FoldsEndInRows
  BY InitFolds
<1>3. Inv /\ FoldsEndInRows /\ [Next]_vars => FoldsEndInRows'
  BY FoldsKept
<1> QED
  BY <1>1, <1>2, <1>3, Invariance, PTL DEF Spec
=============================================================================
