--------------------------- MODULE CommandStream ---------------------------
(***************************************************************************)
(* The command service's transaction around decide(): admission, the lock  *)
(* plan, the membership read, the idempotency lookup, the stream head, the *)
(* append, the task projection and the ledger insert of handleTransaction, *)
(* run by several requests at once under READ COMMITTED.                   *)
(*                                                                         *)
(* Each action is one statement, or a group of statements nobody else can  *)
(* observe in between, of one request's transaction.  Everything a request *)
(* writes appears at Commit; until then it only holds row locks.  A client *)
(* that gets no answer sends another request with the same command id, and *)
(* may by mistake reuse an id for another command.  Callers are people and *)
(* local agents, each agent the only one of its owner.  Task commands are  *)
(* create and acquire on repository streams, decided and folded by         *)
(* TaskCore; TaskLease has the other commands and the clock.               *)
(***************************************************************************)
EXTENDS TaskCore, FiniteSets

CONSTANTS
    Humans,      \* the principals that call with a user token, not an agent's
    Requests,    \* HTTP requests
    Ids,         \* client-chosen command ids
    Streams,     \* repository streams of the workspace
    Tasks,       \* task ids
    MaxAttempts, \* runs of a transaction whose lock plan keeps changing: 3 in the code
    Free         \* no transaction holds the row

ASSUME HumansAssumption == Humans \subseteq Principals
ASSUME AttemptsAssumption == MaxAttempts \in Nat \ {0}
ASSUME FreeAssumption == Free \notin Requests

VARIABLES
    member,    \* principals with a live membership
    head,      \* streams.head_seq
    events,    \* swarm.events
    tasks,     \* swarm.tasks, one row per stream and task
    ledger,    \* swarm.idempotency_keys
    users,     \* which request holds the users row of each principal's owner
    workspace, \* the requests that hold the workspace row
    lock,      \* which request holds each stream row
    req        \* each request's transaction and its answer

committed == <<member, head, events, tasks, ledger>>
vars == <<member, head, events, tasks, ledger, users, workspace, lock, req>>

Kinds == {"create", "acquire"}
Types == {"TaskCreated", "LeaseAcquired", "CommandRejected"}

Body == [user : Principals, id : Ids, stream : Streams, kind : Kinds, task : Tasks]

Keys == Principals \X Ids
Key(b) == <<b.user, b.id>>

Event ==
    [stream : Streams, seq : Nat, key : Keys, type : Types, task : Tasks,
     epoch : Nat, owner : Principals]

\* A stored response names its events; the one event of a task command is
\* identified by its place in the stream.
Response(e) == [ok |-> e.type # "CommandRejected", stream |-> e.stream, seq |-> e.seq]

NotStored == [stored |-> FALSE]
Stored(b, e) == [stored |-> TRUE, body |-> b, response |-> Response(e)]

Answered(status) == [status |-> status]
StoredAnswer(entry) == [status |-> "decided", response |-> entry.response]

Idle == [pc |-> "idle"]

Init ==
    /\ member \in SUBSET Principals
    /\ head = [s \in Streams |-> 0]
    /\ events = {}
    /\ tasks = [s \in Streams |-> [t \in Tasks |-> NoTask]]
    /\ ledger = [k \in Keys |-> NotStored]
    /\ users = [p \in Principals |-> Free]
    /\ workspace = {}
    /\ lock = [s \in Streams |-> Free]
    /\ req = [r \in Requests |-> Idle]

-----------------------------------------------------------------------------
(* decide() and reduceTask() *)

TTL == 1
Now == 0

Accepts(b, prior) ==
    \/ b.kind = "create" /\ CanCreate(prior)
    \/ b.kind = "acquire" /\ CanAcquire(prior, TTL, Now)

AcceptedType(kind) ==
    CASE kind = "create"  -> "TaskCreated"
      [] kind = "acquire" -> "LeaseAcquired"

\* The actor is stamped from the credential.  A member's refused command is an
\* event too.
DecidedEvent(b, prior, seq) ==
    [stream |-> b.stream, seq |-> seq, key |-> Key(b), task |-> b.task,
     owner |-> b.user,
     type  |-> IF Accepts(b, prior) THEN AcceptedType(b.kind) ELSE "CommandRejected",
     epoch |-> IF b.kind = "acquire" THEN prior.epoch + 1 ELSE prior.epoch]

reduceTask(s, e) ==
    CASE e.type = "TaskCreated"     -> TaskCreated
      [] e.type = "LeaseAcquired"   -> LeaseGranted(s, e.epoch, e.owner, Now + TTL)
      [] e.type = "CommandRejected" -> s

\* Fault: the refusal of a command on a missing task leaves a row for it.
ProjectedRowForRefusal(prior, e) ==
    IF e.type = "CommandRejected" /\ prior = NoTask THEN TaskCreated
    ELSE reduceTask(prior, e)

\* updateProjection: a refusal on a task that does not exist writes no row.
Projected(prior, e) == reduceTask(prior, e)

-----------------------------------------------------------------------------
(* Rows and their locks *)

\* Fault: the row is read without FOR UPDATE.
RowAvailableAlways(holder, r) == TRUE

RowAvailable(holder, r) == holder \in {Free, r}

\* FOR UPDATE for a person, FOR SHARE for an agent.
WorkspaceAvailable(r) ==
    \A q \in workspace : {req[q].body.user, req[r].body.user} \cap Humans = {}

\* Fault: a rolled back transaction goes on holding its stream.
ReleasedNever(r) == lock

Released(r) == [s \in Streams |-> IF lock[s] = r THEN Free ELSE lock[s]]

Release(r) ==
    /\ users' = [p \in Principals |-> IF users[p] = r THEN Free ELSE users[p]]
    /\ workspace' = workspace \ {r}
    /\ lock' = Released(r)

-----------------------------------------------------------------------------
(* One request *)

Begun(b, attempt) ==
    [pc |-> IF b.user \in Humans THEN "admit" ELSE "plan",
     body |-> b, attempt |-> attempt, planned |-> FALSE]

Finish(r, answer) ==
    /\ req' = [req EXCEPT ![r] = [pc |-> "done", body |-> req[r].body, answer |-> answer]]
    /\ Release(r)

GoTo(r, pc) == req' = [req EXCEPT ![r].pc = pc]

Caller(r) == req[r].body.user

Arrive(r, b) ==
    /\ req[r] = Idle
    /\ req' = [req EXCEPT ![r] = Begun(b, 1)]
    /\ UNCHANGED <<committed, users, workspace, lock>>

\* humanLocalAdmission, first read.
Admit(r) ==
    /\ req[r].pc = "admit"
    /\ IF Caller(r) \in member
       THEN GoTo(r, "plan") /\ UNCHANGED <<users, workspace, lock>>
       ELSE Finish(r, Answered("forbidden"))
    /\ UNCHANGED committed

\* planLocalOperation reads the membership again: without one an agent is denied
\* and a person goes on with no plan, hence no early locks.
Plan(r) ==
    /\ req[r].pc = "plan"
    /\ IF Caller(r) \in member
       THEN /\ req' = [req EXCEPT ![r].pc = "user", ![r].planned = TRUE]
            /\ UNCHANGED <<users, workspace, lock>>
       ELSE IF Caller(r) \in Humans
       THEN GoTo(r, "recheck") /\ UNCHANGED <<users, workspace, lock>>
       ELSE Finish(r, Answered("forbidden"))
    /\ UNCHANGED committed

\* lockLocalAuthPlan: the owner's users row, the workspace row with the caller's
\* membership, then the stream row.
LockUser(r) ==
    /\ req[r].pc = "user"
    /\ RowAvailable(users[Caller(r)], r)
    /\ users' = [users EXCEPT ![Caller(r)] = r]
    /\ GoTo(r, "workspace")
    /\ UNCHANGED <<committed, workspace, lock>>

LockWorkspace(r) ==
    /\ req[r].pc = "workspace"
    /\ WorkspaceAvailable(r)
    /\ workspace' = workspace \cup {r}
    /\ GoTo(r, "stream")
    /\ UNCHANGED <<committed, users, lock>>

LockStream(r) ==
    LET s == req[r].body.stream IN
    /\ req[r].pc = "stream"
    /\ RowAvailable(lock[s], r)
    /\ lock' = [lock EXCEPT ![s] = r]
    /\ GoTo(r, "recheck")
    /\ UNCHANGED <<committed, users, workspace>>

\* LocalAuthDiscoveryChanged: everything is rolled back and run again, at last a 500.
Retry(r) ==
    IF req[r].attempt < MaxAttempts
    THEN /\ req' = [req EXCEPT ![r] = Begun(@.body, @.attempt + 1)]
         /\ Release(r)
    ELSE Finish(r, Answered("discovery_changed"))

\* A token, session or other row of the plan's closure changed while it waited.
ClosureChanges(r) ==
    /\ req[r].pc \in {"workspace", "stream", "recheck"}
    /\ req[r].planned
    /\ Retry(r)
    /\ UNCHANGED committed

\* humanLocalAdmission, second read.
Recheck(r) ==
    /\ req[r].pc = "recheck"
    /\ IF Caller(r) \in Humans /\ Caller(r) \notin member
       THEN Retry(r)
       ELSE GoTo(r, "authenticate") /\ UNCHANGED <<users, workspace, lock>>
    /\ UNCHANGED committed

\* Steps 3 to 6: authentication, which writes a person's users row, then the
\* membership as resolveRoute reads it.
Authenticate(r) ==
    /\ req[r].pc = "authenticate"
    /\ RowAvailable(users[Caller(r)], r)
    /\ IF Caller(r) \in member
       THEN /\ users' = [users EXCEPT ![Caller(r)] = r]
            /\ GoTo(r, "lookup")
            /\ UNCHANGED <<workspace, lock>>
       ELSE Finish(r, Answered("forbidden"))
    /\ UNCHANGED committed

\* Fault: the hash is not compared.
SameRequestAny(entry, b) == TRUE

\* request_hash, workspace and stream of the stored key.
SameRequest(entry, b) == entry.body = b

\* Step 7.
Lookup(r) ==
    LET b == req[r].body
        entry == ledger[Key(b)]
    IN  /\ req[r].pc = "lookup"
        /\ IF entry.stored
           THEN Finish(r, IF SameRequest(entry, b) THEN StoredAnswer(entry)
                                                   ELSE Answered("conflict"))
           ELSE GoTo(r, "lock") /\ UNCHANGED <<users, workspace, lock>>
        /\ UNCHANGED committed

\* Steps 8 and 9: the head is locked, unless the plan did, then the task row read.
Lock(r) ==
    LET b == req[r].body IN
    /\ req[r].pc = "lock"
    /\ RowAvailable(lock[b.stream], r)
    /\ lock' = [lock EXCEPT ![b.stream] = r]
    /\ req' = [req EXCEPT ![r] = [pc |-> "decide", body |-> b, planned |-> @.planned,
                                  head |-> head[b.stream],
                                  prior |-> tasks[b.stream][b.task]]]
    /\ UNCHANGED <<committed, users, workspace>>

NextSeq(r) == req[r].head + 1

\* PRIMARY KEY (stream_id, seq)
SeqTaken(r) == \E e \in events : e.stream = req[r].body.stream /\ e.seq = NextSeq(r)

\* Step 14 finds the ledger's primary key taken: LedgerRace.
InsertLoses(r) == ledger[Key(req[r].body)].stored

\* Fault: the head moves for accepted commands only.
HeadAfterAccepted(r, e) == IF e.type = "CommandRejected" THEN req[r].head ELSE e.seq

HeadAfter(r, e) == e.seq

\* Fault: a refusal is answered but not remembered.
LedgerAfterAccepted(b, e) ==
    IF e.type = "CommandRejected" THEN ledger ELSE [ledger EXCEPT ![Key(b)] = Stored(b, e)]

LedgerAfter(b, e) == [ledger EXCEPT ![Key(b)] = Stored(b, e)]

\* Steps 10 to 15.
Commit(r) ==
    LET b == req[r].body
        e == DecidedEvent(b, req[r].prior, NextSeq(r))
    IN  /\ req[r].pc = "decide"
        /\ ~SeqTaken(r)
        /\ ~InsertLoses(r)
        /\ events' = events \cup {e}
        /\ head' = [head EXCEPT ![b.stream] = HeadAfter(r, e)]
        /\ tasks' = [tasks EXCEPT ![b.stream][b.task] = Projected(req[r].prior, e)]
        /\ ledger' = LedgerAfter(b, e)
        /\ Finish(r, StoredAnswer(Stored(b, e)))
        /\ UNCHANGED member

\* lock_timeout, a lost connection or a crash before the commit.
Fail(r) ==
    /\ req[r].pc \notin {"idle", "done"}
    /\ Finish(r, Answered("unavailable"))
    /\ UNCHANGED committed

-----------------------------------------------------------------------------
(* Membership commands, each a transaction of its own *)

\* Fault: the writer does not lock the workspace row.
MembershipWritableAlways == TRUE

MembershipWritable == workspace = {}

\* accept_invitation is the joiner's own command and holds its users row.
Join(p) ==
    /\ p \notin member
    /\ MembershipWritable
    /\ users[p] = Free
    /\ member' = member \cup {p}
    /\ UNCHANGED <<head, events, tasks, ledger, users, workspace, lock, req>>

Remove(p) ==
    /\ p \in member
    /\ MembershipWritable
    /\ member' = member \ {p}
    /\ UNCHANGED <<head, events, tasks, ledger, users, workspace, lock, req>>

Step(r) ==
    \/ Admit(r) \/ Plan(r)
    \/ LockUser(r) \/ LockWorkspace(r) \/ LockStream(r)
    \/ Recheck(r) \/ Authenticate(r)
    \/ Lookup(r) \/ Lock(r) \/ Commit(r)

Next ==
    \/ \E r \in Requests, b \in Body : Arrive(r, b)
    \/ \E r \in Requests : Step(r) \/ ClosureChanges(r) \/ Fail(r)
    \/ \E p \in Principals : Join(p) \/ Remove(p)

Spec == Init /\ [][Next]_vars

\* A running transaction goes on, and a waiter gets a row nobody holds.
FairSpec == Spec /\ \A r \in Requests : WF_vars(Step(r))

-----------------------------------------------------------------------------
Running ==
    {"admit", "plan", "user", "workspace", "stream", "recheck", "authenticate",
     "lookup", "lock", "decide"}

\* Every stored value has the shape its table declares; in particular each
\* committed event names a principal as its owner.
TypeOK ==
    /\ member \subseteq Principals
    /\ head \in [Streams -> Nat]
    /\ events \subseteq Event
    /\ tasks \in [Streams -> [Tasks -> TaskState]]
    /\ \A k \in Keys :
          ledger[k].stored =>
              ledger[k].body \in Body /\ ledger[k].response.stream \in Streams
    /\ users \in [Principals -> Requests \cup {Free}]
    /\ workspace \subseteq Requests
    /\ lock \in [Streams -> Requests \cup {Free}]
    /\ \A r \in Requests : req[r].pc \in Running \cup {"idle", "done"}

\* I2: the sequence numbers of a stream are exactly 1 to its head, each used
\* once, whatever was rolled back in between.
SeqsAreContiguous ==
    \A s \in Streams :
        LET mine == {e \in events : e.stream = s}
        IN  {e.seq : e \in mine} = 1..head[s] /\ Cardinality(mine) = head[s]

\* A command id takes effect once, for ever and on one stream only: the events
\* committed under a key are the one its ledger row names, and there is none
\* without a row, however often and wherever the request was repeated.
TakesEffectOnce ==
    \A k \in Keys :
        LET mine == {e \in events : e.key = k}
        IN  IF ledger[k].stored
            THEN \E e \in events : mine = {e} /\ ledger[k] = Stored(ledger[k].body, e)
            ELSE mine = {}

\* Repeating a request gives the same decision: every decided answer is the
\* stored response of its own key and of exactly this command, for replays,
\* race losers and first executions alike.
AnswersAgree ==
    \A r \in Requests :
        req[r].pc = "done" /\ req[r].answer.status = "decided" =>
            LET b == req[r].body
            IN  /\ ledger[Key(b)].stored
                /\ ledger[Key(b)].body = b
                /\ req[r].answer.response = ledger[Key(b)].response

\* The locks leave the primary keys nothing to do: when a request has decided,
\* its sequence number is free and its command id has still not been used, so
\* neither a 500 nor LedgerRace's second run ever happens.
NoCollision ==
    \A r \in Requests : req[r].pc = "decide" => ~SeqTaken(r) /\ ~InsertLoses(r)

\* From the moment a planned request has been authenticated until it commits,
\* its caller stays a member: nobody is removed under a command being decided.
MembershipHeld ==
    \A r \in Requests :
        req[r].pc \in {"lookup", "lock", "decide"} /\ req[r].planned =>
            Caller(r) \in member

EventAt(s, n) == CHOOSE e \in events : e.stream = s /\ e.seq = n

\* The task row is the fold of the stream's events about the task.
FoldOf(s, t) ==
    LET fold[n \in 0..head[s]] ==
          IF n = 0 THEN NoTask
          ELSE IF EventAt(s, n).task = t THEN reduceTask(fold[n - 1], EventAt(s, n))
          ELSE fold[n - 1]
    IN  fold[head[s]]

\* Rebuilding a task from its stream, refusals that precede its creation left
\* out, gives the row the transactions kept up to date one event at a time.
ProjectionIsFold ==
    \A s \in Streams, t \in Tasks : tasks[s][t] = FoldOf(s, t)

\* Every request is answered: waits, plan changes and lost races all end.
EveryRequestEnds ==
    \A r \in Requests : req[r].pc \in {"admit", "plan"} ~> req[r].pc = "done"
=============================================================================
