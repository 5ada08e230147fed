--------------------------- MODULE SignalDelivery ---------------------------
(***************************************************************************)
(* The durable delivery queue of one agent principal: the rows of          *)
(* swarm.signal_deliveries, the leases claim_agent_inbox hands out, the    *)
(* acknowledgements ack_agent_delivery accepts, and the execution sessions *)
(* that fence both once the principal is managed.                          *)
(*                                                                         *)
(* Each action is one committed transaction.  Claim, ack and the session   *)
(* operations lock the principal row (FOR SHARE by the proof fence, FOR    *)
(* NO KEY UPDATE or FOR UPDATE by the operation) and so exclude each       *)
(* other.  Clients are the environment: any of them may present any lease  *)
(* it was ever given, late or twice, and may go on using a session that    *)
(* was taken from it.  Transactions that change nothing (refusals, replays *)
(* of a stored response) are stutters.  A lease id is a fresh uuid given   *)
(* to one listener instance; here it is the row's count of leases so far.  *)
(* One workspace, one live principal; ids of signals are ordered only by   *)
(* their time of enqueueing.                                               *)
(***************************************************************************)
EXTENDS Integers, FiniteSets

CONSTANTS
    Signals,         \* direct signals to this principal
    Sessions,        \* execution session uuids clients draw
    Placeholder,     \* a random session uuid no client holds
    Unbound,         \* session_id = session_generation = null
    ClaimLimits,     \* limits clients ask for; the CLI asks for 1
    AckOutcomes,     \* outcomes clients report on a lease
    MaxAttempts,     \* DELIVERY_MAX_ATTEMPTS
    MaxOutstanding,  \* DELIVERY_MAX_OUTSTANDING_LEASES
    LeaseTime,       \* DELIVERY_LEASE_MS
    SessionTime,     \* AGENT_SESSION_TTL_SECONDS
    SignalTime,      \* until - created_at of a signal
    MaxGeneration,   \* bound on session generations
    MaxTime          \* bound on the database clock

ASSUME SessionAssumption ==
    Placeholder \notin Sessions /\ Unbound \notin Sessions \X Nat
ASSUME OutcomeAssumption ==
    AckOutcomes \subseteq {"replied", "observed", "failed", "expired", "queued"}
ASSUME TimeAssumption ==
    /\ {LeaseTime, SessionTime, SignalTime} \subseteq Nat \ {0}
    /\ {MaxGeneration, MaxTime} \subseteq Nat
ASSUME LimitAssumption ==
    /\ ClaimLimits \subseteq Nat \ {0}
    /\ {MaxAttempts, MaxOutstanding} \subseteq Nat \ {0}

VARIABLES
    now,      \* database clock
    rows,     \* swarm.signal_deliveries, one row per signal once sent
    minted,   \* leases each row has been given so far
    managed,  \* agent_principals.managed_at IS NOT NULL
    session,  \* the swarm.agent_execution_sessions row
    proofs,   \* generation the server answered each session's acquire with
    retired   \* swarm.retired_agent_sessions

vars == <<now, rows, minted, managed, session, proofs, retired>>

Outcomes ==
    {"none", "replied", "observed", "failed", "expired", "queued", "exhausted"}

Row ==
    [sent      : BOOLEAN,
     enqueued  : Nat,
     lease     : Nat,            \* lease_id, 0 for null
     until     : Nat,            \* leased_until, 0 for null
     lastLease : Nat,            \* last_lease_id, 0 for null
     attempts  : Nat,            \* attempt_count
     expiries  : Nat,            \* lease_expiry_count
     outcome   : Outcomes,       \* ack_outcome; "none" while acked_at IS NULL
     bound     : (Sessions \X Nat) \cup {Unbound},
     surfaced  : BOOLEAN]        \* surfaced_at IS NOT NULL

NoRow ==
    [sent |-> FALSE, enqueued |-> 0, lease |-> 0, until |-> 0, lastLease |-> 0,
     attempts |-> 0, expiries |-> 0, outcome |-> "none", bound |-> Unbound,
     surfaced |-> FALSE]

Session ==
    [id : Sessions \cup {Placeholder}, gen : Nat, expires : Nat, enabled : BOOLEAN]

Init ==
    /\ now = 0
    /\ rows = [s \in Signals |-> NoRow]
    /\ minted = [s \in Signals |-> 0]
    /\ managed = FALSE
    /\ session = [id |-> Placeholder, gen |-> 0, expires |-> 0, enabled |-> FALSE]
    /\ proofs = [i \in Sessions |-> 0]
    /\ retired = {}

-----------------------------------------------------------------------------
(* The session fence *)

SessionLive == session.expires > now
Current == <<session.id, session.gen>>
ProofOf(i) == <<i, proofs[i]>>

\* enforceAgentSessionProof on a managed principal: the proof of the current
\* session passes while it is live; once it has expired the proof itself
\* activates it again, unless it was retired or disabled.
FencePasses(i) ==
    /\ ProofOf(i) = Current
    /\ session.enabled
    /\ SessionLive \/ i \notin retired

Activated(i) ==
    IF SessionLive THEN session
    ELSE [session EXCEPT !.expires = now + SessionTime]

\* Who may send a fenced command, and the session proof the request carries.
\* An unmanaged principal's proof header is accepted unchecked.
Carries(proof) ==
    IF managed
    THEN \E i \in Sessions : FencePasses(i) /\ proof = ProofOf(i)
    ELSE proof = Unbound \/ \E i \in Sessions : proofs[i] # 0 /\ proof = ProofOf(i)

FencedSession ==
    IF managed THEN Activated(session.id) ELSE session

-----------------------------------------------------------------------------
(* claimAgentInbox *)

SignalLive(r) == r.enqueued + SignalTime > now
Unacked(r) == r.sent /\ r.outcome = "none"
LiveLease(r) == Unacked(r) /\ r.lease # 0 /\ r.until > now
StaleLease(r) == Unacked(r) /\ r.lease # 0 /\ r.until <= now

Unleased(r) == [r EXCEPT !.lease = 0, !.until = 0]

\* Step 2: a stale lease is taken back and counted.
ResetStale(r) ==
    IF StaleLease(r) THEN [Unleased(r) EXCEPT !.expiries = @ + 1] ELSE r

\* Rows steps 3, 4 and 7 still call pending.
Pending(r) ==
    Unacked(r) \/ (managed /\ r.outcome = "queued" /\ ~r.surfaced)

\* Fault: the TTL also ends a row somebody holds.
ExpireDeadLeased(r) ==
    IF Pending(r) /\ ~SignalLive(r)
    THEN [Unleased(r) EXCEPT !.outcome = "expired", !.bound = Unbound]
    ELSE r

\* Fault: the TTL is left to the listener's own ack.
ExpireDeadNever(r) == r

\* Step 3: the signal's own TTL ends an unleased row.
ExpireDead(r) ==
    IF Pending(r) /\ r.lease = 0 /\ ~SignalLive(r)
    THEN [Unleased(r) EXCEPT !.outcome = "expired", !.bound = Unbound]
    ELSE r

\* Step 4: the attempt ceiling ends it.
Exhaust(r) ==
    IF Pending(r) /\ r.lease = 0 /\ SignalLive(r) /\ r.attempts >= MaxAttempts
    THEN [Unleased(r) EXCEPT !.outcome = "exhausted"]
    ELSE r

Swept(r) == Exhaust(ExpireDead(ResetStale(r)))

\* Step 6: what the claim may lease.
Claimable(r, proof) ==
    /\ Unacked(r)
    /\ r.lease = 0
    /\ r.attempts < MaxAttempts
    /\ SignalLive(r)
    /\ r.bound \in {Unbound, proof}

\* A managed row that lost its session is leased again without a new attempt.
RecoversQueueOnly(r) ==
    managed /\ r.bound = Unbound /\ r.attempts > 0 /\ ~r.surfaced

LeasedRow(r, id, proof) ==
    [r EXCEPT !.lease = id, !.until = now + LeaseTime, !.bound = proof,
              !.attempts = IF RecoversQueueOnly(r) THEN @ ELSE @ + 1]

\* Oldest first, at most n of them.
OldestOf(cands, n, swept) ==
    {p \in SUBSET cands :
        /\ Cardinality(p) = IF Cardinality(cands) < n THEN Cardinality(cands) ELSE n
        /\ \A s \in p, t \in cands \ p : swept[s].enqueued <= swept[t].enqueued}

\* CHECK (lease_expiry_count BETWEEN 0 AND attempt_count): a claim whose sweep
\* would break it aborts.
ExpiryCheck(r) == r.expiries <= r.attempts

Claim(proof, limit) ==
    LET swept == [s \in Signals |-> Swept(rows[s])]
        live  == Cardinality({s \in Signals : LiveLease(swept[s])})
        slots == IF live < MaxOutstanding THEN MaxOutstanding - live ELSE 0
        cands == {s \in Signals : Claimable(swept[s], proof)}
    IN  /\ Carries(proof)
        /\ \A s \in Signals : ExpiryCheck(ResetStale(rows[s]))
        /\ \E picked \in OldestOf(cands, IF limit < slots THEN limit ELSE slots, swept) :
              /\ rows' = [s \in Signals |->
                             IF s \in picked
                             THEN LeasedRow(swept[s], minted[s] + 1, proof)
                             ELSE swept[s]]
              /\ minted' = [s \in Signals |->
                               IF s \in picked THEN minted[s] + 1 ELSE minted[s]]
        /\ session' = FencedSession
        /\ UNCHANGED <<now, managed, proofs, retired>>

-----------------------------------------------------------------------------
(* ackAgentDelivery *)

\* The ack that ends the live lease id.
Acked(r, id, outcome) ==
    [Unleased(r) EXCEPT !.outcome = outcome, !.lastLease = id,
                        !.surfaced = @ \/ (managed /\ outcome # "queued")]

\* Fault: the update does not compare the presented lease id.
AckMatchesAny(r, id, proof, outcome) ==
    /\ LiveLease(r)
    /\ managed => r.bound = proof
    /\ outcome = "expired" => ~SignalLive(r)

AckMatches(r, id, proof, outcome) ==
    /\ LiveLease(r)
    /\ r.lease = id
    /\ managed => r.bound = proof
    /\ outcome = "expired" => ~SignalLive(r)

\* A listener reports the outcome of any lease it was ever given; the request
\* says surfaced where the fence asks for it.
Ack(s, id, proof, outcome) ==
    /\ Carries(proof)
    /\ AckMatches(rows[s], id, proof, outcome)
    /\ rows' = [rows EXCEPT ![s] = Acked(@, id, outcome)]
    /\ session' = FencedSession
    /\ UNCHANGED <<now, minted, managed, proofs, retired>>

\* The host surfaced a queued receipt: observed without a lease.
ObserveQueued(s, proof) ==
    /\ Carries(proof)
    /\ rows[s].outcome = "queued"
    /\ managed => rows[s].bound = proof
    /\ rows' = [rows EXCEPT ![s].outcome = "observed", ![s].surfaced = @ \/ managed]
    /\ session' = FencedSession
    /\ UNCHANGED <<now, minted, managed, proofs, retired>>

\* Fault: a row somebody holds a lease on is observed all the same.
CanObserveUnclaimedLeased(r, proof) ==
    /\ Unacked(r)
    /\ managed => r.bound \in {Unbound, proof}

\* An attended seat printed the signal: observed though never claimed.
CanObserveUnclaimed(r, proof) ==
    /\ Unacked(r)
    /\ r.lease = 0
    /\ managed => r.bound \in {Unbound, proof}

ObserveUnclaimed(s, proof) ==
    /\ Carries(proof)
    /\ CanObserveUnclaimed(rows[s], proof)
    /\ rows' = [rows EXCEPT ![s].outcome = "observed", ![s].surfaced = TRUE]
    /\ session' = FencedSession
    /\ UNCHANGED <<now, minted, managed, proofs, retired>>

-----------------------------------------------------------------------------
(* Execution sessions *)

Reopened(r) ==
    IF r.outcome = "queued" THEN [r EXCEPT !.outcome = "none", !.lastLease = 0] ELSE r

\* Fault: surfaced rows are reopened with the rest.
ReclaimedAll(r) ==
    IF r.sent
    THEN [Unleased([r EXCEPT !.outcome = "none", !.lastLease = 0]) EXCEPT !.bound = Unbound]
    ELSE r

\* reclaimUnsurfacedLeases: attempts are left alone.
Reclaimed(r) ==
    IF ~r.surfaced /\ (Unacked(r) \/ r.outcome = "queued")
    THEN [Unleased(Reopened(r)) EXCEPT !.bound = Unbound]
    ELSE r

reclaimUnsurfacedLeases == [s \in Signals |-> Reclaimed(rows[s])]

\* Fault: management starts while legacy leases are live.
CanEnableAlways == ~managed

CanEnable == ~managed /\ \A s \in Signals : ~LiveLease(rows[s])

enableAgentManagement ==
    /\ CanEnable
    /\ managed' = TRUE
    /\ session' = [id      |-> Placeholder,
                   gen     |-> IF session.gen = 0 THEN 1 ELSE session.gen,
                   expires |-> now,
                   enabled |-> TRUE]
    /\ retired' = retired \cup ({session.id} \cap Sessions)
    /\ UNCHANGED <<now, rows, minted, proofs>>

\* The row as revoked by an operator; gen = 0 means there is no row yet.
RevokedSession ==
    IF session.gen = 0 THEN session
    ELSE [id |-> Placeholder, gen |-> session.gen + 1, expires |-> now, enabled |-> FALSE]

disableAgentManagement ==
    /\ session.gen < MaxGeneration
    /\ managed' = FALSE
    /\ session' = RevokedSession
    /\ retired' = retired \cup ({session.id} \cap Sessions)
    /\ rows' = reclaimUnsurfacedLeases
    /\ UNCHANGED <<now, minted, proofs>>

recoverAgentSession ==
    /\ managed
    /\ session.gen < MaxGeneration
    /\ session' = RevokedSession
    /\ retired' = retired \cup ({session.id} \cap Sessions)
    /\ rows' = reclaimUnsurfacedLeases
    /\ UNCHANGED <<now, minted, managed, proofs>>

\* Fault: the new holder leaves the old holder's rows alone.
NewHolderRowsKept == rows

NewHolderRows == reclaimUnsurfacedLeases

\* A fresh uuid takes a row that is not live.
acquireAgentSession(i) ==
    /\ managed
    /\ i \notin retired
    /\ ~SessionLive
    /\ session.id # i
    /\ session.gen < MaxGeneration
    /\ session' = [id |-> i, gen |-> session.gen + 1,
                   expires |-> now + SessionTime, enabled |-> TRUE]
    /\ proofs' = [proofs EXCEPT ![i] = session.gen + 1]
    /\ retired' = retired \cup ({session.id} \cap Sessions)
    /\ rows' = NewHolderRows
    /\ UNCHANGED <<now, minted, managed>>

\* renew_agent_session, which passes the fence before it extends the session;
\* acquire retried by its live holder; and any other fenced command, which
\* activates an expired session before it does its own work.
renewAgentSession(i) ==
    /\ managed
    /\ FencePasses(i)
    /\ session' = [session EXCEPT !.expires = now + SessionTime]
    /\ UNCHANGED <<now, rows, minted, managed, proofs, retired>>

releaseAgentSession(i) ==
    /\ managed
    /\ FencePasses(i)
    /\ session' = [session EXCEPT !.expires = now, !.enabled = FALSE]
    /\ retired' = retired \cup {i}
    /\ rows' = reclaimUnsurfacedLeases
    /\ UNCHANGED <<now, minted, managed, proofs>>

-----------------------------------------------------------------------------
\* enqueue_signal_delivery, the trigger on a direct ask or note.  The bound
\* leaves room for the signal's life and one lease.
Send(s) ==
    /\ ~rows[s].sent
    /\ now + SignalTime + LeaseTime <= MaxTime
    /\ rows' = [rows EXCEPT ![s] = [NoRow EXCEPT !.sent = TRUE, !.enqueued = now]]
    /\ UNCHANGED <<now, minted, managed, session, proofs, retired>>

Tick ==
    /\ now < MaxTime
    /\ now' = now + 1
    /\ UNCHANGED <<rows, minted, managed, session, proofs, retired>>

Proofs == {Unbound} \cup {ProofOf(i) : i \in Sessions}

SomeClaim == \E proof \in Proofs, limit \in ClaimLimits : Claim(proof, limit)

SomeAck ==
    \E s \in Signals, proof \in Proofs, outcome \in AckOutcomes :
        \E id \in 1..minted[s] : Ack(s, id, proof, outcome)

SomeObservation ==
    \E s \in Signals, proof \in Proofs :
        ObserveQueued(s, proof) \/ ObserveUnclaimed(s, proof)

ManagementNext ==
    \/ enableAgentManagement
    \/ disableAgentManagement
    \/ recoverAgentSession
    \/ \E i \in Sessions :
          acquireAgentSession(i) \/ renewAgentSession(i) \/ releaseAgentSession(i)

\* A principal nobody ever puts under management.
LegacyNext ==
    \/ \E s \in Signals : Send(s)
    \/ SomeClaim
    \/ SomeAck
    \/ SomeObservation
    \/ Tick

Next == LegacyNext \/ ManagementNext

Spec == Init /\ [][Next]_vars

\* The listener keeps polling and time passes; nobody is obliged to ack.
LegacySpec == Init /\ [][LegacyNext]_vars /\ WF_vars(SomeClaim) /\ WF_vars(Tick)

-----------------------------------------------------------------------------
\* The table's CHECK constraints: no transaction of the service leaves a row
\* that is leased and acked, unacked with a last lease, acked as replied,
\* failed or queued without the lease that did it, or above the attempt
\* ceiling.  The code relies on them only as a last resort: breaking one fails
\* the whole claim.
RowConstraints ==
    \A s \in Signals :
        LET r == rows[s] IN
        /\ r.outcome # "none" => r.lease = 0
        /\ r.outcome = "none" => r.lastLease = 0
        /\ r.outcome \in {"replied", "failed", "queued"} => r.lastLease # 0
        /\ r.attempts <= MaxAttempts

\* The types of the rows, and the constraints on them.
TypeOK ==
    /\ now \in 0..MaxTime
    /\ rows \in [Signals -> Row]
    /\ minted \in [Signals -> Nat]
    /\ managed \in BOOLEAN
    /\ session \in Session
    /\ proofs \in [Sessions -> Nat]
    /\ retired \in SUBSET Sessions
    /\ RowConstraints

Terminal == {"replied", "observed", "failed", "expired", "exhausted"}

\* Only the newest lease of a delivery can have acknowledged it: the late ack
\* of a lease that expired and was handed out again, or was reclaimed with its
\* session, never ends the redelivery.
AckNamesNewestLease ==
    \A s \in Signals : rows[s].lastLease # 0 => rows[s].lastLease = minted[s]

\* Losing a session unbinds its rows in the same transaction: once a managed
\* principal has a holder, every open row is free or bound to that holder, so
\* nothing waits for a session that is gone.
OpenRowsFollowHolder ==
    managed /\ session.id \in Sessions =>
        \A s \in Signals : Unacked(rows[s]) => rows[s].bound \in {Unbound, Current}

\* Enabling management leaves no unfenced lease behind: a live lease of a
\* managed principal belongs to the current session.
LiveLeaseIsFenced ==
    managed => \A s \in Signals : LiveLease(rows[s]) => rows[s].bound = Current

\* A decided delivery stays decided; only a queued receipt may still move, to
\* observed or to its end, or back to open when its session is lost.
DecidedStays ==
    [][\A s \in Signals :
          /\ rows[s].outcome \in Terminal => rows'[s].outcome = rows[s].outcome
          /\ rows[s].outcome = "queued" => rows'[s].outcome \notin {"replied", "failed"}
      ]_vars

\* A seat that leaves an expired or exhausted mark on a signal never did so
\* while a listener could still answer it: no row is given up under a live lease.
NeverGivenUpUnderLease ==
    [][\A s \in Signals :
          LiveLease(rows[s]) /\ rows'[s].outcome \in {"expired", "exhausted"} =>
              rows'[s].lastLease = rows[s].lease]_vars

\* Every lease that runs out was a counted attempt, so the reset in step 2
\* never trips CHECK (lease_expiry_count BETWEEN 0 AND attempt_count) and a
\* claim never aborts on it.
ClaimNeverAborts ==
    \A s \in Signals : ExpiryCheck(ResetStale(rows[s]))

\* Every delivery of a polled unmanaged principal ends: acknowledged, expired
\* with its signal, or given up at the attempt ceiling.
EveryDeliveryEnds ==
    \A s \in Signals : rows[s].sent ~> rows[s].outcome # "none"
=============================================================================
