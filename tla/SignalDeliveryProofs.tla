------------------------ MODULE SignalDeliveryProofs ------------------------
(***************************************************************************)
(* Proofs about SignalDelivery, for every set of signals and sessions and  *)
(* every bound.  A late ack is harmless because a lease that is still on   *)
(* its row is the newest one, and a lost session strands nothing because a *)
(* surfaced row is always a decided one; neither is visible in the checked *)
(* invariants, so Inv adds them, row by row, as RowSound.                  *)
(***************************************************************************)
EXTENDS SignalDelivery, TLAPS

(* A row given n leases so far: the CHECK constraints, a lease on the row  *)
(* or in its last_lease_id is the n-th, a surfaced row is decided, and     *)
(* nothing was decided about a signal that was never sent.                 *)
RowSound(r, n) ==
    /\ r.outcome # "none" => r.lease = 0
    /\ r.outcome = "none" => r.lastLease = 0
    /\ r.outcome \in {"replied", "failed", "queued"} => r.lastLease # 0
    /\ r.attempts <= MaxAttempts
    /\ r.lease # 0 => r.lease = n
    /\ r.lastLease # 0 => r.lastLease = n
    /\ r.surfaced => r.outcome # "none"
    /\ ~r.sent => r.outcome = "none"

RowsSound == \A s \in Signals : RowSound(rows[s], minted[s])

Inv ==
    /\ TypeOK
    /\ RowsSound
    /\ OpenRowsFollowHolder
    /\ LiveLeaseIsFenced

-----------------------------------------------------------------------------
(* What the operations on one row return.                                  *)

(* Step 2 of a claim touches stale leases only.                            *)
LEMMA ResetStaleRow ==
    ASSUME NEW r \in Row
    PROVE  LET t == ResetStale(r) IN
           /\ t \in Row
           /\ t.sent = r.sent /\ t.enqueued = r.enqueued /\ t.lastLease = r.lastLease
           /\ t.attempts = r.attempts /\ t.outcome = r.outcome /\ t.bound = r.bound
           /\ t.surfaced = r.surfaced
           /\ t.lease \in {r.lease, 0}
           /\ ~StaleLease(r) => t = r
           /\ StaleLease(r) => t.lease = 0
<1>1. CASE StaleLease(r)
  <2>1. Unleased(r) \in Row
    BY DEF Unleased, Row
  <2>2. ResetStale(r) = [Unleased(r) EXCEPT !.expiries = Unleased(r).expiries + 1]
    BY <1>1 DEF ResetStale
  <2>3. ResetStale(r) \in Row
    BY <2>1, <2>2 DEF Row
  <2> QED
    BY <1>1, <2>2, <2>3 DEF Unleased, Row
<1>2. CASE ~StaleLease(r)
  BY <1>2 DEF ResetStale
<1> QED
  BY <1>1, <1>2

(* Steps 3 and 4 end pending rows nobody holds, and change no other.       *)
LEMMA ExpireDeadRow ==
    ASSUME NEW r \in Row
    PROVE  LET t == ExpireDead(r) IN
           /\ t \in Row
           /\ t.sent = r.sent /\ t.enqueued = r.enqueued /\ t.lastLease = r.lastLease
           /\ t.attempts = r.attempts /\ t.surfaced = r.surfaced
           /\ t = r \/ (/\ Pending(r) /\ r.lease = 0
                        /\ t.outcome = "expired" /\ t.lease = 0)
<1>1. CASE Pending(r) /\ r.lease = 0 /\ ~SignalLive(r)
  BY <1>1 DEF ExpireDead, Unleased, Row, Outcomes
<1>2. CASE ~(Pending(r) /\ r.lease = 0 /\ ~SignalLive(r))
  BY <1>2 DEF ExpireDead
<1> QED
  BY <1>1, <1>2

LEMMA ExhaustRow ==
    ASSUME NEW r \in Row
    PROVE  LET t == Exhaust(r) IN
           /\ t \in Row
           /\ t.sent = r.sent /\ t.enqueued = r.enqueued /\ t.lastLease = r.lastLease
           /\ t.attempts = r.attempts /\ t.surfaced = r.surfaced
           /\ t = r \/ (/\ Pending(r) /\ r.lease = 0
                        /\ t.outcome = "exhausted" /\ t.lease = 0)
<1>1. CASE Pending(r) /\ r.lease = 0 /\ SignalLive(r) /\ r.attempts >= MaxAttempts
  BY <1>1 DEF Exhaust, Unleased, Row, Outcomes
<1>2. CASE ~(Pending(r) /\ r.lease = 0 /\ SignalLive(r) /\ r.attempts >= MaxAttempts)
  BY <1>2 DEF Exhaust
<1> QED
  BY <1>1, <1>2

(* The sweep of a claim: it ends rows that were pending and not held, and  *)
(* a row that is live or open after it was so before, with the same owner. *)
LEMMA SweptRow ==
    ASSUME NEW r \in Row, now \in Nat
    PROVE  LET t == Swept(r) IN
           /\ t \in Row
           /\ t.sent = r.sent /\ t.lastLease = r.lastLease /\ t.attempts = r.attempts
           /\ t.surfaced = r.surfaced
           /\ t.lease \in {r.lease, 0}
           /\ \/ t.outcome = r.outcome
              \/ Pending(r) /\ t.lease = 0 /\ t.outcome \in {"expired", "exhausted"}
           /\ Unacked(t) => Unacked(r) /\ t.bound = r.bound
           /\ LiveLease(r) => t = r
           /\ LiveLease(t) => t = r
<1> DEFINE u == ResetStale(r)
           v == ExpireDead(u)
           t == Exhaust(v)
<1>1. u \in Row /\ v \in Row /\ t \in Row
  BY ResetStaleRow, ExpireDeadRow, ExhaustRow
<1>2. Pending(u) => Pending(r)
  BY ResetStaleRow DEF Pending, Unacked
<1>3. v = u \/ (Pending(u) /\ u.lease = 0 /\ v.outcome = "expired" /\ v.lease = 0)
  BY <1>1, ExpireDeadRow
<1>4. t = v \/ (Pending(v) /\ v.lease = 0 /\ t.outcome = "exhausted" /\ t.lease = 0)
  BY <1>1, ExhaustRow
<1>5. Pending(v) => v = u
  BY <1>3 DEF Pending, Unacked
<1>6. t.sent = r.sent /\ t.lastLease = r.lastLease /\ t.attempts = r.attempts
      /\ t.surfaced = r.surfaced
  BY <1>1, ResetStaleRow, ExpireDeadRow, ExhaustRow
<1>7. t = u \/ (/\ Pending(u) /\ u.lease = 0 /\ t.lease = 0
                /\ t.outcome \in {"expired", "exhausted"})
  BY <1>3, <1>4, <1>5
<1>8. Unacked(t) => t = u
  BY <1>7 DEF Unacked
<1>9. LiveLease(r) => u = r /\ u.lease # 0
  <2> SUFFICES ASSUME LiveLease(r) PROVE u = r /\ u.lease # 0
    OBVIOUS
  <2>1. ~StaleLease(r)
    BY DEF LiveLease, StaleLease, Row
  <2> QED
    BY <2>1, ResetStaleRow DEF LiveLease
<1>10. LiveLease(t) => t = r
  <2> SUFFICES ASSUME LiveLease(t) PROVE t = r
    OBVIOUS
  <2>1. t = u /\ u.lease # 0
    BY <1>8 DEF LiveLease
  <2>2. ~StaleLease(r)
    BY <2>1, ResetStaleRow
  <2> QED
    BY <2>1, <2>2, ResetStaleRow
<1>11. Unacked(t) => Unacked(r) /\ t.bound = r.bound
  BY <1>8, ResetStaleRow DEF Unacked
<1>12. t.lease \in {r.lease, 0}
  BY <1>7, ResetStaleRow
<1>13. t.outcome = r.outcome
       \/ (Pending(r) /\ t.lease = 0 /\ t.outcome \in {"expired", "exhausted"})
  BY <1>2, <1>7, ResetStaleRow
<1>14. LiveLease(r) => t = r
  BY <1>7, <1>9
<1>15. t = Swept(r)
  BY DEF Swept
<1> HIDE DEF t
<1> QED
  BY <1>1, <1>6, <1>10, <1>11, <1>12, <1>13, <1>14, <1>15

(* A leased row differs in its lease, its holder and its attempts.         *)
LEMMA LeasedRowRow ==
    ASSUME NEW r \in Row, NEW id \in Nat, NEW proof \in (Sessions \X Nat) \cup {Unbound},
           now \in Nat
    PROVE  LET t == LeasedRow(r, id, proof) IN
           /\ t \in Row
           /\ t.sent = r.sent /\ t.lastLease = r.lastLease /\ t.outcome = r.outcome
           /\ t.surfaced = r.surfaced
           /\ t.lease = id /\ t.bound = proof
           /\ t.attempts \in {r.attempts, r.attempts + 1}
<1> DEFINE n == IF RecoversQueueOnly(r) THEN r.attempts ELSE r.attempts + 1
           x == now + LeaseTime
<1>1. x \in Nat /\ n \in Nat /\ n \in {r.attempts, r.attempts + 1}
  BY TimeAssumption DEF Row
<1>2. LeasedRow(r, id, proof) =
        [r EXCEPT !.lease = id, !.until = x, !.bound = proof, !.attempts = n]
  BY DEF LeasedRow
<1> HIDE DEF n, x
<1> QED
  BY <1>1, <1>2 DEF Row

LEMMA AckedRow ==
    ASSUME NEW r \in Row, NEW id \in Nat, NEW o \in AckOutcomes
    PROVE  LET t == Acked(r, id, o) IN
           /\ t \in Row
           /\ t.sent = r.sent /\ t.attempts = r.attempts /\ t.bound = r.bound
           /\ t.lease = 0 /\ t.lastLease = id /\ t.outcome = o
<1> DEFINE u == Unleased(r)
           b == u.surfaced \/ (managed /\ o # "queued")
<1>1. u \in Row /\ u.sent = r.sent /\ u.attempts = r.attempts /\ u.bound = r.bound
      /\ u.lease = 0
  BY DEF Unleased, Row
<1>2. b \in BOOLEAN
  OBVIOUS
<1>3. Acked(r, id, o) = [u EXCEPT !.outcome = o, !.lastLease = id, !.surfaced = b]
  BY DEF Acked
<1> HIDE DEF u, b
<1> QED
  BY <1>1, <1>2, <1>3, OutcomeAssumption DEF Row, Outcomes

(* A session that is lost takes no decided row with it, leaves every row   *)
(* it reopens without a lease, a holder or a last lease.                   *)
LEMMA ReclaimedRow ==
    ASSUME NEW r \in Row
    PROVE  LET t == Reclaimed(r) IN
           /\ t \in Row
           /\ t.sent = r.sent /\ t.attempts = r.attempts /\ t.surfaced = r.surfaced
           /\ \/ t = r /\ (r.surfaced \/ (~Unacked(r) /\ r.outcome # "queued"))
              \/ /\ ~r.surfaced /\ (Unacked(r) \/ r.outcome = "queued")
                 /\ t.outcome = "none" /\ t.lease = 0 /\ t.bound = Unbound
                 /\ r.outcome = "queued" => t.lastLease = 0
                 /\ r.outcome # "queued" => t.lastLease = r.lastLease
<1>1. CASE ~r.surfaced /\ r.outcome = "queued"
  BY <1>1 DEF Reclaimed, Reopened, Unleased, Row, Outcomes, Unacked
<1>2. CASE ~r.surfaced /\ r.outcome # "queued" /\ Unacked(r)
  BY <1>2 DEF Reclaimed, Reopened, Unleased, Row, Outcomes, Unacked
<1>3. CASE r.surfaced \/ (~Unacked(r) /\ r.outcome # "queued")
  BY <1>3 DEF Reclaimed
<1> QED
  BY <1>1, <1>2, <1>3

LEMMA SweptSound ==
    ASSUME NEW r \in Row, NEW n, now \in Nat, RowSound(r, n)
    PROVE  RowSound(Swept(r), n)
BY SweptRow DEF RowSound, Pending, Unacked

LEMMA ReclaimedSound ==
    ASSUME NEW r \in Row, NEW n, RowSound(r, n)
    PROVE  RowSound(Reclaimed(r), n)
BY ReclaimedRow DEF RowSound, Unacked

-----------------------------------------------------------------------------
(* The session fence.                                                      *)

(* A fenced command of a managed principal carries the current session, a  *)
(* real one, and the fence changes nothing but the session's expiry.       *)
LEMMA FenceFacts ==
    ASSUME TypeOK, NEW proof, Carries(proof)
    PROVE  /\ proof \in (Sessions \X Nat) \cup {Unbound}
           /\ managed => proof = Current /\ session.id \in Sessions
           /\ FencedSession \in Session
           /\ FencedSession.id = session.id /\ FencedSession.gen = session.gen
<1>1. session \in Session /\ now + SessionTime \in Nat
  BY TimeAssumption DEF TypeOK
<1>2. ASSUME NEW i \in Sessions PROVE ProofOf(i) \in Sessions \X Nat
  BY DEF ProofOf, TypeOK
<1>3. managed => proof = Current /\ session.id \in Sessions
  BY DEF Carries, FencePasses, ProofOf, Current
<1>4. proof \in (Sessions \X Nat) \cup {Unbound}
  BY <1>2 DEF Carries
<1>5. FencedSession \in Session /\ FencedSession.id = session.id
      /\ FencedSession.gen = session.gen
  BY <1>1 DEF FencedSession, Activated, Session
<1> QED
  BY <1>3, <1>4, <1>5

-----------------------------------------------------------------------------
(* What each operation does to one row.                                    *)

(* A fenced command opens no row, gives a row only to its caller, and      *)
(* leases a row only to its caller.                                        *)
FencedRowStep(s, proof) ==
    /\ rows'[s] \in Row /\ minted'[s] \in Nat
    /\ RowSound(rows'[s], minted'[s])
    /\ Unacked(rows'[s]) => /\ Unacked(rows[s])
                            /\ rows'[s].bound \in {rows[s].bound, proof}
    /\ LiveLease(rows'[s]) => rows'[s] = rows[s] \/ rows'[s].bound = proof

(* A claim leaves a live lease and its row alone, gives a row only to its  *)
(* caller, and ends only rows that were pending and not held.              *)
LEMMA ClaimRow ==
    ASSUME TypeOK, RowsSound, NEW proof, NEW limit, Claim(proof, limit),
           NEW s \in Signals
    PROVE  /\ FencedRowStep(s, proof)
           /\ LiveLease(rows[s]) => rows'[s] = rows[s]
           /\ \/ rows'[s].outcome = rows[s].outcome
              \/ Pending(rows[s]) /\ rows'[s].outcome \in {"expired", "exhausted"}
<1> DEFINE r == rows[s]
           w == Swept(r)
           swept == [x \in Signals |-> Swept(rows[x])]
           cands == {x \in Signals : Claimable(swept[x], proof)}
<1>1. r \in Row /\ now \in Nat /\ minted[s] \in Nat /\ RowSound(r, minted[s])
  BY TimeAssumption DEF TypeOK, RowsSound
<1>2. w \in Row /\ RowSound(w, minted[s])
  BY <1>1, SweptRow, SweptSound
<1>3. PICK picked \in SUBSET cands :
         /\ rows' = [x \in Signals |-> IF x \in picked
                                       THEN LeasedRow(swept[x], minted[x] + 1, proof)
                                       ELSE swept[x]]
         /\ minted' = [x \in Signals |-> IF x \in picked THEN minted[x] + 1
                                                        ELSE minted[x]]
  BY DEF Claim, OldestOf
<1>4. proof \in (Sessions \X Nat) \cup {Unbound}
  BY FenceFacts DEF Claim
<1>5. CASE s \notin picked
  <2>1. rows'[s] = w /\ minted'[s] = minted[s]
    BY <1>3, <1>5
  <2>2. LiveLease(w) => w = r
    BY <1>1, SweptRow
  <2> QED
    BY <1>1, <1>2, <2>1, <2>2, SweptRow DEF FencedRowStep
<1>6. CASE s \in picked
  <2> DEFINE t == LeasedRow(w, minted[s] + 1, proof)
  <2>1. rows'[s] = t /\ minted'[s] = minted[s] + 1
    BY <1>3, <1>6
  <2>2. Unacked(w) /\ w.lease = 0 /\ w.attempts < MaxAttempts
    BY <1>6 DEF Claimable
  <2>3. /\ t \in Row
        /\ t.sent = w.sent /\ t.lastLease = w.lastLease /\ t.outcome = w.outcome
        /\ t.surfaced = w.surfaced
        /\ t.lease = minted[s] + 1 /\ t.bound = proof
        /\ t.attempts \in {w.attempts, w.attempts + 1}
    BY <1>1, <1>2, <1>4, minted[s] + 1 \in Nat, LeasedRowRow
  <2>4. ~LiveLease(r)
    BY <1>1, <2>2, SweptRow DEF LiveLease
  <2>5. Unacked(r) /\ r.outcome = w.outcome
    BY <1>1, <2>2, SweptRow DEF Unacked
  <2> HIDE DEF t, w
  <2>6. MaxAttempts \in Nat /\ w.attempts \in Nat
    BY <1>2, LimitAssumption DEF Row
  <2>7. RowSound(t, minted[s] + 1)
    BY <1>2, <2>2, <2>3, <2>6 DEF RowSound, Unacked
  <2> QED
    BY <1>1, <2>1, <2>3, <2>4, <2>5, <2>7 DEF FencedRowStep
<1> QED
  BY <1>5, <1>6

(* An ack ends the one row whose live lease it names; an observation ends  *)
(* one row nobody holds.  Every other row stays as it is.                  *)
LEMMA AckRow ==
    ASSUME TypeOK, RowsSound, NEW q \in Signals, NEW id \in Nat, NEW proof,
           NEW outcome \in AckOutcomes, Ack(q, id, proof, outcome),
           NEW s \in Signals
    PROVE  /\ FencedRowStep(s, proof)
           /\ \/ rows'[s] = rows[s]
              \/ /\ LiveLease(rows[s])
                 /\ rows'[s].outcome = outcome /\ rows'[s].lastLease = rows[s].lease
<1>1. rows[s] \in Row /\ minted[s] \in Nat /\ RowSound(rows[s], minted[s])
      /\ minted' = minted
  BY DEF TypeOK, RowsSound, Ack
<1>2. CASE s # q
  <2>1. rows'[s] = rows[s]
    BY <1>2 DEF Ack, TypeOK
  <2> QED
    BY <1>1, <2>1 DEF FencedRowStep
<1>3. CASE s = q
  <2> DEFINE t == Acked(rows[s], id, outcome)
  <2>1. rows'[s] = t
    BY <1>3 DEF Ack, TypeOK
  <2>2. LiveLease(rows[s]) /\ rows[s].lease = id
    BY <1>3 DEF Ack, AckMatches
  <2>3. /\ t \in Row
        /\ t.sent = rows[s].sent /\ t.attempts = rows[s].attempts
        /\ t.lease = 0 /\ t.lastLease = id /\ t.outcome = outcome
    BY <1>1, AckedRow
  <2>4. outcome # "none"
    BY OutcomeAssumption
  <2> HIDE DEF t
  <2>5. RowSound(t, minted[s])
    BY <1>1, <2>2, <2>3, <2>4 DEF RowSound, LiveLease, Unacked
  <2> QED
    BY <1>1, <2>1, <2>2, <2>3, <2>4, <2>5 DEF FencedRowStep, LiveLease, Unacked
<1> QED
  BY <1>2, <1>3

LEMMA ObservationRow ==
    ASSUME TypeOK, RowsSound, NEW q \in Signals, NEW proof,
           ObserveQueued(q, proof) \/ ObserveUnclaimed(q, proof),
           NEW s \in Signals
    PROVE  /\ FencedRowStep(s, proof)
           /\ \/ rows'[s] = rows[s]
              \/ /\ rows[s].outcome \in {"none", "queued"} /\ rows[s].lease = 0
                 /\ rows'[s].outcome = "observed"
<1>1. rows[s] \in Row /\ minted[s] \in Nat /\ RowSound(rows[s], minted[s])
      /\ minted' = minted
  BY DEF TypeOK, RowsSound, ObserveQueued, ObserveUnclaimed
<1>2. CASE s # q
  <2>1. rows'[s] = rows[s]
    BY <1>2 DEF ObserveQueued, ObserveUnclaimed, TypeOK
  <2> QED
    BY <1>1, <2>1 DEF FencedRowStep
<1>3. CASE s = q
  <2>1. PICK b \in BOOLEAN :
           rows'[s] = [rows[s] EXCEPT !.outcome = "observed", !.surfaced = b]
    <3>1. CASE ObserveQueued(q, proof)
      <4>1. (rows[s].surfaced \/ managed) \in BOOLEAN
        OBVIOUS
      <4>2. rows'[s] = [rows[s] EXCEPT !.outcome = "observed",
                                       !.surfaced = rows[s].surfaced \/ managed]
        BY <1>1, <1>3, <3>1 DEF ObserveQueued, TypeOK, Row
      <4> QED
        BY <4>1, <4>2
    <3>2. CASE ObserveUnclaimed(q, proof)
      BY <1>1, <1>3, <3>2 DEF ObserveUnclaimed, TypeOK, Row
    <3> QED
      BY <3>1, <3>2
  <2>2. rows[s].outcome \in {"none", "queued"} /\ rows[s].lease = 0 /\ rows[s].sent
    BY <1>1, <1>3 DEF ObserveQueued, ObserveUnclaimed, CanObserveUnclaimed, Unacked,
                      RowSound
  <2> DEFINE t == rows'[s]
  <2>3. /\ t \in Row
        /\ t.sent = rows[s].sent /\ t.attempts = rows[s].attempts
        /\ t.lease = rows[s].lease /\ t.lastLease = rows[s].lastLease
        /\ t.outcome = "observed"
    BY <1>1, <2>1 DEF Row, Outcomes
  <2> HIDE DEF t
  <2>4. RowSound(t, minted[s])
    BY <1>1, <2>2, <2>3 DEF RowSound
  <2> QED
    BY <1>1, <2>2, <2>3, <2>4 DEF t, FencedRowStep, LiveLease, Unacked
<1> QED
  BY <1>2, <1>3

(* Losing a session leaves open rows without a lease and without a holder. *)
LEMMA ReclaimRow ==
    ASSUME TypeOK, RowsSound, rows' = reclaimUnsurfacedLeases, minted' = minted,
           NEW s \in Signals
    PROVE  /\ rows'[s] \in Row /\ minted'[s] \in Nat
           /\ RowSound(rows'[s], minted'[s])
           /\ Unacked(rows'[s]) => rows'[s].lease = 0 /\ rows'[s].bound = Unbound
           /\ \/ rows'[s] = rows[s]
              \/ rows[s].outcome \in {"none", "queued"} /\ rows'[s].outcome = "none"
<1>1. rows[s] \in Row /\ minted[s] \in Nat /\ RowSound(rows[s], minted[s])
  BY DEF TypeOK, RowsSound
<1>2. rows'[s] = Reclaimed(rows[s])
  BY DEF reclaimUnsurfacedLeases
<1> QED
  BY <1>1, <1>2, ReclaimedRow, ReclaimedSound DEF RowSound, Unacked

-----------------------------------------------------------------------------
(* The inductive step.                                                     *)

LEMMA SoundRowsMeetConstraints == RowsSound => RowConstraints
BY DEF RowsSound, RowSound, RowConstraints

(* Every fenced command keeps Inv: the caller is the current holder.       *)
LEMMA FencedStep ==
    ASSUME Inv, NEW proof, Carries(proof),
           rows' = [s \in Signals |-> rows'[s]],
           minted' = [s \in Signals |-> minted'[s]],
           \A s \in Signals : FencedRowStep(s, proof),
           session' = FencedSession,
           UNCHANGED <<now, managed, proofs, retired>>
    PROVE  Inv'
<1>1. /\ managed => proof = Current /\ session.id \in Sessions
      /\ FencedSession \in Session
      /\ FencedSession.id = session.id /\ FencedSession.gen = session.gen
  BY FenceFacts DEF Inv
<1>2. Current' = Current /\ session'.id = session.id
  BY <1>1 DEF Current
<1>3. RowsSound'
  BY DEF RowsSound, FencedRowStep
<1>4. TypeOK'
  <2>1. RowConstraints'
    BY <1>3, SoundRowsMeetConstraints DEF RowsSound, RowSound, RowConstraints
  <2>2. rows' \in [Signals -> Row] /\ minted' \in [Signals -> Nat]
    BY DEF FencedRowStep
  <2> QED
    BY <1>1, <2>1, <2>2 DEF Inv, TypeOK
<1>5. OpenRowsFollowHolder'
  <2> SUFFICES ASSUME managed', session'.id \in Sessions,
                      NEW s \in Signals, Unacked(rows[s])'
               PROVE  rows'[s].bound \in {Unbound, Current'}
    BY DEF OpenRowsFollowHolder
  <2>1. Unacked(rows'[s]) /\ managed /\ session.id \in Sessions
    BY <1>2 DEF Unacked
  <2>2. Unacked(rows[s]) /\ rows'[s].bound \in {rows[s].bound, proof}
    BY <2>1 DEF FencedRowStep
  <2>3. rows[s].bound \in {Unbound, Current}
    BY <2>1, <2>2 DEF Inv, OpenRowsFollowHolder
  <2> QED
    BY <1>1, <1>2, <2>1, <2>2, <2>3
<1>6. LiveLeaseIsFenced'
  <2> SUFFICES ASSUME managed', NEW s \in Signals, LiveLease(rows[s])'
               PROVE  rows'[s].bound = Current'
    BY DEF LiveLeaseIsFenced
  <2>1. LiveLease(rows'[s]) /\ managed
    BY DEF LiveLease, Unacked
  <2>2. rows'[s] = rows[s] \/ rows'[s].bound = proof
    BY <2>1 DEF FencedRowStep
  <2> QED
    BY <1>1, <1>2, <2>1, <2>2 DEF Inv, LiveLeaseIsFenced
<1> QED
  BY <1>3, <1>4, <1>5, <1>6 DEF Inv

(* Losing a session keeps Inv whatever becomes of the session row: there   *)
(* is no open row left that anybody holds.                                 *)
LEMMA ReclaimStep ==
    ASSUME Inv, rows' = reclaimUnsurfacedLeases, session' \in Session,
           managed' \in BOOLEAN, proofs' \in [Sessions -> Nat],
           retired' \in SUBSET Sessions, UNCHANGED <<now, minted>>
    PROVE  Inv'
<1>1. \A s \in Signals :
         /\ rows'[s] \in Row /\ minted'[s] \in Nat
         /\ RowSound(rows'[s], minted'[s])
         /\ Unacked(rows'[s]) => rows'[s].lease = 0 /\ rows'[s].bound = Unbound
  BY ReclaimRow DEF Inv
<1>2. RowsSound'
  BY <1>1 DEF RowsSound
<1>3. TypeOK'
  <2>1. RowConstraints'
    BY <1>2 DEF RowsSound, RowSound, RowConstraints
  <2>2. rows' \in [Signals -> Row] /\ minted' \in [Signals -> Nat]
    BY <1>1 DEF reclaimUnsurfacedLeases, Inv, TypeOK
  <2> QED
    BY <2>1, <2>2 DEF Inv, TypeOK
<1>4. OpenRowsFollowHolder'
  BY <1>1 DEF OpenRowsFollowHolder, Unacked
<1>5. LiveLeaseIsFenced'
  BY <1>1 DEF LiveLeaseIsFenced, LiveLease, Unacked
<1> QED
  BY <1>2, <1>3, <1>4, <1>5 DEF Inv

LEMMA InitInv == Init => Inv
<1> SUFFICES ASSUME Init PROVE Inv
  OBVIOUS
<1>1. NoRow \in Row /\ RowSound(NoRow, 0) /\ ~Unacked(NoRow)
  BY LimitAssumption DEF NoRow, Row, Outcomes, RowSound, Unacked
<1>2. \A s \in Signals : rows[s] = NoRow /\ minted[s] = 0
  BY DEF Init
<1>3. RowsSound
  BY <1>1, <1>2 DEF RowsSound
<1>4. TypeOK
  <2>1. RowConstraints
    BY <1>3, SoundRowsMeetConstraints
  <2>2. rows \in [Signals -> Row] /\ minted \in [Signals -> Nat]
    BY <1>1 DEF Init
  <2>3. session \in Session /\ now \in 0..MaxTime
    BY TimeAssumption DEF Init, Session
  <2> QED
    BY <2>1, <2>2, <2>3 DEF Init, TypeOK
<1> QED
  BY <1>1, <1>2, <1>3, <1>4 DEF Init, Inv, OpenRowsFollowHolder, LiveLeaseIsFenced

LEMMA NextInv == Inv /\ [Next]_vars => Inv'
<1> SUFFICES ASSUME Inv, [Next]_vars PROVE Inv'
  OBVIOUS
<1>0. /\ now \in Nat /\ now + SessionTime \in Nat /\ session \in Session
      /\ rows \in [Signals -> Row] /\ minted \in [Signals -> Nat]
      /\ proofs \in [Sessions -> Nat] /\ retired \in SUBSET Sessions
      /\ managed \in BOOLEAN
  BY TimeAssumption DEF Inv, TypeOK
<1>r. RevokedSession \in Session
  BY <1>0 DEF RevokedSession, Session
<1>1. ASSUME NEW s \in Signals, Send(s) PROVE Inv'
  <2> DEFINE t == [NoRow EXCEPT !.sent = TRUE, !.enqueued = now]
  <2>0. NoRow \in Row
    BY DEF NoRow, Row, Outcomes
  <2>1. /\ t \in Row /\ RowSound(t, minted[s])
        /\ t.lease = 0 /\ t.bound = Unbound
    <3>1. /\ t \in Row /\ t.sent = TRUE /\ t.lease = 0 /\ t.lastLease = 0
          /\ t.attempts = 0 /\ t.outcome = "none" /\ t.surfaced = FALSE
          /\ t.bound = Unbound
      BY <1>0, <2>0 DEF NoRow, Row
    <3> HIDE DEF t
    <3> QED
      BY <3>1, LimitAssumption DEF RowSound
  <2>2. \A q \in Signals : rows'[q] = rows[q] \/ (q = s /\ rows'[q] = t)
    BY <1>0, <1>1 DEF Send
  <2> HIDE DEF t
  <2>3. RowsSound'
    BY <1>1, <2>1, <2>2 DEF Inv, RowsSound, Send
  <2>4. TypeOK'
    <3>1. RowConstraints'
      BY <2>3 DEF RowsSound, RowSound, RowConstraints
    <3>2. rows' \in [Signals -> Row]
      BY <1>0, <1>1, <2>1 DEF Send, t
    <3> QED
      BY <1>1, <3>1, <3>2 DEF Send, Inv, TypeOK
  <2>5. OpenRowsFollowHolder'
    BY <1>1, <2>1, <2>2 DEF Inv, OpenRowsFollowHolder, Send, Unacked, Current
  <2>6. LiveLeaseIsFenced'
    BY <1>1, <2>1, <2>2 DEF Inv, LiveLeaseIsFenced, Send, LiveLease, Unacked, Current
  <2> QED
    BY <2>3, <2>4, <2>5, <2>6 DEF Inv
<1>2. ASSUME NEW proof \in Proofs, NEW limit \in ClaimLimits, Claim(proof, limit)
      PROVE  Inv'
  <2>1. \A s \in Signals : FencedRowStep(s, proof)
    BY <1>2, ClaimRow DEF Inv
  <2>2. /\ Carries(proof) /\ session' = FencedSession
        /\ UNCHANGED <<now, managed, proofs, retired>>
        /\ rows' = [s \in Signals |-> rows'[s]]
        /\ minted' = [s \in Signals |-> minted'[s]]
    BY <1>2 DEF Claim
  <2> QED
    BY <2>1, <2>2, FencedStep
<1>3. ASSUME NEW q \in Signals, NEW proof \in Proofs, NEW outcome \in AckOutcomes,
             NEW id \in 1..minted[q], Ack(q, id, proof, outcome)
      PROVE  Inv'
  <2>1. \A s \in Signals : FencedRowStep(s, proof)
    BY <1>0, <1>3, id \in Nat, AckRow DEF Inv
  <2>2. /\ Carries(proof) /\ session' = FencedSession
        /\ UNCHANGED <<now, managed, proofs, retired>>
        /\ rows' = [s \in Signals |-> rows'[s]]
        /\ minted' = [s \in Signals |-> minted'[s]]
    BY <1>0, <1>3 DEF Ack
  <2> QED
    BY <2>1, <2>2, FencedStep
<1>4. ASSUME NEW q \in Signals, NEW proof \in Proofs,
             ObserveQueued(q, proof) \/ ObserveUnclaimed(q, proof)
      PROVE  Inv'
  <2>1. \A s \in Signals : FencedRowStep(s, proof)
    BY <1>4, ObservationRow DEF Inv
  <2>2. /\ Carries(proof) /\ session' = FencedSession
        /\ UNCHANGED <<now, managed, proofs, retired>>
        /\ rows' = [s \in Signals |-> rows'[s]]
        /\ minted' = [s \in Signals |-> minted'[s]]
    BY <1>0, <1>4 DEF ObserveQueued, ObserveUnclaimed
  <2> QED
    BY <2>1, <2>2, FencedStep
<1>5. CASE Tick
  <2>1. TypeOK' /\ RowsSound' /\ OpenRowsFollowHolder'
    BY <1>0, <1>5, TimeAssumption
       DEF Tick, Inv, TypeOK, RowConstraints, RowsSound, OpenRowsFollowHolder, Current,
           Unacked
  <2>2. LiveLeaseIsFenced'
    <3> SUFFICES ASSUME managed', NEW s \in Signals, LiveLease(rows[s])'
                 PROVE  rows'[s].bound = Current'
      BY DEF LiveLeaseIsFenced
    <3>1. rows[s] \in Row
      BY <1>0
    <3>2. rows[s].until \in Nat
      BY <3>1 DEF Row
    <3>3. LiveLease(rows[s])
      BY <1>0, <1>5, <3>2 DEF Tick, LiveLease, Unacked
    <3> QED
      BY <1>5, <3>3 DEF Tick, Inv, LiveLeaseIsFenced, Current
  <2> QED
    BY <2>1, <2>2 DEF Inv
<1>6. CASE enableAgentManagement
  <2>1. session' \in Session /\ session'.id \notin Sessions
    BY <1>0, <1>6, SessionAssumption DEF enableAgentManagement, Session
  <2>2. TypeOK'
    BY <1>0, <1>6, <2>1 DEF enableAgentManagement, Inv, TypeOK, RowConstraints
  <2>3. RowsSound'
    BY <1>6 DEF enableAgentManagement, Inv, RowsSound
  <2>4. OpenRowsFollowHolder'
    BY <2>1 DEF OpenRowsFollowHolder
  <2>5. LiveLeaseIsFenced'
    <3>1. \A s \in Signals : ~LiveLease(rows[s])
      BY <1>6 DEF enableAgentManagement, CanEnable
    <3>2. rows' = rows /\ now' = now
      BY <1>6 DEF enableAgentManagement
    <3> QED
      BY <3>1, <3>2 DEF LiveLeaseIsFenced, LiveLease, Unacked
  <2> QED
    BY <2>2, <2>3, <2>4, <2>5 DEF Inv
<1>7. CASE disableAgentManagement
  BY <1>0, <1>r, <1>7, ReclaimStep DEF disableAgentManagement
<1>8. CASE recoverAgentSession
  BY <1>0, <1>r, <1>8, ReclaimStep DEF recoverAgentSession
<1>9. ASSUME NEW i \in Sessions, acquireAgentSession(i) PROVE Inv'
  <2>1. session.gen + 1 \in Nat
    BY <1>0 DEF Session
  <2>2. session' \in Session
    BY <1>0, <1>9, <2>1 DEF acquireAgentSession, Session
  <2>3. proofs' \in [Sessions -> Nat] /\ retired' \in SUBSET Sessions
    BY <1>0, <1>9, <2>1 DEF acquireAgentSession
  <2> QED
    BY <1>0, <1>9, <2>2, <2>3, ReclaimStep DEF acquireAgentSession, NewHolderRows
<1>10. ASSUME NEW i \in Sessions, renewAgentSession(i) PROVE Inv'
  <2>1. session' \in Session /\ Current' = Current /\ session'.id = session.id
    BY <1>0, <1>10 DEF renewAgentSession, Session, Current
  <2>2. TypeOK' /\ RowsSound'
    BY <1>10, <2>1 DEF renewAgentSession, Inv, TypeOK, RowConstraints, RowsSound
  <2>3. OpenRowsFollowHolder' /\ LiveLeaseIsFenced'
    BY <1>10, <2>1
       DEF renewAgentSession, Inv, OpenRowsFollowHolder, LiveLeaseIsFenced, LiveLease,
           Unacked
  <2> QED
    BY <2>2, <2>3 DEF Inv
<1>11. ASSUME NEW i \in Sessions, releaseAgentSession(i) PROVE Inv'
  <2>1. session' \in Session
    BY <1>0, <1>11 DEF releaseAgentSession, Session
  <2> QED
    BY <1>0, <1>11, <2>1, ReclaimStep DEF releaseAgentSession
<1>12. CASE UNCHANGED vars
  <2> USE <1>12 DEF vars
  <2>1. TypeOK' /\ RowsSound'
    BY DEF Inv, TypeOK, RowConstraints, RowsSound
  <2>2. OpenRowsFollowHolder' /\ LiveLeaseIsFenced'
    BY DEF Inv, OpenRowsFollowHolder, LiveLeaseIsFenced, LiveLease, Unacked, Current
  <2> QED
    BY <2>1, <2>2 DEF Inv
<1> QED
  BY <1>1, <1>2, <1>3, <1>4, <1>5, <1>6, <1>7, <1>8, <1>9, <1>10, <1>11, <1>12
     DEF Next, LegacyNext, ManagementNext, SomeClaim, SomeAck, SomeObservation

-----------------------------------------------------------------------------
(* The theorems.                                                           *)

(* Every reachable state of the delivery rows and the session satisfies    *)
(* the inductive invariant, whatever is claimed, acknowledged, observed or *)
(* recovered, by whom and how late.                                        *)
THEOREM Invariance == Spec => []Inv
<1> QED
  BY InitInv, NextInv, PTL DEF Spec

(* Every committed row has its type and meets the CHECK constraints of its *)
(* table.                                                                  *)
THEOREM TypeCorrect == Spec => []TypeOK
<1>1. Inv => TypeOK
  BY DEF Inv
<1> QED
  BY <1>1, Invariance, PTL

(* Only the newest lease of a delivery can have acknowledged it.           *)
THEOREM NewestLeaseAcks == Spec => []AckNamesNewestLease
<1>1. Inv => AckNamesNewestLease
  BY DEF Inv, RowsSound, RowSound, AckNamesNewestLease
<1> QED
  BY <1>1, Invariance, PTL

(* No open row of a managed principal waits for a session that is gone.    *)
THEOREM RowsFollowHolder == Spec => []OpenRowsFollowHolder
<1>1. Inv => OpenRowsFollowHolder
  BY DEF Inv
<1> QED
  BY <1>1, Invariance, PTL

(* Every live lease of a managed principal is fenced by the current        *)
(* session.                                                                *)
THEOREM LeasesAreFenced == Spec => []LiveLeaseIsFenced
<1>1. Inv => LiveLeaseIsFenced
  BY DEF Inv
<1> QED
  BY <1>1, Invariance, PTL

-----------------------------------------------------------------------------
(* What a step may do to a decision: nothing once it is final, nothing but *)
(* observe, end or reopen a queued receipt, and no end under a live lease  *)
(* but the holder's own.                                                   *)
DecisionKept(s) ==
    /\ rows[s].outcome \in Terminal => rows'[s].outcome = rows[s].outcome
    /\ rows[s].outcome = "queued" => rows'[s].outcome \notin {"replied", "failed"}
    /\ LiveLease(rows[s]) /\ rows'[s].outcome \in {"expired", "exhausted"} =>
          rows'[s].lastLease = rows[s].lease

LEMMA DecisionStep == Inv /\ [Next]_vars => \A s \in Signals : DecisionKept(s)
<1> SUFFICES ASSUME Inv, [Next]_vars, NEW s \in Signals PROVE DecisionKept(s)
  OBVIOUS
<1>0. TypeOK /\ RowsSound /\ RowSound(rows[s], minted[s])
  BY DEF Inv, RowsSound
<1>k. ASSUME rows'[s] = rows[s] PROVE DecisionKept(s)
  BY <1>k DEF DecisionKept, Terminal, LiveLease, Unacked
<1>r. ASSUME rows' = reclaimUnsurfacedLeases, minted' = minted PROVE DecisionKept(s)
  <2>1. \/ rows'[s] = rows[s]
        \/ rows[s].outcome \in {"none", "queued"} /\ rows'[s].outcome = "none"
    BY <1>0, <1>r, ReclaimRow
  <2> QED
    BY <1>k, <2>1 DEF DecisionKept, Terminal
<1>1. ASSUME NEW q \in Signals, Send(q) PROVE DecisionKept(s)
  <2>1. CASE s # q
    BY <1>0, <1>1, <1>k, <2>1 DEF Send, TypeOK
  <2>2. CASE s = q
    <3>1. rows'[s] = [NoRow EXCEPT !.sent = TRUE, !.enqueued = now]
      BY <1>0, <1>1, <2>2 DEF Send, TypeOK
    <3>2. rows'[s].outcome = "none"
      BY <3>1 DEF NoRow
    <3>3. rows[s].outcome = "none"
      BY <1>0, <1>1, <2>2 DEF Send, RowSound
    <3> QED
      BY <3>2, <3>3 DEF DecisionKept, Terminal
  <2> QED
    BY <2>1, <2>2
<1>2. ASSUME NEW proof \in Proofs, NEW limit \in ClaimLimits, Claim(proof, limit)
      PROVE  DecisionKept(s)
  <2>1. /\ LiveLease(rows[s]) => rows'[s] = rows[s]
        /\ \/ rows'[s].outcome = rows[s].outcome
           \/ Pending(rows[s]) /\ rows'[s].outcome \in {"expired", "exhausted"}
    BY <1>0, <1>2, ClaimRow
  <2>2. Pending(rows[s]) => rows[s].outcome \in {"none", "queued"}
    BY DEF Pending, Unacked
  <2> QED
    BY <2>1, <2>2 DEF DecisionKept, Terminal, LiveLease, Unacked
<1>3. ASSUME NEW q \in Signals, NEW proof \in Proofs, NEW outcome \in AckOutcomes,
             NEW id \in 1..minted[q], Ack(q, id, proof, outcome)
      PROVE  DecisionKept(s)
  <2>1. minted[q] \in Nat
    BY <1>0 DEF TypeOK
  <2>2. id \in Nat
    BY <2>1
  <2>3. \/ rows'[s] = rows[s]
        \/ /\ LiveLease(rows[s])
           /\ rows'[s].outcome = outcome /\ rows'[s].lastLease = rows[s].lease
    BY <1>0, <1>3, <2>2, AckRow
  <2> QED
    BY <1>k, <2>3 DEF DecisionKept, Terminal, LiveLease, Unacked
<1>4. ASSUME NEW q \in Signals, NEW proof \in Proofs,
             ObserveQueued(q, proof) \/ ObserveUnclaimed(q, proof)
      PROVE  DecisionKept(s)
  <2>1. \/ rows'[s] = rows[s]
        \/ /\ rows[s].outcome \in {"none", "queued"} /\ rows[s].lease = 0
           /\ rows'[s].outcome = "observed"
    BY <1>0, <1>4, ObservationRow
  <2> QED
    BY <1>k, <2>1 DEF DecisionKept, Terminal
<1>5. CASE Tick \/ enableAgentManagement \/ UNCHANGED vars
  BY <1>5, <1>k DEF Tick, enableAgentManagement, vars
<1>6. CASE disableAgentManagement \/ recoverAgentSession
  BY <1>6, <1>r DEF disableAgentManagement, recoverAgentSession
<1>7. ASSUME NEW i \in Sessions,
             acquireAgentSession(i) \/ renewAgentSession(i) \/ releaseAgentSession(i)
      PROVE  DecisionKept(s)
  BY <1>7, <1>k, <1>r
     DEF acquireAgentSession, NewHolderRows, renewAgentSession, releaseAgentSession
<1> QED
  BY <1>1, <1>2, <1>3, <1>4, <1>5, <1>6, <1>7
     DEF Next, LegacyNext, ManagementNext, SomeClaim, SomeAck, SomeObservation

(* A decided delivery stays decided, whoever acknowledges, claims, observes *)
(* or loses a session, and however late.                                    *)
THEOREM DecisionsStay == Spec => DecidedStays
<1>1. Inv /\ [Next]_vars =>
        [\A s \in Signals :
            /\ rows[s].outcome \in Terminal => rows'[s].outcome = rows[s].outcome
            /\ rows[s].outcome = "queued" => rows'[s].outcome \notin {"replied", "failed"}
        ]_vars
  BY DecisionStep DEF DecisionKept
<1> QED
  BY <1>1, Invariance, PTL DEF Spec, DecidedStays

(* No row is given up, expired or exhausted, while a listener still holds  *)
(* its lease, except by that listener's own ack.                           *)
THEOREM LeaseNotGivenUp == Spec => NeverGivenUpUnderLease
<1>1. Inv /\ [Next]_vars =>
        [\A s \in Signals :
            LiveLease(rows[s]) /\ rows'[s].outcome \in {"expired", "exhausted"} =>
                rows'[s].lastLease = rows[s].lease]_vars
  BY DecisionStep DEF DecisionKept
<1> QED
  BY <1>1, Invariance, PTL DEF Spec, NeverGivenUpUnderLease
=============================================================================
