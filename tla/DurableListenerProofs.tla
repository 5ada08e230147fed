----------------------- MODULE DurableListenerProofs -----------------------
(***************************************************************************)
(* Proofs about DurableListener: a listener, its seat's hook and cswarm    *)
(* check, crashing and retrying at any point against the delivery service, *)
(* for every set of signals, queue length, margin and number of faults.    *)
(*                                                                         *)
(* The lease side of the invariant ties the journal and the ledger's       *)
(* answer to the row on the server; the queue side ties the receipts on    *)
(* the server to the queue file and to what the session has been shown.    *)
(***************************************************************************)
EXTENDS DurableListener, SignalDeliveryProofs, FiniteSetTheorems

-----------------------------------------------------------------------------
(* The types. *)

Journals ==
    [phase : {"none", "claim_pending", "leased", "ack_pending"},
     signal : Signals \cup {"none"}, lease : Nat, until : Nat,
     tried : -1 .. MaxTime]

KeptLeases == [kind : {"lease"}, signal : Signals, lease : Nat, until : Nat]

Hooks == [pc : {"idle", "printed", "observing"}, batch : SUBSET Signals,
          done : SUBSET Signals]

LTypes ==
    /\ pc \in {"loop", "claim", "route", "effect", "prepare", "ack"}
    /\ journal \in Journals
    /\ claimKept \in {NotKept, KeptEmpty} \cup KeptLeases
    /\ ackKept \in BOOLEAN
    /\ effects \subseteq Signals /\ dropped \subseteq Signals
    /\ queue \in Seq(Signals) /\ Len(queue) <= QueueMax
    /\ hook \in Hooks
    /\ seen \subseteq Signals /\ printed \subseteq Signals
    /\ check \in [Signals -> {"unread", "report", "done"}]

-----------------------------------------------------------------------------
(* The lease side. *)

\* Where the loop is, the journal has the claim it is about.
PhaseFits ==
    /\ pc = "claim" => journal.phase \in {"claim_pending", "leased"}
    /\ pc \in {"route", "effect", "prepare"} => journal.phase = "leased"
    /\ pc = "ack" => journal.phase = "ack_pending"

\* A journalled lease is the ledger's answer to the claim.
LeaseIsKept ==
    journal.phase \in {"leased", "ack_pending"} =>
        claimKept = KeptLease(journal.signal, journal.lease, journal.until)

TriedInPast == journal.tried <= now

\* A lease granted to a claim without an answer ends within its horizon.
LeaseWasTried ==
    journal.phase = "claim_pending" /\ claimKept \in KeptLeases =>
        journal.tried >= 0 /\ claimKept.until <= journal.tried + LeaseTime

AckServed == journal.phase = "ack_pending" /\ ackKept

\* Until it runs out or the ack was served, the lease is on its row.
LeaseOnRow ==
    /\ claimKept \in KeptLeases /\ journal.phase # "none"
    /\ now < claimKept.until /\ ~AckServed
    => /\ LiveLease(rows[claimKept.signal])
       /\ rows[claimKept.signal].lease = claimKept.lease
       /\ rows[claimKept.signal].until = claimKept.until

\* A served ack has ended its delivery.
AckEnded == AckServed => rows[journal.signal].outcome # "none"

LeaseSide ==
    /\ PhaseFits /\ LeaseIsKept /\ TriedInPast /\ LeaseWasTried
    /\ LeaseOnRow /\ AckEnded /\ LiveLeaseIsJournalled

-----------------------------------------------------------------------------
(* The queue side. *)

Observed == {s \in Signals : rows[s].outcome = "observed"}

\* What may be acknowledged as queued is in the queue, was pushed out of it,
\* or has been observed and can no longer be acknowledged.
EffectsAreKept ==
    /\ effects \subseteq Queued \cup dropped \cup Observed
    /\ pc = "effect" => journal.signal \in Queued \cup dropped \cup Observed
    /\ pc \in {"prepare", "ack"} \/ journal.phase = "ack_pending" =>
          journal.signal \in effects

\* What is reported observed was printed, what leaves the queue is observed.
ReportsArePrinted ==
    /\ seen \subseteq printed
    /\ hook.batch \subseteq printed
    /\ hook.done \subseteq Observed
    /\ \A s \in Signals : check[s] # "unread" => s \in printed

QueueSide ==
    EffectsAreKept /\ ReportsArePrinted /\ QueuedIsKept /\ ObservedWasPrinted

LInv == Inv /\ ~managed /\ LTypes /\ LeaseSide /\ QueueSide

-----------------------------------------------------------------------------
(* What a transaction of the service does to one row. *)

DecisionHolds(s) ==
    /\ rows[s].outcome = "observed" => rows'[s].outcome = "observed"
    /\ rows[s].outcome # "none" => rows'[s].outcome # "none"

LeaseHolds(s) ==
    LiveLease(rows[s]) /\ now' < rows[s].until => rows'[s] = rows[s]

NoNewLease(s) ==
    LiveLease(rows[s])' => LiveLease(rows[s]) /\ rows'[s] = rows[s]

NoNewReceipt(s) == rows'[s].outcome = "queued" => rows[s].outcome = "queued"

NoNewSight(s) == rows'[s].outcome = "observed" => rows[s].outcome = "observed"

\* The row was at most observed.
Undisturbed(s) ==
    DecisionHolds(s) /\ LeaseHolds(s) /\ NoNewLease(s) /\ NoNewReceipt(s)

Quiet == \A s \in Signals : Undisturbed(s) /\ NoNewSight(s)

LEMMA RowFacts ==
    ASSUME Inv, NEW s \in Signals
    PROVE  /\ TypeOK /\ RowsSound /\ now \in Nat /\ rows[s] \in Row
           /\ minted[s] \in Nat /\ RowSound(rows[s], minted[s])
           /\ rows \in [Signals -> Row] /\ minted \in [Signals -> Nat]
           /\ rows[s].lease \in Nat /\ rows[s].until \in Nat
           /\ rows[s].outcome \in Outcomes
<1>1. /\ TypeOK /\ RowsSound /\ now \in Nat /\ rows \in [Signals -> Row]
      /\ minted \in [Signals -> Nat] /\ RowSound(rows[s], minted[s])
  BY TimeAssumption DEF Inv, TypeOK, RowsSound
<1>2. rows[s] \in Row /\ minted[s] \in Nat
  BY <1>1
<1> QED
  BY <1>1, <1>2 DEF Row

LEMMA SameRow ==
    ASSUME Inv, NEW s \in Signals, rows'[s] = rows[s], now' \in Nat, now' >= now
    PROVE  Undisturbed(s) /\ NoNewSight(s)
<1>1. rows[s].until \in Nat /\ now \in Nat
  BY RowFacts
<1>2. LiveLease(rows[s])' => LiveLease(rows[s])
  BY <1>1 DEF LiveLease, Unacked
<1> QED
  BY <1>2 DEF Undisturbed, DecisionHolds, LeaseHolds, NoNewLease, NoNewReceipt,
              NoNewSight

LEMMA StillQuiet ==
    ASSUME Inv, UNCHANGED vars
    PROVE  Quiet
  BY SameRow, RowFacts DEF Quiet, vars

LEMMA TickQuiet ==
    ASSUME Inv, Tick
    PROVE  Quiet /\ now' = now + 1 /\ now < MaxTime /\ UNCHANGED rows
<1>1. now' = now + 1 /\ now < MaxTime /\ UNCHANGED rows
  BY DEF Tick
<1>2. \A s \in Signals : rows'[s] = rows[s] /\ now' \in Nat /\ now' >= now
  BY <1>1, RowFacts
<1> QED
  BY <1>1, <1>2, SameRow DEF Quiet

LEMMA SendQuiet ==
    ASSUME Inv, NEW q \in Signals, Send(q)
    PROVE  Quiet /\ now' = now
<1>1. now' = now
  BY DEF Send
<1>2. ASSUME NEW s \in Signals, s # q
      PROVE  Undisturbed(s) /\ NoNewSight(s)
  BY <1>1, <1>2, SameRow, RowFacts DEF Send
<1>3. Undisturbed(q) /\ NoNewSight(q)
  <2>1. rows'[q] = [NoRow EXCEPT !.sent = TRUE, !.enqueued = now]
    BY RowFacts DEF Send
  <2>2. rows'[q].outcome = "none" /\ rows'[q].lease = 0
    BY <2>1 DEF NoRow
  <2>3. rows[q].outcome = "none" /\ ~LiveLease(rows[q])
    BY RowFacts DEF Send, RowSound, LiveLease, Unacked
  <2> QED
    BY <2>2, <2>3
    DEF Undisturbed, DecisionHolds, LeaseHolds, NoNewLease, NoNewReceipt,
        NoNewSight, LiveLease
<1> QED
  BY <1>1, <1>2, <1>3 DEF Quiet

LEMMA ObserveStep ==
    ASSUME Inv, NEW q \in Signals,
           ObserveQueued(q, Unbound) \/ ObserveUnclaimed(q, Unbound)
    PROVE  /\ now' = now /\ rows'[q].outcome = "observed"
           /\ \A s \in Signals : Undisturbed(s)
           /\ \A s \in Signals \ {q} : NoNewSight(s)
<1>1. now' = now
  BY DEF ObserveQueued, ObserveUnclaimed
<1>2. ASSUME NEW s \in Signals \ {q}
      PROVE  Undisturbed(s) /\ NoNewSight(s)
  <2>1. rows'[s] = rows[s]
    BY RowFacts DEF ObserveQueued, ObserveUnclaimed
  <2> QED
    BY <1>1, <2>1, SameRow, RowFacts
<1>3. rows'[q].outcome = "observed"
  <2>1. rows[q] \in Row /\ rows \in [Signals -> Row]
    BY RowFacts
  <2> QED
    BY <2>1 DEF ObserveQueued, ObserveUnclaimed, Row
<1>4. Undisturbed(q)
  <2>1. ~LiveLease(rows[q])
    <3>1. TypeOK /\ RowsSound /\ RowSound(rows[q], minted[q])
      BY RowFacts
    <3> QED
      BY <3>1 DEF ObserveQueued, ObserveUnclaimed, CanObserveUnclaimed, LiveLease,
                  Unacked, RowSound
  <2> QED
    BY <1>3, <2>1
    DEF Undisturbed, DecisionHolds, LeaseHolds, NoNewLease, NoNewReceipt,
        LiveLease, Unacked
<1> QED
  BY <1>1, <1>2, <1>3, <1>4

LEMMA AckStep ==
    ASSUME Inv, NEW q \in Signals, NEW id \in Nat, Ack(q, id, Unbound, "queued")
    PROVE  /\ now' = now /\ rows'[q].outcome = "queued"
           /\ rows[q].outcome = "none"
           /\ \A s \in Signals : DecisionHolds(s) /\ NoNewLease(s) /\ NoNewSight(s)
           /\ \A s \in Signals \ {q} : Undisturbed(s)
<1>1. now' = now /\ LiveLease(rows[q])
  BY DEF Ack, AckMatches
<1>2. ASSUME NEW s \in Signals \ {q}
      PROVE  Undisturbed(s) /\ NoNewSight(s)
  <2>1. rows'[s] = rows[s]
    BY RowFacts DEF Ack
  <2> QED
    BY <1>1, <2>1, SameRow, RowFacts
<1>3. rows'[q].outcome = "queued"
  <2>1. rows[q] \in Row /\ rows'[q] = Acked(rows[q], id, "queued")
    BY RowFacts DEF Ack
  <2>2. "queued" \in AckOutcomes
    BY UseAssumption
  <2> QED
    BY <2>1, <2>2, AckedRow
<1>4. DecisionHolds(q) /\ NoNewLease(q) /\ NoNewSight(q)
  BY <1>1, <1>3 DEF DecisionHolds, NoNewLease, NoNewSight, LiveLease, Unacked
<1> QED
  BY <1>1, <1>2, <1>3, <1>4 DEF LiveLease, Unacked, Undisturbed

\* At most one row is picked by a claim of limit 1.
LEMMA OnePicked ==
    ASSUME NEW cands \in SUBSET Signals, NEW slots \in Nat, NEW swept,
           NEW picked \in OldestOf(cands, IF 1 < slots THEN 1 ELSE slots, swept)
    PROVE  picked \subseteq cands /\ \A s, t \in picked : s = t
<1> DEFINE n == IF 1 < slots THEN 1 ELSE slots
<1>1. n \in {0, 1}
  OBVIOUS
<1>2. /\ picked \subseteq cands
      /\ Cardinality(picked) = IF Cardinality(cands) < n THEN Cardinality(cands)
                                                         ELSE n
  BY DEF OldestOf
<1>3. IsFiniteSet(cands) /\ IsFiniteSet(picked)
  BY <1>2, UseAssumption, FS_Subset
<1>4. Cardinality(cands) \in Nat
  BY <1>3, FS_CardinalityType
<1> HIDE DEF n
<1>5. Cardinality(picked) \in {0, 1}
  BY <1>1, <1>2, <1>4
<1>6. picked = {} \/ \E x : picked = {x}
  BY <1>3, <1>5, FS_EmptySet, FS_Singleton
<1> QED
  BY <1>2, <1>6

LEMMA LeasedRowUntil ==
    ASSUME NEW r \in Row, NEW id
    PROVE  LeasedRow(r, id, Unbound).until = now + LeaseTime
  BY DEF LeasedRow, Row

\* A claim while no lease is live: the one row it leases, if any, is live.
LEMMA ClaimStep ==
    ASSUME Inv, Claim(Unbound, 1), \A s \in Signals : ~LiveLease(rows[s])
    PROVE  /\ now' = now
           /\ \A s \in Signals :
                (Undisturbed(s) /\ NoNewSight(s)) \/ minted'[s] # minted[s]
           /\ \A s \in Signals : minted'[s] # minted[s] =>
                /\ LiveLease(rows[s])' /\ DecisionHolds(s)
                /\ rows'[s].outcome = "none" /\ rows[s].outcome = "none"
                /\ rows'[s].lease = minted'[s]
                /\ rows'[s].until = now + LeaseTime
           /\ \A s, t \in Signals :
                minted'[s] # minted[s] /\ minted'[t] # minted[t] => s = t
<1> DEFINE swept == [x \in Signals |-> Swept(rows[x])]
           cands == {x \in Signals : Claimable(swept[x], Unbound)}
           live  == Cardinality({x \in Signals : LiveLease(swept[x])})
           slots == IF live < MaxOutstanding THEN MaxOutstanding - live ELSE 0
<1>1. now' = now
  BY DEF Claim
<1>2. PICK picked \in OldestOf(cands, IF 1 < slots THEN 1 ELSE slots, swept) :
         /\ rows' = [x \in Signals |-> IF x \in picked
                                       THEN LeasedRow(swept[x], minted[x] + 1, Unbound)
                                       ELSE swept[x]]
         /\ minted' = [x \in Signals |-> IF x \in picked THEN minted[x] + 1
                                                        ELSE minted[x]]
  BY DEF Claim
<1>3. slots \in Nat
  <2>1. {x \in Signals : LiveLease(swept[x])} \subseteq Signals
    OBVIOUS
  <2>2. live \in Nat
    BY <2>1, UseAssumption, FS_Subset, FS_CardinalityType
  <2> HIDE DEF live
  <2> QED
    BY <2>2, LimitAssumption
<1>4. cands \subseteq Signals
  OBVIOUS
<1>5. picked \subseteq cands /\ \A s, t \in picked : s = t
  <2> HIDE DEF slots, cands, swept
  <2> QED
    BY <1>2, <1>3, <1>4, OnePicked
<1>6. \A s \in Signals : minted'[s] # minted[s] <=> s \in picked
  BY <1>2, RowFacts
<1>7. ASSUME NEW s \in Signals, s \notin picked
      PROVE  Undisturbed(s) /\ NoNewSight(s)
  <2>1. rows'[s] = Swept(rows[s])
    BY <1>2, <1>7
  <2>2. /\ rows[s] \in Row /\ now \in Nat
    BY RowFacts
  <2>3. LiveLease(Swept(rows[s])) => Swept(rows[s]) = rows[s]
    BY <2>2, SweptRow
  <2>4. \/ rows'[s].outcome = rows[s].outcome
        \/ /\ Pending(rows[s])
           /\ rows'[s].outcome \in {"expired", "exhausted"}
    BY <2>1, <2>2, SweptRow
  <2>5. ~LiveLease(rows[s])'
    BY <1>1, <2>1, <2>3 DEF LiveLease, Unacked
  <2>6. Pending(rows[s]) => rows[s].outcome # "observed"
    BY DEF Pending, Unacked
  <2> QED
    BY <2>4, <2>5, <2>6
    DEF Undisturbed, DecisionHolds, LeaseHolds, NoNewLease, NoNewReceipt,
        NoNewSight
<1>8. ASSUME NEW s \in Signals, s \in picked
      PROVE  /\ LiveLease(rows[s])' /\ DecisionHolds(s)
             /\ rows'[s].outcome = "none" /\ rows[s].outcome = "none"
             /\ rows'[s].lease = minted'[s]
             /\ rows'[s].until = now + LeaseTime
  <2> DEFINE w == Swept(rows[s])
             t == LeasedRow(w, minted[s] + 1, Unbound)
  <2>1. rows'[s] = t /\ minted'[s] = minted[s] + 1
    BY <1>2, <1>8
  <2>2. Unacked(w)
    BY <1>5, <1>8 DEF Claimable
  <2>3. /\ rows[s] \in Row /\ now \in Nat /\ minted[s] \in Nat
    BY RowFacts
  <2>4. w \in Row /\ (Unacked(w) => Unacked(rows[s]))
    BY <2>3, SweptRow
  <2>5. /\ t.sent = w.sent /\ t.outcome = w.outcome /\ t.lease = minted[s] + 1
    BY <2>3, <2>4, minted[s] + 1 \in Nat, LeasedRowRow
  <2>6. t.until = now + LeaseTime
    BY <2>4, LeasedRowUntil
  <2> HIDE DEF t, w
  <2>7. now + LeaseTime > now /\ minted[s] + 1 # 0
    BY <2>3, TimeAssumption
  <2> QED
    BY <1>1, <2>1, <2>2, <2>4, <2>5, <2>6, <2>7
    DEF LiveLease, Unacked, DecisionHolds
<1> QED
  BY <1>1, <1>5, <1>6, <1>7, <1>8

-----------------------------------------------------------------------------
(* The ledger's answers. *)

LEMMA KeptLeaseFields ==
    ASSUME NEW s, NEW id, NEW u
    PROVE  /\ KeptLease(s, id, u).kind = "lease" /\ KeptLease(s, id, u).signal = s
           /\ KeptLease(s, id, u).lease = id /\ KeptLease(s, id, u).until = u
           /\ KeptLease(s, id, u) # NotKept /\ KeptLease(s, id, u) # KeptEmpty
           /\ KeptLease(s, id, u) \in KeptLeases <=>
                 s \in Signals /\ id \in Nat /\ u \in Nat
<1>1. /\ KeptLease(s, id, u).kind = "lease" /\ KeptLease(s, id, u).signal = s
      /\ KeptLease(s, id, u).lease = id /\ KeptLease(s, id, u).until = u
  BY DEF KeptLease
<1>2. NotKept.kind = "none" /\ KeptEmpty.kind = "empty"
  BY DEF NotKept, KeptEmpty
<1>3. KeptLease(s, id, u) # NotKept /\ KeptLease(s, id, u) # KeptEmpty
  BY <1>1, <1>2
<1>4. KeptLease(s, id, u) \in KeptLeases <=>
         s \in Signals /\ id \in Nat /\ u \in Nat
  BY DEF KeptLease, KeptLeases
<1> QED
  BY <1>1, <1>3, <1>4

LEMMA KeptKinds ==
    ASSUME NEW k \in {NotKept, KeptEmpty} \cup KeptLeases
    PROVE  /\ k.kind = "lease" <=> k \in KeptLeases
           /\ k \in KeptLeases => /\ k = KeptLease(k.signal, k.lease, k.until)
                                  /\ k \notin {NotKept, KeptEmpty}
                                  /\ k.signal \in Signals
                                  /\ k.lease \in Nat /\ k.until \in Nat
<1>1. NotKept.kind = "none" /\ KeptEmpty.kind = "empty"
  BY DEF NotKept, KeptEmpty
<1>2. k \in KeptLeases => /\ k.kind = "lease"
                          /\ k = KeptLease(k.signal, k.lease, k.until)
                          /\ k.signal \in Signals
                          /\ k.lease \in Nat /\ k.until \in Nat
  BY DEF KeptLeases, KeptLease
<1> QED
  BY <1>1, <1>2

LEMMA JournalFields ==
    ASSUME LTypes
    PROVE  /\ journal.phase \in {"none", "claim_pending", "leased", "ack_pending"}
           /\ journal.lease \in Nat /\ journal.until \in Nat
           /\ journal.tried \in -1 .. MaxTime
  BY DEF LTypes, Journals

\* A lease in the journal is a real one.
LEMMA JournalLease ==
    ASSUME LTypes, LeaseIsKept, journal.phase \in {"leased", "ack_pending"}
    PROVE  /\ claimKept \in KeptLeases
           /\ journal.signal \in Signals /\ claimKept.signal = journal.signal
           /\ claimKept.lease = journal.lease /\ claimKept.until = journal.until
<1>1. claimKept = KeptLease(journal.signal, journal.lease, journal.until)
  BY DEF LeaseIsKept
<1>2. claimKept.kind = "lease" /\ claimKept \in {NotKept, KeptEmpty} \cup KeptLeases
  BY <1>1, KeptLeaseFields DEF LTypes
<1>3. claimKept \in KeptLeases /\ claimKept.signal \in Signals
  BY <1>2, KeptKinds
<1> QED
  BY <1>1, <1>3, KeptLeaseFields

\* Every step of listener, hook and check is a transaction of the service, or
\* leaves it alone, and none puts the principal under management.
LEMMA ServiceStep ==
    ASSUME LInv, [LNext]_lvars
    PROVE  [Next]_vars /\ managed' = managed
<1>1. Inv /\ ~managed
  BY DEF LInv
<1>2. /\ 1 \in ClaimLimits /\ "queued" \in AckOutcomes /\ Unbound \in Proofs
  BY UseAssumption DEF Proofs
<1> DEFINE Kept == [Next]_vars /\ managed' = managed
<1>3. ASSUME UNCHANGED vars
      PROVE  Kept
  BY <1>3 DEF vars
<1>4. ASSUME Claim(Unbound, 1)
      PROVE  Kept
  BY <1>2, <1>4 DEF Next, LegacyNext, SomeClaim, Claim
<1>5. ASSUME pc = "ack", Ack(journal.signal, journal.lease, Unbound, "queued")
      PROVE  Kept
  <2>1. journal.signal \in Signals
    BY <1>5, JournalLease DEF LInv, LeaseSide, PhaseFits
  <2>2. journal.lease \in 1 .. minted[journal.signal]
    <3>1. rows[journal.signal].lease = journal.lease /\ journal.lease # 0
      BY <1>5 DEF Ack, AckMatches, LiveLease
    <3>2. /\ RowSound(rows[journal.signal], minted[journal.signal])
          /\ minted[journal.signal] \in Nat
      BY <1>1, <2>1, RowFacts
    <3>3. journal.lease = minted[journal.signal]
      BY <3>1, <3>2 DEF RowSound
    <3> QED
      BY <3>1, <3>2, <3>3
  <2>3. SomeAck
    BY <1>2, <1>5, <2>1, <2>2 DEF SomeAck
  <2> QED
    BY <1>5, <2>3 DEF Next, LegacyNext, Ack
<1>6. ASSUME NEW s \in Signals,
             ObserveQueued(s, Unbound) \/ ObserveUnclaimed(s, Unbound)
      PROVE  Kept
  <2>1. SomeObservation
    BY <1>2, <1>6 DEF SomeObservation
  <2> QED
    BY <1>6, <2>1 DEF Next, LegacyNext, ObserveQueued, ObserveUnclaimed
<1>7. ASSUME NEW s \in Signals, Send(s)
      PROVE  Kept
  BY <1>7 DEF Next, LegacyNext, Send
<1>8. ASSUME Tick
      PROVE  Kept
  BY <1>8 DEF Next, LegacyNext, Tick
<1> HIDE DEF Kept
<1>9. ASSUME ListenerStep
      PROVE  Kept
  BY <1>3, <1>4, <1>5, <1>9
  DEF ListenerStep, ReserveClaim, Resume, GiveUp, ClaimAnswered, ServeClaim,
      QueueSignal, WriteEffect, PrepareAck, AckAnswered, ServeAck, AckStale
<1>10. ASSUME HookStep
       PROVE  Kept
  BY <1>3, <1>6, <1>10
  DEF HookStep, HookPrint, HookCommit, HookRemove, HookObserve, ServeObserve
<1>11. ASSUME FaultStep
       PROVE  Kept
  BY <1>3, <1>4, <1>5, <1>6, <1>11
  DEF FaultStep, ClaimFails, ServeClaim, AckFails, ServeAck, Crash, HookCrash,
      HookObserveFails, ServeObserve
<1>12. ASSUME NEW s \in Signals, Arrive(s) \/ CheckPrint(s) \/ CheckReport(s)
       PROVE  Kept
  BY <1>3, <1>6, <1>7, <1>12 DEF Arrive, CheckPrint, CheckReport
<1>13. Kept
  BY <1>3, <1>8, <1>9, <1>10, <1>11, <1>12 DEF LNext, TickAll, lvars
<1> QED
  BY <1>13 DEF Kept

LEMMA ServerKept ==
    ASSUME LInv, [LNext]_lvars
    PROVE  Inv' /\ ~managed'
  BY ServiceStep, NextInv DEF LInv

\* What the claim request comes to, run or answered from the ledger.
LEMMA ClaimServed ==
    ASSUME LInv, Inv', ServeClaim
    PROVE  /\ now' = now
           /\ claimKept' \in {NotKept, KeptEmpty} \cup KeptLeases
           /\ \A s \in Signals : /\ DecisionHolds(s) /\ LeaseHolds(s)
                                 /\ NoNewReceipt(s) /\ NoNewSight(s)
           /\ \A s \in Signals : LiveLease(rows[s])' =>
                 claimKept' = KeptLease(s, rows'[s].lease, rows'[s].until)
           /\ \/ claimKept' = claimKept /\ UNCHANGED vars
              \/ claimKept' \notin KeptLeases
              \/ /\ claimKept' \in KeptLeases /\ claimKept = NotKept
                 /\ LiveLease(rows[claimKept.signal])'
                 /\ rows'[claimKept'.signal].lease = claimKept'.lease
                 /\ rows'[claimKept'.signal].until = claimKept'.until
                 /\ claimKept'.until = now + LeaseTime
<1>1. Inv /\ LTypes /\ LiveLeaseIsJournalled
  BY DEF LInv, LeaseSide
<1>2. CASE claimKept # NotKept /\ UNCHANGED <<vars, claimKept>>
  <2>1. Quiet /\ now' = now /\ claimKept' = claimKept /\ UNCHANGED vars
    BY <1>1, <1>2, StillQuiet DEF vars
  <2>2. \A s \in Signals : LiveLease(rows[s])' =>
           claimKept' = KeptLease(s, rows'[s].lease, rows'[s].until)
    <3>1. \A s \in Signals : LiveLease(rows[s])' =>
             LiveLease(rows[s]) /\ rows'[s] = rows[s]
      BY <2>1 DEF Quiet, Undisturbed, NoNewLease
    <3>2. \A s \in Signals : LiveLease(rows[s]) =>
             claimKept = KeptLease(s, rows[s].lease, rows[s].until)
      BY <1>1 DEF LiveLeaseIsJournalled
    <3> QED
      BY <2>1, <3>1, <3>2
  <2> QED
    BY <1>1, <2>1, <2>2 DEF Quiet, Undisturbed, LTypes
<1>3. CASE claimKept = NotKept /\ Claim(Unbound, 1) /\ claimKept' = LedgerAnswer
  <2> DEFINE got == {s \in Signals : minted'[s] # minted[s]}
  <2>1. \A s \in Signals : ~LiveLease(rows[s])
    BY <1>1, <1>3, KeptLeaseFields DEF LiveLeaseIsJournalled
  <2>2. /\ now' = now
        /\ \A s \in Signals \ got : Undisturbed(s) /\ NoNewSight(s)
        /\ \A s \in got :
             /\ LiveLease(rows[s])' /\ DecisionHolds(s)
             /\ rows'[s].outcome = "none" /\ rows[s].outcome = "none"
             /\ rows'[s].lease = minted'[s]
             /\ rows'[s].until = now + LeaseTime
        /\ \A s, t \in got : s = t
    BY <1>1, <1>3, <2>1, ClaimStep
  <2>3. got \subseteq Signals
    OBVIOUS
  <2>4. \A s \in Signals : /\ DecisionHolds(s) /\ LeaseHolds(s)
                           /\ NoNewReceipt(s) /\ NoNewSight(s)
    <3> HIDE DEF got
    <3> QED
      BY <2>1, <2>2
      DEF Undisturbed, LeaseHolds, NoNewReceipt, NoNewSight
  <2>5. \A s \in Signals : LiveLease(rows[s])' => s \in got
    <3> HIDE DEF got
    <3> QED
      BY <2>1, <2>2 DEF Undisturbed, NoNewLease
  <2>6. CASE got = {}
    <3>1. claimKept' \in {NotKept, KeptEmpty}
      BY <1>3, <2>6 DEF LedgerAnswer
    <3>2. claimKept' \notin KeptLeases
      BY <3>1, KeptKinds
    <3> QED
      BY <2>2, <2>4, <2>5, <2>6, <3>1, <3>2
  <2>7. ASSUME NEW s \in got
        PROVE  /\ claimKept' = KeptLease(s, minted'[s], rows'[s].until)
               /\ claimKept' \in KeptLeases /\ claimKept'.signal = s
               /\ claimKept'.lease = rows'[s].lease
               /\ claimKept'.until = rows'[s].until
               /\ \A t \in got : t = s
    <3>1. got = {s}
      <4> HIDE DEF got
      <4> QED
        BY <2>2, <2>7
    <3>2. claimKept' = KeptLease(s, minted'[s], rows'[s].until)
      <4>1. (CHOOSE x \in got : TRUE) = s
        BY <3>1
      <4> QED
        BY <1>3, <3>1, <4>1 DEF LedgerAnswer
    <3>3. minted'[s] \in Nat /\ rows'[s].until \in Nat
      <4>1. rows' \in [Signals -> Row] /\ minted' \in [Signals -> Nat]
        BY DEF Inv, TypeOK
      <4> QED
        BY <2>3, <4>1 DEF Row
    <3> HIDE DEF got
    <3> QED
      BY <2>2, <2>3, <2>7, <3>1, <3>2, <3>3, KeptLeaseFields
  <2>8. CASE got # {}
    <3>1. PICK s \in got : TRUE
      BY <2>8
    <3>2. /\ claimKept' = KeptLease(s, minted'[s], rows'[s].until)
          /\ claimKept' \in KeptLeases /\ claimKept'.signal = s
          /\ claimKept'.lease = rows'[s].lease
          /\ claimKept'.until = rows'[s].until
          /\ \A t \in got : t = s
      BY <2>7
    <3>3. LiveLease(rows[s])' /\ rows'[s].lease = minted'[s]
          /\ rows'[s].until = now + LeaseTime
      BY <2>2
    <3>4. LiveLease(rows[claimKept.signal])'
      BY <3>2, <3>3
    <3> HIDE DEF got
    <3> QED
      BY <1>3, <2>2, <2>4, <2>5, <3>2, <3>3, <3>4
  <2> QED
    BY <2>6, <2>8
<1> QED
  BY <1>2, <1>3 DEF ServeClaim

-----------------------------------------------------------------------------
(* The types. *)

LEMMA Clock ==
    ASSUME Inv
    PROVE  now \in 0 .. MaxTime /\ now \in Nat /\ MaxTime \in Nat
           /\ LeaseTime \in Nat /\ Margin \in Nat /\ QueueMax \in Nat \ {0}
  BY TimeAssumption, ListenerAssumption DEF Inv, TypeOK

LEMMA InactiveTyped ==
    /\ Inactive \in Journals /\ Inactive.phase = "none"
    /\ [Inactive EXCEPT !.phase = "claim_pending"] \in Journals
    /\ [Inactive EXCEPT !.phase = "claim_pending"].phase = "claim_pending"
  BY TimeAssumption DEF Inactive, Journals

LEMMA JournalUpdates ==
    ASSUME NEW j \in Journals
    PROVE  /\ [j EXCEPT !.phase = "ack_pending"] \in Journals
           /\ [j EXCEPT !.phase = "ack_pending"].phase = "ack_pending"
           /\ [j EXCEPT !.phase = "ack_pending"].signal = j.signal
           /\ [j EXCEPT !.phase = "ack_pending"].lease = j.lease
           /\ [j EXCEPT !.phase = "ack_pending"].until = j.until
           /\ \A n \in 0 .. MaxTime :
                /\ [j EXCEPT !.tried = n] \in Journals
                /\ [j EXCEPT !.tried = n].tried = n
                /\ [j EXCEPT !.tried = n].phase = j.phase
                /\ [j EXCEPT !.tried = n].signal = j.signal
                /\ [j EXCEPT !.tried = n].lease = j.lease
                /\ [j EXCEPT !.tried = n].until = j.until
  BY TimeAssumption DEF Journals

LEMMA LeasedJournal ==
    ASSUME Inv, NEW k \in KeptLeases
    PROVE  [phase |-> "leased", signal |-> k.signal, lease |-> k.lease,
            until |-> k.until, tried |-> now] \in Journals
<1>1. now \in -1 .. MaxTime
  BY Clock
<1>2. k.signal \in Signals /\ k.lease \in Nat /\ k.until \in Nat
  BY DEF KeptLeases
<1> QED
  BY <1>1, <1>2 DEF Journals


\* A signal enters the queue, at the cost of the oldest one when it is full.
LEMMA EnqueueFacts ==
    ASSUME LTypes, NEW s \in Signals
    PROVE  /\ Enqueued(s) \in Seq(Signals) /\ Len(Enqueued(s)) <= QueueMax
           /\ PushedOut(s) \subseteq Signals
           /\ \E i \in DOMAIN Enqueued(s) : Enqueued(s)[i] = s
           /\ \A q \in Queued : q \in PushedOut(s)
                 \/ \E i \in DOMAIN Enqueued(s) : Enqueued(s)[i] = q
<1>1. /\ queue \in Seq(Signals) /\ Len(queue) <= QueueMax /\ Len(queue) \in Nat
      /\ QueueMax \in Nat \ {0}
  BY ListenerAssumption DEF LTypes
<1>2. CASE s \in Queued
  BY <1>1, <1>2 DEF Enqueued, PushedOut, Queued
<1>3. CASE s \notin Queued /\ Len(queue) < QueueMax
  <2> DEFINE e == Append(queue, s)
  <2>1. Enqueued(s) = e /\ PushedOut(s) = {}
    BY <1>3 DEF Enqueued, PushedOut
  <2>2. /\ e \in Seq(Signals) /\ Len(e) = Len(queue) + 1
        /\ \A i \in 1 .. Len(queue) : e[i] = queue[i]
        /\ e[Len(queue) + 1] = s
        /\ DOMAIN e = 1 .. Len(queue) + 1 /\ DOMAIN queue = 1 .. Len(queue)
    BY <1>1
  <2> HIDE DEF e
  <2>3. Len(queue) + 1 \in DOMAIN e /\ \A i \in DOMAIN queue : i \in DOMAIN e
    BY <1>1, <2>2
  <2>4. \A q \in Queued : \E i \in DOMAIN e : e[i] = q
    BY <2>2, <2>3 DEF Queued
  <2> QED
    BY <1>1, <1>3, <2>1, <2>2, <2>3, <2>4
<1>4. CASE s \notin Queued /\ ~(Len(queue) < QueueMax)
  <2> DEFINE t == Tail(queue)
             e == Append(t, s)
  <2>1. Enqueued(s) = e /\ PushedOut(s) = {Head(queue)}
    BY <1>4 DEF Enqueued, PushedOut
  <2>2. Len(queue) = QueueMax /\ queue # <<>>
    BY <1>1, <1>4
  <2>3. /\ t \in Seq(Signals) /\ Len(t) = Len(queue) - 1
        /\ \A i \in 1 .. Len(t) : t[i] = queue[i + 1]
        /\ Head(queue) = queue[1] /\ DOMAIN queue = 1 .. Len(queue)
    BY <1>1, <2>2
  <2>4. Len(t) \in Nat
    BY <2>3
  <2> HIDE DEF t
  <2>5. /\ e \in Seq(Signals) /\ Len(e) = Len(t) + 1
        /\ \A i \in 1 .. Len(t) : e[i] = t[i]
        /\ e[Len(t) + 1] = s /\ DOMAIN e = 1 .. Len(t) + 1
    BY <2>3
  <2> HIDE DEF e
  <2>6. Len(t) + 1 \in DOMAIN e
    BY <2>4, <2>5
  <2>7. ASSUME NEW i \in DOMAIN queue
        PROVE  queue[i] = Head(queue) \/ \E k \in DOMAIN e : e[k] = queue[i]
    <3>1. CASE i = 1
      BY <2>3, <3>1
    <3>2. CASE i # 1
      <4>1. i - 1 \in 1 .. Len(t) /\ i - 1 + 1 = i
        BY <1>1, <2>3, <3>2
      <4>2. e[i - 1] = queue[i] /\ i - 1 \in DOMAIN e
        BY <2>3, <2>4, <2>5, <4>1
      <4> QED
        BY <4>2
    <3> QED
      BY <3>1, <3>2
  <2>8. Head(queue) \in Signals
    BY <1>1, <2>2
  <2> QED
    BY <1>1, <2>1, <2>2, <2>3, <2>5, <2>6, <2>7, <2>8 DEF Queued
<1> QED
  BY <1>2, <1>3, <1>4

\* The hook writes the queue again without what it has seen observed.
LEMMA RemoveFacts ==
    ASSUME LTypes, HookRemove
    PROVE  /\ queue' \in Seq(Signals) /\ Len(queue') <= QueueMax
           /\ \A q \in Queued : q \in hook.done \/ q \in Queued'
<1>1. /\ queue \in Seq(Signals) /\ Len(queue) <= QueueMax /\ Len(queue) \in Nat
      /\ QueueMax \in Nat \ {0} /\ DOMAIN queue = 1 .. Len(queue)
  BY ListenerAssumption DEF LTypes
<1> DEFINE I == {i \in DOMAIN queue : queue[i] \notin Removable}
           n == Cardinality(I)
<1>2. PICK at \in InOrder(I) : queue' = [k \in DOMAIN at |-> queue[at[k]]]
  BY DEF HookRemove
<1>3. IsFiniteSet(I) /\ n \in Nat /\ n <= Len(queue)
  <2>1. IsFiniteSet(1 .. Len(queue)) /\ Cardinality(1 .. Len(queue)) = Len(queue)
    <3> DEFINE L == Len(queue)
    <3>1. L \in Int /\ 1 \in Int /\ L >= 0
      BY <1>1
    <3> HIDE DEF L
    <3>2. IsFiniteSet(1 .. L)
          /\ Cardinality(1 .. L) = (IF 1 > L THEN 0 ELSE L - 1 + 1)
      BY <3>1, FS_Interval
    <3>3. Cardinality(1 .. L) = L
      BY <3>1, <3>2
    <3> QED
      BY <3>2, <3>3 DEF L
  <2>2. I \subseteq 1 .. Len(queue)
    BY <1>1
  <2>3. IsFiniteSet(I) /\ Cardinality(I) <= Cardinality(1 .. Len(queue))
    BY <2>1, <2>2, FS_Subset
  <2>4. Cardinality(I) \in Nat
    BY <2>3, FS_CardinalityType
  <2> QED
    BY <2>1, <2>3, <2>4
<1>4. at \in [1 .. n -> I] /\ \A i \in I : \E k \in DOMAIN at : at[k] = i
  BY <1>2 DEF InOrder
<1>5. I \subseteq DOMAIN queue /\ \A i \in DOMAIN queue : queue[i] \in hook.done \/ i \in I
  BY DEF Removable
<1> HIDE DEF n, I
<1>6. /\ queue' \in [1 .. n -> Signals]
      /\ \A k \in 1 .. n : queue'[k] = queue[at[k]]
  <2>1. \A k \in 1 .. n : queue[at[k]] \in Signals
    BY <1>1, <1>4, <1>5
  <2> QED
    BY <1>2, <1>4, <2>1
<1>7. queue' \in Seq(Signals) /\ Len(queue') = n /\ DOMAIN queue' = 1 .. n
  BY <1>3, <1>6
<1>8. ASSUME NEW i \in DOMAIN queue
      PROVE  queue[i] \in hook.done \/ queue[i] \in Queued'
  <2>1. CASE i \in I
    <3>1. PICK k \in 1 .. n : at[k] = i
      BY <1>4, <2>1
    <3>2. queue'[k] = queue[i] /\ k \in DOMAIN queue'
      BY <1>6, <1>7, <3>1
    <3> QED
      BY <3>2 DEF Queued
  <2> QED
    BY <1>5, <2>1
<1> QED
  BY <1>1, <1>3, <1>7, <1>8 DEF Queued
LEMMA LTypesKept ==
    ASSUME LInv, Inv', [LNext]_lvars
    PROVE  LTypes'
<1>1. Inv /\ LTypes /\ PhaseFits /\ LeaseIsKept
  BY DEF LInv, LeaseSide
<1>2. now \in 0 .. MaxTime /\ journal \in Journals
  BY <1>1, Clock DEF LTypes
<1> DEFINE Kept == LTypes'
<1>3. ASSUME UNCHANGED <<client, seat>>
      PROVE  Kept
  BY <1>1, <1>3 DEF LTypes, client, seat
<1>4. ASSUME ReserveClaim \/ GiveUp \/ AckStale
      PROVE  Kept
  <2>1. journal' \in Journals
    BY <1>4, InactiveTyped DEF ReserveClaim, GiveUp, AckStale
  <2> QED
    BY <1>1, <1>4, <2>1 DEF ReserveClaim, GiveUp, AckStale, LTypes, seat
<1>5. ASSUME Resume \/ Crash
      PROVE  Kept
  BY <1>1, <1>5 DEF Resume, Crash, LTypes, seat
<1>6. ASSUME ClaimAnswered
      PROVE  Kept
  <2>1. claimKept' \in {NotKept, KeptEmpty} \cup KeptLeases
    BY <1>6, ClaimServed DEF ClaimAnswered
  <2>2. claimKept'.kind = "lease" => claimKept' \in KeptLeases
    BY <2>1, KeptKinds
  <2>3. journal' \in Journals
    BY <1>1, <1>6, <2>2, LeasedJournal, InactiveTyped DEF ClaimAnswered
  <2> QED
    BY <1>1, <1>6, <2>1, <2>3 DEF ClaimAnswered, LTypes, seat
<1>7. ASSUME ClaimFails
      PROVE  Kept
  <2>1. claimKept' \in {NotKept, KeptEmpty} \cup KeptLeases
    BY <1>1, <1>7, ClaimServed DEF ClaimFails, LTypes
  <2>2. journal' \in Journals
    BY <1>2, <1>7, JournalUpdates DEF ClaimFails
  <2> QED
    BY <1>1, <1>7, <2>1, <2>2 DEF ClaimFails, LTypes, seat
<1>8. ASSUME QueueSignal
      PROVE  Kept
  <2>1. journal.signal \in Signals
    BY <1>1, <1>8, JournalLease DEF QueueSignal, PhaseFits
  <2>2. /\ Enqueued(journal.signal) \in Seq(Signals)
        /\ Len(Enqueued(journal.signal)) <= QueueMax
        /\ PushedOut(journal.signal) \subseteq Signals
    BY <1>1, <2>1, EnqueueFacts
  <2>3. /\ queue' \in Seq(Signals) /\ Len(queue') <= QueueMax
        /\ dropped' \subseteq Signals
    BY <1>1, <1>8, <2>2 DEF QueueSignal, LTypes
  <2> QED
    BY <1>1, <1>8, <2>3 DEF QueueSignal, LTypes, seat
<1>9. ASSUME WriteEffect
      PROVE  Kept
  <2>1. journal.signal \in Signals
    BY <1>1, <1>9, JournalLease DEF WriteEffect, PhaseFits
  <2> QED
    BY <1>1, <1>9, <2>1 DEF WriteEffect, LTypes, seat
<1>10. ASSUME PrepareAck
       PROVE  Kept
  <2>1. journal' \in Journals
    BY <1>2, <1>10, JournalUpdates DEF PrepareAck
  <2> QED
    BY <1>1, <1>10, <2>1 DEF PrepareAck, LTypes, seat
<1>11. ASSUME AckAnswered
       PROVE  Kept
  <2>1. journal' \in Journals /\ ackKept' \in BOOLEAN
    BY <1>1, <1>11, InactiveTyped DEF AckAnswered, ServeAck, LTypes
  <2> QED
    BY <1>1, <1>11, <2>1 DEF AckAnswered, LTypes, seat
<1>12. ASSUME AckFails
       PROVE  Kept
  <2>1. ackKept' \in BOOLEAN
    BY <1>1, <1>12 DEF AckFails, ServeAck, LTypes
  <2> QED
    BY <1>1, <1>12, <2>1 DEF AckFails, LTypes, seat
<1>13. ASSUME HookPrint \/ HookCommit \/ HookCrash
       PROVE  Kept
  <2>1. Queued \subseteq Signals
    BY <1>1 DEF LTypes, Queued
  <2>2. hook' \in Hooks
    BY <1>1, <1>13, <2>1
    DEF HookPrint, HookCommit, HookCrash, LTypes, Hooks, IdleHook, HookBatch
  <2>3. seen' \subseteq Signals /\ printed' \subseteq Signals
    BY <1>1, <1>13, <2>1 DEF HookPrint, HookCommit, HookCrash, LTypes, Hooks
  <2> QED
    BY <1>1, <1>13, <2>2, <2>3
    DEF HookPrint, HookCommit, HookCrash, LTypes, client
<1>14. ASSUME NEW s \in Signals, HookObserve(s) \/ HookObserveFails(s)
       PROVE  Kept
  <2>1. hook' \in Hooks
    <3>1. /\ hook \in Hooks
          /\ \/ hook' = [hook EXCEPT !.batch = @ \ {s}, !.done = @ \cup {s}]
             \/ hook' = [hook EXCEPT !.batch = @ \ {s}, !.done = @]
             \/ hook' = [hook EXCEPT !.batch = @ \ {s}]
      BY <1>1, <1>14 DEF HookObserve, HookObserveFails, LTypes
    <3> QED
      BY <3>1 DEF Hooks
  <2> QED
    BY <1>1, <1>14, <2>1 DEF HookObserve, HookObserveFails, LTypes, client
<1>15. ASSUME HookRemove
       PROVE  Kept
  <2>1. queue' \in Seq(Signals) /\ Len(queue') <= QueueMax
    BY <1>1, <1>15, RemoveFacts
  <2>2. hook' \in Hooks
    BY <1>15 DEF HookRemove, IdleHook, Hooks
  <2> QED
    BY <1>1, <1>15, <2>1, <2>2 DEF HookRemove, LTypes
<1>16. ASSUME NEW s \in Signals, CheckPrint(s) \/ CheckReport(s)
       PROVE  Kept
  <2>1. /\ check' \in [Signals -> {"unread", "report", "done"}]
        /\ printed' \subseteq Signals
    BY <1>1, <1>16 DEF CheckPrint, CheckReport, LTypes
  <2> QED
    BY <1>1, <1>16, <2>1 DEF CheckPrint, CheckReport, LTypes, client
<1> HIDE DEF Kept
<1>17. Kept
  BY <1>3, <1>4, <1>5, <1>6, <1>7, <1>8, <1>9, <1>10, <1>11, <1>12, <1>13,
     <1>14, <1>15, <1>16
  DEF LNext, lvars, ListenerStep, HookStep, FaultStep, Arrive, TickAll
<1> QED
  BY <1>17 DEF Kept


-----------------------------------------------------------------------------
(* The lease side is kept. *)

LEMMA KeptFields ==
    ASSUME LTypes
    PROVE  /\ claimKept.kind = "lease" <=> claimKept \in KeptLeases
           /\ claimKept \in KeptLeases =>
                /\ claimKept = KeptLease(claimKept.signal, claimKept.lease, claimKept.until)
                /\ claimKept # NotKept
                /\ claimKept.signal \in Signals
                /\ claimKept.lease \in Nat /\ claimKept.until \in Nat
  BY KeptKinds DEF LTypes

\* The row of a live lease is the one the ledger's answer names.
LEMMA LiveRow ==
    ASSUME LTypes, LiveLeaseIsJournalled, NEW s \in Signals, LiveLease(rows[s])
    PROVE  /\ claimKept \in KeptLeases /\ claimKept.signal = s
           /\ claimKept.until = rows[s].until /\ journal.phase # "none"
<1>1. /\ claimKept = KeptLease(s, rows[s].lease, rows[s].until)
      /\ journal.phase # "none"
  BY DEF LiveLeaseIsJournalled
<1>2. claimKept.kind = "lease" /\ claimKept.signal = s
      /\ claimKept.until = rows[s].until
  BY <1>1, KeptLeaseFields
<1> QED
  BY <1>1, <1>2, KeptFields

\* Steps of others: the journal and the ledger's answers are as they were.
LEMMA LeaseOutside ==
    ASSUME Inv, Inv', LTypes, LeaseSide, PhaseFits', now' >= now,
           UNCHANGED <<journal, claimKept, ackKept>>,
           \A s \in Signals : Undisturbed(s)
    PROVE  LeaseSide'
<1>1. now \in Nat /\ now' \in Nat
  BY TimeAssumption DEF Inv, TypeOK
<1>2. journal.tried \in Int
  BY JournalFields
<1>3. LeaseIsKept' /\ LeaseWasTried'
  BY DEF LeaseSide, LeaseIsKept, LeaseWasTried
<1>4. TriedInPast'
  BY <1>1, <1>2 DEF LeaseSide, TriedInPast
<1>5. LeaseOnRow'
  <2> SUFFICES ASSUME claimKept \in KeptLeases, journal.phase # "none",
                      now' < claimKept.until, ~AckServed
               PROVE  /\ LiveLease(rows[claimKept.signal])'
                      /\ rows'[claimKept.signal].lease = claimKept.lease
                      /\ rows'[claimKept.signal].until = claimKept.until
    BY DEF LeaseOnRow, AckServed
  <2>1. claimKept.signal \in Signals /\ claimKept.until \in Nat
    BY KeptFields
  <2>2. now < claimKept.until
    BY <1>1, <2>1
  <2>3. /\ LiveLease(rows[claimKept.signal])
        /\ rows[claimKept.signal].lease = claimKept.lease
        /\ rows[claimKept.signal].until = claimKept.until
    BY <2>2 DEF LeaseSide, LeaseOnRow
  <2>4. rows'[claimKept.signal] = rows[claimKept.signal]
    BY <2>1, <2>3 DEF Undisturbed, LeaseHolds
  <2> QED
    BY <2>3, <2>4, <1>1, <2>1 DEF LiveLease, Unacked
<1>6. AckEnded'
  <2> SUFFICES ASSUME AckServed
               PROVE  rows'[journal.signal].outcome # "none"
    BY DEF AckEnded, AckServed
  <2>1. journal.signal \in Signals
    BY JournalLease DEF LeaseSide, AckServed
  <2> QED
    BY <2>1 DEF LeaseSide, AckEnded, Undisturbed, DecisionHolds
<1>7. LiveLeaseIsJournalled'
  <2> SUFFICES ASSUME NEW s \in Signals, LiveLease(rows[s])'
               PROVE  /\ journal.phase # "none"
                      /\ claimKept = KeptLease(s, rows'[s].lease, rows'[s].until)
    BY DEF LiveLeaseIsJournalled
  <2>1. LiveLease(rows[s]) /\ rows'[s] = rows[s]
    BY DEF Undisturbed, NoNewLease
  <2> QED
    BY <2>1 DEF LeaseSide, LiveLeaseIsJournalled
<1> QED
  BY <1>3, <1>4, <1>5, <1>6, <1>7 DEF LeaseSide

\* Clearing the journal is safe once no lease is live.
LEMMA ClearedJournal ==
    ASSUME Inv, Inv', journal' = Inactive, pc' = "loop",
           \A s \in Signals : ~LiveLease(rows[s])'
    PROVE  LeaseSide'
<1>1. journal'.phase = "none" /\ journal'.tried = -1
  BY DEF Inactive
<1>2. now' \in Nat
  BY TimeAssumption DEF Inv, TypeOK
<1>3. TriedInPast'
  BY <1>1, <1>2 DEF TriedInPast
<1>4. PhaseFits' /\ LeaseIsKept' /\ LeaseWasTried' /\ AckEnded'
  BY <1>1 DEF PhaseFits, LeaseIsKept, LeaseWasTried, AckEnded, AckServed
<1>5. LeaseOnRow'
  BY <1>1 DEF LeaseOnRow
<1>6. LiveLeaseIsJournalled'
  BY DEF LiveLeaseIsJournalled
<1> QED
  BY <1>3, <1>4, <1>5, <1>6 DEF LeaseSide

\* No lease is live where the loop gives its claim up.
LEMMA GivenUpEnded ==
    ASSUME Inv, LTypes, LeaseSide,
           PastHorizon \/ (journal.phase = "ack_pending" /\ now >= journal.until),
           NEW s \in Signals
    PROVE  ~LiveLease(rows[s])
<1> SUFFICES ASSUME LiveLease(rows[s]) PROVE FALSE
  OBVIOUS
<1>1. /\ claimKept \in KeptLeases /\ claimKept.until = rows[s].until
  BY LiveRow DEF LeaseSide
<1>2. rows[s].until > now /\ rows[s].until \in Nat /\ claimKept.until > now
  BY <1>1, RowFacts DEF LiveLease
<1>3. /\ now \in Nat /\ LeaseTime \in Nat /\ Margin \in Nat
      /\ journal.tried \in Int /\ journal.until \in Nat
  BY Clock, JournalFields
<1>4. CASE journal.phase = "claim_pending"
  <2>1. journal.tried >= 0 /\ claimKept.until <= journal.tried + LeaseTime
    BY <1>1, <1>4 DEF LeaseSide, LeaseWasTried
  <2>2. now >= journal.tried + LeaseTime + Margin
    BY <1>3, <1>4, <2>1 DEF PastHorizon, ClaimHorizon
  <2> QED
    BY <1>1, <1>2, <1>3, <2>1, <2>2
<1>5. CASE journal.phase \in {"leased", "ack_pending"}
  <2>1. claimKept.until = journal.until
    BY <1>5, JournalLease DEF LeaseSide
  <2>2. now >= journal.until
    BY <1>3, <1>5 DEF PastHorizon, LeaseHorizon
  <2> QED
    BY <1>1, <1>2, <1>3, <2>1, <2>2
<1> QED
  BY <1>4, <1>5 DEF PastHorizon

\* The ledger's answer, if it is a lease, is on its row after the claim.
LEMMA ClaimOnRow ==
    ASSUME LInv, Inv', pc = "claim",
           ServeClaim \/ UNCHANGED <<vars, claimKept>>,
           claimKept' \in KeptLeases, now' < claimKept'.until
    PROVE  /\ LiveLease(rows[claimKept.signal])'
           /\ rows'[claimKept'.signal].lease = claimKept'.lease
           /\ rows'[claimKept'.signal].until = claimKept'.until
<1>1. CASE claimKept' = claimKept /\ UNCHANGED vars
  <2>1. journal.phase \in {"claim_pending", "leased"}
    BY DEF LInv, LeaseSide, PhaseFits
  <2>2. claimKept \in KeptLeases /\ now < claimKept.until
    BY <1>1 DEF vars
  <2>3. /\ LiveLease(rows[claimKept.signal])
        /\ rows[claimKept.signal].lease = claimKept.lease
        /\ rows[claimKept.signal].until = claimKept.until
    BY <2>1, <2>2 DEF LInv, LeaseSide, LeaseOnRow, AckServed
  <2> QED
    BY <1>1, <2>3 DEF vars, LiveLease, Unacked
<1>2. CASE ~(claimKept' = claimKept /\ UNCHANGED vars)
  BY <1>2, ClaimServed
<1> QED
  BY <1>1, <1>2


LEMMA ClaimAnsweredKeeps ==
    ASSUME LInv, Inv', LTypes', ClaimAnswered
    PROVE  LeaseSide'
<1>1. Inv /\ LTypes /\ pc = "claim" /\ ServeClaim
  BY DEF LInv, ClaimAnswered
<1>2. /\ now' = now
      /\ \A s \in Signals : LiveLease(rows[s])' =>
            claimKept' = KeptLease(s, rows'[s].lease, rows'[s].until)
  BY <1>1, ClaimServed
<1>3. /\ claimKept'.kind = "lease" <=> claimKept' \in KeptLeases
      /\ claimKept' \in KeptLeases =>
            claimKept' = KeptLease(claimKept'.signal, claimKept'.lease, claimKept'.until)
  BY KeptKinds DEF LTypes
<1>4. CASE claimKept'.kind # "lease"
  <2>1. \A s \in Signals : ~LiveLease(rows[s])'
    BY <1>2, <1>4, KeptLeaseFields
  <2>2. journal' = Inactive /\ pc' = "loop"
    BY <1>4 DEF ClaimAnswered
  <2> QED
    BY <1>1, <2>1, <2>2, ClearedJournal
<1>5. CASE claimKept'.kind = "lease"
  <2>1. /\ journal' = [phase |-> "leased", signal |-> claimKept'.signal,
                       lease |-> claimKept'.lease, until |-> claimKept'.until,
                       tried |-> now]
        /\ pc' = "route"
    BY <1>5 DEF ClaimAnswered
  <2>2. /\ journal'.phase = "leased" /\ journal'.signal = claimKept'.signal
        /\ journal'.lease = claimKept'.lease /\ journal'.until = claimKept'.until
        /\ journal'.tried = now
    BY <2>1
  <2>3. PhaseFits' /\ LeaseIsKept' /\ LeaseWasTried' /\ AckEnded'
    BY <1>3, <1>5, <2>1, <2>2
    DEF PhaseFits, LeaseIsKept, LeaseWasTried, AckEnded, AckServed
  <2>4. TriedInPast'
    BY <1>1, <1>2, <2>2, Clock DEF TriedInPast
  <2>5. LeaseOnRow'
    BY <1>1, ClaimOnRow DEF LeaseOnRow
  <2>6. LiveLeaseIsJournalled'
    BY <1>2, <2>2 DEF LiveLeaseIsJournalled
  <2> QED
    BY <2>3, <2>4, <2>5, <2>6 DEF LeaseSide
<1> QED
  BY <1>4, <1>5

LEMMA ClaimFailsKeeps ==
    ASSUME LInv, Inv', LTypes', ClaimFails
    PROVE  LeaseSide'
<1>1. /\ Inv /\ LTypes /\ pc = "claim"
      /\ ServeClaim \/ UNCHANGED <<vars, claimKept>>
      /\ journal.phase \in {"claim_pending", "leased"}
      /\ pc' \in {"claim", "loop"}
  BY DEF LInv, ClaimFails, LeaseSide, PhaseFits
<1>2. now \in 0 .. MaxTime /\ now \in Nat /\ LeaseTime \in Nat
  BY <1>1, Clock
<1>3. /\ journal'.phase = journal.phase /\ journal'.signal = journal.signal
      /\ journal'.lease = journal.lease /\ journal'.until = journal.until
      /\ journal'.tried = now
  <2>1. journal \in Journals /\ journal' = [journal EXCEPT !.tried = now]
    BY <1>1 DEF LTypes, ClaimFails
  <2> QED
    BY <1>2, <2>1, JournalUpdates
<1>4. now' = now
  BY <1>1, ClaimServed DEF vars
<1>5. \A s \in Signals : LiveLease(rows[s])' =>
         claimKept' = KeptLease(s, rows'[s].lease, rows'[s].until)
  <2>1. CASE ServeClaim
    BY <2>1, ClaimServed
  <2>2. CASE UNCHANGED <<vars, claimKept>>
    BY <2>2 DEF vars, LInv, LeaseSide, LiveLeaseIsJournalled, LiveLease, Unacked
  <2> QED
    BY <1>1, <2>1, <2>2
<1>6. PhaseFits' /\ AckEnded' /\ TriedInPast'
  BY <1>1, <1>2, <1>3, <1>4 DEF PhaseFits, AckEnded, AckServed, TriedInPast
<1>7. LeaseIsKept'
  <2> SUFFICES ASSUME journal.phase = "leased"
               PROVE  claimKept' = KeptLease(journal.signal, journal.lease, journal.until)
    BY <1>1, <1>3 DEF LeaseIsKept
  <2>1. claimKept = KeptLease(journal.signal, journal.lease, journal.until)
    BY DEF LInv, LeaseSide, LeaseIsKept
  <2>2. claimKept # NotKept
    BY <2>1, KeptLeaseFields
  <2> QED
    BY <1>1, <2>1, <2>2 DEF ServeClaim
<1>8. LeaseWasTried'
  <2> SUFFICES ASSUME journal.phase = "claim_pending", claimKept' \in KeptLeases
               PROVE  claimKept'.until <= now + LeaseTime
    BY <1>2, <1>3 DEF LeaseWasTried
  <2>1. CASE claimKept' = claimKept
    <3>1. /\ claimKept.until <= journal.tried + LeaseTime /\ journal.tried <= now
      BY <2>1 DEF LInv, LeaseSide, LeaseWasTried, TriedInPast
    <3>2. claimKept.until \in Nat /\ journal.tried \in Int
      BY <1>1, <2>1, KeptFields, JournalFields
    <3> QED
      BY <1>2, <2>1, <3>1, <3>2
  <2>2. CASE claimKept' # claimKept
    <3>1. claimKept'.until = now + LeaseTime
      BY <1>1, <2>2, ClaimServed
    <3> QED
      BY <1>2, <3>1
  <2> QED
    BY <2>1, <2>2
<1>9. LeaseOnRow'
  BY <1>1, ClaimOnRow DEF LeaseOnRow
<1>10. LiveLeaseIsJournalled'
  BY <1>1, <1>3, <1>5 DEF LiveLeaseIsJournalled
<1> QED
  BY <1>6, <1>7, <1>8, <1>9, <1>10 DEF LeaseSide

LEMMA AckKeeps ==
    ASSUME LInv, Inv', pc = "ack", ServeAck, AckAnswered \/ AckFails
    PROVE  LeaseSide'
<1>1. /\ Inv /\ LTypes /\ LeaseSide /\ journal.phase = "ack_pending"
  BY DEF LInv, LeaseSide, PhaseFits
<1>2. /\ journal.signal \in Signals /\ claimKept.signal = journal.signal
      /\ journal.lease \in Nat
  BY <1>1, JournalLease, JournalFields DEF LeaseSide
<1>3. /\ now' = now
      /\ \A s \in Signals : DecisionHolds(s) /\ NoNewLease(s)
      /\ rows'[journal.signal].outcome # "none"
      /\ ackKept'
  <2>1. CASE ackKept /\ UNCHANGED <<vars, ackKept>>
    <3>1. Quiet /\ now' = now /\ rows' = rows
      BY <1>1, <2>1, StillQuiet DEF vars
    <3> QED
      BY <1>1, <2>1, <3>1 DEF Quiet, Undisturbed, LeaseSide, AckEnded, AckServed
  <2>2. CASE /\ Ack(journal.signal, journal.lease, Unbound, "queued")
             /\ ackKept' = TRUE
    BY <1>1, <1>2, <2>2, AckStep
  <2> QED
    BY <2>1, <2>2 DEF ServeAck
<1>4. ASSUME NEW s \in Signals
      PROVE  ~LiveLease(rows[s])'
  <2> SUFFICES ASSUME LiveLease(rows[s])' PROVE FALSE
    OBVIOUS
  <2>1. LiveLease(rows[s])
    BY <1>3 DEF NoNewLease
  <2>2. s = journal.signal
    BY <1>1, <1>2, <2>1, LiveRow DEF LeaseSide
  <2> QED
    BY <1>3, <2>2 DEF LiveLease, Unacked
<1>5. CASE AckAnswered
  BY <1>1, <1>4, <1>5, ClearedJournal DEF AckAnswered
<1>6. CASE AckFails
  <2>1. UNCHANGED <<journal, claimKept>> /\ pc' \in {"ack", "loop"}
    BY <1>6 DEF AckFails
  <2>2. PhaseFits' /\ LeaseIsKept' /\ LeaseWasTried' /\ TriedInPast'
    BY <1>1, <1>3, <2>1
    DEF LeaseSide, PhaseFits, LeaseIsKept, LeaseWasTried, TriedInPast
  <2>3. LeaseOnRow' /\ AckEnded'
    BY <1>1, <1>3, <2>1 DEF LeaseOnRow, AckEnded, AckServed
  <2>4. LiveLeaseIsJournalled'
    BY <1>4 DEF LiveLeaseIsJournalled
  <2> QED
    BY <2>2, <2>3, <2>4 DEF LeaseSide
<1> QED
  BY <1>5, <1>6


\* The steps of the hook, of check, of senders and of the clock.
OtherStep ==
    \/ HookStep \/ HookCrash \/ TickAll
    \/ \E s \in Signals :
          HookObserveFails(s) \/ Arrive(s) \/ CheckPrint(s) \/ CheckReport(s)

LEMMA OthersUndisturb ==
    ASSUME Inv, OtherStep
    PROVE  /\ now' \in Nat /\ now' >= now
           /\ \A s \in Signals : Undisturbed(s)
           /\ UNCHANGED <<pc, journal, claimKept, ackKept>>
<1> DEFINE Kept == /\ now' \in Nat /\ now' >= now
                   /\ \A s \in Signals : Undisturbed(s)
<1>1. now \in Nat
  BY Clock
<1>2. ASSUME UNCHANGED vars
      PROVE  Kept
  BY <1>1, <1>2, StillQuiet DEF Quiet, vars
<1>3. ASSUME NEW s \in Signals,
             ObserveQueued(s, Unbound) \/ ObserveUnclaimed(s, Unbound)
      PROVE  Kept
  BY <1>1, <1>3, ObserveStep
<1>4. ASSUME NEW s \in Signals, Send(s)
      PROVE  Kept
  BY <1>1, <1>4, SendQuiet DEF Quiet
<1>5. ASSUME Tick
      PROVE  Kept
  BY <1>1, <1>5, TickQuiet DEF Quiet
<1> HIDE DEF Kept
<1>6. Kept
  BY <1>2, <1>3, <1>4, <1>5
  DEF OtherStep, HookStep, HookPrint, HookCommit, HookRemove, HookObserve,
      ServeObserve, HookCrash, TickAll, HookObserveFails, Arrive, CheckPrint,
      CheckReport
<1>7. UNCHANGED <<pc, journal, claimKept, ackKept>>
  BY DEF OtherStep, HookStep, HookPrint, HookCommit, HookRemove, HookObserve,
         HookCrash, TickAll, HookObserveFails, Arrive, CheckPrint, CheckReport,
         client
<1> QED
  BY <1>6, <1>7 DEF Kept

LEMMA LeaseSideKept ==
    ASSUME LInv, Inv', LTypes', [LNext]_lvars
    PROVE  LeaseSide'
<1>1. Inv /\ LTypes /\ LeaseSide
  BY DEF LInv
<1>2. now \in Nat
  BY <1>1, Clock
<1> DEFINE Kept == LeaseSide'
<1>3. ASSUME OtherStep
      PROVE  Kept
  <2>1. /\ now' >= now /\ \A s \in Signals : Undisturbed(s)
        /\ UNCHANGED <<pc, journal, claimKept, ackKept>>
    BY <1>1, <1>3, OthersUndisturb
  <2>2. PhaseFits'
    BY <1>1, <2>1 DEF LeaseSide, PhaseFits
  <2> QED
    BY <1>1, <2>1, <2>2, LeaseOutside
<1>4. ASSUME \/ Resume \/ QueueSignal \/ WriteEffect \/ Crash
             \/ AckFails /\ UNCHANGED <<vars, ackKept>>
             \/ UNCHANGED lvars
      PROVE  Kept
  <2>1. UNCHANGED vars /\ UNCHANGED <<journal, claimKept, ackKept>>
    BY <1>4 DEF Resume, QueueSignal, WriteEffect, Crash, AckFails, lvars, client
  <2>2. PhaseFits'
    <3>1. PhaseFits /\ UNCHANGED journal
      BY <1>1, <2>1 DEF LeaseSide
    <3>2. CASE Resume
      BY <3>1, <3>2 DEF Resume, PhaseFits
    <3>3. CASE QueueSignal \/ WriteEffect \/ Crash \/ AckFails \/ UNCHANGED lvars
      BY <3>1, <3>3
      DEF QueueSignal, WriteEffect, Crash, AckFails, PhaseFits, lvars, client
    <3> QED
      BY <1>4, <3>2, <3>3
  <2>3. Quiet /\ now' = now
    BY <1>1, <2>1, StillQuiet DEF vars
  <2> QED
    BY <1>1, <1>2, <2>1, <2>2, <2>3, LeaseOutside DEF Quiet
<1>5. ASSUME ReserveClaim
      PROVE  Kept
  <2>1. /\ journal'.phase = "claim_pending" /\ journal'.tried = -1
        /\ pc' = "claim" /\ claimKept' = NotKept /\ UNCHANGED vars
    BY <1>5 DEF ReserveClaim, Inactive
  <2>2. claimKept' \notin KeptLeases
    BY <2>1, KeptKinds
  <2>3. \A s \in Signals : ~LiveLease(rows[s])'
    <3>1. \A s \in Signals : ~LiveLease(rows[s])
      BY <1>1, <1>5 DEF ReserveClaim, LeaseSide, LiveLeaseIsJournalled
    <3> QED
      BY <2>1, <3>1 DEF vars, LiveLease, Unacked
  <2>4. PhaseFits' /\ LeaseIsKept' /\ LeaseWasTried' /\ AckEnded' /\ LeaseOnRow'
    BY <2>1, <2>2
    DEF PhaseFits, LeaseIsKept, LeaseWasTried, AckEnded, AckServed, LeaseOnRow
  <2>5. TriedInPast'
    BY <1>2, <2>1 DEF TriedInPast, vars
  <2>6. LiveLeaseIsJournalled'
    BY <2>3 DEF LiveLeaseIsJournalled
  <2> QED
    BY <2>4, <2>5, <2>6 DEF LeaseSide
<1>6. ASSUME GiveUp \/ AckStale
      PROVE  Kept
  <2>1. /\ UNCHANGED vars /\ journal' = Inactive /\ pc' = "loop"
        /\ PastHorizon \/ (journal.phase = "ack_pending" /\ now >= journal.until)
    BY <1>1, <1>6 DEF GiveUp, AckStale, LeaseSide, PhaseFits
  <2>2. \A s \in Signals : ~LiveLease(rows[s])
    BY <1>1, <2>1, GivenUpEnded
  <2>3. \A s \in Signals : ~LiveLease(rows[s])'
    BY <2>1, <2>2 DEF vars, LiveLease, Unacked
  <2> QED
    BY <1>1, <2>1, <2>3, ClearedJournal
<1>7. ASSUME PrepareAck
      PROVE  Kept
  <2>1. /\ journal'.phase = "ack_pending" /\ journal'.signal = journal.signal
        /\ journal'.lease = journal.lease /\ journal'.until = journal.until
        /\ journal'.tried = journal.tried
    <3>1. journal \in Journals /\ journal' = [journal EXCEPT !.phase = "ack_pending"]
      BY <1>1, <1>7 DEF LTypes, PrepareAck
    <3> QED
      BY <3>1 DEF Journals
  <2>2. /\ journal.phase = "leased" /\ pc' = "ack" /\ ackKept' = FALSE
        /\ UNCHANGED vars /\ claimKept' = claimKept
    BY <1>1, <1>7 DEF PrepareAck, LeaseSide, PhaseFits
  <2>3. PhaseFits' /\ LeaseIsKept' /\ LeaseWasTried' /\ AckEnded' /\ TriedInPast'
    BY <1>1, <2>1, <2>2
    DEF LeaseSide, PhaseFits, LeaseIsKept, LeaseWasTried, AckEnded, AckServed,
        TriedInPast, vars
  <2>4. LeaseOnRow'
    BY <1>1, <2>1, <2>2
    DEF LeaseSide, LeaseOnRow, AckServed, vars, LiveLease, Unacked
  <2>5. LiveLeaseIsJournalled'
    BY <1>1, <2>1, <2>2
    DEF LeaseSide, LiveLeaseIsJournalled, vars, LiveLease, Unacked
  <2> QED
    BY <2>3, <2>4, <2>5 DEF LeaseSide
<1>8. ASSUME ClaimAnswered \/ ClaimFails
      PROVE  Kept
  BY <1>8, ClaimAnsweredKeeps, ClaimFailsKeeps
<1>9. ASSUME AckAnswered \/ (AckFails /\ ServeAck)
      PROVE  Kept
  <2>1. pc = "ack" /\ ServeAck
    BY <1>9 DEF AckAnswered, AckFails
  <2> QED
    BY <1>9, <2>1, AckKeeps
<1>10. AckFails => ServeAck \/ UNCHANGED <<vars, ackKept>>
  BY DEF AckFails
<1> HIDE DEF Kept
<1>11. Kept
  BY <1>3, <1>4, <1>5, <1>6, <1>7, <1>8, <1>9, <1>10
  DEF LNext, ListenerStep, FaultStep, OtherStep
<1> QED
  BY <1>11 DEF Kept


-----------------------------------------------------------------------------
(* The queue side is kept. *)

LEMMA ObservedStays ==
    ASSUME \A s \in Signals : DecisionHolds(s)
    PROVE  Observed \subseteq Observed'
  BY DEF Observed, DecisionHolds

\* Entries leave the queue file only observed, receipts only end.
LEMMA QueueOutside ==
    ASSUME LInv, UNCHANGED <<pc, journal, effects>>,
           \A s \in Signals : DecisionHolds(s) /\ NoNewReceipt(s),
           \A q \in Queued \cup dropped : q \in Queued' \cup dropped' \cup Observed
    PROVE  EffectsAreKept' /\ QueuedIsKept'
<1>1. EffectsAreKept /\ QueuedIsKept /\ Observed \subseteq Observed'
  BY ObservedStays DEF LInv, QueueSide
<1>2. EffectsAreKept'
  BY <1>1 DEF EffectsAreKept
<1>3. QueuedIsKept'
  <2> SUFFICES ASSUME NEW s \in Signals, rows'[s].outcome = "queued"
               PROVE  s \in Queued' \cup dropped'
    BY DEF QueuedIsKept
  <2>1. rows[s].outcome = "queued"
    BY DEF NoNewReceipt
  <2>2. s \in Queued \cup dropped
    BY <1>1, <2>1 DEF QueuedIsKept
  <2>3. s \notin Observed
    BY <2>1 DEF Observed
  <2> QED
    BY <2>2, <2>3
<1> QED
  BY <1>2, <1>3

\* Nothing is observed and the session is shown nothing.
LEMMA SessionOutside ==
    ASSUME LInv, UNCHANGED seat,
           \A s \in Signals : DecisionHolds(s) /\ NoNewSight(s)
    PROVE  ReportsArePrinted' /\ ObservedWasPrinted'
<1>1. ReportsArePrinted /\ ObservedWasPrinted /\ Observed \subseteq Observed'
  BY ObservedStays DEF LInv, QueueSide
<1> QED
  BY <1>1 DEF ReportsArePrinted, ObservedWasPrinted, NoNewSight, seat

LEMMA OthersKeepQueue ==
    ASSUME LInv, OtherStep
    PROVE  EffectsAreKept' /\ QueuedIsKept'
<1>1. Inv /\ LTypes /\ ReportsArePrinted
  BY DEF LInv, QueueSide
<1>2. /\ UNCHANGED <<pc, journal>>
      /\ \A s \in Signals : DecisionHolds(s) /\ NoNewReceipt(s)
  BY <1>1, OthersUndisturb DEF Undisturbed
<1>3. UNCHANGED <<effects, dropped>>
  BY DEF OtherStep, HookStep, HookPrint, HookCommit, HookRemove, HookObserve,
         HookCrash, TickAll, HookObserveFails, Arrive, CheckPrint, CheckReport,
         client
<1>4. \A q \in Queued : q \in Queued' \cup Observed
  <2>1. CASE HookRemove
    BY <1>1, <2>1, RemoveFacts DEF ReportsArePrinted
  <2>2. CASE ~HookRemove
    <3>1. queue' = queue
      BY <2>2 DEF OtherStep, HookStep, HookPrint, HookCommit, HookObserve,
             HookCrash, TickAll, HookObserveFails, Arrive, CheckPrint,
             CheckReport, client
    <3> QED
      BY <3>1 DEF Queued
  <2> QED
    BY <2>1, <2>2
<1> QED
  BY <1>2, <1>3, <1>4, QueueOutside

\* Only what was printed is reported.
LEMMA OthersKeepSession ==
    ASSUME LInv, OtherStep
    PROVE  ReportsArePrinted' /\ ObservedWasPrinted'
<1>1. Inv /\ LTypes /\ ReportsArePrinted /\ ObservedWasPrinted
  BY DEF LInv, QueueSide
<1>2. hook \in Hooks /\ check \in [Signals -> {"unread", "report", "done"}]
      /\ Queued \subseteq Signals
  BY <1>1 DEF LTypes, Queued
<1> DEFINE Kept == ReportsArePrinted' /\ ObservedWasPrinted'
<1>3. ASSUME TickAll \/ \E s \in Signals : Arrive(s)
      PROVE  Kept
  <2>1. Quiet /\ UNCHANGED seat
    BY <1>1, <1>3, TickQuiet, SendQuiet DEF TickAll, Arrive
  <2> QED
    BY <2>1, SessionOutside DEF Quiet, Undisturbed
<1>4. ASSUME HookPrint
      PROVE  Kept
  <2>1. /\ printed' = printed \cup (Queued \ seen) /\ rows' = rows
        /\ hook' = [pc |-> "printed", batch |-> Queued, done |-> {}]
        /\ UNCHANGED <<seen, check>>
    BY <1>4 DEF HookPrint, HookBatch, vars
  <2>2. hook'.batch = Queued /\ hook'.done = {}
    BY <2>1
  <2> QED
    BY <1>1, <2>1, <2>2 DEF ReportsArePrinted, ObservedWasPrinted
<1>5. ASSUME HookCommit
      PROVE  Kept
  <2>1. hook'.batch = hook.batch /\ hook'.done = hook.done
    BY <1>2, <1>5 DEF HookCommit, Hooks
  <2> QED
    BY <1>1, <1>5, <2>1
    DEF HookCommit, ReportsArePrinted, ObservedWasPrinted, Observed, vars
<1>6. ASSUME HookRemove \/ HookCrash
      PROVE  Kept
  <2>1. hook'.batch = {} /\ hook'.done = {}
    BY <1>6 DEF HookRemove, HookCrash, IdleHook
  <2> QED
    BY <1>1, <1>6, <2>1
    DEF HookRemove, HookCrash, ReportsArePrinted, ObservedWasPrinted, vars
<1>7. ASSUME NEW s \in Signals, CheckPrint(s)
      PROVE  Kept
  BY <1>1, <1>2, <1>7
  DEF CheckPrint, ReportsArePrinted, ObservedWasPrinted, Observed, vars
<1>8. ASSUME NEW s \in Signals, s \in printed, UNCHANGED printed,
             \/ ObserveQueued(s, Unbound) \/ ObserveUnclaimed(s, Unbound)
             \/ UNCHANGED vars
      PROVE  ObservedWasPrinted' /\ Observed \subseteq Observed'
  <2>1. /\ \A q \in Signals : DecisionHolds(q)
        /\ \A q \in Signals \ {s} : NoNewSight(q)
    BY <1>1, <1>8, ObserveStep, StillQuiet DEF Quiet, Undisturbed
  <2>2. Observed \subseteq Observed'
    BY <2>1, ObservedStays
  <2> QED
    BY <1>1, <1>8, <2>1, <2>2 DEF ObservedWasPrinted, NoNewSight
<1>9. ASSUME NEW s \in Signals, HookObserve(s)
      PROVE  Kept
  <2>1. /\ s \in printed /\ UNCHANGED <<printed, seen, check>>
        /\ ServeObserve(s)
        /\ hook' = [hook EXCEPT !.batch = @ \ {s},
                                !.done = IF rows[s].outcome \in {"queued", "observed"}
                                         THEN @ \cup {s} ELSE @]
    BY <1>1, <1>9 DEF HookObserve, Reported, ReportsArePrinted
  <2>2. ObservedWasPrinted' /\ Observed \subseteq Observed'
    BY <1>8, <2>1 DEF ServeObserve
  <2>3. /\ hook'.batch \subseteq hook.batch
        /\ \/ hook'.done = hook.done
           \/ /\ rows[s].outcome \in {"queued", "observed"}
              /\ hook'.done = hook.done \cup {s}
    BY <1>2, <2>1 DEF Hooks
  <2>4. rows[s].outcome \in {"queued", "observed"} => s \in Observed'
    <3>1. CASE rows[s].outcome = "queued"
      <4>1. ObserveQueued(s, Unbound)
        BY <2>1, <3>1 DEF ServeObserve
      <4> QED
        BY <1>1, <4>1, ObserveStep DEF Observed
    <3>2. CASE rows[s].outcome = "observed"
      BY <2>2, <3>2 DEF Observed
    <3> QED
      BY <3>1, <3>2
  <2> QED
    BY <1>1, <2>1, <2>2, <2>3, <2>4 DEF ReportsArePrinted
<1>10. ASSUME NEW s \in Signals, HookObserveFails(s)
       PROVE  Kept
  <2>1. /\ s \in printed /\ UNCHANGED <<printed, seen, check>>
        /\ ServeObserve(s) \/ UNCHANGED vars
        /\ hook' = [hook EXCEPT !.batch = @ \ {s}]
    BY <1>1, <1>10 DEF HookObserveFails, ReportsArePrinted
  <2>2. ObservedWasPrinted' /\ Observed \subseteq Observed'
    BY <1>8, <2>1 DEF ServeObserve
  <2>3. hook'.batch \subseteq hook.batch /\ hook'.done = hook.done
    BY <1>2, <2>1 DEF Hooks
  <2> QED
    BY <1>1, <2>1, <2>2, <2>3 DEF ReportsArePrinted
<1>11. ASSUME NEW s \in Signals, CheckReport(s)
       PROVE  Kept
  <2>1. s \in printed /\ UNCHANGED <<printed, seen, hook>>
    BY <1>1, <1>11 DEF CheckReport, ReportsArePrinted
  <2>2. ObservedWasPrinted' /\ Observed \subseteq Observed'
    BY <1>8, <1>11, <2>1 DEF CheckReport
  <2>3. \A q \in Signals : check'[q] # "unread" => q \in printed
    BY <1>1, <1>2, <1>11, <2>1 DEF CheckReport, ReportsArePrinted
  <2> QED
    BY <1>1, <2>1, <2>2, <2>3 DEF ReportsArePrinted
<1> HIDE DEF Kept
<1>12. Kept
  BY <1>3, <1>4, <1>5, <1>6, <1>7, <1>9, <1>10, <1>11
  DEF OtherStep, HookStep
<1> QED
  BY <1>12 DEF Kept


\* The request of a listener step: nothing, a claim or an ack.
LEMMA ListenerRequest ==
    ASSUME LInv, Inv', [LNext]_lvars, ~OtherStep
    PROVE  /\ UNCHANGED seat
           /\ \A s \in Signals : DecisionHolds(s) /\ NoNewSight(s)
           /\ \A s \in Signals :
                 NoNewReceipt(s) \/ (s = journal.signal /\ s \in Queued \cup dropped)
<1>1. Inv /\ EffectsAreKept /\ LTypes /\ LeaseSide
  BY DEF LInv, QueueSide
<1> DEFINE Kept == /\ \A s \in Signals : DecisionHolds(s) /\ NoNewSight(s)
                   /\ \A s \in Signals : \/ NoNewReceipt(s)
                                         \/ s = journal.signal /\ s \in Queued \cup dropped
<1>2. ASSUME UNCHANGED vars
      PROVE  Kept
  BY <1>1, <1>2, StillQuiet DEF Quiet, Undisturbed
<1>3. ASSUME ServeClaim
      PROVE  Kept
  BY <1>3, ClaimServed
<1>4. ASSUME pc = "ack", ServeAck
      PROVE  Kept
  <2>1. CASE UNCHANGED vars
    BY <1>2, <2>1
  <2>2. CASE Ack(journal.signal, journal.lease, Unbound, "queued")
    <3>1. journal.signal \in Signals /\ journal.lease \in Nat
      BY <1>1, <1>4, JournalLease, JournalFields DEF LeaseSide, PhaseFits
    <3>2. /\ rows[journal.signal].outcome = "none"
          /\ \A s \in Signals : DecisionHolds(s) /\ NoNewSight(s)
          /\ \A s \in Signals \ {journal.signal} : NoNewReceipt(s)
      BY <1>1, <2>2, <3>1, AckStep DEF Undisturbed
    <3>3. journal.signal \in Queued \cup dropped
      BY <1>1, <1>4, <3>2 DEF EffectsAreKept, Observed
    <3> QED
      BY <3>2, <3>3
  <2> QED
    BY <1>4, <2>1, <2>2 DEF ServeAck
<1> HIDE DEF Kept
<1>5. Kept
  BY <1>2, <1>3, <1>4
  DEF LNext, OtherStep, ListenerStep, FaultStep, ReserveClaim, Resume, GiveUp,
      ClaimAnswered, QueueSignal, WriteEffect, PrepareAck, AckAnswered, AckStale,
      ClaimFails, AckFails, Crash, lvars
<1>6. UNCHANGED seat
  BY DEF LNext, OtherStep, ListenerStep, FaultStep, ReserveClaim, Resume, GiveUp,
         ClaimAnswered, QueueSignal, WriteEffect, PrepareAck, AckAnswered,
         AckStale, ClaimFails, AckFails, Crash, lvars
<1> QED
  BY <1>5, <1>6 DEF Kept

LEMMA EffectsStayKept ==
    ASSUME LInv, Inv', [LNext]_lvars, ~OtherStep
    PROVE  EffectsAreKept' /\ Queued \cup dropped \subseteq Queued' \cup dropped'
<1>1. Inv /\ EffectsAreKept /\ LTypes /\ PhaseFits /\ LeaseIsKept
  BY DEF LInv, QueueSide, LeaseSide
<1>2. Observed \subseteq Observed'
  BY ListenerRequest, ObservedStays
<1> DEFINE Kept == EffectsAreKept' /\ Queued \cup dropped \subseteq Queued' \cup dropped'
<1>3. ASSUME UNCHANGED <<effects, queue, dropped>>,
             /\ pc' = "effect" => pc = "effect" /\ journal' = journal
             /\ pc' \in {"prepare", "ack"} \/ journal'.phase = "ack_pending" =>
                   journal'.signal \in effects
      PROVE  Kept
  <2>1. Queued' = Queued
    BY <1>3 DEF Queued
  <2> QED
    BY <1>1, <1>2, <1>3, <2>1 DEF EffectsAreKept
<1>4. ASSUME ReserveClaim \/ GiveUp \/ AckStale \/ AckAnswered
      PROVE  Kept
  <2>1. /\ journal'.phase # "ack_pending" /\ pc' \in {"claim", "loop"}
        /\ UNCHANGED <<effects, queue, dropped>>
    BY <1>4, InactiveTyped DEF ReserveClaim, GiveUp, AckStale, AckAnswered, PastHorizon
  <2> QED
    BY <1>3, <2>1
<1>5. ASSUME Resume \/ Crash \/ AckFails \/ UNCHANGED lvars
      PROVE  Kept
  <2>1. UNCHANGED <<effects, queue, dropped, journal>>
    BY <1>5 DEF Resume, Crash, AckFails, lvars, client
  <2>2. /\ pc' = "effect" => pc = "effect"
        /\ pc' \in {"prepare", "ack"} => journal.signal \in effects
    BY <1>1, <1>5
    DEF Resume, Crash, AckFails, lvars, client, Recovered, EffectsAreKept
  <2>3. journal.phase = "ack_pending" => journal.signal \in effects
    BY <1>1 DEF EffectsAreKept
  <2> QED
    BY <1>3, <2>1, <2>2, <2>3
<1>6. ASSUME ClaimAnswered
      PROVE  Kept
  <2>1. /\ journal'.phase # "ack_pending" /\ pc' \in {"route", "loop"}
        /\ UNCHANGED <<effects, queue, dropped>>
    BY <1>6, InactiveTyped DEF ClaimAnswered
  <2> QED
    BY <1>3, <2>1
<1>7. ASSUME ClaimFails
      PROVE  Kept
  <2>1. journal'.phase = journal.phase
    BY <1>1, <1>7 DEF ClaimFails, LTypes, Journals
  <2>2. /\ journal.phase # "ack_pending" /\ pc' \in {"claim", "loop"}
        /\ UNCHANGED <<effects, queue, dropped>>
    BY <1>1, <1>7 DEF ClaimFails, PhaseFits
  <2> QED
    BY <1>3, <2>1, <2>2
<1>8. ASSUME PrepareAck
      PROVE  Kept
  <2>1. journal'.signal = journal.signal
    BY <1>1, <1>8, JournalUpdates DEF PrepareAck, LTypes
  <2>2. /\ journal.signal \in effects /\ pc' = "ack"
        /\ UNCHANGED <<effects, queue, dropped>>
    BY <1>1, <1>8 DEF PrepareAck, EffectsAreKept
  <2> QED
    BY <1>3, <2>1, <2>2
<1>9. ASSUME WriteEffect
      PROVE  Kept
  <2>1. /\ journal.signal \in Queued \cup dropped \cup Observed
        /\ effects' = effects \cup {journal.signal} /\ pc' = "prepare"
        /\ UNCHANGED <<queue, dropped, journal>>
    BY <1>1, <1>9 DEF WriteEffect, EffectsAreKept
  <2>2. Queued' = Queued
    BY <2>1 DEF Queued
  <2> QED
    BY <1>1, <1>2, <2>1, <2>2 DEF EffectsAreKept
<1>10. ASSUME QueueSignal
       PROVE  Kept
  <2> DEFINE s == journal.signal
  <2>1. s \in Signals /\ journal.phase = "leased"
    BY <1>1, <1>10, JournalLease DEF QueueSignal, PhaseFits
  <2>2. /\ queue' = Enqueued(s) /\ dropped' = (dropped \ {s}) \cup PushedOut(s)
        /\ pc' = "effect" /\ UNCHANGED <<journal, effects>>
    BY <1>10 DEF QueueSignal
  <2>3. /\ \E i \in DOMAIN queue' : queue'[i] = s
        /\ \A q \in Queued : q \in PushedOut(s)
              \/ \E i \in DOMAIN queue' : queue'[i] = q
    BY <1>1, <2>1, <2>2, EnqueueFacts
  <2>4. s \in Queued' /\ Queued \subseteq Queued' \cup PushedOut(s)
    BY <2>3 DEF Queued
  <2>5. Queued \cup dropped \subseteq Queued' \cup dropped'
    BY <2>2, <2>4
  <2> QED
    BY <1>1, <1>2, <2>1, <2>2, <2>4, <2>5 DEF EffectsAreKept
<1> HIDE DEF Kept
<1>11. Kept
  BY <1>4, <1>5, <1>6, <1>7, <1>8, <1>9, <1>10
  DEF LNext, OtherStep, ListenerStep, FaultStep
<1> QED
  BY <1>11 DEF Kept

LEMMA QueueSideKept ==
    ASSUME LInv, Inv', [LNext]_lvars
    PROVE  QueueSide'
<1>1. CASE OtherStep
  BY <1>1, OthersKeepQueue, OthersKeepSession DEF QueueSide
<1>2. CASE ~OtherStep
  <2>1. /\ UNCHANGED seat
        /\ \A s \in Signals : DecisionHolds(s) /\ NoNewSight(s)
        /\ \A s \in Signals : NoNewReceipt(s) \/ s \in Queued \cup dropped
    BY <1>2, ListenerRequest
  <2>2. ReportsArePrinted' /\ ObservedWasPrinted'
    BY <2>1, SessionOutside
  <2>3. EffectsAreKept' /\ Queued \cup dropped \subseteq Queued' \cup dropped'
    BY <1>2, EffectsStayKept
  <2>4. QueuedIsKept'
    <3>1. QueuedIsKept
      BY DEF LInv, QueueSide
    <3> QED
      BY <2>1, <2>3, <3>1 DEF QueuedIsKept, NoNewReceipt
  <2> QED
    BY <2>2, <2>3, <2>4 DEF QueueSide
<1> QED
  BY <1>1, <1>2


-----------------------------------------------------------------------------
(* The theorems. *)

LEMMA LInitInv ==
    ASSUME LInit
    PROVE  LInv
<1>1. Inv /\ ~managed
  BY InitInv DEF LInit, Init
<1>2. LTypes
  <2>1. journal \in Journals
    BY InactiveTyped DEF LInit
  <2>2. hook \in Hooks
    BY DEF LInit, IdleHook, Hooks
  <2>3. queue \in Seq(Signals) /\ Len(queue) <= QueueMax
    BY ListenerAssumption DEF LInit
  <2> QED
    BY <2>1, <2>2, <2>3 DEF LInit, LTypes
<1>3. \A s \in Signals : rows[s].outcome = "none" /\ ~LiveLease(rows[s])
  BY DEF LInit, Init, NoRow, LiveLease, Unacked
<1>4. LeaseSide
  <2>1. journal.phase = "none" /\ journal.tried = -1 /\ pc = "loop"
    BY DEF LInit, Inactive
  <2>2. TriedInPast
    BY <1>1, <2>1, Clock DEF TriedInPast
  <2> QED
    BY <1>3, <2>1, <2>2
    DEF LeaseSide, PhaseFits, LeaseIsKept, LeaseWasTried, LeaseOnRow, AckEnded,
        AckServed, LiveLeaseIsJournalled
<1>5. QueueSide
  <2>1. /\ journal.phase = "none" /\ pc = "loop" /\ effects = {} /\ seen = {}
        /\ hook.batch = {} /\ hook.done = {}
        /\ \A s \in Signals : check[s] = "unread"
    BY DEF LInit, Inactive, IdleHook
  <2> QED
    BY <1>3, <2>1
    DEF QueueSide, EffectsAreKept, ReportsArePrinted, QueuedIsKept,
        ObservedWasPrinted
<1> QED
  BY <1>1, <1>2, <1>4, <1>5 DEF LInv

LEMMA LNextInv ==
    ASSUME LInv, [LNext]_lvars
    PROVE  LInv'
<1>1. Inv' /\ ~managed'
  BY ServerKept
<1>2. LTypes'
  BY <1>1, LTypesKept
<1>3. LeaseSide'
  BY <1>1, <1>2, LeaseSideKept
<1>4. QueueSide'
  BY <1>1, QueueSideKept
<1> QED
  BY <1>1, <1>2, <1>3, <1>4 DEF LInv

\* The inductive invariant of listener, hook and service together.
THEOREM ListenerInvariance == LSpec => []LInv
<1>1. LInit => LInv
  BY LInitInv
<1>2. LInv /\ [LNext]_lvars => LInv'
  BY LNextInv
<1> QED
  BY <1>1, <1>2, PTL DEF LSpec

\* The files and variables of listener, hook and check keep their types, and
\* the queue file its bound.
THEOREM ListenerTypes == LSpec => []LTypeOK
<1>1. LInv => LTypeOK
  <2> SUFFICES ASSUME LInv PROVE LTypeOK
    OBVIOUS
  <2>1. TypeOK /\ LTypes
    BY DEF LInv, Inv
  <2>2. /\ journal.phase \in {"none", "claim_pending", "leased", "ack_pending"}
        /\ journal.signal \in Signals \cup {"none"}
        /\ journal.tried \in -1 .. MaxTime
    BY <2>1 DEF LTypes, Journals
  <2>3. claimKept.kind \in {"none", "empty", "lease"}
    BY <2>1 DEF LTypes, NotKept, KeptEmpty, KeptLeases
  <2>4. effects \cup Queued \cup dropped \cup seen \cup printed \subseteq Signals
    BY <2>1 DEF LTypes, Queued
  <2> QED
    BY <2>1, <2>2, <2>3, <2>4 DEF LTypes, LTypeOK
<1> QED
  BY <1>1, ListenerInvariance, PTL

\* What listener, hook and check do to the service are transactions it offers
\* to anybody: the composition implements the delivery queue's specification,
\* and every property proved of the queue holds under it.
THEOREM ListenerUsesService == LSpec => Spec
<1>1. LInit => Init
  BY DEF LInit
<1>2. LInv /\ [LNext]_lvars => [Next]_vars
  BY ServiceStep
<1> QED
  BY <1>1, <1>2, ListenerInvariance, PTL DEF LSpec, Spec

\* A receipt the server calls queued is in pending-for-main.json or was pushed
\* out of it and counted, wherever listener or hook stopped in between.
THEOREM QueuedStaysKept == LSpec => []QueuedIsKept
<1>1. LInv => QueuedIsKept
  BY DEF LInv, QueueSide
<1> QED
  BY <1>1, ListenerInvariance, PTL

\* What the server calls observed has been printed to the session.
THEOREM ObservedIsPrinted == LSpec => []ObservedWasPrinted
<1>1. LInv => ObservedWasPrinted
  BY DEF LInv, QueueSide
<1> QED
  BY <1>1, ListenerInvariance, PTL

\* A live lease is the answer to the claim the journal still has, so no crash,
\* lost answer or given-up claim leaves a lease nobody knows of.
THEOREM LeasesAreJournalled == LSpec => []LiveLeaseIsJournalled
<1>1. LInv => LiveLeaseIsJournalled
  BY DEF LInv, LeaseSide
<1> QED
  BY <1>1, ListenerInvariance, PTL

\* The claim's command id is always answered with the stored lease and an ack
\* under a live lease is never refused: the runtime never stops on either.
THEOREM RuntimeNeverStops == LSpec => []RuntimeKeepsGoing
<1>1. LInv => RuntimeKeepsGoing
  <2> SUFFICES ASSUME LInv PROVE RuntimeKeepsGoing
    OBVIOUS
  <2>1. LTypes /\ LeaseIsKept /\ LeaseOnRow /\ ~managed
    BY DEF LInv, LeaseSide
  <2>2. ASSUME journal.phase = "ack_pending", now < journal.until, ~ackKept
        PROVE  AckAccepted
    <3>1. /\ claimKept \in KeptLeases /\ claimKept.signal = journal.signal
          /\ claimKept.lease = journal.lease /\ claimKept.until = journal.until
      BY <2>1, <2>2, JournalLease
    <3>2. /\ LiveLease(rows[journal.signal])
          /\ rows[journal.signal].lease = journal.lease
      BY <2>1, <2>2, <3>1 DEF LeaseOnRow, AckServed
    <3> QED
      BY <2>1, <3>2 DEF AckAccepted, AckMatches
  <2> QED
    BY <2>1, <2>2 DEF RuntimeKeepsGoing, LeaseIsKept
<1> QED
  BY <1>1, ListenerInvariance, PTL

=============================================================================
