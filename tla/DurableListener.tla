--------------------------- MODULE DurableListener ---------------------------
(***************************************************************************)
(* One listener, its seat's hook and the delivery service together: the    *)
(* runtime's claim loop with its durable journal, the effect store and the *)
(* pending-for-main queue, the hook that prints the queue to the session   *)
(* and reports it observed, and the server's transactions of               *)
(* SignalDelivery for an unmanaged principal.                              *)
(*                                                                         *)
(* Every durable write and every request is a step; between any two the    *)
(* listener or the hook may crash and start again from its files.  A       *)
(* request may fail before the server runs it or after (the response is    *)
(* lost).  Claim and ack carry command ids the journal keeps until it is   *)
(* cleared, so a retry is answered from the idempotency ledger; ids are    *)
(* never reused, so only the answers to the current ids are kept here.     *)
(* Client and server clocks agree; request delay is covered by Margin.     *)
(***************************************************************************)
EXTENDS SignalDelivery, Sequences

CONSTANTS
    QueueMax,   \* LISTENER_MAIN_QUEUE_MAX
    Margin,     \* LISTENER_DELIVERY_SAFETY_MARGIN_MS
    MaxFaults   \* bound on crashes and failed requests

ASSUME ListenerAssumption ==
    QueueMax \in Nat \ {0} /\ Margin \in Nat /\ MaxFaults \in Nat

\* The listener claims one row at a time and acknowledges what it routed to
\* main as queued.
ASSUME UseAssumption ==
    IsFiniteSet(Signals) /\ 1 \in ClaimLimits /\ "queued" \in AckOutcomes

VARIABLES
    pc,        \* where the runtime loop is
    journal,   \* the active claim of delivery-journal.json
    claimKept, \* the ledger's answer to the active claim's command id
    ackKept,   \* whether the ledger answers the active ack's command id
    effects,   \* signals with a routed_main effect record
    queue,     \* pending-for-main.json
    dropped,   \* signals the full queue pushed out
    hook,      \* the running hook
    seen,      \* the hook's high-water of surfaced ids
    printed,   \* signals the session has been shown
    check,     \* cswarm check: unread, printed and to be reported, or done
    faults     \* failures so far

client == <<pc, journal, claimKept, ackKept, effects, queue, dropped>>
seat == <<hook, seen, printed, check>>
lvars == <<vars, client, seat, faults>>

Inactive == [phase |-> "none", signal |-> "none", lease |-> 0, until |-> 0, tried |-> -1]
NotKept == [kind |-> "none"]
KeptEmpty == [kind |-> "empty"]
KeptLease(s, id, until) == [kind |-> "lease", signal |-> s, lease |-> id, until |-> until]
IdleHook == [pc |-> "idle", batch |-> {}, done |-> {}]

Queued == {queue[i] : i \in DOMAIN queue}

LInit ==
    /\ Init
    /\ pc = "loop" /\ journal = Inactive
    /\ claimKept = NotKept /\ ackKept = FALSE
    /\ effects = {} /\ queue = <<>> /\ dropped = {}
    /\ hook = IdleHook /\ seen = {} /\ printed = {}
    /\ check = [s \in Signals |-> "unread"]
    /\ faults = 0

Fault == faults < MaxFaults /\ faults' = faults + 1

-----------------------------------------------------------------------------
(* The top of the loop decides from the journal alone. *)

\* reserveClaim: a fresh command id.
ReserveClaim ==
    /\ pc = "loop" /\ journal.phase = "none"
    /\ journal' = [Inactive EXCEPT !.phase = "claim_pending"]
    /\ claimKept' = NotKept
    /\ pc' = "claim"
    /\ UNCHANGED <<vars, ackKept, effects, queue, dropped, seat, faults>>

\* Fault: the journal forgets a claim as soon as its lease could have been read.
ClaimHorizonShort == IF journal.tried < 0 THEN now ELSE journal.tried + Margin

\* Until then a claim whose answer was lost may still have a live lease.
ClaimHorizon ==
    IF journal.tried < 0 THEN now ELSE journal.tried + LeaseTime + Margin

LeaseHorizon == journal.until + Margin

Recovered == journal.signal \in effects

\* What the loop does with the claim it finds in the journal: it is sent again
\* with the command id the journal has.
Resume ==
    /\ pc = "loop"
    /\ \/ journal.phase = "claim_pending" /\ now < ClaimHorizon /\ pc' = "claim"
       \/ journal.phase = "leased" /\ Recovered /\ pc' = "prepare"
       \/ journal.phase = "leased" /\ ~Recovered /\ now < journal.until /\ pc' = "claim"
       \/ journal.phase = "ack_pending" /\ now < LeaseHorizon /\ pc' = "ack"
    /\ UNCHANGED <<vars, journal, claimKept, ackKept, effects, queue, dropped, seat, faults>>

\* Fault: a lease is never given up before its effect is written.
PastHorizonKeepsLease ==
    \/ journal.phase = "claim_pending" /\ now >= ClaimHorizon
    \/ journal.phase = "ack_pending" /\ now >= LeaseHorizon

PastHorizon ==
    \/ journal.phase = "claim_pending" /\ now >= ClaimHorizon
    \/ journal.phase = "leased" /\ ~Recovered /\ now >= LeaseHorizon
    \/ journal.phase = "ack_pending" /\ now >= LeaseHorizon

\* Past its horizon the claim is given up.
GiveUp ==
    /\ pc = "loop"
    /\ PastHorizon
    /\ journal' = Inactive
    /\ UNCHANGED <<vars, pc, claimKept, ackKept, effects, queue, dropped, seat, faults>>

-----------------------------------------------------------------------------
(* claim_agent_inbox with the journalled command id *)

\* The ledger keeps an answer that leased a row or gave one up.
LedgerAnswer ==
    LET got   == {s \in Signals : minted'[s] # minted[s]}
        ended == {s \in Signals : rows'[s].outcome = "exhausted" /\ rows[s].outcome # "exhausted"}
    IN  IF got # {}
        THEN LET s == CHOOSE s \in got : TRUE
             IN  KeptLease(s, minted'[s], rows'[s].until)
        ELSE IF ended # {} THEN KeptEmpty ELSE NotKept

\* The server runs the claim, or answers from the ledger.
ServeClaim ==
    \/ claimKept = NotKept /\ Claim(Unbound, 1) /\ claimKept' = LedgerAnswer
    \/ claimKept # NotKept /\ UNCHANGED <<vars, claimKept>>

\* The answer arrives: recordLease, or clearActive when nothing was leased.
ClaimAnswered ==
    /\ pc = "claim"
    /\ ServeClaim
    /\ IF claimKept'.kind = "lease"
       THEN /\ journal' = [phase |-> "leased", signal |-> claimKept'.signal,
                           lease |-> claimKept'.lease, until |-> claimKept'.until,
                           tried |-> now]
            /\ pc' = "route"
       ELSE /\ journal' = Inactive
            /\ pc' = "loop"
    /\ UNCHANGED <<ackKept, effects, queue, dropped, seat, faults>>

\* recordClaimAttempt comes first, then the request fails.
ClaimFails ==
    /\ pc = "claim"
    /\ Fault
    /\ journal' = [journal EXCEPT !.tried = now]
    /\ ServeClaim \/ UNCHANGED <<vars, claimKept>>
    /\ pc' \in {"claim", "loop"}
    /\ UNCHANGED <<ackKept, effects, queue, dropped, seat>>

-----------------------------------------------------------------------------
(* routeSignalToMain, then the ack *)

Enqueued(s) ==
    IF s \in Queued THEN queue
    ELSE IF Len(queue) < QueueMax THEN Append(queue, s)
    ELSE Append(Tail(queue), s)

PushedOut(s) ==
    IF s \in Queued \/ Len(queue) < QueueMax THEN {} ELSE {Head(queue)}

\* The queue file is written before the effect that lets the ack go out.
QueueSignal ==
    /\ pc = "route"
    /\ queue' = Enqueued(journal.signal)
    /\ dropped' = (dropped \ {journal.signal}) \cup PushedOut(journal.signal)
    /\ pc' = "effect"
    /\ UNCHANGED <<vars, journal, claimKept, ackKept, effects, seat, faults>>

WriteEffect ==
    /\ pc = "effect"
    /\ effects' = effects \cup {journal.signal}
    /\ pc' = "prepare"
    /\ UNCHANGED <<vars, journal, claimKept, ackKept, queue, dropped, seat, faults>>

\* The ack's command id is derived from the lease id, so it is a new one.
PrepareAck ==
    /\ pc = "prepare"
    /\ journal' = [journal EXCEPT !.phase = "ack_pending"]
    /\ ackKept' = FALSE
    /\ pc' = "ack"
    /\ UNCHANGED <<vars, claimKept, effects, queue, dropped, seat, faults>>

AckAccepted == AckMatches(rows[journal.signal], journal.lease, Unbound, "queued")

ServeAck ==
    \/ ackKept /\ UNCHANGED <<vars, ackKept>>
    \/ ~ackKept /\ Ack(journal.signal, journal.lease, Unbound, "queued") /\ ackKept' = TRUE

AckAnswered ==
    /\ pc = "ack"
    /\ ServeAck
    /\ journal' = Inactive
    /\ pc' = "loop"
    /\ UNCHANGED <<claimKept, effects, queue, dropped, seat, faults>>

AckFails ==
    /\ pc = "ack"
    /\ Fault
    /\ ServeAck \/ UNCHANGED <<vars, ackKept>>
    /\ pc' \in {"ack", "loop"}
    /\ UNCHANGED <<journal, claimKept, effects, queue, dropped, seat>>

\* Refused after the lease ran out: the service delivers the signal again.
AckStale ==
    /\ pc = "ack"
    /\ ~ackKept /\ ~AckAccepted
    /\ now >= journal.until
    /\ journal' = Inactive
    /\ pc' = "loop"
    /\ UNCHANGED <<vars, claimKept, ackKept, effects, queue, dropped, seat, faults>>

\* The runtime stops or dies anywhere and starts again from its files.
Crash ==
    /\ pc # "loop"
    /\ Fault
    /\ pc' = "loop"
    /\ UNCHANGED <<vars, journal, claimKept, ackKept, effects, queue, dropped, seat>>

-----------------------------------------------------------------------------
(* The hook of the seat's session *)

\* Fault: only what is printed now is reported; a failed report is not retried.
HookBatchUnseen == Queued \ seen

HookBatch == Queued

HookPrint ==
    /\ hook.pc = "idle"
    /\ queue # <<>>
    /\ printed' = printed \cup (Queued \ seen)
    /\ hook' = [pc |-> "printed", batch |-> HookBatch, done |-> {}]
    /\ UNCHANGED <<vars, client, seen, check, faults>>

HookCommit ==
    /\ hook.pc = "printed"
    /\ seen' = seen \cup hook.batch
    /\ hook' = [hook EXCEPT !.pc = "observing"]
    /\ UNCHANGED <<vars, client, printed, check, faults>>

\* observe: accepted for a queued receipt, idempotent for an observed one,
\* refused otherwise.
ServeObserve(s) ==
    \/ ObserveQueued(s, Unbound)
    \/ rows[s].outcome # "queued" /\ UNCHANGED vars

\* Fault: the queue is read again for the report.
ReportedAgain == hook.batch \cup Queued

\* The printed batch is what the hook reports.
Reported == hook.batch

HookObserve(s) ==
    /\ hook.pc = "observing" /\ s \in Reported
    /\ ServeObserve(s)
    /\ hook' = [hook EXCEPT !.batch = @ \ {s},
                            !.done = IF rows[s].outcome \in {"queued", "observed"}
                                     THEN @ \cup {s} ELSE @]
    /\ UNCHANGED <<client, seen, printed, check, faults>>

HookObserveFails(s) ==
    /\ hook.pc = "observing" /\ s \in hook.batch
    /\ Fault
    /\ ServeObserve(s) \/ UNCHANGED vars
    /\ hook' = [hook EXCEPT !.batch = @ \ {s}]
    /\ UNCHANGED <<client, seen, printed, check>>

\* Fault: everything the hook printed leaves the queue.
RemovableAll == Queued

Removable == hook.done

\* The positions in I, the smallest first.
InOrder(I) ==
    {at \in [1 .. Cardinality(I) -> I] :
        /\ \A i \in I : \E k \in DOMAIN at : at[k] = i
        /\ \A j, k \in DOMAIN at : j < k => at[j] < at[k]}

\* The file is written again with the other entries, in their order.
HookRemove ==
    /\ hook.pc = "observing" /\ hook.batch = {}
    /\ \E at \in InOrder({i \in DOMAIN queue : queue[i] \notin Removable}) :
          queue' = [k \in DOMAIN at |-> queue[at[k]]]
    /\ hook' = IdleHook
    /\ UNCHANGED <<vars, pc, journal, claimKept, ackKept, effects, dropped, seen, printed, check, faults>>

HookCrash ==
    /\ hook.pc # "idle"
    /\ Fault
    /\ hook' = IdleHook
    /\ UNCHANGED <<vars, client, seen, printed, check>>

\* cswarm check prints what lies past its cursor and keeps the ids to report.
CheckPrint(s) ==
    /\ rows[s].sent /\ check[s] = "unread"
    /\ printed' = printed \cup {s}
    /\ check' = [check EXCEPT ![s] = "report"]
    /\ UNCHANGED <<vars, client, hook, seen, faults>>

\* The report is accepted while nobody holds the row and dropped when refused.
CheckReport(s) ==
    /\ check[s] = "report"
    /\ \/ ObserveUnclaimed(s, Unbound)
       \/ ~CanObserveUnclaimed(rows[s], Unbound) /\ UNCHANGED vars
    /\ check' = [check EXCEPT ![s] = "done"]
    /\ UNCHANGED <<client, hook, seen, printed, faults>>

-----------------------------------------------------------------------------
ListenerStep ==
    \/ ReserveClaim \/ Resume \/ GiveUp
    \/ ClaimAnswered
    \/ QueueSignal \/ WriteEffect \/ PrepareAck
    \/ AckAnswered \/ AckStale

HookStep ==
    \/ HookPrint \/ HookCommit \/ HookRemove
    \/ \E s \in Signals : HookObserve(s)

FaultStep ==
    \/ ClaimFails \/ AckFails \/ Crash \/ HookCrash
    \/ \E s \in Signals : HookObserveFails(s)

Arrive(s) == Send(s) /\ UNCHANGED <<client, seat, faults>>

TickAll == Tick /\ UNCHANGED <<client, seat, faults>>

LNext ==
    \/ ListenerStep
    \/ HookStep
    \/ FaultStep
    \/ \E s \in Signals : Arrive(s) \/ CheckPrint(s) \/ CheckReport(s)
    \/ TickAll

LSpec == LInit /\ [][LNext]_lvars

\* The supervisor keeps the listener running, the session's hook runs every
\* turn, and time passes.
FairLSpec ==
    LSpec /\ WF_lvars(ListenerStep) /\ WF_lvars(HookStep) /\ WF_lvars(TickAll)

-----------------------------------------------------------------------------
\* The types of the listener's files and state.
LTypeOK ==
    /\ TypeOK
    /\ pc \in {"loop", "claim", "route", "effect", "prepare", "ack"}
    /\ journal.phase \in {"none", "claim_pending", "leased", "ack_pending"}
    /\ journal.signal \in Signals \cup {"none"}
    /\ journal.tried \in -1..MaxTime
    /\ claimKept.kind \in {"none", "empty", "lease"}
    /\ effects \cup Queued \cup dropped \cup seen \cup printed \subseteq Signals
    /\ check \in [Signals -> {"unread", "report", "done"}]
    /\ Len(queue) <= QueueMax

\* A receipt is queued on the server only while the seat really has it: the
\* signal waits in pending-for-main.json, or the full queue pushed it out and
\* counted it.  Crashes between the local writes and the ack, late acks and
\* hooks draining the queue never leave a queued receipt nobody will print.
QueuedIsKept ==
    \A s \in Signals : rows[s].outcome = "queued" => s \in Queued \cup dropped

\* Observed means shown: no ordering of listener, hook and check reports a
\* signal observed that the session was never given.
ObservedWasPrinted ==
    \A s \in Signals : rows[s].outcome = "observed" => s \in printed

\* The listener never loses track of a lease it was granted: a live lease is
\* the one its journalled claim is answered with, so a restart finds it again.
LiveLeaseIsJournalled ==
    \A s \in Signals :
        LiveLease(rows[s]) =>
            /\ journal.phase # "none"
            /\ claimKept = KeptLease(s, rows[s].lease, rows[s].until)

\* The two answers on which the runtime stops for good never come: once a
\* lease is in the journal the claim's command id is answered with that lease
\* ("delivery claim replay does not match the stored lease"), and a prepared
\* ack whose lease is still live is never refused, whatever the hook or the
\* seat did to the row meanwhile.
RuntimeKeepsGoing ==
    /\ journal.phase \in {"leased", "ack_pending"} =>
          claimKept = KeptLease(journal.signal, journal.lease, journal.until)
    /\ journal.phase = "ack_pending" /\ now < journal.until =>
          ackKept \/ AckAccepted

\* Every signal to the seat ends in front of its session, unless its time or
\* its attempts ran out first or the queue dropped it.
EverySignalSurfaces ==
    \A s \in Signals :
        rows[s].sent ~> s \in printed \cup dropped \/ rows[s].outcome \in {"expired", "exhausted"}

\* A queued receipt becomes observed once the hook has printed it.
QueuedBecomesObserved ==
    \A s \in Signals :
        rows[s].outcome = "queued" ~> rows[s].outcome # "queued" \/ s \in dropped
=============================================================================
