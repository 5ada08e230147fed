------------------------- MODULE TokenRenewalProofs -------------------------
(***************************************************************************)
(* Proofs about TokenRenewal: the safety of the server's rows, whatever    *)
(* the client processes send it, how often and how late, for any number of *)
(* processes, tokens, commands and faults.                                 *)
(***************************************************************************)
EXTENDS TokenRenewal, FiniteSetTheorems, TLAPS

-----------------------------------------------------------------------------
(* The types, in two parts. *)

\* The columns of a token.
TokenRows == [row : {"none", "live", "revoked"}, pred : 0 .. MaxTokens,
              used : BOOLEAN, age : 0 .. 2, superseded : BOOLEAN,
              stranded : BOOLEAN]

GrantRows == [kind : Kinds, used : Nat, stranded : Nat, revoked : BOOLEAN,
              suspended : BOOLEAN, horizon : BOOLEAN]

LedgerRows == [st : {"absent", "accepted", "superseded", "unused", "ended"},
               tok : 0 .. MaxTokens]

\* What a process has in memory, and what a state directory holds.
Mems == [tok : Tokens, gen : Nat, pending : 0 .. MaxCommands]
Recs == [tok : 0 .. MaxTokens, gen : Nat, pending : 0 .. MaxCommands]

Calls == [cmd : 0 .. MaxCommands, again : BOOLEAN,
          ans : {"none", "denied", "accepted", "issued", "superseded",
                 "unused", "ended"},
          tok : 0 .. MaxTokens]

\* A request names a token and a command.
RenewalRequests == [tok : Tokens, cmd : Commands]

ServerTypes ==
    /\ tokens \in [Tokens -> TokenRows]
    /\ grant \in GrantRows
    /\ tombs \subseteq {"lineage", "principal", "renewal_grant"}
    /\ ledger \in [Commands -> LedgerRows]

ClientTypes ==
    /\ mode \in Modes
    /\ store \in [Procs -> Recs]
    /\ mem \in [Procs -> Mems]
    /\ pc \in [Procs -> {"idle", "using", "waiting", "sent", "answered"}]
    /\ call \in [Procs -> Calls]
    /\ late \subseteq RenewalRequests
    /\ drawn \in 0 .. MaxCommands
    /\ faults \in 0 .. MaxFaults

\* A request that was sent carries a command, an answer with a secret a token.
CallsAreWhole ==
    \A p \in Procs :
        /\ pc[p] = "sent" => call[p].cmd # 0
        /\ call[p].ans = "issued" => call[p].tok # 0

LEMMA TypesSplit == TypeOK <=> ServerTypes /\ ClientTypes
  BY DEF TypeOK, ServerTypes, ClientTypes, TokenRows, GrantRows, LedgerRows,
         Mems, Recs, Calls, RenewalRequests

LEMMA Bounds ==
    /\ MaxTokens \in Nat /\ MaxTokens > 0 /\ MaxCommands \in Nat
    /\ MaxAging \in Nat /\ MaxFaults \in Nat /\ MaxSuccessors \in Nat
    /\ Root \in Tokens
  BY BoundAssumption DEF BoundAssumption, Root, Tokens

-----------------------------------------------------------------------------
(* Which steps touch the server's rows. *)

LEMMA ServerSteps ==
    ASSUME ClientTypes, CallsAreWhole, [Next]_vars
    PROVE  \/ UNCHANGED server
           \/ \E q \in RenewalRequests :
                CommitsAdoption(q) \/ Replays(q) \/ Refuses(q) \/ Issues(q)
           \/ \E t \in Tokens, byHuman \in BOOLEAN : RevokeToken(t, byHuman)
           \/ RevokePrincipal
           \/ Resume
           \/ \E t \in Tokens : Grows(t)
           \/ HorizonPasses
           \/ \E p \in Procs : Use(p)
<1>1. UNCHANGED vars => UNCHANGED server
  BY DEF vars
<1>2. ASSUME NEW p \in Procs, Bearer(p) \/ FindsRenewed(p) \/ Renew(p)
                                \/ Adopt(p) \/ NoSecret(p) \/ Refused(p)
                                \/ Denied(p)
      PROVE  UNCHANGED server
  BY <1>2 DEF Bearer, FindsRenewed, Renew, Adopt, NoSecret, Refused, Denied
<1>3. ASSUME NEW p \in Procs, Faulty(p)
      PROVE  UNCHANGED server
  BY <1>3 DEF Faulty, SaveFails, LoseRequest, LoseAnswer, AdoptFails, Crash
<1>4. ASSUME NEW p \in Procs, Serve(p)
      PROVE  \/ UNCHANGED server
             \/ \E q \in RenewalRequests :
                  CommitsAdoption(q) \/ Replays(q) \/ Refuses(q) \/ Issues(q)
  <2> DEFINE q == [tok |-> mem[p].tok, cmd |-> call[p].cmd]
  <2>1. mem[p] \in Mems /\ call[p] \in Calls /\ call[p].cmd # 0
    BY <1>4 DEF ClientTypes, CallsAreWhole, Serve
  <2>2. q \in RenewalRequests
    BY <2>1, Bounds DEF RenewalRequests, Mems, Calls, Commands
  <2>3. \/ Denies(q) \/ CommitsAdoption(q) \/ Replays(q) \/ Refuses(q)
        \/ Issues(q)
    BY <1>4 DEF Serve
  <2> HIDE DEF q
  <2> QED
    BY <2>2, <2>3 DEF Denies
<1>5. ASSUME ServeLate
      PROVE  \/ UNCHANGED server
             \/ \E q \in RenewalRequests :
                  CommitsAdoption(q) \/ Replays(q) \/ Refuses(q) \/ Issues(q)
  <2>1. PICK q \in late : \/ Denies(q) \/ CommitsAdoption(q) \/ Replays(q)
                          \/ Refuses(q) \/ Issues(q)
    BY <1>5 DEF ServeLate
  <2> QED
    BY <2>1 DEF Denies, ClientTypes
<1>6. CASE Next
  BY <1>2, <1>3, <1>4, <1>5, <1>6 DEF Next, Client, Operator, Time
<1> QED
  BY <1>1, <1>6

-----------------------------------------------------------------------------
(* The client's types. *)

LEMMA HomeIsProc ==
    ASSUME NEW p \in Procs
    PROVE  Home(p) \in Procs
  BY DEF Home

LEMMA RootRecord ==
    /\ [tok |-> Root, gen |-> 0, pending |-> 0] \in Mems
    /\ NoRecord \in Recs
    /\ NoCall \in Calls
  BY Bounds DEF Mems, Recs, Calls, NoRecord, NoCall

LEMMA HoldingTyped ==
    ASSUME NEW m \in Mems, NEW r \in Recs
    PROVE  Holding(m, r) \in Mems
<1>1. r.tok \in 0 .. MaxTokens /\ r.gen \in Nat
  BY DEF Recs
<1>2. r.tok # 0 => r.tok \in Tokens
  BY <1>1, Bounds DEF Tokens
<1>3. ASSUME NEW t \in Tokens, NEW g \in Nat
      PROVE  [m EXCEPT !.tok = t, !.gen = g] \in Mems
  BY DEF Mems
<1> QED
  BY <1>1, <1>2, <1>3 DEF Holding

LEMMA PendingTyped ==
    ASSUME NEW m \in Mems, NEW c \in 0 .. MaxCommands
    PROVE  [m EXCEPT !.pending = c] \in Mems
  BY DEF Mems

LEMMA LockedTyped ==
    ASSUME ClientTypes, NEW p \in Procs
    PROVE  /\ Locked(p) \in Mems /\ Record(p) \in Recs /\ mem[p] \in Mems
           /\ Locked(p).pending \in 0 .. MaxCommands
<1>1. Record(p) \in Recs /\ mem[p] \in Mems
  BY HomeIsProc DEF ClientTypes, Record
<1>2. Record(p).pending \in 0 .. MaxCommands
  BY <1>1 DEF Recs
<1>3. Locked(p) \in Mems
  BY <1>1, <1>2, HoldingTyped, PendingTyped DEF Locked
<1> QED
  BY <1>1, <1>3 DEF Mems

LEMMA PersistedTyped ==
    ASSUME NEW m \in Mems
    PROVE  Persisted(m) \in Recs
<1>1. m \in Recs /\ [m EXCEPT !.tok = 0] \in Recs
  BY Bounds DEF Mems, Recs, Tokens
<1> QED
  BY <1>1, RootRecord DEF Persisted

\* Renewing sends a command that is saved first.
LEMMA SendsTyped ==
    ASSUME ClientTypes, CallsAreWhole, NEW p \in Procs, NEW m \in Mems,
           NEW cmd \in Commands, NEW again \in BOOLEAN,
           Sends(p, m, cmd, again), UNCHANGED <<mode, late>>,
           drawn' \in 0 .. MaxCommands, faults' \in 0 .. MaxFaults
    PROVE  ClientTypes' /\ CallsAreWhole'
<1> DEFINE mm == [m EXCEPT !.pending = cmd]
           cc == [cmd |-> cmd, again |-> again, ans |-> "none", tok |-> 0]
<1>1. cmd \in 0 .. MaxCommands /\ cmd # 0
  BY Bounds DEF Commands
<1>2. mm \in Mems /\ Persisted(mm) \in Recs
  BY <1>1, PendingTyped, PersistedTyped
<1>3. cc \in Calls /\ cc.cmd # 0 /\ cc.ans = "none"
  BY <1>1, Bounds DEF Calls
<1>4. /\ mem' = [mem EXCEPT ![p] = mm]
      /\ store' = [store EXCEPT ![Home(p)] = Persisted(mm)]
      /\ pc' = [pc EXCEPT ![p] = "sent"]
      /\ call' = [call EXCEPT ![p] = cc]
  BY DEF Sends
<1> HIDE DEF mm, cc
<1>5. ClientTypes'
  BY <1>2, <1>3, <1>4 DEF ClientTypes
<1>6. CallsAreWhole'
  BY <1>3, <1>4 DEF CallsAreWhole, ClientTypes
<1> QED
  BY <1>5, <1>6

LEMMA GivesUpTyped ==
    ASSUME ClientTypes, CallsAreWhole, NEW p \in Procs, NEW m \in Mems,
           GivesUp(p, m), UNCHANGED mode, store' \in [Procs -> Recs],
           late' \subseteq RenewalRequests,
           drawn' \in 0 .. MaxCommands, faults' \in 0 .. MaxFaults
    PROVE  ClientTypes' /\ CallsAreWhole'
<1>1. /\ mem' = [mem EXCEPT ![p] = m]
      /\ pc' \in {[pc EXCEPT ![p] = "idle"], [pc EXCEPT ![p] = "using"]}
      /\ call' = [call EXCEPT ![p] = NoCall]
  BY DEF GivesUp
<1>2. NoCall \in Calls /\ NoCall.ans = "none"
  BY RootRecord DEF NoCall
<1>3. ClientTypes'
  BY <1>1, <1>2 DEF ClientTypes
<1>4. CallsAreWhole'
  BY <1>1, <1>2 DEF CallsAreWhole, ClientTypes
<1> QED
  BY <1>3, <1>4

\* A step that ends a call: the process holds m and its directory r.
LEMMA EndsTyped ==
    ASSUME ClientTypes, CallsAreWhole, NEW p \in Procs, NEW m \in Mems,
           NEW next \in {"idle", "using"},
           mem' = [mem EXCEPT ![p] = m], pc' = [pc EXCEPT ![p] = next],
           call' = [call EXCEPT ![p] = NoCall],
           UNCHANGED <<mode, late, drawn>>, store' \in [Procs -> Recs],
           faults' \in 0 .. MaxFaults
    PROVE  ClientTypes' /\ CallsAreWhole'
<1>1. NoCall \in Calls /\ NoCall.ans = "none"
  BY RootRecord DEF NoCall
<1>2. ClientTypes'
  BY <1>1 DEF ClientTypes
<1>3. CallsAreWhole'
  BY <1>1 DEF CallsAreWhole, ClientTypes
<1> QED
  BY <1>2, <1>3

LEMMA FaultTyped ==
    ASSUME ClientTypes, FaultHappens
    PROVE  faults' \in 0 .. MaxFaults
  BY Bounds DEF ClientTypes, FaultHappens

\* The server answers a request that waits for it.
LEMMA AnsweredTyped ==
    ASSUME ClientTypes, CallsAreWhole, NEW p \in Procs, NEW ans, NEW t,
           Answered(p, ans, t),
           ans \in {"denied", "accepted", "issued", "superseded", "unused",
                    "ended"},
           t \in 0 .. MaxTokens, ans = "issued" => t # 0
    PROVE  ClientTypes' /\ CallsAreWhole'
<1> DEFINE cc == [call[p] EXCEPT !.ans = ans, !.tok = t]
<1>1. call[p] \in Calls
  BY DEF ClientTypes
<1>2. cc \in Calls /\ cc.ans = ans /\ cc.tok = t
  BY <1>1 DEF Calls
<1>3. call' = [call EXCEPT ![p] = cc] /\ pc' = [pc EXCEPT ![p] = "answered"]
  BY DEF Answered, ClientTypes
<1>4. UNCHANGED <<mode, store, mem, drawn, late, faults>>
  BY DEF Answered
<1> HIDE DEF cc
<1>5. ClientTypes'
  BY <1>2, <1>3, <1>4 DEF ClientTypes
<1>6. CallsAreWhole'
  BY <1>2, <1>3, <1>4 DEF CallsAreWhole, ClientTypes
<1> QED
  BY <1>5, <1>6

LEMMA ClientKept ==
    ASSUME ServerTypes, ClientTypes, CallsAreWhole, [Next]_vars
    PROVE  ClientTypes' /\ CallsAreWhole'
<1> DEFINE Kept == ClientTypes' /\ CallsAreWhole'
<1>1. ASSUME UNCHANGED <<client, late, faults>>
      PROVE  Kept
  BY <1>1 DEF client, ClientTypes, CallsAreWhole
<1>2. ASSUME NEW p \in Procs, Bearer(p)
      PROVE  Kept
  <2> DEFINE m == IF Record(p).gen > mem[p].gen THEN Holding(mem[p], Record(p))
                                                ELSE mem[p]
             next == IF Due(m.tok) THEN "waiting" ELSE "using"
  <2>1. m \in Mems
    BY LockedTyped, HoldingTyped
  <2>2. /\ pc[p] = "idle" /\ next \in {"waiting", "using"}
        /\ mem' = [mem EXCEPT ![p] = m] /\ pc' = [pc EXCEPT ![p] = next]
        /\ UNCHANGED <<mode, store, call, drawn, late, faults>>
    BY <1>2 DEF Bearer
  <2> HIDE DEF m, next
  <2> QED
    BY <2>1, <2>2 DEF ClientTypes, CallsAreWhole
<1>3. ASSUME NEW p \in Procs, FindsRenewed(p)
      PROVE  Kept
  <2>1. Locked(p) \in Mems
    BY LockedTyped
  <2> QED
    BY <1>3, <2>1 DEF FindsRenewed, ClientTypes, CallsAreWhole
<1>4. ASSUME NEW p \in Procs, Renew(p)
      PROVE  Kept
  <2>1. Locked(p) \in Mems /\ Locked(p).pending \in 0 .. MaxCommands
    BY LockedTyped
  <2>2. CASE Locked(p).pending # 0
    <3>1. Locked(p).pending \in Commands
      BY <2>1, <2>2, Bounds DEF Commands
    <3>2. /\ Sends(p, Locked(p), Locked(p).pending, TRUE)
          /\ UNCHANGED <<mode, late, faults, drawn>>
      BY <1>4, <2>2 DEF Renew
    <3> QED
      BY <2>1, <3>1, <3>2, SendsTyped DEF ClientTypes
  <2>3. CASE Locked(p).pending = 0
    <3>1. /\ drawn < MaxCommands /\ drawn' = drawn + 1
          /\ Sends(p, Locked(p), drawn + 1, FALSE)
          /\ UNCHANGED <<mode, late, faults>>
      BY <1>4, <2>3 DEF Renew
    <3>2. drawn + 1 \in Commands /\ drawn' \in 0 .. MaxCommands
      BY <3>1, Bounds DEF Commands, ClientTypes
    <3> QED
      BY <2>1, <3>1, <3>2, SendsTyped DEF ClientTypes
  <2> QED
    BY <2>2, <2>3
<1>5. ASSUME NEW p \in Procs, SaveFails(p)
      PROVE  Kept
  <2> DEFINE fresh == Locked(p).pending = 0
             cmd == IF fresh THEN drawn + 1 ELSE Locked(p).pending
             m == [Locked(p) EXCEPT !.pending = cmd]
  <2>1. /\ cmd \in Commands /\ GivesUp(p, m) /\ FaultHappens
        /\ drawn' = IF fresh THEN cmd ELSE drawn
        /\ store' \in {store, [store EXCEPT ![Home(p)] = Persisted(m)]}
        /\ UNCHANGED <<mode, late>>
    BY <1>5 DEF SaveFails
  <2>2. cmd \in 0 .. MaxCommands
    BY <2>1, Bounds DEF Commands
  <2>3. m \in Mems /\ Persisted(m) \in Recs
    BY <2>2, LockedTyped, PendingTyped, PersistedTyped
  <2> HIDE DEF m, cmd, fresh
  <2>4. store' \in [Procs -> Recs] /\ drawn' \in 0 .. MaxCommands
    BY <2>1, <2>2, <2>3 DEF ClientTypes
  <2> QED
    BY <2>1, <2>3, <2>4, GivesUpTyped, FaultTyped DEF ClientTypes
<1>6. ASSUME NEW p \in Procs, LoseRequest(p) \/ LoseAnswer(p)
      PROVE  Kept
  <2>1. mem[p] \in Mems /\ call[p] \in Calls
    BY DEF ClientTypes
  <2>2. late' \subseteq RenewalRequests
    <3>1. CASE LoseAnswer(p)
      BY <3>1 DEF LoseAnswer, ClientTypes
    <3>2. CASE LoseRequest(p)
      <4>1. call[p].cmd \in Commands
        BY <2>1, <3>2, Bounds DEF LoseRequest, CallsAreWhole, Calls, Commands
      <4>2. [tok |-> mem[p].tok, cmd |-> call[p].cmd] \in RenewalRequests
        BY <2>1, <4>1 DEF RenewalRequests, Mems
      <4> QED
        BY <3>2, <4>2 DEF LoseRequest, ClientTypes
    <3> QED
      BY <1>6, <3>1, <3>2
  <2>3. GivesUp(p, mem[p]) /\ FaultHappens /\ UNCHANGED <<mode, store, drawn>>
    BY <1>6 DEF LoseRequest, LoseAnswer
  <2> QED
    BY <2>1, <2>2, <2>3, GivesUpTyped, FaultTyped DEF ClientTypes
<1>7. ASSUME NEW p \in Procs, Adopt(p) \/ AdoptFails(p)
      PROVE  Kept
  <2> DEFINE r == [tok |-> call[p].tok, gen |-> mem[p].gen + 1, pending |-> 0]
  <2>1. call[p] \in Calls /\ mem[p] \in Mems /\ call[p].ans = "issued"
    BY <1>7 DEF ClientTypes, Adopt, AdoptFails
  <2>2. call[p].tok \in Tokens
    BY <2>1, Bounds DEF CallsAreWhole, Calls, Tokens
  <2>3. r \in Mems /\ r \in Recs
    BY <2>1, <2>2, Bounds DEF Mems, Recs, Tokens
  <2>4. CASE Adopt(p)
    <3>1. /\ store' = [store EXCEPT ![Home(p)] = r]
          /\ mem' = [mem EXCEPT ![p] = r]
          /\ pc' = [pc EXCEPT ![p] = "using"]
          /\ call' = [call EXCEPT ![p] = NoCall]
          /\ UNCHANGED <<mode, drawn, late, faults>>
      BY <2>4 DEF Adopt
    <3> HIDE DEF r
    <3>2. store' \in [Procs -> Recs] /\ faults' \in 0 .. MaxFaults
      BY <2>3, <3>1 DEF ClientTypes
    <3> QED
      BY <2>3, <3>1, <3>2, EndsTyped
  <2>5. CASE AdoptFails(p)
    <3>1. /\ store' \in {store, [store EXCEPT ![Home(p)] = r]}
          /\ GivesUp(p, mem[p]) /\ FaultHappens
          /\ UNCHANGED <<mode, drawn, late>>
      BY <2>5 DEF AdoptFails
    <3> HIDE DEF r
    <3>2. store' \in [Procs -> Recs]
      BY <2>3, <3>1 DEF ClientTypes
    <3> QED
      BY <2>1, <3>1, <3>2, GivesUpTyped, FaultTyped DEF ClientTypes
  <2> QED
    BY <1>7, <2>4, <2>5
<1>8. ASSUME NEW p \in Procs, NoSecret(p)
      PROVE  Kept
  <2>1. mem[p] \in Mems
    BY DEF ClientTypes
  <2>2. CASE call[p].again
    <3>1. /\ drawn < MaxCommands /\ drawn' = drawn + 1
          /\ Sends(p, mem[p], drawn + 1, FALSE)
          /\ UNCHANGED <<mode, late, faults>>
      BY <1>8, <2>2 DEF NoSecret
    <3>2. drawn + 1 \in Commands /\ drawn' \in 0 .. MaxCommands
      BY <3>1, Bounds DEF Commands, ClientTypes
    <3> QED
      BY <2>1, <3>1, <3>2, SendsTyped DEF ClientTypes
  <2>3. CASE ~call[p].again
    BY <1>8, <2>1, <2>3, GivesUpTyped DEF NoSecret, ClientTypes
  <2> QED
    BY <2>2, <2>3
<1>9. ASSUME NEW p \in Procs, Refused(p)
      PROVE  Kept
  <2> DEFINE m == Resolved(mem[p])
  <2>1. m \in Mems /\ Persisted(m) \in Recs
    BY Bounds, PendingTyped, PersistedTyped DEF ClientTypes, Resolved
  <2>2. PICK next \in {"idle", "using"} : pc' = [pc EXCEPT ![p] = next]
    BY <1>9 DEF Refused
  <2>3. /\ mem' = [mem EXCEPT ![p] = m]
        /\ call' = [call EXCEPT ![p] = NoCall]
        /\ UNCHANGED <<mode, drawn, late>>
        /\ store' \in {store, [store EXCEPT ![Home(p)] = Persisted(m)]}
        /\ UNCHANGED faults \/ FaultHappens
    BY <1>9 DEF Refused
  <2> HIDE DEF m
  <2>4. store' \in [Procs -> Recs] /\ faults' \in 0 .. MaxFaults
    BY <2>1, <2>3, FaultTyped DEF ClientTypes
  <2> QED
    BY <2>1, <2>2, <2>3, <2>4, EndsTyped
<1>10. ASSUME NEW p \in Procs, Denied(p) \/ Use(p) \/ Crash(p)
       PROVE  Kept
  <2>1. CASE Use(p)
    BY <2>1 DEF Use, ClientTypes, CallsAreWhole
  <2>2. CASE Denied(p)
    <3>1. mem' = [mem EXCEPT ![p] = mem[p]] /\ mem[p] \in Mems
      BY <2>2 DEF Denied, ClientTypes
    <3> QED
      BY <2>2, <3>1, EndsTyped DEF Denied, ClientTypes
  <2>3. CASE Crash(p)
    <3> DEFINE h == Holding([tok |-> Root, gen |-> 0, pending |-> 0], Record(p))
               m == [h EXCEPT !.pending = Record(p).pending]
    <3>1. h \in Mems
      BY LockedTyped, HoldingTyped, RootRecord
    <3>2. Record(p).pending \in 0 .. MaxCommands
      BY LockedTyped DEF Recs
    <3>3. m \in Mems
      BY <3>1, <3>2, PendingTyped
    <3>4. /\ mem' = [mem EXCEPT ![p] = m]
          /\ pc' = [pc EXCEPT ![p] = "idle"]
          /\ call' = [call EXCEPT ![p] = NoCall]
          /\ FaultHappens /\ UNCHANGED <<mode, store, drawn, late>>
      BY <2>3 DEF Crash
    <3> HIDE DEF m
    <3> QED
      BY <3>3, <3>4, EndsTyped, FaultTyped DEF ClientTypes
  <2> QED
    BY <1>10, <2>1, <2>2, <2>3
<1>11. ASSUME NEW p \in Procs, Serve(p)
       PROVE  Kept
  <2> DEFINE q == [tok |-> mem[p].tok, cmd |-> call[p].cmd]
  <2>1. q.cmd \in Commands
    BY <1>11, Bounds
    DEF Serve, ClientTypes, CallsAreWhole, Calls, Commands
  <2>2. \/ Answered(p, "denied", 0)
        \/ UNCHANGED <<client, late, faults>>
        \/ Replays(q) /\ Answered(p, ledger[q.cmd].st, 0)
        \/ Refuses(q) /\ Answered(p, ledger'[q.cmd].st, 0)
        \/ Issues(q) /\ Answered(p, "issued", NextToken)
    BY <1>11 DEF Serve
  <2> HIDE DEF q
  <2>3. 0 \in 0 .. MaxTokens
    BY Bounds
  <2>4. CASE Replays(q) /\ Answered(p, ledger[q.cmd].st, 0)
    <3>1. ledger[q.cmd].st \in {"accepted", "superseded", "unused", "ended"}
      BY <2>1, <2>4 DEF Replays, Fresh, ServerTypes, LedgerRows
    <3> QED
      BY <2>3, <2>4, <3>1, AnsweredTyped
  <2>5. CASE Refuses(q) /\ Answered(p, ledger'[q.cmd].st, 0)
    <3>1. ledger'[q.cmd].st = Decide(q.tok, Recovering(q))
      BY <2>1, <2>5 DEF Refuses, ServerTypes
    <3>2. ledger'[q.cmd].st \in {"superseded", "unused", "ended"}
      BY <2>5, <3>1 DEF Refuses, Decide
    <3> QED
      BY <2>3, <2>5, <3>2, AnsweredTyped
  <2>6. CASE Issues(q) /\ Answered(p, "issued", NextToken)
    <3>1. NextToken \in 0 .. MaxTokens /\ NextToken # 0
      BY <2>6, Bounds DEF Issues, Tokens
    <3> QED
      BY <2>6, <3>1, AnsweredTyped
  <2>7. CASE Answered(p, "denied", 0)
    BY <2>3, <2>7, AnsweredTyped
  <2> QED
    BY <1>1, <2>2, <2>4, <2>5, <2>6, <2>7
<1>12. ASSUME ServeLate
       PROVE  Kept
  BY <1>12 DEF ServeLate, client, ClientTypes, CallsAreWhole
<1>13. ASSUME Operator \/ Time \/ UNCHANGED vars
       PROVE  UNCHANGED <<client, late, faults>>
  BY <1>13 DEF Operator, Time, vars, RevokeToken, RevokePrincipal, Resume,
               Grows, HorizonPasses
<1> HIDE DEF Kept
<1>14. ASSUME Next
       PROVE  Kept
  BY <1>1, <1>2, <1>3, <1>4, <1>5, <1>6, <1>7, <1>8, <1>9, <1>10, <1>11,
     <1>12, <1>13, <1>14 DEF Next, Client, Faulty
<1>15. Kept
  BY <1>1, <1>13, <1>14
<1> QED
  BY <1>15 DEF Kept

-----------------------------------------------------------------------------
(* The inductive invariant of the server's rows. *)

\* Tokens are numbered as they are issued, after their predecessors.
Numbered ==
    /\ Issued = 1 .. Cardinality(Issued)
    /\ Root \in Issued
    /\ \A t \in Issued : tokens[t].pred < t

\* Only a successor that was discarded is marked so.
StrandedEnded ==
    \A t \in Tokens : tokens[t].stranded => tokens[t].row = "revoked"

\* The unique index on live successors.
OneSuccessor ==
    \A s, t \in Tokens :
        /\ tokens[s].row = "live" /\ tokens[t].row = "live"
        /\ tokens[s].pred = tokens[t].pred
        => s = t

\* A row is revoked by the service's own housekeeping or with the grant.
RevokedWithGrant ==
    \A t \in Tokens :
        tokens[t].row = "revoked" /\ ~tokens[t].stranded => grant.revoked

\* What ended a token is the use of its live successor.
SupersededByUse ==
    ~grant.revoked =>
        \A t \in Tokens :
            tokens[t].row = "live" /\ tokens[t].superseded =>
                HandedOver(tokens, t)

\* Of two live tokens the older one has ended, unless the younger one is its
\* successor and was not used yet.
LineageIsChain ==
    ~grant.revoked =>
        \A t, s \in Tokens :
            t < s /\ tokens[t].row = "live" /\ tokens[s].row = "live" =>
                \/ tokens[t].superseded
                \/ tokens[s].pred = t /\ ~tokens[s].used

Inv ==
    /\ ServerTypes
    /\ ClientTypes
    /\ CallsAreWhole
    /\ Numbered
    /\ StrandedEnded
    /\ OneSuccessor
    /\ RevokedWithGrant
    /\ SupersededByUse
    /\ LineageIsChain
    /\ BudgetIsExact

-----------------------------------------------------------------------------
(* What a step does to the rows, column by column. *)

LEMMA TokenRow ==
    ASSUME ServerTypes, NEW t \in Tokens
    PROVE  /\ tokens[t] \in TokenRows
           /\ tokens[t].row \in {"none", "live", "revoked"}
           /\ tokens[t].pred \in 0 .. MaxTokens
           /\ tokens[t].used \in BOOLEAN /\ tokens[t].stranded \in BOOLEAN
           /\ tokens[t].superseded \in BOOLEAN
<1>1. tokens[t] \in TokenRows
  BY DEF ServerTypes
<1> QED
  BY <1>1 DEF TokenRows

LEMMA GrantRow ==
    ASSUME ServerTypes
    PROVE  /\ grant \in GrantRows /\ grant.used \in Nat
           /\ grant.stranded \in Nat /\ grant.revoked \in BOOLEAN
  BY DEF ServerTypes, GrantRows

\* The columns the lineage is made of; a token's age is not one of them.
SameToken(t) ==
    /\ tokens'[t].row = tokens[t].row
    /\ tokens'[t].pred = tokens[t].pred
    /\ tokens'[t].used = tokens[t].used
    /\ tokens'[t].superseded = tokens[t].superseded
    /\ tokens'[t].stranded = tokens[t].stranded

SameBudget ==
    /\ grant'.kind = grant.kind
    /\ grant'.used = grant.used
    /\ grant'.stranded = grant.stranded

\* Nothing of the lineage changes.
Idles ==
    /\ \A t \in Tokens : SameToken(t)
    /\ SameBudget /\ grant'.revoked = grant.revoked

\* Token t is used.
Uses(t) ==
    /\ tokens[t].row = "live"
    /\ UNCHANGED grant
    /\ \A s \in Tokens :
          /\ tokens'[s].row = tokens[s].row
          /\ tokens'[s].pred = tokens[s].pred
          /\ tokens'[s].stranded = tokens[s].stranded
          /\ tokens'[s].used <=> tokens[s].used \/ s = t
          /\ tokens'[s].superseded => \/ tokens[s].superseded
                                      \/ s = tokens[t].pred
          /\ tokens[s].superseded => tokens'[s].superseded
          /\ s = tokens[t].pred /\ s # t /\ ~tokens[t].used
                /\ tokens[s].row = "live" => tokens'[s].superseded

\* The grant is revoked, and with it some of its live tokens.
Ends ==
    /\ grant'.revoked /\ SameBudget
    /\ \A t \in Tokens :
          /\ \/ tokens'[t].row = tokens[t].row
             \/ tokens[t].row = "live" /\ tokens'[t].row = "revoked"
          /\ tokens'[t].pred = tokens[t].pred
          /\ tokens'[t].stranded = tokens[t].stranded

\* Token n is issued to replace t and its live successors.
Grants(t, n) ==
    /\ n = NextToken /\ n \in Tokens
    /\ t \in Tokens /\ tokens[t].row = "live" /\ tokens[t].used
    /\ Admitted(t, TRUE)
    /\ LiveChildren(tokens, t) # {} =>
          \E s \in LiveChildren(tokens, t) : ~tokens[s].used
    /\ tokens'[n] = Row("live", t, FALSE)
    /\ \A s \in Tokens \ ({n} \cup LiveChildren(tokens, t)) :
          tokens'[s] = tokens[s]
    /\ \A s \in LiveChildren(tokens, t) \ {n} :
          tokens'[s] = [tokens[s] EXCEPT !.row = "revoked", !.stranded = TRUE]
    /\ grant' = Counted(Credited(t), t)
    /\ grant.kind = "timeboxed" =>
          Credited(t).used - Credited(t).stranded < MaxSuccessors

LEMMA StampUses ==
    ASSUME ServerTypes, Numbered, NEW t \in Tokens, Admitted(t, TRUE),
           tokens' = Stamped(t), UNCHANGED grant
    PROVE  Uses(t)
<1>1. tokens[t].row = "live" /\ tokens[t].pred # t
  <2>1. tokens[t].row = "live"
    BY DEF Admitted, Authorised
  <2>2. tokens[t].pred < t
    BY <2>1 DEF Numbered, Issued
  <2> QED
    BY <2>1, <2>2 DEF Tokens
<1>2. ASSUME NEW s \in Tokens
      PROVE  /\ tokens'[s].row = tokens[s].row
             /\ tokens'[s].pred = tokens[s].pred
             /\ tokens'[s].stranded = tokens[s].stranded
             /\ tokens'[s].used <=> tokens[s].used \/ s = t
             /\ tokens'[s].superseded => \/ tokens[s].superseded
                                         \/ s = tokens[t].pred
             /\ tokens[s].superseded => tokens'[s].superseded
             /\ s = tokens[t].pred /\ s # t /\ ~tokens[t].used
                   /\ tokens[s].row = "live" => tokens'[s].superseded
  <2>1. tokens[s] \in TokenRows
    BY TokenRow
  <2>2. CASE s = t
    <3>1. tokens'[s] = [tokens[s] EXCEPT !.used = TRUE]
      BY <1>1, <2>2 DEF Stamped
    <3>2. /\ tokens'[s].row = tokens[s].row
          /\ tokens'[s].pred = tokens[s].pred
          /\ tokens'[s].stranded = tokens[s].stranded
          /\ tokens'[s].used = TRUE
          /\ tokens'[s].superseded = tokens[s].superseded
      BY <2>1, <3>1 DEF TokenRows
    <3> QED
      BY <2>2, <3>2
  <2>3. CASE s # t /\ s = tokens[t].pred /\ ~tokens[t].used
                   /\ tokens[s].row = "live"
    <3>1. tokens'[s] = [tokens[s] EXCEPT !.superseded = TRUE]
      BY <2>3 DEF Stamped
    <3> QED
      BY <2>1, <2>3, <3>1 DEF TokenRows
  <2>4. CASE s # t /\ ~(s = tokens[t].pred /\ ~tokens[t].used
                                           /\ tokens[s].row = "live")
    <3>1. tokens'[s] = tokens[s]
      BY <2>4 DEF Stamped
    <3> QED
      BY <2>1, <2>4, <3>1 DEF TokenRows
  <2> QED
    BY <2>2, <2>3, <2>4
<1> QED
  BY <1>1, <1>2 DEF Uses

LEMMA IssueGrants ==
    ASSUME ServerTypes, NEW q \in RenewalRequests, Issues(q)
    PROVE  Grants(q.tok, NextToken)
<1> DEFINE t == q.tok
           n == NextToken
<1>1. t \in Tokens /\ n \in Tokens
  BY DEF RenewalRequests, Issues
<1>2. /\ tokens' = [WithoutStranded(t) EXCEPT ![n] = Row("live", t, FALSE)]
      /\ grant' = Counted(Credited(t), t)
      /\ Admitted(t, TRUE) /\ Decide(t, Recovering(q)) = "accept"
      /\ FenceAccepts(WithoutStranded(t), Credited(t), t)
  BY DEF Issues
<1>3. tokens[t].row = "live"
  BY <1>2 DEF Admitted, Authorised
<1>4. /\ tokens[t].used
      /\ ~(LiveChildren(tokens, t) # {} /\ ~SuccessorPending(t, Recovering(q)))
  BY <1>2 DEF Decide
<1>5. LiveChildren(tokens, t) # {} =>
          \E s \in LiveChildren(tokens, t) : ~tokens[s].used
  BY <1>4 DEF SuccessorPending
<1>6. Credited(t).kind = grant.kind
  BY GrantRow DEF Credited, GrantRows
<1>7. grant.kind = "timeboxed" =>
          Credited(t).used - Credited(t).stranded < MaxSuccessors
  BY <1>2, <1>6 DEF FenceAccepts
<1>8. tokens'[n] = Row("live", t, FALSE)
  BY <1>1, <1>2 DEF WithoutStranded
<1>9. \A s \in Tokens \ ({n} \cup LiveChildren(tokens, t)) :
          tokens'[s] = tokens[s]
  BY <1>1, <1>2 DEF WithoutStranded
<1>10. \A s \in LiveChildren(tokens, t) \ {n} :
          tokens'[s] = [tokens[s] EXCEPT !.row = "revoked", !.stranded = TRUE]
  <2>1. LiveChildren(tokens, t) \subseteq Tokens
    BY DEF LiveChildren
  <2> QED
    BY <1>1, <1>2, <2>1 DEF WithoutStranded
<1> HIDE DEF n
<1> QED
  BY <1>1, <1>2, <1>3, <1>4, <1>5, <1>7, <1>8, <1>9, <1>10 DEF Grants, n

\* Revoking live tokens and then all those nobody has succeeded.
LEMMA CascadeEnds ==
    ASSUME NEW T \in [Tokens -> TokenRows], NEW t \in Tokens
    PROVE  /\ Cascade(T) \in [Tokens -> TokenRows]
           /\ \/ Cascade(T)[t] = T[t]
              \/ /\ T[t].row = "live" /\ Cascade(T)[t].row = "revoked"
                 /\ Cascade(T)[t].pred = T[t].pred
                 /\ Cascade(T)[t].stranded = T[t].stranded
<1>1. \A s \in Tokens : [T[s] EXCEPT !.row = "revoked"] \in TokenRows
  BY DEF TokenRows
<1>2. Cascade(T) \in [Tokens -> TokenRows]
  BY <1>1 DEF Cascade
<1>3. CASE t \in Tips(T)
  <2>1. T[t].row = "live" /\ Cascade(T)[t] = [T[t] EXCEPT !.row = "revoked"]
    BY <1>3 DEF Tips, Cascade
  <2> QED
    BY <1>2, <2>1 DEF TokenRows
<1>4. CASE t \notin Tips(T)
  BY <1>2, <1>4 DEF Cascade
<1> QED
  BY <1>2, <1>3, <1>4

LEMMA RevocationEnds ==
    ASSUME ServerTypes,
           \/ RevokePrincipal
           \/ \E t \in Tokens, byHuman \in BOOLEAN : RevokeToken(t, byHuman)
    PROVE  Ends
<1>1. tokens \in [Tokens -> TokenRows] /\ grant \in GrantRows
  BY DEF ServerTypes
<1>2. grant'.revoked /\ SameBudget
  <2>1. grant' = [grant EXCEPT !.revoked = TRUE]
    BY DEF RevokePrincipal, RevokeToken
  <2> QED
    BY <1>1, <2>1 DEF GrantRows, SameBudget
<1> DEFINE Ended(T, s) ==
             /\ \/ T[s].row = tokens[s].row
                \/ tokens[s].row = "live" /\ T[s].row = "revoked"
             /\ T[s].pred = tokens[s].pred
             /\ T[s].stranded = tokens[s].stranded
<1>3. ASSUME NEW T \in [Tokens -> TokenRows], \A s \in Tokens : Ended(T, s)
      PROVE  \A s \in Tokens : Ended(Cascade(T), s)
  BY <1>3, CascadeEnds
<1>4. \A s \in Tokens : Ended(tokens, s)
  OBVIOUS
<1>5. Cascade(tokens) \in [Tokens -> TokenRows]
  BY <1>1, Bounds, CascadeEnds
<1>6. ASSUME RevokePrincipal
      PROVE  \A s \in Tokens : Ended(tokens', s)
  <2>1. \A s \in Tokens : Ended(Cascade(tokens), s)
    BY <1>1, <1>3, <1>4
  <2>2. \A s \in Tokens : Ended(Cascade(Cascade(tokens)), s)
    BY <1>3, <1>5, <2>1
  <2> QED
    BY <1>6, <2>2 DEF RevokePrincipal
<1>7. ASSUME NEW t \in Tokens, NEW byHuman \in BOOLEAN, RevokeToken(t, byHuman)
      PROVE  \A s \in Tokens : Ended(tokens', s)
  <2> DEFINE last == [Cascade(tokens)[t] EXCEPT !.row = "revoked"]
             R == [Cascade(tokens) EXCEPT ![t].row = "revoked"]
  <2>1. \A s \in Tokens : Ended(Cascade(tokens), s)
    BY <1>1, <1>3, <1>4
  <2>2. R = [Cascade(tokens) EXCEPT ![t] = last]
    BY <1>5
  <2>3. /\ last \in TokenRows /\ last.row = "revoked"
        /\ last.pred = Cascade(tokens)[t].pred
        /\ last.stranded = Cascade(tokens)[t].stranded
    BY <1>5 DEF TokenRows
  <2>4. tokens[t].row = "live" /\ tokens' \in {R, Cascade(R)}
    BY <1>7 DEF RevokeToken
  <2> HIDE DEF last
  <2>5. R \in [Tokens -> TokenRows]
    BY <1>5, <2>2, <2>3
  <2>6. \A s \in Tokens : Ended(R, s)
    <3>1. R[t] = last
      BY <1>5, <2>2
    <3>2. \A s \in Tokens \ {t} : R[s] = Cascade(tokens)[s]
      BY <1>5, <2>2
    <3> HIDE DEF R
    <3> QED
      BY <2>1, <2>3, <2>4, <3>1, <3>2
  <2> HIDE DEF R
  <2>7. \A s \in Tokens : Ended(Cascade(R), s)
    BY <1>3, <2>5, <2>6
  <2> QED
    BY <2>4, <2>6, <2>7
<1> QED
  BY <1>2, <1>6, <1>7 DEF Ends

\* Every step does one of these.
LEMMA LineageSteps ==
    ASSUME ServerTypes, ClientTypes, CallsAreWhole, Numbered, [Next]_vars
    PROVE  \/ Idles
           \/ \E t \in Tokens : Uses(t)
           \/ \E t, n \in Tokens : Grants(t, n)
           \/ Ends
<1>1. UNCHANGED <<tokens, grant>> => Idles
  BY DEF Idles, SameToken, SameBudget
<1>2. ASSUME NEW q \in RenewalRequests,
             CommitsAdoption(q) \/ Replays(q) \/ Refuses(q)
      PROVE  \E t \in Tokens : Uses(t)
  <2>1. /\ q.tok \in Tokens /\ Admitted(q.tok, TRUE)
        /\ tokens' = Stamped(q.tok) /\ UNCHANGED grant
    BY <1>2 DEF CommitsAdoption, Replays, Refuses, RenewalRequests
  <2> QED
    BY <2>1, StampUses
<1>3. ASSUME NEW q \in RenewalRequests, Issues(q)
      PROVE  \E t, n \in Tokens : Grants(t, n)
  BY <1>3, IssueGrants DEF Grants
<1>4. ASSUME NEW p \in Procs, Use(p)
      PROVE  Idles \/ \E t \in Tokens : Uses(t)
  <2>1. mem[p].tok \in Tokens /\ UNCHANGED grant
    BY <1>4 DEF Use, ClientTypes, Mems
  <2>2. CASE Admitted(mem[p].tok, FALSE) /\ tokens' = Stamped(mem[p].tok)
    BY <2>1, <2>2, StampUses DEF Admitted
  <2> QED
    BY <1>1, <1>4, <2>1, <2>2 DEF Use
<1>5. ASSUME Resume
      PROVE  Idles
  BY <1>5, GrantRow DEF Resume, Idles, SameToken, SameBudget, GrantRows
<1>6. ASSUME NEW t \in Tokens, Grows(t)
      PROVE  Idles
  <2> DEFINE older == [tokens[t] EXCEPT !.age = tokens[t].age + 1]
  <2>1. tokens' = [tokens EXCEPT ![t] = older] /\ UNCHANGED grant
    BY <1>6 DEF Grows, ServerTypes
  <2>2. /\ older.row = tokens[t].row /\ older.pred = tokens[t].pred
        /\ older.used = tokens[t].used
        /\ older.superseded = tokens[t].superseded
        /\ older.stranded = tokens[t].stranded
    BY TokenRow DEF TokenRows
  <2> HIDE DEF older
  <2> QED
    BY <2>1, <2>2 DEF Idles, SameToken, SameBudget, ServerTypes
<1>7. ASSUME HorizonPasses
      PROVE  Idles
  <2>1. SameBudget /\ grant'.revoked = grant.revoked
    BY <1>7, GrantRow DEF HorizonPasses, SameBudget, GrantRows
  <2>2. ASSUME NEW t \in Tokens
        PROVE  SameToken(t)
    <3>1. \/ tokens'[t] = tokens[t]
          \/ tokens'[t] = [tokens[t] EXCEPT !.age = 2]
      BY <1>7 DEF HorizonPasses
    <3> QED
      BY <3>1, TokenRow DEF SameToken, TokenRows
  <2> QED
    BY <2>1, <2>2 DEF Idles
<1> QED
  BY <1>1, <1>2, <1>3, <1>4, <1>5, <1>6, <1>7, ServerSteps, RevocationEnds
  DEF server

-----------------------------------------------------------------------------
(* The types of the server's rows. *)

LEMMA TokensFinite ==
    ASSUME NEW S \in SUBSET Tokens
    PROVE  IsFiniteSet(S) /\ Cardinality(S) \in Nat
<1>1. IsFiniteSet(Tokens)
  BY Bounds, FS_Interval DEF Tokens
<1> QED
  BY <1>1, FS_Subset, FS_CardinalityType

LEMMA IssuedFinite ==
    Issued \subseteq Tokens /\ Cardinality(Issued) \in Nat
<1>1. Issued \subseteq Tokens
  BY DEF Issued
<1> QED
  BY <1>1, TokensFinite

LEMMA ChildrenFinite ==
    ASSUME NEW t
    PROVE  /\ LiveChildren(tokens, t) \subseteq Tokens
           /\ IsFiniteSet(LiveChildren(tokens, t))
           /\ Cardinality(LiveChildren(tokens, t)) \in Nat
<1>1. LiveChildren(tokens, t) \subseteq Tokens
  BY DEF LiveChildren
<1> QED
  BY <1>1, TokensFinite

LEMMA StampedTyped ==
    ASSUME ServerTypes, NEW t \in Tokens
    PROVE  Stamped(t) \in [Tokens -> TokenRows]
<1>1. ASSUME NEW s \in Tokens
      PROVE  /\ [tokens[s] EXCEPT !.used = TRUE] \in TokenRows
             /\ [tokens[s] EXCEPT !.superseded = TRUE] \in TokenRows
             /\ tokens[s] \in TokenRows
  BY TokenRow DEF TokenRows
<1> QED
  BY <1>1 DEF Stamped

LEMMA ServerTypesKept ==
    ASSUME ServerTypes, ClientTypes, CallsAreWhole, [Next]_vars
    PROVE  ServerTypes'
<1>1. /\ tokens \in [Tokens -> TokenRows] /\ grant \in GrantRows
      /\ tombs \subseteq {"lineage", "principal", "renewal_grant"}
      /\ ledger \in [Commands -> LedgerRows]
  BY DEF ServerTypes
<1>2. ASSUME NEW q \in RenewalRequests,
             CommitsAdoption(q) \/ Replays(q) \/ Refuses(q)
      PROVE  ServerTypes'
  <2>1. tokens' = Stamped(q.tok) /\ UNCHANGED <<grant, tombs>>
    BY <1>2 DEF CommitsAdoption, Replays, Refuses
  <2>2. tokens' \in [Tokens -> TokenRows]
    BY <2>1, StampedTyped DEF RenewalRequests
  <2>3. ledger' \in [Commands -> LedgerRows]
    <3>1. Decide(q.tok, Recovering(q))
             \in {"accept", "superseded", "unused", "ended"}
      BY DEF Decide
    <3>2. CASE Refuses(q)
      <4> DEFINE row == [st |-> Decide(q.tok, Recovering(q)), tok |-> 0]
      <4>1. row \in LedgerRows
        BY <3>1, <3>2, Bounds DEF Refuses, LedgerRows
      <4>2. ledger' = [ledger EXCEPT ![q.cmd] = row]
        BY <3>2 DEF Refuses
      <4> HIDE DEF row
      <4> QED
        BY <1>1, <4>1, <4>2
    <3>3. CASE UNCHANGED ledger
      BY <1>1, <3>3
    <3> QED
      BY <1>2, <3>2, <3>3 DEF CommitsAdoption, Replays
  <2> QED
    BY <1>1, <2>1, <2>2, <2>3 DEF ServerTypes
<1>3. ASSUME NEW q \in RenewalRequests, Issues(q)
      PROVE  ServerTypes'
  <2> DEFINE new == Row("live", q.tok, FALSE)
             row == [st |-> "accepted", tok |-> NextToken]
  <2>1. /\ tokens' = [WithoutStranded(q.tok) EXCEPT ![NextToken] = new]
        /\ grant' = Counted(Credited(q.tok), q.tok)
        /\ ledger' = [ledger EXCEPT ![q.cmd] = row]
        /\ UNCHANGED tombs /\ NextToken \in Tokens
    BY <1>3 DEF Issues
  <2>2. new \in TokenRows /\ row \in LedgerRows
    BY <2>1, Bounds DEF TokenRows, LedgerRows, Row, RenewalRequests, Tokens
  <2>3. ASSUME NEW s \in Tokens
        PROVE  [tokens[s] EXCEPT !.row = "revoked", !.stranded = TRUE]
                  \in TokenRows
    BY TokenRow DEF TokenRows
  <2>4. WithoutStranded(q.tok) \in [Tokens -> TokenRows]
    BY <1>1, <2>3 DEF WithoutStranded
  <2>5. Credited(q.tok) \in GrantRows
    <3> DEFINE c == Cardinality(LiveChildren(tokens, q.tok))
    <3>1. c \in Nat /\ grant.stranded + c \in Nat
      BY ChildrenFinite, GrantRow
    <3>2. Credited(q.tok) = [grant EXCEPT !.stranded = grant.stranded + c]
      BY DEF Credited
    <3> HIDE DEF c
    <3> QED
      BY <1>1, <3>1, <3>2 DEF GrantRows
  <2>6. grant' \in GrantRows
    BY <2>1, <2>5 DEF Counted, GrantRows
  <2> HIDE DEF new, row
  <2> QED
    BY <1>1, <2>1, <2>2, <2>4, <2>6 DEF ServerTypes
<1>4. ASSUME \/ RevokePrincipal
             \/ \E t \in Tokens, byHuman \in BOOLEAN : RevokeToken(t, byHuman)
      PROVE  ServerTypes'
  <2>1. /\ grant' = [grant EXCEPT !.revoked = TRUE] /\ UNCHANGED ledger
        /\ tombs' \subseteq {"lineage", "principal", "renewal_grant"}
    BY <1>1, <1>4 DEF RevokePrincipal, RevokeToken
  <2>2. grant' \in GrantRows
    BY <1>1, <2>1 DEF GrantRows
  <2>3. Cascade(tokens) \in [Tokens -> TokenRows]
    BY <1>1, Bounds, CascadeEnds
  <2>4. ASSUME NEW T \in [Tokens -> TokenRows]
        PROVE  Cascade(T) \in [Tokens -> TokenRows]
    BY Bounds, CascadeEnds
  <2>5. ASSUME NEW t \in Tokens, NEW byHuman \in BOOLEAN,
               RevokeToken(t, byHuman)
        PROVE  tokens' \in [Tokens -> TokenRows]
    <3> DEFINE R == [Cascade(tokens) EXCEPT ![t].row = "revoked"]
    <3>1. [Cascade(tokens)[t] EXCEPT !.row = "revoked"] \in TokenRows
      BY <2>3 DEF TokenRows
    <3>2. R \in [Tokens -> TokenRows]
      BY <2>3, <3>1
    <3>3. tokens' \in {R, Cascade(R)}
      BY <2>5 DEF RevokeToken
    <3> HIDE DEF R
    <3> QED
      BY <2>4, <3>2, <3>3
  <2>6. tokens' \in [Tokens -> TokenRows]
    BY <1>4, <2>3, <2>4, <2>5 DEF RevokePrincipal
  <2> QED
    BY <1>1, <2>1, <2>2, <2>6 DEF ServerTypes
<1>5. ASSUME Resume
      PROVE  ServerTypes'
  BY <1>1, <1>5 DEF Resume, ServerTypes, GrantRows
<1>6. ASSUME NEW t \in Tokens, Grows(t)
      PROVE  ServerTypes'
  <2> DEFINE older == [tokens[t] EXCEPT !.age = tokens[t].age + 1]
  <2>1. /\ tokens' = [tokens EXCEPT ![t] = older] /\ tokens[t].age < 2
        /\ UNCHANGED <<grant, tombs, ledger>>
    BY <1>1, <1>6 DEF Grows
  <2>2. tokens[t].age + 1 \in 0 .. 2
    BY <1>1, <2>1 DEF TokenRows
  <2>3. older \in TokenRows
    BY <1>1, <2>2 DEF TokenRows
  <2> HIDE DEF older
  <2> QED
    BY <1>1, <2>1, <2>3 DEF ServerTypes
<1>7. ASSUME HorizonPasses
      PROVE  ServerTypes'
  <2>1. \A t \in Tokens : [tokens[t] EXCEPT !.age = 2] \in TokenRows
    BY TokenRow DEF TokenRows
  <2>2. tokens' \in [Tokens -> TokenRows]
    BY <1>1, <1>7, <2>1 DEF HorizonPasses
  <2>3. grant' \in GrantRows
    BY <1>1, <1>7 DEF HorizonPasses, GrantRows
  <2> QED
    BY <1>1, <1>7, <2>2, <2>3 DEF HorizonPasses, ServerTypes
<1>8. ASSUME NEW p \in Procs, Use(p)
      PROVE  ServerTypes'
  <2>1. mem[p].tok \in Tokens
    BY DEF ClientTypes, Mems
  <2>2. tokens' \in [Tokens -> TokenRows]
    BY <1>1, <1>8, <2>1, StampedTyped DEF Use
  <2> QED
    BY <1>1, <1>8, <2>2 DEF Use, ServerTypes
<1>9. ASSUME UNCHANGED server
      PROVE  ServerTypes'
  BY <1>1, <1>9 DEF server, ServerTypes
<1> QED
  BY <1>2, <1>3, <1>4, <1>5, <1>6, <1>7, <1>8, <1>9, ServerSteps

-----------------------------------------------------------------------------
(* The numbering, and what issuing a token does in it. *)

LEMMA IssuedStays ==
    ASSUME Idles \/ Ends \/ \E t \in Tokens : Uses(t)
    PROVE  /\ Issued' = Issued
           /\ \A t \in Tokens : /\ tokens'[t].pred = tokens[t].pred
                                /\ tokens'[t].stranded = tokens[t].stranded
<1>1. ASSUME NEW t \in Tokens
      PROVE  /\ tokens'[t].pred = tokens[t].pred
             /\ tokens'[t].stranded = tokens[t].stranded
             /\ tokens'[t].row = "none" <=> tokens[t].row = "none"
  BY DEF Idles, SameToken, Ends, Uses
<1> QED
  BY <1>1 DEF Issued

LEMMA GrantsFields ==
    ASSUME ServerTypes, Numbered, NEW t \in Tokens, NEW n \in Tokens,
           Grants(t, n)
    PROVE  /\ n \notin Issued /\ tokens[n].row = "none"
           /\ n = Cardinality(Issued) + 1 /\ Issued' = Issued \cup {n}
           /\ t < n /\ t \in Issued
           /\ t \notin LiveChildren(tokens, t) /\ n \notin LiveChildren(tokens, t)
           /\ tokens'[n] = Row("live", t, FALSE)
           /\ \A s \in LiveChildren(tokens, t) :
                /\ tokens'[s].row = "revoked" /\ tokens'[s].stranded = TRUE
                /\ tokens'[s].pred = tokens[s].pred
                /\ tokens'[s].used = tokens[s].used
                /\ tokens'[s].superseded = tokens[s].superseded
           /\ \A s \in Tokens : \/ s = n \/ s \in LiveChildren(tokens, t)
                                \/ tokens'[s] = tokens[s]
           /\ \A s \in Issued : s < n
<1> DEFINE L == LiveChildren(tokens, t)
<1>1. Cardinality(Issued) \in Nat /\ n = Cardinality(Issued) + 1
  BY IssuedFinite DEF Grants, NextToken
<1>2. \A s \in Issued : s < n
  BY <1>1 DEF Numbered
<1>3. n \notin Issued /\ tokens[n].row = "none"
  BY <1>1, <1>2 DEF Issued, Tokens
<1>4. t \in Issued /\ t < n
  BY <1>2 DEF Grants, Issued
<1>5. n \notin L /\ L \subseteq Tokens /\ L \subseteq Issued
  BY <1>3 DEF LiveChildren, Issued
<1>6. t \notin L
  BY <1>4 DEF Numbered, LiveChildren, Tokens
<1>7. tokens'[n] = Row("live", t, FALSE)
  BY DEF Grants
<1>8. ASSUME NEW s \in L
      PROVE  /\ tokens'[s].row = "revoked" /\ tokens'[s].stranded = TRUE
             /\ tokens'[s].pred = tokens[s].pred
             /\ tokens'[s].used = tokens[s].used
             /\ tokens'[s].superseded = tokens[s].superseded
  <2>1. tokens'[s] = [tokens[s] EXCEPT !.row = "revoked", !.stranded = TRUE]
    BY <1>5 DEF Grants
  <2>2. tokens[s] \in TokenRows
    BY <1>5, TokenRow
  <2> QED
    BY <2>1, <2>2 DEF TokenRows
<1>9. \A s \in Tokens : s = n \/ s \in L \/ tokens'[s] = tokens[s]
  BY DEF Grants
<1>10. Issued' = Issued \cup {n}
  <2>1. tokens'[n].row = "live"
    BY <1>7 DEF Row
  <2> QED
    BY <1>5, <1>8, <1>9, <2>1 DEF Issued
<1> HIDE DEF L
<1> QED
  BY <1>1, <1>2, <1>3, <1>4, <1>5, <1>6, <1>7, <1>8, <1>9, <1>10 DEF L

\* The same step, read column by column.
LEMMA GrantsColumns ==
    ASSUME ServerTypes, Numbered, NEW t \in Tokens, NEW n \in Tokens,
           Grants(t, n)
    PROVE  /\ \A s \in Tokens \ {n} :
                /\ tokens'[s].pred = tokens[s].pred
                /\ tokens'[s].used = tokens[s].used
                /\ tokens'[s].superseded = tokens[s].superseded
                /\ s \in LiveChildren(tokens, t) =>
                      tokens'[s].row = "revoked" /\ tokens'[s].stranded
                /\ s \notin LiveChildren(tokens, t) =>
                      /\ tokens'[s].row = tokens[s].row
                      /\ tokens'[s].stranded = tokens[s].stranded
           /\ tokens'[n].row = "live" /\ tokens'[n].pred = t
           /\ ~tokens'[n].used /\ ~tokens'[n].superseded
           /\ ~tokens'[n].stranded
<1>1. /\ tokens'[n] = Row("live", t, FALSE)
      /\ \A s \in LiveChildren(tokens, t) :
            /\ tokens'[s].row = "revoked" /\ tokens'[s].stranded = TRUE
            /\ tokens'[s].pred = tokens[s].pred
            /\ tokens'[s].used = tokens[s].used
            /\ tokens'[s].superseded = tokens[s].superseded
      /\ \A s \in Tokens : \/ s = n \/ s \in LiveChildren(tokens, t)
                            \/ tokens'[s] = tokens[s]
  BY GrantsFields
<1>2. /\ tokens'[n].row = "live" /\ tokens'[n].pred = t
      /\ ~tokens'[n].used /\ ~tokens'[n].superseded
      /\ ~tokens'[n].stranded
  BY <1>1 DEF Row
<1>3. ASSUME NEW s \in Tokens \ {n}
      PROVE  /\ tokens'[s].pred = tokens[s].pred
             /\ tokens'[s].used = tokens[s].used
             /\ tokens'[s].superseded = tokens[s].superseded
             /\ s \in LiveChildren(tokens, t) =>
                   tokens'[s].row = "revoked" /\ tokens'[s].stranded
             /\ s \notin LiveChildren(tokens, t) =>
                   /\ tokens'[s].row = tokens[s].row
                   /\ tokens'[s].stranded = tokens[s].stranded
  <2>1. CASE s \in LiveChildren(tokens, t)
    <3>1. /\ tokens'[s].row = "revoked" /\ tokens'[s].stranded = TRUE
          /\ tokens'[s].pred = tokens[s].pred
          /\ tokens'[s].used = tokens[s].used
          /\ tokens'[s].superseded = tokens[s].superseded
      BY <1>1, <2>1
    <3> QED
      BY <2>1, <3>1
  <2>2. CASE s \notin LiveChildren(tokens, t)
    <3>1. tokens'[s] = tokens[s]
      BY <1>1, <2>2
    <3> QED
      BY <2>2, <3>1
  <2> QED
    BY <2>1, <2>2
<1> QED
  BY <1>2, <1>3

LEMMA NumberedKept ==
    ASSUME ServerTypes, ClientTypes, CallsAreWhole, Numbered, [Next]_vars
    PROVE  Numbered'
<1>1. ASSUME Idles \/ Ends \/ \E t \in Tokens : Uses(t)
      PROVE  Numbered'
  <2>1. Issued' = Issued /\ Issued \subseteq Tokens
    BY <1>1, IssuedStays DEF Issued
  <2> QED
    BY <1>1, <2>1, IssuedStays DEF Numbered
<1>2. ASSUME NEW t \in Tokens, NEW n \in Tokens, Grants(t, n)
      PROVE  Numbered'
  <2> DEFINE c == Cardinality(Issued)
  <2>1. /\ n = c + 1 /\ Issued' = Issued \cup {n} /\ t < n
        /\ tokens'[n] = Row("live", t, FALSE)
    BY <1>2, GrantsFields
  <2>2. \A s \in Issued : tokens'[s].pred = tokens[s].pred
    <3>1. n \notin Issued
      BY <1>2, GrantsFields
    <3>2. \A s \in Tokens \ {n} : tokens'[s].pred = tokens[s].pred
      BY <1>2, GrantsColumns
    <3> QED
      BY <3>1, <3>2, IssuedFinite
  <2>3. c \in Nat
    BY IssuedFinite
  <2>4. Issued = 1 .. c /\ Root \in Issued /\ \A s \in Issued : tokens[s].pred < s
    BY DEF Numbered
  <2> HIDE DEF c
  <2>5. Issued' = 1 .. n
    BY <2>1, <2>3, <2>4
  <2>6. Cardinality(1 .. n) = n
    BY <2>1, <2>3, FS_Interval
  <2>7. Issued' = 1 .. Cardinality(Issued')
    BY <2>5, <2>6
  <2>8. tokens'[n].pred = t
    BY <2>1 DEF Row
  <2>9. \A s \in Issued' : tokens'[s].pred < s
    BY <2>1, <2>2, <2>4, <2>8
  <2> QED
    BY <2>1, <2>4, <2>7, <2>9 DEF Numbered
<1> QED
  BY <1>1, <1>2, LineageSteps

-----------------------------------------------------------------------------
(* The other parts of the invariant, by the four things a step may do. *)

LineageStep ==
    \/ Idles
    \/ \E t \in Tokens : Uses(t)
    \/ \E t, n \in Tokens : Grants(t, n)
    \/ Ends

LEMMA HandedOverTo ==
    ASSUME NEW T, NEW t
    PROVE  HandedOver(T, t) <=>
             \E s \in Tokens : T[s].row = "live" /\ T[s].pred = t /\ T[s].used
  BY DEF HandedOver, LiveChildren

\* A renewal is only granted under a grant in force, to a token nobody has
\* succeeded for good.
LEMMA GrantsInForce ==
    ASSUME OneSuccessor, NEW t \in Tokens, NEW n \in Tokens, Grants(t, n)
    PROVE  ~grant.revoked /\ ~HandedOver(tokens, t)
<1>1. ~grant.revoked
  BY DEF Grants, Admitted, Authorised
<1>2. ASSUME HandedOver(tokens, t)
      PROVE  FALSE
  <2>1. PICK s \in LiveChildren(tokens, t) : tokens[s].used
    BY <1>2 DEF HandedOver
  <2>2. PICK r \in LiveChildren(tokens, t) : ~tokens[r].used
    BY <2>1 DEF Grants
  <2>3. r = s
    BY <2>1, <2>2 DEF OneSuccessor, LiveChildren
  <2> QED
    BY <2>1, <2>2, <2>3
<1> QED
  BY <1>1, <1>2

LEMMA StrandedEndedKept ==
    ASSUME ServerTypes, Numbered, StrandedEnded, LineageStep
    PROVE  StrandedEnded'
<1>1. ASSUME Idles \/ \E t \in Tokens : Uses(t)
      PROVE  StrandedEnded'
  BY <1>1 DEF Idles, SameToken, Uses, StrandedEnded
<1>2. ASSUME Ends
      PROVE  StrandedEnded'
  BY <1>2 DEF Ends, StrandedEnded
<1>3. ASSUME NEW t \in Tokens, NEW n \in Tokens, Grants(t, n)
      PROVE  StrandedEnded'
  <2>1. /\ ~tokens'[n].stranded
        /\ \A s \in Tokens \ {n} :
              /\ s \in LiveChildren(tokens, t) => tokens'[s].row = "revoked"
              /\ s \notin LiveChildren(tokens, t) =>
                    /\ tokens'[s].row = tokens[s].row
                    /\ tokens'[s].stranded = tokens[s].stranded
    BY <1>3, GrantsColumns
  <2> QED
    BY <2>1 DEF StrandedEnded
<1> QED
  BY <1>1, <1>2, <1>3 DEF LineageStep

LEMMA OneSuccessorKept ==
    ASSUME ServerTypes, Numbered, OneSuccessor, LineageStep
    PROVE  OneSuccessor'
<1>1. ASSUME Idles \/ \E t \in Tokens : Uses(t)
      PROVE  OneSuccessor'
  <2>1. \A s \in Tokens : /\ tokens'[s].row = tokens[s].row
                          /\ tokens'[s].pred = tokens[s].pred
    BY <1>1 DEF Idles, SameToken, Uses
  <2> QED
    BY <2>1 DEF OneSuccessor
<1>2. ASSUME Ends
      PROVE  OneSuccessor'
  <2>1. \A s \in Tokens :
            /\ tokens'[s].row = "live" => tokens[s].row = "live"
            /\ tokens'[s].pred = tokens[s].pred
    BY <1>2 DEF Ends
  <2> QED
    BY <2>1 DEF OneSuccessor
<1>3. ASSUME NEW t \in Tokens, NEW n \in Tokens, Grants(t, n)
      PROVE  OneSuccessor'
  <2>1. /\ tokens'[n].pred = t
        /\ \A s \in Tokens \ {n} :
              /\ tokens'[s].pred = tokens[s].pred
              /\ tokens'[s].row = "live" =>
                    tokens[s].row = "live" /\ s \notin LiveChildren(tokens, t)
    BY <1>3, GrantsColumns
  <2>2. \A s \in Tokens \ {n} : tokens'[s].row = "live" => tokens[s].pred # t
    BY <2>1 DEF LiveChildren
  <2> QED
    BY <2>1, <2>2 DEF OneSuccessor
<1> QED
  BY <1>1, <1>2, <1>3 DEF LineageStep

LEMMA RevokedWithGrantKept ==
    ASSUME ServerTypes, Numbered, OneSuccessor, RevokedWithGrant, LineageStep
    PROVE  RevokedWithGrant'
<1>1. ASSUME Idles \/ \E t \in Tokens : Uses(t)
      PROVE  RevokedWithGrant'
  BY <1>1 DEF Idles, SameToken, Uses, RevokedWithGrant
<1>2. ASSUME Ends
      PROVE  RevokedWithGrant'
  BY <1>2 DEF Ends, RevokedWithGrant
<1>3. ASSUME NEW t \in Tokens, NEW n \in Tokens, Grants(t, n)
      PROVE  RevokedWithGrant'
  <2>1. /\ tokens'[n].row = "live"
        /\ \A s \in Tokens \ {n} :
              /\ s \in LiveChildren(tokens, t) => tokens'[s].stranded
              /\ s \notin LiveChildren(tokens, t) =>
                    /\ tokens'[s].row = tokens[s].row
                    /\ tokens'[s].stranded = tokens[s].stranded
    BY <1>3, GrantsColumns
  <2>2. ~grant.revoked
    BY <1>3, GrantsInForce
  <2> QED
    BY <2>1, <2>2 DEF RevokedWithGrant
<1> QED
  BY <1>1, <1>2, <1>3 DEF LineageStep

LEMMA SupersededByUseKept ==
    ASSUME ServerTypes, Numbered, OneSuccessor, SupersededByUse, LineageStep
    PROVE  SupersededByUse'
<1>1. ASSUME Idles
      PROVE  SupersededByUse'
  <2>1. \A t \in Tokens : SameToken(t)
    BY <1>1 DEF Idles
  <2>2. \A t \in Tokens : HandedOver(tokens, t) => HandedOver(tokens', t)
    BY <2>1, HandedOverTo DEF SameToken
  <2> QED
    BY <1>1, <2>1, <2>2 DEF Idles, SameToken, SupersededByUse
<1>2. ASSUME NEW u \in Tokens, Uses(u)
      PROVE  SupersededByUse'
  <2>1. /\ tokens[u].row = "live" /\ UNCHANGED grant
        /\ \A s \in Tokens :
              /\ tokens'[s].row = tokens[s].row
              /\ tokens'[s].pred = tokens[s].pred
              /\ tokens'[s].used <=> tokens[s].used \/ s = u
              /\ tokens'[s].superseded => \/ tokens[s].superseded
                                          \/ s = tokens[u].pred
    BY <1>2 DEF Uses
  <2>2. \A t \in Tokens : HandedOver(tokens, t) => HandedOver(tokens', t)
    BY <2>1, HandedOverTo
  <2>3. \A t \in Tokens : t = tokens[u].pred => HandedOver(tokens', t)
    BY <2>1, HandedOverTo
  <2> QED
    BY <2>1, <2>2, <2>3 DEF SupersededByUse
<1>3. ASSUME NEW u \in Tokens, NEW n \in Tokens, Grants(u, n)
      PROVE  SupersededByUse'
  <2>1. /\ ~tokens'[n].superseded
        /\ \A s \in Tokens \ {n} :
              /\ tokens'[s].pred = tokens[s].pred
              /\ tokens'[s].used = tokens[s].used
              /\ tokens'[s].superseded = tokens[s].superseded
              /\ tokens'[s].row = "live" => tokens[s].row = "live"
              /\ s \notin LiveChildren(tokens, u) =>
                    tokens'[s].row = tokens[s].row
    BY <1>3, GrantsColumns
  <2>2. ~grant.revoked /\ ~HandedOver(tokens, u) /\ tokens[n].row = "none"
    BY <1>3, GrantsInForce, GrantsFields
  <2>3. ASSUME NEW t \in Tokens, tokens'[t].row = "live", tokens'[t].superseded
        PROVE  HandedOver(tokens', t)
    <3>1. t # n /\ tokens[t].row = "live" /\ tokens[t].superseded
      BY <2>1, <2>3
    <3>2. HandedOver(tokens, t)
      BY <2>2, <3>1 DEF SupersededByUse
    <3>3. PICK s \in Tokens :
             tokens[s].row = "live" /\ tokens[s].pred = t /\ tokens[s].used
      BY <3>2, HandedOverTo
    <3>4. s # n /\ s \notin LiveChildren(tokens, u)
      BY <2>2, <3>2, <3>3 DEF LiveChildren
    <3> QED
      BY <2>1, <3>3, <3>4, HandedOverTo
  <2> QED
    BY <2>3 DEF SupersededByUse
<1>4. ASSUME Ends
      PROVE  SupersededByUse'
  BY <1>4 DEF Ends, SupersededByUse
<1> QED
  BY <1>1, <1>2, <1>3, <1>4 DEF LineageStep

LEMMA LineageIsChainKept ==
    ASSUME ServerTypes, Numbered, OneSuccessor, SupersededByUse,
           LineageIsChain, LineageStep
    PROVE  LineageIsChain'
<1>1. ASSUME Idles
      PROVE  LineageIsChain'
  BY <1>1 DEF Idles, SameToken, LineageIsChain
<1>2. ASSUME NEW u \in Tokens, Uses(u)
      PROVE  LineageIsChain'
  <2>1. /\ UNCHANGED grant
        /\ \A s \in Tokens :
              /\ tokens'[s].row = tokens[s].row
              /\ tokens'[s].pred = tokens[s].pred
              /\ tokens'[s].used <=> tokens[s].used \/ s = u
              /\ tokens[s].superseded => tokens'[s].superseded
              /\ s = tokens[u].pred /\ s # u /\ ~tokens[u].used
                    /\ tokens[s].row = "live" => tokens'[s].superseded
    BY <1>2 DEF Uses
  <2>2. ASSUME ~grant.revoked, NEW t \in Tokens, NEW s \in Tokens, t < s,
               tokens'[t].row = "live", tokens'[s].row = "live"
        PROVE  \/ tokens'[t].superseded
               \/ tokens'[s].pred = t /\ ~tokens'[s].used
    <3>1. \/ tokens[t].superseded
          \/ tokens[s].pred = t /\ ~tokens[s].used
      BY <2>1, <2>2 DEF LineageIsChain
    <3>2. t # s
      BY <2>2 DEF Tokens
    <3> QED
      BY <2>1, <2>2, <3>1, <3>2
  <2> QED
    BY <2>1, <2>2 DEF LineageIsChain
<1>3. ASSUME NEW u \in Tokens, NEW n \in Tokens, Grants(u, n)
      PROVE  LineageIsChain'
  <2>1. /\ tokens'[n].pred = u /\ ~tokens'[n].used
        /\ \A s \in Tokens \ {n} :
              /\ tokens'[s].pred = tokens[s].pred
              /\ tokens'[s].used = tokens[s].used
              /\ tokens'[s].superseded = tokens[s].superseded
              /\ tokens'[s].row = "live" =>
                    tokens[s].row = "live" /\ s \notin LiveChildren(tokens, u)
    BY <1>3, GrantsColumns
  <2>2. ~grant.revoked /\ ~HandedOver(tokens, u)
    BY <1>3, GrantsInForce
  <2>3. tokens[u].row = "live" /\ tokens[u].used
    BY <1>3 DEF Grants
  <2>4. \A s \in Issued : s < n
    BY <1>3, GrantsFields
  <2>5. ASSUME NEW t \in Tokens, NEW s \in Tokens, t < s,
               tokens'[t].row = "live", tokens'[s].row = "live"
        PROVE  \/ tokens'[t].superseded
               \/ tokens'[s].pred = t /\ ~tokens'[s].used
    <3>1. t # n
      <4>1. s = n \/ s < n
        BY <2>1, <2>4, <2>5 DEF Issued
      <4> QED
        BY <2>5, <4>1 DEF Tokens
    <3>2. tokens[t].row = "live" /\ t \notin LiveChildren(tokens, u)
      BY <2>1, <2>5, <3>1
    <3>3. CASE s # n
      <4>1. tokens[s].row = "live"
        BY <2>1, <2>5, <3>3
      <4>2. \/ tokens[t].superseded
            \/ tokens[s].pred = t /\ ~tokens[s].used
        BY <2>2, <2>5, <3>2, <4>1 DEF LineageIsChain
      <4> QED
        BY <2>1, <3>1, <3>3, <4>2
    <3>4. CASE s = n /\ t = u
      BY <2>1, <3>4
    <3>5. CASE s = n /\ t < u
      <4>1. tokens[t].superseded
        BY <2>2, <2>3, <3>2, <3>5 DEF LineageIsChain
      <4> QED
        BY <2>1, <3>1, <4>1
    <3>6. CASE s = n /\ u < t
      <4>1. \/ tokens[u].superseded
            \/ tokens[t].pred = u /\ ~tokens[t].used
        BY <2>2, <2>3, <3>2, <3>6 DEF LineageIsChain
      <4>2. ~tokens[u].superseded
        BY <2>2, <2>3 DEF SupersededByUse
      <4>3. tokens[t].pred # u
        BY <3>2 DEF LiveChildren
      <4> QED
        BY <4>1, <4>2, <4>3
    <3>7. t = u \/ t < u \/ u < t
      BY Bounds DEF Tokens
    <3> QED
      BY <3>3, <3>4, <3>5, <3>6, <3>7
  <2> QED
    BY <2>5 DEF LineageIsChain
<1>4. ASSUME Ends
      PROVE  LineageIsChain'
  BY <1>4 DEF Ends, LineageIsChain
<1> QED
  BY <1>1, <1>2, <1>3, <1>4 DEF LineageStep

\* Replaced successors leave the account as the new one enters it.
LEMMA BudgetKept ==
    ASSUME ServerTypes, Numbered, StrandedEnded, BudgetIsExact, LineageStep
    PROVE  BudgetIsExact'
<1> DEFINE C == {t \in Issued \ {Root} : ~tokens[t].stranded}
<1>1. ASSUME Idles \/ Ends \/ \E t \in Tokens : Uses(t)
      PROVE  BudgetIsExact'
  <2>1. SameBudget
    BY <1>1 DEF Idles, Ends, Uses, SameBudget
  <2>2. C' = C
    BY <1>1, IssuedStays, IssuedFinite
  <2> QED
    BY <2>1, <2>2 DEF SameBudget, BudgetIsExact
<1>2. ASSUME NEW t \in Tokens, NEW n \in Tokens, Grants(t, n)
      PROVE  BudgetIsExact'
  <2> DEFINE L == LiveChildren(tokens, t)
             l == Cardinality(L)
  <2>1. L \subseteq C
    <3>1. ASSUME NEW s \in L
          PROVE  s \in C
      <4>1. /\ s \in Tokens /\ s \in Issued /\ tokens[s].row = "live"
            /\ tokens[s].pred = t
        BY DEF LiveChildren, Issued
      <4>2. ~tokens[s].stranded
        BY <4>1 DEF StrandedEnded
      <4>3. s # Root
        BY <4>1 DEF Numbered, Root, Tokens
      <4> QED
        BY <4>1, <4>2, <4>3
    <3> QED
      BY <3>1
  <2>2. /\ n \notin Issued /\ Issued' = Issued \cup {n} /\ t < n
        /\ \A s \in Tokens \ {n} :
              /\ s \in L => tokens'[s].stranded
              /\ s \notin L => tokens'[s].stranded = tokens[s].stranded
        /\ ~tokens'[n].stranded
    BY <1>2, GrantsFields, GrantsColumns
  <2>3. n # Root /\ n \notin C
    BY <2>2 DEF Root, Tokens
  <2>4. C' = (C \ L) \cup {n}
    BY <2>1, <2>2, <2>3, IssuedFinite
  <2>5. IsFiniteSet(C) /\ Cardinality(C) \in Nat /\ l \in Nat
    BY IssuedFinite, TokensFinite, ChildrenFinite
  <2>6. C \cap L = L
    BY <2>1
  <2> HIDE DEF C, L
  <2>7. IsFiniteSet(C \ L) /\ Cardinality(C \ L) = Cardinality(C) - l
    BY <2>5, <2>6, FS_Difference
  <2>8. Cardinality(C') = Cardinality(C) - l + 1
    BY <2>3, <2>4, <2>7, FS_AddElement
  <2>9. /\ grant'.kind = grant.kind /\ grant'.used = grant.used + 1
        /\ grant'.stranded = grant.stranded + l
        /\ Credited(t).used = grant.used
        /\ Credited(t).stranded = grant.stranded + l
    <3>1. grant' = [Credited(t) EXCEPT !.used = Credited(t).used + 1]
      BY <1>2 DEF Grants, Counted
    <3>2. Credited(t) = [grant EXCEPT !.stranded = grant.stranded + l]
      BY DEF Credited, L
    <3>3. grant \in GrantRows
      BY GrantRow
    <3> HIDE DEF l
    <3>4. /\ Credited(t).kind = grant.kind /\ Credited(t).used = grant.used
          /\ Credited(t).stranded = grant.stranded + l
          /\ DOMAIN Credited(t) = DOMAIN grant
      BY <3>2, <3>3 DEF GrantRows
    <3>5. "used" \in DOMAIN Credited(t)
      BY <3>3, <3>4 DEF GrantRows
    <3> QED
      BY <3>1, <3>2, <3>3, <3>4, <3>5 DEF GrantRows
  <2>10. grant.kind = "timeboxed" =>
            grant.used - (grant.stranded + l) < MaxSuccessors
    BY <1>2, <2>9 DEF Grants
  <2>11. grant.used - grant.stranded = Cardinality(C)
    BY DEF BudgetIsExact, C
  <2>12. grant.used \in Nat /\ grant.stranded \in Nat
    BY GrantRow
  <2> HIDE DEF l
  <2>13. /\ grant'.used - grant'.stranded = Cardinality(C')
         /\ grant'.kind = "timeboxed" =>
               grant'.used - grant'.stranded <= MaxSuccessors
    BY <2>5, <2>8, <2>9, <2>10, <2>11, <2>12, Bounds
  <2> QED
    BY <2>13 DEF BudgetIsExact, C
<1> QED
  BY <1>1, <1>2 DEF LineageStep

-----------------------------------------------------------------------------
(* The invariant. *)

LEMMA InitInv == Init => Inv
<1> SUFFICES ASSUME Init PROVE Inv
  OBVIOUS
<1> DEFINE fresh == Row("live", 0, FALSE)
           none  == Row("none", 0, FALSE)
<1>1. /\ tokens = [t \in Tokens |-> IF t = Root THEN fresh ELSE none]
      /\ grant \in [kind : Kinds, used : {0}, stranded : {0},
                    revoked : {FALSE}, suspended : BOOLEAN, horizon : {FALSE}]
      /\ tombs = {}
      /\ ledger = [c \in Commands |-> [st |-> "absent", tok |-> 0]]
  BY DEF Init
<1>2. /\ fresh \in TokenRows /\ fresh.row = "live" /\ fresh.pred = 0
      /\ ~fresh.superseded /\ ~fresh.stranded
      /\ none \in TokenRows /\ none.row = "none" /\ none.pred = 0
      /\ ~none.superseded /\ ~none.stranded
  BY Bounds DEF Row, TokenRows
<1>3. grant.used = 0 /\ grant.stranded = 0 /\ ~grant.revoked
  BY <1>1
<1> HIDE DEF fresh, none
<1>4. ServerTypes
  <2>1. [st |-> "absent", tok |-> 0] \in LedgerRows
    BY Bounds DEF LedgerRows
  <2>2. tokens \in [Tokens -> TokenRows]
    BY <1>1, <1>2
  <2>3. grant \in GrantRows
    <3>1. PICK k \in Kinds, b \in BOOLEAN :
             grant = [kind |-> k, used |-> 0, stranded |-> 0,
                      revoked |-> FALSE, suspended |-> b, horizon |-> FALSE]
      BY <1>1
    <3> QED
      BY <3>1 DEF GrantRows
  <2>4. ledger \in [Commands -> LedgerRows]
    BY <1>1, <2>1
  <2> QED
    BY <1>1, <2>2, <2>3, <2>4 DEF ServerTypes
<1>5. ClientTypes /\ CallsAreWhole
  <2>1. NoCall.ans = "none"
    BY DEF NoCall
  <2> QED
    BY <2>1, RootRecord, Bounds DEF Init, ClientTypes, CallsAreWhole
<1>6. Issued = {Root}
  BY <1>1, <1>2, Bounds DEF Issued
<1>7. Numbered
  <2>1. Cardinality(Issued) = 1
    BY <1>6, FS_Singleton
  <2>2. Issued = 1 .. 1
    BY <1>6 DEF Root
  <2>3. tokens[Root].pred < Root
    BY <1>1, <1>2, Bounds DEF Root
  <2> QED
    BY <1>6, <2>1, <2>2, <2>3 DEF Numbered
<1>8. \A t \in Tokens : /\ ~tokens[t].stranded /\ ~tokens[t].superseded
                        /\ tokens[t].row # "revoked"
                        /\ tokens[t].row = "live" => t = Root
  BY <1>1, <1>2
<1>9. StrandedEnded /\ OneSuccessor /\ RevokedWithGrant /\ SupersededByUse
  BY <1>8 DEF StrandedEnded, OneSuccessor, RevokedWithGrant, SupersededByUse
<1>10. LineageIsChain
  BY <1>8 DEF LineageIsChain, Tokens
<1>11. BudgetIsExact
  <2>1. {t \in Issued \ {Root} : ~tokens[t].stranded} = {}
    BY <1>6
  <2>2. Cardinality({t \in Issued \ {Root} : ~tokens[t].stranded}) = 0
    BY <2>1, FS_EmptySet
  <2> QED
    BY <1>3, <2>2, Bounds DEF BudgetIsExact
<1> QED
  BY <1>4, <1>5, <1>7, <1>9, <1>10, <1>11 DEF Inv

LEMMA InvKept == Inv /\ [Next]_vars => Inv'
<1> SUFFICES ASSUME Inv, [Next]_vars PROVE Inv'
  OBVIOUS
<1>1. /\ ServerTypes /\ ClientTypes /\ CallsAreWhole /\ Numbered
      /\ StrandedEnded /\ OneSuccessor /\ RevokedWithGrant
      /\ SupersededByUse /\ LineageIsChain /\ BudgetIsExact
  BY DEF Inv
<1>2. LineageStep
  BY <1>1, LineageSteps DEF LineageStep
<1>3. ServerTypes' /\ ClientTypes' /\ CallsAreWhole' /\ Numbered'
  BY <1>1, ServerTypesKept, ClientKept, NumberedKept
<1>4. StrandedEnded' /\ OneSuccessor' /\ RevokedWithGrant'
  BY <1>1, <1>2, StrandedEndedKept, OneSuccessorKept, RevokedWithGrantKept
<1>5. SupersededByUse' /\ LineageIsChain' /\ BudgetIsExact'
  BY <1>1, <1>2, SupersededByUseKept, LineageIsChainKept, BudgetKept
<1> QED
  BY <1>3, <1>4, <1>5 DEF Inv

(* Every reachable state satisfies the inductive invariant, whatever the   *)
(* clients, the network, the operators and the clock do to the lineage.    *)
THEOREM Invariance == Spec => []Inv
  BY InitInv, InvKept, PTL DEF Spec

-----------------------------------------------------------------------------
(* What the rows promise, one by one. *)

(* Every column, record and request keeps its type.                        *)
THEOREM TypeCorrect == Spec => []TypeOK
<1>1. Inv => TypeOK
  BY TypesSplit DEF Inv
<1> QED
  BY <1>1, Invariance, PTL

(* Every slot of a timeboxed grant is spent by exactly one successor that  *)
(* could have been delivered; a lost one is credited back.                 *)
THEOREM BudgetStaysExact == Spec => []BudgetIsExact
<1>1. Inv => BudgetIsExact
  BY DEF Inv
<1> QED
  BY <1>1, Invariance, PTL

(* A token revoked by anybody but the service's own housekeeping takes the *)
(* whole lineage with it: no token of it is admitted, to any request.      *)
THEOREM RevocationIsTotal == Spec => []RevocationReachesAll
<1>1. Inv => RevocationReachesAll
  BY DEF Inv, RevokedWithGrant, RevocationReachesAll, Issued, Admitted,
         Authorised
<1> QED
  BY <1>1, Invariance, PTL

LEMMA AtMostOne ==
    ASSUME NEW S, \A x, y \in S : x = y
    PROVE  Cardinality(S) <= 1
<1>1. CASE S = {}
  BY <1>1, FS_EmptySet
<1>2. CASE S # {}
  <2>1. PICK x \in S : S = {x}
    BY <1>2
  <2> QED
    BY <2>1, FS_Singleton
<1> QED
  BY <1>1, <1>2

LEMMA AtMostTwo ==
    ASSUME NEW S, NEW x, NEW y, S \subseteq {x, y}
    PROVE  Cardinality(S) <= 2
<1>1. IsFiniteSet({x}) /\ Cardinality({x}) = 1
  BY FS_Singleton
<1>2. IsFiniteSet({x} \cup {y}) /\ Cardinality({x} \cup {y}) \in {1, 2}
  BY <1>1, FS_AddElement
<1>3. S \in SUBSET ({x} \cup {y})
  OBVIOUS
<1>4. Cardinality(S) <= Cardinality({x} \cup {y}) /\ Cardinality(S) \in Nat
  BY <1>2, <1>3, FS_Subset, FS_CardinalityType
<1> QED
  BY <1>2, <1>4

\* Of two tokens that are admitted the younger is the successor of the older
\* and was never used.
LEMMA AdmittedPairs ==
    ASSUME Inv, NEW t \in Tokens, NEW s \in Tokens, t < s,
           Admitted(t, FALSE), Admitted(s, FALSE)
    PROVE  tokens[s].pred = t /\ ~tokens[s].used
<1>1. /\ ~grant.revoked /\ tokens[t].row = "live" /\ tokens[s].row = "live"
      /\ ~tokens[t].superseded
  BY DEF Admitted, Authorised, Expired
<1> QED
  BY <1>1 DEF Inv, LineageIsChain

(* However many successors a lineage is issued and whoever holds them, one *)
(* token in use is accepted at a time, and one more that is still unused.  *)
THEOREM OverlapStaysBounded == Spec => []OverlapIsBounded
<1>1. ASSUME Inv
      PROVE  OverlapIsBounded
  <2> DEFINE A == {t \in Tokens : Admitted(t, FALSE)}
             U == {t \in Tokens : Admitted(t, FALSE) /\ tokens[t].used}
  <2>1. \A x, y \in A : x = y \/ x < y \/ y < x
    BY Bounds DEF Tokens
  <2>2. \A x, y \in A : x < y => tokens[y].pred = x /\ ~tokens[y].used
    BY <1>1, AdmittedPairs
  <2>3. U \subseteq A /\ \A x \in U : tokens[x].used
    OBVIOUS
  <2>4. Cardinality(U) <= 1
    <3> HIDE DEF A, U
    <3>1. \A x, y \in U : x = y
      BY <2>1, <2>2, <2>3
    <3> QED
      BY <3>1, AtMostOne
  <2>5. A \subseteq Nat
    <3>1. Tokens \subseteq Nat
      BY Bounds DEF Tokens
    <3> QED
      BY <3>1
  <2>6. Cardinality(A) <= 2
    <3> HIDE DEF A, U
    <3>1. CASE \A x, y \in A : x = y
      <4>1. Cardinality(A) <= 1 /\ IsFiniteSet(A)
        BY <3>1, AtMostOne, TokensFinite DEF A
      <4> QED
        BY <4>1, FS_CardinalityType
    <3>2. ASSUME NEW x \in A, NEW y \in A, x # y
          PROVE  A \subseteq {x, y}
      <4>1. ASSUME NEW z \in A, z # x, z # y
            PROVE  FALSE
        BY <2>1, <2>2, <2>5, <3>2, <4>1
      <4> QED
        BY <4>1
    <3> QED
      BY <3>1, <3>2, AtMostTwo
  <2> QED
    BY <2>4, <2>6 DEF OverlapIsBounded
<1> QED
  BY <1>1, Invariance, PTL

(* A renewal the reducer accepts passes agent_tokens_successor_fence and   *)
(* the unique index, on the rows as they are once the undelivered          *)
(* successor is discarded.                                                 *)
THEOREM FencesAgree == Spec => []FenceAgrees
<1>1. ASSUME Inv, NEW t \in Issued, NEW heal \in BOOLEAN,
             Admitted(t, TRUE), Decide(t, heal) = "accept"
      PROVE  FenceAccepts(WithoutStranded(t), Credited(t), t)
  <2> DEFINE T == WithoutStranded(t)
             L == LiveChildren(tokens, t)
             l == Cardinality(L)
  <2>1. /\ ServerTypes /\ t \in Tokens /\ tokens[t].pred < t
        /\ grant \in GrantRows /\ grant.used \in Nat /\ grant.stranded \in Nat
    BY <1>1, GrantRow DEF Inv, Numbered, Issued
  <2>2. /\ tokens[t].row = "live" /\ tombs = {}
        /\ ~grant.revoked /\ ~grant.suspended
    BY <1>1 DEF Admitted, Authorised
  <2>3. /\ ~(L # {} /\ ~SuccessorPending(t, heal))
        /\ ~(Expired(t) /\ grant.kind # "standing")
        /\ ~grant.horizon /\ tokens[t].used /\ ~BudgetSpent(t, heal)
    BY <1>1 DEF Decide
  <2>4. t \notin L
    BY <2>1 DEF LiveChildren, Tokens
  <2>5. T[t].row = "live" /\ T[t].used
    BY <2>1, <2>2, <2>3, <2>4 DEF WithoutStranded
  <2>6. LiveChildren(T, t) = {}
    <3>1. ASSUME NEW s \in Tokens
          PROVE  ~(T[s].row = "live" /\ T[s].pred = t)
      <4>1. CASE s \in L
        <5>1. /\ T[s] = [tokens[s] EXCEPT !.row = "revoked", !.stranded = TRUE]
              /\ tokens[s] \in TokenRows
          BY <2>1, <4>1, TokenRow DEF WithoutStranded
        <5> QED
          BY <5>1 DEF TokenRows
      <4>2. CASE s \notin L
        <5>1. T[s] = tokens[s]
          BY <4>2 DEF WithoutStranded
        <5> QED
          BY <4>2, <5>1 DEF LiveChildren
      <4> QED
        BY <4>1, <4>2
    <3> QED
      BY <3>1 DEF LiveChildren
  <2>7. ~HandedOver(T, t)
    BY <2>6 DEF HandedOver
  <2>8. /\ Credited(t).kind = grant.kind /\ Credited(t).used = grant.used
        /\ Credited(t).stranded = grant.stranded + l
        /\ ~Credited(t).revoked /\ ~Credited(t).suspended
        /\ ~Credited(t).horizon
    <3>1. Credited(t) = [grant EXCEPT !.stranded = grant.stranded + l]
      BY DEF Credited
    <3> HIDE DEF l
    <3> QED
      BY <2>1, <2>2, <2>3, <3>1 DEF GrantRows
  <2>9. IsFiniteSet(L) /\ l \in Nat
    BY ChildrenFinite
  <2>10. l = 0 <=> L = {}
    BY <2>9, FS_EmptySet
  <2>11. SuccessorPending(t, heal) <=> L # {}
    BY <2>3 DEF SuccessorPending
  <2> HIDE DEF T, L, l
  <2>12. grant.kind = "timeboxed" =>
            Credited(t).used - Credited(t).stranded < MaxSuccessors
    <3>1. CASE L = {}
      <4>1. l = 0 /\ ~SuccessorPending(t, heal)
        BY <2>10, <2>11, <3>1
      <4> QED
        BY <2>1, <2>3, <2>8, <4>1, Bounds DEF BudgetSpent
    <3>2. CASE L # {}
      <4>1. l > 0 /\ SuccessorPending(t, heal)
        BY <2>9, <2>10, <2>11, <3>2
      <4>2. grant.kind = "timeboxed" =>
               grant.used - grant.stranded < MaxSuccessors + 1
        BY <2>1, <2>3, <4>1, Bounds DEF BudgetSpent
      <4> QED
        BY <2>1, <2>8, <2>9, <4>1, <4>2, Bounds
    <3> QED
      BY <3>1, <3>2
  <2>13. ~Expired(t) \/ grant.kind = "standing"
    BY <2>3
  <2> QED
    BY <2>2, <2>5, <2>6, <2>7, <2>8, <2>12, <2>13 DEF FenceAccepts, T
<1>2. Inv => FenceAgrees
  BY <1>1 DEF FenceAgrees
<1> QED
  BY <1>2, Invariance, PTL

=============================================================================
