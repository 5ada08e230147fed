---------------------------- MODULE TokenRenewal ----------------------------
(***************************************************************************)
(* One agent credential lineage: the root token a human minted with its    *)
(* renewal grant, the successors renew_agent_token issues, and the client  *)
(* processes that hold them in a credential store on disk.                 *)
(*                                                                         *)
(* A server action is one committed transaction: the credential plan locks *)
(* the principal, its grants and its tokens first, so two transactions on  *)
(* one lineage exclude each other and the fence of the successor INSERT    *)
(* sees the rows the decision saw.  What the client does between two       *)
(* awaits is one action.  A transaction that is rolled back (a 401 or a    *)
(* 403) changes no row.                                                    *)
(*                                                                         *)
(* Tokens are numbered in the order they were issued, 1 being the root; 0  *)
(* stands for no token and for no command.  A token's age is 0 while it is *)
(* younger than five minutes, 1 once it is older than that and due for     *)
(* renewal, 2 past its expires_at.  Older tokens age first: a renewal is   *)
(* sent within the last minutes of its predecessor, and the successor      *)
(* lives an hour.                                                          *)
(***************************************************************************)
EXTENDS Naturals, FiniteSets

CONSTANTS
    Procs,          \* client processes holding the lineage
    MaxTokens,      \* bound on the tokens of the lineage
    MaxCommands,    \* bound on the renewal command ids drawn
    MaxSuccessors,  \* max_successors of a timeboxed grant
    MaxAging,       \* only the first tokens age: a bound on time
    MaxFaults,      \* bound on lost messages, failed writes and crashes
    Kinds,          \* kinds of renewal grant
    Modes           \* how the processes run: see mode

ASSUME BoundAssumption ==
    /\ {MaxTokens, MaxCommands, MaxAging, MaxFaults} \subseteq Nat
    /\ MaxTokens > 0
    /\ MaxSuccessors \in Nat
    /\ Kinds \subseteq {"standing", "timeboxed"}
    /\ Modes \subseteq {"shared", "copies", "late"}

VARIABLES
    tokens,   \* swarm.agent_tokens, with the 'stranded' tombstones
    grant,    \* the lineage's swarm.renewal_grants row
    tombs,    \* the other swarm.revocation_tombstones of the lineage
    ledger,   \* swarm.idempotency_keys of the principal's renewals
    mode,     \* "shared": one state directory; "copies": one each;
              \* "late": one, and in the last two a request may still be
              \* executed after its sender gave up on it
    store,    \* the credential record of each state directory
    mem,      \* what each process has in memory
    pc,       \* where each process is
    call,     \* the renewal each process has in flight
    late,     \* requests still under way whose sender gave up
    drawn,    \* command ids drawn so far
    faults    \* faults so far

server == <<tokens, grant, tombs, ledger>>
client == <<mode, store, mem, pc, call, drawn>>
vars   == <<server, client, late, faults>>

Tokens   == 1 .. MaxTokens
Commands == 1 .. MaxCommands
Root     == 1

Row(row, pred, used) ==
    [row |-> row, pred |-> pred, used |-> used,
     age |-> 0, superseded |-> FALSE, stranded |-> FALSE]

NoRecord == [tok |-> 0, gen |-> 0, pending |-> 0]
NoCall   == [cmd |-> 0, again |-> FALSE, ans |-> "none", tok |-> 0]

(* The types of the variables.                                             *)
TypeOK ==
    /\ tokens \in [Tokens ->
          [row : {"none", "live", "revoked"}, pred : 0 .. MaxTokens,
           used : BOOLEAN, age : 0 .. 2, superseded : BOOLEAN,
           stranded : BOOLEAN]]
    /\ grant \in [kind : Kinds, used : Nat,
                  stranded : Nat, revoked : BOOLEAN, suspended : BOOLEAN,
                  horizon : BOOLEAN]
    /\ tombs \subseteq {"lineage", "principal", "renewal_grant"}
    /\ ledger \in [Commands ->
          [st : {"absent", "accepted", "superseded", "unused", "ended"},
           tok : 0 .. MaxTokens]]
    /\ mode \in Modes
    /\ store \in [Procs -> [tok : 0 .. MaxTokens, gen : Nat,
                            pending : 0 .. MaxCommands]]
    /\ mem \in [Procs -> [tok : Tokens, gen : Nat,
                          pending : 0 .. MaxCommands]]
    /\ pc \in [Procs -> {"idle", "using", "waiting", "sent", "answered"}]
    /\ call \in [Procs -> [cmd : 0 .. MaxCommands, again : BOOLEAN,
                           ans : {"none", "denied", "accepted", "issued",
                                  "superseded", "unused", "ended"},
                           tok : 0 .. MaxTokens]]
    /\ late \subseteq [tok : Tokens, cmd : Commands]
    /\ drawn \in 0 .. MaxCommands
    /\ faults \in 0 .. MaxFaults

-----------------------------------------------------------------------------
(* The server: authentication.                                             *)

Issued == {t \in Tokens : tokens[t].row # "none"}

Expired(t) == tokens[t].age = 2 \/ tokens[t].superseded

LiveChildren(T, t) ==
    {s \in Tokens : T[s].row = "live" /\ T[s].pred = t}

HandedOver(T, t) == \E s \in LiveChildren(T, t) : T[s].used

(* eligible_renewal: an expired bearer may still renew under a standing    *)
(* grant if it was used, or is an unused root, or its predecessor was used *)
Eligible(t) ==
    /\ grant.kind = "standing"
    /\ \/ tokens[t].used
       \/ tokens[t].pred = 0
       \/ \E s \in Tokens : /\ s = tokens[t].pred
                             /\ tokens[s].used /\ tokens[s].row = "live"
    /\ ~HandedOver(tokens, t)

(* Neither the token nor its grant, principal or lineage is revoked or     *)
(* paused                                                                  *)
Authorised(t) ==
    /\ tokens[t].row = "live"
    /\ ~grant.revoked /\ ~grant.suspended
    /\ tombs = {}

Admitted(t, renewing) ==
    /\ Authorised(t)
    /\ ~Expired(t) \/ (renewing /\ Eligible(t))

\* Fault: the predecessor is left alone.
StampedOnly(t) == [tokens EXCEPT ![t].used = TRUE]

(* The first use of a token is stamped and ends its predecessor            *)
Stamped(t) ==
    [s \in Tokens |->
        CASE s = t -> [tokens[s] EXCEPT !.used = TRUE]
          [] s = tokens[t].pred /\ ~tokens[t].used /\ tokens[s].row = "live"
               -> [tokens[s] EXCEPT !.superseded = TRUE]
          [] OTHER -> tokens[s]]

-----------------------------------------------------------------------------
(* The server: renew_agent_token.                                          *)

(* The successor is disposable: unused, and either the caller repeats the  *)
(* command that issued it (heal) or everything around it is stale          *)
SuccessorPending(t, heal) ==
    \E s \in LiveChildren(tokens, t) :
        /\ ~tokens[s].used
        /\ \/ heal
           \/ /\ grant.kind = "standing" /\ Expired(t)
              /\ tokens[s].age > 0 \/ Expired(s)

LineageRevoked ==
    \/ \E t \in Issued : tokens[t].row = "revoked" /\ ~tokens[t].stranded
    \/ tombs \cap {"lineage", "renewal_grant"} # {}

\* Fault: the ceiling is one too high for a renewal that replaces nothing.
BudgetSpentLate(t, heal) ==
    grant.kind = "timeboxed" /\ grant.used - grant.stranded > MaxSuccessors

BudgetSpent(t, heal) ==
    /\ grant.kind = "timeboxed"
    /\ grant.used - grant.stranded >=
          MaxSuccessors + (IF SuccessorPending(t, heal) THEN 1 ELSE 0)

(* decideWorkspace: "ended" stands for every refusal that needs a person   *)
Decide(t, heal) ==
    IF "principal" \in tombs \/ tokens[t].row = "revoked" THEN "ended"
    ELSE IF LiveChildren(tokens, t) # {} /\ ~SuccessorPending(t, heal)
         THEN "superseded"
    ELSE IF Expired(t) /\ grant.kind # "standing" THEN "ended"
    ELSE IF LineageRevoked \/ grant.revoked \/ grant.suspended \/ grant.horizon
         THEN "ended"
    ELSE IF ~tokens[t].used THEN "unused"
    ELSE IF BudgetSpent(t, heal) THEN "ended"
    ELSE "accept"

(* discardStrandedSuccessor: revoke the undelivered successor, say so in a *)
(* tombstone of its own kind                                               *)
WithoutStranded(t) ==
    [s \in Tokens |->
        IF s \in LiveChildren(tokens, t)
        THEN [tokens[s] EXCEPT !.row = "revoked", !.stranded = TRUE]
        ELSE tokens[s]]

(* ... and credit its slot back                                            *)
Credited(t) ==
    [grant EXCEPT !.stranded = @ + Cardinality(LiveChildren(tokens, t))]

(* agent_tokens_successor_fence and the unique index, on the rows as they  *)
(* are when the successor is inserted                                      *)
FenceAccepts(T, G, t) ==
    /\ T[t].row = "live"
    /\ \/ ~Expired(t)
       \/ G.kind = "standing" /\ T[t].used /\ ~HandedOver(T, t)
    /\ tombs = {}
    /\ ~G.revoked /\ ~G.suspended /\ ~G.horizon
    /\ G.kind = "timeboxed" => G.used - G.stranded < MaxSuccessors
    /\ LiveChildren(T, t) = {}

(* strandedSuccessorOf the answer stored under this command id             *)
Recovering(q) ==
    LET s == ledger[q.cmd].tok IN
    /\ ledger[q.cmd].st = "accepted"
    /\ tokens[s].row = "live" /\ ~tokens[s].used /\ tokens[s].pred # 0

Fresh(q) == ledger[q.cmd].st = "absent" \/ Recovering(q)

\* Fault: a replacement is not counted, its slot having been credited.
CountedOnce(G, t) ==
    IF LiveChildren(tokens, t) = {} THEN [G EXCEPT !.used = @ + 1] ELSE G

(* The successor spends a slot in the trigger that admits it               *)
Counted(G, t) == [G EXCEPT !.used = @ + 1]

NextToken == Cardinality(Issued) + 1

(* An expired token that nobody used yet proves by renewing that somebody  *)
(* holds it: its use is committed alone, and the request starts again      *)
AdoptsPending(q) == Expired(q.tok) /\ ~tokens[q.tok].used

Denies(q) ==
    /\ ~Admitted(q.tok, TRUE)
    /\ UNCHANGED server

CommitsAdoption(q) ==
    /\ Admitted(q.tok, TRUE) /\ AdoptsPending(q)
    /\ tokens' = Stamped(q.tok)
    /\ UNCHANGED <<grant, tombs, ledger>>

Replays(q) ==
    /\ Admitted(q.tok, TRUE) /\ ~AdoptsPending(q)
    /\ ~Fresh(q)
    /\ tokens' = Stamped(q.tok)
    /\ UNCHANGED <<grant, tombs, ledger>>

Refuses(q) ==
    /\ Admitted(q.tok, TRUE) /\ ~AdoptsPending(q)
    /\ Fresh(q)
    /\ Decide(q.tok, Recovering(q)) # "accept"
    /\ tokens' = Stamped(q.tok)
    /\ ledger' = [ledger EXCEPT ![q.cmd] =
                    [st |-> Decide(q.tok, Recovering(q)), tok |-> 0]]
    /\ UNCHANGED <<grant, tombs>>

Issues(q) ==
    /\ Admitted(q.tok, TRUE) /\ ~AdoptsPending(q)
    /\ Fresh(q)
    /\ Decide(q.tok, Recovering(q)) = "accept"
    /\ FenceAccepts(WithoutStranded(q.tok), Credited(q.tok), q.tok)
    /\ NextToken \in Tokens
    /\ tokens' = [WithoutStranded(q.tok) EXCEPT
                    ![NextToken] = Row("live", q.tok, FALSE)]
    /\ grant' = Counted(Credited(q.tok), q.tok)
    /\ ledger' = [ledger EXCEPT ![q.cmd] =
                    [st |-> "accepted", tok |-> NextToken]]
    /\ UNCHANGED tombs

-----------------------------------------------------------------------------
(* The server: revocation by a person, by the agent itself, and resumption *)

Tips(T) ==
    {t \in Tokens : T[t].row = "live" /\ ~HandedOver(T, t)}

(* renewal_grants_revoke_cascade: only the current proof and its pending   *)
(* child are revoked; the tombstone ends the rest                          *)
Cascade(T) ==
    [t \in Tokens |-> IF t \in Tips(T) THEN [T[t] EXCEPT !.row = "revoked"]
                                       ELSE T[t]]

\* Fault: only the token that was named is revoked.
RevokeTokenOnly(t, byHuman) ==
    /\ tokens[t].row = "live" /\ ~grant.revoked
    /\ byHuman \/ Admitted(t, FALSE)
    /\ tokens' = [tokens EXCEPT ![t].row = "revoked"]
    /\ UNCHANGED <<grant, tombs, ledger, client, late, faults>>

(* AgentTokenRevoked; revoke_local_residual_tokens runs for people only.   *)
(* A bound: the lineage is revoked once.  A second revocation finds the    *)
(* grant revoked and can only add tombstones and revoke more rows          *)
RevokeToken(t, byHuman) ==
    /\ tokens[t].row = "live" /\ ~grant.revoked
    /\ byHuman \/ Admitted(t, FALSE)
    /\ LET R == [Cascade(tokens) EXCEPT ![t].row = "revoked"]
       IN  tokens' = IF byHuman THEN Cascade(R) ELSE R
    /\ grant' = [grant EXCEPT !.revoked = TRUE]
    /\ tombs' = tombs \cup {"lineage", "renewal_grant"}
    /\ UNCHANGED <<ledger, client, late, faults>>

(* AgentPrincipalRevoked                                                   *)
RevokePrincipal ==
    /\ ~grant.revoked
    /\ tokens' = Cascade(Cascade(tokens))
    /\ grant' = [grant EXCEPT !.revoked = TRUE]
    /\ tombs' = {"lineage", "principal", "renewal_grant"}
    /\ UNCHANGED <<ledger, client, late, faults>>

(* resume_renewal_grant                                                    *)
Resume ==
    /\ grant.suspended /\ ~grant.revoked
    /\ grant' = [grant EXCEPT !.suspended = FALSE]
    /\ UNCHANGED <<tokens, tombs, ledger, client, late, faults>>

-----------------------------------------------------------------------------
(* Time.                                                                   *)

Grows(t) ==
    /\ t \in Issued /\ t <= MaxAging
    /\ tokens[t].age < 2
    /\ \A s \in Issued : s < t => tokens[s].age > tokens[t].age
                                  \/ tokens[s].age = 2
    /\ tokens' = [tokens EXCEPT ![t].age = @ + 1]
    /\ UNCHANGED <<grant, tombs, ledger, client, late, faults>>

(* A successor's expires_at is capped by the horizon                       *)
HorizonPasses ==
    /\ grant.kind = "timeboxed" /\ ~grant.horizon
    /\ grant' = [grant EXCEPT !.horizon = TRUE]
    /\ tokens' = [t \in Tokens |->
                    IF t \in Issued \ {Root}
                    THEN [tokens[t] EXCEPT !.age = 2] ELSE tokens[t]]
    /\ UNCHANGED <<tombs, ledger, client, late, faults>>

-----------------------------------------------------------------------------
(* The client: AgentCredentialSession.                                     *)

(* The state directory a process runs in                                   *)
Home(p) == IF mode = "copies" THEN p ELSE CHOOSE h \in Procs : TRUE

Record(p) == store[Home(p)]
HasRecord(p) == Record(p).tok # 0 \/ Record(p).pending # 0
Due(t) == tokens[t].age > 0

Holding(m, r) ==
    IF r.tok # 0 THEN [m EXCEPT !.tok = r.tok, !.gen = r.gen] ELSE m

LockFree(p) ==
    \A o \in Procs : Home(o) = Home(p) => pc[o] \notin {"sent", "answered"}

(* What persist() writes: the root is never stored                         *)
Persisted(m) ==
    IF m.tok # Root THEN m
    ELSE IF m.pending # 0 THEN [m EXCEPT !.tok = 0]
    ELSE NoRecord

(* A renewal that could not be completed leaves the process with the       *)
(* bearer it has; a one-shot command goes on with it until it expires      *)
GivesUp(p, m) ==
    /\ mem' = [mem EXCEPT ![p] = m]
    /\ \E next \in {"idle"} \cup (IF tokens[m.tok].age < 2 THEN {"using"}
                                                           ELSE {}) :
          pc' = [pc EXCEPT ![p] = next]
    /\ call' = [call EXCEPT ![p] = NoCall]

\* Fault: the command is sent without saving its id.
SendsUnsaved(p, m, cmd, again) ==
    /\ mem' = [mem EXCEPT ![p] = [m EXCEPT !.pending = cmd]]
    /\ store' = store
    /\ pc' = [pc EXCEPT ![p] = "sent"]
    /\ call' = [call EXCEPT ![p] =
                  [cmd |-> cmd, again |-> again, ans |-> "none", tok |-> 0]]

Sends(p, m, cmd, again) ==
    /\ mem' = [mem EXCEPT ![p] = [m EXCEPT !.pending = cmd]]
    /\ store' = [store EXCEPT ![Home(p)] =
                    Persisted([m EXCEPT !.pending = cmd])]
    /\ pc' = [pc EXCEPT ![p] = "sent"]
    /\ call' = [call EXCEPT ![p] =
                  [cmd |-> cmd, again |-> again, ans |-> "none", tok |-> 0]]

FaultHappens == faults < MaxFaults /\ faults' = faults + 1

(* bearer(): adopt what another process stored, then use it or renew it    *)
Bearer(p) ==
    /\ pc[p] = "idle"
    /\ LET m == IF Record(p).gen > mem[p].gen THEN Holding(mem[p], Record(p))
                                              ELSE mem[p]
       IN  /\ mem' = [mem EXCEPT ![p] = m]
           /\ pc' = [pc EXCEPT ![p] = IF Due(m.tok) THEN "waiting"
                                                    ELSE "using"]
    /\ UNCHANGED <<server, mode, store, call, drawn, late, faults>>

(* renewOnce(), once it has the file lock: look again, then send the saved *)
(* command or a new one                                                    *)
Locked(p) ==
    IF HasRecord(p) /\ Record(p).gen >= mem[p].gen
    THEN [Holding(mem[p], Record(p)) EXCEPT !.pending = Record(p).pending]
    ELSE mem[p]

FindsRenewed(p) ==
    /\ pc[p] = "waiting" /\ LockFree(p)
    /\ ~Due(Locked(p).tok)
    /\ mem' = [mem EXCEPT ![p] = Locked(p)]
    /\ pc' = [pc EXCEPT ![p] = "using"]
    /\ UNCHANGED <<server, mode, store, call, drawn, late, faults>>

Renew(p) ==
    /\ pc[p] = "waiting" /\ LockFree(p)
    /\ Due(Locked(p).tok)
    /\ IF Locked(p).pending # 0
       THEN Sends(p, Locked(p), Locked(p).pending, TRUE) /\ UNCHANGED drawn
       ELSE /\ drawn < MaxCommands
            /\ drawn' = drawn + 1
            /\ Sends(p, Locked(p), drawn + 1, FALSE)
    /\ UNCHANGED <<server, mode, late, faults>>

(* The command could not be saved, or not be read back: it is not sent     *)
SaveFails(p) ==
    LET fresh == Locked(p).pending = 0
        cmd == IF fresh THEN drawn + 1 ELSE Locked(p).pending
        m == [Locked(p) EXCEPT !.pending = cmd]
    IN
    /\ pc[p] = "waiting" /\ LockFree(p) /\ FaultHappens
    /\ Due(Locked(p).tok)
    /\ cmd \in Commands
    /\ drawn' = IF fresh THEN cmd ELSE drawn
    /\ store' \in {store, [store EXCEPT ![Home(p)] = Persisted(m)]}
    /\ GivesUp(p, m)
    /\ UNCHANGED <<server, mode, late>>

(* requestSuccessor() throws: nothing was learned, the command is kept     *)
LoseRequest(p) ==
    /\ pc[p] = "sent" /\ FaultHappens
    /\ GivesUp(p, mem[p])
    /\ \/ UNCHANGED late
       \/ /\ mode # "shared"
          /\ late' = late \cup {[tok |-> mem[p].tok, cmd |-> call[p].cmd]}
    /\ UNCHANGED <<server, mode, store, drawn>>

LoseAnswer(p) ==
    /\ pc[p] = "answered" /\ FaultHappens
    /\ GivesUp(p, mem[p])
    /\ UNCHANGED <<server, mode, store, drawn, late>>

(* The answer to the request of p                                          *)
Answered(p, ans, t) ==
    /\ pc' = [pc EXCEPT ![p] = "answered"]
    /\ call' = [call EXCEPT ![p].ans = ans, ![p].tok = t]
    /\ UNCHANGED <<mode, store, mem, drawn, late, faults>>

Serve(p) ==
    LET q == [tok |-> mem[p].tok, cmd |-> call[p].cmd] IN
    /\ pc[p] = "sent"
    /\ \/ Denies(q) /\ Answered(p, "denied", 0)
       \/ CommitsAdoption(q) /\ UNCHANGED <<client, late, faults>>
       \/ Replays(q) /\ Answered(p, ledger[q.cmd].st, 0)
       \/ Refuses(q) /\ Answered(p, ledger'[q.cmd].st, 0)
       \/ Issues(q) /\ Answered(p, "issued", NextToken)

(* A request its sender no longer waits for                                *)
ServeLate ==
    \E q \in late :
        /\ \/ /\ Denies(q) \/ Replays(q) \/ Refuses(q) \/ Issues(q)
              /\ late' = late \ {q}
           \/ CommitsAdoption(q) /\ UNCHANGED late
        /\ UNCHANGED <<client, faults>>

(* The successor is saved and read back, then adopted                      *)
Adopt(p) ==
    LET r == [tok |-> call[p].tok, gen |-> mem[p].gen + 1, pending |-> 0] IN
    /\ pc[p] = "answered" /\ call[p].ans = "issued"
    /\ store' = [store EXCEPT ![Home(p)] = r]
    /\ mem' = [mem EXCEPT ![p] = r]
    /\ pc' = [pc EXCEPT ![p] = "using"]
    /\ call' = [call EXCEPT ![p] = NoCall]
    /\ UNCHANGED <<server, mode, drawn, late, faults>>

(* saveRecord() failed, before or after the file was replaced              *)
AdoptFails(p) ==
    LET r == [tok |-> call[p].tok, gen |-> mem[p].gen + 1, pending |-> 0] IN
    /\ pc[p] = "answered" /\ call[p].ans = "issued" /\ FaultHappens
    /\ store' \in {store, [store EXCEPT ![Home(p)] = r]}
    /\ GivesUp(p, mem[p])
    /\ UNCHANGED <<server, mode, drawn, late>>

(* A replay carries no secret: try once more under a new command id        *)
NoSecret(p) ==
    /\ pc[p] = "answered" /\ call[p].ans = "accepted"
    /\ IF call[p].again
       THEN /\ drawn < MaxCommands
            /\ drawn' = drawn + 1
            /\ Sends(p, mem[p], drawn + 1, FALSE)
       ELSE GivesUp(p, mem[p]) /\ UNCHANGED <<store, drawn>>
    /\ UNCHANGED <<server, mode, late, faults>>

\* Fault: a refused command is repeated.
Unresolved(m) == m

Resolved(m) == [m EXCEPT !.pending = 0]

(* A decided refusal: forget the command; clearing it on disk may fail.    *)
(* A superseded process adopts what its directory holds and goes on with   *)
(* it unless it expired or is the root                                     *)
Refused(p) ==
    LET m == Resolved(mem[p])
        saved == [store EXCEPT ![Home(p)] = Persisted(m)]
    IN
    /\ pc[p] = "answered"
    /\ call[p].ans \in {"superseded", "unused", "ended"}
    /\ \/ store' = saved /\ UNCHANGED faults
       \/ store' = store /\ FaultHappens
    /\ mem' = [mem EXCEPT ![p] = m]
    /\ pc' = [pc EXCEPT ![p] =
                IF /\ call[p].ans # "ended"
                   /\ tokens[m.tok].age < 2
                   /\ call[p].ans = "superseded" => m.tok # Root
                THEN "using" ELSE "idle"]
    /\ call' = [call EXCEPT ![p] = NoCall]
    /\ UNCHANGED <<server, mode, drawn, late>>

(* 401 and 403 are thrown with the command kept                            *)
Denied(p) ==
    /\ pc[p] = "answered" /\ call[p].ans = "denied"
    /\ pc' = [pc EXCEPT ![p] = "idle"]
    /\ call' = [call EXCEPT ![p] = NoCall]
    /\ UNCHANGED <<server, mode, store, mem, drawn, late, faults>>

(* Any other request, a command or a read, with the bearer in hand         *)
Use(p) ==
    /\ pc[p] = "using"
    /\ \/ Admitted(mem[p].tok, FALSE) /\ tokens' = Stamped(mem[p].tok)
       \/ ~Admitted(mem[p].tok, FALSE) /\ UNCHANGED tokens
    /\ pc' = [pc EXCEPT ![p] = "idle"]
    /\ UNCHANGED <<grant, tombs, ledger, mode, store, mem, call, drawn, late,
                   faults>>

(* The process dies and is started again with the root credential: open()  *)
Crash(p) ==
    /\ FaultHappens
    /\ mem' = [mem EXCEPT ![p] =
                 [Holding([tok |-> Root, gen |-> 0, pending |-> 0], Record(p))
                    EXCEPT !.pending = Record(p).pending]]
    /\ pc' = [pc EXCEPT ![p] = "idle"]
    /\ call' = [call EXCEPT ![p] = NoCall]
    /\ UNCHANGED <<server, mode, store, drawn, late>>

-----------------------------------------------------------------------------
Init ==
    /\ tokens = [t \in Tokens |-> IF t = Root THEN Row("live", 0, FALSE)
                                              ELSE Row("none", 0, FALSE)]
    /\ grant \in [kind : Kinds, used : {0},
                  stranded : {0}, revoked : {FALSE}, suspended : BOOLEAN,
                  horizon : {FALSE}]
    /\ grant.suspended => grant.kind = "standing"
    /\ tombs = {}
    /\ ledger = [c \in Commands |-> [st |-> "absent", tok |-> 0]]
    /\ mode \in Modes
    /\ store = [h \in Procs |-> NoRecord]
    /\ mem = [p \in Procs |-> [tok |-> Root, gen |-> 0, pending |-> 0]]
    /\ pc = [p \in Procs |-> "idle"]
    /\ call = [p \in Procs |-> NoCall]
    /\ late = {}
    /\ drawn = 0
    /\ faults = 0

Client(p) ==
    \/ Bearer(p) \/ FindsRenewed(p) \/ Renew(p) \/ Use(p)
    \/ Adopt(p) \/ NoSecret(p) \/ Refused(p) \/ Denied(p)

Faulty(p) ==
    \/ SaveFails(p) \/ LoseRequest(p) \/ LoseAnswer(p) \/ AdoptFails(p)
    \/ Crash(p)

Operator ==
    \/ \E t \in Tokens, byHuman \in BOOLEAN : RevokeToken(t, byHuman)
    \/ RevokePrincipal
    \/ Resume

Time == (\E t \in Tokens : Grows(t)) \/ HorizonPasses

Next ==
    \/ \E p \in Procs : Client(p) \/ Serve(p) \/ Faulty(p)
    \/ ServeLate
    \/ Operator
    \/ Time

(* Processes keep working and the server keeps answering; nothing makes    *)
(* time pass, a person act or a fault happen                               *)
Spec ==
    /\ Init /\ [][Next]_vars
    /\ \A p \in Procs : WF_vars(Client(p)) /\ WF_vars(Serve(p))

-----------------------------------------------------------------------------
Together == mode # "copies"

(* The token a state directory stands for                                  *)
Held(h) == IF store[h].tok # 0 THEN store[h].tok ELSE Root

(* First use ends the predecessor and an unused token may not renew: at    *)
(* most one token that was ever used is still accepted, and at most one    *)
(* unused token besides it                                                 *)
OverlapIsBounded ==
    /\ Cardinality({t \in Tokens : Admitted(t, FALSE) /\ tokens[t].used}) <= 1
    /\ Cardinality({t \in Tokens : Admitted(t, FALSE)}) <= 2

(* The ceiling of a timeboxed grant bounds the successors that could have  *)
(* been delivered, and a successor that was lost costs nothing             *)
BudgetIsExact ==
    /\ grant.used - grant.stranded =
          Cardinality({t \in Issued \ {Root} : ~tokens[t].stranded})
    /\ grant.kind = "timeboxed" => grant.used - grant.stranded <= MaxSuccessors

(* Whatever the reducer accepts the database fence accepts too: otherwise  *)
(* the command dies of "renewal fence lost without a domain state change"  *)
FenceAgrees ==
    \A t \in Issued, heal \in BOOLEAN :
        Admitted(t, TRUE) /\ Decide(t, heal) = "accept" =>
            FenceAccepts(WithoutStranded(t), Credited(t), t)

(* One token of the lineage revoked by anybody, for whatever reason but    *)
(* the service's own housekeeping, and no token of it is accepted again    *)
RevocationReachesAll ==
    (\E t \in Issued : tokens[t].row = "revoked" /\ ~tokens[t].stranded) =>
        \A t \in Issued : ~Admitted(t, TRUE)

(* Lost answers, failed writes and crashes never cost the agent its        *)
(* standing connection: the credential its directory stands for can renew, *)
(* and a successor that stands in the way was issued to the command the    *)
(* directory still remembers, so repeating that command replaces it.  It   *)
(* holds as long as no request is executed after its sender gave up: such  *)
(* a request (mode "late") may discard the successor the sender has since  *)
(* been given                                                              *)
NeverLockedOut ==
    Together /\ grant.kind = "standing" /\ ~grant.revoked /\ ~grant.suspended =>
        \A p \in Procs :
            LET t == Held(Home(p)) IN
            /\ Admitted(t, TRUE)
            /\ LockFree(p) => \A s \in LiveChildren(tokens, t) :
                  /\ ~tokens[s].used
                  /\ Record(p).pending # 0
                  /\ ledger[Record(p).pending].tok = s

(* A directory whose credential is due gets one that is not, unless the    *)
(* lineage is revoked or paused                                            *)
DueIsRenewed ==
    (Together /\ grant.kind = "standing") =>
        \A p \in Procs :
            Due(Held(Home(p))) ~>
                ~Due(Held(Home(p))) \/ ~Authorised(Held(Home(p)))
=============================================================================
