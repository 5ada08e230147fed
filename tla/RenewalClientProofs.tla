------------------------ MODULE RenewalClientProofs ------------------------
(***************************************************************************)
(* Proofs about TokenRenewal: what the server's rows and the record of a   *)
(* state directory say of each other, for any number of processes that     *)
(* share it, and that they never cost the agent its standing connection.   *)
(***************************************************************************)
EXTENDS TokenRenewalProofs

-----------------------------------------------------------------------------
(* The state directory all processes share, its record and the token it    *)
(* stands for.                                                             *)

Dir == CHOOSE h \in Procs : TRUE
Rec == store[Dir]
Tip == Held(Dir)

\* The lineages this module is about: a standing connection that nobody
\* revoked, held by processes that share one directory and whose requests are
\* not executed after they gave up.
Standing ==
    /\ mode = "shared" /\ Procs # {}
    /\ grant.kind = "standing" /\ ~grant.revoked

Renewing(p) == pc[p] \in {"sent", "answered"}

\* Only a used token has a successor.
ParentsAreUsed ==
    \A s \in Tokens : tokens[s].row = "live" /\ tokens[s].pred # 0 =>
        tokens[tokens[s].pred].used

\* A token is issued unused.
UsedWereIssued ==
    \A s \in Tokens : tokens[s].used => tokens[s].row # "none"

\* The token of the directory can prove that somebody holds it.
TipStands ==
    /\ tokens[Tip].row = "live"
    /\ \/ tokens[Tip].used
       \/ tokens[Tip].pred = 0
       \/ /\ tokens[tokens[Tip].pred].used
          /\ tokens[tokens[Tip].pred].row = "live"

\* The root is not stored, and has the first generation.
RecordIsWhole ==
    /\ Rec.tok # Root
    /\ Rec.tok = 0 <=> Rec.gen = 0
    /\ Rec.pending <= drawn

\* What a process has in memory is the token of the directory or an older one,
\* which was used.
Follows(m, d) ==
    /\ m.gen <= Rec.gen
    /\ m.gen = Rec.gen => m.tok = Tip
    /\ m.tok = Tip \/ tokens[m.tok].used
    /\ m.pending <= d

MemsFollow == \A p \in Procs : Follows(mem[p], drawn)

\* The process that holds the lock renews the token of the directory, under
\* the command the directory remembers.
OneRenews ==
    /\ \A p, o \in Procs : Renewing(p) /\ Renewing(o) => p = o
    /\ \A p \in Procs : Renewing(p) =>
          /\ mem[p].gen = Rec.gen
          /\ mem[p].pending = Rec.pending
          /\ call[p].cmd = Rec.pending /\ Rec.pending # 0

\* An answer says what the ledger says.
AnswersAreTrue ==
    \A p \in Procs : pc[p] = "answered" =>
        /\ call[p].ans # "accepted"
        /\ call[p].ans = "issued" =>
              /\ ledger[call[p].cmd].st = "accepted"
              /\ ledger[call[p].cmd].tok = call[p].tok
        /\ call[p].ans \in {"superseded", "unused", "ended"} =>
              ledger[call[p].cmd].st # "accepted"

\* The successor an accepted command issued is undelivered as long as the
\* directory remembers the command; other commands were accepted before the
\* first successor was stored.
LedgerIsRemembered ==
    \A c \in Commands :
        /\ ledger[c].st # "absent" => c <= drawn
        /\ ledger[c].st = "accepted" =>
              IF Rec.pending = c
              THEN /\ ledger[c].tok \in LiveChildren(tokens, Tip)
                   /\ ~tokens[ledger[c].tok].used
              ELSE Rec.tok # 0

\* A successor in the way of the directory's token was issued to the command
\* the directory remembers.
ChildIsRemembered ==
    \A s \in LiveChildren(tokens, Tip) :
        /\ Rec.pending # 0
        /\ ledger[Rec.pending].st = "accepted"
        /\ ledger[Rec.pending].tok = s

Connected ==
    /\ tombs = {} /\ ~grant.horizon /\ late = {}
    /\ ParentsAreUsed
    /\ UsedWereIssued
    /\ TipStands
    /\ RecordIsWhole
    /\ MemsFollow
    /\ OneRenews
    /\ AnswersAreTrue
    /\ LedgerIsRemembered
    /\ ChildIsRemembered

ClientInv == Inv /\ (Standing => Connected)

-----------------------------------------------------------------------------
(* The shared directory and what it holds. *)

LEMMA DirIsHome ==
    ASSUME Standing
    PROVE  /\ Dir \in Procs
           /\ \A p \in Procs : Home(p) = Dir
<1>1. Procs # {} /\ mode = "shared"
  BY DEF Standing
<1>2. Dir \in Procs
  BY <1>1 DEF Dir
<1>3. ASSUME NEW p \in Procs
      PROVE  Home(p) = Dir
  BY <1>1 DEF Home, Dir
<1> QED
  BY <1>2, <1>3

LEMMA RecTyped ==
    ASSUME ClientTypes, Standing
    PROVE  /\ Rec \in Recs /\ Rec.tok \in 0 .. MaxTokens /\ Rec.gen \in Nat
           /\ Rec.pending \in 0 .. MaxCommands
           /\ Tip \in Tokens
           /\ Tip = IF Rec.tok # 0 THEN Rec.tok ELSE Root
<1>1. Rec \in Recs
  BY DirIsHome DEF ClientTypes, Rec
<1>2. /\ Rec.tok \in 0 .. MaxTokens /\ Rec.gen \in Nat
      /\ Rec.pending \in 0 .. MaxCommands
  BY <1>1 DEF Recs
<1>3. Tip = IF Rec.tok # 0 THEN Rec.tok ELSE Root
  BY DEF Tip, Held, Rec
<1>4. Tip \in Tokens
  BY <1>2, <1>3, Bounds DEF Tokens
<1> QED
  BY <1>1, <1>2, <1>3, <1>4

LEMMA MemTyped ==
    ASSUME ClientTypes, NEW p \in Procs
    PROVE  /\ mem[p] \in Mems /\ mem[p].tok \in Tokens /\ mem[p].gen \in Nat
           /\ mem[p].pending \in 0 .. MaxCommands
           /\ call[p] \in Calls /\ call[p].cmd \in 0 .. MaxCommands
           /\ call[p].tok \in 0 .. MaxTokens
           /\ drawn \in 0 .. MaxCommands /\ drawn \in Nat
<1>1. mem[p] \in Mems /\ call[p] \in Calls /\ drawn \in 0 .. MaxCommands
  BY DEF ClientTypes
<1>2. /\ mem[p].tok \in Tokens /\ mem[p].gen \in Nat
      /\ mem[p].pending \in 0 .. MaxCommands
  BY <1>1 DEF Mems
<1>3. call[p].cmd \in 0 .. MaxCommands /\ call[p].tok \in 0 .. MaxTokens
  BY <1>1 DEF Calls
<1>4. drawn \in Nat
  BY <1>1, Bounds
<1> QED
  BY <1>1, <1>2, <1>3, <1>4

\* The directory's token is never one of its own successors.
LEMMA ChildIsNewer ==
    ASSUME ServerTypes, Numbered, NEW t \in Tokens,
           NEW s \in LiveChildren(tokens, t)
    PROVE  s \in Tokens /\ s # t /\ t < s /\ tokens[s].pred = t
<1>1. s \in Tokens /\ tokens[s].row = "live" /\ tokens[s].pred = t
  BY DEF LiveChildren
<1>2. tokens[s].pred < s
  BY <1>1 DEF Numbered, Issued
<1> QED
  BY <1>1, <1>2, Bounds DEF Tokens

-----------------------------------------------------------------------------
(* Steps of the server that issue and revoke nothing. *)

\* At most the directory's token is used.
RowsStay ==
    \A s \in Tokens :
        /\ tokens'[s].row = tokens[s].row
        /\ tokens'[s].pred = tokens[s].pred
        /\ tokens[s].used => tokens'[s].used
        /\ tokens'[s].used => tokens[s].used \/ s = Tip

\* No answer with a successor is stored or forgotten.
AnswersStay ==
    \A c \in Commands :
        \/ ledger'[c] = ledger[c]
        \/ /\ ledger[c].st # "accepted" /\ ledger'[c].st # "accepted"
           /\ c <= drawn

LEMMA RowsStayKeep ==
    ASSUME ServerTypes, ClientTypes, Numbered, Standing, Connected,
           RowsStay, AnswersStay, UNCHANGED <<store, drawn>>
    PROVE  /\ Rec' = Rec /\ Tip' = Tip
           /\ ParentsAreUsed' /\ UsedWereIssued' /\ TipStands'
           /\ RecordIsWhole'
           /\ LedgerIsRemembered' /\ ChildIsRemembered'
<1>1. Rec' = Rec /\ Tip' = Tip
  BY DEF Rec, Tip, Held
<1>2. Tip \in Tokens /\ Rec.pending \in 0 .. MaxCommands
  BY RecTyped
<1>3. LiveChildren(tokens', Tip) = LiveChildren(tokens, Tip)
  BY DEF RowsStay, LiveChildren
<1>4. ASSUME NEW s \in LiveChildren(tokens, Tip)
      PROVE  tokens'[s].used => tokens[s].used
  BY <1>2, ChildIsNewer DEF RowsStay
<1>5. ParentsAreUsed'
  <2> SUFFICES ASSUME NEW s \in Tokens, tokens'[s].row = "live",
                      tokens'[s].pred # 0
               PROVE  tokens'[tokens'[s].pred].used
    BY DEF ParentsAreUsed
  <2>1. tokens[s].row = "live" /\ tokens[s].pred # 0
        /\ tokens'[s].pred = tokens[s].pred
    BY DEF RowsStay
  <2>2. tokens[tokens[s].pred].used
    BY <2>1 DEF Connected, ParentsAreUsed
  <2>3. tokens[s].pred \in Tokens
    BY <2>1, TokenRow, Bounds DEF Tokens
  <2> QED
    BY <2>1, <2>2, <2>3 DEF RowsStay
<1>6. TipStands'
  <2>1. tokens[Tip].pred # 0 => tokens[Tip].pred \in Tokens
    BY <1>2, TokenRow, Bounds DEF Tokens
  <2>2. TipStands
    BY DEF Connected
  <2> QED
    BY <1>1, <1>2, <2>1, <2>2 DEF RowsStay, TipStands
<1>7. RecordIsWhole'
  BY <1>1 DEF Connected, RecordIsWhole
<1>10. UsedWereIssued'
  BY <1>2 DEF Connected, UsedWereIssued, TipStands, RowsStay
<1>8. LedgerIsRemembered'
  <2> SUFFICES ASSUME NEW c \in Commands
               PROVE  /\ ledger'[c].st # "absent" => c <= drawn
                      /\ ledger'[c].st = "accepted" =>
                            IF Rec.pending = c
                            THEN /\ ledger'[c].tok \in LiveChildren(tokens, Tip)
                                 /\ ~tokens'[ledger'[c].tok].used
                            ELSE Rec.tok # 0
    BY <1>1, <1>3 DEF LedgerIsRemembered
  <2>1. CASE ledger'[c] = ledger[c]
    BY <2>1, <1>4 DEF Connected, LedgerIsRemembered
  <2>2. CASE ledger'[c] # ledger[c]
    BY <2>2 DEF AnswersStay
  <2> QED
    BY <2>1, <2>2
<1>9. ChildIsRemembered'
  <2> SUFFICES ASSUME NEW s \in LiveChildren(tokens, Tip)
               PROVE  /\ Rec.pending # 0
                      /\ ledger'[Rec.pending].st = "accepted"
                      /\ ledger'[Rec.pending].tok = s
    BY <1>1, <1>3 DEF ChildIsRemembered
  <2>1. /\ Rec.pending # 0 /\ ledger[Rec.pending].st = "accepted"
        /\ ledger[Rec.pending].tok = s
    BY DEF Connected, ChildIsRemembered
  <2>2. Rec.pending \in Commands
    BY <2>1, <1>2, Bounds DEF Commands
  <2> QED
    BY <2>1, <2>2 DEF AnswersStay
<1> QED
  BY <1>1, <1>5, <1>6, <1>7, <1>8, <1>9, <1>10

LEMMA QuietStep ==
    ASSUME ServerTypes, ClientTypes, Numbered, Standing, Connected,
           RowsStay, AnswersStay, ~grant'.horizon,
           UNCHANGED <<tombs, store, mem, drawn, late>>,
           \A p \in Procs : Renewing(p)' =>
              Renewing(p) /\ call'[p].cmd = call[p].cmd,
           AnswersAreTrue'
    PROVE  Connected'
<1>1. /\ Rec' = Rec /\ Tip' = Tip
      /\ ParentsAreUsed' /\ UsedWereIssued' /\ TipStands'
      /\ RecordIsWhole'
      /\ LedgerIsRemembered' /\ ChildIsRemembered'
  BY RowsStayKeep
<1>2. MemsFollow'
  <2> SUFFICES ASSUME NEW p \in Procs
               PROVE  Follows(mem[p], drawn)'
    BY DEF MemsFollow
  <2>1. Follows(mem[p], drawn)
    BY DEF Connected, MemsFollow
  <2>2. mem[p].tok \in Tokens
    BY MemTyped
  <2> QED
    BY <1>1, <2>1, <2>2 DEF Follows, RowsStay
<1>3. OneRenews'
  <2>1. OneRenews
    BY DEF Connected
  <2> HIDE DEF Renewing
  <2>2. \A p, o \in Procs : Renewing(p)' /\ Renewing(o)' => p = o
    BY <2>1 DEF OneRenews
  <2>3. ASSUME NEW p \in Procs, Renewing(p)'
        PROVE  /\ mem'[p].gen = Rec'.gen
               /\ mem'[p].pending = Rec'.pending
               /\ call'[p].cmd = Rec'.pending /\ Rec'.pending # 0
    BY <2>1, <2>3, <1>1 DEF OneRenews
  <2> QED
    BY <2>2, <2>3 DEF OneRenews
<1> QED
  BY <1>1, <1>2, <1>3 DEF Connected

\* A step that is none of the client's.
LEMMA ClientRests ==
    ASSUME ServerTypes, ClientTypes, Numbered, Standing, Connected,
           RowsStay, ~grant'.horizon,
           UNCHANGED <<tombs, ledger, client, late>>
    PROVE  Connected'
<1>1. UNCHANGED <<store, mem, pc, call, drawn>>
  BY DEF client
<1>2. AnswersStay
  BY DEF AnswersStay
<1>3. AnswersAreTrue'
  BY <1>1 DEF Connected, AnswersAreTrue
<1>4. \A p \in Procs : Renewing(p)' =>
         Renewing(p) /\ call'[p].cmd = call[p].cmd
  BY <1>1 DEF Renewing
<1> QED
  BY <1>1, <1>2, <1>3, <1>4, QuietStep

\* The first use of the directory's token, or any use of an older one.
LEMMA StampStays ==
    ASSUME ServerTypes, Numbered, NEW t \in Tokens, tokens' = Stamped(t),
           t = Tip \/ tokens[t].used
    PROVE  RowsStay
<1> SUFFICES ASSUME NEW s \in Tokens
             PROVE  /\ tokens'[s].row = tokens[s].row
                    /\ tokens'[s].pred = tokens[s].pred
                    /\ tokens[s].used => tokens'[s].used
                    /\ tokens'[s].used => tokens[s].used \/ s = Tip
  BY DEF RowsStay
<1>1. /\ tokens[s] \in TokenRows /\ tokens[s].used \in BOOLEAN
  BY TokenRow
<1>2. \/ tokens'[s] \in {tokens[s], [tokens[s] EXCEPT !.superseded = TRUE]}
      \/ s = t /\ tokens'[s] = [tokens[s] EXCEPT !.used = TRUE]
  BY DEF Stamped
<1> QED
  BY <1>1, <1>2 DEF TokenRows

\* The process that renews asks for the directory's token, under the command
\* the directory remembers.
LEMMA RenewerAsks ==
    ASSUME ClientTypes, Standing, Connected, NEW p \in Procs, Renewing(p)
    PROVE  /\ mem[p].tok = Tip /\ call[p].cmd = Rec.pending
           /\ Rec.pending \in Commands /\ Rec.pending <= drawn
           /\ \A o \in Procs : Renewing(o) => o = p
<1>1. /\ mem[p].gen = Rec.gen /\ call[p].cmd = Rec.pending /\ Rec.pending # 0
      /\ \A o \in Procs : Renewing(o) => o = p
  BY DEF Connected, OneRenews
<1>2. mem[p].tok = Tip
  BY <1>1 DEF Connected, MemsFollow, Follows
<1>3. Rec.pending \in Commands
  BY <1>1, RecTyped, Bounds DEF Commands
<1>4. Rec.pending <= drawn
  BY DEF Connected, RecordIsWhole
<1> QED
  BY <1>1, <1>2, <1>3, <1>4

\* A repeated command replaces the successor it issued before.
LEMMA RepeatIsAccepted ==
    ASSUME Inv, Standing, Connected, NEW q,
           q.tok = Tip, q.cmd = Rec.pending, q.cmd \in Commands,
           Admitted(Tip, TRUE), ledger[q.cmd].st = "accepted"
    PROVE  /\ Recovering(q)
           /\ Decide(Tip, Recovering(q)) = "accept"
<1> DEFINE s == ledger[q.cmd].tok
<1>1. /\ Tip \in Tokens /\ tokens[Tip].row = "live" /\ ServerTypes /\ Numbered
  BY RecTyped DEF Inv, Admitted, Authorised
<1>2. s \in LiveChildren(tokens, Tip) /\ ~tokens[s].used
  BY DEF Connected, LedgerIsRemembered
<1>3. tokens[s].row = "live" /\ tokens[s].pred = Tip /\ Tip # 0
  BY <1>1, <1>2, Bounds DEF LiveChildren, Tokens
<1>4. Recovering(q)
  BY <1>2, <1>3 DEF Recovering
<1>5. SuccessorPending(Tip, Recovering(q))
  BY <1>2, <1>4 DEF SuccessorPending
<1>6. tokens[Tip].used
  BY <1>2, <1>3 DEF Connected, ParentsAreUsed, LiveChildren
<1>7. tombs = {} /\ ~grant.horizon /\ ~grant.revoked /\ ~grant.suspended
      /\ grant.kind = "standing"
  BY DEF Connected, Standing, Admitted, Authorised
<1>8. ~LineageRevoked
  BY <1>7 DEF Inv, RevokedWithGrant, LineageRevoked, Issued
<1>9. ~BudgetSpent(Tip, Recovering(q))
  BY <1>7 DEF BudgetSpent
<1>10. Decide(Tip, Recovering(q)) = "accept"
  BY <1>1, <1>5, <1>6, <1>7, <1>8, <1>9 DEF Decide
<1> QED
  BY <1>4, <1>10

-----------------------------------------------------------------------------
(* The server answers the process that renews. *)

LEMMA AnsweredPc ==
    ASSUME ClientTypes, NEW p \in Procs, NEW ans, NEW t, Answered(p, ans, t)
    PROVE  /\ UNCHANGED <<mode, store, mem, drawn, late>>
           /\ pc'[p] = "answered" /\ call'[p].ans = ans /\ call'[p].tok = t
           /\ call'[p].cmd = call[p].cmd
           /\ \A o \in Procs : o # p => pc'[o] = pc[o] /\ call'[o] = call[o]
<1>1. call[p] \in Calls
  BY MemTyped
<1>2. call'[p] = [call[p] EXCEPT !.ans = ans, !.tok = t]
      /\ pc'[p] = "answered"
  BY DEF Answered, ClientTypes
<1>3. call'[p].ans = ans /\ call'[p].tok = t /\ call'[p].cmd = call[p].cmd
  BY <1>1, <1>2 DEF Calls
<1>4. \A o \in Procs : o # p => pc'[o] = pc[o] /\ call'[o] = call[o]
  BY DEF Answered, ClientTypes
<1> QED
  BY <1>2, <1>3, <1>4 DEF Answered

LEMMA RefusalKeeps ==
    ASSUME ServerTypes, ClientTypes, Numbered, Standing, Connected,
           RowsStay, AnswersStay, UNCHANGED <<grant, tombs>>,
           NEW p \in Procs, pc[p] = "sent", NEW ans, Answered(p, ans, 0),
           ans \notin {"accepted", "issued"},
           ans \in {"superseded", "unused", "ended"} =>
              ledger'[call[p].cmd].st # "accepted"
    PROVE  Connected'
<1>1. /\ UNCHANGED <<store, mem, drawn, late>>
      /\ pc'[p] = "answered" /\ call'[p].ans = ans
      /\ call'[p].cmd = call[p].cmd
      /\ \A o \in Procs : o # p => pc'[o] = pc[o] /\ call'[o] = call[o]
  BY AnsweredPc
<1>2. Renewing(p) /\ \A o \in Procs : Renewing(o) => o = p
  BY RenewerAsks DEF Renewing
<1>3. \A o \in Procs : Renewing(o)' =>
         Renewing(o) /\ call'[o].cmd = call[o].cmd
  BY <1>1, <1>2 DEF Renewing
<1>4. AnswersAreTrue'
  <2> SUFFICES ASSUME NEW o \in Procs, pc'[o] = "answered"
               PROVE  /\ call'[o].ans # "accepted"
                      /\ call'[o].ans = "issued" =>
                            /\ ledger'[call'[o].cmd].st = "accepted"
                            /\ ledger'[call'[o].cmd].tok = call'[o].tok
                      /\ call'[o].ans \in {"superseded", "unused", "ended"} =>
                            ledger'[call'[o].cmd].st # "accepted"
    BY DEF AnswersAreTrue
  <2>1. o = p
    BY <1>2, <1>3 DEF Renewing
  <2> QED
    BY <2>1, <1>1
<1>5. ~grant'.horizon
  BY DEF Connected
<1> QED
  BY <1>1, <1>3, <1>4, <1>5, QuietStep

LEMMA DecideOutcomes ==
    ASSUME NEW t, NEW heal
    PROVE  Decide(t, heal) \in {"accept", "superseded", "unused", "ended"}
  BY DEF Decide

LEMMA IssueKeeps ==
    ASSUME Inv, Standing, Connected, NEW p \in Procs, pc[p] = "sent",
           NEW q \in RenewalRequests, q.tok = Tip, q.cmd = call[p].cmd,
           Issues(q), Answered(p, "issued", NextToken)
    PROVE  Connected'
<1> DEFINE n == NextToken
<1>1. /\ ServerTypes /\ ClientTypes /\ Numbered
  BY DEF Inv
<1>2. /\ UNCHANGED <<store, mem, drawn, late>>
      /\ pc'[p] = "answered" /\ call'[p].ans = "issued" /\ call'[p].tok = n
      /\ call'[p].cmd = call[p].cmd
      /\ \A o \in Procs : o # p => pc'[o] = pc[o] /\ call'[o] = call[o]
  BY <1>1, AnsweredPc
<1>3. Rec' = Rec /\ Tip' = Tip
  BY <1>2 DEF Rec, Tip, Held
<1>4. /\ Tip \in Tokens /\ q.cmd = Rec.pending /\ q.cmd \in Commands
      /\ q.cmd <= drawn /\ Rec.pending # 0
      /\ Renewing(p) /\ \A o \in Procs : Renewing(o) => o = p
  BY <1>1, RecTyped, RenewerAsks, Bounds DEF Renewing, Commands
<1>5. /\ Grants(Tip, n) /\ n \in Tokens /\ UNCHANGED tombs
      /\ ledger' = [ledger EXCEPT ![q.cmd] = [st |-> "accepted", tok |-> n]]
  BY <1>1, IssueGrants DEF Issues
<1> HIDE DEF n
<1>6. /\ n \notin Issued /\ tokens[n].row = "none" /\ n # Tip
      /\ tokens[Tip].used /\ tokens[Tip].row = "live"
      /\ Tip \notin LiveChildren(tokens, Tip)
      /\ \A s \in Tokens \ {n} :
                /\ tokens'[s].pred = tokens[s].pred
                /\ tokens'[s].used = tokens[s].used
                /\ s \in LiveChildren(tokens, Tip) =>
                      tokens'[s].row = "revoked"
                /\ s \notin LiveChildren(tokens, Tip) =>
                      tokens'[s].row = tokens[s].row
      /\ tokens'[n].row = "live" /\ tokens'[n].pred = Tip
      /\ ~tokens'[n].used
  <2>1. tokens[Tip].row = "live" /\ tokens[Tip].used
    BY <1>5 DEF Grants
  <2>2. /\ n \notin Issued /\ tokens[n].row = "none"
        /\ Tip \notin LiveChildren(tokens, Tip)
    BY <1>1, <1>4, <1>5, GrantsFields
  <2>3. /\ \A s \in Tokens \ {n} :
              /\ tokens'[s].pred = tokens[s].pred
              /\ tokens'[s].used = tokens[s].used
              /\ s \in LiveChildren(tokens, Tip) =>
                    tokens'[s].row = "revoked"
              /\ s \notin LiveChildren(tokens, Tip) =>
                    tokens'[s].row = tokens[s].row
        /\ tokens'[n].row = "live" /\ tokens'[n].pred = Tip
        /\ ~tokens'[n].used
    BY <1>1, <1>4, <1>5, GrantsColumns
  <2> QED
    BY <2>1, <2>2, <2>3
<1>7. ~tokens[n].used
  BY <1>5, <1>6 DEF Connected, UsedWereIssued
<1>8. LiveChildren(tokens', Tip) = {n}
  <2>1. n \in LiveChildren(tokens', Tip)
    BY <1>5, <1>6 DEF LiveChildren
  <2>2. ASSUME NEW s \in LiveChildren(tokens', Tip), s # n
        PROVE  FALSE
    <3>1. s \in Tokens \ {n} /\ tokens'[s].row = "live"
          /\ tokens'[s].pred = Tip
      BY <2>2 DEF LiveChildren
    <3>2. s \notin LiveChildren(tokens, Tip)
      BY <3>1, <1>6
    <3>3. tokens[s].row = "live" /\ tokens[s].pred = Tip
      BY <3>1, <3>2, <1>6
    <3> QED
      BY <3>1, <3>2, <3>3 DEF LiveChildren
  <2> QED
    BY <2>1, <2>2
<1>9. ParentsAreUsed'
  <2> SUFFICES ASSUME NEW s \in Tokens, tokens'[s].row = "live",
                      tokens'[s].pred # 0
               PROVE  tokens'[tokens'[s].pred].used
    BY DEF ParentsAreUsed
  <2>1. CASE s = n
    BY <2>1, <1>4, <1>6
  <2>2. CASE s # n
    <3>1. s \notin LiveChildren(tokens, Tip)
      BY <2>2, <1>6
    <3>2. tokens[s].row = "live" /\ tokens'[s].pred = tokens[s].pred
      BY <2>2, <3>1, <1>6
    <3>3. tokens[s].pred \in Tokens
      BY <1>1, <3>2, TokenRow, Bounds DEF Tokens
    <3>4. tokens[tokens[s].pred].used
      BY <3>2 DEF Connected, ParentsAreUsed
    <3> QED
      BY <3>2, <3>3, <3>4, <1>6, <1>7
  <2> QED
    BY <2>1, <2>2
<1>10. UsedWereIssued'
  BY <1>6 DEF Connected, UsedWereIssued
<1>11. TipStands'
  BY <1>3, <1>4, <1>6 DEF TipStands
<1>12. RecordIsWhole'
  BY <1>2, <1>3 DEF Connected, RecordIsWhole
<1>13. MemsFollow'
  <2> SUFFICES ASSUME NEW o \in Procs
               PROVE  Follows(mem[o], drawn)'
    BY DEF MemsFollow
  <2>1. Follows(mem[o], drawn) /\ mem[o].tok \in Tokens
    BY <1>1, MemTyped DEF Connected, MemsFollow
  <2> QED
    BY <1>2, <1>3, <1>6, <1>7, <2>1 DEF Follows
<1>14. \A o \in Procs : Renewing(o)' => o = p
  BY <1>2, <1>4 DEF Renewing
<1>15. OneRenews'
  <2>1. /\ mem[p].gen = Rec.gen /\ mem[p].pending = Rec.pending
        /\ call[p].cmd = Rec.pending
    BY <1>4 DEF Connected, OneRenews
  <2> QED
    BY <1>2, <1>3, <1>4, <1>14, <2>1 DEF OneRenews
<1>16. ledger'[q.cmd].st = "accepted" /\ ledger'[q.cmd].tok = n
       /\ \A c \in Commands : c # q.cmd => ledger'[c] = ledger[c]
  BY <1>1, <1>4, <1>5 DEF ServerTypes
<1>17. AnswersAreTrue'
  BY <1>2, <1>14, <1>16 DEF AnswersAreTrue, Renewing
<1>18. LedgerIsRemembered'
  <2> SUFFICES ASSUME NEW c \in Commands
               PROVE  /\ ledger'[c].st # "absent" => c <= drawn
                      /\ ledger'[c].st = "accepted" =>
                            IF Rec.pending = c
                            THEN /\ ledger'[c].tok \in {n}
                                 /\ ~tokens'[ledger'[c].tok].used
                            ELSE Rec.tok # 0
    BY <1>2, <1>3, <1>8 DEF LedgerIsRemembered
  <2>1. CASE c = q.cmd
    BY <2>1, <1>4, <1>6, <1>16
  <2>2. CASE c # q.cmd
    BY <2>2, <1>4, <1>16 DEF Connected, LedgerIsRemembered
  <2> QED
    BY <2>1, <2>2
<1>19. ChildIsRemembered'
  BY <1>3, <1>4, <1>8, <1>16 DEF ChildIsRemembered
<1>20. ~grant'.horizon /\ tombs' = {} /\ late' = {}
  <2>1. grant \in GrantRows /\ ~grant.horizon /\ tombs = {} /\ late = {}
    BY <1>1, GrantRow DEF Connected
  <2>2. grant' = Counted(Credited(Tip), Tip)
    BY <1>5 DEF Grants
  <2> QED
    BY <1>2, <1>5, <2>1, <2>2 DEF Counted, Credited, GrantRows
<1> QED
  BY <1>9, <1>10, <1>11, <1>12, <1>13, <1>15, <1>17, <1>18, <1>19, <1>20
     DEF Connected

LEMMA ServeKeeps ==
    ASSUME Inv, Standing, Connected, NEW p \in Procs, Serve(p)
    PROVE  Connected'
<1> DEFINE q == [tok |-> mem[p].tok, cmd |-> call[p].cmd]
<1>1. /\ ServerTypes /\ ClientTypes /\ Numbered
  BY DEF Inv
<1>2. /\ pc[p] = "sent" /\ Renewing(p)
      /\ \/ Denies(q) /\ Answered(p, "denied", 0)
         \/ CommitsAdoption(q) /\ UNCHANGED <<client, late>>
         \/ Replays(q) /\ Answered(p, ledger[q.cmd].st, 0)
         \/ Refuses(q) /\ Answered(p, ledger'[q.cmd].st, 0)
         \/ Issues(q) /\ Answered(p, "issued", NextToken)
  BY DEF Serve, Renewing
<1>3. /\ mem[p].tok = Tip /\ call[p].cmd = Rec.pending
      /\ Rec.pending \in Commands /\ Rec.pending <= drawn
  BY <1>1, <1>2, RenewerAsks
<1>4. /\ q.tok = Tip /\ q.cmd = call[p].cmd /\ q.cmd = Rec.pending
      /\ q.cmd \in Commands /\ q.cmd <= drawn /\ Tip \in Tokens
      /\ q \in RenewalRequests
  BY <1>1, <1>3, RecTyped DEF RenewalRequests
<1> HIDE DEF q
<1>5. tokens' = Stamped(Tip) => RowsStay
  BY <1>1, <1>4, StampStays
<1>6. ledger' = ledger => AnswersStay
  BY DEF AnswersStay
<1>7. ~grant.horizon /\ tombs = {}
  BY DEF Connected
<1>8. ledger[q.cmd].st \in {"absent", "accepted", "superseded", "unused",
                            "ended"}
  BY <1>1, <1>4 DEF ServerTypes, LedgerRows
<1>9. CASE Denies(q) /\ Answered(p, "denied", 0)
  <2>1. UNCHANGED server
    BY <1>9 DEF Denies
  <2>2. RowsStay /\ AnswersStay
    BY <2>1, <1>6 DEF RowsStay, server
  <2> QED
    BY <1>1, <1>2, <1>9, <2>1, <2>2, RefusalKeeps DEF server
<1>10. CASE CommitsAdoption(q) /\ UNCHANGED <<client, late>>
  <2>1. RowsStay /\ UNCHANGED <<grant, tombs, ledger>>
    BY <1>4, <1>5, <1>10 DEF CommitsAdoption
  <2> QED
    BY <1>1, <1>7, <1>10, <2>1, ClientRests
<1>11. CASE Replays(q) /\ Answered(p, ledger[q.cmd].st, 0)
  <2>1. RowsStay /\ UNCHANGED <<grant, tombs, ledger>> /\ ~Fresh(q)
        /\ Admitted(Tip, TRUE)
    BY <1>4, <1>5, <1>11 DEF Replays
  <2>2. ledger[q.cmd].st # "accepted" /\ ledger[q.cmd].st # "absent"
    BY <1>4, <2>1, RepeatIsAccepted DEF Fresh
  <2> QED
    BY <1>1, <1>2, <1>4, <1>6, <1>8, <1>11, <2>1, <2>2, RefusalKeeps
<1>12. CASE Refuses(q) /\ Answered(p, ledger'[q.cmd].st, 0)
  <2>1. /\ RowsStay /\ UNCHANGED <<grant, tombs>> /\ Fresh(q)
        /\ Admitted(Tip, TRUE) /\ Decide(Tip, Recovering(q)) # "accept"
        /\ ledger' = [ledger EXCEPT ![q.cmd] =
                        [st |-> Decide(Tip, Recovering(q)), tok |-> 0]]
    BY <1>4, <1>5, <1>12 DEF Refuses
  <2>2. ledger[q.cmd].st = "absent"
    BY <1>4, <2>1, RepeatIsAccepted DEF Fresh, Recovering
  <2>3. ledger'[q.cmd].st \in {"superseded", "unused", "ended"}
        /\ \A c \in Commands : c # q.cmd => ledger'[c] = ledger[c]
    BY <1>1, <1>4, <2>1, DecideOutcomes DEF ServerTypes
  <2>4. AnswersStay
    BY <1>4, <2>2, <2>3 DEF AnswersStay
  <2> QED
    BY <1>1, <1>2, <1>4, <1>12, <2>1, <2>3, <2>4, RefusalKeeps
<1>13. CASE Issues(q) /\ Answered(p, "issued", NextToken)
  BY <1>2, <1>4, <1>13, IssueKeeps
<1> QED
  BY <1>2, <1>9, <1>10, <1>11, <1>12, <1>13

-----------------------------------------------------------------------------
(* Steps of the client. *)

\* No successor was issued to the command, if it is one.
NothingIssuedTo(c) == c = 0 \/ ledger[c].st # "accepted"

\* A process goes on, and rewrites the record at most in the command that it
\* remembers.
LEMMA ProcessMoves ==
    ASSUME ServerTypes, ClientTypes, Standing, Connected,
           NEW p \in Procs, NEW m \in Mems, NEW next, NEW k, NEW r \in Recs,
           UNCHANGED <<server, late>>,
           mem' = [mem EXCEPT ![p] = m], pc' = [pc EXCEPT ![p] = next],
           call' = [call EXCEPT ![p] = k], store' = [store EXCEPT ![Dir] = r],
           drawn' \in Nat, drawn <= drawn',
           r.tok = Rec.tok, r.gen = Rec.gen, r.pending <= drawn',
           \/ r.pending = Rec.pending
           \/ /\ \A o \in Procs : Renewing(o) => o = p
              /\ NothingIssuedTo(Rec.pending) /\ NothingIssuedTo(r.pending),
           Follows(m, drawn'),
           \/ next \in {"idle", "using", "waiting"}
           \/ /\ next = "sent" /\ \A o \in Procs : Renewing(o) => o = p
              /\ m.gen = Rec.gen /\ m.pending = r.pending
              /\ k.cmd = r.pending /\ r.pending # 0
    PROVE  Connected'
<1>1. /\ UNCHANGED <<tokens, grant, tombs, ledger>>
      /\ Dir \in Procs /\ Tip \in Tokens
  BY RecTyped, DirIsHome DEF server
<1>2. Rec' = r
  BY <1>1 DEF Rec, ClientTypes
<1>3. Tip' = Tip /\ Rec'.tok = Rec.tok /\ Rec'.gen = Rec.gen
  <2>1. Rec'.tok = Rec.tok /\ Rec'.gen = Rec.gen
    BY <1>2
  <2>2. Tip = IF Rec.tok # 0 THEN Rec.tok ELSE Root
    BY DEF Tip, Held, Rec
  <2>3. Tip' = IF Rec'.tok # 0 THEN Rec'.tok ELSE Root
    BY DEF Tip, Held, Rec
  <2> QED
    BY <2>1, <2>2, <2>3
<1>4. ParentsAreUsed' /\ UsedWereIssued' /\ TipStands'
  BY <1>1, <1>3 DEF Connected, ParentsAreUsed, UsedWereIssued, TipStands
<1>5. RecordIsWhole'
  BY <1>2, <1>3 DEF Connected, RecordIsWhole
<1>6. /\ mem'[p] = m /\ pc'[p] = next /\ call'[p] = k
      /\ \A o \in Procs : o # p =>
            mem'[o] = mem[o] /\ pc'[o] = pc[o] /\ call'[o] = call[o]
  BY DEF ClientTypes
<1>7. MemsFollow'
  <2> SUFFICES ASSUME NEW o \in Procs
               PROVE  Follows(mem[o], drawn)'
    BY DEF MemsFollow
  <2>1. CASE o = p
    BY <1>1, <1>3, <1>6, <2>1 DEF Follows
  <2>2. CASE o # p
    <3>1. Follows(mem[o], drawn) /\ mem'[o] = mem[o]
      BY <2>2, <1>6 DEF Connected, MemsFollow
    <3>2. mem[o].pending \in 0 .. MaxCommands /\ drawn \in Nat
      BY MemTyped
    <3> QED
      BY <1>1, <1>3, <3>1, <3>2, Bounds DEF Follows
  <2> QED
    BY <2>1, <2>2
<1>8. OneRenews'
  <2>1. OneRenews
    BY DEF Connected
  <2>2. Renewing(p)' <=> next = "sent"
    BY <1>6 DEF Renewing
  <2>3. \A o \in Procs : o # p => (Renewing(o)' <=> Renewing(o))
    BY <1>6 DEF Renewing
  <2>4. ASSUME NEW u \in Procs, NEW o \in Procs, Renewing(u)', Renewing(o)'
        PROVE  u = o
    BY <2>1, <2>2, <2>3, <2>4 DEF OneRenews
  <2>5. ASSUME NEW o \in Procs, Renewing(o)'
        PROVE  /\ mem'[o].gen = Rec'.gen
               /\ mem'[o].pending = Rec'.pending
               /\ call'[o].cmd = Rec'.pending /\ Rec'.pending # 0
    <3>1. CASE o = p
      BY <1>2, <1>3, <1>6, <2>2, <2>5, <3>1
    <3>2. CASE o # p
      <4>1. Renewing(o) /\ r.pending = Rec.pending
        BY <2>3, <2>5, <3>2
      <4> QED
        BY <1>2, <1>3, <1>6, <2>1, <3>2, <4>1 DEF OneRenews
    <3> QED
      BY <3>1, <3>2
  <2> QED
    BY <2>4, <2>5 DEF OneRenews
<1>9. AnswersAreTrue'
  <2>1. \A o \in Procs : pc'[o] = "answered" => o # p
    BY <1>6
  <2> QED
    BY <1>1, <1>6, <2>1 DEF Connected, AnswersAreTrue
<1>10. Rec.pending \in 0 .. MaxCommands /\ r.pending \in 0 .. MaxCommands
  BY RecTyped DEF Recs
<1>11. LedgerIsRemembered'
  <2> SUFFICES ASSUME NEW c \in Commands
               PROVE  /\ ledger[c].st # "absent" => c <= drawn'
                      /\ ledger[c].st = "accepted" =>
                            IF r.pending = c
                            THEN /\ ledger[c].tok \in LiveChildren(tokens, Tip)
                                 /\ ~tokens[ledger[c].tok].used
                            ELSE Rec.tok # 0
    BY <1>1, <1>2, <1>3 DEF LedgerIsRemembered
  <2>1. /\ ledger[c].st # "absent" => c <= drawn
        /\ ledger[c].st = "accepted" =>
              IF Rec.pending = c
              THEN /\ ledger[c].tok \in LiveChildren(tokens, Tip)
                   /\ ~tokens[ledger[c].tok].used
              ELSE Rec.tok # 0
    BY DEF Connected, LedgerIsRemembered
  <2>2. c \in Nat /\ c # 0 /\ drawn \in Nat
    BY MemTyped, Bounds DEF Commands
  <2> QED
    BY <2>1, <2>2 DEF NothingIssuedTo
<1>12. ChildIsRemembered'
  <2> SUFFICES ASSUME NEW s \in LiveChildren(tokens, Tip)
               PROVE  /\ r.pending # 0
                      /\ ledger[r.pending].st = "accepted"
                      /\ ledger[r.pending].tok = s
    BY <1>1, <1>2, <1>3 DEF ChildIsRemembered
  <2>1. /\ Rec.pending # 0 /\ ledger[Rec.pending].st = "accepted"
        /\ ledger[Rec.pending].tok = s
    BY DEF Connected, ChildIsRemembered
  <2> QED
    BY <2>1 DEF NothingIssuedTo
<1> QED
  BY <1>1, <1>4, <1>5, <1>7, <1>8, <1>9, <1>11, <1>12 DEF Connected

\* ... and leaves the record alone.
LEMMA ProcessRests ==
    ASSUME ServerTypes, ClientTypes, Standing, Connected,
           NEW p \in Procs, NEW m \in Mems, NEW next, NEW k,
           UNCHANGED <<server, store, late>>,
           mem' = [mem EXCEPT ![p] = m], pc' = [pc EXCEPT ![p] = next],
           call' = [call EXCEPT ![p] = k],
           drawn' \in Nat, drawn <= drawn', Follows(m, drawn'),
           next \in {"idle", "using", "waiting"}
    PROVE  Connected'
<1>1. Rec \in Recs /\ Rec.pending \in 0 .. MaxCommands /\ drawn \in Nat
      /\ Dir \in Procs
  BY RecTyped, MemTyped, DirIsHome
<1>2. store' = [store EXCEPT ![Dir] = Rec]
  BY <1>1 DEF ClientTypes, Rec
<1>3. Rec.pending <= drawn'
  BY <1>1, Bounds DEF Connected, RecordIsWhole
<1> QED
  BY <1>1, <1>2, <1>3, ProcessMoves

LEMMA MemFollows ==
    ASSUME ClientTypes, Connected, NEW p \in Procs, NEW d \in Nat, drawn <= d
    PROVE  Follows(mem[p], d)
<1>1. Follows(mem[p], drawn) /\ mem[p].pending \in 0 .. MaxCommands
      /\ drawn \in Nat
  BY MemTyped DEF Connected, MemsFollow
<1> QED
  BY <1>1, Bounds DEF Follows

\* The directory's token, with its generation.
IsTip(m) == m.tok = Tip /\ m.gen = Rec.gen

LEMMA HoldingIsTip ==
    ASSUME ClientTypes, Standing, Connected, NEW m \in Mems,
           Rec.gen >= m.gen, m.gen = Rec.gen => m.tok = Tip
    PROVE  /\ Holding(m, Rec) \in Mems /\ IsTip(Holding(m, Rec))
           /\ Holding(m, Rec).pending = m.pending
<1>1. /\ Rec \in Recs /\ Tip = IF Rec.tok # 0 THEN Rec.tok ELSE Root
      /\ Rec.gen \in Nat
  BY RecTyped
<1>2. Rec.tok = 0 <=> Rec.gen = 0
  BY DEF Connected, RecordIsWhole
<1>3. m.gen \in Nat
  BY DEF Mems
<1>4. Holding(m, Rec) \in Mems
  BY <1>1, HoldingTyped
<1>5. CASE Rec.tok # 0
  BY <1>1, <1>4, <1>5 DEF Holding, IsTip, Mems
<1>6. CASE Rec.tok = 0
  BY <1>1, <1>2, <1>3, <1>4, <1>6 DEF Holding, IsTip
<1> QED
  BY <1>4, <1>5, <1>6

LEMMA RecordIsRec ==
    ASSUME Standing, NEW p \in Procs
    PROVE  Record(p) = Rec
  BY DirIsHome DEF Record, Rec

\* What a process finds once it has the lock.
LEMMA LockedIsTip ==
    ASSUME ClientTypes, Standing, Connected, NEW p \in Procs
    PROVE  /\ Locked(p) \in Mems /\ IsTip(Locked(p))
           /\ Locked(p).pending \in 0 .. MaxCommands
           /\ Locked(p).pending <= drawn
           /\ \/ Locked(p).pending = Rec.pending
              \/ Rec.tok = 0 /\ Rec.pending = 0
<1>1. Record(p) = Rec
  BY RecordIsRec
<1>2. /\ mem[p] \in Mems /\ mem[p].gen \in Nat /\ Rec.gen \in Nat
      /\ Rec.pending \in 0 .. MaxCommands
      /\ Locked(p) \in Mems /\ Locked(p).pending \in 0 .. MaxCommands
  BY MemTyped, RecTyped, LockedTyped
<1>3. /\ mem[p].gen <= Rec.gen /\ mem[p].pending <= drawn
      /\ mem[p].gen = Rec.gen => mem[p].tok = Tip
      /\ Rec.pending <= drawn
      /\ Rec.tok = 0 <=> Rec.gen = 0
  BY DEF Connected, MemsFollow, Follows, RecordIsWhole
<1>4. Rec.gen >= mem[p].gen
  BY <1>2, <1>3
<1>5. CASE HasRecord(p)
  <2> DEFINE h == Holding(mem[p], Rec)
  <2>1. h \in Mems /\ IsTip(h)
    BY <1>2, <1>3, <1>4, HoldingIsTip
  <2>2. Locked(p) = [h EXCEPT !.pending = Rec.pending]
    BY <1>1, <1>4, <1>5 DEF Locked
  <2> HIDE DEF h
  <2>3. IsTip(Locked(p)) /\ Locked(p).pending = Rec.pending
    BY <2>1, <2>2 DEF IsTip, Mems
  <2> QED
    BY <1>2, <1>3, <2>3
<1>6. CASE ~HasRecord(p)
  <2>1. Rec.tok = 0 /\ Rec.pending = 0 /\ Locked(p) = mem[p]
    BY <1>1, <1>6 DEF HasRecord, Locked
  <2> QED
    BY <1>2, <1>3, <2>1 DEF IsTip
<1> QED
  BY <1>5, <1>6

LEMMA PersistedIsTip ==
    ASSUME ClientTypes, Standing, Connected, NEW m \in Mems, IsTip(m)
    PROVE  /\ Persisted(m) \in Recs /\ Persisted(m).tok = Rec.tok
           /\ Persisted(m).gen = Rec.gen /\ Persisted(m).pending = m.pending
<1>1. /\ Tip = IF Rec.tok # 0 THEN Rec.tok ELSE Root
      /\ Rec.tok # Root /\ (Rec.tok = 0 <=> Rec.gen = 0)
  BY RecTyped DEF Connected, RecordIsWhole
<1>2. Persisted(m) \in Recs
  BY PersistedTyped
<1>3. CASE m.tok # Root
  <2>1. Persisted(m) = m
    BY <1>3 DEF Persisted
  <2>2. m.tok = Rec.tok /\ m.gen = Rec.gen
    BY <1>1, <1>3 DEF IsTip
  <2> QED
    BY <1>2, <2>1, <2>2
<1>4. CASE m.tok = Root
  <2>1. Rec.tok = 0 /\ Rec.gen = 0 /\ m.gen = 0
    BY <1>1, <1>4 DEF IsTip
  <2>2. CASE m.pending # 0
    <3>1. Persisted(m) = [m EXCEPT !.tok = 0]
      BY <1>4, <2>2 DEF Persisted
    <3> QED
      BY <1>2, <2>1, <3>1 DEF Mems
  <2>3. CASE m.pending = 0
    <3>1. Persisted(m) = NoRecord
      BY <1>4, <2>3 DEF Persisted
    <3> QED
      BY <1>2, <2>1, <2>3, <3>1 DEF NoRecord
  <2> QED
    BY <2>2, <2>3
<1> QED
  BY <1>3, <1>4

LEMMA LockFreeIsFree ==
    ASSUME Standing, NEW p \in Procs, LockFree(p)
    PROVE  \A o \in Procs : ~Renewing(o)
  BY DirIsHome DEF LockFree, Renewing

\* The command a renewal is sent under.
Sent(p) == IF Locked(p).pending # 0 THEN Locked(p).pending ELSE drawn + 1

LEMMA SentIsFree ==
    ASSUME ServerTypes, ClientTypes, Standing, Connected, NEW p \in Procs,
           Sent(p) \in Commands
    PROVE  \/ Sent(p) = Rec.pending
           \/ NothingIssuedTo(Rec.pending) /\ NothingIssuedTo(Sent(p))
<1>1. /\ \/ Locked(p).pending = Rec.pending
         \/ Rec.tok = 0 /\ Rec.pending = 0
      /\ drawn \in Nat
  BY LockedIsTip, MemTyped
<1>2. /\ ledger[Sent(p)].st # "absent" => Sent(p) <= drawn
      /\ ledger[Sent(p)].st = "accepted" /\ Rec.pending # Sent(p) =>
            Rec.tok # 0
  BY DEF Connected, LedgerIsRemembered
<1>3. CASE Locked(p).pending # 0
  BY <1>1, <1>2, <1>3 DEF Sent, NothingIssuedTo
<1>4. CASE Locked(p).pending = 0
  <2>1. Sent(p) = drawn + 1 /\ Rec.pending = 0
    BY <1>1, <1>4 DEF Sent
  <2>2. ~(Sent(p) <= drawn)
    BY <1>1, <2>1
  <2> QED
    BY <1>2, <2>1, <2>2 DEF NothingIssuedTo
<1> QED
  BY <1>3, <1>4

\* A process that has the lock saves the command it sends, or fails to.
LEMMA SentFollows ==
    ASSUME ServerTypes, ClientTypes, Standing, Connected, NEW p \in Procs,
           Sent(p) \in Commands, NEW d \in Nat, drawn <= d, Sent(p) <= d
    PROVE  LET m == [Locked(p) EXCEPT !.pending = Sent(p)] IN
           /\ m \in Mems /\ IsTip(m) /\ m.pending = Sent(p)
           /\ Follows(m, d)
           /\ Persisted(m) \in Recs /\ Persisted(m).tok = Rec.tok
           /\ Persisted(m).gen = Rec.gen /\ Persisted(m).pending = Sent(p)
<1> DEFINE m == [Locked(p) EXCEPT !.pending = Sent(p)]
<1>1. Locked(p) \in Mems /\ IsTip(Locked(p)) /\ Sent(p) \in 0 .. MaxCommands
  BY LockedIsTip, Bounds DEF Commands
<1>2. m \in Mems /\ m.tok = Locked(p).tok /\ m.gen = Locked(p).gen
      /\ m.pending = Sent(p)
  BY <1>1 DEF Mems
<1> HIDE DEF m
<1>3. IsTip(m) /\ Rec.gen \in Nat
  BY <1>1, <1>2, RecTyped DEF IsTip
<1>4. Follows(m, d)
  BY <1>2, <1>3 DEF Follows, IsTip
<1>5. /\ Persisted(m) \in Recs /\ Persisted(m).tok = Rec.tok
      /\ Persisted(m).gen = Rec.gen /\ Persisted(m).pending = Sent(p)
  BY <1>2, <1>3, PersistedIsTip
<1> QED
  BY <1>2, <1>3, <1>4, <1>5 DEF m

\* The successor is stored, and adopted or not.
LEMMA SuccessorStored ==
    ASSUME ServerTypes, ClientTypes, Numbered, Standing, Connected,
           NEW p \in Procs, pc[p] = "answered", call[p].ans = "issued",
           NEW m, NEW next \in {"idle", "using"}, NEW k, NEW r,
           r = [tok |-> call[p].tok, gen |-> mem[p].gen + 1, pending |-> 0],
           m = mem[p] \/ m = r,
           UNCHANGED <<server, late, drawn>>,
           mem' = [mem EXCEPT ![p] = m], pc' = [pc EXCEPT ![p] = next],
           call' = [call EXCEPT ![p] = k], store' = [store EXCEPT ![Dir] = r]
    PROVE  Connected'
<1>1. /\ UNCHANGED <<tokens, grant, tombs, ledger>>
      /\ Dir \in Procs /\ Tip \in Tokens /\ Rec.gen \in Nat
      /\ drawn \in Nat /\ mem[p].gen \in Nat
  BY RecTyped, DirIsHome, MemTyped DEF server
<1> DEFINE s == call[p].tok
<1>2. /\ call[p].cmd = Rec.pending /\ Rec.pending \in Commands
      /\ \A o \in Procs : Renewing(o) => o = p
      /\ mem[p].gen = Rec.gen
  BY RenewerAsks DEF Renewing, Connected, OneRenews
<1>3. ledger[Rec.pending].st = "accepted" /\ ledger[Rec.pending].tok = s
  BY <1>2 DEF Connected, AnswersAreTrue
<1>4. s \in LiveChildren(tokens, Tip) /\ ~tokens[s].used
  BY <1>2, <1>3 DEF Connected, LedgerIsRemembered
<1>5. /\ s \in Tokens /\ s # Root /\ s # 0 /\ tokens[s].row = "live"
      /\ tokens[s].pred = Tip
  <2>1. s \in Tokens /\ Tip < s /\ tokens[s].pred = Tip
    BY <1>1, <1>4, ChildIsNewer
  <2> QED
    BY <1>1, <1>4, <2>1, Bounds DEF LiveChildren, Tokens, Root
<1>6. /\ Rec' = r /\ r.tok = s /\ r.gen = Rec.gen + 1 /\ r.pending = 0
  BY <1>1, <1>2 DEF Rec, ClientTypes
<1>7. Tip' = s
  <2>1. Tip' = IF Rec'.tok # 0 THEN Rec'.tok ELSE Root
    BY DEF Tip, Held, Rec
  <2> QED
    BY <1>5, <1>6, <2>1
<1> HIDE DEF s
<1>8. ParentsAreUsed' /\ UsedWereIssued'
  BY <1>1 DEF Connected, ParentsAreUsed, UsedWereIssued
<1>9. tokens[Tip].used /\ tokens[Tip].row = "live"
  <2>1. Tip # 0
    BY <1>1, Bounds DEF Tokens
  <2> QED
    BY <1>5, <2>1 DEF Connected, ParentsAreUsed, TipStands
<1>10. TipStands'
  BY <1>1, <1>5, <1>7, <1>9 DEF TipStands
<1>11. RecordIsWhole'
  BY <1>1, <1>5, <1>6 DEF RecordIsWhole
<1>12. /\ mem'[p] = m /\ pc'[p] = next
       /\ \A o \in Procs : o # p => mem'[o] = mem[o] /\ pc'[o] = pc[o]
  BY DEF ClientTypes
<1>13. ASSUME NEW o \in Procs
       PROVE  /\ mem[o].gen <= Rec'.gen /\ mem[o].gen # Rec'.gen
              /\ tokens'[mem[o].tok].used /\ mem[o].pending <= drawn'
  <2>1. Follows(mem[o], drawn) /\ mem[o].gen \in Nat
    BY MemTyped DEF Connected, MemsFollow
  <2> QED
    BY <1>1, <1>6, <1>9, <2>1 DEF Follows
<1>14. MemsFollow'
  <2> SUFFICES ASSUME NEW o \in Procs
               PROVE  Follows(mem[o], drawn)'
    BY DEF MemsFollow
  <2>1. CASE mem'[o] = mem[o]
    BY <1>13, <2>1 DEF Follows
  <2>2. CASE mem'[o] = r
    BY <1>1, <1>6, <1>7, <2>2 DEF Follows
  <2> QED
    BY <1>12, <2>1, <2>2
<1>15. \A o \in Procs : ~Renewing(o)'
  BY <1>2, <1>12 DEF Renewing
<1>16. OneRenews' /\ AnswersAreTrue'
  BY <1>15 DEF OneRenews, AnswersAreTrue, Renewing
<1>17. LedgerIsRemembered'
  <2> SUFFICES ASSUME NEW c \in Commands
               PROVE  /\ ledger[c].st # "absent" => c <= drawn
                      /\ 0 # c /\ s # 0
    BY <1>1, <1>6 DEF LedgerIsRemembered
  <2> QED
    BY <1>5, Bounds DEF Connected, LedgerIsRemembered, Commands
<1>18. ChildIsRemembered'
  <2> SUFFICES ASSUME NEW x \in LiveChildren(tokens, s)
               PROVE  FALSE
    BY <1>1, <1>7 DEF ChildIsRemembered
  <2>1. x \in Tokens /\ tokens[x].row = "live" /\ tokens[x].pred = s
    BY DEF LiveChildren
  <2> QED
    BY <1>4, <1>5, <2>1 DEF Connected, ParentsAreUsed
<1> QED
  BY <1>1, <1>8, <1>10, <1>11, <1>14, <1>16, <1>17, <1>18 DEF Connected

-----------------------------------------------------------------------------
(* Action by action. *)

LEMMA RenewKeeps ==
    ASSUME Inv, ClientTypes', Standing, Connected, NEW p \in Procs, Renew(p)
    PROVE  Connected'
<1>1. ServerTypes /\ ClientTypes
  BY DEF Inv
<1> DEFINE m == [Locked(p) EXCEPT !.pending = Sent(p)]
<1>2. PICK again \in BOOLEAN : Sends(p, Locked(p), Sent(p), again)
  BY DEF Renew, Sent
<1>3. /\ UNCHANGED <<server, mode, late>>
      /\ drawn' = IF Locked(p).pending # 0 THEN drawn ELSE drawn + 1
      /\ Locked(p).pending = 0 => drawn < MaxCommands
  BY DEF Renew
<1>4. /\ Locked(p).pending \in 0 .. MaxCommands /\ Locked(p).pending <= drawn
      /\ drawn \in Nat
  BY <1>1, LockedIsTip, MemTyped
<1>5. Sent(p) \in Commands /\ drawn' \in Nat /\ drawn <= drawn'
      /\ Sent(p) <= drawn' /\ Sent(p) # 0
  BY <1>3, <1>4, Bounds DEF Sent, Commands
<1>6. /\ m \in Mems /\ IsTip(m) /\ m.pending = Sent(p) /\ Follows(m, drawn')
      /\ Persisted(m) \in Recs /\ Persisted(m).tok = Rec.tok
      /\ Persisted(m).gen = Rec.gen /\ Persisted(m).pending = Sent(p)
  BY <1>1, <1>5, SentFollows
<1>7. \A o \in Procs : ~Renewing(o)
  BY LockFreeIsFree DEF Renew
<1>8. /\ mem' = [mem EXCEPT ![p] = m]
      /\ store' = [store EXCEPT ![Dir] = Persisted(m)]
      /\ pc' = [pc EXCEPT ![p] = "sent"]
      /\ call' = [call EXCEPT ![p] =
                    [cmd |-> Sent(p), again |-> again, ans |-> "none",
                     tok |-> 0]]
  BY <1>2, DirIsHome DEF Sends
<1>9. \/ Sent(p) = Rec.pending
      \/ NothingIssuedTo(Rec.pending) /\ NothingIssuedTo(Sent(p))
  BY <1>1, <1>5, SentIsFree
<1> HIDE DEF m
<1> DEFINE k == [cmd |-> Sent(p), again |-> again, ans |-> "none", tok |-> 0]
           r == Persisted(m)
<1>10. k.cmd = Sent(p)
  OBVIOUS
<1>11. call' = [call EXCEPT ![p] = k] /\ store' = [store EXCEPT ![Dir] = r]
       /\ r \in Recs /\ r.tok = Rec.tok /\ r.gen = Rec.gen
       /\ r.pending = Sent(p)
  BY <1>6, <1>8
<1>12. m.gen = Rec.gen
  BY <1>6 DEF IsTip
<1> HIDE DEF k, r
<1>13. /\ UNCHANGED <<server, late>>
       /\ r.pending <= drawn'
       /\ \/ r.pending = Rec.pending
          \/ /\ \A o \in Procs : Renewing(o) => o = p
             /\ NothingIssuedTo(Rec.pending) /\ NothingIssuedTo(r.pending)
       /\ \A o \in Procs : Renewing(o) => o = p
       /\ m.pending = r.pending /\ k.cmd = r.pending /\ r.pending # 0
  BY <1>3, <1>5, <1>6, <1>7, <1>9, <1>10, <1>11
<1>14. m \in Mems /\ Follows(m, drawn') /\ drawn' \in Nat /\ drawn <= drawn'
  BY <1>5, <1>6
<1> HIDE DEF m
<1> QED
  BY <1>1, <1>8, <1>11, <1>12, <1>13, <1>14, ProcessMoves

LEMMA GivesUpPc ==
    ASSUME NEW p \in Procs, NEW m, GivesUp(p, m)
    PROVE  /\ mem' = [mem EXCEPT ![p] = m]
           /\ call' = [call EXCEPT ![p] = NoCall]
           /\ \E next \in {"idle", "using"} : pc' = [pc EXCEPT ![p] = next]
  BY DEF GivesUp

LEMMA SaveFailsKeeps ==
    ASSUME Inv, Standing, Connected, NEW p \in Procs, SaveFails(p)
    PROVE  Connected'
<1>1. ServerTypes /\ ClientTypes
  BY DEF Inv
<1> DEFINE m == [Locked(p) EXCEPT !.pending = Sent(p)]
<1>2. /\ LockFree(p) /\ Sent(p) \in Commands
      /\ drawn' = IF Locked(p).pending = 0 THEN Sent(p) ELSE drawn
      /\ \/ store' = store
         \/ store' = [store EXCEPT ![Home(p)] = Persisted(m)]
      /\ GivesUp(p, m)
      /\ UNCHANGED <<server, mode, late>>
  BY DEF SaveFails, Sent
<1>3. /\ Locked(p).pending \in 0 .. MaxCommands /\ Locked(p).pending <= drawn
      /\ drawn \in Nat
  BY <1>1, LockedIsTip, MemTyped
<1>4. drawn' \in Nat /\ drawn <= drawn' /\ Sent(p) <= drawn'
  BY <1>2, <1>3, Bounds DEF Sent, Commands
<1>5. /\ m \in Mems /\ IsTip(m) /\ m.pending = Sent(p) /\ Follows(m, drawn')
      /\ Persisted(m) \in Recs /\ Persisted(m).tok = Rec.tok
      /\ Persisted(m).gen = Rec.gen /\ Persisted(m).pending = Sent(p)
  BY <1>1, <1>2, <1>4, SentFollows
<1>6. \A o \in Procs : ~Renewing(o)
  BY <1>2, LockFreeIsFree
<1>7. \/ Sent(p) = Rec.pending
      \/ NothingIssuedTo(Rec.pending) /\ NothingIssuedTo(Sent(p))
  BY <1>1, <1>2, SentIsFree
<1> HIDE DEF m
<1>8. PICK next \in {"idle", "using"} :
         /\ mem' = [mem EXCEPT ![p] = m] /\ pc' = [pc EXCEPT ![p] = next]
         /\ call' = [call EXCEPT ![p] = NoCall]
  BY <1>2, GivesUpPc
<1>9. CASE store' = store
  BY <1>1, <1>2, <1>4, <1>5, <1>8, <1>9, ProcessRests
<1>10. CASE store' = [store EXCEPT ![Home(p)] = Persisted(m)]
  <2> DEFINE r == Persisted(m)
  <2>1. /\ store' = [store EXCEPT ![Dir] = r]
        /\ r \in Recs /\ r.tok = Rec.tok /\ r.gen = Rec.gen
        /\ r.pending = Sent(p)
    BY <1>5, <1>10, DirIsHome
  <2> HIDE DEF r
  <2>2. /\ UNCHANGED <<server, late>>
        /\ r.pending <= drawn'
        /\ \/ r.pending = Rec.pending
           \/ /\ \A o \in Procs : Renewing(o) => o = p
              /\ NothingIssuedTo(Rec.pending) /\ NothingIssuedTo(r.pending)
        /\ m \in Mems /\ Follows(m, drawn')
        /\ next \in {"idle", "using", "waiting"}
    BY <1>2, <1>4, <1>5, <1>6, <1>7, <2>1
  <2> QED
    BY <1>1, <1>4, <1>8, <2>1, <2>2, ProcessMoves
<1> QED
  BY <1>2, <1>9, <1>10

LEMMA RefusedKeeps ==
    ASSUME Inv, Standing, Connected, NEW p \in Procs, Refused(p)
    PROVE  Connected'
<1>1. ServerTypes /\ ClientTypes
  BY DEF Inv
<1> DEFINE m == Resolved(mem[p])
<1>2. /\ pc[p] = "answered"
      /\ call[p].ans \in {"superseded", "unused", "ended"}
      /\ \/ store' = store
         \/ store' = [store EXCEPT ![Home(p)] = Persisted(m)]
      /\ mem' = [mem EXCEPT ![p] = m]
      /\ \E next \in {"idle", "using"} : pc' = [pc EXCEPT ![p] = next]
      /\ call' = [call EXCEPT ![p] = NoCall]
      /\ UNCHANGED <<server, mode, drawn, late>>
  BY DEF Refused
<1>3. PICK next \in {"idle", "using"} : pc' = [pc EXCEPT ![p] = next]
  BY <1>2
<1>4. mem[p] \in Mems /\ drawn \in Nat /\ Rec.gen \in Nat
  BY <1>1, MemTyped, RecTyped
<1>5. /\ mem[p].tok = Tip /\ mem[p].gen = Rec.gen
      /\ call[p].cmd = Rec.pending /\ \A o \in Procs : Renewing(o) => o = p
  BY <1>1, <1>2, RenewerAsks DEF Connected, OneRenews, Renewing
<1>6. m \in Mems /\ IsTip(m) /\ m.pending = 0
  BY <1>4, <1>5, Bounds DEF Resolved, IsTip, Mems
<1>7. Follows(m, drawn)
  BY <1>4, <1>6 DEF Follows, IsTip
<1>8. NothingIssuedTo(Rec.pending) /\ NothingIssuedTo(0)
  BY <1>2, <1>5 DEF Connected, AnswersAreTrue, NothingIssuedTo
<1> HIDE DEF m
<1>11. /\ UNCHANGED <<server, late>> /\ mem' = [mem EXCEPT ![p] = m]
       /\ call' = [call EXCEPT ![p] = NoCall]
       /\ m \in Mems /\ Follows(m, drawn')
       /\ drawn' \in Nat /\ drawn <= drawn'
       /\ next \in {"idle", "using", "waiting"}
  BY <1>2, <1>4, <1>6, <1>7
<1>9. CASE store' = store
  BY <1>1, <1>3, <1>9, <1>11, ProcessRests
<1>10. CASE store' = [store EXCEPT ![Home(p)] = Persisted(m)]
  <2> DEFINE r == Persisted(m)
  <2>1. /\ store' = [store EXCEPT ![Dir] = r]
        /\ r \in Recs /\ r.tok = Rec.tok /\ r.gen = Rec.gen
        /\ r.pending = 0
    BY <1>1, <1>6, <1>10, DirIsHome, PersistedIsTip
  <2> HIDE DEF r
  <2>2. /\ r.pending <= drawn' /\ \A o \in Procs : Renewing(o) => o = p
        /\ NothingIssuedTo(Rec.pending) /\ NothingIssuedTo(r.pending)
    BY <1>4, <1>5, <1>8, <1>11, <2>1
  <2> QED
    BY <1>1, <1>3, <1>11, <2>1, <2>2, ProcessMoves
<1> QED
  BY <1>2, <1>9, <1>10

\* The steps that leave the record alone.
LEMMA RestKeeps ==
    ASSUME Inv, Standing, Connected, NEW p \in Procs,
           \/ Bearer(p) \/ FindsRenewed(p) \/ Denied(p)
           \/ LoseRequest(p) \/ LoseAnswer(p) \/ Crash(p)
    PROVE  Connected'
<1>1. ServerTypes /\ ClientTypes
  BY DEF Inv
<1>2. /\ mem[p] \in Mems /\ drawn \in Nat /\ Rec.gen \in Nat
      /\ mem[p].gen \in Nat /\ Record(p) = Rec /\ Rec \in Recs
      /\ mem = [mem EXCEPT ![p] = mem[p]]
      /\ call = [call EXCEPT ![p] = call[p]]
  BY <1>1, MemTyped, RecTyped, RecordIsRec DEF ClientTypes
<1>3. Follows(mem[p], drawn)
  BY DEF Connected, MemsFollow
<1>4. ASSUME NEW m \in Mems, IsTip(m), m.pending <= drawn
      PROVE  Follows(m, drawn)
  BY <1>2, <1>4 DEF Follows, IsTip
<1>5. ASSUME NEW m \in Mems, Follows(m, drawn),
             NEW next \in {"idle", "using", "waiting"}, NEW k,
             UNCHANGED <<server, store, late, drawn>>,
             mem' = [mem EXCEPT ![p] = m], pc' = [pc EXCEPT ![p] = next],
             call' = [call EXCEPT ![p] = k]
      PROVE  Connected'
  <2>1. /\ drawn' \in Nat /\ drawn <= drawn' /\ Follows(m, drawn')
        /\ UNCHANGED <<server, store, late>>
    BY <1>2, <1>5
  <2> QED
    BY <1>1, <1>5, <2>1, ProcessRests
<1>6. CASE Bearer(p)
  <2> DEFINE m == IF Record(p).gen > mem[p].gen THEN Holding(mem[p], Record(p))
                                                ELSE mem[p]
  <2>1. /\ UNCHANGED <<server, store, late, drawn, call>>
        /\ mem' = [mem EXCEPT ![p] = m]
        /\ \E next \in {"using", "waiting"} : pc' = [pc EXCEPT ![p] = next]
    BY <1>6 DEF Bearer
  <2>2. m \in Mems /\ Follows(m, drawn)
    <3>1. CASE Rec.gen > mem[p].gen
      <4>1. /\ Holding(mem[p], Rec) \in Mems /\ IsTip(Holding(mem[p], Rec))
            /\ Holding(mem[p], Rec).pending = mem[p].pending
        BY <1>1, <1>2, <3>1, HoldingIsTip
      <4> QED
        BY <1>2, <1>3, <1>4, <3>1, <4>1 DEF Follows
    <3>2. CASE ~(Rec.gen > mem[p].gen)
      BY <1>2, <1>3, <3>2
    <3> QED
      BY <3>1, <3>2
  <2> HIDE DEF m
  <2> QED
    BY <1>2, <1>5, <2>1, <2>2
<1>7. CASE FindsRenewed(p)
  <2>1. Locked(p) \in Mems /\ Follows(Locked(p), drawn)
    BY <1>1, <1>4, LockedIsTip
  <2> QED
    BY <1>2, <1>5, <1>7, <2>1 DEF FindsRenewed
<1>8. CASE Denied(p)
  BY <1>2, <1>3, <1>5, <1>8 DEF Denied
<1>9. CASE LoseRequest(p) \/ LoseAnswer(p)
  <2>1. GivesUp(p, mem[p]) /\ UNCHANGED <<server, store, late, drawn>>
    BY <1>9 DEF LoseRequest, LoseAnswer, Standing
  <2> QED
    BY <1>2, <1>3, <1>5, <2>1, GivesUpPc
<1>10. CASE Crash(p)
  <2> DEFINE o == [tok |-> Root, gen |-> 0, pending |-> 0]
             h == Holding(o, Rec)
             m == [h EXCEPT !.pending = Rec.pending]
  <2>1. /\ UNCHANGED <<server, store, late, drawn>>
        /\ mem' = [mem EXCEPT ![p] = m]
        /\ pc' = [pc EXCEPT ![p] = "idle"]
        /\ call' = [call EXCEPT ![p] = NoCall]
    BY <1>2, <1>10 DEF Crash
  <2>2. o \in Mems /\ Rec.gen >= o.gen /\ (o.gen = Rec.gen => o.tok = Tip)
    BY <1>1, <1>2, RootRecord, RecTyped DEF Connected, RecordIsWhole
  <2>3. h \in Mems /\ IsTip(h)
    BY <1>1, <2>2, HoldingIsTip
  <2> HIDE DEF h
  <2>4. /\ m \in Mems /\ IsTip(m) /\ m.pending = Rec.pending
    BY <1>1, <2>3, RecTyped DEF Mems, IsTip
  <2>5. Follows(m, drawn)
    BY <1>4, <2>4 DEF Connected, RecordIsWhole
  <2> HIDE DEF m
  <2> QED
    BY <1>5, <2>1, <2>4, <2>5
<1> QED
  BY <1>6, <1>7, <1>8, <1>9, <1>10

\* The answers with a successor, or with a replay that carries none.
LEMMA AdoptKeeps ==
    ASSUME Inv, Standing, Connected, NEW p \in Procs,
           Adopt(p) \/ AdoptFails(p) \/ NoSecret(p)
    PROVE  Connected'
<1> DEFINE r == [tok |-> call[p].tok, gen |-> mem[p].gen + 1, pending |-> 0]
<1>1. ServerTypes /\ ClientTypes /\ Numbered
  BY DEF Inv
<1>2. mem[p] \in Mems /\ drawn \in Nat /\ Home(p) = Dir
  BY <1>1, MemTyped, DirIsHome
<1>3. CASE Adopt(p)
  <2>1. /\ pc[p] = "answered" /\ call[p].ans = "issued"
        /\ store' = [store EXCEPT ![Dir] = r]
        /\ mem' = [mem EXCEPT ![p] = r]
        /\ pc' = [pc EXCEPT ![p] = "using"]
        /\ call' = [call EXCEPT ![p] = NoCall]
        /\ UNCHANGED <<server, drawn, late>>
    BY <1>2, <1>3 DEF Adopt
  <2> QED
    BY <1>1, <2>1, SuccessorStored
<1>4. CASE AdoptFails(p)
  <2>1. /\ pc[p] = "answered" /\ call[p].ans = "issued"
        /\ store' = store \/ store' = [store EXCEPT ![Dir] = r]
        /\ GivesUp(p, mem[p])
        /\ UNCHANGED <<server, drawn, late>>
    BY <1>2, <1>4 DEF AdoptFails
  <2>2. PICK next \in {"idle", "using"} :
           /\ mem' = [mem EXCEPT ![p] = mem[p]]
           /\ pc' = [pc EXCEPT ![p] = next]
           /\ call' = [call EXCEPT ![p] = NoCall]
    BY <2>1, GivesUpPc
  <2>3. CASE store' = store
    <3>1. Follows(mem[p], drawn)
      BY DEF Connected, MemsFollow
    <3>2. /\ drawn' \in Nat /\ drawn <= drawn' /\ Follows(mem[p], drawn')
          /\ UNCHANGED <<server, store, late>>
      BY <1>2, <2>1, <2>3, <3>1
    <3> QED
      BY <1>1, <1>2, <2>2, <3>2, ProcessRests
  <2>4. CASE store' = [store EXCEPT ![Dir] = r]
    BY <1>1, <2>1, <2>2, <2>4, SuccessorStored
  <2> QED
    BY <2>1, <2>3, <2>4
<1>5. CASE NoSecret(p)
  BY <1>5 DEF NoSecret, Connected, AnswersAreTrue
<1> QED
  BY <1>3, <1>4, <1>5

LEMMA UseKeeps ==
    ASSUME Inv, Standing, Connected, NEW p \in Procs, Use(p)
    PROVE  Connected'
<1>1. ServerTypes /\ ClientTypes /\ Numbered
  BY DEF Inv
<1>2. /\ UNCHANGED <<grant, tombs, ledger, store, mem, call, drawn, late>>
      /\ pc' = [pc EXCEPT ![p] = "idle"]
      /\ tokens' = Stamped(mem[p].tok) \/ UNCHANGED tokens
  BY DEF Use
<1>3. mem[p].tok \in Tokens /\ (mem[p].tok = Tip \/ tokens[mem[p].tok].used)
  <2>1. Follows(mem[p], drawn)
    BY DEF Connected, MemsFollow
  <2> QED
    BY <1>1, <2>1, MemTyped DEF Follows
<1>4. ASSUME tokens' = Stamped(mem[p].tok)
      PROVE  RowsStay
  <2> DEFINE t == mem[p].tok
  <2>1. t \in Tokens /\ (t = Tip \/ tokens[t].used) /\ tokens' = Stamped(t)
    BY <1>3, <1>4
  <2> HIDE DEF t
  <2> QED
    BY <1>1, <2>1, StampStays
<1>5. ASSUME UNCHANGED tokens
      PROVE  RowsStay
  BY <1>5 DEF RowsStay
<1>6. \A o \in Procs : /\ pc'[o] = IF o = p THEN "idle" ELSE pc[o]
                       /\ call'[o] = call[o]
  BY <1>1, <1>2 DEF ClientTypes
<1>7. AnswersAreTrue'
  BY <1>2, <1>6 DEF Connected, AnswersAreTrue
<1>8. \A o \in Procs : Renewing(o)' =>
         Renewing(o) /\ call'[o].cmd = call[o].cmd
  BY <1>6 DEF Renewing
<1>9. AnswersStay /\ ~grant'.horizon
  BY <1>2 DEF AnswersStay, Connected
<1> QED
  BY <1>1, <1>2, <1>4, <1>5, <1>7, <1>8, <1>9, QuietStep

LEMMA TimeKeeps ==
    ASSUME Inv, Standing, Connected,
           \/ Resume \/ HorizonPasses
           \/ \E t \in Tokens : Grows(t)
           \/ UNCHANGED vars
    PROVE  Connected'
<1>1. ServerTypes /\ ClientTypes /\ Numbered /\ grant \in GrantRows
  BY GrantRow DEF Inv
<1>2. ~grant.horizon /\ grant.kind = "standing"
  BY DEF Connected, Standing
<1>3. UNCHANGED <<tombs, ledger, client, late>>
  BY DEF Resume, HorizonPasses, Grows, vars, server
<1>4. ASSUME NEW t \in Tokens, Grows(t)
      PROVE  RowsStay /\ ~grant'.horizon
  <2>1. tokens' = [tokens EXCEPT ![t].age = @ + 1] /\ grant' = grant
    BY <1>4 DEF Grows
  <2>2. ASSUME NEW s \in Tokens
        PROVE  /\ tokens'[s].row = tokens[s].row
               /\ tokens'[s].pred = tokens[s].pred
               /\ tokens'[s].used = tokens[s].used
    <3>1. tokens[s] \in TokenRows
      BY <1>1, TokenRow
    <3>2. \/ tokens'[s] = tokens[s]
          \/ tokens'[s] = [tokens[s] EXCEPT !.age = @ + 1]
      BY <1>1, <2>1 DEF ServerTypes
    <3> QED
      BY <3>1, <3>2 DEF TokenRows
  <2> QED
    BY <1>2, <2>1, <2>2 DEF RowsStay
<1>5. ASSUME Resume
      PROVE  RowsStay /\ ~grant'.horizon
  BY <1>1, <1>2, <1>5 DEF Resume, RowsStay, GrantRows
<1>6. ASSUME UNCHANGED vars
      PROVE  RowsStay /\ ~grant'.horizon
  BY <1>2, <1>6 DEF vars, server, RowsStay
<1>7. ~HorizonPasses
  BY <1>2 DEF HorizonPasses
<1>8. RowsStay /\ ~grant'.horizon
  BY <1>4, <1>5, <1>6, <1>7
<1> QED
  BY <1>1, <1>3, <1>8, ClientRests

-----------------------------------------------------------------------------
(* A standing connection stays one, or is revoked. *)

LEMMA StandingBefore ==
    ASSUME Inv, Standing', [Next]_vars
    PROVE  Standing /\ ~RevokePrincipal
           /\ \A t \in Tokens, byHuman \in BOOLEAN : ~RevokeToken(t, byHuman)
<1>1. ServerTypes /\ ClientTypes /\ CallsAreWhole /\ Numbered
      /\ grant \in GrantRows
  BY GrantRow DEF Inv
<1>2. /\ ~RevokePrincipal
      /\ \A t \in Tokens, byHuman \in BOOLEAN : ~RevokeToken(t, byHuman)
  BY <1>1 DEF RevokePrincipal, RevokeToken, Standing, GrantRows
<1>3. mode' = mode
  <2>1. ASSUME NEW p \in Procs, Client(p) \/ Serve(p) \/ Faulty(p)
        PROVE  mode' = mode
    <3>1. ASSUME Client(p)
          PROVE  mode' = mode
      BY <3>1 DEF Client, Bearer, FindsRenewed, Renew, Use, Adopt, NoSecret,
                  Refused, Denied
    <3>2. ASSUME Serve(p)
          PROVE  mode' = mode
      BY <3>2 DEF Serve, Answered, client
    <3>3. ASSUME Faulty(p)
          PROVE  mode' = mode
      BY <3>3 DEF Faulty, SaveFails, LoseRequest, LoseAnswer, AdoptFails, Crash
    <3> QED
      BY <2>1, <3>1, <3>2, <3>3
  <2>2. ASSUME ServeLate \/ Operator \/ Time
        PROVE  mode' = mode
    BY <2>2 DEF ServeLate, Operator, RevokeToken, RevokePrincipal, Resume,
                Time, Grows, HorizonPasses, client
  <2> QED
    BY <2>1, <2>2 DEF Next, vars, client
<1>4. grant'.kind = grant.kind /\ ~grant.revoked
  <2>1. CASE Idles
    BY <2>1 DEF Idles, SameBudget, Standing
  <2>2. CASE \E t \in Tokens : Uses(t)
    BY <2>2 DEF Uses, Standing
  <2>3. CASE \E t, n \in Tokens : Grants(t, n)
    <3>1. PICK t \in Tokens, n \in Tokens : Grants(t, n)
      BY <2>3
    <3>2. grant' = Counted(Credited(t), t)
      BY <3>1 DEF Grants
    <3> QED
      BY <1>1, <3>2 DEF Counted, Credited, GrantRows, Standing
  <2>4. CASE Ends
    BY <2>4 DEF Ends, Standing
  <2> QED
    BY <1>1, <2>1, <2>2, <2>3, <2>4, LineageSteps
<1> QED
  BY <1>2, <1>3, <1>4 DEF Standing

LEMMA ConnectedKept ==
    ASSUME Inv, Inv', Standing', Standing => Connected, [Next]_vars
    PROVE  Connected'
<1>1. /\ Standing /\ Connected /\ ~RevokePrincipal
      /\ \A t \in Tokens, byHuman \in BOOLEAN : ~RevokeToken(t, byHuman)
  BY StandingBefore
<1>2. ClientTypes'
  BY DEF Inv
<1>3. ASSUME NEW p \in Procs, Client(p)
      PROVE  Connected'
  BY <1>1, <1>2, <1>3, RestKeeps, RenewKeeps, UseKeeps, AdoptKeeps,
     RefusedKeeps DEF Client
<1>4. ASSUME NEW p \in Procs, Serve(p)
      PROVE  Connected'
  BY <1>1, <1>4, ServeKeeps
<1>5. ASSUME NEW p \in Procs, Faulty(p)
      PROVE  Connected'
  BY <1>1, <1>5, SaveFailsKeeps, RestKeeps, AdoptKeeps DEF Faulty
<1>6. ~ServeLate
  BY <1>1 DEF ServeLate, Connected
<1>7. ASSUME Operator \/ Time \/ UNCHANGED vars
      PROVE  Connected'
  BY <1>1, <1>7, TimeKeeps DEF Operator, Time
<1> QED
  BY <1>3, <1>4, <1>5, <1>6, <1>7 DEF Next

LEMMA InitConnected == Init => (Standing => Connected)
<1> SUFFICES ASSUME Init, Standing
             PROVE  Connected
  OBVIOUS
<1>1. ClientTypes
  BY InitInv DEF Inv
<1>2. /\ Dir \in Procs /\ Rec = NoRecord /\ Tip = Root
  <2>1. Dir \in Procs
    BY DirIsHome
  <2> QED
    BY <2>1 DEF Init, Rec, Tip, Held, NoRecord
<1>3. /\ tombs = {} /\ late = {} /\ drawn = 0 /\ grant.horizon = FALSE
      /\ mem = [p \in Procs |-> [tok |-> Root, gen |-> 0, pending |-> 0]]
      /\ pc = [p \in Procs |-> "idle"]
      /\ ledger = [c \in Commands |-> [st |-> "absent", tok |-> 0]]
      /\ tokens = [t \in Tokens |-> IF t = Root THEN Row("live", 0, FALSE)
                                                ELSE Row("none", 0, FALSE)]
  BY DEF Init
<1>4. \A t \in Tokens : /\ tokens[t].pred = 0 /\ ~tokens[t].used
                        /\ tokens[t].row = IF t = Root THEN "live" ELSE "none"
  BY <1>3 DEF Row
<1>5. ParentsAreUsed /\ UsedWereIssued /\ TipStands
  BY <1>2, <1>4, Bounds DEF ParentsAreUsed, UsedWereIssued, TipStands
<1>6. RecordIsWhole
  BY <1>2, <1>3 DEF RecordIsWhole, NoRecord, Root
<1>7. MemsFollow
  <2> SUFFICES ASSUME NEW p \in Procs
               PROVE  Follows(mem[p], drawn)
    BY DEF MemsFollow
  <2>1. mem[p].tok = Root /\ mem[p].gen = 0 /\ mem[p].pending = 0
    BY <1>3
  <2>2. Rec.gen = 0
    BY <1>2 DEF NoRecord
  <2>3. Tip = Root /\ drawn = 0
    BY <1>2, <1>3
  <2> QED
    BY <2>1, <2>2, <2>3 DEF Follows
<1>8. OneRenews /\ AnswersAreTrue
  BY <1>3 DEF OneRenews, AnswersAreTrue, Renewing
<1>9. LedgerIsRemembered
  BY <1>3 DEF LedgerIsRemembered
<1>10. ChildIsRemembered
  <2> SUFFICES ASSUME NEW s \in LiveChildren(tokens, Tip)
               PROVE  FALSE
    BY DEF ChildIsRemembered
  <2> QED
    BY <1>2, <1>4, Bounds DEF LiveChildren, Root
<1> QED
  BY <1>3, <1>5, <1>6, <1>7, <1>8, <1>9, <1>10 DEF Connected

LEMMA InitClientInv == Init => ClientInv
  BY InitInv, InitConnected DEF ClientInv

LEMMA ClientInvKept == ClientInv /\ [Next]_vars => ClientInv'
  BY InvKept, ConnectedKept DEF ClientInv

(* What the rows and the record of the shared directory say of each other. *)
THEOREM ClientInvariance == Spec => []ClientInv
  BY InitClientInv, ClientInvKept, PTL DEF Spec

-----------------------------------------------------------------------------
(* The connection is never lost. *)

LEMMA ConnectedIsNotLockedOut ==
    ASSUME mode # "late", ClientInv
    PROVE  NeverLockedOut
<1> SUFFICES ASSUME Together, grant.kind = "standing", ~grant.revoked,
                    ~grant.suspended, NEW p \in Procs
             PROVE  LET t == Held(Home(p)) IN
                    /\ Admitted(t, TRUE)
                    /\ LockFree(p) => \A s \in LiveChildren(tokens, t) :
                          /\ ~tokens[s].used
                          /\ Record(p).pending # 0
                          /\ ledger[Record(p).pending].tok = s
  BY DEF NeverLockedOut
<1>1. ServerTypes /\ ClientTypes
  BY DEF ClientInv, Inv
<1>2. mode = "shared"
  BY <1>1, BoundAssumption DEF ClientTypes, Together, BoundAssumption
<1>3. Standing /\ Connected
  BY <1>2 DEF Standing, ClientInv
<1>4. Home(p) = Dir /\ Record(p) = Rec /\ Held(Home(p)) = Tip
  BY <1>3, DirIsHome, RecordIsRec DEF Tip
<1>5. /\ Tip \in Tokens /\ Rec.pending \in 0 .. MaxCommands
  BY <1>1, <1>3, RecTyped
<1>6. ASSUME NEW s \in LiveChildren(tokens, Tip)
      PROVE  /\ ~tokens[s].used /\ Rec.pending # 0
             /\ ledger[Rec.pending].tok = s
  <2>1. /\ Rec.pending # 0 /\ ledger[Rec.pending].st = "accepted"
        /\ ledger[Rec.pending].tok = s
    BY <1>3 DEF Connected, ChildIsRemembered
  <2>2. Rec.pending \in Commands
    BY <1>5, <2>1, Bounds DEF Commands
  <2> QED
    BY <1>3, <2>1, <2>2 DEF Connected, LedgerIsRemembered
<1>7. Authorised(Tip)
  BY <1>3 DEF Connected, TipStands, Authorised
<1>8. Eligible(Tip)
  <2>1. ~HandedOver(tokens, Tip)
    BY <1>6 DEF HandedOver
  <2>2. tokens[Tip].pred # 0 => tokens[Tip].pred \in Tokens
    BY <1>1, <1>5, TokenRow, Bounds DEF Tokens
  <2> QED
    BY <1>3, <2>1, <2>2 DEF Connected, TipStands, Eligible
<1> QED
  BY <1>4, <1>6, <1>7, <1>8 DEF Admitted

(* Lost answers, failed writes, crashes and any interleaving of the        *)
(* processes that share a state directory never cost the agent its         *)
(* standing connection, as long as no request is executed after its sender *)
(* gave up on it (mode "late"): the token the directory stands for is      *)
(* admitted for renewal, and a successor that stands in its way was issued *)
(* to the command the directory remembers.                                 *)
THEOREM StaysConnected == Spec => [](mode # "late" => NeverLockedOut)
<1>1. ClientInv => (mode # "late" => NeverLockedOut)
  BY ConnectedIsNotLockedOut
<1> QED
  BY <1>1, ClientInvariance, PTL

=============================================================================
