# CommonSwarm: a TLA+ verification project

CommonSwarm is a cloud coordination service for people and coding agents, and a
command line client, `cswarm`. A PostgreSQL database behind Supabase edge
functions holds append-only event streams and their projections; clients send
commands to one function, `command`, and a local listener delivers signals to an
agent's session. This directory holds TLA+ models of that core, the TLC runs that
check them on small instances, and proofs checked by TLAPS.

Paths below are relative to the repository root. `command/index.ts` stands for
`supabase/functions/command/index.ts`, `agent-auth.ts` for
`supabase/functions/_shared/agent-auth.ts`.

## The system and its parts

| Part | State it keeps | Operations | What is hard | What makes it correct |
|---|---|---|---|---|
| Task lease core (`src/protocol/commands.ts`, `reducer.ts`, `events.ts`, `updateProjection` of `command/index.ts`) | one task row (lifecycle, version, epoch, owner, expiry, frozen submission), lease history rows, takeover grants | create, acquire, renew, handoff, takeover, submit, close, reopen | stale holders, takeovers racing expiry, reviews that outlive a lease, two tables written apart | an epoch names one owner for ever; both tables agree; a live lease moves only by its holder's leave or by a grant spent on that move, and under review not at all |
| Command transaction (`handleTransaction` of `command/index.ts`, `agent-auth.ts`, `src/protocol/idempotency.ts`) | stream heads, events, task rows, idempotency ledger, memberships, row locks | admission, lock plan, authentication, lookup, decide, append, projection, ledger, replay, retry | READ COMMITTED interleavings, reads before locks, repeats and reuses of command ids, plan changes | contiguous sequence numbers, at most one effect per command id, same answer for every repeat, rows = fold of events |
| Durable delivery and execution sessions (`command/durable-delivery.ts`, `agent-auth.ts`, session operations of `command/index.ts`) | one delivery row per signal, session row, retired sessions | claim, ack on a lease, unclaimed observation, acquire, activate, renew, release, recover, disable | late and repeated acks, expiry against attempts, a lost session's rows, managed and unmanaged clients mixed | only the newest lease ends a delivery; a decided delivery stays decided; leases are fenced by the current session |
| Durable listener, main queue, hook, check (`src/listener/runtime.ts`, `delivery-journal.ts`, `main-routing.ts`, `hook.ts`, `src/cloud/agent-check.ts`) | journal, effect records, bounded queue file, high-water | claim, resume, queue, effect, prepare ack, ack, print, observe, remove | crashes between any two writes, lost answers, the hook running beside the listener, a full queue | nothing is acknowledged as queued that no file holds; nothing is reported observed that was not printed; no live lease is forgotten |
| Agent token renewal (`src/cloud/renewal.ts`, `agent-auth.ts`, renewal parts of `src/protocol/workspace-commands.ts` and `command/index.ts`, `local_suspension_fence.sql`) | token lineage, renewal grant, tombstones, ledger answers; on the client a state directory with successor, generation and pending command | renew, adopt, replace an undelivered successor, revoke token or principal, resume; save, adopt, crash and reopen on the client | the answer with the secret is lost, two processes find the credential due at once, a request runs after its sender gave up | at most one used token and one unused one are accepted; a lost successor costs nothing; one revocation ends all; the directory always holds a credential that can renew |
| Workspace authority (`src/protocol/workspace-*.ts`, `household-invitations.ts`, `command/household-*.ts`, the agent membership and lead migrations) | workspaces, members and roles, invitations, agents and their seats, the lead, household boundary, content roles and content approvals | create, rename, archive, invite, revoke, two ways to accept, change role, remove, create, revoke, add and remove agents, set the lead, consent, approve, withdraw | a caller who is no member yet reads without locks; a removal writes six tables; rows that outlive what justified them; two paths to one invitation | an owner remains; a removal holds against older invitations and requests in flight; rights end with the membership and do not come back with it |
| Client sessions, pending commands, wake lease, H0 poll, hosted MCP seats, admin delegation, household objects and to-dos | files and rows of their own | | | not modelled yet; see the plan |
| Hosts, command line, site, storage, deployment | | | external programs, I/O, user interface | out of scope |

How they interact: the command transaction runs `decide()` of the task core
under its locks and folds the result; claims and acks go through the same
transaction, the claim's answer stored in the same ledger; the listener talks to
the delivery service by claim and ack with command ids it journals first; hook
and check report observations to the same rows. Every agent request carries the
bearer that token renewal keeps alive, and the members, seats and roles of the
workspace authority are what admission reads: `CommandStream` keeps of it only
who is a member (`Join`, `Remove`). `PROJECT.json` lists every part,
the hazards each has at its line, and which property watches which hazard.

## Modules

- `TaskCore` - the guards of `decide()` (`CanCreate` ... `CanReopen`) and the cases
  of `reduceTask()` as operators on a task record. No state; used by two modules.
- `TaskLease` - one task in the service: each action is a whole committed
  transaction (guards, fold, `swarm.leases` rows, grant consumption and
  revocation). `IssueGrant` is external: the repository reads and spends
  takeover grants and never issues one. `ChangeRole` and `Tick` are the
  environment. Refused commands leave this state alone.
- `FencedAuthority` - what a lease promises, abstractly: an epoch counter and a
  holder, where authority only moves by raising the epoch. `TaskLease`
  implements it under the mapping in `ImplementsFencedAuthority`.
- `CommandStream` - the transaction around a task command, statement by
  statement: `Admit`, `Plan`, `LockUser`, `LockWorkspace`, `LockStream`,
  `Recheck`, `Authenticate`, `Lookup`, `Lock`, `Commit`, with `ClosureChanges`
  and `Fail` at the points where the plan or the connection can break, and
  `Join`/`Remove` as the membership commands of other transactions. What a
  request writes appears at `Commit`; before, it holds only row locks.
- `SignalDelivery` - the delivery rows of one principal and its execution
  session. Each action is one transaction; clients may present any lease late or
  twice and any session they ever had.
- `DurableListener` - extends `SignalDelivery` with the listener, its files, the
  hook and `cswarm check`. Each durable write and each request is a step; a
  request can fail before or after the server ran it, and listener and hook can
  crash between any two steps and restart from their files.
- `TokenRenewal` - one lineage of one agent. The server side is one step per
  transaction (`Denies`, `CommitsAdoption`, `Replays`, `Refuses`, `Issues`, the
  revocations, `Resume`); the client side is `AgentCredentialSession` of one or
  two processes, with the file lock, the saved command and the saved successor as
  separate steps. The age of a token (fresh, due, expired) stands for its dates.
  `Modes` says how the processes run: `copies` (a directory each, requests may be
  executed late), `shared` (one directory, no late requests), `late` (one
  directory and late requests).
- `WorkspaceAuthority` - members and what a membership carries. A command of a
  member is one step: it plans its locks, reads its admission again under them and
  starts over when the plan changed, so deciding and writing are atomic with
  respect to the rows it uses. `accept_invitation` is two steps,
  `RouteInvitation` without locks and `AcceptInvitation` under them, because its
  caller is no member and has no plan. Refusals are events and move the stream
  head where the code appends them. A content approval is `live`, `stale` (its
  receipt is not the owner's current consent) or `revoked`; the credential it is
  bound to is taken to be live.
- `TaskLeaseProofs`, `CommandStreamProofs`, `SignalDeliveryProofs`,
  `DurableListenerProofs`, `TokenRenewalProofs`, `WorkspaceAuthorityProofs` - the
  theorems about the module each is named for. `DurableListenerProofs` builds on
  `SignalDeliveryProofs`.
- `RenewalClientProofs` - builds on `TokenRenewalProofs`: the theorems that join
  the client's state directory to the server's rows.
- `MCTaskLease`, `MCCommandStream`, `MCSignalDelivery`, `MCDurableListener`,
  `MCTokenRenewal`, `MCWorkspaceAuthority` - instances for TLC; they add symmetry
  sets only.

Operators whose comment starts with "Fault:" are wrong variants of the operator
below them. No specification uses them; `PROJECT.json` pairs each with the
property that catches it.

## Runs

| Run | Property | What it shows |
|---|---|---|
| `task_lease` | `EpochNamesOneOwner`, `OpenRowIsTheLease`, `SubmissionMatchesLifecycle`, `LiveLeaseMovesByLeave`, `ImplementsFencedAuthority`, `TypeOK` | two principals, all commands, expiries, grants and role changes |
| `stream` | `SeqsAreContiguous`, `TakesEffectOnce`, `AnswersAgree`, `NoCollision`, `MembershipHeld`, `ProjectionIsFold` | three requests of a person and an agent on two streams, with removals, rejoins and failures anywhere |
| `stream_live` | `EveryRequestEnds` | waiting and retrying always end |
| `delivery` | `AckNamesNewestLease`, `OpenRowsFollowHolder`, `LiveLeaseIsFenced`, `DecidedStays`, `NeverGivenUpUnderLease`, `TypeOK` with the table's CHECK constraints | two signals, two sessions, every session operation |
| `delivery_legacy` | `EveryDeliveryEnds` | an unmanaged principal |
| `delivery_expiry_check` (violation) | `ClaimNeverAborts` | see the finding |
| `listener` | `QueuedIsKept`, `ObservedWasPrinted`, `LiveLeaseIsJournalled`, `RuntimeKeepsGoing` | two signals, two faults, queue of one |
| `listener_live` | `EverySignalSurfaces`, `QueuedBecomesObserved` | one signal, two faults |
| `renewal` | `OverlapIsBounded`, `BudgetIsExact`, `FenceAgrees`, `RevocationReachesAll` | two copies of a credential, standing and timeboxed grants, late requests, revocations by people and by the agent |
| `renewal_client` | `NeverLockedOut`, `DueIsRenewed` | two processes on one directory; a lost message, a failed write or a crash anywhere |
| `workspace` | `OwnerRemains`, `JoinSpendsInvitation`, `RemovalSticks`, `ConsentIsRenewed`, `JoinsReviewedAudience` | three people and two invitations in one workspace |
| `workspace_agents` | `LeadIsAlive`, `RightsFollowMembership`, `AccessNeedsApproval` | one agent with a home and a workspace it can be a guest of |

One result deserves a sentence. `NoCollision` says that once the row locks of
`lockLocalAuthPlan` are taken (or, without a plan, the users row that
`authenticateHuman` writes), neither the events' primary key nor the ledger's is
ever found taken. The rerun after `LedgerRace` is therefore a second line of
defence that task commands of people and local agents cannot reach; it is not an
action of the model for that reason.

### Finding

`delivery_expiry_check` reproduces a disagreement between the code and a line of
the repository; `PROJECT.json` quotes both. A delivery leased again without a new
attempt can expire more often than it was attempted; the counter's CHECK then
aborts every claim of the principal until its session is replaced.

### Observations

Modelling turned up more places where the code does something a line of the
repository does not say, or says otherwise. The models contain each behaviour;
none has a run of its own.

- *Tasks.* `handoff` on a `done` task with a live lease takes it back to
  `awaiting_review` (`src/protocol/commands.ts:153`); `SWARM-CLOUD.md:105` calls
  `done` terminal.
- *Streams.* A refusal can be the first event about a task. The projection skips
  it; `reduceTask`, and so `reduceStream`, throws on it (`reducer.ts:51`).
- *Lock plans.* If a person is removed between admission and planning and
  reinstated before the admission is repeated, `planLocalOperation` returns no
  plan and the request goes on without the workspace and membership locks; it can
  then commit after a second removal. That is why `MembershipHeld` speaks of
  planned requests only, while `NoCollision` holds for all.
- *Sessions.* An expired session still writes: the proof of its command activates
  it again (`agent-auth.ts:331`). A client that keeps its proof headers after
  management is disabled binds rows of an unmanaged principal
  (`command/index.ts:14008`). The first session operation of a principal reopens
  receipts queued before it was managed, which `DecidedStays` allows for any
  queued receipt.
- *Late renewals.* A renewal request that is executed after its sender gave up and
  repeated it finds the repeat's successor saved but unused, takes it for
  undelivered and discards it (`command/index.ts:13068`, "nobody ever received
  it"). The directory is then left with a revoked credential. `renewal_client`
  assumes that no request is executed after its sender gave up; with
  `Modes = {"late"}` in `MCTokenRenewalClient.cfg` TLC finds the violation of
  `NeverLockedOut` in twelve states.
- *Removal.* An agent revoked in its home while it is a guest elsewhere keeps its
  seat there. Removing its owner from that workspace then raises
  `LOCAL_MEMBERSHIP_FORBIDDEN` for ever (`SeatsCanEnd`,
  `20261028000002_local_agent_workspaces.sql:1123`). And an agent whose home seat
  ended without a revocation can no longer be revoked.
- *Creators.* `create_workspace` sent again by the creator revives a removed or
  demoted creator without an event (`command/index.ts:5550`), and nobody in the
  workspace is asked. `JoinSpendsInvitation`, `RemovalSticks` and
  `JoinsReviewedAudience` therefore name this step (`Creates`) as the one other
  way in, and hold it to what it may bring: the membership as owner, and no
  content role, seat, approval or lead of old. It is also why the preview digest
  needs the audience: the stream position alone would not cover this change.
- *Audience.* The digest of a preview covers the display names and roles of at
  most 25 live members (`household-invitations.ts:53`); `Audience` is all of them,
  by id. The two detect the same changes as long as the member limit of 25, which
  counts pending invitations, is kept and the creator's return is the only change
  of membership without an event.
- *Archiving.* `accept_invitation` routed before `archive_workspace` still joins
  after it: the archive is looked at in the route only.
- *Rejoining.* `src/protocol/household-invitations.ts:49` says that an invitation
  issued after the latest removal may rejoin; on `accept_invitation` the route
  refuses every removed person before that rule is asked, so only
  `household_invitation` rejoins.
- *Content of guests.* `agent_reachable_workspaces` reports the content operations
  of an approval in a guest workspace; `loadHouseholdContentAccess` looks for the
  credential's family in that same workspace (`household-content-access.ts:162`),
  finds none, since families belong to the home workspace, and refuses.
  `AccessNeedsApproval` is about the wider of the two.
- *Withdrawal.* The comment on `withdrawHouseholdConnection` says that no live seat
  is required; for a local agent `local_agent_workspace_live` is. No approval is
  left that matters: every way a seat ends, except the agent's own revocation,
  revokes the approvals first.

## Bounds

Bounds are constants: `MaxEpoch`, `MaxVersion`, `MaxTime`, `MaxGeneration`,
`MaxFaults`, `QueueMax`, `MaxAttempts`. The clocks are long enough for the cases
that matter: a lease to run out and be followed by another, a signal's TTL to end
inside a lease (`delivery`: lease 2, TTL 3, clock 5), a session to expire and be
replaced twice (three generations). Two principals and three epochs allow an
acquisition, a takeover and a reacquisition. The queue of one makes the second
signal push out the first. `MaxAttempts` of `CommandStream` is 3 in the code; the
`stream` run uses 1 with three requests, `stream_live` the code's 3 with two. In
`stream` each principal has one command id, so at most two commands commit and
the third request is a repeat, a conflict or a refusal; `acquire` on a created
task and before its creation both occur.

`renewal` has three tokens and three commands (`MaxTokens`, `MaxCommands`): a
renewal, the renewal of its successor and a replacement; `MaxSuccessors` of 1
makes the timeboxed budget run out. `renewal_client` has four tokens and six
commands, more than two agings (`MaxAging`) and one fault (`MaxFaults`) can use
up, so that no renewal is held back by a bound and `DueIsRenewed` is not true for
want of a token. A lineage is revoked once.

`workspace` has three people because the last-owner rule needs an owner who goes,
one who stays and somebody to invite; two invitations because a removal has to
meet one issued before and one after it; a clock of 2 because only the order of an
invitation, a removal and an expiry is compared, and an equal reading is the
boundary case. `workspace_agents` has two people, one invitation, two workspaces
and one agent; `Joinable` names the workspace with invitations and a household,
the other serves as home or guest workspace. Only this run has an address nobody
signs in with (`Strangers`): `accept_invitation` does not compare addresses, so in
`workspace` an invitation to one person, accepted by another, is that case.

All runs but `stream` and `stream_live` set `CHECK_DEADLOCK FALSE`, because they
stop when a bound is reached or, in `renewal`, a lineage is revoked.

## Fairness

No run assumes that people or agents do anything. `stream_live` assumes that a
running transaction takes its next statement and that a waiter gets a row nobody
holds (weak fairness on each request's own steps; PostgreSQL grants row locks
when they are released, and `lock_timeout` bounds the wait in any case).
`delivery_legacy` assumes that somebody keeps claiming and that time passes.
`listener_live` assumes weak fairness of the runtime loop (`runListener` loops
for as long as it lives and is restarted by its supervisor), of the hook (run at
every turn of the host session) and of time; failed requests and crashes are
bounded by `MaxFaults` and happen whenever they like. `renewal_client` assumes
that each process keeps asking for its bearer and finishes what it began and that
the server answers a request that is neither lost nor abandoned (weak fairness of
`Client(p)` and `Serve(p)`); nothing makes time pass, a person act or a fault
happen. The workspace runs are about safety only.

## What is proved

Every safety invariant and every action property of the passing runs is also a
theorem, for every value of the constants that the named `ASSUME`s of its module
allow: any number of people, agents, requests, signals, tokens, processes, faults,
and clocks of any length. The assumptions say that bounds, durations and limits
are naturals (positive where zero would mean nothing: `MaxAttempts`, `QueueMax`,
lease and session times) and that null values are not members of the sets they
are told apart from. Two say more: `UseAssumption` of
`DurableListener` (signals are finitely many, the service allows a claim of one
row and the outcome "queued", which is how the listener calls it) and
`WorkspaceConstants` (`"none"` and `"shared"` are no users, because
`boundary` holds one or the other).

None of the invariants is inductive alone. Each proof has an invariant of its own,
always the conjunction of named parts, one lemma per action or group of variables
that says what it does, and one lemma per part that says why it is kept.

**`TaskLeaseProofs`**: `TypeCorrect`, `EpochFencing`, `HistoryAgrees`,
`SubmissionAgrees`, the action property `LeaseMovesByLeave`, and `Refinement`:
`Spec` implements `FencedAuthority`. The invariant adds `OwnerMatchesLifecycle` (a task in
work or in review has an owner and an epoch above 0): without it a renewal or a
submit could start from a row without an owner, and the new history row would not
be a `LeaseRow`.

**`CommandStreamProofs`**: `ContiguousStreams`, `EffectOnce`, `RepeatsAgree`,
`NoKeyCollides`, `CallerStaysMember`, `RowsAreRebuilt`. The invariant
(`RequestSound`) says of every request which row locks it holds in which phase,
and what it may rely on while it holds them: the caller's membership, the absence
of its ledger row, the head and the prior row it read. What a request read under a
lock stays true because nobody else passes that lock; `NoKeyCollides` is that
argument carried to `Commit`. `RowsAreRebuilt` (folding the stream gives the
stored row) is about a recursive function, and induction over its argument is not
available here. Its invariant `FoldsEndInRows` therefore says that *some* function
satisfies the fold's equation and ends in the row, which one appended event
extends by one value; that two such functions agree (`FoldUnique`) follows from
the least number where they would differ.

**`SignalDeliveryProofs`**: `TypeCorrect` (with the table's CHECK constraints),
`NewestLeaseAcks`, `RowsFollowHolder`, `LeasesAreFenced`, and the action properties
`DecisionsStay` and `LeaseNotGivenUp`. The invariant adds `RowsSound`: a lease on a
row, and the lease that decided it, is the newest one ever minted for it, and a
surfaced row is a decided one. The first is why a late ack is harmless, the second
why a replaced session strands nothing.

**`DurableListenerProofs`**: `QueuedStaysKept`, `ObservedIsPrinted`,
`LeasesAreJournalled`, `RuntimeNeverStops`, `ListenerTypes`, and
`ListenerUsesService`: the composition of listener, hook and check implements
`SignalDelivery`'s specification, so the theorems about the queue hold under them.
`LeaseSide` of the invariant ties the journal and the ledger's answer to the row on
the server (until it runs out or its ack was served, a kept lease is on its row;
a lease granted to a claim without an answer ends within the claim's horizon);
`QueueSide` ties receipts to the queue file and to what was printed. The horizons
suffice for every `LeaseTime` and `Margin`.

**`TokenRenewalProofs`**: `TypeCorrect`, `OverlapStaysBounded`, `BudgetStaysExact`,
`RevocationIsTotal`, `FencesAgree`. Every step of the system is one of four kinds
for the rows: it leaves them, uses a token, grants a successor or ends the lineage
(`LineageSteps`). The central part of the invariant is `LineageIsChain`: of two
live tokens the older one has ended, unless the younger is its unused successor.
No client behaviour is assumed, late and repeated requests included.

**`RenewalClientProofs`**: `StaysConnected`: with any number of processes, lost
messages, failed writes and crashes, `NeverLockedOut` holds in every mode but
`late`, where it is false (see the observations). It says something of processes
that share a directory; in mode `copies` nobody promises it and the property is
void. Its invariant `Connected` joins both sides: the directory's token is live and
can prove itself (`TipStands`), memories are that token or an older used one
(`MemsFollow`), one process renews at a time, under the command the directory
remembers (`OneRenews`), and a successor that stands in the way was issued to that
command (`ChildIsRemembered`, `LedgerIsRemembered`).

**`WorkspaceAuthorityProofs`**: `TypeCorrect`, `OwnersRemain`, `LeadsAreAlive`,
`RightsEnd`, and the action properties `JoinsSpend`, `RemovalsStick`,
`ConsentsAreRenewed`, `ApprovalGivesAccess`, `JoinsAreReviewed`. The invariant adds
`NothingUncreated` (what was not created has no members and no invitations, so a
creation cannot be an entry in disguise), `SeatsAreOfAgents`, and `ApprovalsRest`
(a live approval has its consent, household and seat behind it), without which an
approval could outlive what it rests on and come back with it.

Work on the proofs corrected the model once: `Decide` and `Persisted` of
`TokenRenewal` were CASE expressions with overlapping guards, which TLA+ leaves
undetermined where TLC takes the first; they are now ordered, as the early returns
of the code are.

### What is only model-checked

- Liveness, which depends on fairness and ENABLED: `EveryDeliveryEnds`,
  `EverySignalSurfaces`, `QueuedBecomesObserved`, `EveryRequestEnds`,
  `DueIsRenewed`.
- The violation that `delivery_expiry_check` reproduces.

## What is not modelled

- In the command transaction: rate and free-tier ceilings, audit and presence
  rows, hosted seats (they lock stream and grant before the lookup), workspace
  commands, archived workspaces, the purge of old ledger rows, several agents of
  one owner, deadlocks with transactions outside this function.
- In delivery: retention purges, hosted seats, sessions over several workspaces,
  hydration of a stored claim's rows, broadcast signals.
- In the listener: the route to a worker process, credential renewal inside the
  loop, health and presence files, clock skew beyond the safety margin.
- In token renewal: dates other than due and expired, several devices, the
  surrender-only state, join credentials and the recovery of a whole connection,
  agents of an admin grant.
- In the workspace authority: organizations (one is assumed), landing authority,
  rate limits, hosted agents and their grants, join credentials, delegated
  invitations, feedback and model commands, household objects and to-dos, reader
  and editor as different content roles.
- A hook report on a row that has meanwhile ended is refused for ever and its
  entry stays until it is pushed out; the models show it, and no line of the
  repository promises otherwise.

## Plan

Open, in this order:

1. An abstract delivery specification (offered, held, decided) that
   `SignalDelivery` implements, with the refinement proved as for
   `FencedAuthority`.
2. `WorkspaceAuthority` in place of `Join` and `Remove` of `CommandStream`:
   that the rows admission reads only change as these two actions do.
3. `WakeLease`, the H0 poll cursor, the client session manager, pending commands.
4. Join credentials, hosted seats, the admin delegation above them, file
   artifacts.

The purge of old ledger rows is the one hazard on the list that no model covers:
how long clients retry is not in the code.
