# DeliveryPlatform in TLA+

This directory holds a formal model of the parts of DeliveryPlatform where state is
shared by several actors and outlives a failure: how a transfer accepted by the funds
service reaches the TigerBeetle ledger exactly once; how loyalty points are spent,
campaigns sent and tenants administered by the API server; how vehicles are rented,
tracked and kept from starting; and how stock and webhooks travel through leased
outboxes. Paths below are relative to the repository (`services/...`, `drizzle/...`).

## The system

DeliveryPlatform is a TypeScript API server (`server/_core`, `server/db.ts`) with Go,
Python and Rust services and a Medusa store around one PostgreSQL database, whose
tables, triggers and stored procedures are the migrations in `drizzle/`. Components
talk through database rows (outboxes claimed under leases), HTTP, Kafka and Temporal.
Much of the control logic is in stored procedures: the TypeScript around them checks
inputs and calls one.

| component | state it keeps | operations | hard behaviour | what makes it correct |
|---|---|---|---|---|
| Funds API (`services/go/mojaloop/main.go`, `funds_outbox.go`) | transfers, refunds, idempotency keys, workflow journal, outbox rows | initiate, refund, quote, callbacks | concurrent transactions, commit order, repeated and late callbacks | an intent is written with the state that calls for it |
| TigerBeetle lanes (`tigerbeetle_batch_outbox.go`, `financial_dispatcher_lanes.go`) | claim tokens and leases; the batch in a goroutine's hands | claim, submit, finalize, retry, dead-letter | takeover of overrun leases, crash between ledger and database, lost answers, one failing lane stopping its group | settled once, in stream order, only by the holder of the claim, in the end |
| Ledger client (`tigerbeetle_client.go`) | none (the ledger does) | submit a batch, reconcile, reverse | a request applied after its caller gave up | deterministic identities make a repeat harmless |
| Dead-letter authority (`drizzle/0056`, `drizzle/0071`) | cases, replacement intents, head resolutions | open, request, approve, reject, twice over | procedures that check each other's records, racing with the lanes | four eyes; a stream is released once and stays released |
| Idempotency keys (`server/db.ts`) | one row per scope and key | claim, finalize | finalization after a rollback, keys left in progress | an operation runs once per key |
| Loyalty, leaderboard (`server/db.ts`, `scheduledJobs.ts`) | accounts, redemptions, periods | award, redeem, expire, close a period | jobs that work from old reads, stop anywhere and overlap | debits are covered, a period is paid before it is closed |
| Campaigns, variants (`server/db.ts`) | sends, counters, traffic shares | dispatch to an audience, send one, create and change a variant | a background run without a transaction, paging over a moving audience | nobody is sent a message twice; shares fit |
| Tenant accounts (`accountLifecycleStore.ts`) | operators, memberships, tokens, preset owners | sign up, invite, accept, change roles, transfer a preset | decisions from rows read without a lock | two tables of roles agree, a token ends once, ownership has a trail |
| Vehicle rentals (`drizzle/0050`, `0058`, `vehicleAccess.ts`) | vehicles, contracts, blocks, extensions | request, approve, hand over, suspend, return, block, extend | procedures against table constraints, people deciding at different times | one holder per vehicle, blocked days stay clear |
| Prevent-next-start (`drizzle/0059`, `vehicleTrackerIntegration.ts`) | cases, commands, claims | request, authorize, claim, dispatch, acknowledge, fail, cancel | interlocks that change after authorization, crashes around the call of the device | sent once, by two people, under its interlocks |
| Tracker ingestion (`drizzle/0060`, `0061`, `vehicleTrackerProviderConsumers.ts`) | feed cursor, claim, batches, signals | claim, fetch, store in bulk, finish | crash between bulk calls, a claim that runs out | the cursor never passes what is not stored |
| Medusa inventory outbox (`services/medusa/...`, `drizzle/0057`) | outbox rows, seen events, projections, positions | capture, dispatch, ingest | snapshots retried, repeated and out of order | the platform ends with the stock Medusa has |
| Developer webhooks (`drizzle/0045`, `0048`, `0049`, `developerWebhookDispatcher.ts`) | deliveries, claims | publish, claim, send, complete | one throw ending a batch, batches that overrun their claim | every delivery gets a verdict, and keeps it |
| Generic outbox lane, refunds; request idempotency of the funds API; journeys; circuit breaker; ride matching; payments and payouts; inventory control; notifications | see *Not modelled* | | | |
| Driver fairness, safety, verification, provisioning, voice and commerce gateways, Rust engines, Python analytics, clients | single-row updates or none | request handlers, computations | - | - |

`PROJECT.json` lists every component with its status, and under `hazards` each
place where the code is hard to test, with the properties that watch it.

## Modules

    FundsStore               the tables and the transactions that initiate transfers
      DeadLetterAuthority      the stored procedures of migrations 0056 and 0071
        TransferLane             the lanes, and the composed system
          MCLanes, MCAuthority     instances for TLC
          TransferLane_proofs, DeadLetterAuthority_proofs
    LedgerSettlement         what TransferLane implements

    IdempotencyKeys          the table of keys
      Loyalty                  accounts, redemptions, expiration, leaderboard
        Loyalty_proofs
      Campaigns                dispatch of a campaign
    CampaignVariants         traffic shares
      Campaigns_proofs         of both
    TenantAccounts           people, tenants, tokens, presets
    VehicleRentals           contracts, blocks, extensions
      VehicleRentals_proofs
    Places                   rows of a table in their order
      InventoryBridge          subscriber, outbox and ingress of stock
        InventoryBridge_proofs
      WebhookDispatch          servers that send webhooks
    PreventNextStart         operators, workers and the device
    TrackerIngest            pollers of one feed
    MCServer, MCFleet        instances for TLC
      Server_proofs            TenantAccounts, and the components of MCServer together
      Fleet_proofs             PreventNextStart, TrackerIngest, WebhookDispatch, and
                               the components of MCFleet together

An indented module extends the one above it. In the money modules the components
share the rows of `mojaloop_funds_outbox`, so composing them is sharing those
variables, and `TransferLane!Next` is the interleaving of the three. `Loyalty` and
`Campaigns` share `platform_idempotency_keys`, under different scopes. The other
components share no row that either changes; `MCServer` and `MCFleet` put them side
by side in one instance, where a behaviour exercises the component that `part`
names: this saves nothing of any interleaving and only keeps the number of
configurations small.

### Settling transfers

**FundsStore.** `row[t]` is the ledger row of transfer `t` (its key is the event
identity, of which a transfer has one), `state[t]` its row in `mojaloop_transfers`.
An initiation is two actions, because the insert draws the row's `BIGSERIAL` id
before the commit shows it: `BeginInitiate` leaves the row `uncommitted`,
`CommitInitiate` makes it `pending`. `overtaken` is a history variable: the rows that were
still uncommitted when a later row of their stream became visible. A rolled-back
initiation looks like one that never commits. `ReceiveCallback` is a state reported from
outside: `handleTransferCallback` does not ask what has become of the outbox row, so the
report may come before the initiation, while the row waits or is worked on, after the
end, and for an identity a case has proposed as a replacement (which then is not free any
more, 0056:289 and :387). `Reported` bounds which identities are reported on; the theorems
hold for any.

**DeadLetterAuthority.** `kase` and `head` are the two tables; each stored
procedure is an action whose guard is the conjunction of its checks.
`PredecessorBlocks` is the SQL function of the same name, which the claim calls.
What an administrator states about the ledger comes from outside the program; it
is taken to be true at the moment it is stated (`LedgerEvidence`), and may become
untrue later.

**TransferLane.** `phase[w]` is the point lane `w` has reached in
`dispatchTigerBeetleTransferBatchWithLedger`; `held[w][t]` the claim token it
holds for row `t` (0 for none). Tokens are UUIDs in the code and the number of the
attempt they were drawn for here, which is as fresh: every claim raises
`attempt_count`, and nothing lowers it (`TokensDrawn` in the proofs is this argument).
`Claim` is one transaction; `Submit`, `BuildFails`, `Answer` and `LoseAnswer` are
the ledger call; rows are settled one at a time by `Finalize` or `GiveBack`, both
fenced by `ActiveClaim`, or the lane ends (`RefuseStale`). `stray` holds requests
whose caller got an error and which the ledger may still apply (`LandStray`, the
one definition here that stands for code outside the repository).

**LedgerSettlement** is the abstract specification: a transfer on file is posted at
most once, and is settled once, after it was posted, or given up. `TransferLane`
maps its rows to it (`Promise`) and implements it: `SettlesTransfers` is a PROPERTY
of the run `lanes`, and THEOREM `Refinement` for every instance.

Time is not modelled. A row that is not due, or is locked and skipped, shows as a
claim that does not take it; a lease that runs out is `LeaseExpires`: a fault while
a lane still works on the row, free once no lane does. The reconciliation of
`Finalize` is read before its transaction; the ledger forgets nothing (`LedgerGrows`
is proved), so reading it within the action loses no behaviour. Left out of these
modules: amounts, texts, ILP conditions, metrics, the workflow journal, and the
rows of the destinations other than the ledger.

### The API server

**IdempotencyKeys** has the committed row of each key and, per session, the key an
open transaction has inserted (`claim`). `Fresh` is what `INSERT ... ON CONFLICT DO
NOTHING` decides: it waits for an open transaction with the key and then takes only a
key without a row. `Finalized` is the UPDATE of a finalization.

**Loyalty.** A transaction that locks the account row from its first read is one
action. A redemption is `claim`, the debit and the commit, or the rollback and, later
and outside the transaction, the mark `failed` over whatever the key's row has become.
`expiring` holds the balances the expiration job read at its start; `closer` is where
each run of `closeLeaderboard` is, entry by entry, between its transactions.

**Campaigns.** `sendCampaignToAudience` pages by OFFSET in the background, and each
statement of `sendCampaign` commits on its own, so each is an action (`run[r].at` names
the last one). Every statement may throw: before the key is written nothing is left of the send
(`MissSend`), later the catch block marks what it can (`BreakSend`) or, when the connection
is lost, nothing (`LeaveSend`). A provider call may throw after it delivered. Crashes lose the run;
`audience` and `active` change meanwhile.

**CampaignVariants.** The two transactions that lock the campaign and add up the
shares of the other variants before they write.

**TenantAccounts.** The bootstrap operator is there from the start, with a tenant and without
a verified address, a membership or a row of `platform_tenants`. Requests that read rows and decide from them in a later
transaction are several actions (`request[q]` holds what was read); the others are one.
`trail` is the audit of a preset's owners.

**VehicleRentals.** Each procedure holds the row of the vehicle, so each is one
action. `Write` is the row a procedure is about to store, and asks the CHECKs and the
EXCLUDE constraint of the table: where they refuse, PostgreSQL aborts the transaction
and the action is not enabled. Spans are half-open intervals of days; everything asked
for lies ahead, so there is no clock.

**InventoryBridge.** `source` is what Medusa has, `notices` the events of its changes
and where the subscriber is with each; a snapshot it reads may be later than the event.
`outbox`, `due` and `cycle` are the outbox and `deliverPending`; `late` holds
requests whose caller gave up and which may still arrive, once or again; `seen`,
`projected` and `position` are what the ingress functions of 0057 keep. The attempt a
claim counted stands for its token, by the same argument as in the lanes.

### Vehicles and webhooks

**PreventNextStart.** Each procedure of 0059 is an action, with the CHECKs and the
index of its tables (`CaseHolds`, `CommandHolds`, one open case per contract) as part
of its guard. A worker is a sequence of actions: claim, mark as dispatched, call the
adapter, report, and may stop in between. `payments`, `halted` and `expired` are the
interlocks, which others change at any time.

**TrackerIngest.** One feed with a claim, polled by several workers: the records of an
answer are stored in bulk calls (`BulkRecord`), then `CommitBatch` moves the cursor and
frees the claim; an answer seen before is acknowledged and leaves both as they are. A
record that is refused (`unusable`) fails the parsing or undoes its bulk call, in every poll. A
bulk call passes its fence when nobody holds a claim (`BulkFence`), since a comparison
with NULL is not false.

**WebhookDispatch.** A claim takes a batch under one expiry; the batch is sent row by
row, in no order (`UPDATE ... RETURNING` keeps none: `AnyOrder`). A refused address throws outside the `try` and ends the run
with the rest of its batch in its claim; a missing secret completes as a failure; a
completion under a claim that has lapsed ends the run too.

## What is checked

Money (`TransferLane`, runs `lanes`, `liveness`, `authority`):

- `SettledOnce` - delivered, audited once and posted belong together, whatever states are
  reported from outside.
- `StreamOrder` - no debit is posted before an earlier visible one of its payer,
  unless that one was overtaken at commit or an administrator's decision released it.
- `OneInFlight`, `OneHolder` - two lanes never work one stream, nor hold one claim.
- `AttemptsLeft` - a waiting row has an attempt left, though takeovers do not ask.
- `TerminalRowsStay`, `OnlyHolderSettles`, `GateStaysOpen` - what a step may never do.
- `ReplacementAuthorised` - a replacement is dispatched on two grants, each by two people.
- `SettlesTransfers` - the whole implements `LedgerSettlement`.
- `EventuallyDecided` - under `FairSpec`, every visible transfer is delivered, dead-lettered,
  or waits for an administrator.

API server and stock (run `server`):

- `RedeemedOnce` - a key redeems once, although a failure mark overwrites the row of a retry.
- `DebitsAreCovered` - no redemption or expiration takes what is not there.
- `PaidBeforeClosed`, `OneActivePeriod` - runs that close the leaderboard overlap and stop anywhere.
- `EmailedOnce`, `SendsAccounted`, `RunReachesAll` - one message per user; the counter lies
  between completed keys and messages; a dispatch passes over no more users than left the
  audience while it paged, apart from those whose send threw before it had a key.
- `AllocationsFit` - overlapping changes never share out more than the traffic.
- `MembershipsAgree`, `TokensEndOnce`, `OwnershipTrail` - the two tables that hold a role agree,
  but for the bootstrap operator, who has a tenant and no membership; a token is consumed or revoked; the audit of a preset is a chain that ends at its owner.
- `SettledProjection`, `PositionCovers` - when all is captured and delivered the platform
  has what Medusa has; at any time no more is reserved than on hand.
- `AssetFollowsContract`, `BlocksKeepClear` - a vehicle has one holder and says what it does; no
  block covers a running contract that was never suspended.

Vehicles and what is promised over time (run `fleet`):

- `SentOnceByTwo`, `OneLiveCommand` - the device is called once per case, for two people.
- `CuredStaysUnsent` - a case that is cured or out of time before its command is marked never
  causes a request, though the payment may fall due again and workers hold old claims.
- `NothingSkipped`, `MCEventuallyStored` - the cursor passes nothing that is not stored, and
  every record of a known device is stored in the end, unless the answer that would bring it
  may reach a record that is refused.
- `MCEventuallyDecidedRows` - every outbox row is delivered or dead-lettered, unless a claim ran
  out on its last attempt.
- `MCHooksDecided`, `HookVerdictsStand` - every webhook gets a verdict, unless its last claim
  ended without one, and keeps it.

`MCTypeOK` and `TypeOK` are the type invariants.

| run | instance | result |
|---|---|---|
| `lanes` | 3 transfers of 2 payers (one refused by the ledger), 2 lanes in 2 processes, 2 attempts, 2 faults, reports on the refused one, symmetry | 1.0 million states, all properties hold |
| `liveness` | 2 transfers of one payer (one that cannot be built), 2 lanes in one process, 3 faults | 34 thousand states, holds |
| `authority` | 2 transfers, 2 replacements, 2 administrators, 1 lane, 1 attempt, 2 faults, reports on the replacements, symmetry | 0.3 million states, all hold |
| `server` | per component, below, symmetry | 1.5 million states, all hold |
| `fleet` | per component, below | 0.3 million states, all hold |
| `commit_order` | 2 payers, no faults | `IdOrder` is refuted |
| `batch_poison` | 2 payers, one transfer that cannot be built, no faults | `BatchIndependent` is refuted |
| `contradictory_authority` | 1 transfer, 1 replacement, 2 administrators | `ReleasedOnce` is refuted |
| `replacement_chain` | 1 transfer, 2 replacements, 2 administrators | `HeldOnlyByUnresolved` is refuted |
| `campaign_rerun` | 2 recipients, 1 run started twice, 1 crash | `RerunFinishes` is refuted |
| `last_admin` | 2 administrators of one tenant, 2 requests | `AnAdminRemains` is refuted |
| `blocked_dispatch` | 2 operators, 1 worker, 1 case | `UnsentFails` is refuted |

Every property has a mutant in `PROJECT.json` (a definition whose comment starts
with "Mistake") that breaks it under the same configuration.

**Bounds of the money runs.** `OpenTxLimit` 2 is the least with which commits can swap;
two transfers of one payer show order, a third of another payer shows batches with
independent rows. Two lanes show every takeover. `MaxAttempts` (12 in the code) is 2, so
that one row is retried, taken over and exhausted; it is 1 for the administrators, who act
only after dead letters. `MaxFaults` bounds crashes, errors, lost answers and overrun
leases together: two reach "answer lost, then the lease of the next holder overrun" (three
were run once without reports, with the same result). `Reported` is kept small because
any state may be reported at any time: in `lanes` it is the transfer the ledger refuses, in
`authority` the replacements, which are taken by a report before they are approved and, once
dead-lettered, are originals whose reported state decides whether they may be replaced. Two replacements allow a replacement of a
replacement. Deadlock is not checked in any run: every component rests when its work is done.

**Bounds of `server`.**

| component | instance | why it is enough |
|---|---|---|
| loyalty, leaderboard | 1 user, 2 rewards (one of a tier), 1 redemption key, 2 sessions, 1 expiration run, 2 closers, 2 periods, balances to 2, 1 stop | two sessions on one key are a retry beside its original; a second period shows the next one opened twice; an account is locked, so users are independent |
| campaign | 3 recipients in pages of 2, 2 dispatches, 2 starts, one crash, thrown statement or provider call, pause and move each | a second page, an overlapping run and a re-run each happen with every single fault; a user leaves or enters between two pages |
| variants | 3 variants, 2 editors, shares 20, 40, 60 | sums below, at and above 100 |
| accounts | 3 people, 2 tenants, 2 requests, 1 preset; of the people one has founded a tenant, one is the bootstrap operator in that tenant, and one is in no tenant, in the same or in another | invitations to both tenants, two tokens of one purpose, two transfers of one preset |
| inventory | 1 reservation and 1 stock item, 2 dispatchers, claims of 2, 2 attempts (16 in the code), 3 changes, 1 fault | a stale, a repeated and a premature snapshot; exhaustion; takeover |
| rentals | 1 vehicle, 2 contracts, 1 block, 4 days, extensions to 2 days | two terms may touch, overlap or lie apart, with a block beside or in them |

**Bounds of `fleet`.** Control: 2 operators, 2 workers, 2 cases of one contract, 3 payment
signals (past due, cured, past due again), 1 crash. Ingestion: 2 pollers, 3 records of
which one is of an unknown device, answers of 2 in bulk calls of 1 (so an answer is
stored in two calls and the feed in two answers), no record refused or the last one, 2
setbacks. Inventory: as above with
2 changes, for liveness. Webhooks: 2 servers, 1 event at 3 endpoints (one refused, one
without a secret, one that may fail or take it), claims of 2, 2 attempts (16 in the code).

**Fairness.** *Lanes*: each goes on when it can (a goroutine); a cancelled idle lane
stops; a stopped process is restarted (`restart: unless-stopped` in
`deploy/platform/docker-compose.stack.yml`); the lease of an abandoned claim runs
out. *Ingestion* (`IngestSpec`): a poller goes on; some worker polls again, as the polling
timer makes them; an abandoned claim runs out after its five minutes. *Inventory*
(`BridgeSpec`) and *webhooks* (`HookSpec`): some dispatcher claims when it can (a timer, in
every process), a batch in hand is worked on, leases and backoffs end. All of it is weak
fairness, and it is asked of some worker where the code has several alike. Nothing is
assumed of clients, administrators, subscribers, or requests given up. Faults are bounded, so
"in the end" means after the last of them; a webhook dispatch may stop at any time, but
each claim uses up an attempt.

## What the refuted claims show

Each quotes a comment or test in `PROJECT.json` `findings`:

1. *Id order.* The stream is ordered by ids drawn at insert, visible at commit: of two
   concurrent initiations of a payer the later id may be posted first. `StreamOrder`
   with its `overtaken` exception is what does hold.
2. *Independent batch.* A request that cannot be built fails the whole call; other
   payers' rows in the batch lose an attempt with it, in the end all of them.
3. *Contradictory authority.* A head can be resolved as committed and its
   replacement still be approved: both are posted.
4. *Replacement chain.* When a replacement is dead-lettered and replaced in turn,
   the first, resolved, original holds the second replacement and the stream for good.
5. *Campaign re-run.* A dispatch that stops after it committed the key of a user leaves the
   key `in_progress`; every later send to that user throws, so a re-run reaches everyone else.
6. *Blocked dispatch.* A worker without an adapter sets command and case to failed while
   both still carry what the CHECKs of 0059 (lines 214, 237) forbid in that state: the
   transaction always aborts, and the case stays open and keeps new cases out.
7. *Last administrator.* Two administrators demote each other, each after counting two:
   the tenant has none.

Seen while modelling, and allowed for in the properties rather than refuted by a run of
their own:

- An inventory row whose claim ran out on its last attempt is claimable and breaks the CHECK
  on `attempts`: the claim fails for the whole batch (`Claim`, `Spent`).
- A webhook whose last claim ended without completing it is neither claimed again nor a
  dead letter (`Stranded`).
- `validation/gig_worker_vehicle_access_implementation_20260907.md:50-51` lets approved
  contracts be cancelled and suspended, and the procedure has a branch for each
  (`drizzle/0058:454`, `:472`); the CHECKs at `drizzle/0050:113-114` abort both, so that a
  reservation ends with the handover or not at all. The model keeps the refusal, and no
  property promises it.
- A cure or the end of the ten minutes between the mark of a command (`drizzle/0059:605`) and
  the call of the adapter does not stop the request (`CuredStaysUnsent` speaks of what
  comes before the mark).
- A tracker record that the parser or the bulk call refuses undoes the call in every poll: the
  cursor stays before it, and the feed is held up for good (`Reachable`).
- The stored state of a transfer is whatever was reported or written last: a late callback
  takes COMMITTED back, an early one says COMMITTED of a transfer the ledger never saw
  (`ReceiveCallback`). Nothing but the approval of a remediation reads it.
- An extension is decided without asking what the contract has become, and blocks may be put
  over a suspended contract, which then returns under them (the exception in
  `BlocksKeepClear`).

## What is proved

With TLAPS, for every value of the constants allowed by the named assumptions of the
modules (`StoreAssumption`, `AuthorityAssumption`, `LaneAssumption`, `KeyAssumption`,
`LoyaltyAssumption`, `CampaignAssumption`, `VariantAssumption`, `AccountAssumption`,
`BridgeAssumption`, `RentalAssumption`, `ControlAssumption`, `IngestAssumption`,
`HookAssumption`: disjoint identities, NULLs outside the sets they stand beside, natural
or positive limits, finitely many recipients, variants, reservations and endpoints). TLC
evaluates them in the passing runs.

| theorem | property | argument |
|---|---|---|
| `TypeCorrect` | `TypeOK` | inductive as it stands |
| `Settlement` | `SettledOnce` | inductive with `TypeOK`, from the seven cases of `RowLife` and `LedgerGrows` |
| `TerminalRows` | `TerminalRowsStay` | no case of `RowLife` changes a terminal row |
| `ClaimsAreExclusive`, `RetriesAreBounded` | `OneHolder`, `AttemptsLeft` | `ClaimsInv`: no token in hand is later than its row's last attempt, so a new one is new |
| `OnlyHolders` | `OnlyHolderSettles` | by actions: only the two fenced ones end a row's processing |
| `GateOpens` | `GateStaysOpen` | grants stay (`GrantsStay`), places in a stream stay (`PlaceStays`), decided rows are dead letters (`HeadsOfDeadLetters`) |
| `Authorised` | `ReplacementAuthorised` | `AuthorityInv`: a replacement stands behind its own dead letter in the same stream, so its first claim had to pass the gate, which asks for the second grant |
| `StreamsInOrder` | `StreamOrder` | `OrderInv`: every earlier visible row of a claimed one is delivered, passable or was overtaken (`StartedInOrder`), the ledger has only claimed rows, and a head resolved as committed is in the ledger; what may be passed stays passable (`GateStep`) |
| `StreamsOneAtATime` | `OneInFlight` | `OrderInv` again: two rows worked on at once would need a replacement that supersedes a dead letter before the first, whose own replacement would have had to wait (`ReplacedInOrder`, `ReplacementsDistinct`) |
| `Refinement` | `SettlesTransfers` | each case of `RowLife` is a step of `LedgerSettlement` or none; `OnFile`: what the ledger has, or may still get, is on file |
| `RedemptionOnce` | `RedeemedOnce` | `RedeemInv`: a key under an open claim has no row, and a key without a row has not paid; the late mark of a failure never removes a row |
| `CoveredDebits` | `DebitsAreCovered` | by actions: a debit asks the locked account and not the balance read earlier |
| `ClosedPeriodsPaid`, `OnePeriod` | `PaidBeforeClosed`, `OneActivePeriod` | `BoardInv`: whoever a closer does not owe any more has been paid; a period is opened only after every earlier one is closed |
| `OneMessage` | `EmailedOnce` | `SendInv`: a run within a send is alone with its user (`SendsAlone`), has sent as much as its place says (`SendsInOrder`), and a user whose key has no row has no message (`KeysTell`) |
| `SendsCounted` | `SendsAccounted` | `CountInv`: `send_count` is the size of a set of users that holds every completed one and only emailed ones; the user of a run is in it from the counter on and not before |
| `EveryoneReached` | `RunReachesAll` | `PageInv`: the users behind a run that have no key (`Lost`) are no more than the departures it saw, since an arrival moves users to later places and a departure moves one user from the next page to those behind; no transaction holds a key of the scope |
| `SharesFit` | `AllocationsFit` | `VariantInv`: what an editor has summed under the lock (`LockedSums`) is still the sum of the others when it writes |
| `MembersAgree` | `MembershipsAgree` | `MemberInv`: a grant carried by a request or a token is to a tenant or of an account that has signed up (`GrantsInv`), who has no tenant could found one (`Founders`), and a role change has locked members of its own tenant (`LockedMembers`) |
| `TokensEnd` | `TokensEndOnce` | inductive with the types: what is consumed or revoked was live in the same transaction, whatever was seen before it |
| `TrailsChain` | `OwnershipTrail` | `TrailInv`: a preset without an owner has no trail, and a transfer takes place only from the owner it began with |
| `OneRequestByTwo` | `SentOnceByTwo` | `ControlInv`: a worker that has marked a command holds its only claim until it reports, and nothing was sent for it before its one call |
| `LiveCommandIsUnique` | `OneLiveCommand` | `ControlInv`: a command follows its case (`LifeInv`), and of a contract's cases one is open |
| `CuredIsNeverSent` | `CuredStaysUnsent` | once a case is `Late` it stays so (`LateStays`): a cure is never taken back from the signals after the case's, and the mark asks for the interlocks; with `ControlInv`, nothing was sent for a case that is not marked |
| `NothingIsSkipped` | `NothingSkipped` | `FeedInv`: every poll began at or before the cursor, reaches no further than one answer, and what it is past is stored |
| `PositionsCover` | `PositionCovers` | only an applied snapshot changes either side, and it passed `Fits` |
| `SettledProjections` | `SettledProjection` | `BridgeInv`: what is on file never says more than the source (`FiledInv`), the ingress never goes back (`ProjectedInv`), a delivered row has been seen (`SentInv`); the last change captured and delivered leaves only itself |
| `BridgeTypeCorrect` | `BridgeTypeOK` | with `BridgeInv`: what is claimed or late is on file because it was filed before it was claimed (`QueueTypes`) |
| `VehiclesFollow` | `AssetFollowsContract` | `RentalInv`, argued on the states of the contracts alone: a contract takes or keeps its vehicle, releases it, or moves without one |
| `BlocksAreKeptClear` | `BlocksKeepClear` | `RentalInv`: an approval, a block and an extension each look at the others, and a suspension leaves its mark |
| `VerdictsStand` | `HookVerdictsStand` | by actions, over `HookTypeOK`: a claim takes only what is due, a completion only what is being retried |
| `ServerTypeCorrect` | `MCTypeOK` of `MCServer` | the invariants of the six components; the two that share the keys each stand the writes of the other (`KeySharersStep`) |
| `FleetTypeCorrect` | `MCTypeOK` of `MCFleet` | the invariants of the four components, and a step of one is a stutter of the others (`FleetSteps`) |

In the money modules `RowLife(t)` (and `CaseLife`, `HeadLife`, `HoldLife`) say once what any
step of the whole system may do to one row, case, resolution or hold; later proofs argue
from those cases and not from the actions. `SettledOnce` needs no strengthening because
the fence of `Finalize` asks for a row in `processing`; `OneHolder` alone is not
inductive (a fresh token might be one an old holder still has), nor is
`ReplacementAuthorised` (nothing in it says where the replacement's row stands), nor
`RedeemedOnce` (an open claim might be on a key that has paid), nor `SettledProjection`
(nothing in it says that what is under way is no news). `StreamOrder` looks only at the
ledger, and a row gets there from the hands of a lane that may be long gone: `OrderInv`
says of every claim ever made what `StreamOrder` says of a posting, and `OpenMarked` that
an earlier row which appears after it counts as overtaken.

Two kinds of fact would be proved by induction over data, which the provers cannot do with
the library's theorems, and are proved by other means: that a finite set of numbers has an
order (`OrderExists`, for the pages of a campaign, and `OrderOfPlaces`, for the rows of a
claim) by counting the smaller members of each, and that a sum over a finite set of shares
is what one share and the rest add up to (`SumExists`, `TotalPicked`) by looking at a
smallest set for which it fails (`SmallestSubset`).

Every invariant and action property of the passing runs is stated by a theorem. Only
model-checked is liveness (`EventuallyDecided`, `MCEventuallyStored`,
`MCEventuallyDecidedRows`, `MCHooksDecided`), which with ENABLED is out of the prover's
reach. The theorems about a component are about its own specification; of the instances
that put components side by side only the types are proved, and TLC checks the rest there.

## What is not modelled

Within the components that are marked `partly` in `PROJECT.json`: quotes, refunds, ILP
checks, the workflow journal and the request table of the funds API; single reversals
and balances of the ledger client; operators of an external identity provider, branding
and the sharing of presets, notification preferences and retention; the Traccar transports,
webhooks and geofences of trackers; rental providers, eligibility, offers, locations,
add-on prices and charges. The bindings of stock items to positions are fixed, and of the
developer API only the dispatch of webhooks is there, not the management of
clients, keys and endpoints. The amounts inside the ledger are not modelled: the
reconciliation compares a transfer with itself by identity.

Left out although it is in the same files: what nothing in the repository calls
(`generateMonthlySettlement`, `approveSettlement`, `processSettlement`,
`refundOrderPayment`, `applyReferralCode`, `completeReferral` of `server/db.ts`), reading
only code (statistics, digests, the choice of a winning variant), and the worker-rights
modules (`deactivationDueProcess`, `driverProtection`, `workerTransition`,
`integrityIncentives`), whose handlers read a row and write one without a transaction
and promise nothing across requests.

Every component marked `not_modelled` has its reason there. Most of the repository's
TypeScript is user interface, routing, and handlers of one statement, in which there is no
order of steps to get wrong; the state machines behind them are in SQL procedures
and Go and Python services. The share of source lines the models stand for is small for that
reason, and is spread over the three languages.

## Plan

1. Done: the settling of transfers with its authority and its abstract specification;
   keys, loyalty, campaigns and accounts of the API server; rentals, prevent-next-start,
   tracker ingestion; the inventory and webhook outboxes; their runs and proofs.
2. `RefundLane`: refund reservation, ordered destinations, finalization from a report
   read before its transaction; the request table of the funds API. A passing run for the
   reservation bound and ordered delivery, a refuting one for the lost update if TLC finds it.
3. `RideMatching`: attempts, offers, accept against expiry; one driver per trip, and
   whether a trip whose offers all expired is matched again.
4. `PayoutRelease`: claim, submit, settle, fail, provider events redelivered.
5. `CircuitBreaker`: calls in flight across phases.
6. Proofs: done for every safety property of the runs; the safety of 2 to 5 when they are
   modelled, and the properties of the components under `MCServer!MCSpec`.
