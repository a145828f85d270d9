# TLA+ for service-cloud-api

`service-cloud-api` lets organisations run containers on decentralised
compute (Akash, Phala, Spheron). It launches and closes deployments on those
networks, keeps a write-ahead record of the money they cost, bills a wallet that
another service (the *auth service*) owns, and runs a dozen periodic jobs in
every pod. What is hard in it is not any single function. It is that launches,
closes, webhooks, billing cycles, sweeps and reconcilers read a row, await a
remote call, and write the row back, while the others do the same; that a remote
call may take effect although its answer is lost; and that a pod may die between
any two statements.

The modules in this directory model those interactions, TLC checks them on
small instances, and TLAPS proves what matters most for every instance.

- [Inventory](#inventory): the system's parts, their state and operations, and
  what makes each of them correct
- [Plan](#plan): modules, in the order they are written, and theorems
- [The models](#the-models): how each module corresponds to the code
- [Runs](#runs): what each run checks, its bounds, its fairness
- [Findings](#findings): where the code does not do what it says
- [Proofs](#proofs)
- [What is not shown](#what-is-not-shown)

`PROJECT.json` is the index: components, runs, the line range each definition
stands for (`map`), one mutant per property, findings, hazards and theorems.
Paths below are relative to `src/`.

## Inventory

### Money

| Component | State | Operations | Correct when |
|---|---|---|---|
| **Settlement ledger** `services/billing/settlementLedger.ts` | `PolicySettlementLedger` rows: key, amount, PENDING / COMMITTED / FAILED, createdAt | `settleViaLedger` (insert, debit, promote), `reconcilePendingSettlements` | a charge is announced before it is sent, sent with the announced amount, reported done only if debited, and never left PENDING |
| **Deployment escrow** `escrowService.ts`, `deploymentSettlement.ts` | one `DeploymentEscrow` row per Akash deployment: status, consumed, refunded, lastBilledAt | create, daily consumption, settle to a time, refund, pause, three reconcilers | the wallet gets back only what it paid, once, and only after the deployment left; nothing stays in escrow for ever |
| **Hourly compute billing** `computeBillingScheduler.ts` | the watermark `lastBilledAt`, charges of the auth service | hourly cycle per provider, forced run, threshold check, suspension of an organisation | every hour is charged once, and an ended deployment is charged in full |
| **Organisation suspension and resumption** `suspendOrgHandler.ts`, `resumeHandler.ts` | deployment and escrow statuses | webhooks of the auth service | what is suspended is settled and paused; what is resumed runs once |
| **Escrow health monitor** `escrowHealthMonitor.ts` | on-chain escrow balances | refills of low accounts, close of leases that are gone or have no row | a live lease does not run dry; only what is gone is closed |
| **Policy** `services/policy/` | `DeploymentPolicy`: budget, spend, runtime | enforcer and runtime scheduler close what exceeds its policy | a policy's limit stops its deployment, once |
| **Invoices, payments, usage** | counters, invoices, Stripe objects | aggregation, monthly invoices | (I/O around single rows) |

### Deployments

| Component | State | Operations | Correct when |
|---|---|---|---|
| **Launch guards and concurrency counter** `resolvers/launchGuards.ts`, `services/concurrency/concurrencyService.ts` | `OrganizationConcurrencyCounter.activeCount`, deployment statuses | claim under a row lock, fallback, release, hourly reconciliation | claims serialise; the counter comes back to the number of live deployments |
| **Akash pipeline** `services/queue/akashSteps.ts`, `webhookHandler.ts`, `qstashClient.ts` | `AkashDeployment.status`, dseq, retry count; the step queue | submit, poll bids, create lease, send manifest, poll URLs, handle failure | each step's effects survive redelivery and crashes; a failed attempt is retried a bounded number of times |
| **Stale deployment sweeper** `staleDeploymentSweeper.ts` | the same rows | stuck deployments, orphaned escrows, active reconciler, Spheron upstream clean-up | what no step will touch again is closed, settled and released |
| **Deployment resolvers** `resolvers/akash.ts`, `phala.ts`, `spheron.ts` | the same rows | deploy, close, delete | a close stops the lease, settles, refunds, and frees the slot |
| **Phala and Spheron pipelines** | `PhalaDeployment`, `SpheronDeployment` | two- and three-step pipelines, stop, delayed delete upstream | as for Akash; nothing keeps running upstream |
| **Failover** `services/failover/`, `services/health/` | lease chain, attempts | replace an unhealthy deployment elsewhere | bounded attempts, one live replacement |

### Coordination

| Component | State | Operations | Correct when |
|---|---|---|---|
| **Leader election** `services/leader/leaderElection.ts`, `index.ts` | one `SchedulerLeaderLease` row per scheduler; per pod a poll and a heartbeat interval | acquire, renew, lose, release, graceful stop | one pod runs a scheduler; a standby takes over in bounded time |
| **Wallet mutex** `services/akash/walletMutex.ts` | a promise chain per pod, a Postgres advisory lock | `withWalletLock` | transactions of the wallet do not overlap; nobody waits for ever |
| **Price probes and provider checks** `gpuBidProbe.ts`, `providerVerification.ts` | deployments they open | create, poll bids, close | what a probe opens it closes |
| **GitHub builds** `services/github/`, `resolvers/github.ts` | `BuildJob` rows, builders on Fly or Kubernetes | push webhook, rebuild, spawn, callbacks, deployment of the image | a successful build deploys once |
| **Orchestrators, provider selection, registry** | chain state | CLI and RPC calls, bid scoring | (I/O; scoring is a pure function) |

The rest (DNS, routing, chat, shell, logs, telemetry, templates, console
resolvers) is request-level I/O around single rows. `PROJECT.json` lists it as
not modelled.

### How they interact

- All of them share the Postgres rows above. Transactions are rare: almost every
  job is *read, await, write*, and only some writes are conditional on the status
  they replace (`updateMany where status`).
- The **auth service** is remote, shared and idempotent by key: a repeated key
  changes nothing, whatever amount comes with it. The key is thus part of the
  protocol, and half of the hazards are about which key is sent again.
- **QStash** delivers pipeline steps at least once.
- Every pod starts every scheduler through **leader election**; resolvers and
  webhooks run on all pods.
- A **close** touches four components in a row: the chain, the deployment row, the
  escrow (settle, then refund or pause) and the counter, with a crash possible
  between each.

What is hard to test is listed line by line in `PROJECT.json` under `hazards`.

## Plan

| # | Module | Composes | Abstract specification | State |
|---|---|---|---|---|
| 1 | `SettlementLedger` | settler, reconciler, auth service, crashes | `DebitContract` | checked, safety and refinement proved |
| 2 | `Escrow` | escrow row, every job that writes it, three reconcilers | `EscrowContract` | checked, safety and refinement proved |
| 3 | `LeaderElection` | pods, lease row, queries in flight, time | a lock with a bounded vacancy (next) | checked, safety and `TakeoverInTime` proved |
| 4 | `ConcurrencyCounter` | launches, closers, reconciler | | checked, safety proved |
| 5 | `PaygBilling` | billing cycle, settlements, the ledger through its contract | | checked, safety proved |
| 6 | `AkashPipeline` | six steps delivered at least once, failure handler, a user who closes, the sweeper, the escrow monitor, the chain | one chain of attempts with bounded retries (next) | checked, safety proved |
| 7 | `HostedPipeline` | the Phala and Spheron pipelines, closes, pauses, the sweeper, the upstream | | checked, safety proved |
| 8 | `HostedBilling` | their hourly cycle, final settlement, minimum runtime, resumption | | checked, safety proved (`ServicesProofs`) |
| 9 | `Suspension` | policy, low balance, suspension, user, top-up webhook over one row and its stop reason | | checked, safety proved (`ServicesProofs`) |
| 10 | `Wallet` | queue per pod, advisory lock, sequence numbers, probes | | checked, safety proved (`ServicesProofs`) |
| 11 | `Failover` | the sweep's streaks, eligibility, replacements and their exclusions, two pods | | checked, safety proved (`ServicesProofs`) |
| 12 | `Builds` | pushes, rebuilds, builders, callbacks, deployment | | checked, safety proved (`ServicesProofs`) |
| 13 | `Runway` | on-chain escrow account, top-ups, monitor | | checked, safety proved (`ServicesProofs`) |

What would come next: a lock with a bounded vacancy as the abstract specification of
`LeaderElection`; a run of `HostedPipeline` and `HostedBilling` together, which share the
row's status; bid scoring and route matching as functions.

## The models

Conventions. One action stands for what a handler does between two awaits that
other code can observe: a read and the write after it are two actions, an
`updateMany` with a condition is one. Constants bound what the program leaves
unbounded: `Max…` counts faults or time. Mutants sit next to the definition they
replace and are used by no specification. Statements "external" model the auth
service, the database server or time.

### `SettlementLedger`, `DebitContract` (`settlementLedger.ts`)

`ledger[k]` is the row with idempotency key `k`. A settler (`settleViaLedger`)
inserts it (`SettleInsert`) or collides with it (`SettlePending` charges the
stored amount, `SettleCommitted` returns the earlier result), sends the debit
(`Send`), and on the answer promotes the row (`Commit`) or gives up
(`SettleError`, `CommitFails`). A reconciler scans PENDING rows past `MinAge`,
`BatchLimit` at a time, oldest first (`Scan`), visits them in turn (`Pick`,
`Continue`), and after an error marks FAILED those past `FailAge` and leaves the
others (`ReconcileError`). Promotions and failure marks have no condition on the
status they replace, and the model keeps that. A request stays in `inflight`
after its sender gave up, so a debit may land at any later time (`AuthDebit`).
`Crash` and the lost writes draw on `MaxFaults`; errors of the auth service are
unlimited.

`DebitContract` is what callers rely on: `Owe`, `Pay`, `Acknowledge`, each at most
once per key and in that order. The refinement maps the amount of a row to
`owed`, `debited` to `paid`, and the keys a caller was told are COMMITTED to
`acked`.

### `Escrow`, `EscrowContract` (`escrowService.ts` and its callers)

One escrow row, the status of its deployment, the wallet in the auth service
(`deposited`, `credited`), and workers that each run one job at a time: creation
(`Create`, `Promote`, `Fail`), the pre-funded hourly charge (`Cycle`,
`ConsumptionRead`, `Consume`), a close (`Close`, `MarkClosed`), both suspensions,
resumption, and the three sweeps. Settlement, refund and pause are stages that
these jobs share: `then` says what follows. A job carries the status and amount
it read, so stale writes are possible wherever the code has them; only the refund
claim, its rollback and the pause check the status they replace. Amounts of
charges are any member of `Charge`. A deposit and a refund are performed once by
the auth service, whoever asks and whenever.

Statuses of the deployment are collapsed to DEPLOYING (all before ACTIVE), ACTIVE, SUSPENDED,
CLOSE_FAILED and ENDED (CLOSED, FAILED, PERMANENTLY_FAILED): no writer of the escrow tells
more apart. `createEscrow` asks for no status, and neither does the ACTIVE that
`finalizeDeployment` writes after it (`Activate`, `akashSteps.ts:1364`): a deployment that was
closed while it was deploying, and perhaps settled and refunded, is revived. `revived`
remembers that; `HasLeft` is what the promises are about, that the deployment has left at
least once.

`EscrowContract` is what an organisation may rely on: the account is opened before the
deposit is taken, the deposit is taken once, money is asked back only from an account that
was paid in and after its deployment has left at least once, one of the amounts asked for is paid out,
once, and one of them is recorded as paid out only then. The row's existence, the wallet's
debit, the deployment's status, the requests sent, the credit and `refundedCents` are its six
variables. It does not say that the amount is what the row has left, for a charge may be written
between the claim's read and the refund; nor that the deployment does not run again, for it
may (`RunningIsFunded`, under Findings).

### `LeaderElection` (`leaderElection.ts`, `gracefulShutdown` in `index.ts`)

The scheduler is the stale deployment sweeper. One lease row (`owner`, `leaseAge`); per pod
`leading` (isLeader, with the sweep interval set), the poll interval (`timer`), the set of
heartbeat intervals (`beats`: `onLost` leaves the old one running, so there may be several) and
the sweeps in flight (`sweeps`). A query is sent, takes effect (`Upsert`, `Delete`), and is
answered (`Win`, `Lose`, `Renewed`, `Rejected`, `Deleted`) at three different moments, and may
throw before or after it took effect (`Throw`).

To lead and to work are two things. A sweep takes any time and outlives the leadership in
which it began: a renewal that is rejected or throws clears the interval and lets the sweep
go on; a stop (`Stop`) clears the intervals and waits for the active sweep, however long that
takes, before it releases the lease (`Drained`, `Deleted`), and the process exits some time
later (`Exit`), for `gracefulShutdown` awaits its hooks before the timer that forces the exit.
Who wins the lease again starts a sweep at once, and the one that was in flight is
`displaced`: `activeSweep` names it no more. `since` is how long a pod has worked on
(`Works`) without anything that renews its lease. A displaced sweep that goes on after its
pod's stop has released the lease is outside of `Works`, since nothing waits for it.

Time is discrete; a timer fires when due; every query is answered within `Latency`. Three
things are assumed and stated as `LeaderAssumption`: a round trip is shorter than half a
poll interval (otherwise attempts overlap, which this module does not model), a poll
interval is no longer than a heartbeat (it is half of one in the code), and the lease
outlives a heartbeat and two queries. What is left of the lease then is `Grace`: for so long a
pod may work on after its last renewal. An `onAcquire` that throws is left out (the start of this
scheduler does not), and so is `LEADER_ELECTION_DISABLED`.

### `ConcurrencyCounter` (`concurrencyService.ts`, `launchGuards.ts`)

One organisation. A launch reads the counter under the row lock (`Read`), inserts a
missing row (`Insert`), and commits or throws (`Claim`). Two launches that both find
no row race for the insert; the loser's unique violation aborts its Postgres
transaction, so the re-read in its catch block fails too and the guard falls back:
`Recount` and `Recompute` overwrite the counter with a count that may not yet include
the winner's deployment, and `RawCount` lets the launch through without a slot. The
fallback's count leaves Spheron out, and it counts a row a launch has claimed but not
created as absent. `Fail` is a failed pipeline step and its retry, which claims no
slot. Closers end deployments (`OpenClose`, `OpenSuspend`, `GuardedEnd`, `Resume`,
`Mark`) and release a slot (`Release`) in some paths and not in others, as in the
code. `Count` and `Overwrite` are the hourly reconciler.

### `PaygBilling` (`computeBillingScheduler.ts`, `deploymentSettlement.ts`)

One pay-as-you-go Akash deployment. A charge is the span of time its amount pays
for, under its key. The cycle reads the watermark (`Snapshot`), decides the hours and
the key of the current clock hour (`Bill`, `BillForced`), is charged or refused, and
moves the watermark by the hours billed, never past the time of the bill (`Mirror`).
A job that ends the deployment takes `closedAt` before it asks the chain (`Stop`),
writes the status (`Mark`), reads the watermark (`SettleRead`), moves it
(`SettleWrite`), announces the charge in the ledger (`Announce`), and refunds or
pauses the escrow (`Finish`). The ledger is represented by its contract: what is in
`owed` is debited in the end. `disturbed` records that a process failed, that a cycle
was forced, that a key was sent again, or that a settlement overlapped with a cycle
or another settlement; the code keeps its promise only without these, and the
properties say so.

The Phala and Spheron loops derive their keys in the same way and charge before they
move their watermark too.

### `AkashPipeline` (`akashSteps.ts`, `webhookHandler.ts`, `qstashClient.ts`, `staleDeploymentSweeper.ts`, `escrowHealthMonitor.ts`, `closeAkashDeployment` in `resolvers/akash.ts`)

One service, its rows (one per attempt), the deployments of the wallet on the chain,
the messages QStash holds, and the handlers at work. `worker[w].pc` names the call a
handler makes next; what it read of its row when it started (`dseq`) stays with it. A
message is taken by `Receive`, which leaves it in the queue when QStash delivers it
again, and each of the six steps is a few actions: the read and the guard on ended
rows (`Receive`, `FirstPc`), the call to the chain or the provider (`Submit`,
`CheckBids`, `CreateLease`, `SendManifest`, `PollUrls`, `Reclaim`), the write (`SaveDseq`,
`SaveBid`, ..., `Activate`, `MarkFailed`, `Spawn`, `Bury`) and the publication of the next
step (`Send`, `SendFails`). An exception goes to the catch block (`Throws`, `Rejected`,
then `Report`: HANDLE_FAILURE, or `Abandon` and `WriteOff` where publishing fails as
well); outside a try block it answers 500 and QStash delivers again, which is `Crash`.
No write of a handler has a condition on the status it replaces.

Around the handlers act `closeAkashDeployment` (the row, then a snapshot of the siblings
in progress, one by one), the sweeper (`SweepPicks`: stuck rows, rows that wait for a
region, ACTIVE rows whose lease is gone; only the first are updated on condition) and
the escrow monitor (`MonitorFindsGone`, `MonitorFindsLeak`). `closeDeployment` of the
orchestrator never throws; a refused close is seen only by those that read its result
(`Refuses`), and the mutation and the sweeper's gone verdict do not.

Things the model takes from the deployment of the program and not from its code:

- The sweep of chain orphans is switched on (`AKASH_ALLOW_CHAIN_ORPHAN_SWEEP=1`), and the
  guards against mass closes do not trip. Switched off, nothing closes the lease of a
  CLOSE_FAILED or FAILED row, and `ChainMatchesRows` does not hold.
- `ORPHAN_MIN_AGE_BLOCKS` (600 blocks, an hour) is longer than the time between a create
  transaction and the row's update: a deployment that a handler is about to record is
  not taken for an orphan.
- A row that has a message or a handler under way becomes stale (25 minutes) only if
  that is held up: sweeping it counts as a fault (`Driven`).
- QStash gives a message up after three retries: the loss of a message after a crash is
  part of that one fault.

Left out: SUSPENDED rows (their redeployment is `resumeHandler.ts`), `excludedProviders`,
policies, the escrow created on activation (`Escrow`), and the in-process executor used
without QStash.

### `HostedPipeline` (`phalaSteps.ts`, `spheronSteps.ts`, their resolvers and adapters, the sweeper)

One service on Phala or on Spheron (`provider`), its rows, the machines upstream, the
messages of the queue. A handler that awaits the upstream is split there: `flight` holds
what it will write (`RequestMachine`, then `SaveDeployed`; `HandlePoll` or `HandleProbe`,
then `Activate`; the resolver's own POST, then `SaveLaunched`), `failing` a failure
handler between its read, FAILED and the retry (`HandleFailure`, `WriteFailed`,
`FinishFailure`), `closing` a close or low-balance pause between the upstream's answer and the row (`StartClose`,
`FinishClose`, `StartPause`, `FinishPause`). All of these write whatever the row has
become, but for the pause. Spheron refuses a DELETE in a machine's first twenty minutes
(`young`); the row goes DELETED without `upstreamDeleted` and `CleanUpstream` finishes. It
also refuses a second live machine of one name (`NameIsFree`), and at start-up it
resumes rows in progress (`Crash`). `SweepStale` is the stale sweep, `ReconcileGone` the
reconciler's verdict. A SUSPENDED or resumed row is in `Suspension`.

### `HostedBilling` (`computeBillingScheduler.ts`, `deploymentSettlement.ts`, `resumeHandler.ts`)

One Phala or Spheron deployment. The cycle reads the watermark at a full hour
(`CycleReads`), debits whole hours under the key of that hour (`CycleDebits`: a known key
charges nothing), and moves the watermark (`CycleMirrors`). Unlike on Akash, a job that
ends the deployment debits first and moves the watermark after (`Settle`, `Debit` or
`DebitFails`, `MoveWatermark`), with the minimum runtime on top, and only then stops the
machine (`StopUpstream`) and writes the row (`Mark`). `SettleAgain` is `stopForPolicy`,
which settles a Spheron deployment and calls a close that settles again. `gap` and
`excess` are what the properties subtract and add: time it stood still, and the minimum
runtime.

### `Suspension` (`services/policy/`, `computeBillingScheduler.ts`, `suspendOrgHandler.ts`, `resumeHandler.ts`)

Five kinds of stop and one resumption write two fields, `status` and the policy's
`stopReason`, each in its own order: a policy records its reason first (`RecordReason`), all
others last (`RecordStop`). The enforcer looks only at ACTIVE rows without a reason
(`Enforceable`), so a reason that stays behind on a running deployment switches its
limits off. A resumption starts every STOPPED row (`StartCvm`, `ActivateCvm`, `ClearReason`,
`ScheduleExpiry`; Spheron: `Redeploy` with a policy of its own, or with none if the copy of
the policy fails). The update that clears the reason may fail and is then only logged, any
job may die at any stage (`Dies`), and a policy's stop may be refused: all of them draw on
`MaxMissed`. `crossed` remembers that a row became ACTIVE while a stop had written the row
and not yet its reason.

### `Wallet` (`walletMutex.ts`, `gpuBidProbe.ts`, `providerVerification.ts`)

Callers in two pods. A caller waits for its turn in its pod's queue (`Call`, `MyTurn`), for
the advisory lock (`Locked`; `LockFails` runs the command without it; `LockExpires` is the
60 s timeout of the lock's transaction), reads the account's sequence number and
broadcasts (`ReadSequence`, `Broadcast`), and holds the queue for the settle delay
(`Settled`). The `.catch` of the advisory lock runs the command once more when the lock
expired or the command threw (`RunAgain`). A sequence number is `fresh` if nothing has
been accepted since the last block. Probes try again up to `TX_RETRIES` times
(`TryAgain`, `Wake`) and close what they created (`Created`), or give it up when the chain has
refused the last attempt (`GaveUp`).

### `Failover` (`staleDeploymentSweeper.ts`, `failoverService.ts`, `leaseChain.ts`, `applicationHealthRunner.ts`)

One service that opted in. In each pod, `reconcileActiveDeployments` reads the ACTIVE
rows (`StartPass`), probes one after another and counts bad answers in memory (`Probe`), and
then closes what is gone (`CloseGone`) and replaces what is unhealthy: `Evaluate`,
`CloseOld`, `Spawn`, `Publish`. The rest of the fleet is in `MassEvent`: half of it may be
hit at once, and then nothing happens. `row[r].lineage` is history: the rows a row replaces
or retries. The pipeline is one step (`Placed`, `HandleFailure` with its retry). A
failover counts against `maxAttempts` until `windowHours` have passed since its row was
created (`WindowPasses`, which may come at any time); the application's health is either.

### `Builds` (`services/github/`, `resolvers/github.ts`)

Pushes (delivered again by GitHub; deduplicated by a read and a later create), rebuilds,
one or two builders per job (a Fly request that failed may have started its machine), and
callbacks that are lost, repeated and reordered. `Callback` is the transaction that
compares and sets. `SlowBuilds` says that a build takes longer than the spawner needs
for its last update (seconds against minutes): `MarkRunning` has no condition, and would
otherwise write RUNNING over a status that is terminal. The catch around the spawn covers
that update and the one of the service too (`UpdateService`), so it may write FAILED over
whatever status there is (`SpawnFails`).

### `Runway` (`akashSteps.ts`, `computeBillingScheduler.ts`, `escrowHealthMonitor.ts`)

One lease and its account on the chain, in quarter hours. The account is settled only when
money is paid in; between payments it drains unseen (`Balance`). Paid in are the deposit,
two hours after the lease (`PostLease`), one hour per billing cycle however many hours it
billed (`Bill`, `TopUp`), and what the monitor finds missing at half past (`MonitorReads`,
`Refill`). Every one of these may fail, or its scheduler may miss a run. `price` is what the
lease costs, `Ppb` what the code takes for it: `parseInt` drops the fraction, and
588 blocks per hour are half a block too few. Prices of 20 and 21 stand for a fraction
small against the price; for a lease of 1.9 uact per block, whose price the code takes for
1, the property does not hold. Forced runs and closes by users are left out; a cycle or a
monitor run takes less than a tick.

### `MCServices`

Checks six of these modules side by side: `HostedBilling`, `Suspension`, `Wallet`, `Failover`,
`Builds` and `Runway` share no state in the model (what couples them in the program is
abstracted in each: the row's status, or the outcome of a call), so a behaviour picks one in
its initial state and only that one moves. The states of the parts add up and do not
multiply; a property of one part says nothing of the others. The fairness of
`Suspension`, the one part with a temporal property, is restated for its part. A part that does not move in a behaviour has one initial
state (`AnyOf`). The sizes are bounded by `ServicesAssumption`, from which the proofs of the
parts start.

## Runs

TLC runs with 2 workers. `CHECK_DEADLOCK FALSE` where the system may stop: every
deployment ended, every pod shut down, time at its bound.

| Run | Instance | Checks |
|---|---|---|
| `ledger` | 1 settler, 1 reconciler, 2 keys, 2 amounts, batches of 1, ages 0..2, 1 fault | types; COMMITTED means debited; a debit was announced; refinement of `DebitContract`; no row stays PENDING |
| `escrow` | 2 jobs, deposit of 2, charges of 1 or 2, 1 fault | types; a recorded refund was made; no refund before the deployment has left; refinement of `EscrowContract`; deposits are resolved; ended deployments are drained |
| `leader` | 3 pods (symmetric), lease 13, heartbeat 6, poll 3, round trip 1, 1 fault | types; no two pods run the scheduler or have a sweep in flight, up to `Grace`; a standby takes over within `MaxVacancy` |
| `concurrency` | 2 deployments, 2 closers, cap 1, 1 fault | types; claims serialise and respect the cap; drift is repaired |
| `payg` | 2 settlers, half-hour ticks, 2 hours, 1 hour minimum, 1 irregularity | types; every tick is billed once; the watermark is never in the future; an ended deployment is charged in full |
| `pipeline` | 2 handlers (symmetric), 1 retry, 2 polls, 1 disturbance | types; at most one open deployment on the chain per service, two more per disturbance; one row per retry, one more per disturbance |
| `pipeline_ends` | 1 handler, 1 retry, 2 polls, 1 disturbance | an ended row with nobody at work on it has ended for ever; every attempt ends; finally exactly the deployments of ACTIVE rows are open |
| `hosted` | 2 rows, 2 machines, 1 retry, 1 poll, 1 deployment asked for, 1 fault | types; `upstreamDeleted` is true; no row stays in progress; a deferred DELETE is done |
| `services` | billing: 2 jobs, half hours, 5 ticks, minimum of a tick, 1 fault; suspension: 2 rows, 2 requests beside the enforcer, 1 failure; wallet: a probe and 2 callers in 2 pods, 2 attempts, 1 failure; failover: 2 pods, 2 providers, 1 failover, 1 retry, threshold 2, 1 disturbance; builds: 2 deliveries, 2 jobs, 1 mishap; runway: 5 hours, 2 misses, 5 in the fleet | types; hours charged once; an ended deployment is charged; no return to a bad provider; failovers within the window bounded, one live deployment; one deployment per build; the on-chain account lasts; what runs undisturbed is under its policy; probes close what they opened, and the wallet's queue never stalls |
| `payg_fresh_key` | as `payg`, no settler, 3 hours | finding 1 |
| `monitor_list_failure` | as `services`, runway, 4 in the fleet | finding 2 |
| `limits_lost` | as `services`, suspension, no failure | finding 3 |

Why these bounds are enough to be of interest:

- *Ledger.* Settlers differ only by their keys, so a settler that returns after a
  crash plays the second settler; two keys let the reconciler's batch hide one row
  behind another; two amounts make a retry with its own figure visible; two ages
  separate young, due and old.
- *Escrow.* Jobs interfere pairwise: each job reads once and writes once or twice,
  so two of them, with one crash, reach every overlap of a read with a write. A
  deposit of 2 leaves something, or nothing, to refund after a charge.
- *Leader.* Three pods allow a dying or stopping leader, or one whose sweep is still in
  flight, and two rivals. A lease of 13
  outlives two heartbeats of 6 by one, the tightest the code accepts
  (`LEASE_TTL_MS > 2 * HEARTBEAT_MS`; its defaults of 60 s and 20 s are easier), and
  the poll interval is half a heartbeat as in the code.
- *Concurrency.* With two launches and two closers every race of the code is
  reachable: two first launches, a release during a claim, a double release, a
  count between a claim and the deployment's creation.
- *Pipeline.* Two handlers overlap in every pair of steps, which is what a duplicate
  delivery does. One retry (the code allows three) has a first, a middle and a last
  attempt collapsed to two, and two polls (10 and 60 in the code) are one that may be
  repeated and one that is the last. `MaxRows` and `MaxDseq` are
  never reached. A disturbance is a crash, a duplicate, a refused close, a call that
  throws, a sweep of a row under way, or the user's close; rejections by the chain, missing
  bids and providers that never get ready are unlimited.
- *Hosted.* Two rows are a deployment and its retry; two machines are the one that is
  replaced and its successor. One poll is the last one. A close may come at any time, once
  at a time.
- *Suspension.* Two requests at a time, one of them the top-up, meet each other and the
  enforcer in every order; one failure anywhere.
- *Wallet.* A probe makes two transactions, and two more callers are one in its own pod and
  one in another: a queue of two, and a rival for the lock. They are as many as the attempts
  (two; three in the code), so that a close may be refused to the last.
- *Failover.* Four rows: an attempt, its failover, and a retry of each. The threshold of two
  (three in the code) has a first and a last bad answer; two pods have a handover with a
  pass under way. `MaxRows` cuts a fifth row.
- *Builds.* Two jobs are a push and its redelivery, or two builds whose ends cross.
- *Runway.* Five hours hold the two hours of the deposit and three cycles; two misses are
  the two failures in a row that no lease is promised to survive. Ten hours and three misses
  were checked as well. Deposits of half an hour, an hour and a half, and two hours.
- *Billing.* Half-hour ticks give a fraction of an hour to lose; two hours give two
  keys; the minimum of an hour is longer than the shortest lifetime.

Fairness. `ledger`: a process under way continues, the reconciler is run again,
time passes; the auth service may stay down. `escrow`: jobs under way go on, the
auth service answers those who wait, and the schedulers start the sweeps again and
again: strong fairness, because in the model a sweep competes with other jobs for
one of two workers, while in a Node process it never waits for one. `concurrency`:
launches and closes under way go on; the hourly reconciler recurs; nothing makes
anyone launch or close. `payg`: cycles and settlements under way go on, and the
ledger debits what it announced, which `ledger`'s `PendingIsResolved` shows for all but
rows given up. `pipeline_ends`: QStash
delivers what it holds, handlers and the mutation run on, and the two passes recur
(`setInterval` in both schedulers); nothing obliges a user to close a deployment. `hosted`:
handlers that have their answer go on, sweeps recur (`setInterval`), the floor passes, the
upstream accepts a DELETE in the end; messages may all be lost. `limits_lost`: the
enforcer recurs (after every billing cycle) and what was started goes on; expiry jobs may be
lost. The leader module needs no fairness: its progress property is a bound in time,
checked as an invariant. Crashes, lost answers and throwing calls are never fair.

Each property has a mutant (`PROJECT.json`): a change of one mapped definition, of the
kind a plausible edit would make, with which TLC finds the property violated under
the run's own configuration.

## Findings

Places where the code does what a comment beside it says it does not. The
quotations are in `PROJECT.json`.

1. `payg_fresh_key`: a crash between the hourly debit and the watermark leads to a
   second charge for the same hours under the next hour's key.
2. `monitor_list_failure`: `fetchAllEscrowBalances` turns a failed query into an empty list.
   In a fleet of fewer than five, where the guard against mass closes does not act, every
   deployment looks gone and is closed; the comment says that the cycle is skipped.
3. `limits_lost`: a suspension writes STOPPED and then its reason; a top-up that comes between
   the two makes the deployment ACTIVE and clears the reason first. The deployment runs with
   a reason, the enforcer selects policies without one, and the limit it exceeds is never
   enforced, although the comment says that it stops any that exceeds its limits.
   `RunningIsUnderItsPolicy` shows that without failures there is no other way to that state.

### Seen while modelling

Formulas that TLC finds violated too. They are stated in their modules; listed
under a run's properties in place of its own, they give the behaviour described here.

- `Escrow.FailedWasNotDeposited`: the answer of a deposit is lost, `createEscrow` writes
  FAILED, no sweep looks at FAILED rows: the wallet stays debited.
- `Escrow.RunningIsFunded`: a deployment that was closed while it was deploying is settled and
  refunded, and then `finalizeDeployment` writes ACTIVE over CLOSED (`akashSteps.ts:1364-1372`):
  it runs on an escrow that was paid out.
- `Escrow.PausedIsRefunded`: a suspended deployment is closed, the refund fails and is
  rolled back to PAUSED; no sweep looks at PAUSED rows of closed deployments.
- `ConcurrencyCounter.ReleaseIsIdempotent` (3 deployments, cap 2): two jobs that end one
  deployment release two slots; the clamp at zero protects only an organisation that has
  no other deployment.
- `AkashPipeline.StopEndsRetries`: a handler that read its row before the user's close
  writes its next status over CLOSED, and a retry becomes ACTIVE after the close.
- `HostedPipeline.PausedMachineIsDeleted`: a Spheron deployment that is paused within the
  floor becomes STOPPED with its machine running, and the clean-up looks at DELETED rows
  only. The same holds of the machine of a FAILED row.
- `HostedBilling.FloorChargedOnce`: two jobs that settle before either moves the watermark
  both charge the minimum runtime.
- `Suspension.OnlyLowBalanceResumes`: a top-up starts what the user or a policy stopped; on
  Spheron each top-up redeploys the same STOPPED row again.
- `Failover.AttemptsAreCapped`: a comment says that "a cap of 3 means "the original + 2
  failovers"" (`failoverService.ts:88`), but the count is of rows with a `failoverParentId`, which
  the original has not, and must be below the cap: there are three failovers.
- `Failover.RetriesUnlessUserClosed`: `handleFailure` takes the CLOSED row that a failover
  left for a sign that the user gave up, so the replacement's first failure is final.
- `Wallet.SerializedAcrossReplicas`: the advisory lock is released before the settle delay,
  so another pod reads the sequence number of the last block; and the delay of 3 s is
  shorter than a block of 6 s.

Two bounds were stated too narrowly before their proofs were tried; TLC confirmed each on an
instance of its own, and the properties say now what is true. A standby may need three
queries beyond the lease and a poll (`MaxVacancy`): a renewal that lands as the leader stops,
then the answer to its own poll or to that of the pod which takes the lease just before. And
a lease whose first top-up fails needs a deposit of two hours, not of one (`RunwayLasts`):
with an hour and a half, the monitor at half past finds it "not low", the first cycle finds
that no hour has passed, and a monitor run that is missed lets it run dry.

Seen, and excused by guards or bounds of the properties, because the code does nothing about
them:

- *Billing.* On Akash two settlements of one deployment before its escrow is paused charge the
  GPU minimum twice; two cycles within one clock hour share a key, so that the second moves
  the watermark and charges nothing; a crash after a settlement moved the watermark and before
  its ledger row exists loses the charge, which `deploymentSettlement.ts:171-173` calls
  recoverable. A resumption selects escrows that are PAUSED without asking for the status of
  their deployment.
- *Pipelines.* `handleFailure` gives up a row without closing its deployment whenever the service
  has any CLOSED row; a row the sweeper marks FAILED "so the retry mechanism can pick them up"
  (`staleDeploymentSweeper.ts:5`) is never retried; in both cases the escrow monitor's orphan
  sweep closes what was left open. A hosted failure handler writes FAILED over a row the user has
  deleted since it was read (`WriteFailed`), which also hides the user's decision from the
  check before the retry. The machine of a Phala or Spheron row whose process died before it
  saved the id is known to no row.
- *Limits.* A policy's stop that the upstream refuses, or that dies, has recorded its reason and
  leaves the deployment running with its limits off, and so does a resumption whose update of
  the reason fails (`resumeHandler.ts:283`) or that dies before it: `missed` excuses them in
  `RunningIsUnderItsPolicy`.
- *Failover.* It acts on the row it read at the start of the pass, and no step of it looks at the
  status again: it replaces a deployment that the user has closed meanwhile. One whose process dies
  between the close and the new row leaves the service without a deployment; one whose
  publication failed is swept.
- *Builds.* A build that ends later overwrites the image of a newer one; a build that ends within
  thirty seconds of another's deployment is not deployed; a push whose spawn failed stays
  PENDING.
- *Leader election.* A sweep in flight is unbounded: a pod that lost the lease, or drains its
  sweep in a stop, may sweep on when the lease has run out and the next leader sweeps, without
  any fault (`since` beyond `Grace`); the sweeps then overlap, and `Failover.overlaps` is what that
  does to failovers. A sweep that was displaced is not awaited by the stop, and the other
  schedulers' stops do not wait for a pass at all (`computeBillingScheduler.ts:65-75`). A pod
  stopped while its acquire is in flight wins the lease after the stop, starts the scheduler,
  and neither beats nor releases: a second leader follows when the lease expires, although
  `leaderElection.ts:234` says that "only one will be elected". And the vacancy after a crash is
  longer than the comment at `leaderElection.ts:17-19` has it (`MaxVacancy`).

## Proofs

A module of proofs stands beside the module it is about. Each has the same shape: the
invariant is strengthened to an inductive `IInv`, one lemma shows that `Init`
establishes it, one that every step keeps it (`NextIInv`, action by action, helped by
lemmas about groups of actions that disturb the same conjuncts), and the theorems
follow from `Spec => []IInv`. Nothing is assumed but the named assumptions on the
constants, which TLC evaluates on every run. `ServicesProofs` is about `MCServices` itself,
which has the six services by INSTANCE. Two of its theorems have a hypothesis about the
constants, named below.

### `SettlementLedgerProofs`

Proved for any sets of settlers, reconcilers, keys and
amounts and any ages, batch size and number of faults (`SettlementAssumption`):

| Theorem | Says |
|---|---|
| `TypeCorrect` | every variable keeps its type |
| `Committed` | a row is COMMITTED, and a caller is told so, only if its key was debited, by its amount |
| `WriteAhead` | every debit, done or under way, was announced by its row |
| `GivenUpLate` | the reconciler gives up only rows past the budget |
| `Implementation` | `Spec => Contract!Spec` |

The invariants are not inductive alone. A row's amount never changes once it is
inserted, but `Commit` writes by key and `AuthDebit` by request, so the invariant
`IInv` carries the link from both to the row: what a busy process or a request holds
is the amount of its row (`WorkAnnounced`, `DebitIsAnnounced`); rows have an amount
exactly when they exist (`RowsAnnounce`); and a process reaches its promotion only
after the auth service debited its key (`PaidBeforeCommit`), which no step undoes
(`CommittedIsPaid`). `NextIInv` goes through the actions one by one.
`FailedOnlyWhenOld` depends on an earlier reading of the clock by a sweep
(`work[p].old`); its invariant `AgeInv` says that what was old then is old now, which
holds because ages only grow (`AgesGrow`). The refinement follows from `IInv` action
by action.

### `EscrowProofs`

Proved for any number of jobs, any deposit and charges, and any number of faults
(`EscrowAssumption`: the deposit and the charges are positive):

| Theorem | Says |
|---|---|
| `TypeCorrect` | every variable keeps its type: `consumedCents` never passes the deposit, though every charge adds to a value read earlier, and every refund asked for is a part of the deposit |
| `NoFreeCredit` | the wallet is credited only after it was debited |
| `RefundsAreReal` | a row that records a refund stands for a credit that was made |
| `RefundsAfterTheEnd` | no refund is asked for before the deployment has left at least once, by suspension or by its end |
| `Implementation` | the escrow implements `EscrowContract` |

The row alone does not carry the argument: ACTIVE, FAILED and REFUNDED are written over
whatever it holds. Three facts are never undone, though: the deposit was taken, the
deployment has left (it is SUSPENDED or ENDED, or was before it was revived), and a refund was
credited. `IInv` says
which of them each job relies on at the stage it has reached (`Vouches`), which the
row's status stands for (`RowVouches`), and that a refund that was asked for rests on the
first two (`RefundsVouch`). Every write of the row is then justified by what its job
relied on when it read, and what it relied on still holds (`Kept`).

The refinement needs two facts more (`CInv`): there is a row when a deposit was sent or
taken, which every write keeps since a rollback restores a status that was read from a row;
and what a job is to record, it has asked for. Each step is then a step of the
contract or none: what writes no money keeps the account (`KeepsComply`) or moves the
deployment (`LeavesComply`); the claim and the sweep ask (`AsksComply`); `Finish` records
(`RecordsComply`), and changes nothing before a credit, because it then writes the zero
that is there.

### `ConcurrencyCounterProofs`

Proved for any set of deployments that is finite, any closers, cap and faults
(`ConcurrencyAssumption`): `Serialized`, that a claim adds one slot to the counter as it
stands at the commit, within the cap (`ClaimsSerialize`, an action property). A launch
that is about to commit holds the row's lock (`LockHeld`); what writes a committed
counter waits for that lock; a row that is not committed counts nothing
(`NothingCounted`), so the launch that inserted it is right to take it for zero; hence
what was read is the counter still (`ReadIsCurrent`).

And `TypeCorrect`, in which the counter and every count on its way to it stay between zero
and the number of deployments. The counter may drift from the deployments there are, up
or down, but a launch that got a slot or a deployment never starts again: the counter is
at most the number of such launches (`Slots`), which only grows (`Bounded`).

### `PaygBillingProofs`

Proved for any settlements, irregularities and granularity of time
(`BillingAssumption`):

| Theorem | Says |
|---|---|
| `TypeCorrect` | every variable keeps its type: every charge pays for some time, within bounds |
| `NeverAhead` | the watermark is never in the future |
| `OnceEach` | as long as nothing is disturbed, every tick is billed once up to the watermark, or the minimum runtime, and no tick beyond (`BilledExactlyOnce`) |

Whatever moves the watermark carries a moment that was read from the clock (`BillIsPast`,
`StopIsPast`), the clock only advances, and a bill that was rounded up to whole hours is
cut at its own moment. With a watermark ahead of the clock the next cycles are skipped in
silence.

For `OnceEach` the bills lie end to end (`Exact`). A cycle bills from the watermark and a
settlement from the watermark it read; the cycle's bill is paid before the watermark
moves, the settlement's after, so the invariant says for each stage where the bills end
(`BillsCalm`). It also says why nothing else may bill at that stage: a cycle and a
settlement do not overlap, and a second settlement finds the escrow paused (`CycleCalm`,
`JobsCalm`). Those hold while nothing was disturbed, which the variable `disturbed`
records, and every step that leaves it FALSE is one of `CalmStep`. That no bill is lost
between the ledger and the auth service, because keys differ (`KeysApart`), always holds.

### `LeaderElectionProofs`

Proved for any pods and faults, and any lease, heartbeat, poll interval and latency that
satisfy `LeaderAssumption`: `TypeCorrect`, and `OneLeader`, that no two pods work at a time, by
the interval or by a sweep in flight, as long as each has not gone on for more than `Grace`
without a renewal (`AtMostOneActive`). Such a pod owns the lease (`Rules`, `Holds`), and the
lease is young. While the pod leads and is up, some heartbeat renews it, or has tried to, within
the lease, where a heartbeat and two queries must fit in. When it stops leading the lease is
at most so old, and since then it has aged no more than `since` has grown: hence `Grace`, what
is left of it. So nobody else can take the lease meanwhile. What remains is the pod's own
release, which deletes the lease by owner: it is sent only when the stop has drained the
active sweep, and were one still on its way when the pod wins again, it would delete what the
pod has just won. `OneAtATime` excludes that, and is where polls have to be further apart than
two queries; `Fresh` and `Kept` say that an answer that is still on its way is still true.

And `StandbyTakesOver`, that the scheduler is not without a leader for longer than
`MaxVacancy` while some pod is up (`TakeoverInTime`). Its invariant, `VInv`, says where the
takeover stands when no pod leads. Either the lease is not renewed any more, because only a
query that was sent before the leader stopped could do so (`Late`), and some pod polls when
it has lapsed (`Lapsing`); or it was taken, by an answer that is still on its way or by a
pod that will ask again in its next poll and be told that it owns the lease (`Taken`). Each
case bounds `vacant` by the age of what it waits for.

Each of the inequalities of `LeaderAssumption` is one of these steps. A query that
hangs longer than they allow is outside of the theorem.

### `AkashPipelineProofs`

Proved for any finite set of handlers at work, and any retries, polls, rows, deployments on
the chain and faults (`PipelineAssumption`):

| Theorem | Says |
|---|---|
| `TypeCorrect` | the variables keep their types, and a row has a dseq only once the chain gave it (`TypeOK`) |
| `RetriesBounded` | one row of a service is its k-th retry, and one more for each fault (`RetriesDoNotMultiply`) |
| `DepositsBounded` | a service holds one deposit on the chain, and two more for each fault at most (`OneDeposit`) |
| `EndedStay` | a row that has ended, with nobody at work on it, has ended for ever (`EndedRowsRest`) |

The two bounds are not inductive: a second retry, or a second deposit, is under way long
before it exists. The invariant counts what is under way. An *activity* is a message
to be delivered or a handler at work. For each k, the rows that are retry k + 1 and the
activities whose row has had at most k retries are, together, at most one and one for each
fault (`Retries`). An activity that spawns a retry moves from the second count to the first;
one that publishes a message and ends is replaced by it; only a duplicate delivery, a crash
after publishing, or a publication that throws although it went out, adds one, and each is
a fault.

A deposit is *held* by the activity that closes it when its row fails, or is *loose*.
Activities, those that are yet to create a deployment once more, and loose
deposits, less the rows that have yet to get their first dseq, are at most one and two for
each fault (`Deposits`). A retry's activity is about to create a deployment, which its row,
yet without a dseq, cancels out; `SaveDseq` takes both away, and leaves the activity
holding what it created. The failed row's deployment was closed before, or is loose, which
took a refusal: a fault. What costs two is the fork of an activity that is to submit, since
the row's first dseq cancels out only one of the two.

Each action is one of five kinds of step: a handler starts with a message (`Takes`), goes on
to another call (`Moves`), ends with a message (`Ends`), without one or by a crash
(`Drops`), or goes on although its message has left (`Leaves`); each kind is shown once to
keep both counts, and each action to be of its kind.
`SaveDseq` and `Spawn`, which change the rows that are counted, are weighed on their own.
The mutation, the sweeper and the monitor take no part in the counts, since they only close
deployments and write statuses.

`EndedStay` is a temporal theorem: once `AtRest` holds of a row, its status stays among those
of a row that ended. What every step keeps (`Rests`) is weaker than `AtRest` by
one exception: a handler that failed to publish a retry may come back to a row, but only to
write it off as FAILED. A delivered message finds the row ended and returns (`ReceiveRests`);
other handlers write only their own row (`StepsRest`); the sweeper picks no ended row; the
monitor's CLOSE_FAILED, which would undo the end, is written over ACTIVE rows only
(`RefusedIsGone`).

### `HostedPipelineProofs`

Proved for any sets of rows and machines, any retries, polls and faults
(`HostedAssumption`): `TypeCorrect`, and `StampsAreTrue`, that a Spheron row stamped
`upstreamDeletedAt` names a machine that was deleted (`StampIsTrue`).

On Spheron a row and its machine are attached for good (`Attached`). A row gets its machine
once, from the one handler that rented it under the row's name. The name is not free while
that machine lives, so that no second handler rents one (`Apart`): a machine that is still
to be saved belongs to a row that has none yet (`FlightOK`). What a failure handler or a
close read some steps ago is therefore the row's machine still, or was none
(`FailingOK`, `ClosingOK`). Each stamp comes after a DELETE of the row's machine, and
machines that are gone stay gone. The invariant is conditional on the provider, as the
property is: a Phala row may change its machine.

### `ServicesProofs`

The six services of `MCServices`, for any sizes that `ServicesAssumption` allows. They share
no variable, so a step of `MCServices` is, for each, a step of its own or none (`EachMoves`);
`ServicesInv` is the conjunction of their inductive invariants, and the theorems are about
the specification that TLC checks.

| Theorem | Says |
|---|---|
| `TypeCorrect` | the variables of all six keep their types |
| `ChargesOnce` | every tick of a Phala or Spheron deployment up to the watermark is charged once, as long as nothing fails between a debit and its watermark (`ChargedOnce`) |
| `EndIsCharged` | the time up to its end is charged or announced, however it ended (`EndedIsCharged`) |
| `NeverBack` | a chain of failovers and retries does not return to a provider it left (`KnownBadAvoided`) |
| `FailoversAreFew` | within the policy's window, failovers are at most `maxAttempts` and one more per overlap; without one, one deployment is live at most (`FailoverBounded`) |
| `LimitsApply` | without failures, a deployment that runs with nobody at work on it is under its policy, unless its last resumption crossed a stop (`RunningIsUnderItsPolicy`) |
| `ProbesClose` | without failures, a probe leaves a deployment open only if each of its attempts to close it was refused (the first part of `ProbesCloseWhatTheyOpen`) |
| `AtMostOnce` | a build job deploys at most once, when a build outlasts the spawner's last write (`SlowBuilds`, a hypothesis; `DeployedOnce`) |
| `LeaseLasts` | a lease outlasts any top-ups that succeed, and one failure if its price has no fraction (`RunwayLasts`), when `parseInt` drops a fourth of what it keeps at most (`DropsLittle`, a hypothesis) |

*Hosted billing.* What was charged, is owed or was spent stopped never shrinks
(`Accounted`). It reaches the watermark, what a cycle is about to make the watermark, and
the time of every job that settled (`Cover`), which becomes the end. The delicate step is
a cycle whose key is known: it moves the watermark and charges nothing. The cycle that
used the key was in the same hour, and the invariant remembers that it has charged what
this one bills (`KnownCovered`). Undisturbed, the sum is exact: one cycle or settlement is
between its debit and its write at a time, and the invariant says by how much charges are
ahead of the watermark at each of their stages (`Exact`).

*Failover.* A row's lineage holds rows whose pipeline has ended, so that
their providers are fixed, and all of them are excluded by the row (`Chains`). A failover
decides on exclusions some steps before it creates the row that has them; the pass
remembers what its row excludes, and that row does not change meanwhile (`PassesOK`). A pass
that is committed to a failover has counted those before it; two can do so at once only if
they overlap, which `overlaps` counts (`Capped`). A pass that nobody overlaps knows every
live deployment of the service (`OneAt`), and closes it before it creates another.

*Suspension.* A reason on an ACTIVE row belongs to a stop that is under way on it, to a
resumption that has yet to clear it, to a failure or to a crossing. The reason of a policy is
written before the stop, and its row is not left ACTIVE by it; every other reason is written
after the row, and a resumption in between sets `crossed` and nothing else does.

*Builds.* Only the callback that finds a job in no terminal
status deploys, and it leaves the job terminal (`DeploysTerminal`); the spawner's RUNNING,
which would undo that, has been written before any builder reports an end (`EndsLate`).
Without `SlowBuilds` the property is false: TLC finds the RUNNING that is
written over SUCCEEDED and the repeated callback that deploys again.

*Wallet.* A caller past its turn is the head of its pod's queue (`Queued`), so that the one
that is resumed is the one that the queue admits. An attempt runs its command once, and once
more if the lock failed it, so it opens two deployments at most (`FewOpenAt`). Without failures it
runs once: a create that was refused has opened nothing, one that went through has opened the
one deployment that the close is about, and a close is tried again until it went through or
the attempts are used up.

*Runway.* Products of ticks and prices are behind a name (`Times`), and all else is linear.
After a payment that went through, an hour of the price is left, after a failure half an
hour, which is when the next payment is due (`Enough`); in the first hour, two hours of it
less what passed. With a price of which a fraction is dropped, what is left shrinks by that
fraction from one look at the balance to the next (`Plenty`); no failure is survived then.
The prices of the run, 20 and 21, satisfy `DropsLittle`.

## What is not shown

- Liveness is checked by TLC on the instances above and not proved: the prover has no
  fairness reasoning. These are `PendingIsResolved`, `DepositIsResolved`, `EndedIsDrained`,
  `DriftIsRepaired`, `AttemptsEnd`, `ChainMatchesRows`, `LeavesProgress`
  and `DeferredMachineIsDeleted`. That the wallet's queue moves (`QueueMoves`, the second part
  of `ProbesCloseWhatTheyOpen`) is stated with ENABLED and stays with TLC as well. Every other
  property of a passing run is stated by a theorem.
- Amounts in cents, roundings, rates and margins: a charge is abstract in `Escrow` and
  a span of time in `PaygBilling`.
- `resumeEscrow`, which nothing calls; read-only queries; audit and alerts.
- The chain beyond what each module needs of it: a deployment is open, leased or closed, a
  close succeeds or is refused (`AkashPipeline`); an account drains (`Runway`); a block
  confirms what was accepted (`Wallet`).
- Queries that outlast a poll interval of the leader election (`leaderElection.ts:301`): two
  attempts would overlap and `onAcquire` run twice.
- Most of the repository by lines. What carries state across awaits is modelled; the GraphQL
  schema and resolvers (`resolvers/index.ts`, `schema/typeDefs.ts`), the templates and
  the generation of manifests, the parsing of CLI output in the orchestrators, route
  matching, DNS, telemetry, invoices and scripts are row-level I/O or text, where a
  model would repeat the code. The usage aggregator and the start and stop methods of
  the Phala adapter have no callers.
- The components marked `not_modelled` in `PROJECT.json`, with the reason there.
