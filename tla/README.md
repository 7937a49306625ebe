# PatchProof API: verification project

PatchProof issues certificates of authenticity for physical patches. A patch is
registered once, its certificate is written to the BSV chain, and from then on
it changes hands by transfers that the present owner signs. The service is a
Node.js program: an HTTP API, a BullMQ worker, MongoDB, Redis, a pool of UTXOs
that pay for the transactions, a remote signer and a block explorer API.

This directory holds TLA+ modules that model the parts of the program that keep
state, TLC configurations that check them on small instances, and proofs that
TLAPS checks for every value of the constants. Every definition is translated
from `src/`; `PROJECT.json` gives the lines.

## 1. Inventory

| Component | State it keeps | Operations | Talks to |
|---|---|---|---|
| Patch handlers (`controllers/patchController.js`) | locals between two awaits | `registerPatch`, `transferOwnership`, `verifyPatch`, `unlockContent`, pending status | databaseService, jobService, blockchainService |
| Record state machine (`services/databaseService.js`, `models/`) | `AuthenticationRecord` documents (`pending`, `confirmed`, `failed`, `anchoring`), one `PatchState` per patch | `createPending*`, `markConfirmed` (a MongoDB transaction over both), `markFailed`, `revertPending` | MongoDB |
| Broadcast queue and worker (`services/jobService.js`, `workers/broadcastWorker.js`) | BullMQ jobs, attempts, the `failed` event stream | `addBroadcastJob`, `addTransferJob`, the handler, the `failed` listener | Redis, databaseService, blockchainService |
| Batch anchoring (`scripts/batchAnchor.js`, `controllers/adminController.js`, `scripts/jobs/`) | the same records, `anchoring` and Merkle paths | anchor a batch, recover orphans, report and re-check failed records | lock manager, blockchainService, MongoDB |
| Lock manager (`services/lockManager.js`) | a lease per lock name in Redis | acquire, extend, release, heartbeat | Redis |
| UTXO pool (`services/utxoService.js`, `services/utxoManagerService.js`, scripts) | one `Utxo` document per output (`available`, `locked`, `spent`, `unconfirmed`) | sync, sweep, split, reap, add | MongoDB, block explorer, signer |
| SVD login (`services/svd*.js`, `routes/svdAuth.js`) | registry of users, challenge cache, replay cache | register, begin, complete | MongoDB, Redis, signer |
| Email verification (`services/authService.js`, `middleware/authRateLimiter.js`, `workers/emailWorker.js`) | one code per address, request counters | request, submit | MongoDB, Redis, queue |
| POS claims (`controllers/posController.js`, lines about `posIntentId` in the worker) | `ClaimIntent` documents | create, approve, status | records, queue |
| Signer and explorer clients (`services/kmsSigner.js`, `clients/wocClient.js`) | none | HTTP calls with retries | remote services |
| Chain and cryptography (`services/blockchainService.js`, `services/cryptoService.js`) | none | build, sign and broadcast transactions, sweep an address | UTXO pool, signer, explorer |
| Shell (`app.js`, `config/`, middleware) | phase of the process, connections to clients, MongoDB and Redis | start, serve, stop | everything |
| Deployment, migrations, health checks, front end, tests | none | | |

What is hard in it:

* **No transaction spans the three stores.** A request creates a record, then
  adds a job; a worker broadcasts, then confirms. A crash, an error or another
  actor can come between any two awaits.
* **The owner is checked when a transfer is requested and used when it is
  confirmed**, after a queue, a broadcast and any number of retries. Only
  `markConfirmed`'s condition on `current_txid` stands between the two.
* **Retries repeat effects.** A BullMQ attempt that died after its broadcast is
  run again and broadcasts another transaction; a failed job is reverted and
  requeued by every worker process that hears of it.
* **Leases and caches go stale**: locks with a TTL, UTXO locks reaped by age,
  challenges and codes that expire while they are being used.
* **Start-up and shutdown are sequences of waits** on services that may be down;
  a step that fails exits, throws, or logs and goes on, each in its own way.

What makes each component correct:

* records: a patch has one chain of custody; each transfer in it continues the
  last link and was signed by the owner of that link; a confirmed record is
  final and is backed by a transaction that carries it;
* queue: every job ends; a completed job confirmed its record; broadcasts of
  one record are bounded; a queued record becomes `confirmed` or `failed`;
* batch anchoring: it never undoes or overwrites what a worker did;
* locks: one holder at a time while leases are renewed, and a release frees
  only one's own lease;
* pool: an output is marked spent only if it is, or on an answer that misses it;
  whatever gets lost, the pool comes to offer what is confirmed and unspent
  again, and a locked output comes back;
* SVD and email: a challenge or code opens one session at most; refusals tell
  the truth; guesses are bounded; a mail that was promised arrives;
* POS: a claim shown as confirmed was honoured, and every transfer was signed by
  the holder or claimed;
* shell: production serves only with all its credentials, a graceful exit cuts
  no request short, start-up and shutdown end.

## 2. Modules

| Module | Models | Proofs |
|---|---|---|
| `Custody` | abstract: what the patch service promises | |
| `PatchLifecycle`, `PatchLifecycleMC` | handlers, records, queue, worker; refines `Custody` | `PatchLifecycleProofs` |
| `PatchOperations`, `PatchOperationsMC` | extends `PatchLifecycle` with batch anchoring and repair scripts | `PatchExtensionsProofs` |
| `PosClaims`, `PosClaimsMC` | extends `PatchLifecycle` with claims at a point of sale | `PatchExtensionsProofs` |
| `Merkle`, `MerkleMC` | roots and paths of a batch | `MerkleProofs` |
| `TaskLock`, `TaskLockMC` | the Redis lease with a heartbeat that batches and scripts run under | `TaskLockProofs` |
| `UtxoPool`, `UtxoPoolMC` | the pool of funding outputs against the chain | `UtxoPoolProofs` |
| `OneTimeSecret` | abstract: what the two logins promise of a challenge or a code | |
| `SvdAuth`, `SvdAuthMC` | SVD login, server and client; refines `OneTimeSecret` | `SvdAuthProofs` |
| `EmailVerification`, `EmailVerificationMC` | login by mailed code; refines `OneTimeSecret` | `EmailVerificationProofs` |
| `ApiProcess`, `ApiProcessMC` | start-up, requests and shutdown of an API process | `ApiProcessProofs` |

The runs, with the bounds that their `.cfg` gives; each module's section says
why they are enough. Times are for two workers.

| Run | Question | Distinct states |
|---|---|---|
| `race` | may two transfers, or two registrations, of a patch both take effect? | 29,000 |
| `faults` | what do retries, rejections, deaths and requeues do to a record? | 300,000 |
| `shipped` | does polling of a queued record end, as shipped? (no) | |
| `anchor` | what can a batch break while the workers go on? | 270,000 |
| `repair` | do the repair scripts keep custody beside the listener? | 200,000 |
| `merkle` | does every path lead to the root? | 500 |
| `lock` | who keeps the lease, who takes it away, does it come free? | 100,000 |
| `pool` | is the pool wrong for good after a loss? | 630,000 |
| `svd` | may a challenge open two sessions, or be refused without reason? | 260,000 |
| `email` | may a code open two sessions? how many guesses? does it arrive? | 820,000 |
| `pos` | is a claim that is shown as confirmed honoured? | 1,060,000 |
| `process` | what does production serve without? does a shutdown cut requests short? | 98,000 |

Every safety property and every refinement of these runs is proved for all
values of the constants (section 11); the liveness properties are model-checked
only.

## 3. The chain of custody: `Custody` and `PatchLifecycle`

`Custody` is the abstract specification: a ledger of links, and for each patch a
head. `Issue` starts a chain, `HandOver` continues the present head and is
signed by the present holder. Links are never changed or removed, and no
transaction is used for two links.

`PatchLifecycle` is the program. A step is what happens between two awaits.

| Module | Code |
|---|---|
| `records` | `AuthenticationRecord` documents, in order of creation |
| `patchStates` | `PatchState` documents; `Unregistered` where there is none |
| `requests` | the locals of `registerPatch` and `transferOwnership` |
| `jobs` | BullMQ jobs with the point their handler has reached; for a request outside `AsyncHandlers` the same steps run inside the request, without a queue |
| `chain` | transactions in the order they were broadcast, each with the record it carries |
| `failedEvents`, `reverted` | the `failed` listener of each worker process, before and after its first await |
| `RegisterPatch`, `AuthorizeTransfer`, `CreateTransfer`, `Enqueue`, `RunInline` | the handlers up to each await |
| `TakeJob`, `Broadcast`, `MarkFailed`, `MarkConfirmed`, `JobReturns` | the worker's handler |
| `JobThrows`, `JobStalls` | BullMQ: attempts with backoff, the check for stalled jobs |
| `RevertFailed`, `RequeueFailed`, `ListenerDies` | recovery of failed jobs |
| `AbandonRequest` | a process that dies, or `queue.add` failing, after the record was created |

Abstractions, each with its reason:

* A broadcast succeeds, fails or throws, and each success is a transaction of its
  own: the inputs differ with every attempt. Which of the three outcomes can
  occur is the constant `BroadcastOutcomes`. In the source as it is, the worker
  calls functions `blockchainService.js` does not export, so only `throw` can
  happen (section 13). The runs use the outcomes the worker was written for
  (and its tests mock).
* The two reads of `transferOwnership` (the record, then the state) are one
  step. A confirmed record never changes (theorem `ConfirmedStays`), so reading
  it earlier gives the same document.
* A signature check is a comparison of keys; `signer` stands for
  `current_owner_pubkey`, which the handler checks and does not store. What the
  issuer signed is kept as `signedTs` and `metaKept`.
* `job_id` is written and never read. `unlockContent` and the status reads
  change nothing. Jobs without `pendingId` are created by no handler; the POS
  intents that jobs carry are in `PosClaims`.
* The transaction of `markConfirmed` is one step, as on a replica set. The
  non-atomic fallback of `withTransaction`, which logs that it is unsafe, is not
  modelled.
* A stalled process is dead. A process that is stalled but alive may run a job
  beside its second execution; that case is not modelled.

One patch is enough in the runs: actions touch the state of one patch only, and
a record names the patch it belongs to. The proofs are for any number.

* `race`: 3 records (an issue and two transfers, or two chains), 2 workers, one
  request queued and one inline: two transfers from one link, or one from the
  other. It also checks `Inductive`, the strengthening that
  the proofs use.
* `faults`: 2 records, 3 jobs, 2 attempts, 1 requeue: a transfer is rejected,
  throws, fails to be written, is requeued, and meets its own earlier attempt. 3
  jobs of 2 attempts are more than the 4 broadcasts of one record that
  `BroadcastsBounded` allows, and 6 transactions are as many as they can make. A
  worker that dies ends the run of its job here; run `repair` has the second
  execution of a job that stalled.
* `shipped`: one registration, queued, as the source is: every attempt throws
  before it broadcasts (section 13).

**Fairness.** `FairSpec` adds weak fairness of each job's execution: BullMQ
keeps running the jobs it holds while a worker process is up, and a process that
died is started again (`ops/systemd`). Nothing is assumed of requests, of
crashes or of broadcasts succeeding.

### Proofs

`PatchLifecycleProofs` proves, for any number of patches, addresses, requests,
workers, attempts, requeues and records, under `LifecycleAssumption` alone (the
types of the constants, at least one attempt, a finite set of workers):

* `InductiveInvariant`, `TypeCorrect`, `StateIsBacked`, `NeverForks`,
  `TransfersAreSigned`, `ConfirmedIsOnChain`: invariants;
* `ConfirmedStays`: the action property `ConfirmedIsFinal`;
* `CustodyIsKept`: `Spec => KeepsCustody`, the refinement;
* `CompletedStaysConfirmed` (`CompletedIsConfirmed`);
* `RunsAlone` (`OneRunPerRecord`) and `BroadcastsStayBounded`
  (`BroadcastsBounded`) under `OneListener`: at most one process recovers failed
  jobs. With two, both requeue a failed job, and two jobs serve one record.

The argument. `NoFork` and `SignedByHolder` speak of confirmed records and are
not inductive: whether a confirmation keeps them depends on what was checked
long before. `Inductive` carries the check along: every transfer, whatever its
status, was made from a confirmed link `q` of the same patch, and its signer
owned `q` *unless the patch has moved on from `q`* (`AuthorizedTransfers`,
`HeldAt`); a request that has passed its checks satisfies the same
(`AuthorizedRequests`). When `markConfirmed` finds `current_txid` equal to
`previous_txid` the patch has not moved on, so the signer owned `q`. `Spent`
says a patch never returns to a transaction that a transfer has left; it holds
because the transaction of a confirmation carries its own, not yet confirmed
record (`BroadcastHeld`, `OnChain`), hence is not one a confirmed record has.
From `Spent` follows that two confirmed transfers never share a
`previous_txid`. The refinement maps the confirmed records to links: a
confirmation is `Issue` or `HandOver`, and every other step stutters.

The argument for `RunsAlone` and `BroadcastsStayBounded`. A record is held by a
request about to queue it, by an unfinished job, or by a recovery before or
after its first await (`Runs`). A step hands one of these on to another, ends
it, or begins one for a new record (`RunsMove`), so no record is ever held twice
(`Alone`). A failed job is handed to each listener, which is why there may be
only one. The quota then is a count: the broadcasts of a record are at most
those of the jobs before the one that holds it, and one in each attempt and each
stall of that job (`WithinQuota`).
`CompletedStaysConfirmed` rests on the order of the handler's last steps: a job
that is about to return has seen its record confirmed (`Returned`), and confirmed
is final.

Model-checked only: `JobsSettle` (liveness).

## 4. Batch anchoring and repair: `PatchOperations`

It extends `PatchLifecycle`: every step of the handlers and workers goes on
beside the steps of operators.

| Module | Code |
|---|---|
| `batches`, `FindPending`, `ClaimRecords`, `BroadcastRoot`, `AnchorRecords`, `BatchDies` | `scripts/batchAnchor.js` (a batch in `Scripts`) and `batchAnchor` of `adminController.js` (in `Admins`, which claims nothing), await by await |
| `roots` | Merkle roots on chain, as the sets of records they cover |
| `repairs`, `FindStuck`, `RevertStuck`, `RequeueStuck`, `RepairDies` | `recover-orphaned-anchors.js`, with and without `--requeue` |
| `RetryFailedJob`, `RequeueFailedJob` | `report-failed.js --retry` and `--requeue` |

A batch takes records that the worker is working on: it finds them pending, and
later writes `anchoring` and `confirmed` by `_id` alone. So `ConfirmedIsFinal`,
`OnChain` and `StateBacked` do not hold any more, and the modules say what still
does: hands change only by a registration or by a signed transfer that continues
the head (`HandedOverByHolder`), the head is the txid of a record of that owner
(`HeadRecorded`), and what is confirmed is on chain by itself or under a root
(`Evidenced`).

* `anchor`: 2 records, a batch script, a batch request and a repair, each of
  which may fail or die anywhere. Two records are a registration and a transfer
  of the same patch, or two registrations; the batch may take both.
* `repair`: the repair scripts and no batch, with requeues and one retry of a
  job by an operator, beside a worker that dies and is started again with the
  stalled job, and beside its failed listener (`RECOVER_FAILED_BROADCASTS`), which
  repairs the same records. A requeued job may confirm what the script found
  stuck: the script compares the status before it writes, and custody is kept
  (`KeepsCustody`).

`PatchExtensionsProofs` proves, for any number of batches and repairs beside any
number of handlers and workers: `OpsTypeCorrect`, `HeadIsRecorded`
(`HeadRecorded`), `ConfirmedHasEvidence` (`Evidenced`), `HolderHandsOver`
(`HandedOverByHolder`), and `RepairsKeepCustody` (`KeepsCustody`) if there are no
batches, which is run `repair`. The invariant `OpsInv` is not that of section 3,
most of which batches break. Its heart is `Fresh`: a transaction is named by no
document and no request before the job that broadcast it confirms its record.
So a head that is left does not come back, and `Signatures` can say: whoever
signed from the transaction on file is the owner on file. A step either is calm
(it names nothing new and moves no head), or broadcasts (`Sends`), or confirms
(`Settles`), and each part of the invariant is shown for these three.

Age limits (`--stuck-mins`) are a choice of any subset of the anchoring records.
The batch script's lock is taken as kept for as long as its process lives
(section 6); the request's lock is in its process, and the two do not know of
each other.

## 5. Merkle paths: `Merkle`

`RootLoop` and `PathLoop` are the loops of `computeMerkleRoot` and
`computeMerklePath`; `proof` is what a verifier makes of the path so far. Run
`merkle` takes every record of every batch of 1 to 9 records, with symbolic
hashes that cannot collide; 9 has an odd level three times on its way.


`MerkleProofs` proves `PathCorrect` (`Spec => []PathLeadsToRoot`) for every list
of every length and every hash function. The invariant says that `level` is the
level of the tree that `Len(path)` turns lead to, that `idx` is a place in it,
and that `proof` is the node at that place; a turn of the loop keeps it because
a node combined with its sibling is its parent (`CombineWithSibling`). No
induction over the tree is needed: the loops are the induction.

## 6. The lease: `TaskLock`

One lock name: `lock` is the Redis key with its token and time to live, `procs`
the processes that want it, `commands` what they have sent and Redis has not
executed. `Execute...` are `SET NX PX` and the two scripts that compare tokens.
Time advances by `Tick`, a second.

`Prompt` processes have timers on time, commands and replies no later than
`Delay`, and miss at most `MissedBeats` heartbeats in a row. For them the lease
is kept while the task runs (`LeaseHeld`), provided two delays and the missed
intervals fit into the lease (`TaskLockAssumption`). The others stall as long as
they like, keep running their task after the lease is over, and send late
commands: none of these touches a lock that is not theirs (`OwnersDecide`), and
whoever dies, the lock is free again (`FreeAgain`).

Run `lock`: one prompt process and one that is not, a lease of 7 s (interval 2,
the smallest the code uses), 3 attempts. `FairSpec` has time go on, Redis
execute what it gets, replies arrive and tasks end.

`TaskLockProofs` proves `TypeCorrect`, `OwnersAlwaysDecide` (`OwnersDecide`) and
`LeaseAlwaysHeld` (`LeaseHeld`) for any number of processes, any lease and any delays, from
`TaskLockAssumption`. The invariant `Types` is the type invariant and one thing
more: a process that waits or runs has a token, so that every command it sends
carries one. A step is then a case analysis: only `ExecuteSet`, `ExecuteDel` and
`Tick` touch the token of the key, and each compares before it does.
`LeaseHeld` needs a history: `Kept` says that since the key was last refreshed
`b` heartbeats were due, that all but the missed ones are still on their way with
the age that their number gives them, and that the time left of the lease is what
these ages leave of it. As no more may be missed than `MissedBeats`, the oldest
one that was sent is executed before the lease is over (`TaskLockAssumption`).
`TokensApart`: tokens of different processes differ, and the command to release
one is sent when its task is over, so nobody else shortens the lease.

What it does not show: a lease is no mutual exclusion of *tasks*. A process that
stalls runs on beside the next holder. `SPLIT_LEASE_MS` may be set to 2 s or
less, and then the lease is over before its first heartbeat.

## 7. The funding outputs: `UtxoPool`

| Module | Code |
|---|---|
| `chain`, `listed` | outputs of the funding address on chain, and those the explorer lists as unspent: `Index` lets it catch up |
| `utxos` | the collection `Utxo`, by status |
| `managers` | a maintenance request between two awaits; `missed` is a history variable: the rows that the explorer's answer misses, because they came between a sync's call and its read of the pool, or because the answer is no list |
| `SyncFetch` ... `SyncConfirm` | `syncUtxos` |
| `SweepFind` ... `SweepSpend` | `sweepDust` and `sweepAddress` |
| `SplitCount` ... `SplitUnlock` | `splitIfNeeded`; its Redis lease may be held by someone else (a skip) and is otherwise not relied on |
| `ScanLocked`, `Reap`, `Revert`, `AddCheck`, `Add` | `reapLocks.js`, `revert-stale-locks.js`, `addUtxo.js` |
| `Stop` | the process dies, or an await outside a `try` throws: the request ends |

Broadcasts are refused, accepted, or accepted with their answer lost. Whether an
output has enough confirmations is seen with delay. Locked rows of any age may
be reaped, since a manager may take any time between two awaits.

* `SpentIsSpent`: no row is marked spent whose output is not, unless the answer
  of the explorer that its manager works with misses the row. That exception is
  real: `syncUtxos` asks the index first and reads the pool second, so it takes a
  row that `addUtxo.js` inserts in between for spent; and an answer that is not a
  list counts as an empty one (`wocClient.js:99`), after which a sync marks every
  available row and a sweep all the dust it found. The next sync adds them again.
* `PoolHeals`: again and again every confirmed unspent output is available, no
  spent one is, and nothing is locked; so also after the two cases above. The
  pool is wrong in between in several ways that the code does not avoid: a sweep
  spends all outputs and marks only the dust, a sync re-adds a row that is locked
  by a split under way, a failed answer unlocks a spent output, the reaper unlocks
  by `_id`. The claim is that the next runs repair all of it. It says nothing of
  unconfirmed outputs: the documents have them wait, and the code does not make
  them (`ConfirmationsAwaited`, section 13).

Run `pool`: one manager, places for 3 outputs, deposits of 3 satoshis, splits
into outputs of 2 with a fee of 1, dust below 3. So a deposit can be split, what
it was split into is dust, and sweeping it makes a third kind of output; every
step of the three phases and of the scripts occurs. `MaxFaults = 1`: one death or
error with something locked or half a sync done, or one answer that is no list. `FairSpec`: the index catches
up, cron runs maintenance and the reaper again and again
(`docs/UTXO_MAINTENANCE.md:80-90`), and a request that began goes on. With two
managers `PoolHeals` does not hold: if every broadcast fails and confirmations
are always counted late, two syncs can go
on for ever resetting the row that the other's split has locked. The endpoint
and the script do not exclude each other, so this is what the code allows, but
only one manager is checked here.

`UtxoPoolProofs` proves `SpentRowsAreSpent` (`SpentIsSpent`) and
`PoolTypeCorrect` (`TypeOK`) for any number of outputs, managers and scripts,
from `PoolAssumption`: what keeps the pool from giving up funds does not depend
on there being one manager. The invariant `PoolInv` is about what the index has
ever listed (`Known`): an output in it is listed still or spent, and only such
outputs get rows. So whatever old answer of the index a manager holds, an
available row that was not in it is of a spent output, unless the answer misses
it (`Fit` at `find`); and what a sweep has found is part of what it consolidates,
or spent already, or missed. `PoolTypeCorrect` adds that amounts stay natural numbers: a sweep
computes its output from a list it checked one await before, and the sum over
that list is still the same (`Amounts`, `SatoshisKept`). That takes the value of
a fold over a set, shown by induction on the size of the set (`SumsUpto`,
`SumsNatural`, `SumsEqual`): the induction theorems of the library are not used,
but that every set of numbers has a least one (`LeastNumber`).

As shipped nothing runs maintenance or anchors by request: `app.js:352-353`
register the two methods of `adminController` unbound, so they fail on `this`,
and `utxo-manager.js` and `sweep-change.js` do not initialize the clients they
call. The modules take the functions as their unit tests call them.

## 8. Logins: `OneTimeSecret`, `SvdAuth`, `EmailVerification`

`OneTimeSecret` is the promise that both logins make: a secret is handed out
before it is used, and at most one use of it opens a session. `SvdAuth` maps
challenges to secrets and presentations of them to uses, `EmailVerification`
codes and submissions; both check `RefinesOneTimeSecret`.

### `SvdAuth`

| Module | Code |
|---|---|
| `registry` | `SvdRegistry`: the key of each user, numbered as registered |
| `challenge`, `replay` | the two caches in Redis, with expiry |
| `ready` | the caches whose client has seen Redis ready (`isReady`) |
| `devices`, `Begin` ... `Answered` | `login()` of `clients/svdSdk.js`, its retries, and callers that post a completion again |
| `calls`, `ReadRegistry`, `AddIfNotExists`, `CheckChallenge`, `RetryDerive`, `IssueToken` | `complete`, split at its four awaits; the KMS is asked up to `KMS_SIGN_RETRY_ATTEMPTS` times |
| `Register`, `CacheReady`, `Restart`, `RedisLoss`, `Tick` | `registerPMC`, an upsert; the surroundings |
| `issued` | history: to whom, when, under which key, and whether Redis lost its data since |

A signature is good when the device signs with the key the server has read.
Challenges are the clock and 16 random bytes, so they are numbered. `complete`
tries to delete the challenge after success (`svdService.js:145`), but the cache
has no `del`; the TypeError is caught. So single use rests on the replay cache
alone, which must outlast the challenge (`SvdAssumption`; its default is twice
the challenge's). `RefusalsJustified` says that no refusal lies: an honest client is
refused only for what it did, or because the replay cache is not connected yet
and refuses everybody. `RetiredKeyOpensNothing`: although `complete` reads the
registry before three more waits, a key replaced before a login began opens no
session with it. That a key is replaced at all is what the code does; the
documents refuse a second registration (`KeyRegisteredOnce`, section 13).

Run `svd`: one user and device, two keys, two challenges, two presentations of
one of them, one restart or loss of Redis. A challenge expires after 1 tick and
a replay entry after 2, within the clock's 3, so entries of both caches expire
while calls hang between two awaits. `FairSpec`: a running request goes on or
fails (drivers and the KMS client have timeouts), answers arrive, and a client
that got a challenge posts it.

`SvdAuthProofs` proves the three safety properties and the refinement for any
number of users, devices, challenges, presentations and crashes and any clock.
None is inductive by itself; `SvdInv` adds why they hold. `Cached`: the cache has
the last challenge of each user, with the time it was issued plus its time to
live, or else all of the user's challenges were lost. `Guarded`: while a call has
passed the replay cache, the entry outlasts the challenge, so a second call gets
past it only when the challenge is late, and then does not find it in the cache
(`GoodIsNotLate`). This is where `ChallengeTTL <= ReplayTTL` is used.
`EntriesHaveCause`: an entry was set by a call that is past it. `KeysGrow`: keys
only grow, and a call reads its key after its challenge was issued. `CallEffect`
says once what each step of `complete` does to its call; the lemmas on the parts
of the invariant rest on it and on `OtherSteps`. `ImplementsOneTimeSecret` maps
`Begin` to `HandOut`, `IssueToken` to `Redeem` and every other step to a stutter.

### `EmailVerification`

One identifier: rows and mails belong to one each. `Request`, `Replace`,
`FindNone`, `Insert`, `SendMail` are `requestVerification`; the upsert is split
because the index on the identifier is not unique, so two requests that both
find no row insert two. `Submit`, `FindAndDelete`, `Compare` are
`submitVerification`; `Take`, `Deliver`, `DeliverFails`, `WorkerDies` the queue
and `emailWorker.js`, whose mails may be sent twice. `Expire` is MongoDB's TTL
monitor, which runs when it likes: a row past its time is accepted until then.

`limits` holds a window for each limiter and key. Keys are not identifiers:
`getNormalizedKey` (`authRateLimiter.js:55-68`) takes `userId` of the body before
`identifier`, and the IP if there is neither, ahead of the validation that drops
unknown fields. So a request counts under any of `Keys`. `Lose` is a Redis that
restarts without its data: all windows are forgotten and the mail jobs are lost.

Both limiters' `skip` looks at the response before the handler has run
(`authRateLimiter.js:98`), so successful submissions count too. `GuessesBounded`
is about what remains if the submit limiter is set too high: a wrong guess costs
the row, so guesses at stored codes are bounded by codes requested, and those by
the request limiter: per key and window, and once more for each loss. There is no
such bound per identifier. `CodeArrives` is liveness: an answer `sent` is kept
unless SMTP fails as often as the job is tried, a worker dies with it once too
often, or Redis loses the job.

Assumed: codes differ, and a request that passed the limiter reaches the
collection before its window ends. Run `email`: 2 codes, 2 submissions, one key,
a request window of 2 ticks and a clock of one, so that the second code is asked
for after a loss of Redis; 2 attempts, one stall, one fault (a worker that dies,
or the loss). That is enough for two rows, for submissions that race for a row,
for one between a row's replacement and its mail, and for a failed job. One key
is what TLC can take together with the mails; `EmailVerification_keys.cfg`, not
among the runs, checks `GuessesBounded` and `RefinesOneTimeSecret` with 2
interchangeable keys and 2 request windows, mails sent by the request itself, on
550,000 states, and the theorems are for any set of keys. `FairSpec`: the worker
process, which systemd starts again, goes on with some job while there are any.
Nothing is assumed of requests and submissions.

`EmailVerificationProofs` proves, for any number of codes and submissions, any
windows and any clock, `EmailTypeCorrect` (`TypeOK`), `GuessesStayBounded`
(`GuessesBounded`) and `CodesAreOneTime` (`RefinesOneTimeSecret`). `Taken`: every
submission that compares took a row of its own, which is gone for good, so
guesses at the codes of a key are no more than these codes. `Windows`, of each
key: `w` windows of the request limiter have ended or were lost, and each let
`RequestMax` codes through, so the codes of a key are no more than the windows
that fit into the time passed and the losses allow. For the refinement, a submission that
got a token has answered the code of the row it took (`Answered`); requests map
to `HandOut`, a good comparison to `Redeem`, every other step to a stutter.

## 9. Claims: `PosClaims`

It extends `PatchLifecycle`: the transfer that an approval makes is a record,
and its job one of the same queue; `links` is `posIntentId` of each job.
`FindIntent`, `ReadHead`, `CreateClaim`, `EnqueueClaim`, `ApproveIntent` are
`claim-approve` between its awaits; `ClaimFollows` has the worker's updates of
the intent as part of the worker's steps.

* `ClaimHonoured`: an intent that `claim-status` shows as confirmed has its
  transfer on chain and confirmed, to that customer, whatever happened before.
* `HandedOverOrClaimed`: `SignedByHolder` cannot hold, since a claim needs no
  signature of the owner. Each confirmed transfer was signed by the holder of
  the link it continues, or claimed by the customer who got it.

What the module shows the code does, and no property forbids: the last save of
an approval overwrites what the worker wrote (`posController.js:143-149`, against
the comment at line 131), so an honoured claim may stay `approved`; two
approvals of one intent both pass and transfer the patch twice, from the owner
and then from the customer to the customer; a conflict at confirmation leaves
the intent `approved`; without `JOBS_ASYNC` nothing ever serves the record. As
shipped, all this is out of reach: the record lacks `issuer_signature` and
`issuer_pubkey`, which `models/AuthenticationRecord.js:29-30` requires, and
every approval ends with 500. `ClaimShapes` has both cases.

Run `pos`: one patch, one intent, two approvals, one owner's request served
inline, a worker, jobs tried once and requeued once. The state constraint
`PosBound` admits one registration of the patch, one transfer of its owner and
one failed job, so that 3 records are the registration and two transfers of
which one or both are claims. Addresses and approvals are symmetric; no liveness
is checked in this run. One attempt per job is enough for what concerns intents:
a requeued job is another attempt, with another txid.

`PatchExtensionsProofs` proves `PosTypeCorrect` (`PosTypeOK`), `ClaimsAreHonoured`
(`ClaimHonoured`) and `HandedOverOnClaim` (`HandedOverOrClaimed`) for any number
of patches, customers, intents, approvals, workers, attempts and requeues. A
claim is a record and a job like any other, so the invariant `ClaimInv` takes
over that of section 3 but for the signatures, which a claim does not have:
`SignedOrClaimed` says of every transfer, whatever its status, that it was made
from a confirmed link and either signed by its owner, unless the patch has moved
on, or claimed by the customer it goes to. `ApprovalsHold` and `JobsLinked` tie
an approval, its record and its job, requeues included, to one intent; `TxHeld`
says that the transaction a job is about to write into the intent carries its
record.

## 10. The API process: `ApiProcess`

`Init` is any environment the process may be started with, `StartupStep` the
steps of `startServer` between its awaits (`ValidateSecrets` ... `Listen`), each
with the step's own way to fail: `Exit`, `Reject` (an error of `startServer`,
which nobody awaits and `unhandledRejection` only logs) or going on. `Arrive`,
`Answer`, `Hangup` are requests on connections that are kept alive; `Signal`,
`ServerClosed`, `CloseClient`, `CloseDb`, `ForceExit` are `shutdown`.

* `ProductionGuarded`: no combination of missing secrets gets production to
  serve. Four of the ten steps only log their errors, so the claim rests on the
  other six, and on their order.
* `StoresOutliveRequests`: `server.close` waits for the connections, and the
  cleanup for it; two signals start two cleanups, and the first must not close
  what the second's requests need. Exit code 0 means that nobody was cut short.
* `ShutdownEnds` rests on the timer of 10 s: `quit()` of the job queue's client
  may wait for Redis for ever.
* `StartupSettles`: if Redis stays up from some time on, start-up ends.
  Without that it need not: `lockManager.initialize` waits through node-redis'
  endless reconnects, though `docs/OPERATIONS.md:61` and `docs/ARCHITECTURE.md:55`
  have production fail fast when Redis is down, and the code at `app.js:94-96`
  goes on without locks if `initialize` fails.

`Unread` fixes the fields of the configuration that only production reads when
not in production. Run `process`: two connections and two signals (SIGTERM and
SIGINT), five attempts of `initDb`, as in the code. Fairness: Node runs the next
step of `startServer` when its await is over, and a timer when it is due;
nothing is assumed of clients, handlers, Redis or `close()`.

Also seen here, and not an error of any property: a start-up that fails after
the database or Redis was opened leaves a process that lives and does not serve
(`rejected`; `app.js:440-448`), and so does one that fails before, if the rate
limiters' own client of Redis (`authRateLimiter.js:11-24`) is connected: it is
opened when the routes are required and never closed. That client has no listener
for errors, so its first connect, if it fails, is its last; then nothing is left to
run and the process exits with 0. `Reject` has both outcomes. A port in use
is an uncaught exception that is logged (`deaf`); the tests for a password in
`REDIS_URL` look for a backslash (`/:\\S+@/`) and never find one, except in the
lock manager, so production needs `REDIS_PASSWORD`; `/ready` does not look at
any of these states.

`ApiProcessProofs` proves `TypeCorrect`, `ProductionIsGuarded` and
`StoresStayOpen` for any number of connections, signals and attempts, from
`ProcessAssumption`. `Checked` says what each step of start-up leaves behind for
the phases after it; `Drained` says that once a cleanup has begun no connection
is left, and none comes, because a closing server accepts requests only on
connections that it has. For `TypeCorrect`, `Retrying`: `initDb` has an attempt
left before it connects.

## 11. What is assumed and what is proved

| Property | TLC | TLAPS |
|---|---|---|
| types of every module | yes | yes (of `PatchOperations`: TLAPS only) |
| `Inductive`, `NoFork`, `SignedByHolder`, `OnChain` | yes | yes |
| `ConfirmedIsFinal`, `KeepsCustody`, `CompletedIsConfirmed` | yes | yes |
| `OneRunPerRecord`, `BroadcastsBounded` | yes | yes, under `OneListener` |
| `HeadRecorded`, `Evidenced`, `HandedOverByHolder` | yes | yes |
| `KeepsCustody` of `PatchOperations` | run `repair` | yes, without batches |
| `ClaimHonoured`, `HandedOverOrClaimed` | yes | yes |
| `PathLeadsToRoot`, `OwnersDecide`, `LeaseHeld` | yes | yes |
| `SpentIsSpent` | yes | yes |
| `RefusalsJustified`, `RetiredKeyOpensNothing`, `RefinesOneTimeSecret` of `SvdAuth` | yes | yes |
| `GuessesBounded`, `RefinesOneTimeSecret` of `EmailVerification` | yes | yes |
| `ProductionGuarded`, `StoresOutliveRequests` | yes | yes |
| liveness: `JobsSettle`, `FreeAgain`, `PoolHeals`, `LoginEnds`, `CodeArrives`, `ShutdownEnds`, `StartupSettles` | yes | out of reach |

The proofs assume the types of the constants and what the `...Assumption` of a
module says, which TLC evaluates in the module's run, and where the table says
so a condition that is a hypothesis of the theorem. Fairness and `ENABLED` are
outside what the installed provers do, so liveness stays with TLC and the bounds
of its runs. Induction over data is needed once, for sums of amounts (section 7).

## 12. Mutants

Each property of a passing run is broken by a change to the code it is about:
dropping the condition on `current_txid` (`StateExists`), letting any key sign
(`AuthorizeAnyone`), leaving out one of two writes (`ConfirmWithoutTxid`), the
idempotent answer (`MarkConfirmedAgain`), the status filter of an update
(`ChangeAnyStatus`, `RevertedAnyway`), the error of a conflict
(`MarkConfirmedQuietly`, `MarkConfirmedWaits`), the counter of requeues
(`RequeueUncounted`) or their being one (`RequeueAgain`); a batch that ignores
the result of its broadcast or writes too much (`BroadcastRootBlindly`,
`AnchorWithTxid`, `AnchorWithState`); an off-by-one in the tree (`NextNode`); a
key without expiry, a short extension and an unconditional release
(`ExecuteSetForever`, `ExecuteExtendShort`, `ExecuteDelAnyway`); a sync that
reads rows of every status, a sweep that ignores its failure, a split without
its cap (`AllRows`, `SweepBroadcastOrNot`, `SplitCountAll`); a replay entry
without NX, a challenge that is over too early, a signature that is not checked,
a retry too many, an error that never reaches the caller (`AddAlways`,
`ActiveShorter`, `VerdictUnsigned`, `RetryDeriveOnceMore`, `CallHangs`); a code
that is read and deleted in two steps or not at all, a mail given up
(`FindOnly`, `FindAndKeep`, `AfterFailureGivenUp`, `AfterFailureLate`); a claim
confirmed too early, made to the wrong owner or without its link (`ClaimLeads`,
`ClaimToHolder`, `LinkLost`); an error swallowed at start-up, retries without
end, a cleanup that does not wait, a timer set too late (`InitCachesAnyway`,
`InitDbForever`, `InitDbOnceMore`, `ServerClosedAtOnce`, `ForceExitLater`).

## 13. Where code and documents disagree

Run `shipped` (`PollingEnds`): `broadcastWorker.js:74` and `:109` call functions
that `blockchainService.js:227-240` does not export. Every attempt is a TypeError
ahead of every `mark...Failed` and `mark...Confirmed`, so a queued record stays
pending, and the polling of `docs/API.md:25-31` and of the e2e test (`:31-55`)
ends with a timeout, never with `confirmed` or `failed`.

Six more counterexamples have a `.cfg` here. They are kept out of the list of
runs, and show with `tlc -config <cfg> <module>`, the module being
`PatchLifecycleMC`, `PatchOperationsMC`, `UtxoPoolMC` or `SvdAuthMC`:

| Configuration | Property violated | What the source does |
|---|---|---|
| `Lifecycle_reregister.cfg` | `RegisteredOnce` | `openapi.yaml:402-403` answers a second registration with 409; the code confirms it and hands the patch to its owner. |
| `Lifecycle_verify_transfer.cfg` | `VerifiesAuthentic` | A transfer overwrites `auth.ts` under the issuer's old signature; the patch then verifies as compromised, which the e2e test (`:142`) does not expect. |
| `Lifecycle_retry_conflict.cfg` | `BroadcastUpdatesState` | `docs/ARCHITECTURE.md:42` has the state updated when a broadcast succeeds. The handler marks the record failed after a rejected attempt, and its retry broadcasts and can no longer confirm. The worker would do so if the functions it calls were there; as shipped nothing is broadcast. |
| `Operations_unregistered.cfg` | `ConfirmedVerifies` | A batch confirms a registration without `PatchState`; the worker takes it for done, and the patch cannot be verified (e2e test, `:94-102`). |
| `UtxoPool_early.cfg` | `ConfirmationsAwaited` | A new output below `UTXO_MIN_CONFIRMATIONS` becomes an `unconfirmed` row, and the next sync makes it available whatever its confirmations (`utxoManagerService.js:126`, `:144-148`). `docs/UTXO_MAINTENANCE.md:22-23`, `README.md:599` and `docs/CONFIGURATION.md:43` have it wait. (`README.md:599` also gives the default as 0; the code's is 1, `:25`.) |
| `SvdAuth_register.cfg` | `KeyRegisteredOnce` | A second `POST /api/svd/register` of a user replaces the key and answers 201 (`svdService.js:84`). `docs/API.md:58`, `:122` and the comment at `routes/svdAuth.js:22` have 409. With the 409 of the documents `RetiredKeyOpensNothing` would have no case; with the code it has. |

Met while modelling, without a configuration of its own: `patch_location` is
signed and then dropped by the document schema, so such a certificate never
verifies (`models/AuthenticationRecord.js:17`); the loser of two transfers from
one link stays pending after its job failed (`broadcastWorker.js:94`); the batch
script never reverts its claims, since `withLockHeartbeat` swallows the error
(`batchAnchor.js:138`), and overwrites records that were confirmed meanwhile
(`:94`); a batch can confirm both of two transfers from one link; the SVD client
says it retries on `SVD_EXPIRED` and `SVD_REPLAYED` (`svdSdk.js:2-3`) but reads
`errorData.code`, which the routes never send; `docs/CONFIGURATION.md:84` and the
comment at `authRateLimiter.js:72` have the limits per identifier, and the key is
`userId` first (section 8); and what sections 9 and 10 list.

## 14. Not modelled

See `components` in `PROJECT.json` for each part and the reason. Transaction
building, hashing and signatures are functions over byte strings that TLC cannot
enumerate. The retries of the signer and explorer clients leave their callers
with three outcomes (refused, done, done with the answer lost), and the modules
have those; a module of the loops themselves would say nothing more. The
non-atomic fallback of `withTransaction` gives up the guarantees by its own log
message. Logging, metrics, validation of requests, the Settings cache, privacy
stubs, the front end and deployment keep no state that a property could be
about. Deadlock checking is off in the runs whose supply of records, jobs,
tokens, transactions, challenges or signals is bounded: the program goes idle,
or has exited, when it is used up.
