--------------------------- MODULE PatchLifecycle ---------------------------
(***************************************************************************)
(* Registration and ownership transfer of patches: the HTTP handlers       *)
(* (controllers/patchController.js), the record state machine in MongoDB   *)
(* (services/databaseService.js, models/AuthenticationRecord.js and        *)
(* models/PatchState.js), the BullMQ queue `broadcast' (services/          *)
(* jobService.js) and the worker that drains it                            *)
(* (workers/broadcastWorker.js).                                           *)
(*                                                                         *)
(* A step is what happens between two awaits.  The database, the queue and *)
(* the chain are three stores that no transaction spans.                   *)
(***************************************************************************)
EXTENDS Naturals, Sequences, FiniteSets

CONSTANTS
    Uids,               \* patches (uid_tag_id)
    Addresses,          \* owners' addresses
    NoAddress,          \* no address (null)
    Handlers,           \* requests the API serves at a time
    Workers,            \* processes running workers/broadcastWorker.js
    AsyncHandlers,      \* those of them in a process with JOBS_ASYNC
    AutoRecover,        \* RECOVER_FAILED_BROADCASTS
    MaxRequeues,        \* RECOVER_MAX_REQUEUES
    MaxAttempts,        \* `attempts' of a job
    MaxStalls,          \* BullMQ's maxStalledCount
    BroadcastOutcomes,  \* how a broadcast may end: success, failure, throw
    DbFaults,           \* may an update of the database fail?
    Crashes,            \* may a process die between two awaits?
    MetaShapes,         \* may metadata lose a field to the schema? (FALSE: it does)
    MaxRecords, MaxJobs, MaxTxs   \* bounds of the model

ASSUME LifecycleAssumption ==
    /\ NoAddress \notin Addresses
    /\ AsyncHandlers \subseteq Handlers
    /\ {AutoRecover, DbFaults, Crashes} \subseteq BOOLEAN
    /\ MetaShapes \subseteq BOOLEAN
    /\ {MaxRequeues, MaxAttempts, MaxStalls, MaxRecords, MaxJobs, MaxTxs} \subseteq Nat
    /\ MaxAttempts > 0
    /\ BroadcastOutcomes \subseteq {"success", "failure", "throw"}
    /\ IsFiniteSet(Workers)

VARIABLES
    records,       \* AuthenticationRecord, in order of creation
    patchStates,   \* PatchState, by uid_tag_id
    requests,      \* what each handler holds between two awaits
    jobs,          \* the executions: BullMQ jobs, or inline in the request
    chain,         \* the record carried by each transaction on chain
    failedEvents,  \* `failed' events not yet handled, per worker process
    reverted       \* recoveries between revertPending and queue.add

vars == <<records, patchStates, requests, jobs, chain, failedEvents, reverted>>

-----------------------------------------------------------------------------
(* Documents and local state *)

NoTx == 0       \* txid not set
NoRecord == 0

\* record_data keeps the issuer's signature over (metadata, ts): signedTs and
\* metaKept tell whether what is stored is still what was signed.  `signer'
\* stands for current_owner_pubkey, checked by the handler but not stored.
Record ==
    [status : {"pending", "confirmed", "failed", "anchoring"},
     type : {"REGISTRATION", "TRANSFER"},
     uid : Uids, owner : Addresses, signer : Addresses \cup {NoAddress},
     previous_txid : Nat, txid : Nat,
     ts : Nat, signedTs : Nat, metaKept : BOOLEAN]

PatchState == [current_txid : Nat, current_owner_address : Addresses \cup {NoAddress}]

\* A patch without a PatchState document.
Unregistered == [current_txid |-> NoTx, current_owner_address |-> NoAddress]

Request ==
    [step : {"idle", "authorized", "created"},
     record : Nat,      \* the record read (authorized) or created
     txid : Nat,        \* currentTxid
     signer : Addresses \cup {NoAddress}, newOwner : Addresses \cup {NoAddress}]

IdleRequest == [step |-> "idle", record |-> NoRecord, txid |-> NoTx,
                signer |-> NoAddress, newOwner |-> NoAddress]

\* Where the worker's handler stands between two awaits.
Running == {"broadcast", "reject", "confirm", "throw", "return"}

Job ==
    [record : Nat, queued : BOOLEAN,
     stage : Running \cup {"waiting", "completed", "failed"},
     txid : Nat, attemptsMade : Nat, stalls : Nat, recoverCount : Nat]

NewJob(r, recoverCount) ==
    [record |-> r, queued |-> TRUE, stage |-> "waiting", txid |-> NoTx,
     attemptsMade |-> 0, stalls |-> 0, recoverCount |-> recoverCount]

RecordIds == DOMAIN records
JobIds == DOMAIN jobs
Confirmed == {r \in RecordIds : records[r].status = "confirmed"}

TypeOK ==
    /\ records \in Seq(Record)
    /\ patchStates \in [Uids -> PatchState]
    /\ requests \in [Handlers -> Request]
    /\ jobs \in Seq(Job)
    /\ chain \in Seq(Nat)
    /\ failedEvents \subseteq Workers \X JobIds
    /\ reverted \subseteq Workers \X JobIds

Init ==
    /\ records = <<>>
    /\ patchStates = [u \in Uids |-> Unregistered]
    /\ requests = [h \in Handlers |-> IdleRequest]
    /\ jobs = <<>>
    /\ chain = <<>>
    /\ failedEvents = {}
    /\ reverted = {}

-----------------------------------------------------------------------------
(* The HTTP handlers *)

\* AuthenticationRecord.create, by createPendingRegistration and
\* createPendingTransfer: the handler goes on with the new record's id.
CreatePending(h, doc) ==
    /\ Len(records) < MaxRecords
    /\ records' = Append(records, doc)
    /\ requests' = [requests EXCEPT ![h] =
                       [IdleRequest EXCEPT !.step = "created", !.record = Len(records) + 1]]
    /\ UNCHANGED <<patchStates, jobs, chain, failedEvents, reverted>>

\* The record of a registration: the issuer signs the metadata as sent and the
\* moment of the request.
Registration(u, owner, kept, now) ==
    [status |-> "pending", type |-> "REGISTRATION", uid |-> u,
     owner |-> owner, signer |-> NoAddress, previous_txid |-> NoTx, txid |-> NoTx,
     ts |-> now, signedTs |-> now, metaKept |-> kept]

\* POST /v1/patches, up to the creation of the pending record.
RegisterPatch(h) ==
    \E u \in Uids, owner \in Addresses, kept \in MetaShapes :
        /\ requests[h].step = "idle"
        /\ CreatePending(h, Registration(u, owner, kept, Len(records) + 1))

\* Mutant of AuthorizeTransfer: any key that signs will do.
AuthorizeAnyone(h) ==
    \E r \in Confirmed, signer \in Addresses, newOwner \in Addresses :
        /\ requests[h].step = "idle"
        /\ Len(records) < MaxRecords
        /\ records[r].txid # NoTx
        /\ requests' = [requests EXCEPT ![h] =
                           [step |-> "authorized", record |-> r, txid |-> records[r].txid,
                            signer |-> signer, newOwner |-> newOwner]]
        /\ UNCHANGED <<records, patchStates, jobs, chain, failedEvents, reverted>>

\* POST /v1/patches/:txid/transfer-ownership, up to the last check: the
\* caller names any confirmed record of a patch, the current one or an older
\* one (getRecordByTxid), and must be the owner PatchState has on file; any
\* other request ends with 403 or 404 and no effect.  A confirmed record stays
\* confirmed, so the two reads count as one step.
AuthorizeTransfer(h) ==
    \E r \in Confirmed, signer \in Addresses, newOwner \in Addresses :
        /\ requests[h].step = "idle"
        /\ Len(records) < MaxRecords
        /\ records[r].txid # NoTx
        /\ signer = patchStates[records[r].uid].current_owner_address
        /\ requests' = [requests EXCEPT ![h] =
                           [step |-> "authorized", record |-> r, txid |-> records[r].txid,
                            signer |-> signer, newOwner |-> newOwner]]
        /\ UNCHANGED <<records, patchStates, jobs, chain, failedEvents, reverted>>

\* The record of a transfer: a copy of the record it is made from, with a new
\* owner and a new ts under the issuer's old signature.
TransferOf(source, req, now) ==
    [source EXCEPT !.status = "pending", !.type = "TRANSFER",
                   !.owner = req.newOwner, !.signer = req.signer,
                   !.previous_txid = req.txid, !.txid = NoTx, !.ts = now]

\* createPendingTransfer.
CreateTransfer(h) ==
    LET req == requests[h] IN
    /\ req.step = "authorized"
    /\ CreatePending(h, TransferOf(records[req.record], req, Len(records) + 1))

\* jobService.addBroadcastJob or addTransferJob, then 202.  attachJobToPending
\* writes job_id, which nothing reads, and is left out.
Enqueue(h) ==
    /\ h \in AsyncHandlers
    /\ requests[h].step = "created"
    /\ Len(jobs) < MaxJobs
    /\ jobs' = Append(jobs, NewJob(requests[h].record, 0))
    /\ requests' = [requests EXCEPT ![h] = IdleRequest]
    /\ UNCHANGED <<records, patchStates, chain, failedEvents, reverted>>

\* Without JOBS_ASYNC the handler broadcasts and confirms before it answers.
RunInline(h) ==
    /\ h \notin AsyncHandlers
    /\ requests[h].step = "created"
    /\ Len(jobs) < MaxJobs
    /\ jobs' = Append(jobs, [NewJob(requests[h].record, 0) EXCEPT
                                !.queued = FALSE, !.stage = "broadcast"])
    /\ requests' = [requests EXCEPT ![h] = IdleRequest]
    /\ UNCHANGED <<records, patchStates, chain, failedEvents, reverted>>

\* The API process dies, or queue.add fails and the request ends with 500:
\* the pending record stays, and no job will ever serve it.
AbandonRequest(h) ==
    /\ Crashes
    /\ requests[h].step = "created"
    /\ requests' = [requests EXCEPT ![h] = IdleRequest]
    /\ UNCHANGED <<records, patchStates, jobs, chain, failedEvents, reverted>>

-----------------------------------------------------------------------------
(* The worker *)

InStage(j, stage) == jobs[j].stage = stage

MoveTo(j, stage) == jobs' = [jobs EXCEPT ![j].stage = stage]

\* BullMQ runs one job at a time in each worker process.
FreeWorker ==
    Cardinality({j \in JobIds : jobs[j].queued /\ jobs[j].stage \in Running})
        < Cardinality(Workers)

TakeJob(j) ==
    /\ InStage(j, "waiting")
    /\ FreeWorker
    /\ MoveTo(j, "broadcast")
    /\ UNCHANGED <<records, patchStates, requests, chain, failedEvents, reverted>>

\* The handler holds the txid of its broadcast until the record is confirmed.
Holding(job, txid) == [job EXCEPT !.stage = "confirm", !.txid = txid]

\* constructAndBroadcastTx and constructAndBroadcastTransferTx, through which
\* src/ reaches the chain: a result with success, one without, or a throw.
\* Each broadcast builds a transaction of its own.
Broadcast(j) ==
    /\ InStage(j, "broadcast")
    /\ \/ /\ "success" \in BroadcastOutcomes
          /\ Len(chain) < MaxTxs
          /\ chain' = Append(chain, jobs[j].record)
          /\ jobs' = [jobs EXCEPT ![j] = Holding(@, Len(chain) + 1)]
       \/ /\ "failure" \in BroadcastOutcomes
          /\ MoveTo(j, "reject")
          /\ UNCHANGED chain
       \/ /\ "throw" \in BroadcastOutcomes
          /\ MoveTo(j, "throw")
          /\ UNCHANGED chain
    /\ UNCHANGED <<records, patchStates, requests, failedEvents, reverted>>

\* Mutant of ChangeStatus: updateOne({_id: r}), whatever the status was.
ChangeAnyStatus(r, from, to) == records' = [records EXCEPT ![r].status = to]

\* updateOne({_id: r, status: from}, {$set: {status: to}}).
ChangeStatus(r, from, to) ==
    records' = IF records[r].status = from THEN [records EXCEPT ![r].status = to]
               ELSE records

\* markFailed, then the handler throws.
MarkFailed(j) ==
    /\ InStage(j, "reject")
    /\ \/ ChangeStatus(jobs[j].record, "pending", "failed")
       \/ DbFaults /\ UNCHANGED records          \* caught and logged
    /\ MoveTo(j, "throw")
    /\ UNCHANGED <<patchStates, requests, chain, failedEvents, reverted>>

\* Mutant of Confirm: the record does not get its txid.
ConfirmWithoutTxid(r, txid) ==
    /\ patchStates' = [patchStates EXCEPT ![records[r].uid] =
                          [current_txid |-> txid,
                           current_owner_address |-> records[r].owner]]
    /\ records' = [records EXCEPT ![r].status = "confirmed"]

\* The two writes of the transaction in markConfirmed.
Confirm(r, txid) ==
    /\ patchStates' = [patchStates EXCEPT ![records[r].uid] =
                          [current_txid |-> txid,
                           current_owner_address |-> records[r].owner]]
    /\ records' = [records EXCEPT ![r].status = "confirmed", ![r].txid = txid]

\* Mutant of StateMatches: findOne({uid_tag_id}), without current_txid.
StateExists(r) ==
    \/ records[r].type = "REGISTRATION"
    \/ patchStates[records[r].uid] # Unregistered

\* A transfer confirms only against the state it was made from.
StateMatches(r) ==
    \/ records[r].type = "REGISTRATION"
    \/ patchStates[records[r].uid].current_txid = records[r].previous_txid

\* Mutants of MarkConfirmed: without its idempotent answer; with a conflict
\* that is logged and forgotten; with a conflict that is waited out.
MarkConfirmedAgain(j) ==
    LET r == jobs[j].record IN
    /\ InStage(j, "confirm")
    /\ \/ /\ records[r].status \in {"pending", "confirmed"}
          /\ StateMatches(r)
          /\ Confirm(r, jobs[j].txid)
          /\ MoveTo(j, "return")
       \/ /\ records[r].status \in {"failed", "anchoring"} \/ ~StateMatches(r)
          /\ MoveTo(j, "throw")
          /\ UNCHANGED <<records, patchStates>>
    /\ UNCHANGED <<requests, chain, failedEvents, reverted>>
MarkConfirmedQuietly(j) ==
    LET r == jobs[j].record IN
    /\ InStage(j, "confirm")
    /\ MoveTo(j, "return")
    /\ IF records[r].status = "pending" /\ StateMatches(r)
       THEN Confirm(r, jobs[j].txid)
       ELSE UNCHANGED <<records, patchStates>>
    /\ UNCHANGED <<requests, chain, failedEvents, reverted>>

MarkConfirmedWaits(j) ==
    LET r == jobs[j].record IN
    /\ InStage(j, "confirm")
    /\ \/ /\ records[r].status = "confirmed"
          /\ MoveTo(j, "return")
          /\ UNCHANGED <<records, patchStates>>
       \/ /\ records[r].status = "pending"
          /\ StateMatches(r)
          /\ Confirm(r, jobs[j].txid)
          /\ MoveTo(j, "return")
    /\ UNCHANGED <<requests, chain, failedEvents, reverted>>

MarkConfirmed(j) ==
    LET r == jobs[j].record IN
    /\ InStage(j, "confirm")
    /\ \/ /\ records[r].status = "confirmed"          \* idempotent
          /\ MoveTo(j, "return")
          /\ UNCHANGED <<records, patchStates>>
       \/ /\ records[r].status = "pending"
          /\ StateMatches(r)
          /\ Confirm(r, jobs[j].txid)
          /\ MoveTo(j, "return")
       \/ /\ \/ records[r].status \in {"failed", "anchoring"}   \* ConflictError
             \/ records[r].status = "pending" /\ ~StateMatches(r)
             \/ DbFaults                              \* the transaction aborts
          /\ MoveTo(j, "throw")
          /\ UNCHANGED <<records, patchStates>>
    /\ UNCHANGED <<requests, chain, failedEvents, reverted>>

JobReturns(j) ==
    /\ InStage(j, "return")
    /\ MoveTo(j, "completed")
    /\ UNCHANGED <<records, patchStates, requests, chain, failedEvents, reverted>>

-----------------------------------------------------------------------------
(* BullMQ's retries and the recovery of failed jobs *)

\* What an attempt had in memory is lost with it.
AttemptMade(job, stage) ==
    [job EXCEPT !.stage = stage, !.txid = NoTx, !.attemptsMade = @ + 1]
Stalled(job) == [job EXCEPT !.stage = "waiting", !.txid = NoTx, !.stalls = @ + 1]

\* Every worker process hears of a job that failed for good, and goes on
\* unless recovery is off or the job was requeued often enough.
Recoverers(j) ==
    IF jobs[j].queued /\ AutoRecover /\ jobs[j].recoverCount < MaxRequeues
    THEN Workers ELSE {}

\* The job fails for good.
GiveUp(j) ==
    /\ jobs' = [jobs EXCEPT ![j] = AttemptMade(@, "failed")]
    /\ failedEvents' = failedEvents \cup (Recoverers(j) \X {j})

\* The handler threw: the job is delayed for another attempt while it has one.
\* A request that runs inline has no second attempt.
JobThrows(j) ==
    /\ InStage(j, "throw")
    /\ IF jobs[j].queued /\ jobs[j].attemptsMade + 1 < MaxAttempts
       THEN /\ jobs' = [jobs EXCEPT ![j] = AttemptMade(@, "waiting")]
            /\ UNCHANGED failedEvents
       ELSE GiveUp(j)
    /\ UNCHANGED <<records, patchStates, requests, chain, reverted>>

\* The process running the job dies between two awaits.  BullMQ finds the
\* job stalled and queues it again, up to MaxStalls times.
JobStalls(j) ==
    /\ Crashes
    /\ jobs[j].stage \in Running
    /\ IF jobs[j].queued /\ jobs[j].stalls < MaxStalls
       THEN /\ jobs' = [jobs EXCEPT ![j] = Stalled(@)]
            /\ UNCHANGED failedEvents
       ELSE GiveUp(j)
    /\ UNCHANGED <<records, patchStates, requests, chain, reverted>>

\* The `failed' listener, first await: revertPending.
RevertFailed(w, j) ==
    /\ <<w, j>> \in failedEvents
    /\ failedEvents' = failedEvents \ {<<w, j>>}
    /\ reverted' = reverted \cup {<<w, j>>}
    /\ ChangeStatus(jobs[j].record, "failed", "pending")
    /\ UNCHANGED <<patchStates, requests, jobs, chain>>

\* Mutants of RequeueFailed: queue.add is called again after an answer that was
\* lost; recoverCount is passed on as it was.
RequeueAgain(w, j) ==
    /\ <<w, j>> \in reverted
    /\ Len(jobs) < MaxJobs
    /\ jobs' = Append(jobs, NewJob(jobs[j].record, jobs[j].recoverCount + 1))
    /\ UNCHANGED <<records, patchStates, requests, chain, failedEvents, reverted>>
RequeueUncounted(w, j) ==
    /\ <<w, j>> \in reverted
    /\ Len(jobs) < MaxJobs
    /\ reverted' = reverted \ {<<w, j>>}
    /\ jobs' = Append(jobs, NewJob(jobs[j].record, jobs[j].recoverCount))
    /\ UNCHANGED <<records, patchStates, requests, chain, failedEvents>>

\* Second await: queue.add with recoverCount + 1.
RequeueFailed(w, j) ==
    /\ <<w, j>> \in reverted
    /\ Len(jobs) < MaxJobs
    /\ reverted' = reverted \ {<<w, j>>}
    /\ jobs' = Append(jobs, NewJob(jobs[j].record, jobs[j].recoverCount + 1))
    /\ UNCHANGED <<records, patchStates, requests, chain, failedEvents>>

\* A listener's process dies, before or after the first await.
ListenerDies(w, j) ==
    /\ Crashes
    /\ <<w, j>> \in failedEvents \cup reverted
    /\ failedEvents' = failedEvents \ {<<w, j>>}
    /\ reverted' = reverted \ {<<w, j>>}
    /\ UNCHANGED <<records, patchStates, requests, jobs, chain>>

-----------------------------------------------------------------------------
HandlerStep(h) ==
    \/ RegisterPatch(h) \/ AuthorizeTransfer(h) \/ CreateTransfer(h)
    \/ Enqueue(h) \/ RunInline(h) \/ AbandonRequest(h)

JobRuns(j) ==
    \/ TakeJob(j) \/ Broadcast(j) \/ MarkFailed(j) \/ MarkConfirmed(j)
    \/ JobReturns(j) \/ JobThrows(j)

Recovery(w, j) == RevertFailed(w, j) \/ RequeueFailed(w, j) \/ ListenerDies(w, j)

Next ==
    \/ \E h \in Handlers : HandlerStep(h)
    \/ \E j \in JobIds : JobRuns(j) \/ JobStalls(j)
    \/ \E w \in Workers, j \in JobIds : Recovery(w, j)

Spec == Init /\ [][Next]_vars

\* BullMQ keeps running the jobs it holds as long as a worker process is up,
\* and a process that died is started again.
FairSpec ==
    /\ Spec
    /\ \A j \in 1..MaxJobs : WF_vars(j \in JobIds /\ JobRuns(j))

-----------------------------------------------------------------------------
(* Safety *)

\* verifyPatch never answers `State found but record is missing': the state of
\* a patch names a confirmed record of that patch, and the owner it gives is
\* that record's owner (patchController.js:158-165).
StateBacked ==
    \A u \in Uids :
        patchStates[u] # Unregistered =>
            \E r \in Confirmed :
                /\ records[r].txid = patchStates[u].current_txid
                /\ records[r].uid = u
                /\ records[r].owner = patchStates[u].current_owner_address

\* Of all transfers made from one transaction, however many requests, jobs,
\* retries and recoveries race, at most one is ever confirmed
\* (databaseService.js:75-78).
NoFork ==
    \A r, q \in Confirmed :
        /\ records[r].type = "TRANSFER" /\ records[q].type = "TRANSFER"
        /\ records[r].previous_txid = records[q].previous_txid
        => r = q

\* A confirmed transfer was signed by the owner at the link it continues,
\* though the owner was checked when the request came in and the transfer took
\* effect long after; the link is of the same patch and older on chain
\* (patchController.js:212-233).
SignedByHolder ==
    \A r \in Confirmed :
        records[r].type = "TRANSFER" =>
            \E q \in Confirmed :
                /\ records[q].txid = records[r].previous_txid
                /\ records[q].uid = records[r].uid
                /\ records[q].owner = records[r].signer
                /\ records[q].txid < records[r].txid

\* The txid of a confirmed record is that of a transaction that carries this
\* very record, whichever attempt of whichever job broadcast it.
OnChain ==
    \A r \in Confirmed :
        /\ records[r].txid \in DOMAIN chain
        /\ chain[records[r].txid] = r

\* A job that BullMQ reports completed left its record confirmed.
CompletedIsConfirmed ==
    \A j \in JobIds : InStage(j, "completed") => jobs[j].record \in Confirmed

\* Work left for record r: a job, or a recovery that will add one.
Unfinished(j) == jobs[j].stage \in Running \cup {"waiting"}

\* With one worker process listening, retries, stalls and recoveries never
\* leave two runs of a record side by side.
OneRunPerRecord ==
    \A j, k \in JobIds :
        Unfinished(j) /\ Unfinished(k) /\ jobs[j].record = jobs[k].record => j = k

\* `Guard against infinite loops': with one worker process listening, no record
\* is broadcast more often than the attempts and stalls of its first job and of
\* its requeues allow (broadcastWorker.js:45-50).
BroadcastsBounded ==
    \A r \in RecordIds :
        Cardinality({t \in DOMAIN chain : chain[t] = r})
            <= (1 + MaxRequeues) * (MaxAttempts + MaxStalls)

-----------------------------------------------------------------------------
(* Why custody holds: what every step keeps true of the records, the requests *)
(* and the jobs while they wait for each other                                *)

References ==
    /\ \A j \in JobIds : jobs[j].record \in RecordIds
    /\ \A h \in Handlers : requests[h].step = "created" => requests[h].record \in RecordIds
    /\ \A t \in DOMAIN chain : chain[t] \in RecordIds
    /\ Len(chain) <= MaxTxs

\* What a job is about to confirm, it has broadcast itself.
BroadcastHeld ==
    \A j \in JobIds :
        InStage(j, "confirm") =>
            jobs[j].txid \in DOMAIN chain /\ chain[jobs[j].txid] = jobs[j].record

\* The signer owned link q, or the patch has moved on from q.
HeldAt(q, signer) ==
    \/ signer = records[q].owner
    \/ patchStates[records[q].uid].current_txid # records[q].txid

AuthorizedRequests ==
    \A h \in Handlers :
        requests[h].step = "authorized" =>
            /\ requests[h].record \in Confirmed
            /\ requests[h].txid = records[requests[h].record].txid
            /\ requests[h].newOwner \in Addresses
            /\ HeldAt(requests[h].record, requests[h].signer)

\* Link q is the one that transfer r was made from.
MadeFrom(r, q) ==
    /\ records[q].txid = records[r].previous_txid
    /\ records[q].uid = records[r].uid
    /\ \A t \in DOMAIN chain : chain[t] = r => records[q].txid < t

\* Any transfer, whatever its status, was made from a confirmed link and
\* signed by its owner, unless the patch has moved on since.
AuthorizedTransfers ==
    \A r \in RecordIds :
        records[r].type = "TRANSFER" =>
            \E q \in Confirmed : MadeFrom(r, q) /\ HeldAt(q, records[r].signer)

\* A registration continues no link, and no owner signs it.
Issued ==
    \A r \in RecordIds :
        records[r].type = "REGISTRATION" =>
            records[r].previous_txid = NoTx /\ records[r].signer = NoAddress

\* A patch never returns to a transaction that a transfer has left.
Spent ==
    \A r \in Confirmed :
        records[r].type = "TRANSFER" =>
            patchStates[records[r].uid].current_txid # records[r].previous_txid

Inductive ==
    /\ TypeOK /\ References /\ BroadcastHeld /\ AuthorizedRequests
    /\ AuthorizedTransfers /\ Issued /\ Spent
    /\ OnChain /\ StateBacked /\ NoFork /\ SignedByHolder

-----------------------------------------------------------------------------
(* What steps may do *)

\* A confirmed record is never touched again: not by a late markFailed, not by
\* a second confirmation with another txid, not by a recovery.
ConfirmedIsFinal ==
    [][\A r \in Confirmed : records'[r] = records[r]]_vars

-----------------------------------------------------------------------------
(* Liveness *)

\* Every job comes to an end: its attempts and stalls are finite.
JobsSettle ==
    \A j \in 1..MaxJobs :
        (j \in JobIds) ~> (j \in JobIds /\ jobs[j].stage \in {"completed", "failed"})

-----------------------------------------------------------------------------
(* The chain of custody *)

\* The links: confirmed records, as they stand in the database.
Links ==
    {[uid |-> records[r].uid, txid |-> records[r].txid,
      prev |-> records[r].previous_txid,
      owner |-> records[r].owner, by |-> records[r].signer] : r \in Confirmed}

Heads ==
    [u \in Uids |-> [txid |-> patchStates[u].current_txid,
                     owner |-> patchStates[u].current_owner_address]]

C == INSTANCE Custody WITH Txids <- 1..MaxTxs, head <- Heads, ledger <- Links

\* The program keeps a chain of custody: a patch changes hands only by a link
\* that continues its last one and that the last owner signed, whatever races,
\* retries and crashes come between the signature and the confirmation.
KeepsCustody == C!CustodySpec

-----------------------------------------------------------------------------
(* What documents and tests of the repository say, and the code does not do *)

\* openapi.yaml:402-403 answers a second registration of a patch with 409, `A
\* patch with this uid_tag_id already exists.'
RegisteredOnce ==
    \A r, q \in Confirmed :
        /\ records[r].type = "REGISTRATION" /\ records[q].type = "REGISTRATION"
        /\ records[r].uid = records[q].uid
        => r = q

\* verifyPatch: the issuer's signature is checked against the metadata and ts
\* of the record that PatchState names.
VerifyPatch(u) ==
    LET found == {r \in Confirmed : records[r].txid = patchStates[u].current_txid} IN
    IF patchStates[u] = Unregistered THEN "not_found"
    ELSE IF found = {} THEN "error"
    ELSE IF \E r \in found : records[r].ts = records[r].signedTs /\ records[r].metaKept
         THEN "authentic" ELSE "compromised"

\* tests/e2e/patches.e2e.spec.js:105 and 142 expect issuerSignatureValid of
\* a patch after its registration and after its transfer.
VerifiesAuthentic == \A u \in Uids : VerifyPatch(u) # "compromised"

\* docs/ARCHITECTURE.md:42, `Broadcast via WOC; on success, DB state updated':
\* when nothing is left to be done for a record that is on chain, the database
\* says so.
BroadcastUpdatesState ==
    \A t \in DOMAIN chain :
        \/ chain[t] \in Confirmed
        \/ \E j \in JobIds : jobs[j].record = chain[t] /\ Unfinished(j)

\* tests/e2e/patches.e2e.spec.js:43 and 55 poll a queued registration or
\* transfer until it is `confirmed' or `failed'; docs/API.md:25-31 tells
\* clients to poll.
PollingEnds ==
    \A j \in 1..MaxJobs :
        (j \in JobIds) ~> (j \in JobIds /\ records[jobs[j].record].status # "pending")
=============================================================================
