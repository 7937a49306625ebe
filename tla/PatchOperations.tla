-------------------------- MODULE PatchOperations --------------------------
(***************************************************************************)
(* What operators do to the records of PatchLifecycle while the API and    *)
(* the worker run: batch anchoring, by scripts/batchAnchor.js and by       *)
(* POST /v1/admin/batch-anchor (controllers/adminController.js), and the   *)
(* repair of failed work by scripts/jobs/recover-orphaned-anchors.js and   *)
(* scripts/jobs/report-failed.js.                                          *)
(***************************************************************************)
EXTENDS PatchLifecycle, FiniteSetsExt

CONSTANTS
    Scripts,            \* runs of scripts/batchAnchor.js
    Admins,             \* API processes that serve POST /v1/admin/batch-anchor
    BatchLimit,         \* --limit, or `limit' of the request
    Repairers,          \* runs of scripts/jobs/recover-orphaned-anchors.js
    RequeueRecovered,   \* its option --requeue
    Reports,            \* options report-failed.js is run with
    OperatorsDie,       \* may a batch or a repair die between two awaits?
    MaxRetries          \* bound of the model: retries of a job by operators

ASSUME OperationsAssumption ==
    /\ Scripts \cap Admins = {}
    /\ BatchLimit \in Nat \ {0}
    /\ {RequeueRecovered, OperatorsDie} \subseteq BOOLEAN
    /\ Reports \subseteq {"retry", "requeue"}
    /\ MaxRetries \in Nat

VARIABLES
    batches,    \* what each batch holds between two awaits
    roots,      \* the Merkle roots on chain, each as the records it covers
    repairs     \* what each run of recover-orphaned-anchors.js holds

opsVars == <<batches, roots, repairs>>
allVars == <<vars, opsVars>>

Batch == [step : {"idle", "found", "claimed", "broadcast"}, ids : SUBSET Nat]
NoBatch == [step |-> "idle", ids |-> {}]

\* The candidates are remembered with the status they had.
Repair ==
    [step : {"idle", "found", "requeue"},
     candidates : SUBSET [record : Nat, status : {"failed", "anchoring"}]]
NoRepair == [step |-> "idle", candidates |-> {}]

OpsTypeOK ==
    /\ TypeOK
    /\ batches \in [Scripts \cup Admins -> Batch]
    /\ roots \subseteq SUBSET RecordIds
    /\ repairs \in [Repairers -> Repair]

OpsInit ==
    /\ Init
    /\ batches = [b \in Scripts \cup Admins |-> NoBatch]
    /\ roots = {}
    /\ repairs = [w \in Repairers |-> NoRepair]

WithStatus(status) == {r \in RecordIds : records[r].status = status}

-----------------------------------------------------------------------------
(* Batch anchoring *)

\* find({status: 'pending'}).limit(limit), under the lock of the script or of
\* the API process: the two do not know of each other.  A heartbeat keeps the
\* script's lease while its process lives (module TaskLock).
FindPending(b) ==
    LET pending == WithStatus("pending") IN
    /\ batches[b].step = "idle"
    /\ b \in Scripts => \A s \in Scripts : batches[s].step = "idle"
    /\ pending # {}
    /\ \E ids \in SUBSET pending :
          /\ Cardinality(ids) = Min({BatchLimit, Cardinality(pending)})
          /\ batches' = [batches EXCEPT ![b] = [step |-> "found", ids |-> ids]]
    /\ UNCHANGED <<vars, roots, repairs>>

\* updateMany({_id: {$in: ids}}, {status: 'anchoring'}): by _id, whatever the
\* records have become.  The request of an administrator claims nothing.
ClaimRecords(b) ==
    /\ b \in Scripts
    /\ batches[b].step = "found"
    /\ records' = [r \in RecordIds |->
                      IF r \in batches[b].ids THEN [records[r] EXCEPT !.status = "anchoring"]
                      ELSE records[r]]
    /\ batches' = [batches EXCEPT ![b].step = "claimed"]
    /\ UNCHANGED <<patchStates, requests, jobs, chain, failedEvents, reverted,
                   roots, repairs>>

\* Mutant of BroadcastRoot: broadcastResult.success is not looked at.
BroadcastRootBlindly(b) ==
    /\ batches[b].step = IF b \in Scripts THEN "claimed" ELSE "found"
    /\ batches' = [batches EXCEPT ![b].step = "broadcast"]
    /\ \/ "success" \in BroadcastOutcomes /\ roots' = roots \cup {batches[b].ids}
       \/ "failure" \in BroadcastOutcomes /\ UNCHANGED roots
    /\ UNCHANGED <<vars, repairs>>

\* constructAndBroadcastTx of the Merkle root.  An error ends the batch and
\* reverts nothing: withLockHeartbeat catches it before the script's own
\* handler would.
BroadcastRoot(b) ==
    /\ batches[b].step = IF b \in Scripts THEN "claimed" ELSE "found"
    /\ \/ /\ "success" \in BroadcastOutcomes
          /\ batches' = [batches EXCEPT ![b].step = "broadcast"]
          /\ roots' = roots \cup {batches[b].ids}
       \/ /\ BroadcastOutcomes \cap {"failure", "throw"} # {}
          /\ batches' = [batches EXCEPT ![b] = NoBatch]
          /\ UNCHANGED roots
    /\ UNCHANGED <<vars, repairs>>

Anchored(r) == [records[r] EXCEPT !.status = "confirmed"]

\* Mutants of AnchorRecords: the records take the txid of the root; the owners in
\* the batch are entered in PatchState as well.
AnchorWithTxid(b) ==
    /\ batches[b].step = "broadcast"
    /\ records' = [r \in RecordIds |->
                      IF r \in batches[b].ids THEN [Anchored(r) EXCEPT !.txid = MaxTxs + 1]
                      ELSE records[r]]
    /\ batches' = [batches EXCEPT ![b] = NoBatch]
    /\ UNCHANGED <<patchStates, requests, jobs, chain, failedEvents, reverted,
                   roots, repairs>>
AnchorWithState(b) ==
    /\ batches[b].step = "broadcast"
    /\ records' = [r \in RecordIds |->
                      IF r \in batches[b].ids THEN Anchored(r) ELSE records[r]]
    /\ patchStates' = [u \in Uids |->
          IF \E r \in batches[b].ids : records[r].uid = u
          THEN [patchStates[u] EXCEPT !.current_owner_address =
                   records[CHOOSE r \in batches[b].ids : records[r].uid = u].owner]
          ELSE patchStates[u]]
    /\ batches' = [batches EXCEPT ![b] = NoBatch]
    /\ UNCHANGED <<requests, jobs, chain, failedEvents, reverted, roots, repairs>>

\* bulkWrite: each record of the batch, found by _id, is confirmed with its
\* Merkle path.  Neither txid nor PatchState is written.
AnchorRecords(b) ==
    /\ batches[b].step = "broadcast"
    /\ records' = [r \in RecordIds |->
                      IF r \in batches[b].ids THEN Anchored(r) ELSE records[r]]
    /\ batches' = [batches EXCEPT ![b] = NoBatch]
    /\ UNCHANGED <<patchStates, requests, jobs, chain, failedEvents, reverted,
                   roots, repairs>>

\* The process dies between two awaits.
BatchDies(b) ==
    /\ OperatorsDie
    /\ batches[b].step # "idle"
    /\ batches' = [batches EXCEPT ![b] = NoBatch]
    /\ UNCHANGED <<vars, roots, repairs>>

-----------------------------------------------------------------------------
(* recover-orphaned-anchors.js *)

\* Failed records, and those of the anchoring ones that were not updated for
\* --stuck-mins.
FindStuck(w) ==
    /\ repairs[w].step = "idle"
    /\ \E old \in SUBSET WithStatus("anchoring") :
          LET found == WithStatus("failed") \cup old IN
          /\ found # {}
          /\ repairs' = [repairs EXCEPT ![w] =
                [step |-> "found",
                 candidates |-> {[record |-> r, status |-> records[r].status] : r \in found}]]
    /\ UNCHANGED <<vars, batches, roots>>

\* Mutant of Reverted: {_id: c._id}, whatever the record has become.
RevertedAnyway(candidates) ==
    [r \in RecordIds |->
        IF \E c \in candidates : c.record = r
        THEN [records[r] EXCEPT !.status = "pending"] ELSE records[r]]

\* find({_id: c._id, status: c.status}).updateOne({status: 'pending'}), for each.
Reverted(candidates) ==
    [r \in RecordIds |->
        IF [record |-> r, status |-> records[r].status] \in candidates
        THEN [records[r] EXCEPT !.status = "pending"] ELSE records[r]]

RevertStuck(w) ==
    /\ repairs[w].step = "found"
    /\ records' = Reverted(repairs[w].candidates)
    /\ repairs' = [repairs EXCEPT ![w] =
          IF RequeueRecovered THEN [@ EXCEPT !.step = "requeue"] ELSE NoRepair]
    /\ UNCHANGED <<patchStates, requests, jobs, chain, failedEvents, reverted,
                   batches, roots>>

\* addTransferJob or addBroadcastJob for each candidate, reverted or not.
\* Records have no field recoverCount, so the count starts at 1 every time.
\* An error of the queue is logged.
RequeueStuck(w) ==
    /\ repairs[w].step = "requeue"
    /\ \E c \in repairs[w].candidates :
          LET left == repairs[w].candidates \ {c} IN
          /\ \/ /\ Len(jobs) < MaxJobs
                /\ jobs' = Append(jobs, NewJob(c.record, 1))
             \/ /\ OperatorsDie
                /\ UNCHANGED jobs
          /\ repairs' = [repairs EXCEPT ![w] =
                IF left = {} THEN NoRepair ELSE [@ EXCEPT !.candidates = left]]
    /\ UNCHANGED <<records, patchStates, requests, chain, failedEvents, reverted,
                   batches, roots>>

RepairDies(w) ==
    /\ OperatorsDie
    /\ repairs[w].step # "idle"
    /\ repairs' = [repairs EXCEPT ![w] = NoRepair]
    /\ UNCHANGED <<vars, batches, roots>>

-----------------------------------------------------------------------------
(* report-failed.js *)

FailedJob(j) == jobs[j].queued /\ InStage(j, "failed")

\* --retry: job.retry() puts the job back into the queue; its attempts are not
\* reset, so it gets one more.
RetryFailedJob(j) ==
    /\ "retry" \in Reports
    /\ FailedJob(j)
    /\ jobs[j].attemptsMade < MaxAttempts + MaxRetries
    /\ MoveTo(j, "waiting")
    /\ UNCHANGED <<records, patchStates, requests, chain, failedEvents, reverted, opsVars>>

\* --requeue: a new job with the same data; the failed one stays.
RequeueFailedJob(j) ==
    /\ "requeue" \in Reports
    /\ FailedJob(j)
    /\ Len(jobs) < MaxJobs
    /\ jobs' = Append(jobs, NewJob(jobs[j].record, jobs[j].recoverCount))
    /\ UNCHANGED <<records, patchStates, requests, chain, failedEvents, reverted, opsVars>>

-----------------------------------------------------------------------------
BatchStep(b) ==
    FindPending(b) \/ ClaimRecords(b) \/ BroadcastRoot(b) \/ AnchorRecords(b) \/ BatchDies(b)

RepairStep(w) == FindStuck(w) \/ RevertStuck(w) \/ RequeueStuck(w) \/ RepairDies(w)

ReportStep(j) == RetryFailedJob(j) \/ RequeueFailedJob(j)

OpsNext ==
    \/ Next /\ UNCHANGED opsVars
    \/ \E b \in Scripts \cup Admins : BatchStep(b)
    \/ \E w \in Repairers : RepairStep(w)
    \/ \E j \in JobIds : ReportStep(j)

OpsSpec == OpsInit /\ [][OpsNext]_allVars

-----------------------------------------------------------------------------
(* What holds whatever operators do *)

\* The owner on file changes only by a transfer that continues the transaction
\* on file and that the owner on file signed, or by a registration: batches and
\* repairs, which change the status of records under the worker's hands, never
\* change hands of a patch (databaseService.js:73-84).
HandedOverByHolder ==
    [][\A u \in Uids :
          patchStates'[u] # patchStates[u] =>
              \E r \in RecordIds :
                  /\ records[r].uid = u
                  /\ records'[r].txid = patchStates'[u].current_txid
                  /\ records'[r].owner = patchStates'[u].current_owner_address
                  /\ \/ records[r].type = "REGISTRATION"
                     \/ /\ records[r].previous_txid = patchStates[u].current_txid
                        /\ records[r].signer = patchStates[u].current_owner_address]_allVars

\* The transaction on file is always the txid of a record of that patch and
\* owner, whatever its status: a batch that confirms records of its own accord
\* leaves their txid alone (batchAnchor.js:117-134).
HeadRecorded ==
    \A u \in Uids :
        patchStates[u] # Unregistered =>
            \E r \in RecordIds :
                /\ records[r].txid = patchStates[u].current_txid
                /\ records[r].uid = u
                /\ records[r].owner = patchStates[u].current_owner_address

\* A record is confirmed only when the chain has it, in a transaction of its own
\* or under the root of a batch, however workers, batches and repairs overlap.
Evidenced ==
    \A r \in Confirmed :
        \/ records[r].txid \in DOMAIN chain /\ chain[records[r].txid] = r
        \/ \E root \in roots : r \in root

-----------------------------------------------------------------------------
(* What documents, comments and tests say, and batch anchoring does not do *)

\* tests/e2e/patches.e2e.spec.js:94-105: a patch whose record was polled as
\* confirmed can be verified.
ConfirmedVerifies == \A r \in Confirmed : VerifyPatch(records[r].uid) # "not_found"
=============================================================================
