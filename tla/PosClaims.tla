------------------------------ MODULE PosClaims ------------------------------
(***************************************************************************)
(* Claims at a point of sale: a customer signs a claim intent for a patch, *)
(* the cashier approves it, and the server transfers the patch without the *)
(* owner's signature (controllers/posController.js, models/ClaimIntent.js, *)
(* and the lines of workers/broadcastWorker.js about posIntentId).  The    *)
(* transfer is a record, and its job one of the queue, of PatchLifecycle.  *)
(*                                                                         *)
(* An approval waits five times between the intent it reads and the intent *)
(* it saves; the worker, and other approvals, write the intent meanwhile.  *)
(***************************************************************************)
EXTENDS PatchLifecycle

CONSTANTS
    Approvals,          \* approvals the API serves at a time
    AsyncApprovals,     \* those of them in a process with JOBS_ASYNC
    ClaimShapes,        \* does the record pass the schema?  As shipped it never does:
                        \* issuer_signature and issuer_pubkey are required and missing
    IntentFaults,       \* may the worker's update of an intent fail?
    MaxIntents          \* bound of the model

ASSUME ClaimAssumption ==
    /\ AsyncApprovals \subseteq Approvals
    /\ ClaimShapes \subseteq BOOLEAN
    /\ IntentFaults \in BOOLEAN
    /\ MaxIntents \in Nat

VARIABLES
    intents,    \* ClaimIntent, in order of creation
    approvals,  \* what each approval holds between two awaits
    links       \* posIntentId of each job, 0 for the jobs of others

claimVars == <<intents, approvals, links>>
posVars == <<vars, claimVars>>

\* transfer_pending_id, which nothing reads, is left out.
Intent ==
    [status : {"pending", "approved", "confirmed", "failed", "expired"},
     uid : Uids, customer : Addresses, late : BOOLEAN, txid : Nat]

Approval ==
    [step : {"idle", "found", "expiring", "read", "created", "queued"},
     intent : Nat, source : Nat, record : Nat]

IdleApproval == [step |-> "idle", intent |-> 0, source |-> NoRecord, record |-> NoRecord]

PosTypeOK ==
    /\ intents \in Seq(Intent)
    /\ approvals \in [Approvals -> Approval]
    /\ links \in [JobIds -> 0..Len(intents)]

PosInit ==
    /\ Init
    /\ intents = <<>>
    /\ approvals = [p \in Approvals |-> IdleApproval]
    /\ links = <<>>

-----------------------------------------------------------------------------
(* The endpoints *)

\* POST /v1/pos/claim-intent, signed by the customer in time; anything else ends with 4xx
\* and no effect.
CreateIntent ==
    /\ Len(intents) < MaxIntents
    /\ \E u \in Uids, customer \in Addresses :
        /\ patchStates[u] # Unregistered
        /\ intents' = Append(intents,
              [status |-> "pending", uid |-> u, customer |-> customer, late |-> FALSE,
               txid |-> NoTx])
    /\ UNCHANGED <<vars, approvals, links>>

\* CLAIM_INTENT_TTL_MS after ts.
IntentAges(i) ==
    /\ intents[i].status = "pending"
    /\ ~intents[i].late
    /\ intents' = [intents EXCEPT ![i].late = TRUE]
    /\ UNCHANGED <<vars, approvals, links>>

\* POST /v1/pos/claim-approve: findById and the two checks of what it found.
FindIntent(p) ==
    /\ approvals[p].step = "idle"
    /\ \E i \in DOMAIN intents :
        /\ intents[i].status = "pending"
        /\ approvals' = [approvals EXCEPT ![p] =
              [IdleApproval EXCEPT !.intent = i,
                                   !.step = IF intents[i].late THEN "expiring" ELSE "found"]]
    /\ UNCHANGED <<vars, intents, links>>

\* Its age, which nobody reads of an intent that is not pending, is forgotten.
Saved(intent, status) == [intent EXCEPT !.status = status, !.late = FALSE]

\* save() of an intent that came too late: the status, whatever it is by now.
ExpireIntent(p) ==
    /\ approvals[p].step = "expiring"
    /\ intents' = [intents EXCEPT ![approvals[p].intent] = Saved(@, "expired")]
    /\ approvals' = [approvals EXCEPT ![p] = IdleApproval]
    /\ UNCHANGED <<vars, links>>

\* getPatchState and getRecordByTxid: the state is read here, not with the intent.
ReadHead(p) ==
    /\ approvals[p].step = "found"
    /\ \E r \in Confirmed :
        /\ records[r].uid = intents[approvals[p].intent].uid
        /\ records[r].txid = patchStates[records[r].uid].current_txid
        /\ approvals' = [approvals EXCEPT ![p].step = "read", ![p].source = r]
    /\ UNCHANGED <<vars, intents, links>>

\* Mutant of ClaimTransfer: the owner is copied with the rest of the head.
ClaimToHolder(source, intent) ==
    TransferOf(source, [newOwner |-> source.owner, signer |-> NoAddress, txid |-> source.txid], 0)

\* Product and metadata of the head, to the customer; no signature of owner or issuer.
ClaimTransfer(source, intent) ==
    [TransferOf(source,
         [newOwner |-> intent.customer, signer |-> NoAddress, txid |-> source.txid],
         Len(records) + 1) EXCEPT !.signedTs = 0]

\* createPendingTransfer, or a ValidationError and 500.
CreateClaim(p) ==
    /\ approvals[p].step = "read"
    /\ \/ /\ TRUE \in ClaimShapes
          /\ Len(records) < MaxRecords
          /\ records' = Append(records,
                ClaimTransfer(records[approvals[p].source], intents[approvals[p].intent]))
          /\ approvals' = [approvals EXCEPT ![p].step = "created", ![p].source = NoRecord,
                                            ![p].record = Len(records) + 1]
       \/ /\ FALSE \in ClaimShapes
          /\ approvals' = [approvals EXCEPT ![p] = IdleApproval]
          /\ UNCHANGED records
    /\ UNCHANGED <<patchStates, requests, jobs, chain, failedEvents, reverted, intents, links>>

\* addTransferJob with posIntentId.
EnqueueClaim(p) ==
    /\ p \in AsyncApprovals
    /\ approvals[p].step = "created"
    /\ Len(jobs) < MaxJobs
    /\ jobs' = Append(jobs, NewJob(approvals[p].record, 0))
    /\ links' = Append(links, approvals[p].intent)
    /\ approvals' = [approvals EXCEPT ![p].step = "queued", ![p].record = NoRecord]
    /\ UNCHANGED <<records, patchStates, requests, chain, failedEvents, reverted, intents>>

\* save() at the end, over what the worker or another approval has written since.  Without
\* JOBS_ASYNC nothing serves the pending record.
ApproveIntent(p) ==
    /\ approvals[p].step = (IF p \in AsyncApprovals THEN "queued" ELSE "created")
    /\ intents' = [intents EXCEPT ![approvals[p].intent] = Saved(@, "approved")]
    /\ approvals' = [approvals EXCEPT ![p] = IdleApproval]
    /\ UNCHANGED <<vars, links>>

\* The process dies, or an await fails and the request ends with 500.
AbandonApproval(p) ==
    /\ Crashes
    /\ approvals[p].step # "idle"
    /\ approvals' = [approvals EXCEPT ![p] = IdleApproval]
    /\ UNCHANGED <<vars, intents, links>>

\* GET /v1/pos/claim-status/:id.
ClaimStatus(i) == [status |-> intents[i].status, txid |-> intents[i].txid]

-----------------------------------------------------------------------------
(* The worker *)

\* findByIdAndUpdate(posIntentId), or an error that is logged.
SetIntent(j, status, txid) ==
    LET i == links[j] IN
    IF i = 0 THEN UNCHANGED intents
    ELSE \/ intents' = [intents EXCEPT ![i] = [Saved(@, status) EXCEPT !.txid = txid]]
         \/ IntentFaults /\ UNCHANGED intents

\* Mutant of ClaimFollows: the intent is confirmed as soon as its transfer is broadcast.
ClaimLeads(j) ==
    \/ Broadcast(j) /\ Len(chain') > Len(chain) /\ SetIntent(j, "confirmed", Len(chain'))
    \/ JobReturns(j) /\ UNCHANGED intents

\* The intent follows its record: after markTransferFailed, before the handler throws, and
\* after markTransferConfirmed, before it returns; the process may die after that.
ClaimFollows(j) ==
    \/ MarkFailed(j) /\ (IF links[j] = 0 THEN UNCHANGED intents
                         ELSE SetIntent(j, "failed", intents[links[j]].txid))
    \/ JobReturns(j) /\ SetIntent(j, "confirmed", jobs[j].txid)
    \/ InStage(j, "return") /\ JobStalls(j) /\ SetIntent(j, "confirmed", jobs[j].txid)

ClaimUntouched(j) ==
    /\ TakeJob(j) \/ Broadcast(j) \/ MarkConfirmed(j) \/ JobThrows(j) \/ JobStalls(j)
    /\ UNCHANGED intents

\* Mutant of Linked: a job is made without its data.
LinkLost(i) == UNCHANGED links

\* A new job carries the data it is made from.
Linked(i) == links' = IF Len(jobs') > Len(jobs) THEN Append(links, i) ELSE links

PosNext ==
    \/ CreateIntent
    \/ \E i \in DOMAIN intents : IntentAges(i)
    \/ \E p \in Approvals :
        \/ FindIntent(p) \/ ExpireIntent(p) \/ ReadHead(p) \/ CreateClaim(p)
        \/ EnqueueClaim(p) \/ ApproveIntent(p) \/ AbandonApproval(p)
    \/ /\ \E h \in Handlers : HandlerStep(h) /\ Linked(0)
       /\ UNCHANGED <<intents, approvals>>
    \/ /\ \E j \in JobIds : ClaimFollows(j) \/ ClaimUntouched(j)
       /\ UNCHANGED <<approvals, links>>
    \/ /\ \E w \in Workers, j \in JobIds : Recovery(w, j) /\ Linked(links[j])
       /\ UNCHANGED <<intents, approvals>>

PosSpec == PosInit /\ [][PosNext]_posVars

-----------------------------------------------------------------------------
(* Properties *)

\* A claim that is shown as confirmed was honoured: its txid is on chain and carries a
\* confirmed transfer of the claimed patch to the customer, whatever approvals, retries
\* and requeues of the job came before.
ClaimHonoured ==
    \A i \in DOMAIN intents :
        ClaimStatus(i).status = "confirmed" =>
            /\ ClaimStatus(i).txid \in DOMAIN chain
            /\ LET r == chain[ClaimStatus(i).txid] IN
                /\ r \in Confirmed
                /\ records[r].type = "TRANSFER"
                /\ records[r].uid = intents[i].uid
                /\ records[r].owner = intents[i].customer

\* A confirmed transfer continues an older confirmed link of the patch, and was signed by
\* the holder of that link or claimed by the customer who got the patch.
HandedOverOrClaimed ==
    \A r \in Confirmed :
        records[r].type = "TRANSFER" =>
            \E q \in Confirmed :
                /\ records[q].txid = records[r].previous_txid
                /\ records[q].uid = records[r].uid
                /\ records[q].txid < records[r].txid
                /\ \/ records[q].owner = records[r].signer
                   \/ /\ records[r].signer = NoAddress
                      /\ \E i \in DOMAIN intents : intents[i].uid = records[r].uid
                                                   /\ intents[i].customer = records[r].owner
=============================================================================
