----------------------- MODULE PatchExtensionsProofs -----------------------
(***************************************************************************)
(* Proofs about the two modules that extend PatchLifecycle, for any number *)
(* of patches, handlers, workers, attempts, requeues and crashes.  What    *)
(* the handlers and the workers do is taken from PatchLifecycleProofs.     *)
(*                                                                         *)
(* PatchOperations: batches change the status of records under the hands   *)
(* of the worker, so little of what PatchLifecycleProofs shows is left;    *)
(* what remains is that a transaction is named by nobody before the job    *)
(* that broadcast it confirms its record.                                  *)
(*                                                                         *)
(* PosClaims: a claim is a record and a job like any other, and breaks     *)
(* nothing of what PatchLifecycleProofs shows; what is added is that an    *)
(* intent, its record and its job belong together from the approval on.    *)
(***************************************************************************)
EXTENDS PatchOperations, PosClaims, PatchLifecycleProofs

-----------------------------------------------------------------------------
(* PatchOperations: what holds under the hands of operators *)

\* What a repair or a batch remembers are records there are, and what a batch has
\* broadcast is on chain.
OperatorRefs ==
    /\ \A w \in Repairers : \A c \in repairs[w].candidates : c.record \in RecordIds
    /\ \A b \in Scripts \cup Admins :
          /\ batches[b].ids \subseteq RecordIds
          /\ batches[b].step = "broadcast" => batches[b].ids \in roots

\* Transactions that a document or a request names.
Named ==
    {records[r].txid : r \in RecordIds} \cup {records[r].previous_txid : r \in RecordIds}
    \cup {requests[h].txid : h \in Handlers}
    \cup {patchStates[u].current_txid : u \in Uids}

\* A job that is about to confirm is the first to name its transaction.
Fresh ==
    /\ \A t \in Named : t <= Len(chain)
    /\ \A j \in JobIds : InStage(j, "confirm") =>
          /\ jobs[j].txid \notin Named
          /\ \A k \in JobIds :
                InStage(k, "confirm") /\ jobs[k].txid = jobs[j].txid => k = j

\* While a patch is at transaction t, `signer' is its owner.
Holds(u, t, signer) ==
    patchStates[u].current_txid = t => patchStates[u].current_owner_address = signer

\* Whoever signed a transfer, or a request for one, from the transaction on file is
\* the owner on file.
Signatures ==
    /\ \A r \in RecordIds :
          records[r].type = "TRANSFER" =>
             /\ records[r].previous_txid # NoTx
             /\ Holds(records[r].uid, records[r].previous_txid, records[r].signer)
    /\ \A h \in Handlers :
          requests[h].step = "authorized" =>
             /\ requests[h].txid # NoTx
             /\ Holds(records[requests[h].record].uid, requests[h].txid, requests[h].signer)

OpsInv ==
    /\ OpsTypeOK /\ References /\ BroadcastHeld /\ RequestRefs /\ OperatorRefs
    /\ Fresh /\ Signatures /\ HeadRecorded /\ Evidenced

-----------------------------------------------------------------------------
(* PatchOperations: what a step does *)

\* A new document: a registration, or the transfer that a request asked for.
NewDoc(r) ==
    /\ records'[r].txid = NoTx
    /\ \/ records'[r].type = "REGISTRATION" /\ records'[r].previous_txid = NoTx
       \/ \E h \in Handlers :
             /\ requests[h].step = "authorized"
             /\ records'[r].type = "TRANSFER"
             /\ records'[r].uid = records[requests[h].record].uid
             /\ records'[r].previous_txid = requests[h].txid
             /\ records'[r].signer = requests[h].signer

\* A request stays, names no transaction, or is one that the owner on file signed.
Asks(h) ==
    \/ requests'[h] = requests[h]
    \/ requests'[h].step # "authorized" /\ requests'[h].txid = NoTx
    \/ \E r \in RecordIds :
          /\ requests'[h].record = r /\ requests'[h].newOwner \in Addresses
          /\ requests'[h].txid = records[r].txid /\ records[r].txid # NoTx
          /\ requests'[h].signer = patchStates[records[r].uid].current_owner_address

\* Neither the chain nor a state moves, and nothing new is about to be confirmed.
Calm ==
    /\ UNCHANGED <<patchStates, chain>>
    /\ RecordIds \subseteq RecordIds'
    /\ \A r \in RecordIds : Kept(r) /\ records'[r].txid = records[r].txid
    /\ \A r \in RecordIds' \ RecordIds : NewDoc(r)
    /\ \A h \in Handlers : Asks(h)
    /\ \A j \in JobIds' :
          jobs'[j].stage = "confirm" => j \in JobIds /\ jobs'[j] = jobs[j]

\* A broadcast that succeeds.
Sends(j) ==
    /\ Len(chain) < MaxTxs
    /\ chain' = Append(chain, jobs[j].record)
    /\ jobs' = [jobs EXCEPT ![j] = Holding(@, Len(chain) + 1)]
    /\ UNCHANGED <<records, patchStates, requests>>

\* A confirmation.
Settles(j) ==
    /\ InStage(j, "confirm")
    /\ StateMatches(jobs[j].record)
    /\ Confirm(jobs[j].record, jobs[j].txid)
    /\ MoveTo(j, "return")
    /\ UNCHANGED <<requests, chain>>

\* updateMany of a status: of the records in S, and of nothing but the status.
LEMMA StatusSet ==
    ASSUME TypeOK, NEW S, NEW status \in {"pending", "confirmed", "anchoring"},
           records' = [r \in RecordIds |->
              IF r \in S THEN [records[r] EXCEPT !.status = status] ELSE records[r]]
    PROVE  /\ records' \in Seq(Record)
           /\ RecordIds' = RecordIds
           /\ \A r \in RecordIds :
                 /\ Kept(r) /\ records'[r].txid = records[r].txid
                 /\ r \in S => records'[r].status = status
                 /\ r \notin S => records'[r] = records[r]
  <1>1. ASSUME NEW r \in RecordIds
        PROVE  /\ records'[r] \in Record
               /\ Kept(r) /\ records'[r].txid = records[r].txid
               /\ r \in S => records'[r].status = status
               /\ r \notin S => records'[r] = records[r]
    <2>1. PICK old \in Record : old = records[r]
      BY RowTypes
    <2> DEFINE new == [old EXCEPT !.status = status]
    <2>2. /\ new \in Record /\ new.status = status /\ new.txid = old.txid
          /\ new.type = old.type /\ new.uid = old.uid /\ new.owner = old.owner
          /\ new.signer = old.signer /\ new.previous_txid = old.previous_txid
      BY DEF Record
    <2>3. records'[r] = IF r \in S THEN new ELSE old
      BY <2>1
    <2> HIDE DEF new
    <2> QED
      BY <2>1, <2>2, <2>3 DEF Kept
  <1>2. Len(records) \in Nat /\ RecordIds = 1..Len(records)
    BY LenProperties DEF TypeOK, RecordIds
  <1>3. records' \in [1..Len(records) -> Record]
    BY <1>1, <1>2
  <1>4. records' \in Seq(Record)
    BY <1>2, <1>3, SeqDef, Zenon
  <1>5. RecordIds' = RecordIds
    BY DEF RecordIds
  <1> QED
    BY <1>1, <1>4, <1>5

\* What the steps that anchor and repair do to the records.
LEMMA OperatorsWrite ==
    ASSUME TypeOK, NEW b, NEW w,
           ClaimRecords(b) \/ AnchorRecords(b) \/ RevertStuck(w)
    PROVE  /\ records' \in Seq(Record)
           /\ RecordIds' = RecordIds
           /\ \A r \in RecordIds :
                 /\ Kept(r) /\ records'[r].txid = records[r].txid
                 /\ records'[r].status = "confirmed" =>
                       \/ records[r].status = "confirmed"
                       \/ batches[b].step = "broadcast" /\ r \in batches[b].ids
  <1>1. CASE ClaimRecords(b)
    <2>1. records' = [r \in RecordIds |->
             IF r \in batches[b].ids THEN [records[r] EXCEPT !.status = "anchoring"]
             ELSE records[r]]
      BY <1>1 DEF ClaimRecords
    <2> QED
      BY <2>1, StatusSet
  <1>2. CASE AnchorRecords(b)
    <2>1. records' = [r \in RecordIds |->
             IF r \in batches[b].ids THEN [records[r] EXCEPT !.status = "confirmed"]
             ELSE records[r]]
      BY <1>2 DEF AnchorRecords, Anchored
    <2> QED
      BY <1>2, <2>1, StatusSet DEF AnchorRecords
  <1>3. CASE RevertStuck(w)
    <2> DEFINE S == {r \in RecordIds :
                       [record |-> r, status |-> records[r].status] \in repairs[w].candidates}
    <2>1. records' = [r \in RecordIds |->
             IF r \in S THEN [records[r] EXCEPT !.status = "pending"] ELSE records[r]]
      BY <1>3 DEF RevertStuck, Reverted
    <2> HIDE DEF S
    <2> QED
      BY <2>1, StatusSet
  <1> QED
    BY <1>1, <1>2, <1>3

\* A step that leaves the documents and the requests as they are, and of the jobs
\* only takes some from their confirmation or adds one.
LEMMA JobsCalm ==
    ASSUME UNCHANGED <<patchStates, chain, requests, records>>,
           \A j \in JobIds' :
              jobs'[j].stage = "confirm" => j \in JobIds /\ jobs'[j] = jobs[j]
    PROVE  Calm
  BY DEF Calm, Kept, Asks, RecordIds

\* One that leaves the jobs as they are, and of the documents changes the status.
LEMMA DataCalm ==
    ASSUME UNCHANGED <<patchStates, chain, requests, jobs>>, RecordIds' = RecordIds,
           \A r \in RecordIds : Kept(r) /\ records'[r].txid = records[r].txid
    PROVE  Calm
  BY DEF Calm, Asks, JobIds

\* A job that moves on to anything but its confirmation.
LEMMA MoveCalm ==
    ASSUME TypeOK, NEW j \in JobIds,
           NEW stage \in {"broadcast", "reject", "throw", "return", "waiting", "completed"},
           MoveTo(j, stage)
    PROVE  \A k \in JobIds' :
              jobs'[k].stage = "confirm" => k \in JobIds /\ jobs'[k] = jobs[k]
  BY MoveToEffect DEF Running

\* A job that is added.
LEMMA AddCalm ==
    ASSUME TypeOK, NEW r \in Nat, NEW c \in Nat,
           NEW job, job = NewJob(r, c) \/ job = [NewJob(r, c) EXCEPT !.queued = FALSE,
                                                                     !.stage = "broadcast"],
           jobs' = Append(jobs, job)
    PROVE  \A k \in JobIds' :
              jobs'[k].stage = "confirm" => k \in JobIds /\ jobs'[k] = jobs[k]
  <1>1. job \in Job /\ job.stage # "confirm"
    <2>1. NewJob(r, c) \in Job /\ NewJob(r, c).stage = "waiting"
      BY DEF NewJob, Job, NoTx
    <2>2. /\ [NewJob(r, c) EXCEPT !.queued = FALSE, !.stage = "broadcast"] \in Job
          /\ [NewJob(r, c) EXCEPT !.queued = FALSE, !.stage = "broadcast"].stage = "broadcast"
      BY DEF NewJob, Job, Running, NoTx
    <2> QED
      BY <2>1, <2>2
  <1> QED
    BY <1>1, JobAdded

LEMMA HandlerCalm ==
    ASSUME TypeOK, References, RequestRefs, NEW h \in Handlers, HandlerStep(h)
    PROVE  Calm
  <1>1. /\ IdleRequest \in Request /\ IdleRequest.txid = NoTx /\ IdleRequest.step = "idle"
        /\ Len(records) + 1 \in Nat
    BY LenProperties DEF TypeOK, IdleRequest, Request, NoTx, NoRecord
  <1>2. ASSUME NEW doc \in Record, CreatePending(h, doc), doc.txid = NoTx,
               \/ doc.type = "REGISTRATION" /\ doc.previous_txid = NoTx
               \/ /\ requests[h].step = "authorized" /\ doc.type = "TRANSFER"
                  /\ doc.uid = records[requests[h].record].uid
                  /\ doc.previous_txid = requests[h].txid
                  /\ doc.signer = requests[h].signer
        PROVE  Calm
    <2>1. /\ RecordIds' = RecordIds \cup {Len(records) + 1}
          /\ Len(records) + 1 \notin RecordIds
          /\ records'[Len(records) + 1] = doc
          /\ \A q \in RecordIds : records'[q] = records[q]
      BY <1>2, RecordAdded DEF CreatePending
    <2>2. \A r \in RecordIds' \ RecordIds : NewDoc(r)
      BY <1>2, <2>1 DEF NewDoc
    <2>3. \A k \in Handlers : Asks(k)
      <3>1. PICK idle \in Request : idle = IdleRequest /\ idle.txid = NoTx
        BY <1>1
      <3> DEFINE created == [idle EXCEPT !.step = "created", !.record = Len(records) + 1]
      <3>2. created.step # "authorized" /\ created.txid = NoTx
        BY <3>1 DEF Request
      <3>3. requests' = [requests EXCEPT ![h] = created]
        BY <1>2, <3>1 DEF CreatePending
      <3> HIDE DEF created
      <3> QED
        BY <3>2, <3>3 DEF Asks, TypeOK
    <2>4. UNCHANGED <<patchStates, chain, jobs>>
      BY <1>2 DEF CreatePending
    <2> QED
      BY <2>1, <2>2, <2>3, <2>4 DEF Calm, Kept, JobIds
  <1>3. CASE RegisterPatch(h)
    <2>1. PICK u \in Uids, owner \in Addresses, kept \in MetaShapes :
             CreatePending(h, Registration(u, owner, kept, Len(records) + 1))
      BY <1>3 DEF RegisterPatch
    <2>2. kept \in BOOLEAN
      BY LifecycleAssumption
    <2>3. PICK doc \in Record : /\ doc = Registration(u, owner, kept, Len(records) + 1)
                                /\ doc.type = "REGISTRATION"
                                /\ doc.previous_txid = NoTx /\ doc.txid = NoTx
      BY <1>1, <2>2, RegistrationType DEF Registration
    <2> QED
      BY <1>2, <2>1, <2>3
  <1>4. CASE CreateTransfer(h)
    <2> DEFINE req == requests[h]
               source == records[req.record]
               new == TransferOf(source, req, Len(records) + 1)
    <2>1. req \in Request /\ source \in Record /\ req.newOwner \in Addresses
          /\ req.step = "authorized"
      BY <1>4, RowTypes DEF CreateTransfer, RequestRefs, TypeOK
    <2>2. /\ new \in Record /\ new.type = "TRANSFER" /\ new.uid = source.uid
          /\ new.previous_txid = req.txid /\ new.signer = req.signer
      BY <1>1, <2>1, TransferType
    <2>3. new.txid = NoTx
      BY <1>1, <2>1 DEF TransferOf, Record, Request, NoTx
    <2>4. CreatePending(h, new)
      BY <1>4 DEF CreateTransfer
    <2>5. PICK doc \in Record : /\ CreatePending(h, doc) /\ doc.type = "TRANSFER"
                                /\ doc.uid = source.uid /\ doc.previous_txid = req.txid
                                /\ doc.signer = req.signer /\ doc.txid = NoTx
      <3> HIDE DEF new
      <3> QED
        BY <2>2, <2>3, <2>4
    <2> QED
      BY <1>2, <2>1, <2>5
  <1>5. CASE AuthorizeTransfer(h)
    <2>1. PICK r \in Confirmed, signer \in Addresses, newOwner \in Addresses :
             /\ records[r].txid # NoTx
             /\ signer = patchStates[records[r].uid].current_owner_address
             /\ requests' = [requests EXCEPT ![h] =
                                [step |-> "authorized", record |-> r, txid |-> records[r].txid,
                                 signer |-> signer, newOwner |-> newOwner]]
      BY <1>5 DEF AuthorizeTransfer
    <2> DEFINE new == [step |-> "authorized", record |-> r, txid |-> records[r].txid,
                       signer |-> signer, newOwner |-> newOwner]
    <2>2. /\ requests' = [requests EXCEPT ![h] = new]
          /\ new.record = r /\ new.txid = records[r].txid /\ new.signer = signer
          /\ new.newOwner = newOwner
      BY <2>1
    <2> HIDE DEF new
    <2>3. r \in RecordIds
      BY DEF Confirmed
    <2>4. \A k \in Handlers : Asks(k)
      BY <2>1, <2>2, <2>3 DEF Asks, TypeOK
    <2>5. UNCHANGED <<records, patchStates, chain, jobs>>
      BY <1>5 DEF AuthorizeTransfer
    <2> QED
      BY <2>4, <2>5 DEF Calm, Kept, JobIds, RecordIds
  <1>6. ASSUME requests' = [requests EXCEPT ![h] = IdleRequest]
        PROVE  \A k \in Handlers : Asks(k)
    BY <1>1, <1>6 DEF Asks, TypeOK
  <1>7. CASE Enqueue(h) \/ RunInline(h)
    <2>1. requests[h].record \in Nat
      BY <1>7, RowTypes DEF TypeOK, Request
    <2>2. \A k \in JobIds' :
              jobs'[k].stage = "confirm" => k \in JobIds /\ jobs'[k] = jobs[k]
      BY <1>7, <2>1, AddCalm DEF Enqueue, RunInline
    <2>3. /\ requests' = [requests EXCEPT ![h] = IdleRequest]
          /\ UNCHANGED <<records, patchStates, chain>>
      BY <1>7 DEF Enqueue, RunInline
    <2> QED
      BY <1>6, <2>2, <2>3 DEF Calm, Kept, RecordIds
  <1>8. CASE AbandonRequest(h)
    <2>1. /\ requests' = [requests EXCEPT ![h] = IdleRequest]
          /\ UNCHANGED <<records, patchStates, chain, jobs>>
      BY <1>8 DEF AbandonRequest
    <2> QED
      BY <1>6, <2>1 DEF Calm, Kept, RecordIds, JobIds
  <1> QED
    BY <1>3, <1>4, <1>5, <1>7, <1>8 DEF HandlerStep

LEMMA JobTurns ==
    ASSUME TypeOK, References, NEW j \in JobIds, JobRuns(j) \/ JobStalls(j)
    PROVE  Calm \/ Sends(j) \/ Settles(j)
  <1>1. ASSUME UNCHANGED <<patchStates, chain, requests, records>>,
               NEW stage \in {"broadcast", "reject", "throw", "return", "waiting",
                             "completed"},
               MoveTo(j, stage)
        PROVE  Calm
    BY <1>1, MoveCalm, JobsCalm
  <1>2. CASE TakeJob(j) \/ JobReturns(j)
    BY <1>1, <1>2 DEF TakeJob, JobReturns
  <1>3. CASE Broadcast(j)
    BY <1>1, <1>3 DEF Broadcast, Sends
  <1>4. CASE MarkFailed(j)
    <2>1. /\ RecordIds' = RecordIds
          /\ \A r \in RecordIds : Kept(r) /\ records'[r].txid = records[r].txid
      <3>1. jobs[j].record \in RecordIds
        BY DEF References
      <3> QED
        BY <1>4, <3>1, ChangeStatusEffect DEF MarkFailed, Kept, RecordIds
    <2>2. MoveTo(j, "throw") /\ UNCHANGED <<patchStates, requests, chain>>
      BY <1>4 DEF MarkFailed
    <2>3. \A k \in JobIds' :
              jobs'[k].stage = "confirm" => k \in JobIds /\ jobs'[k] = jobs[k]
      BY <2>2, MoveCalm
    <2> QED
      BY <2>1, <2>2, <2>3 DEF Calm, Asks
  <1>5. CASE MarkConfirmed(j)
    BY <1>1, <1>5 DEF MarkConfirmed, Settles
  <1>6. CASE JobThrows(j) \/ JobStalls(j)
    <2>1. \A k \in JobIds' :
              jobs'[k].stage = "confirm" => k \in JobIds /\ jobs'[k] = jobs[k]
      BY <1>6, FailEffect
    <2> QED
      BY <1>6, <2>1, JobsCalm DEF JobThrows, JobStalls
  <1> QED
    BY <1>2, <1>3, <1>4, <1>5, <1>6 DEF JobRuns

LEMMA RecoveryCalm ==
    ASSUME TypeOK, References, NEW w \in Workers, NEW j \in JobIds, Recovery(w, j)
    PROVE  Calm
  <1>1. /\ jobs[j].record \in RecordIds /\ jobs[j].record \in Nat
        /\ jobs[j].recoverCount + 1 \in Nat
    <2>1. jobs[j] \in Job
      BY RowTypes
    <2> QED
      BY <2>1 DEF References, Job
  <1>2. CASE RevertFailed(w, j)
    <2>1. /\ RecordIds' = RecordIds
          /\ \A r \in RecordIds : Kept(r) /\ records'[r].txid = records[r].txid
      BY <1>1, <1>2, ChangeStatusEffect DEF RevertFailed
    <2> QED
      BY <1>2, <2>1, DataCalm DEF RevertFailed
  <1>3. CASE RequeueFailed(w, j)
    <2>1. \A k \in JobIds' :
              jobs'[k].stage = "confirm" => k \in JobIds /\ jobs'[k] = jobs[k]
      BY <1>1, <1>3, AddCalm DEF RequeueFailed
    <2> QED
      BY <1>3, <2>1, JobsCalm DEF RequeueFailed
  <1>4. CASE ListenerDies(w, j)
    BY <1>4, DataCalm DEF ListenerDies, Kept, RecordIds
  <1> QED
    BY <1>2, <1>3, <1>4 DEF Recovery

\* Whatever operators do besides is calm.
LEMMA OperatorsCalm ==
    ASSUME TypeOK, References, OpsTypeOK,
           \/ \E b \in Scripts \cup Admins : BatchStep(b)
           \/ \E w \in Repairers : RepairStep(w)
           \/ \E j \in JobIds : ReportStep(j)
    PROVE  Calm
  <1>1. CASE UNCHANGED vars
    BY <1>1, DataCalm DEF vars, Kept, RecordIds
  <1>2. ASSUME NEW b, NEW w, ClaimRecords(b) \/ AnchorRecords(b) \/ RevertStuck(w)
        PROVE  Calm
    <2>1. /\ RecordIds' = RecordIds
          /\ \A r \in RecordIds : Kept(r) /\ records'[r].txid = records[r].txid
      BY <1>2, OperatorsWrite
    <2>2. UNCHANGED <<patchStates, chain, requests, jobs>>
      BY <1>2 DEF ClaimRecords, AnchorRecords, RevertStuck
    <2> QED
      BY <2>1, <2>2, DataCalm
  <1>3. ASSUME NEW w \in Repairers, RequeueStuck(w)
        PROVE  Calm
    <2>1. PICK c \in repairs[w].candidates :
             UNCHANGED jobs \/ jobs' = Append(jobs, NewJob(c.record, 1))
      BY <1>3 DEF RequeueStuck
    <2>2. c.record \in Nat
      BY DEF OpsTypeOK, Repair
    <2>3. \A k \in JobIds' :
              jobs'[k].stage = "confirm" => k \in JobIds /\ jobs'[k] = jobs[k]
      BY <2>1, <2>2, AddCalm DEF JobIds
    <2> QED
      BY <1>3, <2>3, JobsCalm DEF RequeueStuck
  <1>4. ASSUME NEW j \in JobIds, RetryFailedJob(j)
        PROVE  Calm
    <2>1. \A k \in JobIds' :
              jobs'[k].stage = "confirm" => k \in JobIds /\ jobs'[k] = jobs[k]
      BY <1>4, MoveCalm DEF RetryFailedJob
    <2> QED
      BY <1>4, <2>1, JobsCalm DEF RetryFailedJob
  <1>5. ASSUME NEW j \in JobIds, RequeueFailedJob(j)
        PROVE  Calm
    <2>1. jobs[j].record \in Nat /\ jobs[j].recoverCount \in Nat
      BY RowTypes DEF Job
    <2>2. \A k \in JobIds' :
              jobs'[k].stage = "confirm" => k \in JobIds /\ jobs'[k] = jobs[k]
      BY <1>5, <2>1, AddCalm DEF RequeueFailedJob
    <2> QED
      BY <1>5, <2>2, JobsCalm DEF RequeueFailedJob
  <1>6. ASSUME NEW b, FindPending(b) \/ BroadcastRoot(b) \/ BatchDies(b)
        PROVE  UNCHANGED vars
    BY <1>6 DEF FindPending, BroadcastRoot, BatchDies
  <1>7. ASSUME NEW w, FindStuck(w) \/ RepairDies(w)
        PROVE  UNCHANGED vars
    BY <1>7 DEF FindStuck, RepairDies
  <1> QED
    BY <1>1, <1>2, <1>3, <1>4, <1>5, <1>6, <1>7 DEF BatchStep, RepairStep, ReportStep

LEMMA OpsTurn ==
    ASSUME OpsInv, [OpsNext]_allVars
    PROVE  Calm \/ \E j \in JobIds : Sends(j) \/ Settles(j)
  <1>1. TypeOK /\ OpsTypeOK /\ References /\ RequestRefs
    BY DEF OpsInv, OpsTypeOK
  <1>2. CASE Next
    BY <1>1, <1>2, HandlerCalm, JobTurns, RecoveryCalm DEF Next
  <1>3. CASE UNCHANGED allVars
    BY <1>3, DataCalm DEF allVars, vars, Kept, RecordIds
  <1> QED
    BY <1>1, <1>2, <1>3, OperatorsCalm DEF OpsNext

-----------------------------------------------------------------------------
(* PatchOperations: types and references *)

LEMMA OperatorsTypes ==
    ASSUME TypeOK, References, OpsTypeOK, OperatorRefs,
           \/ \E b \in Scripts \cup Admins : BatchStep(b)
           \/ \E w \in Repairers : RepairStep(w)
           \/ \E j \in JobIds : ReportStep(j)
    PROVE  TypeOK' /\ References' /\ RecordIds' = RecordIds
  <1>1. CASE UNCHANGED vars
    BY <1>1 DEF vars, TypeOK, References, RecordIds, JobIds
  <1>2. ASSUME records' \in Seq(Record), RecordIds' = RecordIds,
               UNCHANGED <<patchStates, requests, jobs, chain, failedEvents, reverted>>
        PROVE  TypeOK' /\ References'
    BY <1>2 DEF TypeOK, References, JobIds
  <1>3. ASSUME jobs' \in Seq(Job), JobIds \subseteq JobIds',
               \A k \in JobIds' : jobs'[k].record \in RecordIds,
               UNCHANGED <<records, patchStates, requests, chain, failedEvents, reverted>>
        PROVE  TypeOK' /\ References' /\ RecordIds' = RecordIds
    BY <1>3 DEF TypeOK, References, RecordIds
  <1>4. ASSUME NEW b, NEW w, ClaimRecords(b) \/ AnchorRecords(b) \/ RevertStuck(w)
        PROVE  TypeOK' /\ References' /\ RecordIds' = RecordIds
    <2>1. records' \in Seq(Record) /\ RecordIds' = RecordIds
      BY <1>4, OperatorsWrite
    <2>2. UNCHANGED <<patchStates, requests, jobs, chain, failedEvents, reverted>>
      BY <1>4 DEF ClaimRecords, AnchorRecords, RevertStuck
    <2> QED
      BY <1>2, <2>1, <2>2
  <1>5. ASSUME NEW r \in RecordIds, NEW c \in Nat, jobs' = Append(jobs, NewJob(r, c)),
               UNCHANGED <<records, patchStates, requests, chain, failedEvents, reverted>>
        PROVE  TypeOK' /\ References' /\ RecordIds' = RecordIds
    <2>1. r \in Nat
      BY RowTypes
    <2>2. NewJob(r, c) \in Job /\ NewJob(r, c).record = r
      BY <2>1 DEF NewJob, Job, NoTx
    <2>3. PICK job \in Job : jobs' = Append(jobs, job) /\ job.record = r
      BY <1>5, <2>2
    <2>4. /\ jobs' \in Seq(Job) /\ JobIds \subseteq JobIds'
          /\ \A k \in JobIds' : jobs'[k].record \in RecordIds
      BY <2>3, JobAdded DEF References
    <2> QED
      BY <1>3, <1>5, <2>4
  <1>6. ASSUME NEW w \in Repairers, RequeueStuck(w)
        PROVE  TypeOK' /\ References' /\ RecordIds' = RecordIds
    <2>1. PICK c \in repairs[w].candidates :
             UNCHANGED jobs \/ jobs' = Append(jobs, NewJob(c.record, 1))
      BY <1>6 DEF RequeueStuck
    <2>2. c.record \in RecordIds
      BY DEF OperatorRefs
    <2>3. UNCHANGED <<records, patchStates, requests, chain, failedEvents, reverted>>
      BY <1>6 DEF RequeueStuck
    <2> QED
      BY <1>1, <1>5, <2>1, <2>2, <2>3 DEF vars
  <1>7. ASSUME NEW j \in JobIds, RetryFailedJob(j)
        PROVE  TypeOK' /\ References' /\ RecordIds' = RecordIds
    <2>1. MoveTo(j, "waiting")
          /\ UNCHANGED <<records, patchStates, requests, chain, failedEvents, reverted>>
      BY <1>7 DEF RetryFailedJob
    <2>2. /\ jobs' \in Seq(Job) /\ JobIds \subseteq JobIds'
          /\ \A k \in JobIds' : jobs'[k].record \in RecordIds
      BY <2>1, MoveToEffect DEF References
    <2> QED
      BY <1>3, <2>1, <2>2
  <1>8. ASSUME NEW j \in JobIds, RequeueFailedJob(j)
        PROVE  TypeOK' /\ References' /\ RecordIds' = RecordIds
    <2>1. jobs[j].record \in RecordIds /\ jobs[j].recoverCount \in Nat
      BY RowTypes DEF Job, References
    <2> QED
      BY <1>5, <1>8, <2>1 DEF RequeueFailedJob
  <1>9. ASSUME NEW b, FindPending(b) \/ BroadcastRoot(b) \/ BatchDies(b)
        PROVE  UNCHANGED vars
    BY <1>9 DEF FindPending, BroadcastRoot, BatchDies
  <1>10. ASSUME NEW w, FindStuck(w) \/ RepairDies(w)
         PROVE  UNCHANGED vars
    BY <1>10 DEF FindStuck, RepairDies
  <1> QED
    BY <1>1, <1>4, <1>6, <1>7, <1>8, <1>9, <1>10 DEF BatchStep, RepairStep, ReportStep

LEMMA TypesStep ==
    ASSUME OpsInv, [OpsNext]_allVars
    PROVE  TypeOK' /\ References' /\ RecordIds \subseteq RecordIds'
  <1>1. TypeOK /\ OpsTypeOK /\ References /\ RequestRefs /\ BroadcastHeld /\ OperatorRefs
    BY DEF OpsInv, OpsTypeOK
  <1>2. CASE [Next]_vars
    BY <1>1, <1>2, TypeStep, LinkStep
  <1> QED
    BY <1>1, <1>2, OperatorsTypes DEF OpsNext, allVars

\* A batch goes on with records there are.
LEMMA BatchUpdated ==
    ASSUME OpsTypeOK, OperatorRefs, NEW b \in Scripts \cup Admins, NEW new \in Batch,
           batches' = [batches EXCEPT ![b] = new],
           RecordIds \subseteq RecordIds', roots \subseteq roots',
           new.ids \subseteq RecordIds, new.step = "broadcast" => new.ids \in roots'
    PROVE  /\ batches' \in [Scripts \cup Admins -> Batch]
           /\ \A c \in Scripts \cup Admins :
                 /\ batches'[c].ids \subseteq RecordIds'
                 /\ batches'[c].step = "broadcast" => batches'[c].ids \in roots'
  BY DEF OpsTypeOK, OperatorRefs

LEMMA BatchRows ==
    ASSUME OpsInv, [OpsNext]_allVars
    PROVE  /\ batches' \in [Scripts \cup Admins -> Batch]
           /\ \A b \in Scripts \cup Admins :
                 /\ batches'[b].ids \subseteq RecordIds'
                 /\ batches'[b].step = "broadcast" => batches'[b].ids \in roots'
           /\ roots \subseteq roots' /\ roots' \subseteq SUBSET RecordIds'
  <1> DEFINE Goal == /\ batches' \in [Scripts \cup Admins -> Batch]
                     /\ \A b \in Scripts \cup Admins :
                           /\ batches'[b].ids \subseteq RecordIds'
                           /\ batches'[b].step = "broadcast" => batches'[b].ids \in roots'
                     /\ roots \subseteq roots' /\ roots' \subseteq SUBSET RecordIds'
  <1>1. /\ TypeOK /\ OpsTypeOK /\ OperatorRefs
        /\ RecordIds \subseteq Nat
        /\ RecordIds \subseteq RecordIds'
    BY RowTypes, TypesStep DEF OpsInv, OpsTypeOK
  <1>2. CASE UNCHANGED <<batches, roots>>
    BY <1>1, <1>2 DEF OpsTypeOK, OperatorRefs
  <1>3. ASSUME NEW b \in Scripts \cup Admins, NEW new \in Batch,
               batches' = [batches EXCEPT ![b] = new],
               roots \subseteq roots', roots' \subseteq roots \cup {batches[b].ids},
               new.ids \subseteq RecordIds, new.step = "broadcast" => new.ids \in roots'
        PROVE  Goal
    <2>1. roots' \subseteq SUBSET RecordIds'
      BY <1>1, <1>3 DEF OpsTypeOK, OperatorRefs
    <2> QED
      BY <1>1, <1>3, <2>1, BatchUpdated
  <1>4. NoBatch \in Batch /\ NoBatch.ids = {} /\ NoBatch.step = "idle"
    BY DEF NoBatch, Batch
  <1>5. ASSUME NEW b \in Scripts \cup Admins, NEW step \in {"claimed", "broadcast"}
        PROVE  LET new == [batches[b] EXCEPT !.step = step] IN
               new \in Batch /\ new.step = step /\ new.ids = batches[b].ids
    BY <1>1 DEF OpsTypeOK, Batch
  <1>6. \A b \in Scripts \cup Admins : batches[b].ids \subseteq RecordIds
    BY <1>1 DEF OperatorRefs
  <1>7. ASSUME NEW b \in Scripts \cup Admins, FindPending(b)
        PROVE  Goal
    <2>1. PICK ids \in SUBSET RecordIds :
             batches' = [batches EXCEPT ![b] = [step |-> "found", ids |-> ids]]
      BY <1>7 DEF FindPending, WithStatus
    <2> DEFINE new == [step |-> "found", ids |-> ids]
    <2>2. new \in Batch /\ new.ids = ids /\ new.step = "found"
      BY <1>1, <2>1 DEF Batch
    <2>3. batches' = [batches EXCEPT ![b] = new] /\ UNCHANGED roots
      BY <1>7, <2>1 DEF FindPending
    <2> HIDE DEF new
    <2> QED
      BY <1>3, <2>1, <2>2, <2>3
  <1>8. ASSUME NEW b \in Scripts \cup Admins, batches' = [batches EXCEPT ![b] = NoBatch],
               UNCHANGED roots
        PROVE  Goal
    BY <1>3, <1>4, <1>8
  <1>9. ASSUME NEW b \in Scripts \cup Admins, ClaimRecords(b)
        PROVE  Goal
    <2> DEFINE new == [batches[b] EXCEPT !.step = "claimed"]
    <2>1. new \in Batch /\ new.step = "claimed" /\ new.ids = batches[b].ids
      BY <1>5
    <2>2. batches' = [batches EXCEPT ![b] = new] /\ UNCHANGED roots
      BY <1>1, <1>9 DEF ClaimRecords, OpsTypeOK
    <2> HIDE DEF new
    <2> QED
      BY <1>3, <1>6, <2>1, <2>2
  <1>10. ASSUME NEW b \in Scripts \cup Admins, BroadcastRoot(b)
         PROVE  Goal
    <2>1. CASE batches' = [batches EXCEPT ![b] = NoBatch] /\ UNCHANGED roots
      BY <1>8, <2>1
    <2>2. CASE /\ batches' = [batches EXCEPT ![b].step = "broadcast"]
               /\ roots' = roots \cup {batches[b].ids}
      <3> DEFINE new == [batches[b] EXCEPT !.step = "broadcast"]
      <3>1. new \in Batch /\ new.step = "broadcast" /\ new.ids = batches[b].ids
        BY <1>5
      <3>2. batches' = [batches EXCEPT ![b] = new]
        BY <1>1, <2>2 DEF OpsTypeOK
      <3> HIDE DEF new
      <3> QED
        BY <1>3, <1>6, <2>2, <3>1, <3>2
    <2> QED
      BY <1>10, <2>1, <2>2 DEF BroadcastRoot
  <1>11. ASSUME NEW b \in Scripts \cup Admins, AnchorRecords(b) \/ BatchDies(b)
         PROVE  Goal
    BY <1>8, <1>11 DEF AnchorRecords, BatchDies
  <1>12. ASSUME NEW w, RepairStep(w)
         PROVE  UNCHANGED <<batches, roots>>
    BY <1>12 DEF RepairStep, FindStuck, RevertStuck, RequeueStuck, RepairDies
  <1>13. ASSUME NEW j, ReportStep(j)
         PROVE  UNCHANGED <<batches, roots>>
    BY <1>13 DEF ReportStep, RetryFailedJob, RequeueFailedJob, opsVars
  <1>14. ASSUME NEW b \in Scripts \cup Admins, BatchStep(b)
         PROVE  Goal
    BY <1>7, <1>9, <1>10, <1>11, <1>14 DEF BatchStep
  <1> QED
    BY <1>2, <1>12, <1>13, <1>14 DEF OpsNext, allVars, opsVars

LEMMA RepairRows ==
    ASSUME OpsInv, [OpsNext]_allVars
    PROVE  /\ repairs' \in [Repairers -> Repair]
           /\ \A w \in Repairers : \A c \in repairs'[w].candidates : c.record \in RecordIds'
  <1> DEFINE Goal == /\ repairs' \in [Repairers -> Repair]
                     /\ \A w \in Repairers :
                           \A c \in repairs'[w].candidates : c.record \in RecordIds'
  <1>1. /\ TypeOK /\ OpsTypeOK /\ OperatorRefs
        /\ RecordIds \subseteq Nat
        /\ RecordIds \subseteq RecordIds'
    BY RowTypes, TypesStep DEF OpsInv, OpsTypeOK
  <1>2. CASE UNCHANGED repairs
    BY <1>1, <1>2 DEF OpsTypeOK, OperatorRefs
  <1>3. ASSUME NEW w \in Repairers, NEW new \in Repair,
               repairs' = [repairs EXCEPT ![w] = new],
               \A c \in new.candidates : c.record \in RecordIds
        PROVE  Goal
    BY <1>1, <1>3 DEF OpsTypeOK, OperatorRefs
  <1>4. NoRepair \in Repair /\ NoRepair.candidates = {}
    BY DEF NoRepair, Repair
  <1>5. ASSUME NEW w \in Repairers, repairs' = [repairs EXCEPT ![w] = NoRepair]
        PROVE  Goal
    BY <1>3, <1>4, <1>5
  <1>6. ASSUME NEW w \in Repairers, FindStuck(w)
        PROVE  Goal
    <2>1. PICK old \in SUBSET WithStatus("anchoring") :
             repairs' = [repairs EXCEPT ![w] =
                [step |-> "found",
                 candidates |-> {[record |-> r, status |-> records[r].status] :
                                    r \in WithStatus("failed") \cup old}]]
      BY <1>6 DEF FindStuck
    <2> DEFINE found == {[record |-> r, status |-> records[r].status] :
                            r \in WithStatus("failed") \cup old}
               new == [step |-> "found", candidates |-> found]
    <2>2. ASSUME NEW c \in found
          PROVE  /\ c \in [record : Nat, status : {"failed", "anchoring"}]
                 /\ c.record \in RecordIds
      <3>1. PICK r \in WithStatus("failed") \cup old :
               c = [record |-> r, status |-> records[r].status]
        OBVIOUS
      <3>2. r \in RecordIds /\ records[r].status \in {"failed", "anchoring"}
        BY <2>1 DEF WithStatus
      <3> QED
        BY <1>1, <3>1, <3>2
    <2> HIDE DEF found
    <2>3. new \in Repair /\ new.candidates = found
      BY <2>2 DEF Repair
    <2>4. repairs' = [repairs EXCEPT ![w] = new]
      BY <2>1 DEF found
    <2> HIDE DEF new
    <2> QED
      BY <1>3, <2>2, <2>3, <2>4
  <1>7. ASSUME NEW w \in Repairers, RevertStuck(w)
        PROVE  Goal
    <2>1. CASE repairs' = [repairs EXCEPT ![w] = NoRepair]
      BY <1>5, <2>1
    <2>2. CASE repairs' = [repairs EXCEPT ![w] = [@ EXCEPT !.step = "requeue"]]
      <3> DEFINE new == [repairs[w] EXCEPT !.step = "requeue"]
      <3>1. new \in Repair /\ new.candidates = repairs[w].candidates
        BY <1>1 DEF OpsTypeOK, Repair
      <3>2. repairs' = [repairs EXCEPT ![w] = new]
        BY <2>2
      <3> HIDE DEF new
      <3> QED
        BY <1>1, <1>3, <3>1, <3>2 DEF OperatorRefs
    <2> QED
      BY <1>7, <2>1, <2>2, Zenon DEF RevertStuck
  <1>8. ASSUME NEW w \in Repairers, RequeueStuck(w)
        PROVE  Goal
    <2>1. PICK c \in repairs[w].candidates :
             LET left == repairs[w].candidates \ {c} IN
             repairs' = [repairs EXCEPT ![w] =
                IF left = {} THEN NoRepair ELSE [@ EXCEPT !.candidates = left]]
      BY <1>8 DEF RequeueStuck
    <2> DEFINE left == repairs[w].candidates \ {c}
    <2>2. CASE repairs' = [repairs EXCEPT ![w] = NoRepair]
      BY <1>5, <2>2
    <2>3. CASE repairs' = [repairs EXCEPT ![w] = [@ EXCEPT !.candidates = left]]
      <3> DEFINE new == [repairs[w] EXCEPT !.candidates = left]
      <3>1. new \in Repair /\ new.candidates = left
        BY <1>1 DEF OpsTypeOK, Repair
      <3>2. repairs' = [repairs EXCEPT ![w] = new]
        BY <2>3
      <3>3. \A d \in left : d.record \in RecordIds
        BY <1>1 DEF OperatorRefs
      <3> HIDE DEF new, left
      <3> QED
        BY <1>3, <3>1, <3>2, <3>3
    <2> QED
      BY <2>1, <2>2, <2>3, Zenon
  <1>9. ASSUME NEW w \in Repairers, RepairDies(w)
        PROVE  Goal
    BY <1>5, <1>9 DEF RepairDies
  <1>10. ASSUME NEW b, BatchStep(b)
         PROVE  UNCHANGED repairs
    BY <1>10 DEF BatchStep, FindPending, ClaimRecords, BroadcastRoot, AnchorRecords, BatchDies
  <1>11. ASSUME NEW j, ReportStep(j)
         PROVE  UNCHANGED repairs
    BY <1>11 DEF ReportStep, RetryFailedJob, RequeueFailedJob, opsVars
  <1>12. ASSUME NEW w \in Repairers, RepairStep(w)
         PROVE  Goal
    BY <1>6, <1>7, <1>8, <1>9, <1>12 DEF RepairStep
  <1> QED
    BY <1>2, <1>10, <1>11, <1>12 DEF OpsNext, allVars, opsVars

-----------------------------------------------------------------------------
(* PatchOperations: one step *)

LEMMA OpsParts ==
    ASSUME OpsInv
    PROVE  /\ TypeOK /\ OpsTypeOK /\ References /\ BroadcastHeld /\ RequestRefs
           /\ OperatorRefs /\ Fresh /\ Signatures /\ HeadRecorded /\ Evidenced
           /\ Confirmed \subseteq RecordIds
  BY DEF OpsInv, OpsTypeOK, Confirmed

\* Numbers in play.
LEMMA Txids ==
    ASSUME OpsInv
    PROVE  /\ Len(chain) \in Nat /\ DOMAIN chain = 1..Len(chain)
           /\ \A r \in RecordIds : /\ records[r].txid \in Nat /\ records[r].txid \in Named
                                   /\ records[r].previous_txid \in Nat
                                   /\ records[r].previous_txid \in Named
           /\ \A h \in Handlers : requests[h].txid \in Nat /\ requests[h].txid \in Named
           /\ \A u \in Uids : /\ patchStates[u].current_txid \in Nat
                              /\ patchStates[u].current_txid \in Named
           /\ \A j \in JobIds : jobs[j].txid \in Nat /\ jobs[j].record \in RecordIds
           /\ \A j \in JobIds : InStage(j, "confirm") =>
                 /\ jobs[j].txid \in DOMAIN chain
                 /\ chain[jobs[j].txid] = jobs[j].record
                 /\ jobs[j].txid \notin Named
  <1>1. TypeOK
    BY OpsParts
  <1>2. Len(chain) \in Nat /\ DOMAIN chain = 1..Len(chain)
    BY <1>1, LenProperties DEF TypeOK
  <1>3. \A r \in RecordIds : records[r].txid \in Nat /\ records[r].previous_txid \in Nat
    BY <1>1, RowTypes DEF Record
  <1>4. \A h \in Handlers : requests[h].txid \in Nat
    BY <1>1 DEF TypeOK, Request
  <1>5. \A u \in Uids : patchStates[u].current_txid \in Nat
    BY <1>1 DEF TypeOK, PatchState
  <1>6. \A j \in JobIds : jobs[j].txid \in Nat /\ jobs[j].record \in RecordIds
    BY <1>1, RowTypes, OpsParts DEF Job, References
  <1>7. /\ \A r \in RecordIds : records[r].txid \in Named /\ records[r].previous_txid \in Named
        /\ \A h \in Handlers : requests[h].txid \in Named
        /\ \A u \in Uids : patchStates[u].current_txid \in Named
    BY DEF Named
  <1>8. \A j \in JobIds : InStage(j, "confirm") =>
           /\ jobs[j].txid \in DOMAIN chain
           /\ chain[jobs[j].txid] = jobs[j].record
           /\ jobs[j].txid \notin Named
    BY OpsParts DEF BroadcastHeld, Fresh
  <1> QED
    BY <1>2, <1>3, <1>4, <1>5, <1>6, <1>7, <1>8

\* What a broadcast leaves behind.
LEMMA SendsEffect ==
    ASSUME OpsInv, NEW j \in JobIds, Sends(j)
    PROVE  /\ DOMAIN chain' = DOMAIN chain \cup {Len(chain) + 1}
           /\ Len(chain') = Len(chain) + 1
           /\ \A t \in DOMAIN chain : chain'[t] = chain[t]
           /\ chain'[Len(chain) + 1] = jobs[j].record
           /\ JobIds' = JobIds
           /\ jobs'[j].txid = Len(chain) + 1 /\ jobs'[j].record = jobs[j].record
           /\ \A k \in JobIds : k # j => jobs'[k] = jobs[k]
  <1>1. TypeOK /\ chain \in Seq(Nat) /\ jobs[j].record \in Nat /\ Len(chain) + 1 \in Nat
    BY OpsParts, RowTypes, LenProperties DEF TypeOK, References
  <1>2. /\ DOMAIN chain' = DOMAIN chain \cup {Len(chain) + 1}
        /\ Len(chain') = Len(chain) + 1
        /\ \A t \in DOMAIN chain : chain'[t] = chain[t]
        /\ chain'[Len(chain) + 1] = jobs[j].record
    BY <1>1, AppendRow DEF Sends
  <1>3. /\ JobIds' = JobIds
        /\ jobs'[j].txid = Len(chain) + 1
        /\ \A k \in JobIds : jobs'[k].record = jobs[k].record
        /\ \A k \in JobIds : k # j => jobs'[k] = jobs[k]
    BY <1>1, BroadcastEffect DEF Sends
  <1> QED
    BY <1>2, <1>3

\* What a confirmation leaves behind.
LEMMA SettlesEffect ==
    ASSUME OpsInv, NEW j \in JobIds, Settles(j)
    PROVE  LET r == jobs[j].record
               t == jobs[j].txid IN
           /\ r \in RecordIds /\ t \in DOMAIN chain /\ t \notin Named /\ chain[t] = r
           /\ records[r].uid \in Uids
           /\ RecordIds' = RecordIds /\ Confirmed' = Confirmed \cup {r}
           /\ records'[r].txid = t
           /\ \A q \in RecordIds : Kept(q)
           /\ \A q \in RecordIds : q # r => records'[q] = records[q]
           /\ patchStates'[records[r].uid].current_txid = t
           /\ patchStates'[records[r].uid].current_owner_address = records[r].owner
           /\ \A u \in Uids : u # records[r].uid => patchStates'[u] = patchStates[u]
           /\ UNCHANGED <<requests, chain>>
           /\ \A k \in JobIds' : jobs'[k].stage = "confirm" =>
                 k \in JobIds /\ k # j /\ jobs'[k] = jobs[k]
  <1> DEFINE r == jobs[j].record
             t == jobs[j].txid
  <1>1. TypeOK /\ r \in RecordIds /\ t \in Nat
    BY OpsParts, Txids
  <1>2. t \in DOMAIN chain /\ chain[t] = r /\ t \notin Named
    BY Txids DEF Settles
  <1>3. records[r].uid \in Uids
    BY <1>1, RowTypes DEF Record
  <1>4. \A k \in JobIds' : jobs'[k].stage = "confirm" =>
           k \in JobIds /\ k # j /\ jobs'[k] = jobs[k]
    BY <1>1, MoveToEffect DEF Settles, Running
  <1>5. Confirm(r, t) /\ UNCHANGED <<requests, chain>>
    BY DEF Settles
  <1> HIDE DEF r, t
  <1>6. /\ RecordIds' = RecordIds /\ Confirmed' = Confirmed \cup {r}
        /\ records'[r].txid = t
        /\ \A q \in RecordIds : Kept(q)
        /\ \A q \in RecordIds : q # r => records'[q] = records[q]
        /\ patchStates'[records[r].uid] =
              [current_txid |-> t, current_owner_address |-> records[r].owner]
        /\ \A u \in Uids : u # records[r].uid => patchStates'[u] = patchStates[u]
    BY <1>1, <1>5, ConfirmEffect
  <1>7. /\ patchStates'[records[r].uid].current_txid = t
        /\ patchStates'[records[r].uid].current_owner_address = records[r].owner
    BY <1>6
  <1> QED
    BY <1>1, <1>2, <1>3, <1>4, <1>5, <1>6, <1>7 DEF r, t

LEMMA RefsStep ==
    ASSUME OpsInv, [OpsNext]_allVars
    PROVE  RequestRefs' /\ BroadcastHeld'
  <1> USE OpsParts
  <1>0. RecordIds \subseteq RecordIds'
    BY TypesStep
  <1>1. CASE Calm
    <2>1. RequestRefs'
      BY <1>0, <1>1 DEF Calm, Asks, RequestRefs
    <2>2. BroadcastHeld'
      BY <1>1, JobFrame DEF Calm
    <2> QED
      BY <2>1, <2>2
  <1>2. ASSUME NEW j \in JobIds, Sends(j)
        PROVE  RequestRefs' /\ BroadcastHeld'
    <2>1. RequestRefs'
      BY <1>0, <1>2 DEF Sends, RequestRefs
    <2>2. BroadcastHeld'
      BY <1>2, SendsEffect DEF BroadcastHeld, InStage
    <2> QED
      BY <2>1, <2>2
  <1>3. ASSUME NEW j \in JobIds, Settles(j)
        PROVE  RequestRefs' /\ BroadcastHeld'
    <2>1. /\ UNCHANGED <<requests, chain>>
          /\ \A k \in JobIds' :
                jobs'[k].stage = "confirm" => k \in JobIds /\ jobs'[k] = jobs[k]
      BY <1>3, SettlesEffect
    <2> QED
      BY <1>0, <2>1, JobFrame DEF RequestRefs
  <1> QED
    BY <1>1, <1>2, <1>3, OpsTurn

\* What is on file is recorded.
LEMMA HeadStep ==
    ASSUME OpsInv, [OpsNext]_allVars
    PROVE  HeadRecorded'
  <1> USE OpsParts
  <1>1. ASSUME UNCHANGED patchStates, RecordIds \subseteq RecordIds',
               \A r \in RecordIds : Kept(r) /\ records'[r].txid = records[r].txid
        PROVE  HeadRecorded'
    BY <1>1 DEF HeadRecorded, Kept
  <1>2. CASE Calm
    BY <1>1, <1>2 DEF Calm
  <1>3. ASSUME NEW j \in JobIds, Sends(j)
        PROVE  HeadRecorded'
    BY <1>1, <1>3 DEF Sends, Kept, RecordIds
  <1>4. ASSUME NEW j \in JobIds, Settles(j)
        PROVE  HeadRecorded'
    <2> DEFINE r == jobs[j].record
               t == jobs[j].txid
    <2>1. /\ r \in RecordIds /\ RecordIds' = RecordIds /\ records'[r].txid = t
          /\ \A q \in RecordIds : Kept(q)
          /\ \A q \in RecordIds : q # r => records'[q] = records[q]
          /\ patchStates'[records[r].uid].current_txid = t
          /\ patchStates'[records[r].uid].current_owner_address = records[r].owner
          /\ \A u \in Uids : u # records[r].uid => patchStates'[u] = patchStates[u]
      BY <1>4, SettlesEffect
    <2> HIDE DEF r, t
    <2>2. ASSUME NEW u \in Uids, patchStates'[u] # Unregistered
          PROVE  \E q \in RecordIds' :
                    /\ records'[q].txid = patchStates'[u].current_txid
                    /\ records'[q].uid = u
                    /\ records'[q].owner = patchStates'[u].current_owner_address
      <3>1. CASE u = records[r].uid
        BY <2>1, <3>1 DEF Kept
      <3>2. CASE u # records[r].uid
        <4>1. PICK q \in RecordIds : /\ records[q].txid = patchStates[u].current_txid
                                     /\ records[q].uid = u
                                     /\ records[q].owner = patchStates[u].current_owner_address
          BY <2>1, <2>2, <3>2 DEF HeadRecorded
        <4>2. q # r
          BY <3>2, <4>1
        <4> QED
          BY <2>1, <3>2, <4>1, <4>2
      <3> QED
        BY <3>1, <3>2
    <2> QED
      BY <2>2 DEF HeadRecorded
  <1> QED
    BY <1>2, <1>3, <1>4, OpsTurn

\* What is confirmed has its evidence on chain.
LEMMA EvidenceStep ==
    ASSUME OpsInv, [OpsNext]_allVars
    PROVE  Evidenced'
  <1> USE OpsParts
  <1>1. roots \subseteq roots'
    BY BatchRows
  <1>2. ASSUME \A t \in DOMAIN chain : t \in DOMAIN chain' /\ chain'[t] = chain[t],
               \A r \in Confirmed' :
                  \/ r \in Confirmed /\ records'[r].txid = records[r].txid
                  \/ records'[r].txid \in DOMAIN chain /\ chain[records'[r].txid] = r
                  \/ \E root \in roots : r \in root
        PROVE  Evidenced'
    <2>1. ASSUME NEW r \in Confirmed'
          PROVE  \/ records'[r].txid \in DOMAIN chain' /\ chain'[records'[r].txid] = r
                 \/ \E root \in roots' : r \in root
      <3>1. \/ records'[r].txid \in DOMAIN chain /\ chain[records'[r].txid] = r
            \/ \E root \in roots : r \in root
        BY <1>2 DEF Evidenced
      <3> QED
        BY <1>1, <1>2, <3>1
    <2> QED
      BY <2>1 DEF Evidenced
  <1>3. CASE [Next]_vars
    <2>1. \A t \in DOMAIN chain : t \in DOMAIN chain' /\ chain'[t] = chain[t]
      BY <1>3, ChainGrows
    <2>2. CASE Confirmed' = Confirmed /\ \A q \in Confirmed : records'[q] = records[q]
      BY <1>2, <2>1, <2>2
    <2>3. ASSUME NEW r \in RecordIds, NEW t \in DOMAIN chain, Confirms(r, t)
          PROVE  Evidenced'
      <3>1. t \in Nat /\ chain[t] = r
        BY <2>3, Txids DEF Confirms
      <3>2. /\ Confirmed' = Confirmed \cup {r} /\ records'[r].txid = t
            /\ \A q \in RecordIds : q # r => records'[q] = records[q]
        BY <2>3, <3>1, ConfirmEffect DEF Confirms
      <3> QED
        BY <1>2, <2>1, <3>1, <3>2
    <2> QED
      BY <1>3, <2>2, <2>3, LinkStep
  <1>4. CASE UNCHANGED <<records, chain>>
    BY <1>2, <1>4 DEF Confirmed, RecordIds
  <1>5. ASSUME NEW b \in Scripts \cup Admins, NEW w,
               ClaimRecords(b) \/ AnchorRecords(b) \/ RevertStuck(w)
        PROVE  Evidenced'
    <2>1. /\ RecordIds' = RecordIds
          /\ \A r \in RecordIds :
                /\ records'[r].txid = records[r].txid
                /\ records'[r].status = "confirmed" =>
                      \/ records[r].status = "confirmed"
                      \/ batches[b].step = "broadcast" /\ r \in batches[b].ids
      BY <1>5, OperatorsWrite
    <2>2. UNCHANGED chain
      BY <1>5 DEF ClaimRecords, AnchorRecords, RevertStuck
    <2>3. batches[b].step = "broadcast" => batches[b].ids \in roots
      BY DEF OperatorRefs
    <2> QED
      BY <1>2, <2>1, <2>2, <2>3 DEF Confirmed
  <1>6. ASSUME NEW w \in Repairers, RevertStuck(w)
        PROVE  Evidenced'
    <2>1. records' = [r \in RecordIds |->
              IF r \in {q \in RecordIds : [record |-> q, status |-> records[q].status]
                                             \in repairs[w].candidates}
              THEN [records[r] EXCEPT !.status = "pending"] ELSE records[r]]
      BY <1>6 DEF RevertStuck, Reverted
    <2>2. /\ RecordIds' = RecordIds
          /\ \A r \in RecordIds :
                /\ records'[r].txid = records[r].txid
                /\ records'[r].status = "confirmed" => records[r].status = "confirmed"
      <3> DEFINE S == {q \in RecordIds : [record |-> q, status |-> records[q].status]
                                             \in repairs[w].candidates}
      <3>1. records' = [r \in RecordIds |->
                IF r \in S THEN [records[r] EXCEPT !.status = "pending"] ELSE records[r]]
        BY <2>1
      <3> HIDE DEF S
      <3> QED
        BY <3>1, StatusSet
    <2>3. UNCHANGED chain
      BY <1>6 DEF RevertStuck
    <2> QED
      BY <1>2, <2>2, <2>3 DEF Confirmed
  <1>7. ASSUME NEW b, FindPending(b) \/ BroadcastRoot(b) \/ BatchDies(b)
        PROVE  UNCHANGED <<records, chain>>
    BY <1>7 DEF FindPending, BroadcastRoot, BatchDies, vars
  <1>8. ASSUME NEW w, FindStuck(w) \/ RequeueStuck(w) \/ RepairDies(w)
        PROVE  UNCHANGED <<records, chain>>
    BY <1>8 DEF FindStuck, RequeueStuck, RepairDies, vars
  <1>9. ASSUME NEW j, ReportStep(j)
        PROVE  UNCHANGED <<records, chain>>
    BY <1>9 DEF ReportStep, RetryFailedJob, RequeueFailedJob
  <1> QED
    BY <1>3, <1>4, <1>5, <1>6, <1>7, <1>8, <1>9
    DEF OpsNext, BatchStep, RepairStep, allVars

\* A broadcast is the newest transaction, and a job confirms it once.
LEMMA FreshStep ==
    ASSUME OpsInv, [OpsNext]_allVars
    PROVE  Fresh'
  <1> USE OpsParts
  <1>2. CASE Calm
    <2>1. \A t \in Named' : t \in Named \cup {NoTx}
      <3>1. \A r \in RecordIds' :
               /\ records'[r].txid \in Named \cup {NoTx}
               /\ records'[r].previous_txid \in Named \cup {NoTx}
        BY <1>2, Txids DEF Calm, NewDoc, Kept
      <3>2. \A h \in Handlers : requests'[h].txid \in Named \cup {NoTx}
        BY <1>2, Txids DEF Calm, Asks
      <3>3. \A u \in Uids : patchStates'[u].current_txid \in Named
        BY <1>2, Txids DEF Calm
      <3> QED
        BY <3>1, <3>2, <3>3 DEF Named
    <2>2. UNCHANGED chain /\ Len(chain) \in Nat
      BY <1>2, Txids DEF Calm
    <2>3. \A t \in Named' : t <= Len(chain')
      BY <2>1, <2>2 DEF Fresh, NoTx
    <2>4. \A j \in JobIds' :
             jobs'[j].stage = "confirm" => j \in JobIds /\ jobs'[j] = jobs[j]
      BY <1>2 DEF Calm
    <2>5. ASSUME NEW j \in JobIds', jobs'[j].stage = "confirm"
          PROVE  /\ jobs'[j].txid \notin Named'
                 /\ \A k \in JobIds' :
                       jobs'[k].stage = "confirm" /\ jobs'[k].txid = jobs'[j].txid => k = j
      <3>1. j \in JobIds /\ jobs'[j] = jobs[j] /\ InStage(j, "confirm")
        BY <2>4, <2>5 DEF InStage
      <3>2. jobs[j].txid \in DOMAIN chain /\ jobs[j].txid \notin Named
        BY <3>1, Txids
      <3>3. jobs[j].txid # NoTx
        BY <3>2, Txids DEF NoTx
      <3> QED
        BY <2>1, <2>4, <3>1, <3>2, <3>3 DEF Fresh, InStage
    <2> QED
      BY <2>3, <2>5 DEF Fresh, InStage
  <1>3. ASSUME NEW j \in JobIds, Sends(j)
        PROVE  Fresh'
    <2>1. Named' = Named
      BY <1>3 DEF Named, Sends, RecordIds
    <2>2. /\ Len(chain') = Len(chain) + 1 /\ Len(chain) \in Nat
          /\ JobIds' = JobIds
          /\ jobs'[j].txid = Len(chain) + 1
          /\ \A k \in JobIds : k # j => jobs'[k] = jobs[k]
      BY <1>3, SendsEffect, Txids
    <2>3. \A t \in Named : t \in Nat /\ t <= Len(chain)
      BY Txids DEF Fresh, Named
    <2>4. \A k \in JobIds : InStage(k, "confirm") =>
             jobs[k].txid \in Nat /\ jobs[k].txid <= Len(chain) /\ jobs[k].txid \notin Named
      BY Txids
    <2>5. \A t \in Named' : t <= Len(chain')
      BY <2>1, <2>2, <2>3
    <2>6. ASSUME NEW k \in JobIds', jobs'[k].stage = "confirm"
          PROVE  /\ jobs'[k].txid \notin Named'
                 /\ \A i \in JobIds' :
                       jobs'[i].stage = "confirm" /\ jobs'[i].txid = jobs'[k].txid => i = k
      <3>1. CASE k = j
        BY <2>1, <2>2, <2>3, <2>4, <3>1 DEF InStage
      <3>2. CASE k # j
        BY <2>1, <2>2, <2>4, <2>6, <3>2 DEF InStage, Fresh
      <3> QED
        BY <3>1, <3>2
    <2> QED
      BY <2>5, <2>6 DEF Fresh, InStage
  <1>4. ASSUME NEW j \in JobIds, Settles(j)
        PROVE  Fresh'
    <2> DEFINE r == jobs[j].record
               t == jobs[j].txid
    <2>1. /\ r \in RecordIds /\ t \in DOMAIN chain /\ t \notin Named
          /\ RecordIds' = RecordIds /\ records'[r].txid = t
          /\ \A q \in RecordIds : Kept(q)
          /\ \A q \in RecordIds : q # r => records'[q] = records[q]
          /\ patchStates'[records[r].uid].current_txid = t
          /\ \A u \in Uids : u # records[r].uid => patchStates'[u] = patchStates[u]
          /\ UNCHANGED <<requests, chain>>
          /\ \A k \in JobIds' : jobs'[k].stage = "confirm" =>
                k \in JobIds /\ k # j /\ jobs'[k] = jobs[k]
      BY <1>4, SettlesEffect
    <2>2. \A k \in JobIds : k # j /\ InStage(k, "confirm") =>
             jobs[k].txid # t /\ jobs[k].txid \notin Named
      BY <1>4 DEF Settles, Fresh
    <2> HIDE DEF r, t
    <2>3. \A s \in Named' : s \in Named \cup {t}
      <3>1. \A q \in RecordIds' : /\ records'[q].txid \in Named \cup {t}
                                  /\ records'[q].previous_txid \in Named
        BY <2>1, Txids DEF Kept
      <3>2. \A h \in Handlers : requests'[h].txid \in Named
        BY <2>1, Txids
      <3>3. \A u \in Uids : patchStates'[u].current_txid \in Named \cup {t}
        BY <2>1, Txids
      <3> QED
        BY <3>1, <3>2, <3>3 DEF Named
    <2>4. \A s \in Named' : s <= Len(chain')
      BY <2>1, <2>3, Txids DEF Fresh
    <2>5. ASSUME NEW k \in JobIds', jobs'[k].stage = "confirm"
          PROVE  /\ jobs'[k].txid \notin Named'
                 /\ \A i \in JobIds' :
                       jobs'[i].stage = "confirm" /\ jobs'[i].txid = jobs'[k].txid => i = k
      BY <2>1, <2>2, <2>3, <2>5 DEF InStage, Fresh
    <2> QED
      BY <2>4, <2>5 DEF Fresh, InStage
  <1> QED
    BY <1>2, <1>3, <1>4, OpsTurn

\* The owner on file changes only with the transaction on file, to one that no
\* signature names yet.
LEMMA SignaturesStep ==
    ASSUME OpsInv, [OpsNext]_allVars
    PROVE  Signatures'
  <1> USE OpsParts
  <1>1. CASE Calm
    <2>1. /\ UNCHANGED patchStates
          /\ \A r \in RecordIds : Kept(r)
      BY <1>1 DEF Calm
    <2>2. ASSUME NEW r \in RecordIds', records'[r].type = "TRANSFER"
          PROVE  /\ records'[r].previous_txid # NoTx
                 /\ Holds(records[r].uid, records[r].previous_txid, records[r].signer)'
      <3>1. CASE r \in RecordIds
        BY <2>1, <2>2, <3>1 DEF Kept, Signatures, Holds
      <3>2. CASE r \notin RecordIds
        <4>1. PICK h \in Handlers :
                 /\ requests[h].step = "authorized"
                 /\ records'[r].uid = records[requests[h].record].uid
                 /\ records'[r].previous_txid = requests[h].txid
                 /\ records'[r].signer = requests[h].signer
          BY <1>1, <2>2, <3>2 DEF Calm, NewDoc
        <4> QED
          BY <2>1, <4>1 DEF Signatures, Holds
      <3> QED
        BY <3>1, <3>2
    <2>3. ASSUME NEW h \in Handlers, requests'[h].step = "authorized"
          PROVE  /\ requests'[h].txid # NoTx
                 /\ Holds(records[requests[h].record].uid, requests[h].txid,
                          requests[h].signer)'
      <3>1. CASE requests'[h] = requests[h]
        BY <2>1, <2>3, <3>1 DEF Kept, Signatures, Holds, RequestRefs
      <3>2. CASE \E r \in RecordIds :
                    /\ requests'[h].record = r
                    /\ requests'[h].txid = records[r].txid /\ records[r].txid # NoTx
                    /\ requests'[h].signer = patchStates[records[r].uid].current_owner_address
        <4>1. PICK r \in RecordIds :
                    /\ requests'[h].record = r
                    /\ requests'[h].txid = records[r].txid /\ records[r].txid # NoTx
                    /\ requests'[h].signer = patchStates[records[r].uid].current_owner_address
          BY <3>2
        <4>2. records'[r].uid = records[r].uid
          BY <2>1 DEF Kept
        <4> QED
          BY <2>1, <4>1, <4>2 DEF Holds
      <3> QED
        BY <1>1, <2>3, <3>1, <3>2 DEF Calm, Asks
    <2> QED
      BY <2>2, <2>3 DEF Signatures
  <1>2. ASSUME NEW j \in JobIds, Sends(j)
        PROVE  Signatures'
    BY <1>2 DEF Sends, Signatures, Holds, RecordIds
  <1>3. ASSUME NEW j \in JobIds, Settles(j)
        PROVE  Signatures'
    <2> DEFINE r == jobs[j].record
               t == jobs[j].txid
    <2>1. /\ t \notin Named /\ RecordIds' = RecordIds
          /\ \A q \in RecordIds : Kept(q)
          /\ patchStates'[records[r].uid].current_txid = t
          /\ \A u \in Uids : u # records[r].uid => patchStates'[u] = patchStates[u]
          /\ UNCHANGED requests
      BY <1>3, SettlesEffect
    <2> HIDE DEF r, t
    <2>2. ASSUME NEW u \in Uids, NEW s \in Named, NEW signer, Holds(u, s, signer)
          PROVE  Holds(u, s, signer)'
      BY <2>1, <2>2 DEF Holds
    <2>3. ASSUME NEW q \in RecordIds', records'[q].type = "TRANSFER"
          PROVE  /\ records'[q].previous_txid # NoTx
                 /\ Holds(records[q].uid, records[q].previous_txid, records[q].signer)'
      <3>1. /\ records[q].type = "TRANSFER" /\ records[q].uid \in Uids
            /\ records[q].previous_txid \in Named
        BY <2>1, <2>3, RowTypes, Txids DEF Kept, Record
      <3>2. /\ records[q].previous_txid # NoTx
            /\ Holds(records[q].uid, records[q].previous_txid, records[q].signer)
        BY <2>1, <2>3, <3>1 DEF Signatures
      <3> QED
        BY <2>1, <2>2, <2>3, <3>1, <3>2 DEF Kept, Holds
    <2>4. ASSUME NEW h \in Handlers, requests'[h].step = "authorized"
          PROVE  /\ requests'[h].txid # NoTx
                 /\ Holds(records[requests[h].record].uid, requests[h].txid,
                          requests[h].signer)'
      <3>1. /\ requests[h].step = "authorized" /\ requests'[h] = requests[h]
            /\ requests[h].txid \in Named /\ requests[h].record \in RecordIds
        BY <2>1, <2>4, Txids DEF RequestRefs
      <3>2. /\ requests[h].txid # NoTx
            /\ records[requests[h].record].uid \in Uids
            /\ Holds(records[requests[h].record].uid, requests[h].txid, requests[h].signer)
        BY <3>1, RowTypes DEF Signatures, Record
      <3>3. records'[requests[h].record].uid = records[requests[h].record].uid
        BY <2>1, <3>1 DEF Kept
      <3> QED
        BY <2>1, <2>2, <3>1, <3>2, <3>3 DEF Holds
    <2> QED
      BY <2>3, <2>4 DEF Signatures
  <1> QED
    BY <1>1, <1>2, <1>3, OpsTurn

LEMMA OpsStep == OpsInv /\ [OpsNext]_allVars => OpsInv'
  <1> SUFFICES ASSUME OpsInv, [OpsNext]_allVars PROVE OpsInv'
    OBVIOUS
  <1>1. OpsTypeOK' /\ References'
    BY TypesStep, BatchRows, RepairRows DEF OpsTypeOK
  <1>2. OperatorRefs'
    BY BatchRows, RepairRows DEF OperatorRefs
  <1> QED
    BY <1>1, <1>2, RefsStep, HeadStep, EvidenceStep, FreshStep, SignaturesStep DEF OpsInv

LEMMA InitOps == OpsInit => OpsInv
  <1> SUFFICES ASSUME OpsInit PROVE OpsInv
    OBVIOUS
  <1>1. /\ TypeOK /\ References /\ BroadcastHeld /\ RequestRefs
    BY InitInductive, AuthorizedRefs DEF OpsInit, Inductive
  <1>2. /\ RecordIds = {} /\ JobIds = {} /\ Len(chain) = 0
        /\ requests = [h \in Handlers |-> IdleRequest]
        /\ patchStates = [u \in Uids |-> Unregistered]
    BY EmptySeq DEF OpsInit, Init, RecordIds, JobIds
  <1>3. OpsTypeOK /\ OperatorRefs
    BY <1>1 DEF OpsInit, OpsTypeOK, OperatorRefs, NoBatch, NoRepair, Batch, Repair
  <1>4. Fresh
    <2>1. \A t \in Named : t = NoTx
      BY <1>2 DEF Named, IdleRequest, Unregistered
    <2> QED
      BY <1>2, <2>1 DEF Fresh, NoTx
  <1>5. Signatures
    BY <1>2 DEF Signatures, IdleRequest
  <1>6. HeadRecorded /\ Evidenced
    BY <1>2 DEF HeadRecorded, Evidenced, Confirmed
  <1> QED
    BY <1>1, <1>3, <1>4, <1>5, <1>6 DEF OpsInv

-----------------------------------------------------------------------------
(* PatchOperations: the theorems *)

THEOREM OpsInvariant == OpsSpec => []OpsInv
  BY InitOps, OpsStep, PTL DEF OpsSpec

\* The stores of the system and what batches and repairs hold keep their types.
THEOREM OpsTypeCorrect == OpsSpec => []OpsTypeOK
  BY OpsInvariant, PTL DEF OpsInv

\* The transaction on file is the txid of a record of that patch and owner, for
\* any number of batches and repairs: none of them writes a txid.
THEOREM HeadIsRecorded == OpsSpec => []HeadRecorded
  BY OpsInvariant, PTL DEF OpsInv

\* Nothing is confirmed that the chain does not carry, by itself or under a root.
THEOREM ConfirmedHasEvidence == OpsSpec => []Evidenced
  BY OpsInvariant, PTL DEF OpsInv

\* Whatever operators do, a patch changes hands only by a registration or by a
\* transfer from the transaction on file that the owner on file signed.
THEOREM HolderHandsOver == OpsSpec => HandedOverByHolder
  <1> DEFINE ByHolder ==
        \A u \in Uids :
          patchStates'[u] # patchStates[u] =>
              \E r \in RecordIds :
                  /\ records[r].uid = u
                  /\ records'[r].txid = patchStates'[u].current_txid
                  /\ records'[r].owner = patchStates'[u].current_owner_address
                  /\ \/ records[r].type = "REGISTRATION"
                     \/ /\ records[r].previous_txid = patchStates[u].current_txid
                        /\ records[r].signer = patchStates[u].current_owner_address
  <1>1. OpsInv /\ [OpsNext]_allVars => [ByHolder]_allVars
    <2> SUFFICES ASSUME OpsInv, [OpsNext]_allVars PROVE ByHolder
      OBVIOUS
    <2> USE OpsParts
    <2>1. CASE UNCHANGED patchStates
      BY <2>1
    <2>2. ASSUME NEW j \in JobIds, Settles(j)
          PROVE  ByHolder
      <3> DEFINE r == jobs[j].record
                 t == jobs[j].txid
      <3>1. /\ r \in RecordIds /\ records'[r].txid = t /\ Kept(r)
            /\ patchStates'[records[r].uid].current_txid = t
            /\ patchStates'[records[r].uid].current_owner_address = records[r].owner
            /\ \A u \in Uids : u # records[r].uid => patchStates'[u] = patchStates[u]
        BY <2>2, SettlesEffect
      <3>2. StateMatches(r)
        BY <2>2 DEF Settles
      <3> HIDE DEF r, t
      <3>3. \/ records[r].type = "REGISTRATION"
            \/ /\ records[r].previous_txid = patchStates[records[r].uid].current_txid
               /\ records[r].signer = patchStates[records[r].uid].current_owner_address
        <4>1. records[r].type \in {"REGISTRATION", "TRANSFER"}
          BY <3>1, RowTypes DEF Record
        <4> QED
          BY <3>1, <3>2, <4>1 DEF StateMatches, Signatures, Holds
      <3> QED
        BY <3>1, <3>3 DEF Kept
    <2> QED
      BY <2>1, <2>2, OpsTurn DEF Calm, Sends
  <1>2. OpsSpec => [][ByHolder]_allVars
    BY <1>1, OpsInvariant, PTL DEF OpsSpec
  <1> QED
    BY <1>2 DEF HandedOverByHolder

-----------------------------------------------------------------------------
(* PatchOperations: without batches, custody is kept *)

\* Repairs and reports write no confirmed record, and none of what requests and
\* transactions say.
LEMMA RepairsFrame ==
    ASSUME OpsInv,
           \/ \E w \in Repairers : RepairStep(w)
           \/ \E j \in JobIds : ReportStep(j)
    PROVE  /\ RecordIds' = RecordIds /\ Confirmed' = Confirmed
           /\ \A r \in RecordIds : Kept(r)
           /\ \A r \in Confirmed : records'[r] = records[r]
           /\ UNCHANGED <<patchStates, chain, requests>>
  <1> USE OpsParts
  <1>1. CASE UNCHANGED <<records, patchStates, chain, requests>>
    BY <1>1 DEF RecordIds, Confirmed, Kept
  <1>2. ASSUME NEW w \in Repairers, RevertStuck(w)
        PROVE  /\ RecordIds' = RecordIds /\ Confirmed' = Confirmed
               /\ \A r \in RecordIds : Kept(r)
               /\ \A r \in Confirmed : records'[r] = records[r]
               /\ UNCHANGED <<patchStates, chain, requests>>
    <2> DEFINE S == {r \in RecordIds :
                       [record |-> r, status |-> records[r].status] \in repairs[w].candidates}
    <2>1. records' = [r \in RecordIds |->
             IF r \in S THEN [records[r] EXCEPT !.status = "pending"] ELSE records[r]]
      BY <1>2 DEF RevertStuck, Reverted
    <2>2. \A c \in repairs[w].candidates : c.status \in {"failed", "anchoring"}
      BY DEF OpsTypeOK, Repair
    <2>3. \A r \in S : r \notin Confirmed
      BY <2>2 DEF Confirmed
    <2> HIDE DEF S
    <2>4. /\ RecordIds' = RecordIds
          /\ \A r \in RecordIds :
                /\ Kept(r) /\ records'[r].txid = records[r].txid
                /\ r \in S => records'[r].status = "pending"
                /\ r \notin S => records'[r] = records[r]
      BY <2>1, StatusSet, Zenon
    <2> QED
      BY <1>2, <2>3, <2>4 DEF RevertStuck, Confirmed
  <1>3. ASSUME NEW w, FindStuck(w) \/ RequeueStuck(w) \/ RepairDies(w)
        PROVE  UNCHANGED <<records, patchStates, chain, requests>>
    BY <1>3 DEF FindStuck, RequeueStuck, RepairDies, vars
  <1>4. ASSUME NEW j, ReportStep(j)
        PROVE  UNCHANGED <<records, patchStates, chain, requests>>
    BY <1>4 DEF ReportStep, RetryFailedJob, RequeueFailedJob
  <1> QED
    BY <1>1, <1>2, <1>3, <1>4 DEF RepairStep

\* So what PatchLifecycleProofs shows goes on holding.
LEMMA RepairsKeepInductive ==
    ASSUME OpsInv, Inductive, [OpsNext]_allVars,
           \/ \E w \in Repairers : RepairStep(w)
           \/ \E j \in JobIds : ReportStep(j)
    PROVE  Inductive' /\ UNCHANGED C!custodyVars
  <1>1. /\ RecordIds' = RecordIds /\ Confirmed' = Confirmed
        /\ \A r \in RecordIds : Kept(r)
        /\ \A r \in Confirmed : records'[r] = records[r]
        /\ UNCHANGED <<patchStates, chain, requests>>
    BY RepairsFrame
  <1>2. TypeOK' /\ References' /\ BroadcastHeld'
    BY TypesStep, RefsStep
  <1>3. Custodial' /\ AuthorizedRequests'
    BY <1>1, InductiveIsSound, DataFrame, RequestFrame DEF Sound
  <1>4. Confirmed \subseteq RecordIds
    BY DEF Confirmed
  <1>5. AuthorizedTransfers'
    BY <1>1, <1>4 DEF Inductive, AuthorizedTransfers, MadeFrom, HeldAt, Kept
  <1>6. SignedByHolder'
    BY <1>1 DEF Inductive, SignedByHolder
  <1>7. UNCHANGED C!custodyVars
    BY <1>1 DEF C!custodyVars, Links, Heads
  <1> QED
    BY <1>2, <1>3, <1>5, <1>6, <1>7 DEF Inductive, Custodial

\* Repairs and requeues of failed work never cost an owner the patch, as long as
\* no batch confirms records of its own accord.
THEOREM RepairsKeepCustody ==
    ASSUME Scripts \cup Admins = {}
    PROVE  OpsSpec => KeepsCustody
  <1>1. OpsInit => Inductive /\ C!CustodyInit
    BY InitInductive, CustodyStarts DEF OpsInit
  <1>2. OpsInv /\ Inductive /\ [OpsNext]_allVars =>
           Inductive' /\ [C!CustodyNext]_(C!custodyVars)
    <2> SUFFICES ASSUME OpsInv, Inductive, [OpsNext]_allVars
                 PROVE  Inductive' /\ [C!CustodyNext]_(C!custodyVars)
      OBVIOUS
    <2>1. CASE [Next]_vars
      BY <2>1, InductiveStep, CustodyMoves
    <2>2. CASE \/ \E w \in Repairers : RepairStep(w)
               \/ \E j \in JobIds : ReportStep(j)
      BY <2>2, RepairsKeepInductive
    <2> QED
      BY <2>1, <2>2 DEF OpsNext, allVars
  <1>3. OpsSpec => []Inductive
    BY <1>1, <1>2, OpsInvariant, PTL DEF OpsSpec
  <1> QED
    BY <1>1, <1>2, <1>3, OpsInvariant, PTL DEF OpsSpec, KeepsCustody, C!CustodySpec

-----------------------------------------------------------------------------
(* PosClaims: why a claim is honoured *)

\* The transfer that claim i asks for.
ClaimOf(r, i) ==
    /\ r \in RecordIds /\ i \in DOMAIN intents
    /\ records[r].type = "TRANSFER"
    /\ records[r].uid = intents[i].uid
    /\ records[r].owner = intents[i].customer

\* Nobody signed transfer r, but the customer it goes to has claimed it.
Claimed(r) ==
    /\ records[r].signer = NoAddress
    /\ \E i \in DOMAIN intents : /\ intents[i].uid = records[r].uid
                                /\ intents[i].customer = records[r].owner

\* What an approval holds between two awaits is of the intent it began with.
ApprovalsHold ==
    \A p \in Approvals :
        /\ approvals[p].step # "idle" => approvals[p].intent \in DOMAIN intents
        /\ approvals[p].step = "read" =>
              /\ approvals[p].source \in Confirmed
              /\ records[approvals[p].source].uid = intents[approvals[p].intent].uid
        /\ approvals[p].step = "created" =>
              ClaimOf(approvals[p].record, approvals[p].intent)

\* A job with posIntentId serves the transfer of that intent, its requeues too.
JobsLinked == \A j \in JobIds : links[j] # 0 => ClaimOf(jobs[j].record, links[j])

\* Until it returns, a job knows a transaction that carries its record.
TxHeld ==
    \A j \in JobIds :
        jobs[j].stage = "return" =>
            jobs[j].txid \in DOMAIN chain /\ chain[jobs[j].txid] = jobs[j].record

\* Any transfer, whatever its status, was made from a confirmed link, and signed
\* by its owner, unless the patch has moved on since, or claimed.
SignedOrClaimed ==
    \A r \in RecordIds :
        records[r].type = "TRANSFER" =>
            \E q \in Confirmed :
                MadeFrom(r, q) /\ (HeldAt(q, records[r].signer) \/ Claimed(r))

ClaimInv ==
    /\ Sound /\ Returned /\ PosTypeOK /\ ApprovalsHold /\ JobsLinked /\ TxHeld
    /\ SignedOrClaimed /\ HandedOverOrClaimed /\ ClaimHonoured

-----------------------------------------------------------------------------
(* PosClaims: intents *)

\* What no step ever changes in an intent.
IntentsKept ==
    /\ intents' \in Seq(Intent)
    /\ DOMAIN intents \subseteq DOMAIN intents'
    /\ \A i \in DOMAIN intents : /\ intents'[i].uid = intents[i].uid
                                /\ intents'[i].customer = intents[i].customer

\* Who writes that an intent is confirmed: its job, just before it returns.
ConfirmedByJob ==
    \A i \in DOMAIN intents' :
        intents'[i].status = "confirmed" =>
            /\ i \in DOMAIN intents
            /\ \/ intents[i].status = "confirmed" /\ intents'[i].txid = intents[i].txid
               \/ \E j \in JobIds : /\ links[j] = i /\ jobs[j].stage = "return"
                                   /\ intents'[i].txid = jobs[j].txid

Statuses == {"pending", "approved", "confirmed", "failed", "expired"}

LEMMA SavedType ==
    ASSUME NEW intent \in Intent, NEW status \in Statuses
    PROVE  /\ Saved(intent, status) \in Intent
           /\ Saved(intent, status).status = status
           /\ Saved(intent, status).uid = intent.uid
           /\ Saved(intent, status).customer = intent.customer
           /\ Saved(intent, status).txid = intent.txid
  BY DEF Saved, Intent, Statuses

LEMMA SavedWithTxid ==
    ASSUME NEW intent \in Intent, NEW status \in Statuses, NEW txid \in Nat
    PROVE  \E new \in Intent :
              /\ new = [Saved(intent, status) EXCEPT !.txid = txid]
              /\ new.status = status /\ new.txid = txid
              /\ new.uid = intent.uid /\ new.customer = intent.customer
  <1>1. PICK saved \in Intent : /\ saved = Saved(intent, status)
                                /\ saved.status = status
                                /\ saved.uid = intent.uid
                                /\ saved.customer = intent.customer
    BY SavedType
  <1>2. LET new == [saved EXCEPT !.txid = txid] IN
        /\ new \in Intent
        /\ new.status = saved.status /\ new.txid = txid
        /\ new.uid = saved.uid /\ new.customer = saved.customer
    BY DEF Intent
  <1> QED
    BY <1>1, <1>2, Zenon

LEMMA IntentUpdated ==
    ASSUME intents \in Seq(Intent), NEW i \in DOMAIN intents, NEW new \in Intent,
           new.uid = intents[i].uid, new.customer = intents[i].customer,
           intents' = [intents EXCEPT ![i] = new]
    PROVE  /\ IntentsKept
           /\ DOMAIN intents' = DOMAIN intents
           /\ intents'[i] = new
           /\ \A k \in DOMAIN intents : k # i => intents'[k] = intents[k]
  BY UpdateRow DEF IntentsKept

LEMMA IntentsSame ==
    ASSUME PosTypeOK, UNCHANGED intents
    PROVE  IntentsKept /\ ConfirmedByJob
  BY DEF PosTypeOK, IntentsKept, ConfirmedByJob

LEMMA IntentRow ==
    ASSUME PosTypeOK, NEW i \in DOMAIN intents
    PROVE  intents[i] \in Intent
  BY LenProperties DEF PosTypeOK

\* The worker's update of an intent.
LEMMA SetIntentEffect ==
    ASSUME PosTypeOK, NEW j \in JobIds, NEW status \in Statuses, NEW txid \in Nat,
           SetIntent(j, status, txid),
           status = "confirmed" => jobs[j].stage = "return" /\ txid = jobs[j].txid
    PROVE  IntentsKept /\ ConfirmedByJob
  <1>1. CASE UNCHANGED intents
    BY <1>1, IntentsSame
  <1>2. CASE /\ links[j] # 0
             /\ intents' = [intents EXCEPT ![links[j]] =
                               [Saved(@, status) EXCEPT !.txid = txid]]
    <2>1. PICK i \in DOMAIN intents : i = links[j]
      BY <1>2, LenProperties DEF PosTypeOK
    <2>2. PICK intent \in Intent : intent = intents[i]
      BY IntentRow
    <2>3. PICK new \in Intent : /\ new = [Saved(intent, status) EXCEPT !.txid = txid]
                                /\ new.status = status /\ new.txid = txid
                                /\ new.uid = intent.uid /\ new.customer = intent.customer
      BY SavedWithTxid
    <2>4. intents' = [intents EXCEPT ![i] = new]
      BY <1>2, <2>1, <2>2, <2>3, Zenon
    <2>5. /\ IntentsKept
          /\ DOMAIN intents' = DOMAIN intents
          /\ intents'[i] = new
          /\ \A k \in DOMAIN intents : k # i => intents'[k] = intents[k]
      BY <2>2, <2>3, <2>4, IntentUpdated DEF PosTypeOK
    <2>6. ASSUME NEW k \in DOMAIN intents', intents'[k].status = "confirmed"
          PROVE  \/ intents[k].status = "confirmed" /\ intents'[k].txid = intents[k].txid
                 \/ links[j] = k /\ jobs[j].stage = "return" /\ intents'[k].txid = jobs[j].txid
      <3>1. CASE k = i
        BY <2>1, <2>3, <2>5, <2>6, <3>1
      <3>2. CASE k # i
        BY <2>5, <2>6, <3>2
      <3> QED
        BY <3>1, <3>2
    <2> QED
      BY <2>5, <2>6 DEF ConfirmedByJob
  <1> QED
    BY <1>1, <1>2 DEF SetIntent

\* An approval's save.
LEMMA SaveEffect ==
    ASSUME PosTypeOK, NEW i \in DOMAIN intents, NEW status \in Statuses \ {"confirmed"},
           intents' = [intents EXCEPT ![i] = Saved(@, status)]
    PROVE  IntentsKept /\ ConfirmedByJob
  <1>1. PICK new \in Intent : /\ new = Saved(intents[i], status)
                              /\ new.status = status
                              /\ new.uid = intents[i].uid
                              /\ new.customer = intents[i].customer
    BY IntentRow, SavedType
  <1>2. /\ IntentsKept
        /\ DOMAIN intents' = DOMAIN intents
        /\ intents'[i] = new
        /\ \A k \in DOMAIN intents : k # i => intents'[k] = intents[k]
    BY <1>1, IntentUpdated DEF PosTypeOK
  <1> QED
    BY <1>1, <1>2 DEF ConfirmedByJob

LEMMA IntentTurn ==
    ASSUME TypeOK, PosTypeOK, ApprovalsHold, [PosNext]_posVars
    PROVE  IntentsKept /\ ConfirmedByJob
  <1>1. CASE CreateIntent
    <2>1. PICK u \in Uids, customer \in Addresses :
             intents' = Append(intents,
                [status |-> "pending", uid |-> u, customer |-> customer, late |-> FALSE,
                 txid |-> NoTx])
      BY <1>1 DEF CreateIntent
    <2>2. PICK new \in Intent : new.status = "pending" /\ intents' = Append(intents, new)
      BY <2>1 DEF Intent, NoTx
    <2> QED
      BY <2>2, AppendRow DEF PosTypeOK, IntentsKept, ConfirmedByJob
  <1>2. ASSUME NEW i \in DOMAIN intents, IntentAges(i)
        PROVE  IntentsKept /\ ConfirmedByJob
    <2>1. intents[i] \in Intent
      BY IntentRow
    <2> DEFINE aged == [intents[i] EXCEPT !.late = TRUE]
    <2>a. /\ aged \in Intent /\ aged.status = intents[i].status
          /\ aged.uid = intents[i].uid /\ aged.customer = intents[i].customer
      BY <2>1 DEF Intent
    <2>2. PICK new \in Intent : /\ new = aged
                                /\ new.status = intents[i].status
                                /\ new.uid = intents[i].uid
                                /\ new.customer = intents[i].customer
      BY <2>a, Zenon
    <2>3. intents' = [intents EXCEPT ![i] = new] /\ new.status = "pending"
      BY <1>2, <2>2 DEF IntentAges
    <2>4. /\ IntentsKept
          /\ DOMAIN intents' = DOMAIN intents
          /\ intents'[i] = new
          /\ \A k \in DOMAIN intents : k # i => intents'[k] = intents[k]
      BY <2>2, <2>3, IntentUpdated DEF PosTypeOK
    <2> QED
      BY <2>3, <2>4 DEF ConfirmedByJob
  <1>3. ASSUME NEW p \in Approvals, ExpireIntent(p) \/ ApproveIntent(p)
        PROVE  IntentsKept /\ ConfirmedByJob
    <2>1. PICK i \in DOMAIN intents : i = approvals[p].intent
      BY <1>3 DEF ApprovalsHold, ExpireIntent, ApproveIntent
    <2>2. \/ intents' = [intents EXCEPT ![i] = Saved(@, "expired")]
          \/ intents' = [intents EXCEPT ![i] = Saved(@, "approved")]
      BY <1>3, <2>1 DEF ExpireIntent, ApproveIntent
    <2> QED
      BY <2>2, SaveEffect DEF Statuses
  <1>4. ASSUME NEW j \in JobIds, ClaimFollows(j)
        PROVE  IntentsKept /\ ConfirmedByJob
    <2>1. jobs[j].txid \in Nat
      BY RowTypes DEF Job
    <2>2. CASE links[j] = 0
      BY <1>4, <2>2, IntentsSame DEF ClaimFollows, SetIntent
    <2>3. CASE links[j] # 0 /\ MarkFailed(j) /\ SetIntent(j, "failed", intents[links[j]].txid)
      <3>1. links[j] \in DOMAIN intents
        BY <2>3, LenProperties DEF PosTypeOK
      <3>2. intents[links[j]].txid \in Nat
        BY <3>1, IntentRow DEF Intent
      <3> QED
        BY <2>3, <3>2, SetIntentEffect DEF Statuses
    <2>4. CASE InStage(j, "return") /\ SetIntent(j, "confirmed", jobs[j].txid)
      BY <2>1, <2>4, SetIntentEffect DEF Statuses, InStage
    <2> QED
      BY <1>4, <2>2, <2>3, <2>4 DEF ClaimFollows, JobReturns
  <1> QED
    BY <1>1, <1>2, <1>3, <1>4, IntentsSame
    DEF PosNext, posVars, claimVars, FindIntent, ReadHead, CreateClaim, EnqueueClaim,
        AbandonApproval, ClaimUntouched


-----------------------------------------------------------------------------
(* PosClaims: approvals *)

\* The approval of a claim that has become a record.
LEMMA CreatedApproval ==
    ASSUME NEW a \in Approval, NEW n \in Nat
    PROVE  LET b == [a EXCEPT !.step = "created", !.source = NoRecord, !.record = n] IN
           b \in Approval /\ b.step = "created" /\ b.record = n /\ b.intent = a.intent
  BY DEF Approval, NoRecord

LEMMA ApprovalUpdated ==
    ASSUME PosTypeOK, NEW p \in Approvals, NEW a \in Approval,
           approvals' = [approvals EXCEPT ![p] = a]
    PROVE  /\ approvals' \in [Approvals -> Approval]
           /\ approvals'[p] = a
           /\ \A q \in Approvals : q # p => approvals'[q] = approvals[q]
  BY DEF PosTypeOK

\* The record of a claim is created, from what its approval has read.
ClaimCreated(p) ==
    /\ approvals[p].step = "read"
    /\ records' = Append(records,
          ClaimTransfer(records[approvals[p].source], intents[approvals[p].intent]))
    /\ UNCHANGED <<patchStates, requests, jobs, chain, failedEvents, reverted, intents, links>>

\* The job of a claim is queued.
ClaimQueued(p) ==
    /\ approvals[p].step = "created"
    /\ jobs' = Append(jobs, NewJob(approvals[p].record, 0))
    /\ links' = Append(links, approvals[p].intent)
    /\ UNCHANGED <<records, patchStates, requests, chain, failedEvents, reverted, intents>>

\* Where an approval may get in one step.
Approves(p) ==
    LET a == approvals'[p] IN
    \/ a = approvals[p] \/ a.step = "idle"
    \/ a.step \in {"found", "expiring"} /\ a.intent \in DOMAIN intents
    \/ a.step = "queued" /\ approvals[p].step = "created" /\ a.intent = approvals[p].intent
    \/ /\ a.step = "read" /\ approvals[p].step = "found" /\ a.intent = approvals[p].intent
       /\ a.source \in Confirmed
       /\ records[a.source].uid = intents[a.intent].uid
    \/ /\ a.step = "created" /\ a.intent = approvals[p].intent
       /\ a.record = Len(records) + 1 /\ ClaimCreated(p)

LEMMA ApprovalTurn ==
    ASSUME TypeOK, PosTypeOK, [PosNext]_posVars
    PROVE  approvals' \in [Approvals -> Approval] /\ \A p \in Approvals : Approves(p)
  <1>0. /\ \A p \in Approvals : approvals[p] \in Approval
        /\ IdleApproval \in Approval /\ IdleApproval.step = "idle"
        /\ Len(records) \in Nat
    BY LenProperties DEF TypeOK, PosTypeOK, Approval, IdleApproval, NoRecord
  <1>1. ASSUME UNCHANGED approvals
        PROVE  approvals' \in [Approvals -> Approval] /\ \A p \in Approvals : Approves(p)
    BY <1>1 DEF PosTypeOK, Approves
  <1>2. ASSUME NEW p \in Approvals, NEW a \in Approval,
               approvals' = [approvals EXCEPT ![p] = a], approvals'[p] = a => Approves(p)
        PROVE  approvals' \in [Approvals -> Approval] /\ \A q \in Approvals : Approves(q)
    BY <1>2, ApprovalUpdated DEF Approves
  <1>3. ASSUME NEW p \in Approvals, FindIntent(p)
        PROVE  approvals' \in [Approvals -> Approval] /\ \A q \in Approvals : Approves(q)
    <2>1. PICK i \in DOMAIN intents :
             approvals' = [approvals EXCEPT ![p] =
                [IdleApproval EXCEPT !.intent = i,
                                     !.step = IF intents[i].late THEN "expiring" ELSE "found"]]
      BY <1>3 DEF FindIntent
    <2>2. PICK step \in {"found", "expiring"} :
             step = IF intents[i].late THEN "expiring" ELSE "found"
      OBVIOUS
    <2>3. i \in Nat
      BY LenProperties DEF PosTypeOK
    <2>4. PICK idle \in Approval : idle = IdleApproval
      BY <1>0
    <2> DEFINE a == [idle EXCEPT !.intent = i, !.step = step]
    <2>5. a \in Approval /\ a.step = step /\ a.intent = i
      BY <2>2, <2>3, <2>4 DEF Approval
    <2>6. approvals' = [approvals EXCEPT ![p] = a]
      BY <2>1, <2>2, <2>4, Zenon
    <2> HIDE DEF a
    <2>7. approvals'[p] = a
      BY <2>5, <2>6, ApprovalUpdated
    <2>8. Approves(p)
      BY <2>2, <2>5, <2>7 DEF Approves
    <2> QED
      BY <1>2, <2>5, <2>6, <2>8
  <1>4. ASSUME NEW p \in Approvals, approvals' = [approvals EXCEPT ![p] = IdleApproval]
        PROVE  approvals' \in [Approvals -> Approval] /\ \A q \in Approvals : Approves(q)
    BY <1>0, <1>2, <1>4 DEF Approves
  <1>5. ASSUME NEW p \in Approvals, ReadHead(p)
        PROVE  approvals' \in [Approvals -> Approval] /\ \A q \in Approvals : Approves(q)
    <2>1. PICK r \in Confirmed :
             /\ records[r].uid = intents[approvals[p].intent].uid
             /\ approvals' = [approvals EXCEPT ![p].step = "read", ![p].source = r]
      BY <1>5 DEF ReadHead
    <2>2. approvals[p].step = "found" /\ r \in Nat
      BY <1>5, RowTypes DEF ReadHead, Confirmed
    <2>3. PICK a \in Approval : /\ approvals' = [approvals EXCEPT ![p] = a]
                                /\ a.step = "read" /\ a.source = r
                                /\ a.intent = approvals[p].intent
      <3> DEFINE a == [approvals[p] EXCEPT !.step = "read", !.source = r]
      <3>1. /\ a \in Approval /\ a.step = "read" /\ a.source = r
            /\ a.intent = approvals[p].intent
        BY <1>0, <2>2 DEF Approval
      <3>2. approvals' = [approvals EXCEPT ![p] = a]
        BY <2>1 DEF PosTypeOK
      <3> QED
        BY <3>1, <3>2, Zenon
    <2>4. approvals'[p] = a
      BY <2>3, ApprovalUpdated
    <2>5. Approves(p)
      BY <2>1, <2>2, <2>3, <2>4 DEF Approves
    <2> QED
      BY <1>2, <2>3, <2>5
  <1>6. ASSUME NEW p \in Approvals, CreateClaim(p), ClaimCreated(p),
               approvals' = [approvals EXCEPT ![p].step = "created", ![p].source = NoRecord,
                                              ![p].record = Len(records) + 1]
        PROVE  approvals' \in [Approvals -> Approval] /\ \A q \in Approvals : Approves(q)
    <2>1. PICK a \in Approval : /\ approvals' = [approvals EXCEPT ![p] = a]
                                /\ a.step = "created" /\ a.record = Len(records) + 1
                                /\ a.intent = approvals[p].intent
      <3> DEFINE new == Len(records) + 1
                 a == [approvals[p] EXCEPT !.step = "created", !.source = NoRecord,
                                           !.record = new]
      <3>a. new \in Nat
        BY <1>0
      <3> HIDE DEF new
      <3>1. /\ a \in Approval /\ a.step = "created" /\ a.record = new
            /\ a.intent = approvals[p].intent
        BY <1>0, <3>a, CreatedApproval, Zenon
      <3> USE DEF new
      <3>2. approvals' = [approvals EXCEPT ![p] = a]
        BY <1>6 DEF PosTypeOK
      <3> QED
        BY <3>1, <3>2, Zenon
    <2>2. approvals'[p] = a
      BY <2>1, ApprovalUpdated
    <2>3. Approves(p)
      BY <1>6, <2>1, <2>2 DEF Approves
    <2> QED
      BY <1>2, <2>1, <2>3
  <1>7. ASSUME NEW p \in Approvals, EnqueueClaim(p)
        PROVE  approvals' \in [Approvals -> Approval] /\ \A q \in Approvals : Approves(q)
    <2>1. /\ approvals[p].step = "created"
          /\ approvals' = [approvals EXCEPT ![p].step = "queued", ![p].record = NoRecord]
      BY <1>7 DEF EnqueueClaim
    <2>2. PICK a \in Approval : /\ approvals' = [approvals EXCEPT ![p] = a]
                                /\ a.step = "queued"
                                /\ a.intent = approvals[p].intent
      <3> DEFINE a == [approvals[p] EXCEPT !.step = "queued", !.record = NoRecord]
      <3>1. a \in Approval /\ a.step = "queued" /\ a.intent = approvals[p].intent
        BY <1>0 DEF Approval, NoRecord
      <3>2. approvals' = [approvals EXCEPT ![p] = a]
        BY <2>1 DEF PosTypeOK
      <3> QED
        BY <3>1, <3>2, Zenon
    <2>3. approvals'[p] = a
      BY <2>2, ApprovalUpdated
    <2>4. Approves(p)
      BY <2>1, <2>2, <2>3 DEF Approves
    <2> QED
      BY <1>2, <2>2, <2>4
  <1>8. ASSUME NEW p \in Approvals, CreateClaim(p)
        PROVE  approvals' \in [Approvals -> Approval] /\ \A q \in Approvals : Approves(q)
    <2>1. CASE approvals' = [approvals EXCEPT ![p] = IdleApproval]
      BY <1>4, <2>1
    <2>2. CASE /\ ClaimCreated(p)
               /\ approvals' = [approvals EXCEPT ![p].step = "created", ![p].source = NoRecord,
                                                 ![p].record = Len(records) + 1]
      BY <1>6, <1>8, <2>2
    <2> QED
      BY <1>8, <2>1, <2>2, Zenon DEF CreateClaim, ClaimCreated
  <1>9. ASSUME NEW p \in Approvals,
               ExpireIntent(p) \/ ApproveIntent(p) \/ AbandonApproval(p)
        PROVE  approvals' \in [Approvals -> Approval] /\ \A q \in Approvals : Approves(q)
    BY <1>4, <1>9 DEF ExpireIntent, ApproveIntent, AbandonApproval
  <1>10. ASSUME NEW i, CreateIntent \/ IntentAges(i)
         PROVE  UNCHANGED approvals
    BY <1>10 DEF CreateIntent, IntentAges
  <1> QED
    BY <1>1, <1>3, <1>5, <1>7, <1>8, <1>9, <1>10
    DEF PosNext, posVars, claimVars

\* Whatever the claims do to records and jobs: nothing that the handlers and the
\* workers do not do, but create a record or queue a job.
LEMMA PosTurn ==
    ASSUME [PosNext]_posVars
    PROVE  \/ [Next]_vars
           \/ \E p \in Approvals : ClaimCreated(p) \/ ClaimQueued(p)
  <1>1. ASSUME NEW p \in Approvals, CreateClaim(p)
        PROVE  [Next]_vars \/ ClaimCreated(p)
    BY <1>1, Zenon DEF CreateClaim, ClaimCreated, vars
  <1>2. ASSUME NEW p \in Approvals, EnqueueClaim(p)
        PROVE  ClaimQueued(p)
    BY <1>2 DEF EnqueueClaim, ClaimQueued
  <1>3. ASSUME NEW p \in Approvals,
               FindIntent(p) \/ ExpireIntent(p) \/ ReadHead(p) \/ ApproveIntent(p)
               \/ AbandonApproval(p)
        PROVE  UNCHANGED vars
    BY <1>3 DEF FindIntent, ExpireIntent, ReadHead, ApproveIntent, AbandonApproval
  <1>4. ASSUME NEW i, CreateIntent \/ IntentAges(i)
        PROVE  UNCHANGED vars
    BY <1>4 DEF CreateIntent, IntentAges
  <1>5. ASSUME NEW j \in JobIds, ClaimFollows(j) \/ ClaimUntouched(j)
        PROVE  Next
    BY <1>5 DEF ClaimFollows, ClaimUntouched, Next, JobRuns
  <1>6. ASSUME \/ \E h \in Handlers : HandlerStep(h)
               \/ \E w \in Workers, j \in JobIds : Recovery(w, j)
        PROVE  Next
    BY <1>6 DEF Next
  <1> QED
    BY <1>1, <1>2, <1>3, <1>4, <1>5, <1>6 DEF PosNext, posVars

\* The transfer of a claim: of the head that was read, to the customer, signed by
\* nobody.
LEMMA ClaimDoc ==
    ASSUME NEW source \in Record, NEW intent \in Intent, Len(records) \in Nat
    PROVE  \E doc \in Record :
              /\ doc = ClaimTransfer(source, intent)
              /\ doc.status = "pending" /\ doc.type = "TRANSFER"
              /\ doc.uid = source.uid /\ doc.previous_txid = source.txid
              /\ doc.owner = intent.customer /\ doc.signer = NoAddress
  <1> DEFINE customer == intent.customer
             now == Len(records) + 1
             copy == [source EXCEPT !.status = "pending", !.type = "TRANSFER",
                                    !.owner = customer, !.signer = NoAddress,
                                    !.previous_txid = source.txid, !.txid = NoTx, !.ts = now]
  <1>1. /\ customer \in Addresses /\ source.txid \in Nat
        /\ now \in Nat /\ NoTx \in Nat
    BY DEF Intent, Record, NoTx
  <1>4. ClaimTransfer(source, intent) = [copy EXCEPT !.signedTs = 0]
    BY DEF ClaimTransfer, TransferOf
  <1> HIDE DEF customer, now
  <1>3. /\ copy \in Record
        /\ copy.status = "pending" /\ copy.type = "TRANSFER"
        /\ copy.uid = source.uid /\ copy.previous_txid = source.txid
        /\ copy.owner = customer /\ copy.signer = NoAddress
    BY <1>1 DEF Record
  <1> HIDE DEF copy
  <1> DEFINE doc == [copy EXCEPT !.signedTs = 0]
  <1>5. /\ doc \in Record
        /\ doc.status = copy.status /\ doc.type = copy.type
        /\ doc.uid = copy.uid /\ doc.previous_txid = copy.previous_txid
        /\ doc.owner = copy.owner /\ doc.signer = copy.signer
    BY <1>3 DEF Record
  <1> QED
    BY <1>3, <1>4, <1>5, Zenon DEF customer

-----------------------------------------------------------------------------
(* PosClaims: a claim is a transfer like any other *)

\* What the approval of a claim creates: a transfer that nobody signed, of a head
\* that was confirmed, to a customer who claims it.
LEMMA ClaimEffect ==
    ASSUME TypeOK, PosTypeOK, ApprovalsHold, NEW p \in Approvals, ClaimCreated(p)
    PROVE  \E doc \in Record, q \in Confirmed, i \in DOMAIN intents :
              /\ i = approvals[p].intent
              /\ records' = Append(records, doc)
              /\ doc.status = "pending" /\ doc.type = "TRANSFER"
              /\ doc.previous_txid = records[q].txid /\ doc.uid = records[q].uid
              /\ doc.signer = NoAddress
              /\ doc.uid = intents[i].uid /\ doc.owner = intents[i].customer
  <1>1. PICK i \in DOMAIN intents : i = approvals[p].intent
    BY DEF ClaimCreated, ApprovalsHold
  <1>2. PICK q \in Confirmed : q = approvals[p].source /\ records[q].uid = intents[i].uid
    BY <1>1 DEF ClaimCreated, ApprovalsHold
  <1>3. /\ records[q] \in Record /\ intents[i] \in Intent /\ Len(records) \in Nat
        /\ records' = Append(records, ClaimTransfer(records[q], intents[i]))
    BY <1>1, <1>2, RowTypes, IntentRow, LenProperties DEF TypeOK, Confirmed, ClaimCreated
  <1>4. PICK doc \in Record :
              /\ doc = ClaimTransfer(records[q], intents[i])
              /\ doc.status = "pending" /\ doc.type = "TRANSFER"
              /\ doc.uid = records[q].uid /\ doc.previous_txid = records[q].txid
              /\ doc.owner = intents[i].customer /\ doc.signer = NoAddress
    BY <1>3, ClaimDoc
  <1> QED
    BY <1>1, <1>2, <1>3, <1>4

\* Custody, and the references between the stores, survive claims too.
LEMMA SoundStep ==
    ASSUME ClaimInv, [PosNext]_posVars
    PROVE  Sound'
  <1> USE DEF ClaimInv
  <1>1. CASE [Next]_vars
    BY <1>1, TypeStep, CustodyStep, SoundRefs DEF Sound
  <1>2. ASSUME NEW p \in Approvals, ClaimCreated(p)
        PROVE  Sound'
    <2>1. PICK doc \in Record, q \in Confirmed :
              /\ records' = Append(records, doc)
              /\ doc.status = "pending" /\ doc.type = "TRANSFER"
              /\ records[q].txid = doc.previous_txid /\ records[q].uid = doc.uid
      BY <1>2, ClaimEffect DEF Sound
    <2>2. UNCHANGED <<patchStates, requests, jobs, chain, failedEvents, reverted>>
      BY <1>2 DEF ClaimCreated
    <2>3. Custodial' /\ BroadcastHeld' /\ AuthorizedRequests'
      BY <2>1, <2>2, CreateCustody
    <2>4. records' \in Seq(Record) /\ RecordIds \subseteq RecordIds'
      BY <2>1, RecordAdded DEF Sound
    <2>5. TypeOK' /\ References'
      BY <2>2, <2>4 DEF Sound, TypeOK, References, JobIds
    <2> QED
      BY <2>3, <2>5 DEF Sound
  <1>3. ASSUME NEW p \in Approvals, ClaimQueued(p)
        PROVE  Sound'
    <2> DEFINE r == approvals[p].record
    <2>0. TypeOK /\ References /\ BroadcastHeld /\ AuthorizedRequests /\ Custodial
      BY DEF Sound
    <2>1. r \in RecordIds
      BY <1>3 DEF ClaimQueued, ApprovalsHold, ClaimOf
    <2>a. r \in Nat
      BY <2>0, <2>1, RowTypes
    <2>b. /\ NewJob(r, 0) \in Job
          /\ NewJob(r, 0).record = r /\ NewJob(r, 0).stage = "waiting"
      BY <2>a DEF NewJob, Job, Running, NoTx
    <2>2. PICK job \in Job : /\ jobs' = Append(jobs, job)
                             /\ job.record = r /\ job.stage = "waiting"
      BY <1>3, <2>b DEF ClaimQueued
    <2>3. UNCHANGED <<records, patchStates, requests, chain, failedEvents, reverted>>
      BY <1>3 DEF ClaimQueued
    <2>4. /\ jobs' \in Seq(Job)
          /\ JobIds \subseteq JobIds'
          /\ \A k \in JobIds' : jobs'[k].record \in RecordIds
          /\ \A k \in JobIds' :
                jobs'[k].stage = "confirm" => k \in JobIds /\ jobs'[k] = jobs[k]
      <3>1. /\ jobs' \in Seq(Job)
            /\ JobIds' = JobIds \cup {Len(jobs) + 1}
            /\ jobs'[Len(jobs) + 1] = job
            /\ \A k \in JobIds : jobs'[k] = jobs[k]
        BY <2>0, <2>2, JobAdded
      <3>2. \A k \in JobIds' : jobs'[k].record \in RecordIds
        BY <2>0, <2>1, <2>2, <3>1 DEF References
      <3>3. job.stage # "confirm"
        BY <2>2
      <3> QED
        BY <3>1, <3>2, <3>3, Zenon
    <2>5. TypeOK' /\ References'
      BY <2>0, <2>3, <2>4 DEF TypeOK, References, RecordIds
    <2>6. BroadcastHeld'
      BY <2>0, <2>3, <2>4, JobFrame
    <2>7. AuthorizedRequests'
      BY <2>0, <2>3, RequestFrame DEF Confirmed, RecordIds
    <2>8. Custodial'
      BY <2>0, <2>3, DataFrame DEF Confirmed, RecordIds, Kept
    <2> QED
      BY <2>5, <2>6, <2>7, <2>8 DEF Sound
  <1> QED
    BY <1>1, <1>2, <1>3, PosTurn

\* What no step of the whole takes back.
LEMMA PosGoesOn ==
    ASSUME ClaimInv, [PosNext]_posVars
    PROVE  /\ RecordIds \subseteq RecordIds' /\ \A r \in RecordIds : Kept(r)
           /\ \A q \in Confirmed : q \in Confirmed' /\ records'[q] = records[q]
           /\ \A q \in Confirmed : \A signer : HeldAt(q, signer) => HeldAt(q, signer)'
           /\ \A r \in RecordIds, q \in Confirmed : MadeFrom(r, q) => MadeFrom(r, q)'
           /\ \A t \in DOMAIN chain : t \in DOMAIN chain' /\ chain'[t] = chain[t]
           /\ \/ \E r \in RecordIds, t \in DOMAIN chain : Confirms(r, t)
              \/ Confirmed' = Confirmed
  <1> USE DEF ClaimInv
  <1>0. TypeOK /\ References /\ BroadcastHeld /\ RequestRefs
    BY SoundRefs
  <1>1. CASE [Next]_vars
    BY <1>0, <1>1, LinkStep, LinksGoOn, ChainGrows
  <1>2. ASSUME NEW p \in Approvals, ClaimCreated(p) \/ ClaimQueued(p)
        PROVE  /\ RecordIds \subseteq RecordIds'
               /\ \A r \in RecordIds : records'[r] = records[r]
               /\ Confirmed' = Confirmed
               /\ UNCHANGED <<patchStates, chain>>
    <2>1. CASE ClaimQueued(p)
      BY <2>1 DEF ClaimQueued, RecordIds, Confirmed
    <2>2. CASE ClaimCreated(p)
      <3>1. PICK doc \in Record : records' = Append(records, doc) /\ doc.status = "pending"
        BY <1>0, <2>2, ClaimEffect
      <3>2. UNCHANGED <<patchStates, chain>>
        BY <2>2 DEF ClaimCreated
      <3> QED
        BY <3>1, <3>2, NewRecord
    <2> QED
      BY <1>2, <2>1, <2>2
  <1>3. Confirmed \subseteq RecordIds
    BY DEF Confirmed
  <1>4. ASSUME NEW p \in Approvals, ClaimCreated(p) \/ ClaimQueued(p)
        PROVE  /\ \A r \in RecordIds : Kept(r)
               /\ \A q \in Confirmed : \A signer : HeldAt(q, signer) => HeldAt(q, signer)'
               /\ \A r \in RecordIds, q \in Confirmed : MadeFrom(r, q) => MadeFrom(r, q)'
    BY <1>2, <1>3, <1>4 DEF Kept, HeldAt, MadeFrom
  <1> QED
    BY <1>1, <1>2, <1>3, <1>4, PosTurn

\* A job keeps its record through its attempts.
LEMMA JobsSame ==
    ASSUME TypeOK, NEW j \in JobIds, JobRuns(j) \/ JobStalls(j)
    PROVE  JobIds' = JobIds /\ \A k \in JobIds : jobs'[k].record = jobs[k].record
  <1>1. ASSUME NEW stage \in Running \cup {"waiting", "completed", "failed"}, MoveTo(j, stage)
        PROVE  JobIds' = JobIds /\ \A k \in JobIds : jobs'[k].record = jobs[k].record
    BY <1>1, MoveToEffect
  <1>2. Len(chain) + 1 \in Nat
    BY LenProperties DEF TypeOK
  <1>3. CASE jobs' = [jobs EXCEPT ![j] = Holding(@, Len(chain) + 1)]
    BY <1>2, <1>3, BroadcastEffect
  <1>4. CASE JobThrows(j) \/ JobStalls(j)
    BY <1>4, FailEffect
  <1> QED
    BY <1>1, <1>3, <1>4
    DEF JobRuns, TakeJob, Broadcast, MarkFailed, MarkConfirmed, JobReturns, Running

\* What a job carries of its intent, after a step: what it had, what the job had
\* that it was made from, or what the approval had that queued it.
LEMMA LinksStep ==
    ASSUME ClaimInv, [PosNext]_posVars
    PROVE  /\ links' \in Seq(Nat) /\ DOMAIN links' = JobIds'
           /\ \A j \in JobIds' : links'[j] # 0 =>
                 \/ /\ j \in JobIds /\ links'[j] = links[j]
                    /\ jobs'[j].record = jobs[j].record
                 \/ \E k \in JobIds : /\ links'[j] = links[k]
                                     /\ jobs'[j].record = jobs[k].record
                 \/ \E p \in Approvals : /\ approvals[p].step = "created"
                                        /\ links'[j] = approvals[p].intent
                                        /\ jobs'[j].record = approvals[p].record
  <1>0. /\ TypeOK /\ References /\ BroadcastHeld /\ RequestRefs
        /\ links \in Seq(Nat) /\ DOMAIN links = JobIds /\ Len(links) = Len(jobs)
        /\ jobs \in Seq(Job) /\ Len(jobs) \in Nat
        /\ \A p \in Approvals : approvals[p] \in Approval
    <2>1. TypeOK /\ References /\ BroadcastHeld /\ RequestRefs /\ PosTypeOK
      BY SoundRefs DEF ClaimInv
    <2>2. jobs \in Seq(Job) /\ intents \in Seq(Intent) /\ links \in [JobIds -> 0..Len(intents)]
      BY <2>1 DEF TypeOK, PosTypeOK
    <2>3. /\ Len(jobs) \in Nat /\ JobIds = 1..Len(jobs) /\ Len(intents) \in Nat
      BY <2>2, LenProperties DEF JobIds
    <2>4. links \in [1..Len(jobs) -> Nat]
      BY <2>2, <2>3
    <2>5. links \in Seq(Nat)
      BY <2>3, <2>4, SeqDef, Zenon
    <2>6. Len(links) = Len(jobs)
      BY <2>3, <2>4, <2>5, LenProperties
    <2> QED
      BY <2>1, <2>2, <2>3, <2>4, <2>5, <2>6 DEF PosTypeOK
  <1>1. ASSUME NEW i \in Nat, NEW job \in Job,
               jobs' = Append(jobs, job), links' = Append(links, i)
        PROVE  /\ links' \in Seq(Nat) /\ DOMAIN links' = JobIds'
               /\ JobIds' = JobIds \cup {Len(jobs) + 1}
               /\ \A j \in JobIds : links'[j] = links[j] /\ jobs'[j] = jobs[j]
               /\ links'[Len(jobs) + 1] = i /\ jobs'[Len(jobs) + 1] = job
    <2>1. /\ JobIds' = JobIds \cup {Len(jobs) + 1}
          /\ jobs'[Len(jobs) + 1] = job
          /\ \A j \in JobIds : jobs'[j] = jobs[j]
      BY <1>0, <1>1, JobAdded
    <2>2. /\ links' \in Seq(Nat)
          /\ DOMAIN links' = DOMAIN links \cup {Len(links) + 1}
          /\ \A j \in DOMAIN links : links'[j] = links[j]
          /\ links'[Len(links) + 1] = i
      BY <1>0, <1>1, AppendRow
    <2> QED
      BY <1>0, <2>1, <2>2
  <1> DEFINE Goal ==
        /\ links' \in Seq(Nat) /\ DOMAIN links' = JobIds'
        /\ \A j \in JobIds' : links'[j] # 0 =>
              \/ /\ j \in JobIds /\ links'[j] = links[j]
                 /\ jobs'[j].record = jobs[j].record
              \/ \E k \in JobIds : /\ links'[j] = links[k]
                                  /\ jobs'[j].record = jobs[k].record
              \/ \E p \in Approvals : /\ approvals[p].step = "created"
                                     /\ links'[j] = approvals[p].intent
                                     /\ jobs'[j].record = approvals[p].record
  <1>2. ASSUME UNCHANGED links, JobIds' = JobIds,
               \A j \in JobIds : jobs'[j].record = jobs[j].record
        PROVE  Goal
    BY <1>0, <1>2
  <1>3. ASSUME NEW p \in Approvals, ClaimQueued(p)
        PROVE  Goal
    <2>1. approvals[p].record \in Nat /\ approvals[p].intent \in Nat
      BY <1>0 DEF Approval
    <2>2. NewJob(approvals[p].record, 0) \in Job
          /\ NewJob(approvals[p].record, 0).record = approvals[p].record
      BY <2>1 DEF NewJob, Job, NoTx
    <2>3. PICK job \in Job : job = NewJob(approvals[p].record, 0)
                              /\ job.record = approvals[p].record
      BY <2>2
    <2>4. /\ jobs' = Append(jobs, job) /\ links' = Append(links, approvals[p].intent)
          /\ approvals[p].step = "created"
      BY <1>3, <2>3 DEF ClaimQueued
    <2>5. /\ links' \in Seq(Nat) /\ DOMAIN links' = JobIds'
          /\ JobIds' = JobIds \cup {Len(jobs) + 1}
          /\ \A j \in JobIds : links'[j] = links[j] /\ jobs'[j] = jobs[j]
          /\ links'[Len(jobs) + 1] = approvals[p].intent /\ jobs'[Len(jobs) + 1] = job
      BY <1>1, <2>1, <2>4
    <2>6. ASSUME NEW j \in JobIds'
          PROVE  \/ /\ j \in JobIds /\ links'[j] = links[j]
                    /\ jobs'[j].record = jobs[j].record
                 \/ /\ approvals[p].step = "created"
                    /\ links'[j] = approvals[p].intent
                    /\ jobs'[j].record = approvals[p].record
      <3>1. CASE j \in JobIds
        BY <2>5, <3>1
      <3>2. CASE j = Len(jobs) + 1
        BY <2>3, <2>4, <2>5, <3>2
      <3> QED
        BY <2>5, <2>6, <3>1, <3>2
    <2> QED
      BY <2>5, <2>6, Zenon
  <1>4. ASSUME NEW r \in Nat, NEW c \in Nat, NEW i \in Nat,
               jobs' = Append(jobs, NewJob(r, c)), links' = Append(links, i),
               i = 0 \/ \E k \in JobIds : links[k] = i /\ jobs[k].record = r
        PROVE  Goal
    <2>1. NewJob(r, c) \in Job /\ NewJob(r, c).record = r
      BY DEF NewJob, Job, NoTx
    <2>3. PICK job \in Job : job = NewJob(r, c) /\ job.record = r
      BY <2>1
    <2>5. /\ links' \in Seq(Nat) /\ DOMAIN links' = JobIds'
          /\ JobIds' = JobIds \cup {Len(jobs) + 1}
          /\ \A j \in JobIds : links'[j] = links[j] /\ jobs'[j] = jobs[j]
          /\ links'[Len(jobs) + 1] = i /\ jobs'[Len(jobs) + 1] = job
      BY <1>1, <1>4, <2>3
    <2> QED
      BY <1>4, <2>3, <2>5
  <1>5. ASSUME NEW h \in Handlers, HandlerStep(h), Linked(0)
        PROVE  Goal
    <2> DEFINE r == requests[h].record
    <2>1. r \in Nat
      BY <1>0 DEF TypeOK, Request
    <2>2. CASE Enqueue(h)
      <3>1. jobs' = Append(jobs, NewJob(r, 0))
        BY <2>2 DEF Enqueue
      <3>2. NewJob(r, 0) \in Job
        BY <2>1 DEF NewJob, Job, NoTx
      <3>3. Len(jobs') = Len(jobs) + 1
        BY <1>0, <3>1, <3>2, AppendRow
      <3>4. links' = Append(links, 0)
        BY <1>0, <1>5, <3>3 DEF Linked
      <3> QED
        BY <1>4, <2>1, <3>1, <3>4
    <2>3. CASE RunInline(h)
      <3>1. PICK job \in Job : jobs' = Append(jobs, job)
        <4>1. [NewJob(r, 0) EXCEPT !.queued = FALSE, !.stage = "broadcast"] \in Job
          BY <2>1 DEF NewJob, Job, Running, NoTx
        <4> QED
          BY <2>3, <4>1 DEF RunInline
      <3>3. Len(jobs') = Len(jobs) + 1
        BY <1>0, <3>1, AppendRow
      <3>4. links' = Append(links, 0)
        BY <1>0, <1>5, <3>3 DEF Linked
      <3>5. /\ links' \in Seq(Nat) /\ DOMAIN links' = JobIds'
            /\ JobIds' = JobIds \cup {Len(jobs) + 1}
            /\ \A j \in JobIds : links'[j] = links[j] /\ jobs'[j] = jobs[j]
            /\ links'[Len(jobs) + 1] = 0
        BY <1>1, <3>1, <3>4
      <3> QED
        BY <3>5
    <2>4. CASE UNCHANGED jobs
      <3>1. JobIds' = JobIds /\ \A k \in JobIds : jobs'[k].record = jobs[k].record
        BY <2>4 DEF JobIds
      <3>2. UNCHANGED links
        BY <1>0, <1>5, <2>4 DEF Linked
      <3> QED
        BY <1>2, <3>1, <3>2
    <2> QED
      BY <1>5, <2>2, <2>3, <2>4
      DEF HandlerStep, RegisterPatch, AuthorizeTransfer, CreateTransfer, CreatePending,
          AbandonRequest
  <1>6. ASSUME NEW w \in Workers, NEW j \in JobIds, Recovery(w, j), Linked(links[j])
        PROVE  Goal
    <2>1. jobs[j].record \in Nat /\ jobs[j].recoverCount + 1 \in Nat /\ links[j] \in Nat
      <3>1. jobs[j] \in Job
        BY <1>0, RowTypes
      <3>2. links[j] \in Nat
        BY <1>0, LenProperties
      <3> QED
        BY <3>1, <3>2 DEF Job
    <2>2. CASE RequeueFailed(w, j)
      <3>1. jobs' = Append(jobs, NewJob(jobs[j].record, jobs[j].recoverCount + 1))
        BY <2>2 DEF RequeueFailed
      <3>2. NewJob(jobs[j].record, jobs[j].recoverCount + 1) \in Job
        BY <2>1 DEF NewJob, Job, NoTx
      <3>3. Len(jobs') = Len(jobs) + 1
        BY <1>0, <3>1, <3>2, AppendRow
      <3>4. links' = Append(links, links[j])
        BY <1>0, <1>6, <3>3 DEF Linked
      <3> QED
        BY <1>4, <2>1, <3>1, <3>4
    <2>3. CASE UNCHANGED jobs
      <3>1. JobIds' = JobIds /\ \A k \in JobIds : jobs'[k].record = jobs[k].record
        BY <2>3 DEF JobIds
      <3>2. UNCHANGED links
        BY <1>0, <1>6, <2>3 DEF Linked
      <3> QED
        BY <1>2, <3>1, <3>2
    <2> QED
      BY <1>6, <2>2, <2>3 DEF Recovery, RevertFailed, ListenerDies
  <1>7. ASSUME NEW j \in JobIds, ClaimFollows(j) \/ ClaimUntouched(j), UNCHANGED links
        PROVE  Goal
    <2>1. JobRuns(j) \/ JobStalls(j)
      BY <1>7 DEF ClaimFollows, ClaimUntouched, JobRuns
    <2>2. JobIds' = JobIds /\ \A k \in JobIds : jobs'[k].record = jobs[k].record
      BY <1>0, <2>1, JobsSame
    <2> QED
      BY <1>2, <1>7, <2>2
  <1>8. CASE UNCHANGED <<jobs, links>>
    <2>1. JobIds' = JobIds /\ \A k \in JobIds : jobs'[k].record = jobs[k].record
      BY <1>8 DEF JobIds
    <2> QED
      BY <1>2, <1>8, <2>1
  <1>9. ASSUME NEW p \in Approvals,
               FindIntent(p) \/ ExpireIntent(p) \/ ReadHead(p) \/ CreateClaim(p)
               \/ ApproveIntent(p) \/ AbandonApproval(p)
        PROVE  UNCHANGED <<jobs, links>>
    BY <1>9 DEF FindIntent, ExpireIntent, ReadHead, CreateClaim, ApproveIntent,
                AbandonApproval, vars
  <1>10. ASSUME NEW i, CreateIntent \/ IntentAges(i)
         PROVE  UNCHANGED <<jobs, links>>
    BY <1>10 DEF CreateIntent, IntentAges, vars
  <1>11. ASSUME NEW p \in Approvals, EnqueueClaim(p)
         PROVE  ClaimQueued(p)
    BY <1>11 DEF EnqueueClaim, ClaimQueued
  <1> QED
    BY <1>3, <1>5, <1>6, <1>7, <1>8, <1>9, <1>10, <1>11
    DEF PosNext, posVars, vars, claimVars

-----------------------------------------------------------------------------
(* PosClaims: one step *)

LEMMA InvParts ==
    ASSUME ClaimInv
    PROVE  /\ TypeOK /\ References /\ BroadcastHeld /\ RequestRefs /\ AuthorizedRequests
           /\ Sound /\ Returned /\ PosTypeOK /\ ApprovalsHold /\ JobsLinked /\ TxHeld
           /\ SignedOrClaimed /\ HandedOverOrClaimed /\ ClaimHonoured
           /\ Confirmed \subseteq RecordIds
  BY SoundRefs DEF ClaimInv, Sound, Confirmed

\* A claim stays what it is.
LEMMA ClaimsGoOn ==
    ASSUME ClaimInv, [PosNext]_posVars
    PROVE  /\ \A r, i : ClaimOf(r, i) => ClaimOf(r, i)'
           /\ \A r \in RecordIds : Claimed(r) => Claimed(r)'
           /\ IntentsKept /\ ConfirmedByJob
  <1>1. /\ RecordIds \subseteq RecordIds' /\ \A r \in RecordIds : Kept(r)
    BY PosGoesOn
  <1>2. IntentsKept /\ ConfirmedByJob
    BY InvParts, IntentTurn
  <1> QED
    BY <1>1, <1>2 DEF ClaimOf, Claimed, Kept, IntentsKept

\* What a job holds when it returns.
LEMMA TxStep ==
    ASSUME ClaimInv, [PosNext]_posVars
    PROVE  TxHeld' /\ Returned'
  <1> USE InvParts
  <1>1. \A t \in DOMAIN chain : t \in DOMAIN chain' /\ chain'[t] = chain[t]
    BY PosGoesOn
  <1>2. \A q \in Confirmed : q \in Confirmed'
    BY PosGoesOn
  <1>3. CASE [Next]_vars
    <2>1. Returned'
      BY <1>3, ReturnedStep
    <2>2. ASSUME NEW j \in JobIds', jobs'[j].stage = "return"
          PROVE  jobs'[j].txid \in DOMAIN chain' /\ chain'[jobs'[j].txid] = jobs'[j].record
      <3>1. /\ j \in JobIds /\ jobs'[j].txid = jobs[j].txid
            /\ jobs'[j].record = jobs[j].record
            /\ jobs[j].stage \in {"return", "confirm"}
        BY <1>3, <2>2, JobsGoOn
      <3> QED
        BY <1>1, <3>1 DEF TxHeld, BroadcastHeld, InStage
    <2> QED
      BY <2>1, <2>2 DEF TxHeld
  <1>4. ASSUME NEW p \in Approvals, ClaimCreated(p)
        PROVE  TxHeld' /\ Returned'
    BY <1>1, <1>2, <1>4 DEF ClaimCreated, TxHeld, Returned, JobIds
  <1>5. ASSUME NEW p \in Approvals, ClaimQueued(p)
        PROVE  TxHeld' /\ Returned'
    <2>1. approvals[p].record \in Nat
      BY <1>5, RowTypes DEF ClaimQueued, ApprovalsHold, ClaimOf
    <2>2. /\ NewJob(approvals[p].record, 0) \in Job
          /\ NewJob(approvals[p].record, 0).stage = "waiting"
      BY <2>1 DEF NewJob, Job, NoTx
    <2>3. PICK job \in Job : jobs' = Append(jobs, job) /\ job.stage = "waiting"
      BY <1>5, <2>2 DEF ClaimQueued
    <2>4. /\ \A j \in JobIds : jobs'[j] = jobs[j]
          /\ \A j \in JobIds' : j \in JobIds \/ jobs'[j].stage = "waiting"
      BY <2>3, JobAdded
    <2> QED
      BY <1>1, <1>2, <2>4 DEF TxHeld, Returned
  <1> QED
    BY <1>3, <1>4, <1>5, PosTurn

LEMMA ApprovalsStep ==
    ASSUME ClaimInv, [PosNext]_posVars
    PROVE  ApprovalsHold'
  <1> USE InvParts
  <1>1. IntentsKept /\ \A r, i : ClaimOf(r, i) => ClaimOf(r, i)'
    BY ClaimsGoOn
  <1>2. \A q \in Confirmed : q \in Confirmed' /\ records'[q] = records[q]
    BY PosGoesOn
  <1>3. ASSUME NEW p \in Approvals, NEW a, a = approvals'[p]
        PROVE  /\ a.step # "idle" => a.intent \in DOMAIN intents'
               /\ a.step = "read" => /\ a.source \in Confirmed'
                                     /\ records'[a.source].uid = intents'[a.intent].uid
               /\ a.step = "created" => ClaimOf(a.record, a.intent)'
    <2>1. Approves(p)
      BY ApprovalTurn
    <2>2. CASE a = approvals[p]
      BY <1>1, <1>2, <2>2 DEF ApprovalsHold, IntentsKept
    <2>3. CASE a.step = "idle"
      BY <2>3
    <2>4. CASE a.step \in {"found", "expiring"} /\ a.intent \in DOMAIN intents
      BY <1>1, <2>4 DEF IntentsKept
    <2>5. CASE /\ a.step = "queued" /\ approvals[p].step = "created"
               /\ a.intent = approvals[p].intent
      BY <1>1, <2>5 DEF IntentsKept, ApprovalsHold
    <2>6. CASE /\ a.step = "read" /\ approvals[p].step = "found"
               /\ a.intent = approvals[p].intent
               /\ a.source \in Confirmed
               /\ records[a.source].uid = intents[a.intent].uid
      BY <1>1, <1>2, <2>6 DEF IntentsKept, ApprovalsHold
    <2>7. CASE /\ a.step = "created" /\ a.intent = approvals[p].intent
               /\ a.record = Len(records) + 1 /\ ClaimCreated(p)
      <3>1. PICK doc \in Record, i \in DOMAIN intents :
              /\ i = approvals[p].intent
              /\ records' = Append(records, doc)
              /\ doc.type = "TRANSFER"
              /\ doc.uid = intents[i].uid /\ doc.owner = intents[i].customer
        BY <2>7, ClaimEffect
      <3>2. a.record \in RecordIds' /\ records'[a.record] = doc
        BY <2>7, <3>1, RecordAdded
      <3>3. ClaimOf(a.record, i)'
        BY <1>1, <3>1, <3>2 DEF ClaimOf, IntentsKept
      <3> QED
        BY <1>1, <2>7, <3>1, <3>3 DEF IntentsKept
    <2> QED
      BY <1>3, <2>1, <2>2, <2>3, <2>4, <2>5, <2>6, <2>7 DEF Approves
  <1> QED
    BY <1>3 DEF ApprovalsHold

LEMMA LinkedStep ==
    ASSUME ClaimInv, [PosNext]_posVars
    PROVE  JobsLinked' /\ PosTypeOK'
  <1> USE InvParts
  <1>1. IntentsKept /\ \A r, i : ClaimOf(r, i) => ClaimOf(r, i)'
    BY ClaimsGoOn
  <1>2. /\ links' \in Seq(Nat) /\ DOMAIN links' = JobIds'
        /\ \A j \in JobIds' : links'[j] # 0 => ClaimOf(jobs'[j].record, links'[j])
    BY LinksStep DEF JobsLinked, ApprovalsHold
  <1>3. \A j \in JobIds' : links'[j] # 0 => ClaimOf(jobs[j].record, links[j])'
    BY <1>1, <1>2
  <1>4. Len(intents') \in Nat /\ DOMAIN intents' = 1..Len(intents')
    BY <1>1, LenProperties DEF IntentsKept
  <1>5. links' \in [JobIds' -> Nat]
    BY <1>2, LenProperties
  <1>6. \A j \in JobIds' : links'[j] \in 0..Len(intents')
    BY <1>3, <1>4, <1>5 DEF ClaimOf
  <1>7. links' \in [JobIds' -> 0..Len(intents')]
    BY <1>5, <1>6
  <1> QED
    BY <1>1, <1>3, <1>7, ApprovalTurn DEF JobsLinked, PosTypeOK, IntentsKept

\* A transfer, when it is created, is signed by the holder or claimed.
LEMMA SignedStep ==
    ASSUME ClaimInv, [PosNext]_posVars
    PROVE  SignedOrClaimed'
  <1> USE InvParts
  <1>1. /\ RecordIds \subseteq RecordIds' /\ \A r \in RecordIds : Kept(r)
        /\ \A q \in Confirmed : q \in Confirmed' /\ records'[q] = records[q]
        /\ \A q \in Confirmed : \A signer : HeldAt(q, signer) => HeldAt(q, signer)'
        /\ \A r \in RecordIds, q \in Confirmed : MadeFrom(r, q) => MadeFrom(r, q)'
    BY PosGoesOn
  <1>2. IntentsKept /\ \A r \in RecordIds : Claimed(r) => Claimed(r)'
    BY ClaimsGoOn
  <1>3. ASSUME NEW r \in RecordIds, records'[r].type = "TRANSFER"
        PROVE  \E q \in Confirmed' :
                  MadeFrom(r, q)' /\ (HeldAt(q, records[r].signer)' \/ Claimed(r)')
    <2>1. PICK q \in Confirmed :
             MadeFrom(r, q) /\ (HeldAt(q, records[r].signer) \/ Claimed(r))
      BY <1>1, <1>3 DEF SignedOrClaimed, Kept
    <2>2. PICK signer : signer = records[r].signer
      OBVIOUS
    <2>3. records'[r].signer = signer
      BY <1>1, <2>2 DEF Kept
    <2>4. HeldAt(q, signer) => HeldAt(q, records[r].signer)'
      BY <1>1, <2>3 DEF HeldAt
    <2> QED
      BY <1>1, <1>2, <2>1, <2>2, <2>4
  <1>4. ASSUME NEW r \in RecordIds', r \notin RecordIds, records'[r].type = "TRANSFER"
        PROVE  \E q \in Confirmed' :
                  MadeFrom(r, q)' /\ (HeldAt(q, records[r].signer)' \/ Claimed(r)')
    <2>1. CASE [Next]_vars
      <3>1. PICK q \in Confirmed : MadeFrom(r, q)' /\ HeldAt(q, records'[r].signer)
        BY <1>4, <2>1, AddedRecord
      <3>2. PICK signer : signer = records'[r].signer
        OBVIOUS
      <3>3. HeldAt(q, signer)
        BY <3>1, <3>2
      <3>4. HeldAt(q, signer)'
        BY <1>1, <3>3
      <3>5. HeldAt(q, records[r].signer)'
        BY <3>2, <3>4 DEF HeldAt
      <3> QED
        BY <1>1, <3>1, <3>5
    <2>2. ASSUME NEW p \in Approvals, ClaimCreated(p)
          PROVE  \E q \in Confirmed' :
                    MadeFrom(r, q)' /\ (HeldAt(q, records[r].signer)' \/ Claimed(r)')
      <3>1. PICK doc \in Record, q \in Confirmed, i \in DOMAIN intents :
              /\ records' = Append(records, doc)
              /\ doc.status = "pending"
              /\ doc.previous_txid = records[q].txid /\ doc.uid = records[q].uid
              /\ doc.signer = NoAddress
              /\ doc.uid = intents[i].uid /\ doc.owner = intents[i].customer
        BY <2>2, ClaimEffect
      <3>2. PICK new \in Nat \ RecordIds :
              /\ RecordIds' = RecordIds \cup {new}
              /\ records'[new] = doc
              /\ MadeFrom(new, q)'
        BY <2>2, <3>1, NewRecord DEF ClaimCreated
      <3>3. r = new
        BY <1>4, <3>2
      <3>4. Claimed(r)'
        BY <1>2, <3>1, <3>2, <3>3 DEF Claimed, IntentsKept
      <3> QED
        BY <1>1, <3>2, <3>3, <3>4
    <2>3. ASSUME NEW p \in Approvals, ClaimQueued(p)
          PROVE  FALSE
      BY <1>4, <2>3 DEF ClaimQueued, RecordIds
    <2> QED
      BY <2>1, <2>2, <2>3, PosTurn
  <1> QED
    BY <1>3, <1>4 DEF SignedOrClaimed

\* When it is confirmed, the patch is still at the link it continues.
LEMMA HandOverStep ==
    ASSUME ClaimInv, [PosNext]_posVars
    PROVE  HandedOverOrClaimed'
  <1> USE InvParts
  <1>1. /\ \A r \in RecordIds : Kept(r)
        /\ \A q \in Confirmed : q \in Confirmed' /\ records'[q] = records[q]
    BY PosGoesOn
  <1>2. IntentsKept /\ \A r \in RecordIds : Claimed(r) => Claimed(r)'
    BY ClaimsGoOn
  <1> DEFINE From(r, q) ==
        /\ records[q].txid = records[r].previous_txid
        /\ records[q].uid = records[r].uid
        /\ records[q].txid < records[r].txid
        /\ records[q].owner = records[r].signer \/ Claimed(r)
  <1>3. ASSUME NEW r \in Confirmed, records[r].type = "TRANSFER"
        PROVE  \E q \in Confirmed' : From(r, q)'
    <2>1. PICK q \in Confirmed : From(r, q)
      BY <1>3 DEF HandedOverOrClaimed, Claimed
    <2>2. From(r, q)'
      BY <1>1, <1>2, <2>1
    <2> QED
      BY <1>1, <2>2
  <1>4. ASSUME NEW r \in RecordIds, NEW t \in DOMAIN chain, Confirms(r, t),
               records'[r].type = "TRANSFER"
        PROVE  \E q \in Confirmed' : From(r, q)'
    <2>1. PICK q \in Confirmed :
             MadeFrom(r, q) /\ (HeldAt(q, records[r].signer) \/ Claimed(r))
      BY <1>1, <1>4 DEF SignedOrClaimed, Kept
    <2>2. records[r].type = "TRANSFER"
      BY <1>1, <1>4 DEF Kept
    <2>3. /\ records'[q].txid = records'[r].previous_txid
          /\ records'[q].uid = records'[r].uid
          /\ records'[q].txid < records'[r].txid
          /\ HeldAt(q, records[r].signer) => records'[q].owner = records'[r].signer
      BY <1>4, <2>1, <2>2, ConfirmedByHolder
    <2>4. From(r, q)'
      BY <1>2, <2>1, <2>3
    <2> QED
      BY <1>1, <2>4
  <1>5. \A r \in Confirmed' : r \in Confirmed \/ \E t \in DOMAIN chain : Confirms(r, t)
    <2>1. CASE Confirmed' = Confirmed
      BY <2>1
    <2>2. ASSUME NEW r \in RecordIds, NEW t \in DOMAIN chain, Confirms(r, t)
          PROVE  Confirmed' = Confirmed \cup {r}
      <3>1. t \in Nat
        BY LenProperties DEF TypeOK
      <3> QED
        BY <2>2, <3>1, ConfirmEffect DEF Confirms
    <2> QED
      BY <2>1, <2>2, PosGoesOn
  <1>6. ASSUME NEW r \in Confirmed', records'[r].type = "TRANSFER"
        PROVE  \E q \in Confirmed' : From(r, q)'
    <2>1. CASE r \in Confirmed
      <3>1. records[r].type = "TRANSFER"
        BY <1>1, <1>6, <2>1
      <3> QED
        BY <1>3, <2>1, <3>1
    <2>2. CASE r \notin Confirmed
      <3>1. PICK t \in DOMAIN chain : Confirms(r, t)
        BY <1>5, <2>2
      <3>2. r \in RecordIds
        <4>1. CASE Confirmed' = Confirmed
          BY <2>2, <4>1
        <4>2. CASE \E s \in RecordIds, u \in DOMAIN chain : Confirms(s, u)
          <5>1. PICK s \in RecordIds, u \in DOMAIN chain : Confirms(s, u)
            BY <4>2
          <5>2. u \in Nat
            BY LenProperties DEF TypeOK
          <5>3. Confirmed' = Confirmed \cup {s}
            BY <5>1, <5>2, ConfirmEffect DEF Confirms
          <5> QED
            BY <2>2, <5>3
        <4> QED
          BY <4>1, <4>2, PosGoesOn
      <3> QED
        BY <1>4, <1>6, <3>1, <3>2
    <2> QED
      BY <2>1, <2>2
  <1> QED
    BY <1>6 DEF HandedOverOrClaimed, Claimed

\* Who writes that an intent is confirmed has confirmed its transfer.
LEMMA HonouredStep ==
    ASSUME ClaimInv, [PosNext]_posVars
    PROVE  ClaimHonoured'
  <1> USE InvParts
  <1>1. /\ RecordIds \subseteq RecordIds' /\ \A r \in RecordIds : Kept(r)
        /\ \A q \in Confirmed : q \in Confirmed' /\ records'[q] = records[q]
        /\ \A t \in DOMAIN chain : t \in DOMAIN chain' /\ chain'[t] = chain[t]
    BY PosGoesOn
  <1>2. IntentsKept /\ ConfirmedByJob
    BY ClaimsGoOn
  <1>3. ASSUME NEW i \in DOMAIN intents', intents'[i].status = "confirmed"
        PROVE  \E t \in DOMAIN chain :
                  /\ intents'[i].txid = t /\ chain[t] \in Confirmed
                  /\ ClaimOf(chain[t], i)
    <2>1. i \in DOMAIN intents
      BY <1>2, <1>3 DEF ConfirmedByJob
    <2>2. CASE intents[i].status = "confirmed" /\ intents'[i].txid = intents[i].txid
      BY <2>1, <2>2 DEF ClaimHonoured, ClaimStatus, ClaimOf
    <2>3. CASE \E j \in JobIds : /\ links[j] = i /\ jobs[j].stage = "return"
                                /\ intents'[i].txid = jobs[j].txid
      <3>1. PICK j \in JobIds : /\ links[j] = i /\ jobs[j].stage = "return"
                                /\ intents'[i].txid = jobs[j].txid
        BY <2>3
      <3>2. i # 0
        BY <2>1, LenProperties DEF PosTypeOK
      <3>3. ClaimOf(jobs[j].record, i)
        BY <3>1, <3>2 DEF JobsLinked
      <3>4. jobs[j].txid \in DOMAIN chain /\ chain[jobs[j].txid] = jobs[j].record
        BY <3>1 DEF TxHeld
      <3>5. jobs[j].record \in Confirmed
        BY <3>1 DEF Returned
      <3> QED
        BY <3>1, <3>3, <3>4, <3>5
    <2> QED
      BY <1>2, <1>3, <2>2, <2>3 DEF ConfirmedByJob
  <1>4. ASSUME NEW i \in DOMAIN intents', intents'[i].status = "confirmed"
        PROVE  /\ intents'[i].txid \in DOMAIN chain'
               /\ chain'[intents'[i].txid] \in Confirmed'
               /\ records'[chain'[intents'[i].txid]].type = "TRANSFER"
               /\ records'[chain'[intents'[i].txid]].uid = intents'[i].uid
               /\ records'[chain'[intents'[i].txid]].owner = intents'[i].customer
    <2>1. PICK t \in DOMAIN chain : /\ intents'[i].txid = t /\ chain[t] \in Confirmed
                                    /\ ClaimOf(chain[t], i)
      BY <1>3, <1>4
    <2>2. PICK r \in Confirmed : r = chain[t]
      BY <2>1
    <2>3. t \in DOMAIN chain' /\ chain'[t] = r /\ r \in Confirmed' /\ records'[r] = records[r]
      BY <1>1, <2>2
    <2>4. /\ records[r].type = "TRANSFER" /\ i \in DOMAIN intents
          /\ records[r].uid = intents[i].uid /\ records[r].owner = intents[i].customer
      BY <2>1, <2>2 DEF ClaimOf
    <2> QED
      BY <1>2, <2>1, <2>3, <2>4 DEF IntentsKept
  <1> QED
    BY <1>4 DEF ClaimHonoured, ClaimStatus

LEMMA ClaimStep ==
    ASSUME ClaimInv, [PosNext]_posVars
    PROVE  ClaimInv'
  BY SoundStep, TxStep, ApprovalsStep, LinkedStep, SignedStep, HandOverStep, HonouredStep
  DEF ClaimInv

LEMMA InitClaim == PosInit => ClaimInv
  <1> SUFFICES ASSUME PosInit PROVE ClaimInv
    OBVIOUS
  <1>1. /\ intents = <<>> /\ links = <<>> /\ jobs = <<>> /\ records = <<>>
        /\ approvals = [p \in Approvals |-> IdleApproval]
    BY DEF PosInit, Init
  <1>2. Sound
    BY InitInductive, InductiveIsSound DEF PosInit
  <1>3. Returned /\ JobsLinked /\ TxHeld /\ SignedOrClaimed /\ HandedOverOrClaimed
        /\ ClaimHonoured
    BY <1>1 DEF Returned, JobsLinked, TxHeld, SignedOrClaimed, HandedOverOrClaimed,
        ClaimHonoured, JobIds, RecordIds, Confirmed
  <1>4. ApprovalsHold
    BY <1>1 DEF ApprovalsHold, IdleApproval
  <1>5. PosTypeOK
    <2>1. IdleApproval \in Approval
      BY DEF Approval, IdleApproval, NoRecord
    <2>2. approvals \in [Approvals -> Approval]
      BY <1>1, <2>1
    <2>3. intents \in Seq(Intent) /\ links \in [JobIds -> 0..Len(intents)]
      BY <1>1 DEF JobIds
    <2> QED
      BY <2>2, <2>3 DEF PosTypeOK
  <1> QED
    BY <1>2, <1>3, <1>4, <1>5 DEF ClaimInv

-----------------------------------------------------------------------------
(* PosClaims: the theorems *)

LEMMA ClaimInvariant == PosSpec => []ClaimInv
  BY InitClaim, ClaimStep, PTL DEF PosSpec

\* Every intent, approval and job link keeps its shape (models/ClaimIntent.js).
THEOREM PosTypeCorrect == PosSpec => []PosTypeOK
  <1>1. ClaimInv => PosTypeOK
    BY DEF ClaimInv
  <1> QED
    BY ClaimInvariant, <1>1, PTL

\* A claim that is shown as confirmed was honoured: whatever approvals, retries,
\* requeues and crashes came before, its txid is that of a confirmed transfer of the
\* claimed patch to the customer.
THEOREM ClaimsAreHonoured == PosSpec => []ClaimHonoured
  <1>1. ClaimInv => ClaimHonoured
    BY DEF ClaimInv
  <1> QED
    BY ClaimInvariant, <1>1, PTL

\* The holder of a patch has signed for it, or its new owner has claimed it: nobody
\* else gets a patch, though an approval transfers it without the owner's signature.
THEOREM HandedOverOnClaim == PosSpec => []HandedOverOrClaimed
  <1>1. ClaimInv => HandedOverOrClaimed
    BY DEF ClaimInv
  <1> QED
    BY ClaimInvariant, <1>1, PTL
=============================================================================
