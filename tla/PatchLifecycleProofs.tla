------------------------ MODULE PatchLifecycleProofs ------------------------
(***************************************************************************)
(* Proofs about PatchLifecycle, for any number of patches, owners,         *)
(* requests, workers, attempts, requeues and crashes.                      *)
(***************************************************************************)
EXTENDS PatchLifecycle, SequenceTheorems, FiniteSetTheorems, TLAPS

-----------------------------------------------------------------------------
(* Sequences as tables: a row is changed in place, or one is added *)

LEMMA UpdateRow ==
    ASSUME NEW S, NEW s \in Seq(S), NEW i \in DOMAIN s, NEW e \in S
    PROVE  /\ [s EXCEPT ![i] = e] \in Seq(S)
           /\ DOMAIN [s EXCEPT ![i] = e] = DOMAIN s
           /\ [s EXCEPT ![i] = e][i] = e
           /\ \A k \in DOMAIN s : k # i => [s EXCEPT ![i] = e][k] = s[k]
  BY ExceptSeq, LenProperties

LEMMA AppendRow ==
    ASSUME NEW S, NEW s \in Seq(S), NEW e \in S
    PROVE  /\ Append(s, e) \in Seq(S)
           /\ Len(s) \in Nat
           /\ Len(Append(s, e)) = Len(s) + 1
           /\ DOMAIN s = 1..Len(s)
           /\ DOMAIN Append(s, e) = DOMAIN s \cup {Len(s) + 1}
           /\ Len(s) + 1 \notin DOMAIN s
           /\ \A i \in DOMAIN s : Append(s, e)[i] = s[i]
           /\ Append(s, e)[Len(s) + 1] = e
  BY AppendProperties, LenProperties

-----------------------------------------------------------------------------
(* Types *)

LEMMA RowTypes ==
    ASSUME TypeOK
    PROVE  /\ \A r \in RecordIds : records[r] \in Record
           /\ \A j \in JobIds : jobs[j] \in Job
           /\ RecordIds \subseteq Nat
  BY LenProperties DEF TypeOK, RecordIds, JobIds

\* Rows of jobs keep their types and their records when a job changes stage.
LEMMA JobUpdated ==
    ASSUME TypeOK, NEW j \in JobIds, NEW job \in Job, jobs' = [jobs EXCEPT ![j] = job]
    PROVE  /\ jobs' \in Seq(Job)
           /\ JobIds' = JobIds
           /\ jobs'[j] = job
           /\ \A k \in JobIds : k # j => jobs'[k] = jobs[k]
  BY UpdateRow DEF TypeOK, JobIds

LEMMA JobAdded ==
    ASSUME TypeOK, NEW job \in Job, jobs' = Append(jobs, job)
    PROVE  /\ jobs' \in Seq(Job)
           /\ JobIds' = JobIds \cup {Len(jobs) + 1}
           /\ Len(jobs) + 1 \notin JobIds
           /\ jobs'[Len(jobs) + 1] = job
           /\ \A k \in JobIds : jobs'[k] = jobs[k]
  BY AppendRow DEF TypeOK, JobIds

\* A job queued for a document on file leaves every job pointing at one.
LEMMA JobAddedRefers ==
    ASSUME TypeOK, References, NEW job \in Job, jobs' = Append(jobs, job),
           job.record \in RecordIds
    PROVE  /\ jobs' \in Seq(Job)
           /\ JobIds \subseteq JobIds'
           /\ \A k \in JobIds' : jobs'[k].record \in RecordIds
  <1>1. /\ jobs' \in Seq(Job)
        /\ JobIds' = JobIds \cup {Len(jobs) + 1}
        /\ jobs'[Len(jobs) + 1] = job
        /\ \A k \in JobIds : jobs'[k] = jobs[k]
    BY JobAdded
  <1>2. \A k \in JobIds : jobs[k].record \in RecordIds
    BY DEF References
  <1> QED
    BY <1>1, <1>2, Zenon

LEMMA RecordUpdated ==
    ASSUME TypeOK, NEW r \in RecordIds, NEW doc \in Record,
           records' = [records EXCEPT ![r] = doc]
    PROVE  /\ records' \in Seq(Record)
           /\ RecordIds' = RecordIds
           /\ records'[r] = doc
           /\ \A q \in RecordIds : q # r => records'[q] = records[q]
  BY UpdateRow DEF TypeOK, RecordIds

LEMMA RecordAdded ==
    ASSUME TypeOK, NEW doc \in Record, records' = Append(records, doc)
    PROVE  /\ records' \in Seq(Record)
           /\ RecordIds' = RecordIds \cup {Len(records) + 1}
           /\ Len(records) + 1 \in Nat \ RecordIds
           /\ records'[Len(records) + 1] = doc
           /\ \A q \in RecordIds : records'[q] = records[q]
  BY AppendRow DEF TypeOK, RecordIds

\* A handler adds a well-typed record and remembers it.
LEMMA CreateTypes ==
    ASSUME TypeOK, References, NEW h \in Handlers, NEW doc \in Record, CreatePending(h, doc)
    PROVE  TypeOK' /\ References'
  <1>1. requests'[h].record \in RecordIds' /\ requests' \in [Handlers -> Request]
    BY RecordAdded DEF CreatePending, TypeOK, Request, IdleRequest, NoRecord, NoTx
  <1> QED
    BY <1>1, RecordAdded DEF CreatePending, TypeOK, References, JobIds

\* A request that ends leaves the other handlers' requests as they are.
LEMMA RequestEnds ==
    ASSUME TypeOK, References, NEW h \in Handlers,
           requests' = [requests EXCEPT ![h] = IdleRequest]
    PROVE  /\ requests' \in [Handlers -> Request]
           /\ \A k \in Handlers : requests'[k].step # "idle" => requests'[k] = requests[k]
           /\ \A k \in Handlers :
                  requests'[k].step = "created" => requests'[k].record \in RecordIds
  BY DEF TypeOK, References, Request, IdleRequest, NoRecord, NoTx

\* A job goes on with the same record.
LEMMA MoveToEffect ==
    ASSUME TypeOK, NEW j \in JobIds,
           NEW stage \in Running \cup {"waiting", "completed", "failed"}, MoveTo(j, stage)
    PROVE  /\ jobs' \in Seq(Job)
           /\ JobIds' = JobIds
           /\ jobs'[j].stage = stage
           /\ jobs'[j].txid = jobs[j].txid
           /\ \A k \in JobIds : jobs'[k].record = jobs[k].record
           /\ \A k \in JobIds : k # j => jobs'[k] = jobs[k]
  <1>1. [jobs[j] EXCEPT !.stage = stage] \in Job
    BY RowTypes DEF Job
  <1>2. /\ [jobs[j] EXCEPT !.stage = stage].stage = stage
        /\ [jobs[j] EXCEPT !.stage = stage].record = jobs[j].record
        /\ [jobs[j] EXCEPT !.stage = stage].txid = jobs[j].txid
    BY RowTypes DEF Job
  <1> QED
    BY <1>1, <1>2, JobUpdated DEF MoveTo

\* A job that fails, for now or for good, keeps its record.
LEMMA FailedFields ==
    ASSUME NEW job \in Job, NEW stage \in {"waiting", "failed"}
    PROVE  /\ AttemptMade(job, stage) \in Job
           /\ AttemptMade(job, stage).stage = stage
           /\ AttemptMade(job, stage).record = job.record
  <1>1. job.attemptsMade + 1 \in Nat
    BY DEF Job
  <1>2. AttemptMade(job, stage) \in Job
    BY <1>1 DEF AttemptMade, Job, NoTx
  <1> QED
    BY <1>2 DEF AttemptMade, Job

LEMMA StalledFields ==
    ASSUME NEW job \in Job
    PROVE  /\ Stalled(job) \in Job
           /\ Stalled(job).stage = "waiting"
           /\ Stalled(job).record = job.record
  <1>1. job.stalls + 1 \in Nat
    BY DEF Job
  <1>2. Stalled(job) \in Job
    BY <1>1 DEF Stalled, Job, NoTx
  <1> QED
    BY <1>2 DEF Stalled, Job

LEMMA FailEffect ==
    ASSUME TypeOK, NEW j \in JobIds, JobThrows(j) \/ JobStalls(j)
    PROVE  /\ jobs' \in Seq(Job)
           /\ JobIds' = JobIds
           /\ jobs'[j].stage \in {"waiting", "failed"}
           /\ \A k \in JobIds : jobs'[k].record = jobs[k].record
           /\ \A k \in JobIds : k # j => jobs'[k] = jobs[k]
           /\ failedEvents' \subseteq failedEvents \cup (Workers \X JobIds)
  <1>1. jobs[j] \in Job
    BY RowTypes
  <1>2. failedEvents' \subseteq failedEvents \cup (Workers \X JobIds)
    BY DEF JobThrows, JobStalls, GiveUp, Recoverers
  <1>3. PICK new \in Job : /\ jobs' = [jobs EXCEPT ![j] = new]
                           /\ new.stage \in {"waiting", "failed"}
                           /\ new.record = jobs[j].record
    <2>1. \/ \E stage \in {"waiting", "failed"} :
                jobs' = [jobs EXCEPT ![j] = AttemptMade(jobs[j], stage)]
          \/ jobs' = [jobs EXCEPT ![j] = Stalled(jobs[j])]
      BY DEF JobThrows, JobStalls, GiveUp
    <2> QED
      BY <1>1, <2>1, FailedFields, StalledFields
  <1> QED
    BY <1>2, <1>3, JobUpdated

\* The transaction of a broadcast is the newest one.
LEMMA ChainAdded ==
    ASSUME TypeOK, References, NEW r \in RecordIds, Len(chain) < MaxTxs,
           chain' = Append(chain, r)
    PROVE  /\ chain' \in Seq(Nat)
           /\ Len(chain') <= MaxTxs
           /\ DOMAIN chain' = DOMAIN chain \cup {Len(chain) + 1}
           /\ Len(chain) + 1 \in Nat
           /\ \A t \in DOMAIN chain : t < Len(chain) + 1 /\ chain'[t] = chain[t]
           /\ chain'[Len(chain) + 1] = r
  <1>1. r \in Nat
    BY RowTypes
  <1>2. MaxTxs \in Nat
    BY LifecycleAssumption
  <1> QED
    BY <1>1, <1>2, AppendRow DEF TypeOK

\* A successful broadcast hands the newest transaction to the job.
LEMMA BroadcastEffect ==
    ASSUME TypeOK, NEW j \in JobIds, NEW t \in Nat,
           jobs' = [jobs EXCEPT ![j] = Holding(@, t)]
    PROVE  /\ jobs' \in Seq(Job)
           /\ JobIds' = JobIds
           /\ jobs'[j].txid = t
           /\ \A k \in JobIds : jobs'[k].record = jobs[k].record
           /\ \A k \in JobIds : k # j => jobs'[k] = jobs[k]
  <1>1. jobs[j] \in Job
    BY RowTypes
  <1>2. /\ Holding(jobs[j], t) \in Job
        /\ Holding(jobs[j], t).txid = t
        /\ Holding(jobs[j], t).record = jobs[j].record
    BY <1>1 DEF Holding, Job, Running
  <1> QED
    BY <1>2, JobUpdated

\* What no step ever changes in a document.
Kept(q) ==
    /\ records'[q].type = records[q].type
    /\ records'[q].uid = records[q].uid
    /\ records'[q].owner = records[q].owner
    /\ records'[q].signer = records[q].signer
    /\ records'[q].previous_txid = records[q].previous_txid

\* updateOne of a status touches no confirmed record and no other field.
LEMMA ChangeStatusEffect ==
    ASSUME TypeOK, NEW r \in RecordIds,
           NEW from \in {"pending", "failed"}, NEW to \in {"pending", "failed"},
           ChangeStatus(r, from, to)
    PROVE  /\ records' \in Seq(Record)
           /\ RecordIds' = RecordIds
           /\ Confirmed' = Confirmed
           /\ \A q \in Confirmed : records'[q] = records[q]
           /\ \A q \in RecordIds : Kept(q) /\ records'[q].txid = records[q].txid
  <1> USE DEF Kept
  <1> DEFINE doc == [records[r] EXCEPT !.status = to]
  <1>1. CASE records[r].status = from
    <2>1. /\ doc \in Record
          /\ doc.status = to
          /\ doc.type = records[r].type
          /\ doc.uid = records[r].uid
          /\ doc.owner = records[r].owner
          /\ doc.signer = records[r].signer
          /\ doc.previous_txid = records[r].previous_txid
          /\ doc.txid = records[r].txid
      BY RowTypes DEF Record
    <2>2. records' = [records EXCEPT ![r] = doc]
      BY <1>1 DEF ChangeStatus
    <2> HIDE DEF doc
    <2>3. /\ records' \in Seq(Record)
          /\ RecordIds' = RecordIds
          /\ records'[r] = doc
          /\ \A q \in RecordIds : q # r => records'[q] = records[q]
      BY <2>1, <2>2, RecordUpdated
    <2>4. r \notin Confirmed /\ r \notin Confirmed'
      BY <1>1, <2>1, <2>3 DEF Confirmed
    <2>5. Confirmed' = Confirmed
      BY <2>3, <2>4 DEF Confirmed
    <2> QED
      BY <2>1, <2>3, <2>4, <2>5 DEF Confirmed
  <1>2. CASE records[r].status # from
    BY <1>2 DEF ChangeStatus, TypeOK, RecordIds, Confirmed
  <1> QED
    BY <1>1, <1>2

LEMMA ConfirmedDoc ==
    ASSUME NEW source \in Record, NEW t \in Nat
    PROVE  LET doc == [source EXCEPT !.status = "confirmed", !.txid = t] IN
           /\ doc \in Record
           /\ doc.status = "confirmed" /\ doc.txid = t
           /\ doc.type = source.type /\ doc.uid = source.uid
           /\ doc.owner = source.owner /\ doc.signer = source.signer
           /\ doc.previous_txid = source.previous_txid
  BY DEF Record

\* The transaction of markConfirmed writes one record and one state.
LEMMA ConfirmEffect ==
    ASSUME TypeOK, NEW r \in RecordIds, NEW t \in Nat, Confirm(r, t)
    PROVE  /\ records' \in Seq(Record)
           /\ RecordIds' = RecordIds
           /\ Confirmed' = Confirmed \cup {r}
           /\ records'[r].txid = t
           /\ \A q \in RecordIds : Kept(q)
           /\ \A q \in RecordIds : q # r => records'[q] = records[q]
           /\ patchStates' \in [Uids -> PatchState]
           /\ patchStates'[records[r].uid] =
                  [current_txid |-> t, current_owner_address |-> records[r].owner]
           /\ \A u \in Uids : u # records[r].uid => patchStates'[u] = patchStates[u]
  <1> DEFINE doc == [records[r] EXCEPT !.status = "confirmed", !.txid = t]
             state == [current_txid |-> t, current_owner_address |-> records[r].owner]
  <1>1. /\ doc \in Record
        /\ doc.status = "confirmed" /\ doc.txid = t
        /\ doc.type = records[r].type /\ doc.uid = records[r].uid
        /\ doc.owner = records[r].owner /\ doc.signer = records[r].signer
        /\ doc.previous_txid = records[r].previous_txid
    BY RowTypes, ConfirmedDoc, Zenon
  <1>2. records[r].uid \in Uids /\ state \in PatchState
    BY RowTypes DEF Record, PatchState
  <1>3. /\ records' = [records EXCEPT ![r] = doc]
        /\ patchStates' = [patchStates EXCEPT ![records[r].uid] = state]
    BY DEF Confirm
  <1> HIDE DEF doc, state
  <1>4. /\ records' \in Seq(Record)
        /\ RecordIds' = RecordIds
        /\ records'[r] = doc
        /\ \A q \in RecordIds : q # r => records'[q] = records[q]
    BY <1>1, <1>3, RecordUpdated
  <1>5. Confirmed' = Confirmed \cup {r}
    BY <1>1, <1>4 DEF Confirmed
  <1>6. /\ patchStates' \in [Uids -> PatchState]
        /\ patchStates'[records[r].uid] = state
        /\ \A u \in Uids : u # records[r].uid => patchStates'[u] = patchStates[u]
    BY <1>2, <1>3 DEF TypeOK
  <1> QED
    BY <1>1, <1>4, <1>5, <1>6 DEF state, Kept

LEMMA RegistrationType ==
    ASSUME NEW u \in Uids, NEW owner \in Addresses, NEW kept \in BOOLEAN, NEW now \in Nat
    PROVE  Registration(u, owner, kept, now) \in Record
  BY DEF Registration, Record, NoTx

\* A copy with the fields of a transfer: what it keeps and what it changes.
LEMMA TransferType ==
    ASSUME NEW source \in Record, NEW req \in Request, req.newOwner \in Addresses,
           NEW now \in Nat
    PROVE  /\ TransferOf(source, req, now) \in Record
           /\ TransferOf(source, req, now).status = "pending"
           /\ TransferOf(source, req, now).type = "TRANSFER"
           /\ TransferOf(source, req, now).uid = source.uid
           /\ TransferOf(source, req, now).previous_txid = req.txid
           /\ TransferOf(source, req, now).signer = req.signer
  BY DEF TransferOf, Record, Request, NoTx

LEMMA InitInductive == Init => Inductive
  <1> SUFFICES ASSUME Init PROVE Inductive
    OBVIOUS
  <1> USE LifecycleAssumption, EmptySeq DEF Init
  <1>1. TypeOK
    BY DEF TypeOK, Unregistered, IdleRequest, PatchState, Request, NoTx, NoRecord
  <1>2. References /\ BroadcastHeld /\ AuthorizedRequests
    BY DEF References, BroadcastHeld, AuthorizedRequests, IdleRequest, JobIds, RecordIds
  <1>3. /\ AuthorizedTransfers /\ Issued /\ Spent
        /\ OnChain /\ StateBacked /\ NoFork /\ SignedByHolder
    BY DEF AuthorizedTransfers, Issued, Spent, OnChain, StateBacked, NoFork, SignedByHolder,
           Confirmed, RecordIds
  <1> QED
    BY <1>1, <1>2, <1>3 DEF Inductive

\* A request that has passed its checks names a record and a new owner.
RequestRefs ==
    \A h \in Handlers :
        requests[h].step = "authorized" =>
            requests[h].record \in RecordIds /\ requests[h].newOwner \in Addresses

LEMMA AuthorizedRefs == AuthorizedRequests => RequestRefs
  BY DEF AuthorizedRequests, RequestRefs, Confirmed

\* Every step keeps the types, and the references between the three stores.
LEMMA TypeStep ==
    ASSUME TypeOK, References, RequestRefs, [Next]_vars
    PROVE  TypeOK' /\ References'
  <1> USE LifecycleAssumption, RowTypes
  <1>1. ASSUME NEW h \in Handlers, RegisterPatch(h)
        PROVE  TypeOK' /\ References'
    <2>1. PICK u \in Uids, owner \in Addresses, kept \in MetaShapes :
             CreatePending(h, Registration(u, owner, kept, Len(records) + 1))
      BY <1>1 DEF RegisterPatch
    <2>2. Registration(u, owner, kept, Len(records) + 1) \in Record
      BY RegistrationType, LenProperties DEF TypeOK
    <2> QED
      BY <2>1, <2>2, CreateTypes
  <1>2. ASSUME NEW h \in Handlers, AuthorizeTransfer(h)
        PROVE  TypeOK' /\ References'
    <2>1. PICK r \in Confirmed, signer \in Addresses, newOwner \in Addresses :
             requests' = [requests EXCEPT ![h] =
                             [step |-> "authorized", record |-> r,
                              txid |-> records[r].txid, signer |-> signer,
                              newOwner |-> newOwner]]
      BY <1>2 DEF AuthorizeTransfer
    <2>2. r \in Nat /\ records[r].txid \in Nat
      BY RowTypes DEF Confirmed, Record
    <2>3. requests' \in [Handlers -> Request]
      BY <2>1, <2>2 DEF TypeOK, Request
    <2>4. UNCHANGED <<records, patchStates, jobs, chain, failedEvents, reverted>>
      BY <1>2 DEF AuthorizeTransfer
    <2> QED
      BY <2>1, <2>3, <2>4 DEF TypeOK, References, RecordIds, JobIds
  <1>3. ASSUME NEW h \in Handlers, CreateTransfer(h)
        PROVE  TypeOK' /\ References'
    <2> DEFINE req == requests[h]
               source == records[req.record]
    <2>1. req \in Request /\ source \in Record /\ req.newOwner \in Addresses
      BY <1>3 DEF CreateTransfer, RequestRefs, TypeOK
    <2>2. Len(records) + 1 \in Nat
      BY LenProperties DEF TypeOK
    <2>3. TransferOf(source, req, Len(records) + 1) \in Record
      BY <2>1, <2>2, TransferType
    <2> QED
      BY <1>3, <2>3, CreateTypes DEF CreateTransfer
  <1>4. ASSUME NEW h \in Handlers, Enqueue(h) \/ RunInline(h)
        PROVE  TypeOK' /\ References'
    <2>1. requests[h].record \in RecordIds
      BY <1>4 DEF References, Enqueue, RunInline
    <2>2. PICK job \in Job : job.record = requests[h].record /\ jobs' = Append(jobs, job)
      BY <1>4, <2>1 DEF Enqueue, RunInline, NewJob, Job, Running, NoTx
    <2>3. requests' = [requests EXCEPT ![h] = IdleRequest]
      BY <1>4 DEF Enqueue, RunInline
    <2>4. UNCHANGED <<records, patchStates, chain, failedEvents, reverted>>
      BY <1>4 DEF Enqueue, RunInline
    <2>5. jobs' \in Seq(Job) /\ JobIds \subseteq JobIds'
      BY <2>2, JobAdded
    <2>6. \A j \in JobIds' : jobs'[j].record \in RecordIds
      BY <2>1, <2>2, JobAddedRefers
    <2> QED
      BY <2>3, <2>4, <2>5, <2>6, RequestEnds DEF TypeOK, References, RecordIds
  <1>5. ASSUME NEW h \in Handlers, AbandonRequest(h)
        PROVE  TypeOK' /\ References'
    BY <1>5, RequestEnds DEF AbandonRequest, TypeOK, References, JobIds, RecordIds
  <1>6. ASSUME NEW j \in JobIds, JobRuns(j) \/ JobStalls(j)
        PROVE  TypeOK' /\ References'
    <2> DEFINE r == jobs[j].record
    <2>1. r \in RecordIds /\ records[r] \in Record /\ jobs[j] \in Job
      BY DEF References
    <2>2. ASSUME NEW stage \in Running \cup {"waiting", "completed", "failed"},
                 MoveTo(j, stage),
                 UNCHANGED <<records, patchStates, requests, chain, failedEvents, reverted>>
          PROVE  TypeOK' /\ References'
      BY <2>2, MoveToEffect DEF TypeOK, References, RecordIds
    <2>3. CASE TakeJob(j) \/ JobReturns(j)
      BY <2>2, <2>3 DEF TakeJob, JobReturns, Running
    <2>4. CASE Broadcast(j)
      <3>1. CASE MoveTo(j, "reject") /\ UNCHANGED chain
        BY <2>2, <2>4, <3>1 DEF Broadcast, Running
      <3>2. CASE MoveTo(j, "throw") /\ UNCHANGED chain
        BY <2>2, <2>4, <3>2 DEF Broadcast, Running
      <3>3. CASE /\ Len(chain) < MaxTxs
                 /\ chain' = Append(chain, r)
                 /\ jobs' = [jobs EXCEPT ![j] = Holding(@, Len(chain) + 1)]
        <4>1. chain' \in Seq(Nat) /\ Len(chain') <= MaxTxs /\ Len(chain) + 1 \in Nat
          BY <2>1, <3>3, ChainAdded
        <4>2. \A t \in DOMAIN chain' : chain'[t] \in RecordIds
          BY <2>1, <3>3, ChainAdded DEF References
        <4>3. /\ jobs' \in Seq(Job)
              /\ JobIds' = JobIds
              /\ \A k \in JobIds : jobs'[k].record = jobs[k].record
          BY <3>3, <4>1, BroadcastEffect
        <4> QED
          BY <2>4, <4>1, <4>2, <4>3 DEF Broadcast, TypeOK, References, RecordIds
      <3> QED
        BY <2>4, <3>1, <3>2, <3>3 DEF Broadcast
    <2>5. CASE MarkFailed(j)
      <3>1. records' \in Seq(Record) /\ RecordIds' = RecordIds
        BY <2>1, <2>5, ChangeStatusEffect DEF MarkFailed, TypeOK, RecordIds
      <3>2. MoveTo(j, "throw") /\ "throw" \in Running
        BY <2>5 DEF MarkFailed, Running
      <3> QED
        BY <2>5, <3>1, <3>2, MoveToEffect DEF MarkFailed, TypeOK, References
    <2>6. CASE MarkConfirmed(j)
      <3>1. /\ records' \in Seq(Record)
            /\ RecordIds' = RecordIds
            /\ patchStates' \in [Uids -> PatchState]
        <4>1. CASE Confirm(r, jobs[j].txid)
          <5>1. jobs[j].txid \in Nat
            BY <2>1 DEF Job
          <5> QED
            BY <2>1, <4>1, <5>1, ConfirmEffect
        <4>2. CASE UNCHANGED <<records, patchStates>>
          BY <4>2 DEF TypeOK, RecordIds
        <4> QED
          BY <2>6, <4>1, <4>2 DEF MarkConfirmed
      <3>2. PICK stage \in Running : MoveTo(j, stage)
        BY <2>6 DEF MarkConfirmed, Running
      <3> QED
        BY <2>6, <3>1, <3>2, MoveToEffect DEF MarkConfirmed, TypeOK, References
    <2>7. CASE JobThrows(j) \/ JobStalls(j)
      BY <2>7, FailEffect DEF JobThrows, JobStalls, TypeOK, References, RecordIds
    <2> QED
      BY <1>6, <2>3, <2>4, <2>5, <2>6, <2>7 DEF JobRuns
  <1>7. ASSUME NEW w \in Workers, NEW j \in JobIds, Recovery(w, j)
        PROVE  TypeOK' /\ References'
    <2> DEFINE r == jobs[j].record
    <2>1. r \in RecordIds /\ records[r] \in Record /\ jobs[j] \in Job
      BY DEF References
    <2>2. CASE RevertFailed(w, j)
      <3>1. records' \in Seq(Record) /\ RecordIds' = RecordIds
        BY <2>1, <2>2, ChangeStatusEffect DEF RevertFailed
      <3> QED
        BY <2>2, <3>1 DEF RevertFailed, TypeOK, References, JobIds
    <2>3. CASE RequeueFailed(w, j)
      <3>1. NewJob(r, jobs[j].recoverCount + 1) \in Job
            /\ NewJob(r, jobs[j].recoverCount + 1).record = r
        BY <2>1 DEF NewJob, Job, Running, NoTx
      <3>2. PICK job \in Job : job.record = r /\ jobs' = Append(jobs, job)
        BY <2>3, <3>1 DEF RequeueFailed
      <3>3. jobs' \in Seq(Job) /\ JobIds \subseteq JobIds'
        BY <3>2, JobAdded
      <3>4. \A k \in JobIds' : jobs'[k].record \in RecordIds
        BY <2>1, <3>2, JobAddedRefers
      <3> QED
        BY <2>3, <3>3, <3>4 DEF RequeueFailed, TypeOK, References, RecordIds
    <2>4. CASE ListenerDies(w, j)
      BY <2>4 DEF ListenerDies, TypeOK, References, RecordIds, JobIds
    <2> QED
      BY <1>7, <2>2, <2>3, <2>4 DEF Recovery
  <1>8. CASE UNCHANGED vars
    BY <1>8 DEF vars, TypeOK, References, RecordIds, JobIds
  <1> QED
    BY <1>1, <1>2, <1>3, <1>4, <1>5, <1>6, <1>7, <1>8 DEF Next, HandlerStep

-----------------------------------------------------------------------------
(* What a step has to leave alone for custody to hold after it *)

\* Every transfer was made from a confirmed link.
MadeFromLinks ==
    \A r \in RecordIds :
        records[r].type = "TRANSFER" => \E q \in Confirmed : MadeFrom(r, q)

\* Custody but for who signed.
Custodial == MadeFromLinks /\ Issued /\ Spent /\ OnChain /\ StateBacked /\ NoFork

Sound == TypeOK /\ References /\ BroadcastHeld /\ AuthorizedRequests /\ Custodial

LEMMA InductiveIsSound == Inductive => Sound
  BY DEF Inductive, Sound, Custodial, AuthorizedTransfers, MadeFromLinks

LEMMA SoundRefs == Sound => TypeOK /\ References /\ BroadcastHeld /\ RequestRefs
  BY AuthorizedRefs DEF Sound

\* A step that confirms nothing and broadcasts nothing.
LEMMA LinksFrame ==
    ASSUME Custodial, Confirmed' = Confirmed,
           \A q \in Confirmed : records'[q] = records[q],
           UNCHANGED <<patchStates, chain>>
    PROVE  Spent' /\ OnChain' /\ StateBacked' /\ NoFork'
  <1>1. Spent' /\ OnChain' /\ NoFork'
    BY DEF Custodial, Spent, OnChain, NoFork
  <1>2. StateBacked'
    BY DEF Custodial, StateBacked
  <1> QED
    BY <1>1, <1>2

\* Such a step that adds no record either.
LEMMA DataFrame ==
    ASSUME TypeOK, Custodial, RecordIds' = RecordIds, Confirmed' = Confirmed,
           \A q \in Confirmed : records'[q] = records[q],
           \A q \in RecordIds : Kept(q),
           UNCHANGED <<patchStates, chain>>
    PROVE  Custodial'
  <1> USE DEF Kept
  <1>1. Confirmed \subseteq RecordIds
    BY DEF Confirmed
  <1>2. MadeFromLinks'
    BY <1>1 DEF Custodial, MadeFromLinks, MadeFrom
  <1>3. Issued'
    BY DEF Custodial, Issued
  <1> QED
    BY <1>2, <1>3, LinksFrame DEF Custodial

\* A request stays authorized while its link stays confirmed.
LEMMA RequestFrame ==
    ASSUME TypeOK, AuthorizedRequests, UNCHANGED patchStates,
           \A q \in Confirmed : q \in Confirmed' /\ records'[q] = records[q],
           \A h \in Handlers :
              requests'[h].step = "authorized" => requests'[h] = requests[h]
    PROVE  AuthorizedRequests'
  BY DEF AuthorizedRequests, HeldAt

\* A transaction stays with the job that broadcast it.
LEMMA JobFrame ==
    ASSUME TypeOK, BroadcastHeld,
           \A t \in DOMAIN chain : t \in DOMAIN chain' /\ chain'[t] = chain[t],
           \A j \in JobIds' :
              jobs'[j].stage = "confirm" => j \in JobIds /\ jobs'[j] = jobs[j]
    PROVE  BroadcastHeld'
  BY DEF BroadcastHeld, InStage

-----------------------------------------------------------------------------
(* The steps that custody is about *)

\* No two links share a transaction.
LEMMA OneLinkPerTx ==
    ASSUME OnChain, NEW q \in Confirmed, NEW r \in Confirmed,
           records[q].txid = records[r].txid
    PROVE  q = r
  BY DEF OnChain

\* A new record is no link yet, and nothing on chain carries it: it comes after
\* the link it is made from.
LEMMA NewRecord ==
    ASSUME Sound, NEW doc \in Record, doc.status = "pending",
           records' = Append(records, doc), UNCHANGED chain
    PROVE  /\ Confirmed' = Confirmed
           /\ \A r \in RecordIds : records'[r] = records[r]
           /\ \E new \in Nat \ RecordIds :
                 /\ RecordIds' = RecordIds \cup {new}
                 /\ records'[new] = doc
                 /\ \A q \in Confirmed :
                       /\ records[q].txid = doc.previous_txid
                       /\ records[q].uid = doc.uid
                       => MadeFrom(new, q)'
  <1>1. PICK new \in Nat : /\ RecordIds' = RecordIds \cup {new}
                           /\ new \notin RecordIds
                           /\ records'[new] = doc
                           /\ \A q \in RecordIds : records'[q] = records[q]
    BY RecordAdded DEF Sound
  <1>2. Confirmed' = Confirmed /\ Confirmed \subseteq RecordIds
    BY <1>1 DEF Confirmed
  <1>3. \A t \in DOMAIN chain : chain[t] # new
    BY <1>1 DEF Sound, References
  <1>4. ASSUME NEW q \in Confirmed, records[q].txid = doc.previous_txid,
               records[q].uid = doc.uid
        PROVE  MadeFrom(new, q)'
    BY <1>1, <1>2, <1>3, <1>4 DEF MadeFrom
  <1> QED
    BY <1>1, <1>2, <1>4

LEMMA CreateCustody ==
    ASSUME Sound, NEW doc \in Record, doc.status = "pending",
           records' = Append(records, doc), UNCHANGED <<patchStates, jobs, chain>>,
           \A k \in Handlers :
              requests'[k].step = "authorized" => requests'[k] = requests[k],
           doc.type = "TRANSFER" =>
              \E q \in Confirmed : /\ records[q].txid = doc.previous_txid
                                  /\ records[q].uid = doc.uid,
           doc.type = "REGISTRATION" =>
              doc.previous_txid = NoTx /\ doc.signer = NoAddress
    PROVE  Custodial' /\ BroadcastHeld' /\ AuthorizedRequests'
  <1>0. TypeOK /\ Custodial /\ BroadcastHeld /\ AuthorizedRequests
    BY DEF Sound
  <1>1. PICK new \in Nat \ RecordIds :
           /\ RecordIds' = RecordIds \cup {new}
           /\ records'[new] = doc
           /\ \A q \in Confirmed :
                 /\ records[q].txid = doc.previous_txid
                 /\ records[q].uid = doc.uid
                 => MadeFrom(new, q)'
    BY NewRecord
  <1>2. /\ Confirmed' = Confirmed /\ Confirmed \subseteq RecordIds
        /\ \A q \in RecordIds : records'[q] = records[q]
    BY NewRecord DEF Confirmed
  <1>3. MadeFromLinks'
    <2>1. ASSUME NEW r \in RecordIds, records[r].type = "TRANSFER"
          PROVE  \E q \in Confirmed' : MadeFrom(r, q)'
      <3>1. PICK q \in Confirmed : MadeFrom(r, q)
        BY <1>0, <2>1 DEF Custodial, MadeFromLinks
      <3>2. q \in Confirmed' /\ q \in RecordIds
        BY <1>2
      <3> QED
        BY <1>2, <3>1, <3>2 DEF MadeFrom
    <2>2. doc.type = "TRANSFER" => \E q \in Confirmed' : MadeFrom(new, q)'
      BY <1>1, <1>2
    <2>3. ASSUME NEW r \in RecordIds', records'[r].type = "TRANSFER"
          PROVE  \E q \in Confirmed' : MadeFrom(r, q)'
      BY <1>1, <1>2, <2>1, <2>2, <2>3
    <2> QED
      BY <2>3 DEF MadeFromLinks
  <1>4. Spent' /\ OnChain' /\ StateBacked' /\ NoFork'
    <2>1. \A q \in Confirmed : records'[q] = records[q]
      BY <1>2
    <2> QED
      BY <1>0, <1>2, <2>1, LinksFrame
  <1>5. Issued'
    BY <1>0, <1>1, <1>2 DEF Custodial, Issued
  <1>6. BroadcastHeld'
    BY <1>0 DEF BroadcastHeld, InStage, JobIds
  <1>7. AuthorizedRequests'
    BY <1>0, <1>2, RequestFrame
  <1> QED
    BY <1>3, <1>4, <1>5, <1>6, <1>7 DEF Custodial

\* A broadcast comes after every link there is.
LEMMA BroadcastCustody ==
    ASSUME Sound, NEW j \in JobIds, Broadcast(j)
    PROVE  Custodial' /\ BroadcastHeld' /\ AuthorizedRequests'
  <1> DEFINE r == jobs[j].record
             t == Len(chain) + 1
  <1>1. UNCHANGED <<records, patchStates, requests>>
    BY DEF Broadcast
  <1>2. AuthorizedRequests'
    BY <1>1 DEF Sound, Custodial, AuthorizedRequests, HeldAt, Confirmed, RecordIds
  <1>3. ASSUME NEW stage \in {"reject", "throw"}, MoveTo(j, stage), UNCHANGED chain
        PROVE  Custodial' /\ BroadcastHeld'
    <2>1. \A k \in JobIds' :
             jobs'[k].stage = "confirm" => k \in JobIds /\ jobs'[k] = jobs[k]
      BY <1>3, MoveToEffect DEF Sound, Custodial, Running
    <2>2. BroadcastHeld'
      BY <1>3, <2>1, JobFrame DEF Sound, Custodial
    <2> QED
      BY <1>1, <1>3, <2>2, DataFrame DEF Sound, RecordIds, Confirmed, Kept
  <1>4. ASSUME Len(chain) < MaxTxs, chain' = Append(chain, r),
               jobs' = [jobs EXCEPT ![j] = Holding(@, t)]
        PROVE  Custodial' /\ BroadcastHeld'
    <2>1. r \in RecordIds
      BY DEF Sound, Custodial, References
    <2>2. /\ DOMAIN chain' = DOMAIN chain \cup {t}
          /\ t \in Nat
          /\ \A s \in DOMAIN chain : s < t /\ chain'[s] = chain[s]
          /\ chain'[t] = r
      BY <1>4, <2>1, ChainAdded DEF Sound, Custodial
    <2>3. /\ JobIds' = JobIds
          /\ jobs'[j].txid = t
          /\ \A k \in JobIds : jobs'[k].record = jobs[k].record
          /\ \A k \in JobIds : k # j => jobs'[k] = jobs[k]
      BY <1>4, <2>2, BroadcastEffect DEF Sound, Custodial
    <2> HIDE DEF t
    <2>4. BroadcastHeld'
      BY <2>2, <2>3 DEF Sound, Custodial, BroadcastHeld, InStage
    <2>5. RecordIds' = RecordIds /\ Confirmed' = Confirmed
      BY <1>1 DEF RecordIds, Confirmed
    <2>6. ASSUME NEW q \in Confirmed
          PROVE  /\ records[q].txid \in DOMAIN chain'
                 /\ chain'[records[q].txid] = q
                 /\ records[q].txid < t
      BY <2>2 DEF Sound, Custodial, OnChain
    <2>7. MadeFromLinks'
      BY <1>1, <2>2, <2>5, <2>6 DEF Sound, Custodial, MadeFromLinks, MadeFrom
    <2>8. Spent' /\ OnChain' /\ StateBacked' /\ NoFork'
      BY <1>1, <2>5, <2>6 DEF Sound, Custodial, Spent, OnChain, StateBacked, NoFork
    <2>9. Issued'
      BY <1>1, <2>5 DEF Sound, Custodial, Issued
    <2> QED
      BY <2>4, <2>7, <2>8, <2>9 DEF Custodial
  <1> QED
    BY <1>2, <1>3, <1>4 DEF Broadcast

\* The confirmation of record r in transaction t.  No link has t, since t
\* carries r and r is no link yet; so the patch moves to a transaction it has
\* never been at, and every request signed for the link it leaves is void.
LEMMA ConfirmCustody ==
    ASSUME Sound, NEW r \in RecordIds, records[r].status = "pending",
           NEW t \in DOMAIN chain, chain[t] = r, StateMatches(r), Confirm(r, t),
           UNCHANGED chain
    PROVE  /\ Custodial'
           /\ \A q \in Confirmed : q \in Confirmed' /\ records'[q] = records[q]
           /\ \A q \in Confirmed : \A signer :
                 HeldAt(q, signer) => signer = records[q].owner
                    \/ patchStates'[records[q].uid].current_txid # records[q].txid
  <1> DEFINE u == records[r].uid
  <1>1. t \in Nat \ {NoTx} /\ r \in Nat
    BY LenProperties, RowTypes DEF Sound, Custodial, TypeOK, NoTx
  <1>2. /\ records[r].uid \in Uids
        /\ \A q \in Confirmed : q # r /\ q \in RecordIds /\ records[q].uid \in Uids
    BY RowTypes DEF Sound, Custodial, Confirmed, Record
  <1>3. \A q \in Confirmed : records[q].txid # t
    BY <1>2 DEF Sound, Custodial, OnChain
  <1>4. /\ RecordIds' = RecordIds
        /\ Confirmed' = Confirmed \cup {r}
        /\ records'[r].txid = t
        /\ \A q \in RecordIds : Kept(q)
        /\ \A q \in RecordIds : q # r => records'[q] = records[q]
    BY <1>1, ConfirmEffect DEF Sound
  <1> USE DEF Kept
  <1>5. /\ patchStates'[u].current_txid = t
        /\ patchStates'[u].current_owner_address = records[r].owner
        /\ \A v \in Uids : v # u => patchStates'[v] = patchStates[v]
    <2>1. /\ patchStates'[u] = [current_txid |-> t,
                               current_owner_address |-> records[r].owner]
          /\ \A v \in Uids : v # u => patchStates'[v] = patchStates[v]
      BY <1>1, ConfirmEffect DEF Sound, Custodial
    <2> QED
      BY <2>1
  <1>6. ASSUME NEW q \in Confirmed
        PROVE  /\ q \in Confirmed' /\ records'[q] = records[q]
               /\ \A signer : HeldAt(q, signer) =>
                     \/ signer = records[q].owner
                     \/ patchStates'[records[q].uid].current_txid # records[q].txid
    BY <1>2, <1>3, <1>4, <1>5 DEF HeldAt
  <1>7. MadeFromLinks'
    <2>1. ASSUME NEW s \in RecordIds, records[s].type = "TRANSFER"
          PROVE  \E q \in Confirmed' : MadeFrom(s, q)'
      <3>1. PICK q \in Confirmed : MadeFrom(s, q)
        BY <2>1 DEF Sound, Custodial, MadeFromLinks
      <3>2. MadeFrom(s, q)'
        BY <1>4, <1>6, <3>1 DEF MadeFrom
      <3> QED
        BY <1>6, <3>2
    <2>2. ASSUME NEW s \in RecordIds', records'[s].type = "TRANSFER"
          PROVE  \E q \in Confirmed' : MadeFrom(s, q)'
      BY <1>4, <2>1, <2>2
    <2> QED
      BY <2>2 DEF MadeFromLinks
  <1>8. OnChain'
    BY <1>4, <1>6 DEF Sound, Custodial, OnChain
  <1>9. StateBacked'
    <2>1. ASSUME NEW v \in Uids, v # u, patchStates[v] # Unregistered
          PROVE  \E q \in Confirmed' : /\ records'[q].txid = patchStates'[v].current_txid
                                      /\ records'[q].uid = v
                                      /\ records'[q].owner =
                                            patchStates'[v].current_owner_address
      BY <1>5, <1>6, <2>1 DEF Sound, Custodial, StateBacked
    <2>2. \E q \in Confirmed' : /\ records'[q].txid = patchStates'[u].current_txid
                                /\ records'[q].uid = u
                                /\ records'[q].owner = patchStates'[u].current_owner_address
      BY <1>4, <1>5
    <2> QED
      BY <1>5, <2>1, <2>2 DEF StateBacked, Unregistered
  <1>10. ASSUME records[r].type = "TRANSFER", NEW s \in Confirmed, records[s].type = "TRANSFER",
                records[s].previous_txid = records[r].previous_txid
         PROVE  FALSE
    <2>1. PICK q \in Confirmed : MadeFrom(r, q)
      BY <1>10 DEF Sound, Custodial, MadeFromLinks
    <2>2. patchStates[u].current_txid = records[q].txid
      BY <1>10, <2>1 DEF StateMatches, MadeFrom
    <2>3. PICK p \in Confirmed : MadeFrom(s, p)
      BY <1>2, <1>10 DEF Sound, Custodial, MadeFromLinks
    <2>4. p = q
      BY <1>10, <2>1, <2>3, OneLinkPerTx DEF Sound, Custodial, MadeFrom
    <2>5. records[s].uid = u
      BY <2>1, <2>3, <2>4 DEF MadeFrom
    <2> QED
      BY <1>10, <2>1, <2>2, <2>5 DEF Sound, Custodial, Spent, MadeFrom
  <1>11. NoFork'
    BY <1>2, <1>4, <1>6, <1>10 DEF Sound, Custodial, NoFork
  <1>13. Spent'
    <2>1. ASSUME NEW s \in RecordIds, records[s].type = "TRANSFER"
          PROVE  records[s].previous_txid # t
      BY <1>3, <2>1 DEF Sound, Custodial, MadeFromLinks, MadeFrom
    <2> QED
      BY <1>2, <1>4, <1>5, <1>6, <2>1 DEF Sound, Custodial, Spent
  <1>14. Issued'
    BY <1>4 DEF Sound, Custodial, Issued
  <1> QED
    BY <1>6, <1>7, <1>8, <1>9, <1>11, <1>13, <1>14 DEF Custodial

\* A new document of a handler: a registration, or a transfer from a confirmed
\* link that its signer owned.
LEMMA CreatedDoc ==
    ASSUME TypeOK, AuthorizedRequests, NEW h \in Handlers,
           RegisterPatch(h) \/ CreateTransfer(h)
    PROVE  \E doc \in Record :
              /\ CreatePending(h, doc)
              /\ doc.status = "pending"
              /\ \/ /\ doc.type = "REGISTRATION"
                    /\ doc.previous_txid = NoTx /\ doc.signer = NoAddress
                 \/ /\ doc.type = "TRANSFER"
                    /\ \E q \in Confirmed : /\ records[q].txid = doc.previous_txid
                                           /\ records[q].uid = doc.uid
                                           /\ HeldAt(q, doc.signer)
  <1>1. CASE RegisterPatch(h)
    <2>1. PICK u \in Uids, owner \in Addresses, kept \in MetaShapes :
             CreatePending(h, Registration(u, owner, kept, Len(records) + 1))
      BY <1>1 DEF RegisterPatch
    <2>2. Registration(u, owner, kept, Len(records) + 1) \in Record
      BY LifecycleAssumption, RegistrationType, LenProperties DEF TypeOK
    <2>3. /\ Registration(u, owner, kept, Len(records) + 1).status = "pending"
          /\ Registration(u, owner, kept, Len(records) + 1).type = "REGISTRATION"
          /\ Registration(u, owner, kept, Len(records) + 1).previous_txid = NoTx
          /\ Registration(u, owner, kept, Len(records) + 1).signer = NoAddress
      BY DEF Registration
    <2> QED
      BY <2>1, <2>2, <2>3
  <1>2. CASE CreateTransfer(h)
    <2> DEFINE req == requests[h]
    <2>1. /\ req.record \in Confirmed
          /\ req.txid = records[req.record].txid
          /\ req.newOwner \in Addresses
          /\ HeldAt(req.record, req.signer)
      BY <1>2 DEF CreateTransfer, AuthorizedRequests
    <2>2. /\ records[req.record] \in Record
          /\ req \in Request
          /\ Len(records) + 1 \in Nat
      BY <2>1, RowTypes, LenProperties DEF TypeOK, Confirmed
    <2>3. PICK source \in Record, asked \in Request, now \in Nat :
             /\ source = records[req.record]
             /\ asked = req
             /\ now = Len(records) + 1
      BY <2>1, <2>2
    <2> DEFINE doc == TransferOf(source, asked, now)
    <2>4. /\ doc \in Record
          /\ doc.status = "pending" /\ doc.type = "TRANSFER"
          /\ doc.uid = source.uid
          /\ doc.previous_txid = source.txid
          /\ doc.signer = req.signer
      BY <2>1, <2>3, TransferType
    <2>5. CreatePending(h, doc)
      BY <1>2, <2>3 DEF CreateTransfer
    <2> HIDE DEF doc
    <2> QED
      BY <2>1, <2>3, <2>4, <2>5
  <1> QED
    BY <1>1, <1>2

\* Of any step: what it leaves alone, or the lemma above that covers it.
LEMMA CustodyStep ==
    ASSUME Sound, [Next]_vars
    PROVE  Custodial' /\ BroadcastHeld' /\ AuthorizedRequests'
  <1> USE DEF Sound
  <1>1. Custodial
    OBVIOUS
  <1>2. ASSUME UNCHANGED <<records, patchStates, chain>>
        PROVE  /\ Custodial'
               /\ \A q \in Confirmed : q \in Confirmed' /\ records'[q] = records[q]
               /\ \A t \in DOMAIN chain : t \in DOMAIN chain' /\ chain'[t] = chain[t]
    BY <1>1, <1>2, DataFrame DEF RecordIds, Confirmed, Kept
  <1>3. ASSUME NEW h \in Handlers, NEW doc \in Record, CreatePending(h, doc),
               doc.status = "pending",
               doc.type = "TRANSFER" =>
                  \E q \in Confirmed : /\ records[q].txid = doc.previous_txid
                                      /\ records[q].uid = doc.uid,
               doc.type = "REGISTRATION" =>
                  doc.previous_txid = NoTx /\ doc.signer = NoAddress
        PROVE  Custodial' /\ BroadcastHeld' /\ AuthorizedRequests'
    <2>1. \A k \in Handlers :
             requests'[k].step = "authorized" => requests'[k] = requests[k]
      BY <1>3 DEF CreatePending, TypeOK, IdleRequest
    <2> QED
      BY <1>3, <2>1, CreateCustody DEF CreatePending
  <1>10. ASSUME NEW h \in Handlers, RegisterPatch(h) \/ CreateTransfer(h)
         PROVE  Custodial' /\ BroadcastHeld' /\ AuthorizedRequests'
    <2>1. PICK doc \in Record :
             /\ CreatePending(h, doc)
             /\ doc.status = "pending"
             /\ \/ /\ doc.type = "REGISTRATION"
                   /\ doc.previous_txid = NoTx /\ doc.signer = NoAddress
                \/ /\ doc.type = "TRANSFER"
                   /\ \E q \in Confirmed : /\ records[q].txid = doc.previous_txid
                                          /\ records[q].uid = doc.uid
      BY <1>10, CreatedDoc
    <2> QED
      BY <1>3, <2>1
  <1>4. ASSUME NEW h \in Handlers, AuthorizeTransfer(h)
        PROVE  Custodial' /\ BroadcastHeld' /\ AuthorizedRequests'
    <2>1. PICK r \in Confirmed, signer \in Addresses, newOwner \in Addresses :
             /\ signer = patchStates[records[r].uid].current_owner_address
             /\ requests' = [requests EXCEPT ![h] =
                                [step |-> "authorized", record |-> r,
                                 txid |-> records[r].txid, signer |-> signer, newOwner |-> newOwner]]
      BY <1>4 DEF AuthorizeTransfer
    <2>2. UNCHANGED <<records, patchStates, jobs, chain>>
      BY <1>4 DEF AuthorizeTransfer
    <2>3. HeldAt(r, signer)
      <3>1. records[r].uid \in Uids /\ records[r].txid # NoTx
        <4>1. records[r].uid \in Uids
          BY RowTypes DEF Confirmed, Record
        <4>2. NoTx \notin DOMAIN chain
          BY LenProperties DEF TypeOK, NoTx
        <4> QED
          BY <4>1, <4>2 DEF Custodial, OnChain
      <3>2. ASSUME patchStates[records[r].uid].current_txid = records[r].txid
            PROVE  signer = records[r].owner
        <4>1. PICK q \in Confirmed :
                 /\ records[q].txid = records[r].txid
                 /\ records[q].owner =
                       patchStates[records[r].uid].current_owner_address
          BY <3>1, <3>2 DEF Custodial, StateBacked, Unregistered
        <4> QED
          BY <2>1, <4>1, OneLinkPerTx DEF Custodial
      <3> QED
        BY <3>2 DEF HeldAt
    <2>4. AuthorizedRequests'
      BY <2>1, <2>2, <2>3 DEF AuthorizedRequests, HeldAt, Confirmed, RecordIds, TypeOK
    <2> QED
      BY <1>2, <2>2, <2>4 DEF BroadcastHeld, InStage, JobIds
  <1>6. ASSUME NEW h \in Handlers, Enqueue(h) \/ RunInline(h) \/ AbandonRequest(h)
        PROVE  Custodial' /\ BroadcastHeld' /\ AuthorizedRequests'
    <2>1. UNCHANGED <<records, patchStates, chain>>
      BY <1>6 DEF Enqueue, RunInline, AbandonRequest
    <2>2. AuthorizedRequests'
      <3>1. requests' = [requests EXCEPT ![h] = IdleRequest]
        BY <1>6 DEF Enqueue, RunInline, AbandonRequest
      <3>2. \A k \in Handlers :
               requests'[k].step = "authorized" => requests'[k] = requests[k]
        BY <3>1, RequestEnds
      <3> QED
        BY <1>2, <2>1, <3>2, RequestFrame
    <2>3. \A j \in JobIds' : jobs'[j].stage = "confirm" => j \in JobIds /\ jobs'[j] = jobs[j]
      <3>1. CASE jobs' = jobs
        BY <3>1 DEF JobIds
      <3>2. CASE Enqueue(h) \/ RunInline(h)
        <4>1. requests[h].record \in Nat
          BY <3>2, RowTypes DEF Enqueue, RunInline, References
        <4>2. PICK job \in Job : job.stage # "confirm" /\ jobs' = Append(jobs, job)
          BY <3>2, <4>1 DEF Enqueue, RunInline, NewJob, Job, Running, NoTx
        <4> QED
          BY <4>2, JobAdded
      <3> QED
        BY <1>6, <3>1, <3>2 DEF AbandonRequest
    <2> QED
      BY <1>2, <2>1, <2>2, <2>3, JobFrame
  <1>7. ASSUME NEW j \in JobIds, JobRuns(j) \/ JobStalls(j)
        PROVE  Custodial' /\ BroadcastHeld' /\ AuthorizedRequests'
    <2> DEFINE r == jobs[j].record
    <2>1. r \in RecordIds
      BY DEF References
    <2>2. ASSUME UNCHANGED <<records, patchStates, requests>>
          PROVE  AuthorizedRequests'
      BY <2>2 DEF AuthorizedRequests, HeldAt, Confirmed, RecordIds
    <2>3. ASSUME NEW stage \in (Running \cup {"waiting", "completed", "failed"}) \ {"confirm"},
                 MoveTo(j, stage), UNCHANGED chain
          PROVE  BroadcastHeld'
      <3>1. \A k \in JobIds' :
               jobs'[k].stage = "confirm" => k \in JobIds /\ jobs'[k] = jobs[k]
        BY <2>3, MoveToEffect
      <3> QED
        BY <2>3, <3>1, JobFrame
    <2>4. CASE TakeJob(j) \/ JobReturns(j)
      BY <1>2, <2>2, <2>3, <2>4 DEF TakeJob, JobReturns, Running
    <2>5. CASE Broadcast(j)
      BY <2>5, BroadcastCustody
    <2>6. CASE MarkFailed(j)
      <3>1. BroadcastHeld'
        BY <2>3, <2>6 DEF MarkFailed, Running
      <3>2. CASE UNCHANGED records
        BY <1>2, <2>2, <2>6, <3>1, <3>2 DEF MarkFailed
      <3>3. CASE ChangeStatus(r, "pending", "failed")
        <4>1. Custodial' /\ (\A q \in Confirmed : q \in Confirmed' /\ records'[q] = records[q])
          BY <1>1, <2>1, <2>6, <3>3, ChangeStatusEffect, DataFrame DEF MarkFailed
        <4> QED
          BY <2>6, <3>1, <4>1, RequestFrame DEF MarkFailed
      <3> QED
        BY <2>6, <3>2, <3>3 DEF MarkFailed
    <2>7. CASE MarkConfirmed(j)
      <3>1. BroadcastHeld'
        BY <2>3, <2>7 DEF MarkConfirmed, Running
      <3>2. CASE UNCHANGED <<records, patchStates>>
        BY <1>2, <2>2, <2>7, <3>1, <3>2 DEF MarkConfirmed
      <3>3. CASE /\ records[r].status = "pending"
                 /\ StateMatches(r)
                 /\ Confirm(r, jobs[j].txid)
        <4>1. PICK t \in DOMAIN chain : t = jobs[j].txid /\ chain[t] = r
          BY <2>7 DEF MarkConfirmed, BroadcastHeld
        <4>2. /\ Custodial'
              /\ \A q \in Confirmed : q \in Confirmed' /\ records'[q] = records[q]
              /\ \A q \in Confirmed : \A signer :
                    HeldAt(q, signer) => signer = records[q].owner
                       \/ patchStates'[records[q].uid].current_txid # records[q].txid
          BY <2>1, <2>7, <3>3, <4>1, ConfirmCustody DEF MarkConfirmed
        <4>3. AuthorizedRequests'
          BY <2>7, <4>2 DEF MarkConfirmed, AuthorizedRequests, HeldAt
        <4> QED
          BY <3>1, <4>2, <4>3
      <3> QED
        BY <2>7, <3>2, <3>3 DEF MarkConfirmed
    <2>8. CASE JobThrows(j) \/ JobStalls(j)
      <3>1. \A k \in JobIds' :
               jobs'[k].stage = "confirm" => k \in JobIds /\ jobs'[k] = jobs[k]
        BY <2>8, FailEffect
      <3> QED
        BY <1>2, <2>2, <2>8, <3>1, JobFrame DEF JobThrows, JobStalls
    <2> QED
      BY <1>7, <2>4, <2>5, <2>6, <2>7, <2>8 DEF JobRuns
  <1>8. ASSUME NEW w \in Workers, NEW j \in JobIds, Recovery(w, j)
        PROVE  Custodial' /\ BroadcastHeld' /\ AuthorizedRequests'
    <2> DEFINE r == jobs[j].record
    <2>1. r \in RecordIds
      BY DEF References
    <2>2. UNCHANGED <<requests, patchStates, chain>>
      BY <1>8 DEF Recovery, RevertFailed, RequeueFailed, ListenerDies
    <2>3. Custodial' /\ (\A q \in Confirmed : q \in Confirmed' /\ records'[q] = records[q])
      <3>1. CASE UNCHANGED records
        BY <1>2, <2>2, <3>1
      <3>2. CASE ChangeStatus(r, "failed", "pending")
        BY <1>1, <2>1, <2>2, <3>2, ChangeStatusEffect, DataFrame
      <3> QED
        BY <1>8, <3>1, <3>2 DEF Recovery, RevertFailed, RequeueFailed, ListenerDies
    <2>4. AuthorizedRequests'
      BY <2>2, <2>3, RequestFrame
    <2>5. \A k \in JobIds' : jobs'[k].stage = "confirm" => k \in JobIds /\ jobs'[k] = jobs[k]
      <3>1. CASE jobs' = jobs
        BY <3>1 DEF JobIds
      <3>2. CASE RequeueFailed(w, j)
        <4>1. /\ NewJob(r, jobs[j].recoverCount + 1) \in Job
              /\ NewJob(r, jobs[j].recoverCount + 1).stage = "waiting"
          BY <2>1, RowTypes DEF NewJob, Job, Running, NoTx
        <4> QED
          BY <3>2, <4>1, JobAdded DEF RequeueFailed
      <3> QED
        BY <1>8, <3>1, <3>2 DEF Recovery, RevertFailed, ListenerDies
    <2> QED
      BY <2>2, <2>3, <2>4, <2>5, JobFrame
  <1>9. CASE UNCHANGED vars
    BY <1>2, <1>9 DEF vars, BroadcastHeld, AuthorizedRequests, HeldAt, InStage, JobIds,
                      Confirmed, RecordIds
  <1> QED
    BY <1>4, <1>6, <1>7, <1>8, <1>9, <1>10 DEF Next, HandlerStep

-----------------------------------------------------------------------------
(* The links of the chain of custody *)

\* A confirmation by the rules: pending record, transaction that carries it,
\* state it was made from.
Confirms(r, t) ==
    /\ records[r].status = "pending" /\ chain[t] = r
    /\ StateMatches(r) /\ Confirm(r, t) /\ UNCHANGED chain

\* Every step either confirms one record or leaves links and heads alone, and
\* what a document says of its patch stays.
LEMMA LinkStep ==
    ASSUME TypeOK, References, BroadcastHeld, RequestRefs, [Next]_vars
    PROVE  /\ RecordIds \subseteq RecordIds'
           /\ \A q \in RecordIds : Kept(q)
           /\ \/ \E r \in RecordIds, t \in DOMAIN chain : Confirms(r, t)
              \/ /\ Confirmed' = Confirmed
                 /\ \A q \in Confirmed : records'[q] = records[q]
                 /\ \A q \in RecordIds : records'[q].txid = records[q].txid
                 /\ UNCHANGED patchStates
  <1> DEFINE Same == /\ RecordIds \subseteq RecordIds'
                     /\ \A q \in RecordIds : Kept(q)
                     /\ Confirmed' = Confirmed
                     /\ \A q \in Confirmed : records'[q] = records[q]
                     /\ \A q \in RecordIds : records'[q].txid = records[q].txid
                     /\ UNCHANGED patchStates
  <1>1. ASSUME UNCHANGED <<records, patchStates>> PROVE Same
    BY <1>1 DEF Confirmed, RecordIds, Kept
  <1>2. ASSUME NEW h \in Handlers, NEW doc \in Record, doc.status = "pending",
               CreatePending(h, doc)
        PROVE  Same
    <2>1. PICK new \in Nat : /\ RecordIds' = RecordIds \cup {new}
                             /\ new \notin RecordIds
                             /\ records'[new] = doc
                             /\ \A q \in RecordIds : records'[q] = records[q]
      BY <1>2, RecordAdded DEF CreatePending
    <2> QED
      BY <1>2, <2>1 DEF CreatePending, Confirmed, Kept
  <1>3. ASSUME NEW r \in RecordIds, NEW from \in {"pending", "failed"},
               NEW to \in {"pending", "failed"}, ChangeStatus(r, from, to),
               UNCHANGED patchStates
        PROVE  Same
    BY <1>3, ChangeStatusEffect
  <1>4. ASSUME NEW h \in Handlers, HandlerStep(h) PROVE Same
    <2>1. CASE RegisterPatch(h)
      <3>1. PICK u \in Uids, owner \in Addresses, kept \in MetaShapes :
               CreatePending(h, Registration(u, owner, kept, Len(records) + 1))
        BY <2>1 DEF RegisterPatch
      <3>2. /\ Registration(u, owner, kept, Len(records) + 1) \in Record
            /\ Registration(u, owner, kept, Len(records) + 1).status = "pending"
        <4>1. Len(records) + 1 \in Nat
          BY LenProperties DEF TypeOK
        <4>2. kept \in BOOLEAN
          BY LifecycleAssumption
        <4> QED
          BY <4>1, <4>2, RegistrationType DEF Registration
      <3> QED
        BY <1>2, <3>1, <3>2
    <2>2. CASE CreateTransfer(h)
      <3> DEFINE req == requests[h]
                 doc == TransferOf(records[req.record], req, Len(records) + 1)
      <3>1. /\ records[req.record] \in Record
            /\ req \in Request /\ req.newOwner \in Addresses
            /\ Len(records) + 1 \in Nat
        BY <2>2, RowTypes, LenProperties
        DEF CreateTransfer, RequestRefs, TypeOK, Request
      <3>2. doc \in Record /\ doc.status = "pending"
        BY <3>1, TransferType
      <3>3. CreatePending(h, doc)
        BY <2>2 DEF CreateTransfer
      <3> HIDE DEF doc
      <3> QED
        BY <1>2, <3>2, <3>3
    <2> QED
      BY <1>1, <1>4, <2>1, <2>2
      DEF HandlerStep, AuthorizeTransfer, Enqueue, RunInline, AbandonRequest
  <1>5. ASSUME NEW j \in JobIds, JobRuns(j) \/ JobStalls(j), ~MarkConfirmed(j) PROVE Same
    <2>1. jobs[j].record \in RecordIds
      BY DEF References
    <2>2. CASE MarkFailed(j)
      BY <1>1, <1>3, <2>1, <2>2 DEF MarkFailed
    <2> QED
      BY <1>1, <1>5, <2>2
      DEF JobRuns, TakeJob, Broadcast, JobReturns, JobThrows, JobStalls
  <1>6. ASSUME NEW j \in JobIds, MarkConfirmed(j)
        PROVE  Same \/ \E r \in RecordIds, t \in DOMAIN chain : Confirms(r, t)
    <2>1. jobs[j].record \in RecordIds
      BY DEF References
    <2>2. jobs[j].txid \in DOMAIN chain /\ chain[jobs[j].txid] = jobs[j].record
      BY <1>6 DEF MarkConfirmed, BroadcastHeld
    <2> QED
      BY <1>1, <1>6, <2>1, <2>2 DEF MarkConfirmed, Confirms
  <1>7. ASSUME NEW w \in Workers, NEW j \in JobIds, Recovery(w, j) PROVE Same
    <2>1. jobs[j].record \in RecordIds
      BY DEF References
    <2>2. CASE RevertFailed(w, j)
      BY <1>3, <2>1, <2>2 DEF RevertFailed
    <2> QED
      BY <1>1, <1>7, <2>2 DEF Recovery, RequeueFailed, ListenerDies
  <1>8. CASE UNCHANGED vars
    BY <1>1, <1>8 DEF vars
  <1>9. ASSUME NEW r \in RecordIds, NEW t \in DOMAIN chain, Confirms(r, t)
        PROVE  RecordIds \subseteq RecordIds' /\ \A q \in RecordIds : Kept(q)
    <2>1. t \in Nat
      BY LenProperties DEF TypeOK
    <2> QED
      BY <1>9, <2>1, ConfirmEffect DEF Confirms
  <1>10. Same \/ \E r \in RecordIds, t \in DOMAIN chain : Confirms(r, t)
    BY <1>4, <1>5, <1>6, <1>7, <1>8 DEF Next, JobRuns
  <1> QED
    BY <1>9, <1>10

\* The chain grows by one transaction of a record, or not at all.
LEMMA ChainStep ==
    ASSUME TypeOK, References, [Next]_vars
    PROVE  \/ UNCHANGED chain
           \/ \E r \in RecordIds : Len(chain) < MaxTxs /\ chain' = Append(chain, r)
  <1>1. ASSUME NEW j \in JobIds, Broadcast(j)
        PROVE  \/ UNCHANGED chain
               \/ \E r \in RecordIds : Len(chain) < MaxTxs /\ chain' = Append(chain, r)
    BY <1>1 DEF Broadcast, References
  <1>2. ASSUME NEW h \in Handlers, HandlerStep(h) PROVE UNCHANGED chain
    BY <1>2 DEF HandlerStep, RegisterPatch, AuthorizeTransfer, CreateTransfer, CreatePending,
                Enqueue, RunInline, AbandonRequest
  <1>3. ASSUME NEW j \in JobIds, JobRuns(j) \/ JobStalls(j), ~Broadcast(j)
        PROVE  UNCHANGED chain
    BY <1>3 DEF JobRuns, TakeJob, MarkFailed, MarkConfirmed, JobReturns, JobThrows, JobStalls
  <1>4. ASSUME NEW w \in Workers, NEW j \in JobIds, Recovery(w, j) PROVE UNCHANGED chain
    BY <1>4 DEF Recovery, RevertFailed, RequeueFailed, ListenerDies
  <1> QED
    BY <1>1, <1>2, <1>3, <1>4 DEF Next, JobRuns, vars

LEMMA ChainGrows ==
    ASSUME TypeOK, References, [Next]_vars
    PROVE  \A t \in DOMAIN chain : t \in DOMAIN chain' /\ chain'[t] = chain[t]
  BY ChainStep, ChainAdded

\* A link stays, a transfer stays made from it, and who held it is not forgotten
\* before the patch moves on.
LEMMA LinksGoOn ==
    ASSUME Sound, [Next]_vars
    PROVE  /\ \A q \in Confirmed : q \in Confirmed' /\ records'[q] = records[q]
           /\ \A q \in Confirmed : \A signer : HeldAt(q, signer) => HeldAt(q, signer)'
           /\ \A r \in RecordIds, q \in Confirmed : MadeFrom(r, q) => MadeFrom(r, q)'
  <1> USE SoundRefs
  <1>1. /\ \A q \in Confirmed : q \in Confirmed' /\ records'[q] = records[q]
        /\ \A q \in Confirmed : \A signer : HeldAt(q, signer) => HeldAt(q, signer)'
    <2>1. CASE \E r \in RecordIds, t \in DOMAIN chain : Confirms(r, t)
      <3>1. PICK r \in RecordIds, t \in DOMAIN chain : Confirms(r, t)
        BY <2>1
      <3>2. /\ \A q \in Confirmed : q \in Confirmed' /\ records'[q] = records[q]
            /\ \A q \in Confirmed : \A signer :
                  HeldAt(q, signer) => signer = records[q].owner
                     \/ patchStates'[records[q].uid].current_txid # records[q].txid
        BY <3>1, ConfirmCustody DEF Confirms
      <3> QED
        BY <3>2 DEF HeldAt
    <2>2. CASE /\ Confirmed' = Confirmed
               /\ \A q \in Confirmed : records'[q] = records[q]
               /\ UNCHANGED patchStates
      BY <2>2 DEF HeldAt
    <2> QED
      BY <2>1, <2>2, LinkStep
  <1>2. ASSUME NEW r \in RecordIds, NEW q \in Confirmed, MadeFrom(r, q)
        PROVE  MadeFrom(r, q)'
    <2>1. Kept(r) /\ records'[q] = records[q]
      BY <1>1, LinkStep
    <2>2. /\ records[q].txid \in DOMAIN chain
          /\ \A t \in DOMAIN chain : chain[t] = r => records[q].txid < t
      BY <1>2 DEF Sound, Custodial, OnChain, MadeFrom
    <2>3. \A t \in DOMAIN chain' : chain'[t] = r => records[q].txid < t
      <3>1. CASE UNCHANGED chain
        BY <2>2, <3>1
      <3>2. ASSUME NEW s \in RecordIds, Len(chain) < MaxTxs, chain' = Append(chain, s)
            PROVE  \A t \in DOMAIN chain' : chain'[t] = r => records[q].txid < t
        BY <2>2, <3>2, ChainAdded
      <3> QED
        BY <3>1, <3>2, ChainStep
    <2> QED
      BY <1>2, <2>1, <2>3 DEF MadeFrom, Kept
  <1> QED
    BY <1>1, <1>2

\* A record that a step adds: pending, and if a transfer, made from a link that
\* its signer holds.
LEMMA AddedRecord ==
    ASSUME Sound, [Next]_vars, NEW r \in RecordIds', r \notin RecordIds,
           records'[r].type = "TRANSFER"
    PROVE  \E q \in Confirmed : MadeFrom(r, q)' /\ HeldAt(q, records'[r].signer)
  <1> USE SoundRefs
  <1>1. PICK h \in Handlers : RegisterPatch(h) \/ CreateTransfer(h)
    <2>1. ASSUME UNCHANGED records PROVE FALSE
      BY <2>1 DEF RecordIds
    <2>2. ASSUME NEW j \in JobIds, JobRuns(j) \/ JobStalls(j) PROVE RecordIds' = RecordIds
      <3>1. jobs[j].record \in RecordIds /\ jobs[j].txid \in Nat
        BY RowTypes DEF References, Job
      <3> QED
        BY <2>2, <3>1, ChangeStatusEffect, ConfirmEffect
        DEF JobRuns, TakeJob, Broadcast, MarkFailed, MarkConfirmed, JobReturns, JobThrows,
            JobStalls, RecordIds
    <2>3. ASSUME NEW w \in Workers, NEW j \in JobIds, Recovery(w, j)
          PROVE  RecordIds' = RecordIds
      <3>1. jobs[j].record \in RecordIds
        BY DEF References
      <3> QED
        BY <2>3, <3>1, ChangeStatusEffect
        DEF Recovery, RevertFailed, RequeueFailed, ListenerDies, RecordIds
    <2>4. ASSUME NEW h \in Handlers, HandlerStep(h)
          PROVE  RegisterPatch(h) \/ CreateTransfer(h)
      BY <2>1, <2>4 DEF HandlerStep, AuthorizeTransfer, Enqueue, RunInline, AbandonRequest
    <2> QED
      BY <2>1, <2>2, <2>3, <2>4 DEF Next, vars
  <1>2. PICK doc \in Record :
           /\ CreatePending(h, doc)
           /\ doc.status = "pending"
           /\ \/ doc.type = "REGISTRATION"
              \/ /\ doc.type = "TRANSFER"
                 /\ \E q \in Confirmed : /\ records[q].txid = doc.previous_txid
                                        /\ records[q].uid = doc.uid
                                        /\ HeldAt(q, doc.signer)
    <2>1. AuthorizedRequests
      BY DEF Sound
    <2> QED
      BY <1>1, <2>1, CreatedDoc
  <1>3. PICK new \in Nat \ RecordIds :
           /\ RecordIds' = RecordIds \cup {new}
           /\ records'[new] = doc
           /\ \A q \in Confirmed :
                 /\ records[q].txid = doc.previous_txid
                 /\ records[q].uid = doc.uid
                 => MadeFrom(new, q)'
    BY <1>2, NewRecord DEF CreatePending
  <1>4. r = new /\ doc.type = "TRANSFER"
    BY <1>3
  <1> QED
    BY <1>2, <1>3, <1>4

\* Whoever signed a transfer that a step confirms held the link it continues.
LEMMA ConfirmedByHolder ==
    ASSUME Sound, NEW r \in RecordIds, NEW t \in DOMAIN chain, Confirms(r, t),
           records[r].type = "TRANSFER", NEW q \in Confirmed, MadeFrom(r, q)
    PROVE  /\ records'[q].txid = records'[r].previous_txid
           /\ records'[q].uid = records'[r].uid
           /\ records'[q].txid < records'[r].txid
           /\ HeldAt(q, records[r].signer) => records'[q].owner = records'[r].signer
  <1>1. TypeOK /\ t \in Nat /\ q # r /\ q \in RecordIds
    BY LenProperties DEF Sound, TypeOK, Confirms, Confirmed
  <1>2. Kept(r) /\ records'[r].txid = t /\ records'[q] = records[q]
    <2>1. Confirm(r, t)
      BY DEF Confirms
    <2> QED
      BY <1>1, <2>1, ConfirmEffect
  <1>3. patchStates[records[r].uid].current_txid = records[r].previous_txid
    BY DEF Confirms, StateMatches
  <1> QED
    BY <1>2, <1>3 DEF Kept, MadeFrom, Confirms, HeldAt

\* Signatures go with the links.
LEMMA SignersStep ==
    ASSUME Inductive, [Next]_vars
    PROVE  AuthorizedTransfers' /\ SignedByHolder'
  <1> USE InductiveIsSound, SoundRefs
  <1>1. AuthorizedTransfers'
    <2>1. ASSUME NEW r \in RecordIds', records'[r].type = "TRANSFER"
          PROVE  \E q \in Confirmed' : MadeFrom(r, q)' /\ HeldAt(q, records[r].signer)'
      <3>1. PICK signer : signer = records'[r].signer
        OBVIOUS
      <3>2. \E q \in Confirmed : MadeFrom(r, q)' /\ HeldAt(q, signer)
        <4>1. CASE r \in RecordIds
          <5>1. records[r].type = "TRANSFER" /\ signer = records[r].signer
            BY <2>1, <3>1, <4>1, LinkStep DEF Kept
          <5> QED
            BY <4>1, <5>1, LinksGoOn DEF Inductive, AuthorizedTransfers
        <4>2. CASE r \notin RecordIds
          BY <2>1, <3>1, <4>2, AddedRecord
        <4> QED
          BY <4>1, <4>2
      <3>3. \E q \in Confirmed' : MadeFrom(r, q)' /\ HeldAt(q, signer)'
        BY <3>2, LinksGoOn
      <3> QED
        BY <3>1, <3>3 DEF HeldAt
    <2> QED
      BY <2>1 DEF AuthorizedTransfers
  <1>2. SignedByHolder'
    <2> DEFINE Goal(r) == \E q \in Confirmed' : /\ records'[q].txid = records'[r].previous_txid
                                               /\ records'[q].uid = records'[r].uid
                                               /\ records'[q].owner = records'[r].signer
                                               /\ records'[q].txid < records'[r].txid
    <2>1. ASSUME NEW r \in Confirmed, records'[r].type = "TRANSFER" PROVE Goal(r)
      <3>1. records'[r] = records[r]
        BY LinksGoOn
      <3>2. PICK q \in Confirmed : /\ records[q].txid = records[r].previous_txid
                                   /\ records[q].uid = records[r].uid
                                   /\ records[q].owner = records[r].signer
                                   /\ records[q].txid < records[r].txid
        BY <2>1, <3>1 DEF Inductive, SignedByHolder
      <3> QED
        BY <3>1, <3>2, LinksGoOn
    <2>2. ASSUME NEW r \in RecordIds, NEW t \in DOMAIN chain, Confirms(r, t),
                 records'[r].type = "TRANSFER"
          PROVE  Goal(r)
      <3>1. records[r].type = "TRANSFER"
        BY <2>2, LinkStep DEF Kept
      <3>2. PICK q \in Confirmed : MadeFrom(r, q) /\ HeldAt(q, records[r].signer)
        BY <3>1 DEF Inductive, AuthorizedTransfers
      <3> QED
        BY <2>2, <3>1, <3>2, LinksGoOn, ConfirmedByHolder
    <2>3. \/ Confirmed' = Confirmed
          \/ \E r \in RecordIds, t \in DOMAIN chain :
                Confirms(r, t) /\ Confirmed' = Confirmed \cup {r}
      <3>1. ASSUME NEW r \in RecordIds, NEW t \in DOMAIN chain, Confirms(r, t)
            PROVE  Confirmed' = Confirmed \cup {r}
        <4>1. t \in Nat
          BY LenProperties DEF TypeOK
        <4> QED
          BY <3>1, <4>1, ConfirmEffect DEF Confirms
      <3> QED
        BY <3>1, LinkStep
    <2> QED
      BY <2>1, <2>2, <2>3 DEF SignedByHolder
  <1> QED
    BY <1>1, <1>2

-----------------------------------------------------------------------------
(* The theorems *)

\* The strengthening is inductive: every reachable state satisfies it.
LEMMA InductiveStep == Inductive /\ [Next]_vars => Inductive'
  <1> SUFFICES ASSUME Inductive, [Next]_vars PROVE Inductive'
    OBVIOUS
  <1>1. TypeOK' /\ References'
    BY TypeStep, InductiveIsSound, SoundRefs
  <1>2. Custodial' /\ BroadcastHeld' /\ AuthorizedRequests'
    BY CustodyStep, InductiveIsSound
  <1>3. AuthorizedTransfers' /\ SignedByHolder'
    BY SignersStep
  <1> QED
    BY <1>1, <1>2, <1>3 DEF Inductive, Custodial

THEOREM InductiveInvariant == Spec => []Inductive
  BY InitInductive, InductiveStep, PTL DEF Spec

\* Every document, request, job and event keeps its shape
\* (models/AuthenticationRecord.js, models/PatchState.js, the data of a job).
THEOREM TypeCorrect == Spec => []TypeOK
  BY InductiveInvariant, PTL DEF Inductive

\* verifyPatch never finds a state without its record.
THEOREM StateIsBacked == Spec => []StateBacked
  BY InductiveInvariant, PTL DEF Inductive

\* Whatever races, retries, crashes and recovers: no two confirmed transfers
\* leave the same transaction.
THEOREM NeverForks == Spec => []NoFork
  BY InductiveInvariant, PTL DEF Inductive

\* A confirmed transfer was signed by the owner at the link it continues.
THEOREM TransfersAreSigned == Spec => []SignedByHolder
  BY InductiveInvariant, PTL DEF Inductive

\* The transaction of a confirmed record carries that record.
THEOREM ConfirmedIsOnChain == Spec => []OnChain
  BY InductiveInvariant, PTL DEF Inductive

\* markFailed, markConfirmed and revertPending never touch a confirmed record.
THEOREM ConfirmedStays == Spec => ConfirmedIsFinal
  <1> DEFINE Final == \A r \in Confirmed : records'[r] = records[r]
  <1>1. Inductive /\ [Next]_vars => [Final]_vars
    <2> SUFFICES ASSUME Inductive, [Next]_vars PROVE Final
      OBVIOUS
    <2>1. CASE \E r \in RecordIds, t \in DOMAIN chain : Confirms(r, t)
      <3>1. PICK r \in RecordIds, t \in DOMAIN chain : Confirms(r, t)
        BY <2>1
      <3> QED
        BY <3>1, ConfirmCustody, InductiveIsSound DEF Confirms
    <2> QED
      BY <2>1, LinkStep, InductiveIsSound, SoundRefs
  <1> QED
    BY <1>1, InductiveInvariant, PTL DEF Spec, ConfirmedIsFinal

-----------------------------------------------------------------------------
(* The program keeps the promise of module Custody *)

LEMMA CustodyStarts == Init => C!CustodyInit
  <1> SUFFICES ASSUME Init PROVE C!CustodyInit
    OBVIOUS
  <1>1. Links = {}
    BY DEF Init, Links, Confirmed, RecordIds
  <1>2. Heads = [u \in Uids |-> [txid |-> NoTx, owner |-> NoAddress]]
    BY DEF Init, Heads, Unregistered
  <1> QED
    BY <1>1, <1>2 DEF C!CustodyInit, C!NoTx, NoTx

\* A confirmation is an Issue or a HandOver.
LEMMA CustodyGoesOn ==
    ASSUME Inductive, NEW r \in RecordIds, NEW t \in DOMAIN chain, Confirms(r, t)
    PROVE  C!CustodyNext
  <1> DEFINE u == records[r].uid
             prev == records[r].previous_txid
             owner == records[r].owner
             signer == records[r].signer
             link == [uid |-> u, txid |-> t, prev |-> prev, owner |-> owner, by |-> signer]
  <1>1. /\ t \in 1..MaxTxs
        /\ r \notin Confirmed /\ Confirmed \subseteq RecordIds
        /\ u \in Uids /\ owner \in Addresses
    <2>1. DOMAIN chain \subseteq 1..MaxTxs
      <3>1. Len(chain) \in Nat /\ DOMAIN chain = 1..Len(chain)
        BY LenProperties DEF Inductive, TypeOK
      <3>2. Len(chain) <= MaxTxs /\ MaxTxs \in Nat
        BY LifecycleAssumption DEF Inductive, References
      <3> QED
        BY <3>1, <3>2
    <2> QED
      BY <2>1, RowTypes DEF Inductive, Confirms, Confirmed, Record
  <1>2. Links' = Links \cup {link}
    <2>1. /\ Confirmed' = Confirmed \cup {r}
          /\ records'[r].txid = t
          /\ records'[r].uid = u /\ records'[r].owner = owner
          /\ records'[r].signer = signer /\ records'[r].previous_txid = prev
          /\ \A q \in Confirmed : records'[q] = records[q]
      <3>1. t \in Nat
        BY <1>1
      <3>2. TypeOK /\ Confirm(r, t)
        BY DEF Confirms, Inductive
      <3> QED
        BY <1>1, <3>1, <3>2, ConfirmEffect DEF Kept
    <2> QED
      BY <2>1 DEF Links
  <1>3. Heads' = [Heads EXCEPT ![u] = [txid |-> t, owner |-> owner]]
    BY <1>1 DEF Confirms, Confirm, Heads, Inductive, TypeOK
  <1>4. C!Fresh(t)
    <2>1. \A q \in Confirmed : records[q].txid # t
      BY <1>1 DEF Confirms, Inductive, OnChain
    <2> QED
      BY <2>1 DEF C!Fresh, Links
  <1>5. C!Extend(u, t, prev, owner, signer)
    BY <1>2, <1>3, <1>4 DEF C!Extend
  <1>6. CASE records[r].type = "REGISTRATION"
    <2>1. prev = NoTx /\ signer = NoAddress
      BY <1>6 DEF Inductive, Issued
    <2>2. C!Issue(u, t, owner)
      BY <1>5, <2>1 DEF C!Issue, C!NoTx, NoTx
    <2> QED
      BY <1>1, <2>2 DEF C!CustodyNext
  <1>7. CASE records[r].type = "TRANSFER"
    <2>1. PICK q \in Confirmed : MadeFrom(r, q) /\ HeldAt(q, signer)
      BY <1>7 DEF Inductive, AuthorizedTransfers
    <2>2. patchStates[u].current_txid = prev /\ prev = records[q].txid
      BY <1>7, <2>1 DEF Confirms, StateMatches, MadeFrom
    <2>3. signer = records[q].owner
      BY <2>1, <2>2 DEF HeldAt, MadeFrom
    <2>4. prev # NoTx
      <3>1. NoTx \notin DOMAIN chain
        BY LenProperties DEF Inductive, TypeOK, NoTx
      <3> QED
        BY <2>2, <3>1 DEF Inductive, OnChain
    <2>5. patchStates[u].current_owner_address = signer
      <3>1. PICK p \in Confirmed :
               /\ records[p].txid = patchStates[u].current_txid
               /\ records[p].owner = patchStates[u].current_owner_address
        BY <1>1, <2>2, <2>4 DEF Inductive, StateBacked, Unregistered
      <3> QED
        BY <2>2, <2>3, <3>1, OneLinkPerTx DEF Inductive
    <2>6. C!HandOver(u, t, owner)
      <3>1. Heads[u].txid = prev /\ Heads[u].owner = signer
        BY <1>1, <2>2, <2>5 DEF Heads
      <3> QED
        BY <1>5, <2>4, <3>1 DEF C!HandOver, C!NoTx, NoTx
    <2> QED
      BY <1>1, <2>6 DEF C!CustodyNext
  <1> QED
    BY <1>6, <1>7, RowTypes DEF Inductive, Record

\* A step of the program is one of custody, or no custody moves.
LEMMA CustodyMoves == Inductive /\ [Next]_vars => [C!CustodyNext]_(C!custodyVars)
  <1> SUFFICES ASSUME Inductive, [Next]_vars PROVE C!CustodyNext \/ UNCHANGED C!custodyVars
    BY DEF C!custodyVars
  <1>1. CASE \E r \in RecordIds, t \in DOMAIN chain : Confirms(r, t)
    BY <1>1, CustodyGoesOn
  <1>2. CASE /\ Confirmed' = Confirmed
             /\ \A q \in Confirmed : records'[q] = records[q]
             /\ UNCHANGED patchStates
    BY <1>2 DEF C!custodyVars, Links, Heads
  <1> QED
    BY <1>1, <1>2, LinkStep, InductiveIsSound, SoundRefs

\* A patch changes hands only by a link that continues its last one and that
\* the last owner signed.
THEOREM CustodyIsKept == Spec => KeepsCustody
  BY CustodyStarts, CustodyMoves, InductiveInvariant, PTL
  DEF Spec, KeepsCustody, C!CustodySpec

-----------------------------------------------------------------------------
(* One run per record, and a bound on its broadcasts *)

\* At most one process listens for failed jobs: one worker process, or none
\* that recovers them.
OneListener == AutoRecover => \A v, w \in Workers : v = w

\* Who will or does run the job of a record: a request about to queue it, a job,
\* a recovery before or after its first await.
Runs ==
    {<<"request", h, requests[h].record>> : h \in {k \in Handlers : requests[k].step = "created"}}
    \cup {<<"job", j, jobs[j].record>> : j \in {k \in JobIds : Unfinished(k)}}
    \cup {<<"failed", e, jobs[e[2]].record>> : e \in failedEvents}
    \cup {<<"reverted", e, jobs[e[2]].record>> : e \in reverted}

Alone == \A x, y \in Runs : x[3] = y[3] => x = y

\* Times that a record was broadcast.
Broadcasts(r) == Cardinality({t \in DOMAIN chain : chain[t] = r})

\* Broadcasts that an unfinished job can have made: one in every attempt that has
\* ended, and one in this attempt.
Made(job) ==
    job.attemptsMade + job.stalls + IF job.stage \in {"waiting", "broadcast"} THEN 0 ELSE 1

\* Broadcasts allowed to a job.
Quota == MaxAttempts + MaxStalls

\* Every job and every recovery has its share of what is allowed.
WithinQuota ==
    /\ \A r \in RecordIds : Broadcasts(r) <= (1 + MaxRequeues) * Quota
    /\ \A h \in Handlers :
          requests[h].step = "created" => Broadcasts(requests[h].record) = 0
    /\ \A j \in JobIds :
          /\ jobs[j].recoverCount <= MaxRequeues
          /\ Unfinished(j) =>
                /\ jobs[j].attemptsMade < MaxAttempts
                /\ jobs[j].stalls <= MaxStalls
                /\ Broadcasts(jobs[j].record) <= jobs[j].recoverCount * Quota + Made(jobs[j])
    /\ \A e \in failedEvents \cup reverted :
          /\ jobs[e[2]].recoverCount < MaxRequeues
          /\ Broadcasts(jobs[e[2]].record) <= (jobs[e[2]].recoverCount + 1) * Quota

\* A job that returned, or is about to, has seen its record confirmed.
Returned ==
    \A j \in JobIds :
        jobs[j].stage \in {"return", "completed"} => jobs[j].record \in Confirmed

-----------------------------------------------------------------------------
(* What a completed job means *)

\* What a step does to the jobs there are: records stay, and who returns has
\* just seen its record confirmed, and keeps the transaction it held.
LEMMA JobsGoOn ==
    ASSUME TypeOK, References, [Next]_vars
    PROVE  /\ JobIds \subseteq JobIds'
           /\ \A j \in JobIds : jobs'[j].record = jobs[j].record
           /\ \A j \in JobIds' :
                 jobs'[j].stage \in {"return", "completed"} =>
                    /\ j \in JobIds
                    /\ jobs'[j].txid = jobs[j].txid
                    /\ \/ jobs[j].stage = jobs'[j].stage
                       \/ jobs[j].stage = "return" /\ jobs'[j].stage = "completed"
                       \/ jobs[j].stage = "confirm" /\ jobs[j].record \in Confirmed'
  <1> DEFINE Goal == /\ JobIds \subseteq JobIds'
                     /\ \A j \in JobIds : jobs'[j].record = jobs[j].record
                     /\ \A j \in JobIds' :
                           jobs'[j].stage \in {"return", "completed"} =>
                              /\ j \in JobIds
                              /\ jobs'[j].txid = jobs[j].txid
                              /\ \/ jobs[j].stage = jobs'[j].stage
                                 \/ jobs[j].stage = "return" /\ jobs'[j].stage = "completed"
                                 \/ jobs[j].stage = "confirm" /\ jobs[j].record \in Confirmed'
  <1>1. ASSUME UNCHANGED jobs PROVE Goal
    BY <1>1 DEF JobIds
  <1>2. ASSUME NEW job \in Job, job.stage \in {"waiting", "broadcast"},
               jobs' = Append(jobs, job)
        PROVE  Goal
    BY <1>2, JobAdded
  <1>3. ASSUME NEW j \in JobIds,
               NEW stage \in (Running \cup {"waiting", "completed", "failed"}) \ {"return", "completed"},
               MoveTo(j, stage)
        PROVE  Goal
    BY <1>3, MoveToEffect
  <1>4. ASSUME NEW h \in Handlers, HandlerStep(h) PROVE Goal
    <2>1. requests[h] \in Request
      BY DEF TypeOK
    <2>2. /\ NewJob(requests[h].record, 0) \in Job
          /\ NewJob(requests[h].record, 0).stage = "waiting"
      BY <2>1 DEF NewJob, Job, Request, NoTx
    <2>3. /\ [NewJob(requests[h].record, 0) EXCEPT !.queued = FALSE, !.stage = "broadcast"] \in Job
          /\ [NewJob(requests[h].record, 0) EXCEPT !.queued = FALSE,
                                                   !.stage = "broadcast"].stage = "broadcast"
      BY <2>1 DEF NewJob, Job, Running, Request, NoTx
    <2>4. CASE Enqueue(h)
      BY <1>2, <2>2, <2>4 DEF Enqueue
    <2>5. CASE RunInline(h)
      BY <1>2, <2>3, <2>5 DEF RunInline
    <2> QED
      BY <1>1, <1>4, <2>4, <2>5
      DEF HandlerStep, RegisterPatch, AuthorizeTransfer, CreateTransfer, CreatePending, AbandonRequest
  <1>5. ASSUME NEW j \in JobIds, JobRuns(j) \/ JobStalls(j) PROVE Goal
    <2>1. CASE TakeJob(j)
      BY <1>3, <2>1 DEF TakeJob, Running
    <2>2. CASE Broadcast(j)
      <3>1. CASE jobs' = [jobs EXCEPT ![j] = Holding(@, Len(chain) + 1)]
        <4>1. Len(chain) + 1 \in Nat /\ jobs[j] \in Job
          BY RowTypes, LenProperties DEF TypeOK
        <4>2. /\ Holding(jobs[j], Len(chain) + 1) \in Job
              /\ Holding(jobs[j], Len(chain) + 1).stage = "confirm"
              /\ Holding(jobs[j], Len(chain) + 1).record = jobs[j].record
          BY <4>1 DEF Holding, Job, Running
        <4>3. PICK new \in Job : /\ jobs' = [jobs EXCEPT ![j] = new]
                                 /\ new.stage = "confirm" /\ new.record = jobs[j].record
          BY <3>1, <4>2
        <4>4. /\ JobIds' = JobIds /\ jobs'[j] = new
              /\ \A k \in JobIds : k # j => jobs'[k] = jobs[k]
          BY <4>3, JobUpdated
        <4> QED
          BY <4>3, <4>4
      <3> QED
        BY <1>3, <2>2, <3>1 DEF Broadcast, Running
    <2>3. CASE MarkFailed(j)
      BY <1>3, <2>3 DEF MarkFailed, Running
    <2>4. CASE MarkConfirmed(j)
      <3>1. CASE MoveTo(j, "throw")
        BY <1>3, <3>1 DEF Running
      <3>2. CASE MoveTo(j, "return") /\ jobs[j].record \in Confirmed'
        BY <2>4, <3>2, MoveToEffect DEF Running, MarkConfirmed, InStage
      <3>3. jobs[j].record \in RecordIds
        BY DEF References
      <3>4. jobs[j].txid \in Nat
        BY RowTypes DEF Job
      <3>5. CASE records[jobs[j].record].status = "confirmed" /\ UNCHANGED records
                 /\ MoveTo(j, "return")
        BY <3>2, <3>3, <3>5 DEF Confirmed, RecordIds
      <3>6. CASE Confirm(jobs[j].record, jobs[j].txid) /\ MoveTo(j, "return")
        BY <3>2, <3>3, <3>4, <3>6, ConfirmEffect
      <3> QED
        BY <2>4, <3>1, <3>5, <3>6 DEF MarkConfirmed
    <2>5. CASE JobReturns(j)
      BY <2>5, MoveToEffect DEF JobReturns, InStage
    <2>6. CASE JobThrows(j) \/ JobStalls(j)
      BY <2>6, FailEffect
    <2> QED
      BY <1>5, <2>1, <2>2, <2>3, <2>4, <2>5, <2>6 DEF JobRuns
  <1>6. ASSUME NEW w \in Workers, NEW j \in JobIds, Recovery(w, j) PROVE Goal
    <2>1. CASE RequeueFailed(w, j)
      <3>1. /\ NewJob(jobs[j].record, jobs[j].recoverCount + 1) \in Job
            /\ NewJob(jobs[j].record, jobs[j].recoverCount + 1).stage = "waiting"
        BY RowTypes DEF NewJob, Job, NoTx
      <3> QED
        BY <1>2, <2>1, <3>1 DEF RequeueFailed
    <2> QED
      BY <1>1, <1>6, <2>1 DEF Recovery, RevertFailed, ListenerDies
  <1>7. CASE UNCHANGED vars
    BY <1>1, <1>7 DEF vars
  <1> QED
    BY <1>4, <1>5, <1>6, <1>7 DEF Next

LEMMA ReturnedStep ==
    ASSUME Sound, Returned, [Next]_vars
    PROVE  Returned'
  <1>1. \A q \in Confirmed : q \in Confirmed'
    BY LinksGoOn
  <1>2. TypeOK /\ References
    BY DEF Sound
  <1> QED
    BY <1>1, <1>2, JobsGoOn DEF Returned

\* A job that BullMQ reports completed left its record confirmed, and nothing
\* that happens later takes that back.
THEOREM CompletedStaysConfirmed == Spec => []CompletedIsConfirmed
  <1>1. Init => Returned
    BY EmptySeq DEF Init, Returned, JobIds
  <1>2. Returned => CompletedIsConfirmed
    BY DEF Returned, CompletedIsConfirmed, InStage
  <1> QED
    BY <1>1, <1>2, ReturnedStep, InductiveIsSound, InductiveInvariant, PTL DEF Spec

-----------------------------------------------------------------------------
(* Who runs a record *)

\* The fields of a job that its end in failure, or a stall, changes.
LEMMA AttemptCounts ==
    ASSUME NEW job \in Job, NEW stage \in {"waiting", "failed"}
    PROVE  LET made == AttemptMade(job, stage)
               stalled == Stalled(job) IN
           /\ made \in Job /\ stalled \in Job
           /\ made.stage = stage /\ stalled.stage = "waiting"
           /\ made.record = job.record /\ stalled.record = job.record
           /\ made.recoverCount = job.recoverCount /\ stalled.recoverCount = job.recoverCount
           /\ made.attemptsMade = job.attemptsMade + 1
           /\ stalled.attemptsMade = job.attemptsMade
           /\ made.stalls = job.stalls /\ stalled.stalls = job.stalls + 1
  <1>1. job.attemptsMade + 1 \in Nat /\ job.stalls + 1 \in Nat
    BY DEF Job
  <1>2. AttemptMade(job, stage) \in Job /\ Stalled(job) \in Job
    BY <1>1 DEF AttemptMade, Stalled, Job, NoTx
  <1> QED
    BY <1>2 DEF AttemptMade, Stalled, Job

\* The fields that a job's stage leaves alone.
LEMMA StageCounts ==
    ASSUME TypeOK, NEW j \in JobIds,
           NEW stage \in Running \cup {"waiting", "completed", "failed"}, MoveTo(j, stage)
    PROVE  /\ JobIds' = JobIds
           /\ \A k \in JobIds \ {j} : jobs'[k] = jobs[k]
           /\ jobs'[j] \in Job
           /\ jobs'[j].stage = stage /\ jobs'[j].record = jobs[j].record
           /\ jobs'[j].recoverCount = jobs[j].recoverCount
           /\ jobs'[j].attemptsMade = jobs[j].attemptsMade
           /\ jobs'[j].stalls = jobs[j].stalls
  <1>1. [jobs[j] EXCEPT !.stage = stage] \in Job
    BY RowTypes DEF Job
  <1>2. PICK new \in Job : /\ jobs' = [jobs EXCEPT ![j] = new]
                           /\ new.stage = stage /\ new.record = jobs[j].record
                           /\ new.recoverCount = jobs[j].recoverCount
                           /\ new.attemptsMade = jobs[j].attemptsMade
                           /\ new.stalls = jobs[j].stalls
    BY <1>1, RowTypes DEF MoveTo, Job
  <1> QED
    BY <1>2, JobUpdated

\* Job j is unfinished, and the step changes no other.
Turn(j) ==
    /\ Unfinished(j)
    /\ JobIds' = JobIds
    /\ \A k \in JobIds \ {j} : jobs'[k] = jobs[k]
    /\ jobs'[j] \in Job
    /\ jobs'[j].record = jobs[j].record
    /\ jobs'[j].recoverCount = jobs[j].recoverCount
    /\ UNCHANGED <<requests, reverted>>

\* Job j goes on: what it may have broadcast covers what it does broadcast.
GoesOn(j) ==
    /\ jobs'[j].stage \in Running \cup {"waiting"}
    /\ UNCHANGED failedEvents
    /\ jobs[j].attemptsMade < MaxAttempts => jobs'[j].attemptsMade < MaxAttempts
    /\ jobs[j].stalls <= MaxStalls => jobs'[j].stalls <= MaxStalls
    /\ \/ UNCHANGED chain /\ Made(jobs'[j]) >= Made(jobs[j])
       \/ /\ chain' = Append(chain, jobs[j].record)
          /\ Made(jobs'[j]) = Made(jobs[j]) + 1

Completes(j) ==
    /\ jobs'[j].stage = "completed"
    /\ UNCHANGED <<failedEvents, chain>>

\* Job j fails for good, after its last attempt or stall.
Fails(j) ==
    /\ jobs'[j].stage = "failed"
    /\ UNCHANGED chain
    /\ failedEvents' = failedEvents \cup (Recoverers(j) \X {j})
    /\ jobs'[j].attemptsMade = jobs[j].attemptsMade + 1
    /\ jobs'[j].stalls = jobs[j].stalls

LEMMA JobTurn ==
    ASSUME Inductive, NEW j \in JobIds, JobRuns(j) \/ JobStalls(j)
    PROVE  Turn(j) /\ (GoesOn(j) \/ Completes(j) \/ Fails(j))
  <1>0. TypeOK /\ jobs[j] \in Job
    BY RowTypes DEF Inductive
  <1> DEFINE old == jobs[j]
  <1>1. /\ old.attemptsMade \in Nat /\ old.stalls \in Nat
        /\ MaxAttempts \in Nat /\ MaxStalls \in Nat
    BY <1>0, LifecycleAssumption DEF Job
  <1>2. ASSUME NEW stage \in Running \cup {"waiting", "completed", "failed"}, MoveTo(j, stage)
        PROVE  /\ JobIds' = JobIds
               /\ \A k \in JobIds \ {j} : jobs'[k] = jobs[k]
               /\ jobs'[j] \in Job
               /\ jobs'[j].stage = stage /\ jobs'[j].record = old.record
               /\ jobs'[j].recoverCount = old.recoverCount
               /\ jobs'[j].attemptsMade = old.attemptsMade
               /\ jobs'[j].stalls = old.stalls
    BY <1>0, <1>2, StageCounts
  <1>m. ASSUME NEW stage \in Running, MoveTo(j, stage),
               old.stage \in Running \cup {"waiting"},
               stage = "broadcast" => old.stage = "waiting",
               UNCHANGED <<requests, reverted, failedEvents, chain>>
        PROVE  Turn(j) /\ GoesOn(j)
    <2>1. /\ JobIds' = JobIds
          /\ \A k \in JobIds \ {j} : jobs'[k] = jobs[k]
          /\ jobs'[j] \in Job
          /\ jobs'[j].stage = stage /\ jobs'[j].record = old.record
          /\ jobs'[j].recoverCount = old.recoverCount
          /\ jobs'[j].attemptsMade = old.attemptsMade
          /\ jobs'[j].stalls = old.stalls
      BY <1>2, <1>m
    <2>2. Turn(j)
      BY <1>m, <2>1 DEF Turn, Unfinished
    <2>3. Made(jobs'[j]) >= Made(old)
      BY <1>1, <1>m, <2>1 DEF Made, Running
    <2>4. GoesOn(j)
      BY <1>m, <2>1, <2>3 DEF GoesOn
    <2> QED
      BY <2>2, <2>4
  <1>3. CASE TakeJob(j)
    <2>1. MoveTo(j, "broadcast") /\ old.stage = "waiting"
          /\ UNCHANGED <<requests, reverted, failedEvents, chain>>
      BY <1>3 DEF TakeJob, InStage
    <2> QED
      BY <1>m, <2>1 DEF Running
  <1>4. CASE Broadcast(j)
    <2>1. old.stage = "broadcast" /\ UNCHANGED <<requests, reverted, failedEvents>>
      BY <1>4 DEF Broadcast, InStage
    <2>2. CASE (MoveTo(j, "reject") \/ MoveTo(j, "throw")) /\ UNCHANGED chain
      BY <1>m, <2>1, <2>2 DEF Running
    <2>3. CASE /\ chain' = Append(chain, old.record)
               /\ jobs' = [jobs EXCEPT ![j] = Holding(@, Len(chain) + 1)]
      <3>1. Len(chain) + 1 \in Nat
        BY <1>0, LenProperties DEF TypeOK
      <3>2. PICK new \in Job : /\ jobs' = [jobs EXCEPT ![j] = new]
                               /\ new.stage = "confirm" /\ new.record = old.record
                               /\ new.recoverCount = old.recoverCount
                               /\ new.attemptsMade = old.attemptsMade
                               /\ new.stalls = old.stalls
        <4>1. Holding(old, Len(chain) + 1) \in Job
          BY <1>0, <3>1 DEF Holding, Job, Running
        <4> QED
          BY <1>0, <2>3, <4>1 DEF Holding, Job
      <3>3. /\ JobIds' = JobIds
            /\ \A k \in JobIds \ {j} : jobs'[k] = jobs[k]
            /\ jobs'[j] = new
        BY <1>0, <3>2, JobUpdated
      <3> QED
        <4>1. Turn(j)
          BY <2>1, <3>2, <3>3 DEF Turn, Unfinished, Running
        <4>2. Made(jobs'[j]) = Made(old) + 1
          BY <1>1, <2>1, <3>2, <3>3 DEF Made
        <4>3. GoesOn(j)
          BY <2>1, <2>3, <3>2, <3>3, <4>2 DEF GoesOn, Running
        <4> QED
          BY <4>1, <4>3
    <2> QED
      BY <1>4, <2>2, <2>3 DEF Broadcast
  <1>5. CASE MarkFailed(j)
    <2>1. /\ MoveTo(j, "throw") /\ old.stage = "reject"
          /\ UNCHANGED <<requests, reverted, failedEvents, chain>>
      BY <1>5 DEF MarkFailed, InStage
    <2> QED
      BY <1>m, <2>1 DEF Running
  <1>6. CASE MarkConfirmed(j)
    <2>1. /\ MoveTo(j, "return") \/ MoveTo(j, "throw")
          /\ old.stage = "confirm"
          /\ UNCHANGED <<requests, reverted, failedEvents, chain>>
      BY <1>6 DEF MarkConfirmed, InStage
    <2> QED
      BY <1>m, <2>1 DEF Running
  <1>7. CASE JobReturns(j)
    <2>1. /\ MoveTo(j, "completed") /\ old.stage = "return"
          /\ UNCHANGED <<requests, reverted, failedEvents, chain>>
      BY <1>7 DEF JobReturns, InStage
    <2> QED
      BY <1>1, <1>2, <2>1 DEF Turn, Completes, Unfinished, Running
  <1>8. CASE JobThrows(j) \/ JobStalls(j)
    <2>1. /\ old.stage \in Running
          /\ UNCHANGED <<requests, reverted, chain>>
      BY <1>8 DEF JobThrows, JobStalls, InStage, Running
    <2>2. ASSUME NEW new \in Job, jobs' = [jobs EXCEPT ![j] = new]
          PROVE  /\ JobIds' = JobIds
                 /\ \A k \in JobIds \ {j} : jobs'[k] = jobs[k]
                 /\ jobs'[j] = new
      BY <1>0, <2>2, JobUpdated
    <2>3. CASE /\ old.attemptsMade + 1 < MaxAttempts
               /\ jobs' = [jobs EXCEPT ![j] = AttemptMade(@, "waiting")]
               /\ UNCHANGED failedEvents
      <3>1. PICK new \in Job : /\ jobs' = [jobs EXCEPT ![j] = new]
                               /\ new.stage = "waiting" /\ new.record = old.record
                               /\ new.recoverCount = old.recoverCount
                               /\ new.attemptsMade = old.attemptsMade + 1
                               /\ new.stalls = old.stalls
        BY <1>0, <2>3, AttemptCounts
      <3>2. /\ JobIds' = JobIds
            /\ \A k \in JobIds \ {j} : jobs'[k] = jobs[k]
            /\ jobs'[j] = new
        BY <2>2, <3>1
      <3>3. Made(new) >= Made(old)
        BY <1>1, <2>1, <3>1 DEF Made, Running
      <3>4. Turn(j)
        BY <2>1, <3>1, <3>2 DEF Turn, Unfinished
      <3> QED
        BY <1>1, <2>1, <2>3, <3>1, <3>2, <3>3, <3>4 DEF GoesOn
    <2>4. CASE /\ old.stalls < MaxStalls
               /\ jobs' = [jobs EXCEPT ![j] = Stalled(@)]
               /\ UNCHANGED failedEvents
      <3>1. PICK new \in Job : /\ jobs' = [jobs EXCEPT ![j] = new]
                               /\ new.stage = "waiting" /\ new.record = old.record
                               /\ new.recoverCount = old.recoverCount
                               /\ new.attemptsMade = old.attemptsMade
                               /\ new.stalls = old.stalls + 1
        BY <1>0, <2>4, AttemptCounts
      <3>2. /\ JobIds' = JobIds
            /\ \A k \in JobIds \ {j} : jobs'[k] = jobs[k]
            /\ jobs'[j] = new
        BY <2>2, <3>1
      <3>3. Made(new) >= Made(old)
        BY <1>1, <2>1, <3>1 DEF Made, Running
      <3>4. Turn(j)
        BY <2>1, <3>1, <3>2 DEF Turn, Unfinished
      <3> QED
        BY <1>1, <2>1, <2>4, <3>1, <3>2, <3>3, <3>4 DEF GoesOn
    <2>5. CASE GiveUp(j)
      <3>1. PICK new \in Job : /\ jobs' = [jobs EXCEPT ![j] = new]
                               /\ new.stage = "failed" /\ new.record = old.record
                               /\ new.recoverCount = old.recoverCount
                               /\ new.attemptsMade = old.attemptsMade + 1
                               /\ new.stalls = old.stalls
        BY <1>0, <2>5, AttemptCounts DEF GiveUp
      <3>2. failedEvents' = failedEvents \cup (Recoverers(j) \X {j})
        BY <2>5 DEF GiveUp
      <3> QED
        BY <2>1, <2>2, <3>1, <3>2 DEF Turn, Fails, Unfinished
    <2> QED
      BY <1>8, <2>3, <2>4, <2>5 DEF JobThrows, JobStalls
  <1> QED
    BY <1>3, <1>4, <1>5, <1>6, <1>7, <1>8 DEF JobRuns

\* Whatever runs runs a record there is.
LEMMA RunsRecords == Inductive => \A x \in Runs : x[3] \in RecordIds
  BY DEF Inductive, TypeOK, References, Runs

\* A request changes nothing for the others: it is begun, authorized or
\* abandoned; or creates a record; or starts the job of the record it created.
Quiet(h) ==
    /\ UNCHANGED <<jobs>> /\ RecordIds' = RecordIds
    /\ requests'[h].step # "created"

Creates(h) ==
    /\ UNCHANGED <<jobs>>
    /\ \E new : /\ new \notin RecordIds /\ RecordIds' = RecordIds \cup {new}
               /\ requests'[h].record = new

\* A new job n for record r, recovered as often as recoverCount says.
Starts(n, r, recoverCount) ==
    /\ n \notin JobIds /\ JobIds' = JobIds \cup {n}
    /\ \A k \in JobIds : jobs'[k] = jobs[k]
    /\ jobs'[n].record = r /\ jobs'[n].recoverCount = recoverCount
    /\ jobs'[n].attemptsMade = 0 /\ jobs'[n].stalls = 0
    /\ jobs'[n].stage \in {"waiting", "broadcast"}

Queues(h) ==
    /\ requests[h].step = "created" /\ requests'[h].step = "idle"
    /\ RecordIds' = RecordIds
    /\ \E n : Starts(n, requests[h].record, 0)

LEMMA HandlerTurn ==
    ASSUME Inductive, NEW h \in Handlers, HandlerStep(h)
    PROVE  /\ UNCHANGED <<chain, failedEvents, reverted>>
           /\ \A k \in Handlers \ {h} : requests'[k] = requests[k]
           /\ Quiet(h) \/ Creates(h) \/ Queues(h)
  <1>0. TypeOK /\ requests[h] \in Request
    BY DEF Inductive, TypeOK
  <1>1. /\ UNCHANGED <<chain, failedEvents, reverted>>
        /\ \A k \in Handlers \ {h} : requests'[k] = requests[k]
    BY <1>0 DEF HandlerStep, RegisterPatch, AuthorizeTransfer, CreateTransfer, CreatePending,
                Enqueue, RunInline, AbandonRequest, TypeOK
  <1>2. ASSUME NEW doc \in Record, CreatePending(h, doc)
        PROVE  Creates(h)
    <2>1. /\ RecordIds' = RecordIds \cup {Len(records) + 1}
          /\ Len(records) + 1 \notin RecordIds
      BY <1>0, <1>2, RecordAdded DEF CreatePending
    <2>2. requests'[h].record = Len(records) + 1 /\ UNCHANGED <<jobs>>
      BY <1>0, <1>2 DEF CreatePending, IdleRequest, TypeOK
    <2> QED
      BY <2>1, <2>2 DEF Creates
  <1>3. CASE RegisterPatch(h)
    <2>1. PICK u \in Uids, owner \in Addresses, kept \in MetaShapes :
             CreatePending(h, Registration(u, owner, kept, Len(records) + 1))
      BY <1>3 DEF RegisterPatch
    <2>2. Len(records) + 1 \in Nat /\ kept \in BOOLEAN
      BY <1>0, LenProperties, LifecycleAssumption DEF TypeOK
    <2>3. Registration(u, owner, kept, Len(records) + 1) \in Record
      BY <2>2, RegistrationType
    <2> QED
      BY <1>1, <1>2, <2>1, <2>3
  <1>4. CASE AuthorizeTransfer(h)
    BY <1>0, <1>1, <1>4 DEF AuthorizeTransfer, Quiet, RecordIds, TypeOK
  <1>5. CASE CreateTransfer(h)
    <2> DEFINE req == requests[h]
               doc == TransferOf(records[req.record], req, Len(records) + 1)
    <2>1. /\ records[req.record] \in Record
          /\ req \in Request /\ req.newOwner \in Addresses
          /\ Len(records) + 1 \in Nat
      BY <1>5, RowTypes, LenProperties
      DEF CreateTransfer, Inductive, AuthorizedRequests, Confirmed, TypeOK, Request
    <2>2. doc \in Record
      BY <2>1, TransferType
    <2>3. CreatePending(h, doc)
      BY <1>5 DEF CreateTransfer
    <2> HIDE DEF doc
    <2> QED
      BY <1>1, <1>2, <2>2, <2>3
  <1>6. CASE Enqueue(h) \/ RunInline(h)
    <2> DEFINE r == requests[h].record
               job == NewJob(r, 0)
               inline == [job EXCEPT !.queued = FALSE, !.stage = "broadcast"]
    <2>1. \A new \in {job, inline} :
             /\ new \in Job /\ new.record = r /\ new.recoverCount = 0
             /\ new.attemptsMade = 0 /\ new.stalls = 0
             /\ new.stage \in {"waiting", "broadcast"}
      <3>1. /\ job \in Job /\ job.record = r /\ job.recoverCount = 0
            /\ job.attemptsMade = 0 /\ job.stalls = 0 /\ job.stage = "waiting"
        BY <1>0 DEF NewJob, Job, Request, NoTx
      <3> HIDE DEF job
      <3>2. inline \in Job /\ inline.stage = "broadcast"
        BY <3>1 DEF Job, Running
      <3>3. /\ inline.record = r /\ inline.recoverCount = 0
            /\ inline.attemptsMade = 0 /\ inline.stalls = 0
        BY <3>1 DEF Job
      <3> QED
        BY <3>1, <3>2, <3>3
    <2>2. \E new \in {job, inline} : jobs' = Append(jobs, new)
      BY <1>6 DEF Enqueue, RunInline
    <2>3. /\ requests[h].step = "created" /\ requests'[h].step = "idle"
          /\ RecordIds' = RecordIds
      BY <1>0, <1>6 DEF Enqueue, RunInline, IdleRequest, TypeOK, RecordIds
    <2> HIDE DEF job, inline
    <2>4. PICK new \in {job, inline} : jobs' = Append(jobs, new)
      BY <2>2
    <2>5. Starts(Len(jobs) + 1, r, 0)
      BY <1>0, <2>1, <2>4, JobAdded DEF Starts
    <2> QED
      BY <1>1, <2>3, <2>5 DEF Queues
  <1>7. CASE AbandonRequest(h)
    BY <1>0, <1>1, <1>7 DEF AbandonRequest, Quiet, IdleRequest, RecordIds, TypeOK
  <1> QED
    BY <1>1, <1>3, <1>4, <1>5, <1>6, <1>7 DEF HandlerStep

\* A recovery ends, passes its first await, or starts a job.
LEMMA RecoveryTurn ==
    ASSUME Inductive, NEW w \in Workers, NEW j \in JobIds, Recovery(w, j)
    PROVE  /\ UNCHANGED <<chain, requests>>
           /\ RecordIds' = RecordIds
           /\ \/ /\ RevertFailed(w, j) /\ UNCHANGED jobs
              \/ /\ <<w, j>> \in reverted /\ reverted' = reverted \ {<<w, j>>}
                 /\ UNCHANGED failedEvents
                 /\ \E n : Starts(n, jobs[j].record, jobs[j].recoverCount + 1)
              \/ /\ UNCHANGED jobs
                 /\ failedEvents' \subseteq failedEvents /\ reverted' \subseteq reverted
  <1>0. TypeOK /\ jobs[j].record \in RecordIds
    BY DEF Inductive, References
  <1>1. CASE RevertFailed(w, j)
    <2>1. RecordIds' = RecordIds
      BY <1>0, <1>1, ChangeStatusEffect DEF RevertFailed
    <2> QED
      BY <1>1, <2>1 DEF RevertFailed
  <1>2. CASE RequeueFailed(w, j)
    <2> DEFINE job == NewJob(jobs[j].record, jobs[j].recoverCount + 1)
    <2>1. /\ job \in Job /\ job.record = jobs[j].record
          /\ job.recoverCount = jobs[j].recoverCount + 1
          /\ job.attemptsMade = 0 /\ job.stalls = 0 /\ job.stage = "waiting"
      BY <1>0, RowTypes DEF NewJob, Job, NoTx
    <2>2. jobs' = Append(jobs, job)
      BY <1>2 DEF RequeueFailed
    <2> HIDE DEF job
    <2>3. Starts(Len(jobs) + 1, jobs[j].record, jobs[j].recoverCount + 1)
      BY <1>0, <2>1, <2>2, JobAdded DEF Starts
    <2> QED
      BY <1>2, <2>3 DEF RequeueFailed, RecordIds
  <1>3. CASE ListenerDies(w, j)
    BY <1>3 DEF ListenerDies, RecordIds
  <1> QED
    BY <1>1, <1>2, <1>3 DEF Recovery

\* A step hands one run on, ends it, or begins one for a new record.
HandsOn(x, y) == x \in Runs /\ y[3] = x[3] /\ Runs' \subseteq (Runs \ {x}) \cup {y}
Begins(y) == y[3] \notin RecordIds /\ Runs' \subseteq Runs \cup {y}

LEMMA RunsMove ==
    ASSUME Inductive, OneListener, [Next]_vars
    PROVE  \/ Runs' \subseteq Runs
           \/ \E y : Begins(y)
           \/ \E x, y : HandsOn(x, y)
  <1>0. \A e \in failedEvents \cup reverted : e[2] \in JobIds
    BY DEF Inductive, TypeOK
  <1>1. ASSUME NEW h \in Handlers, HandlerStep(h)
        PROVE  \/ Runs' \subseteq Runs
               \/ \E y : Begins(y)
               \/ \E x, y : HandsOn(x, y)
    <2>1. /\ UNCHANGED <<failedEvents, reverted>>
          /\ \A k \in Handlers \ {h} : requests'[k] = requests[k]
          /\ Quiet(h) \/ Creates(h) \/ Queues(h)
      BY <1>1, HandlerTurn
    <2>2. CASE Quiet(h)
      BY <2>1, <2>2 DEF Quiet, Runs, Unfinished, JobIds
    <2>3. CASE Creates(h)
      <3>1. PICK new : /\ new \notin RecordIds /\ requests'[h].record = new
                       /\ UNCHANGED jobs
        BY <2>3 DEF Creates
      <3> DEFINE y == <<"request", h, new>>
      <3>2. Runs' \subseteq Runs \cup {y}
        BY <2>1, <3>1 DEF Runs, Unfinished, JobIds
      <3>3. Begins(y)
        BY <3>1, <3>2 DEF Begins
      <3> QED
        BY <3>3
    <2>4. CASE Queues(h)
      <3> DEFINE r == requests[h].record
      <3>1. PICK n : Starts(n, r, 0)
        BY <2>4 DEF Queues
      <3> DEFINE x == <<"request", h, r>>
                 y == <<"job", n, r>>
      <3>2. x \in Runs /\ Runs' \subseteq (Runs \ {x}) \cup {y}
        BY <1>0, <2>1, <2>4, <3>1 DEF Queues, Starts, Runs, Unfinished
      <3>3. HandsOn(x, y)
        BY <3>2 DEF HandsOn
      <3> QED
        BY <3>3
    <2> QED
      BY <2>1, <2>2, <2>3, <2>4
  <1>2. ASSUME NEW j \in JobIds, JobRuns(j) \/ JobStalls(j)
        PROVE  Runs' \subseteq Runs \/ \E x, y : HandsOn(x, y)
    <2> DEFINE r == jobs[j].record
               x == <<"job", j, r>>
    <2>1. Turn(j) /\ (GoesOn(j) \/ Completes(j) \/ Fails(j))
      BY <1>2, JobTurn
    <2>2. \A k \in JobIds : jobs'[k].record = jobs[k].record
      BY <2>1 DEF Turn
    <2>3. x \in Runs
      BY <2>1 DEF Turn, Runs
    <2>4. CASE GoesOn(j) \/ Completes(j)
      BY <1>0, <2>1, <2>2, <2>4 DEF Turn, GoesOn, Completes, Runs, Unfinished
    <2>5. CASE Fails(j) /\ Recoverers(j) = {}
      BY <1>0, <2>1, <2>2, <2>5 DEF Turn, Fails, Runs, Unfinished, Running
    <2>6. CASE Fails(j) /\ Recoverers(j) # {}
      <3>1. PICK w : Recoverers(j) = {w}
        BY <2>6 DEF Recoverers, OneListener
      <3> DEFINE y == <<"failed", <<w, j>>, r>>
      <3>2. failedEvents' = failedEvents \cup {<<w, j>>}
        BY <2>6, <3>1 DEF Fails
      <3>3. Runs' \subseteq (Runs \ {x}) \cup {y}
        BY <1>0, <2>1, <2>2, <2>6, <3>2 DEF Turn, Fails, Runs, Unfinished, Running
      <3>4. HandsOn(x, y)
        BY <2>3, <3>3 DEF HandsOn
      <3> QED
        BY <3>4
    <2> QED
      BY <2>1, <2>4, <2>5, <2>6
  <1>3. ASSUME NEW w \in Workers, NEW j \in JobIds, Recovery(w, j)
        PROVE  Runs' \subseteq Runs \/ \E x, y : HandsOn(x, y)
    <2> DEFINE r == jobs[j].record
    <2>0. UNCHANGED requests
      BY <1>3, RecoveryTurn
    <2>1. CASE RevertFailed(w, j)
      <3> DEFINE x == <<"failed", <<w, j>>, r>>
                 y == <<"reverted", <<w, j>>, r>>
      <3>1. x \in Runs /\ Runs' \subseteq (Runs \ {x}) \cup {y}
        BY <2>1 DEF RevertFailed, Runs, Unfinished, JobIds
      <3>2. HandsOn(x, y)
        BY <3>1 DEF HandsOn
      <3> QED
        BY <3>2
    <2>2. CASE /\ <<w, j>> \in reverted /\ reverted' = reverted \ {<<w, j>>}
               /\ UNCHANGED failedEvents
               /\ \E n : Starts(n, r, jobs[j].recoverCount + 1)
      <3>1. PICK n : Starts(n, r, jobs[j].recoverCount + 1)
        BY <2>2
      <3> DEFINE x == <<"reverted", <<w, j>>, r>>
                 y == <<"job", n, r>>
      <3>2. x \in Runs /\ Runs' \subseteq (Runs \ {x}) \cup {y}
        BY <1>0, <2>0, <2>2, <3>1 DEF Starts, Runs, Unfinished
      <3>3. HandsOn(x, y)
        BY <3>2 DEF HandsOn
      <3> QED
        BY <3>3
    <2>3. CASE /\ UNCHANGED jobs
               /\ failedEvents' \subseteq failedEvents /\ reverted' \subseteq reverted
      BY <2>0, <2>3 DEF Runs, Unfinished, JobIds
    <2> QED
      BY <1>3, <2>1, <2>2, <2>3, RecoveryTurn
  <1>4. CASE UNCHANGED vars
    BY <1>4 DEF vars, Runs, Unfinished, JobIds
  <1> QED
    BY <1>1, <1>2, <1>3, <1>4 DEF Next

LEMMA AloneStep == Inductive /\ OneListener /\ Alone /\ [Next]_vars => Alone'
  <1> SUFFICES ASSUME Inductive, OneListener, Alone, [Next]_vars PROVE Alone'
    OBVIOUS
  <1>1. CASE Runs' \subseteq Runs
    BY <1>1 DEF Alone
  <1>2. ASSUME NEW y, Begins(y) PROVE Alone'
    BY <1>2, RunsRecords DEF Alone, Begins
  <1>3. ASSUME NEW x, NEW y, HandsOn(x, y) PROVE Alone'
    BY <1>3 DEF Alone, HandsOn
  <1> QED
    BY <1>1, <1>2, <1>3, RunsMove

\* What is allowed to one job more.
LEMMA Shares ==
    ASSUME NEW i \in Nat, NEW j \in Nat
    PROVE  /\ Quota \in Nat \ {0} /\ MaxRequeues \in Nat
           /\ i * Quota \in Nat
           /\ (i + 1) * Quota = i * Quota + Quota
           /\ i <= j => i * Quota <= j * Quota
  <1>1. Quota \in Nat \ {0} /\ MaxRequeues \in Nat
    BY LifecycleAssumption DEF Quota
  <1> DEFINE q == Quota
  <1> HIDE DEF q
  <1>2. ASSUME q \in Nat \ {0}
        PROVE  /\ i * q \in Nat /\ (i + 1) * q = i * q + q
               /\ i <= j => i * q <= j * q
    <2>1. \A k \in Nat : k * q \in Nat /\ (i + k) * q = i * q + k * q
      BY <1>2
    <2>2. i <= j => j - i \in Nat /\ j = i + (j - i)
      OBVIOUS
    <2>3. (i + 1) * q = i * q + q
      BY <1>2, <2>1
    <2> QED
      BY <1>2, <2>1, <2>2, <2>3
  <1> QED
    BY <1>1, <1>2 DEF q

\* A job that has been recovered no more than allowed stays below the bound.
LEMMA ShareBounded ==
    ASSUME NEW i \in Nat, i <= MaxRequeues
    PROVE  (i + 1) * Quota <= (1 + MaxRequeues) * Quota
  <1>1. MaxRequeues \in Nat
    BY LifecycleAssumption
  <1>2. i + 1 \in Nat /\ 1 + MaxRequeues \in Nat /\ i + 1 <= 1 + MaxRequeues
    BY <1>1
  <1> QED
    BY <1>2, Shares

\* A broadcast adds one for the record it carries.
LEMMA BroadcastsCount ==
    ASSUME Inductive
    PROVE  /\ \A r : Broadcasts(r) \in Nat
           /\ \A r : r \notin RecordIds => Broadcasts(r) = 0
           /\ UNCHANGED chain => \A r : Broadcasts(r)' = Broadcasts(r)
           /\ \A q \in RecordIds : chain' = Append(chain, q) =>
                 \A r : Broadcasts(r)' = IF r = q THEN Broadcasts(r) + 1 ELSE Broadcasts(r)
  <1> DEFINE Of(r) == {t \in DOMAIN chain : chain[t] = r}
  <1>1. chain \in Seq(Nat) /\ RecordIds \subseteq Nat
    BY RowTypes DEF Inductive, TypeOK
  <1>2. IsFiniteSet(DOMAIN chain)
    <2>1. DOMAIN chain = 1..Len(chain) /\ Len(chain) \in Nat
      BY <1>1, LenProperties
    <2> QED
      BY <2>1, FS_Interval
  <1>3. \A r : IsFiniteSet(Of(r)) /\ Cardinality(Of(r)) \in Nat
    <2> TAKE r
    <2>1. Of(r) \in SUBSET DOMAIN chain
      OBVIOUS
    <2>2. IsFiniteSet(Of(r))
      BY <1>2, <2>1, FS_Subset, Zenon
    <2> QED
      BY <2>2, FS_CardinalityType, Zenon
  <1>4. \A r : r \notin RecordIds => Broadcasts(r) = 0
    <2> TAKE r
    <2> SUFFICES ASSUME r \notin RecordIds PROVE Broadcasts(r) = 0
      OBVIOUS
    <2>1. Of(r) = {}
      BY DEF Inductive, References
    <2> QED
      BY <2>1, FS_EmptySet DEF Broadcasts
  <1>5. ASSUME NEW q \in RecordIds, chain' = Append(chain, q), NEW r
        PROVE  Broadcasts(r)' = IF r = q THEN Broadcasts(r) + 1 ELSE Broadcasts(r)
    <2>1. /\ DOMAIN chain' = DOMAIN chain \cup {Len(chain) + 1}
          /\ Len(chain) + 1 \notin DOMAIN chain
          /\ \A t \in DOMAIN chain : chain'[t] = chain[t]
          /\ chain'[Len(chain) + 1] = q
      BY <1>1, <1>5, AppendRow
    <2>2. CASE r # q
      <3>1. {t \in DOMAIN chain' : chain'[t] = r} = Of(r)
        BY <2>1, <2>2
      <3> QED
        BY <2>2, <3>1 DEF Broadcasts
    <2>3. CASE r = q
      <3>1. {t \in DOMAIN chain' : chain'[t] = r} = Of(r) \cup {Len(chain) + 1}
        BY <2>1, <2>3
      <3>2. Len(chain) + 1 \notin Of(r)
        BY <2>1
      <3>3. Cardinality(Of(r) \cup {Len(chain) + 1}) = Cardinality(Of(r)) + 1
        <4>1. Cardinality(Of(r) \cup {Len(chain) + 1})
                 = IF Len(chain) + 1 \in Of(r) THEN Cardinality(Of(r)) ELSE Cardinality(Of(r)) + 1
          <5> HIDE DEF Of
          <5> QED
            BY <1>3, FS_AddElement, Zenon
        <4> QED
          BY <3>2, <4>1, Zenon
      <3> QED
        BY <2>3, <3>1, <3>3 DEF Broadcasts
    <2> QED
      BY <2>2, <2>3
  <1>6. UNCHANGED chain => \A r : Broadcasts(r)' = Broadcasts(r)
    BY DEF Broadcasts
  <1> QED
    BY <1>3, <1>4, <1>5, <1>6 DEF Broadcasts

\* Types of the numbers in play.
LEMMA JobNumbers ==
    ASSUME Inductive, NEW j \in JobIds
    PROVE  /\ jobs[j].attemptsMade \in Nat /\ jobs[j].stalls \in Nat
           /\ jobs[j].recoverCount \in Nat /\ jobs[j].record \in RecordIds
           /\ MaxAttempts \in Nat /\ MaxStalls \in Nat /\ MaxRequeues \in Nat
           /\ Made(jobs[j]) \in Nat
  <1>1. jobs[j] \in Job /\ jobs[j].record \in RecordIds
    BY RowTypes DEF Inductive, References
  <1>2. jobs[j].attemptsMade \in Nat /\ jobs[j].stalls \in Nat /\ jobs[j].recoverCount \in Nat
    BY <1>1 DEF Job
  <1> QED
    BY <1>1, <1>2, LifecycleAssumption DEF Made

\* A job that is new starts with what is allowed to the ones before it.
LEMMA StartsWithin ==
    ASSUME Inductive, NEW n, NEW r \in RecordIds, NEW i \in Nat, Starts(n, r, i),
           i <= MaxRequeues, Broadcasts(r)' <= i * Quota
    PROVE  /\ jobs'[n].recoverCount <= MaxRequeues
           /\ jobs'[n].attemptsMade < MaxAttempts
           /\ jobs'[n].stalls <= MaxStalls
           /\ Broadcasts(jobs[n].record)' <= jobs'[n].recoverCount * Quota + Made(jobs'[n])
  <1>1. Made(jobs'[n]) = 0
    BY DEF Starts, Made
  <1>2. MaxAttempts > 0 /\ MaxAttempts \in Nat /\ MaxStalls \in Nat
    BY LifecycleAssumption
  <1>3. i * Quota + Made(jobs'[n]) = i * Quota
    BY <1>1, Shares
  <1>4. Broadcasts(jobs[n].record)' = Broadcasts(r)'
    BY DEF Starts
  <1>5. jobs'[n].recoverCount = i /\ jobs'[n].attemptsMade = 0 /\ jobs'[n].stalls = 0
    BY DEF Starts
  <1>6. Broadcasts(jobs[n].record)' <= jobs'[n].recoverCount * Quota + Made(jobs'[n])
    BY <1>3, <1>4, <1>5
  <1> QED
    BY <1>2, <1>5, <1>6

LEMMA QuotaHandler ==
    ASSUME Inductive, WithinQuota, NEW h \in Handlers, HandlerStep(h)
    PROVE  WithinQuota'
  <1>1. /\ UNCHANGED <<chain, failedEvents, reverted>>
        /\ \A k \in Handlers \ {h} : requests'[k] = requests[k]
        /\ Quiet(h) \/ Creates(h) \/ Queues(h)
    BY HandlerTurn
  <1>2. \A r : Broadcasts(r)' = Broadcasts(r)
    BY <1>1, BroadcastsCount
  <1>3. /\ \A r : r \notin RecordIds => Broadcasts(r)' = 0
        /\ 0 <= (1 + MaxRequeues) * Quota
        /\ 0 * Quota = 0
    <2>1. 1 + MaxRequeues \in Nat /\ Quota \in Nat
      BY Shares
    <2>2. (1 + MaxRequeues) * Quota \in Nat /\ 0 * Quota = 0
      BY <2>1, Shares
    <2> QED
      BY <1>2, <2>2, BroadcastsCount
  <1>4. \A e \in failedEvents \cup reverted : e[2] \in JobIds
    BY DEF Inductive, TypeOK
  <1>5. \A r \in RecordIds' : Broadcasts(r)' <= (1 + MaxRequeues) * Quota
    BY <1>1, <1>2, <1>3 DEF Quiet, Creates, Queues, WithinQuota
  <1>6. \A k \in Handlers : requests'[k].step = "created" => Broadcasts(requests[k].record)' = 0
    BY <1>1, <1>2, <1>3 DEF Quiet, Creates, Queues, WithinQuota
  <1>7. ASSUME UNCHANGED jobs PROVE WithinQuota'
    BY <1>1, <1>2, <1>5, <1>6, <1>7 DEF WithinQuota, Unfinished, JobIds
  <1>8. ASSUME NEW r \in RecordIds, Broadcasts(r) = 0, NEW n, Starts(n, r, 0)
        PROVE  WithinQuota'
    <2>1. Broadcasts(r)' <= 0 * Quota /\ 0 <= MaxRequeues
      <3>1. Broadcasts(r)' = 0
        BY <1>2, <1>8
      <3> QED
        BY <1>3, <3>1, LifecycleAssumption
    <2>3. /\ jobs'[n].recoverCount <= MaxRequeues
          /\ jobs'[n].attemptsMade < MaxAttempts
          /\ jobs'[n].stalls <= MaxStalls
          /\ Broadcasts(jobs[n].record)' <= jobs'[n].recoverCount * Quota + Made(jobs'[n])
      BY <1>8, <2>1, StartsWithin
    <2>4. \A k \in JobIds' : k = n \/ (k \in JobIds /\ jobs'[k] = jobs[k])
      BY <1>8 DEF Starts
    <2>5. \A k \in JobIds :
             /\ jobs[k].recoverCount <= MaxRequeues
             /\ Unfinished(k) =>
                   /\ jobs[k].attemptsMade < MaxAttempts
                   /\ jobs[k].stalls <= MaxStalls
                   /\ Broadcasts(jobs[k].record) <= jobs[k].recoverCount * Quota + Made(jobs[k])
      BY DEF WithinQuota
    <2>6. \A k \in JobIds' :
             /\ jobs'[k].recoverCount <= MaxRequeues
             /\ Unfinished(k)' =>
                   /\ jobs'[k].attemptsMade < MaxAttempts
                   /\ jobs'[k].stalls <= MaxStalls
                   /\ Broadcasts(jobs[k].record)' <= jobs'[k].recoverCount * Quota + Made(jobs'[k])
      BY <1>2, <2>3, <2>4, <2>5 DEF Unfinished
    <2>7. \A e \in failedEvents \cup reverted : jobs'[e[2]] = jobs[e[2]]
      BY <1>4, <1>8 DEF Starts
    <2>8. \A e \in (failedEvents \cup reverted)' :
             /\ jobs'[e[2]].recoverCount < MaxRequeues
             /\ Broadcasts(jobs[e[2]].record)' <= (jobs'[e[2]].recoverCount + 1) * Quota
      BY <1>1, <1>2, <2>7 DEF WithinQuota
    <2> QED
      BY <1>5, <1>6, <2>6, <2>8 DEF WithinQuota
  <1>9. CASE Queues(h)
    <2>1. PICK r \in RecordIds : r = requests[h].record
      BY <1>9 DEF Queues, Inductive, References
    <2>2. Broadcasts(r) = 0
      BY <1>9, <2>1 DEF Queues, WithinQuota
    <2> QED
      BY <1>8, <1>9, <2>1, <2>2 DEF Queues
  <1> QED
    BY <1>1, <1>7, <1>9 DEF Quiet, Creates

\* Only the job that is alone with its record broadcasts it.
LEMMA QuotaJob ==
    ASSUME Inductive, OneListener, Alone, WithinQuota,
           NEW j \in JobIds, JobRuns(j) \/ JobStalls(j)
    PROVE  WithinQuota'
  <1>0. PICK r \in RecordIds : r = jobs[j].record
    BY JobNumbers
  <1> DEFINE i == jobs[j].recoverCount
             old == jobs[j]
             new == jobs'[j]
  <1>1. Turn(j) /\ (GoesOn(j) \/ Completes(j) \/ Fails(j))
    BY JobTurn
  <1>2. /\ i <= MaxRequeues /\ old.attemptsMade < MaxAttempts /\ old.stalls <= MaxStalls
        /\ Broadcasts(r) <= i * Quota + Made(old)
    BY <1>0, <1>1 DEF Turn, WithinQuota
  <1>3. /\ r \in RecordIds /\ i \in Nat /\ Broadcasts(r) \in Nat
        /\ old.attemptsMade \in Nat /\ old.stalls \in Nat
        /\ MaxAttempts \in Nat /\ MaxStalls \in Nat /\ MaxRequeues \in Nat
        /\ i * Quota \in Nat /\ Made(old) \in Nat
        /\ (i + 1) * Quota = i * Quota + Quota
        /\ (i + 1) * Quota <= (1 + MaxRequeues) * Quota
        /\ Quota = MaxAttempts + MaxStalls
    BY <1>2, JobNumbers, BroadcastsCount, Shares, ShareBounded DEF Quota
  <1>4. /\ new \in Job /\ new.record = r /\ new.recoverCount = i
        /\ new.attemptsMade \in Nat /\ new.stalls \in Nat
    BY <1>0, <1>1 DEF Turn, Job
  <1>5. Made(new) \in Nat
    BY <1>4 DEF Made
  <1>6. /\ JobIds' = JobIds /\ \A k \in JobIds \ {j} : jobs'[k] = jobs[k]
        /\ UNCHANGED <<requests, reverted>>
        /\ Unfinished(j)
    BY <1>1 DEF Turn
  \* What others hold is of other records.
  <1>7. /\ \A k \in JobIds \ {j} : Unfinished(k) => jobs[k].record # r
        /\ \A h \in Handlers : requests[h].step = "created" => requests[h].record # r
        /\ \A e \in failedEvents \cup reverted : jobs[e[2]].record # r
    <2>1. <<"job", j, r>> \in Runs
      BY <1>0, <1>6 DEF Runs
    <2>2. /\ \A k \in JobIds : Unfinished(k) => <<"job", k, jobs[k].record>> \in Runs
          /\ \A h \in Handlers :
                requests[h].step = "created" => <<"request", h, requests[h].record>> \in Runs
          /\ \A e \in failedEvents : <<"failed", e, jobs[e[2]].record>> \in Runs
          /\ \A e \in reverted : <<"reverted", e, jobs[e[2]].record>> \in Runs
      BY DEF Runs
    <2> QED
      BY <2>1, <2>2 DEF Alone
  <1>8. \A e \in failedEvents \cup reverted : e[2] \in JobIds
    BY DEF Inductive, TypeOK
  <1>9. /\ \A q : q # r => Broadcasts(q)' = Broadcasts(q)
        /\ \/ Broadcasts(r)' = Broadcasts(r)
           \/ GoesOn(j) /\ Broadcasts(r)' = Broadcasts(r) + 1 /\ Made(new) = Made(old) + 1
        /\ GoesOn(j) => Made(new) >= Made(old) /\ Broadcasts(r)' <= i * Quota + Made(new)
    <2>1. CASE UNCHANGED chain
      <3>1. \A q : Broadcasts(q)' = Broadcasts(q)
        BY <2>1, BroadcastsCount
      <3>2. GoesOn(j) => Made(new) >= Made(old)
        BY <1>3, <1>5 DEF GoesOn
      <3> DEFINE z == i * Quota
      <3>3. z \in Nat /\ Broadcasts(r) <= z + Made(old)
        BY <1>2, <1>3
      <3> HIDE DEF z
      <3>4. GoesOn(j) => Broadcasts(r) <= z + Made(new)
        BY <1>3, <1>5, <3>2, <3>3
      <3> QED
        BY <3>1, <3>2, <3>4 DEF z
    <2>2. CASE GoesOn(j) /\ chain' = Append(chain, r) /\ Made(new) = Made(old) + 1
      <3>1. \A q : Broadcasts(q)' = IF q = r THEN Broadcasts(q) + 1 ELSE Broadcasts(q)
        BY <2>2, BroadcastsCount
      <3> DEFINE z == i * Quota
      <3>3. z \in Nat /\ Broadcasts(r) <= z + Made(old)
        BY <1>2, <1>3
      <3> HIDE DEF z
      <3>4. Broadcasts(r) + 1 <= z + Made(new) /\ Made(new) >= Made(old)
        <4> DEFINE b == Broadcasts(r)
                   m == Made(old)
                   n == Made(new)
        <4>1. b \in Nat /\ m \in Nat /\ n = m + 1 /\ b <= z + m
          BY <1>3, <2>2, <3>3
        <4> HIDE DEF b, m, n
        <4>2. b + 1 <= z + n /\ n >= m
          BY <3>3, <4>1
        <4> QED
          BY <4>2 DEF b, m, n
      <3> QED
        BY <2>2, <3>1, <3>4 DEF z
    <2> QED
      BY <1>0, <1>1, <2>1, <2>2 DEF GoesOn, Completes, Fails
  <1>10. GoesOn(j) => /\ new.attemptsMade < MaxAttempts /\ new.stalls <= MaxStalls
                      /\ Made(new) <= Quota
    <2>1. GoesOn(j) => new.attemptsMade < MaxAttempts /\ new.stalls <= MaxStalls
      BY <1>2 DEF GoesOn
    <2> QED
      BY <1>3, <1>4, <2>1 DEF Made
  <1>11. Made(old) <= Quota
    BY <1>2, <1>3 DEF Made
  <1>12. Broadcasts(r)' \in Nat /\ Broadcasts(r)' <= (i + 1) * Quota
    <2> DEFINE z == i * Quota
               zz == (i + 1) * Quota
    <2>1. z \in Nat /\ zz = z + Quota /\ Quota \in Nat
      BY <1>3
    <2>2. \/ Broadcasts(r)' = Broadcasts(r) /\ Broadcasts(r) <= z + Made(old)
          \/ GoesOn(j) /\ Broadcasts(r)' = Broadcasts(r) + 1 /\ Broadcasts(r)' <= z + Made(new)
      BY <1>2, <1>9
    <2> HIDE DEF z, zz
    <2>3. Broadcasts(r)' \in Nat /\ Broadcasts(r)' <= zz
      BY <1>3, <1>5, <1>10, <1>11, <2>1, <2>2
    <2> QED
      BY <2>3 DEF zz
  <1>13. \A q \in RecordIds' : Broadcasts(q)' <= (1 + MaxRequeues) * Quota
    <2>1. Broadcasts(r)' <= (1 + MaxRequeues) * Quota
      <3> DEFINE zz == (i + 1) * Quota
                 y == (1 + MaxRequeues) * Quota
      <3>1. Broadcasts(r)' <= zz /\ zz <= y /\ zz \in Nat
        BY <1>3, <1>12
      <3>2. y \in Nat
        <4>1. 1 + MaxRequeues \in Nat
          BY <1>3
        <4> QED
          BY <4>1, Shares
      <3> HIDE DEF zz, y
      <3>3. Broadcasts(r)' <= y
        BY <1>12, <3>1, <3>2
      <3> QED
        BY <3>3 DEF y
    <2>2. RecordIds' = RecordIds
      <3>1. CASE MarkConfirmed(j)
        <4>1. jobs[j].record \in RecordIds /\ jobs[j].txid \in Nat /\ TypeOK
          BY <1>0, RowTypes DEF Inductive, Job
        <4> QED
          BY <3>1, <4>1, ConfirmEffect DEF MarkConfirmed, RecordIds
      <3>2. CASE MarkFailed(j)
        <4>1. jobs[j].record \in RecordIds /\ TypeOK
          BY <1>0 DEF Inductive
        <4> QED
          BY <3>2, <4>1, ChangeStatusEffect DEF MarkFailed, RecordIds
      <3> QED
        BY <3>1, <3>2 DEF JobRuns, TakeJob, Broadcast, JobReturns, JobThrows, JobStalls, RecordIds
    <2>3. \A q \in RecordIds : Broadcasts(q) <= (1 + MaxRequeues) * Quota
      BY DEF WithinQuota
    <2>4. \A q \in RecordIds : Broadcasts(q)' <= (1 + MaxRequeues) * Quota
      BY <1>9, <2>1, <2>3
    <2> QED
      BY <2>2, <2>4
  <1>14. \A h \in Handlers : requests'[h].step = "created" => Broadcasts(requests[h].record)' = 0
    BY <1>6, <1>7, <1>9 DEF WithinQuota
  <1>15. \A k \in JobIds' :
            /\ jobs'[k].recoverCount <= MaxRequeues
            /\ Unfinished(k)' =>
                  /\ jobs'[k].attemptsMade < MaxAttempts
                  /\ jobs'[k].stalls <= MaxStalls
                  /\ Broadcasts(jobs[k].record)' <= jobs'[k].recoverCount * Quota + Made(jobs'[k])
    <2>1. ASSUME NEW k \in JobIds \ {j}
          PROVE  /\ jobs'[k].recoverCount <= MaxRequeues
                 /\ Unfinished(k)' =>
                       /\ jobs'[k].attemptsMade < MaxAttempts
                       /\ jobs'[k].stalls <= MaxStalls
                       /\ Broadcasts(jobs[k].record)'
                             <= jobs'[k].recoverCount * Quota + Made(jobs'[k])
      BY <1>6, <1>7, <1>9 DEF WithinQuota, Unfinished
    <2>2. /\ jobs'[j].recoverCount <= MaxRequeues
          /\ Unfinished(j)' =>
                /\ jobs'[j].attemptsMade < MaxAttempts
                /\ jobs'[j].stalls <= MaxStalls
                /\ Broadcasts(jobs[j].record)' <= jobs'[j].recoverCount * Quota + Made(jobs'[j])
      <3>1. Unfinished(j)' => GoesOn(j)
        BY <1>1 DEF Completes, Fails, Unfinished, Running
      <3>2. Broadcasts(jobs[j].record)' = Broadcasts(r)'
        BY <1>4
      <3> QED
        BY <1>2, <1>4, <1>9, <1>10, <3>1, <3>2
    <2> QED
      BY <1>6, <2>1, <2>2
  <1>16. \A e \in (failedEvents \cup reverted)' :
            /\ jobs'[e[2]].recoverCount < MaxRequeues
            /\ Broadcasts(jobs[e[2]].record)' <= (jobs'[e[2]].recoverCount + 1) * Quota
    <2>1. ASSUME NEW e \in failedEvents \cup reverted
          PROVE  /\ jobs'[e[2]].recoverCount < MaxRequeues
                 /\ Broadcasts(jobs[e[2]].record)' <= (jobs'[e[2]].recoverCount + 1) * Quota
      <3>1. e[2] \in JobIds \ {j}
        BY <1>0, <1>7, <1>8
      <3> QED
        BY <1>6, <1>7, <1>9, <3>1 DEF WithinQuota
    <2>2. ASSUME NEW e \in (failedEvents \cup reverted)', e \notin failedEvents \cup reverted
          PROVE  /\ jobs'[e[2]].recoverCount < MaxRequeues
                 /\ Broadcasts(jobs[e[2]].record)' <= (jobs'[e[2]].recoverCount + 1) * Quota
      <3>1. e[2] = j /\ i < MaxRequeues
        BY <1>1, <1>6, <2>2 DEF GoesOn, Completes, Fails, Recoverers
      <3> QED
        BY <1>4, <1>12, <3>1
    <2> QED
      BY <2>1, <2>2
  <1> QED
    BY <1>13, <1>14, <1>15, <1>16 DEF WithinQuota

LEMMA QuotaRecovery ==
    ASSUME Inductive, WithinQuota, NEW w \in Workers, NEW j \in JobIds, Recovery(w, j)
    PROVE  WithinQuota'
  <1>1. UNCHANGED <<chain, requests>> /\ RecordIds' = RecordIds
    BY RecoveryTurn
  <1>2. \A r : Broadcasts(r)' = Broadcasts(r)
    BY <1>1, BroadcastsCount
  <1>3. CASE /\ UNCHANGED jobs
             /\ (failedEvents \cup reverted)' \subseteq failedEvents \cup reverted
    BY <1>1, <1>2, <1>3 DEF WithinQuota, Unfinished, JobIds
  <1>4. CASE RevertFailed(w, j) /\ UNCHANGED jobs
    <2>1. (failedEvents \cup reverted)' \subseteq failedEvents \cup reverted
      BY <1>4 DEF RevertFailed
    <2> QED
      BY <1>3, <1>4, <2>1
  <1>5. CASE /\ <<w, j>> \in reverted /\ reverted' = reverted \ {<<w, j>>}
             /\ UNCHANGED failedEvents
             /\ \E n : Starts(n, jobs[j].record, jobs[j].recoverCount + 1)
    <2>0. PICK r \in RecordIds : r = jobs[j].record
      BY JobNumbers
    <2>a. PICK i \in Nat : i = jobs[j].recoverCount
      BY JobNumbers
    <2>1. PICK n : Starts(n, r, i + 1)
      BY <1>5, <2>0, <2>a
    <2>2. MaxRequeues \in Nat /\ i + 1 \in Nat
      BY LifecycleAssumption
    <2>3. i < MaxRequeues /\ Broadcasts(r) <= (i + 1) * Quota
      <3>1. <<w, j>>[2] = j
        OBVIOUS
      <3> QED
        BY <1>5, <2>0, <2>a, <3>1 DEF WithinQuota
    <2>4. i + 1 <= MaxRequeues /\ Broadcasts(r)' <= (i + 1) * Quota
      BY <1>2, <2>2, <2>3
    <2>5. /\ jobs'[n].recoverCount <= MaxRequeues
          /\ jobs'[n].attemptsMade < MaxAttempts
          /\ jobs'[n].stalls <= MaxStalls
          /\ Broadcasts(jobs[n].record)' <= jobs'[n].recoverCount * Quota + Made(jobs'[n])
      BY <2>1, <2>2, <2>4, StartsWithin
    <2>6. \A k \in JobIds' : k = n \/ (k \in JobIds /\ jobs'[k] = jobs[k])
      BY <2>1 DEF Starts
    <2>7. \A k \in JobIds :
             /\ jobs[k].recoverCount <= MaxRequeues
             /\ Unfinished(k) =>
                   /\ jobs[k].attemptsMade < MaxAttempts
                   /\ jobs[k].stalls <= MaxStalls
                   /\ Broadcasts(jobs[k].record) <= jobs[k].recoverCount * Quota + Made(jobs[k])
      BY DEF WithinQuota
    <2>8. \A k \in JobIds' :
             /\ jobs'[k].recoverCount <= MaxRequeues
             /\ Unfinished(k)' =>
                   /\ jobs'[k].attemptsMade < MaxAttempts
                   /\ jobs'[k].stalls <= MaxStalls
                   /\ Broadcasts(jobs[k].record)' <= jobs'[k].recoverCount * Quota + Made(jobs'[k])
      BY <1>2, <2>5, <2>6, <2>7 DEF Unfinished
    <2>9. \A e \in failedEvents \cup reverted : jobs'[e[2]] = jobs[e[2]]
      <3>1. \A e \in failedEvents \cup reverted : e[2] \in JobIds
        BY DEF Inductive, TypeOK
      <3> QED
        BY <2>1, <3>1 DEF Starts
    <2>10. \A e \in (failedEvents \cup reverted)' :
              /\ jobs'[e[2]].recoverCount < MaxRequeues
              /\ Broadcasts(jobs[e[2]].record)' <= (jobs'[e[2]].recoverCount + 1) * Quota
      BY <1>2, <1>5, <2>9 DEF WithinQuota
    <2>11. /\ \A q \in RecordIds' : Broadcasts(q)' <= (1 + MaxRequeues) * Quota
           /\ \A h \in Handlers :
                 requests'[h].step = "created" => Broadcasts(requests[h].record)' = 0
      BY <1>1, <1>2 DEF WithinQuota
    <2> QED
      BY <2>8, <2>10, <2>11 DEF WithinQuota
  <1> QED
    BY <1>3, <1>4, <1>5, RecoveryTurn


LEMMA InitAlone == ASSUME Init PROVE Alone /\ WithinQuota
  <1>1. RecordIds = {} /\ JobIds = {}
    BY DEF Init, RecordIds, JobIds
  <1>2. \A h \in Handlers : requests[h].step = "idle"
    BY DEF Init, IdleRequest
  <1>3. Runs = {}
    BY <1>1, <1>2 DEF Runs, Init
  <1>4. failedEvents \cup reverted = {}
    BY DEF Init
  <1> QED
    BY <1>1, <1>2, <1>3, <1>4 DEF Alone, WithinQuota

\* With one worker process listening, two jobs of a record never run side by
\* side, whatever the retries, the stalls and the recoveries: a request, a job
\* and a recovery hand the record on, and no two of them hold it.
THEOREM RunsAlone ==
    ASSUME OneListener
    PROVE  Spec => []OneRunPerRecord
  <1>1. Init => Alone
    BY InitAlone
  <1>2. Inductive /\ Alone /\ [Next]_vars => Alone'
    BY AloneStep
  <1>3. Alone => OneRunPerRecord
    <2> SUFFICES ASSUME Alone, NEW j \in JobIds, NEW k \in JobIds,
                        Unfinished(j), Unfinished(k), jobs[j].record = jobs[k].record
                 PROVE  j = k
      BY DEF OneRunPerRecord
    <2>1. /\ <<"job", j, jobs[j].record>> \in Runs
          /\ <<"job", k, jobs[k].record>> \in Runs
      BY DEF Runs
    <2>2. <<"job", j, jobs[j].record>> = <<"job", k, jobs[k].record>>
      BY <2>1 DEF Alone
    <2> QED
      BY <2>2
  <1> QED
    BY <1>1, <1>2, <1>3, InductiveInvariant, PTL DEF Spec

\* With one worker process listening, the guard against endless requeues
\* works: a record is broadcast at most once in every attempt and every stall
\* of its first job and of each of its requeues.
THEOREM BroadcastsStayBounded ==
    ASSUME OneListener
    PROVE  Spec => []BroadcastsBounded
  <1>1. Init => Alone /\ WithinQuota
    BY InitAlone
  <1>2. Inductive /\ Alone /\ [Next]_vars => Alone'
    BY AloneStep
  <1>3. Inductive /\ Alone /\ WithinQuota /\ [Next]_vars => WithinQuota'
    <2> SUFFICES ASSUME Inductive, Alone, WithinQuota, [Next]_vars
                 PROVE  WithinQuota'
      OBVIOUS
    <2>1. CASE UNCHANGED vars
      <3>1. UNCHANGED <<chain, records, requests, jobs, failedEvents, reverted>>
        BY <2>1 DEF vars
      <3>2. \A r : Broadcasts(r)' = Broadcasts(r)
        BY <3>1, BroadcastsCount
      <3> QED
        BY <3>1, <3>2 DEF WithinQuota, RecordIds, JobIds, Unfinished
    <2>2. CASE \E h \in Handlers : HandlerStep(h)
      BY <2>2, QuotaHandler
    <2>3. CASE \E j \in JobIds : JobRuns(j) \/ JobStalls(j)
      BY <2>3, QuotaJob
    <2>4. CASE \E w \in Workers, j \in JobIds : Recovery(w, j)
      BY <2>4, QuotaRecovery
    <2> QED
      BY <2>1, <2>2, <2>3, <2>4 DEF Next
  <1>4. WithinQuota => BroadcastsBounded
    BY DEF WithinQuota, BroadcastsBounded, Broadcasts, Quota
  <1> QED
    BY <1>1, <1>2, <1>3, <1>4, InductiveInvariant, PTL DEF Spec
=============================================================================
