--------------------------- MODULE UtxoPoolProofs ---------------------------
(***************************************************************************)
(* Proofs about UtxoPool, for any number of outputs, managers and scripts: *)
(* the pool never gives up an output that the chain still has to spend.    *)
(*                                                                         *)
(* The argument is about what the index has ever listed.  Only such        *)
(* outputs get rows, and one that is not listed any more is spent; so what *)
(* a manager decides on an old answer of the index stays right, however    *)
(* late it writes, but for rows that the answer misses.  Amounts are sums  *)
(* of a fold over a set: an induction on the size of the set.              *)
(***************************************************************************)
EXTENDS UtxoPool, FiniteSetTheorems, WellFoundedInduction, TLAPS

-----------------------------------------------------------------------------
(* The inductive invariant *)

SpentOutputs == {o \in Outputs : chain[o].state = "spent"}

\* What the index has listed at some time: it lists it still, or it is spent.
Known == listed \cup SpentOutputs

States == {"unused", "fresh", "deep", "spent"}
Statuses == {"absent", "unconfirmed", "available", "locked", "spent"}
Manager ==
    [action : Actions \cup {"none"}, step : Steps, seen : SUBSET Outputs,
     deep : SUBSET Outputs, found : SUBSET Outputs, spend : SUBSET Outputs,
     confirm : SUBSET Outputs, deficit : 0..MaxSplit, missed : SUBSET Outputs]

\* The types of the pool; what is known of amounts comes after (Amounts).
ChainTyped == \E S : chain \in [Outputs -> [satoshis : S, state : States]]
Shapes ==
    /\ ChainTyped
    /\ listed \subseteq Outputs
    /\ utxos \in [Outputs -> Statuses]
    /\ managers \in [Managers -> Manager]
    /\ scans \in [Scripts -> SUBSET Outputs]
    /\ faults \in 0..MaxFaults

\* What a manager holds fits the stores.
Fit(x) ==
    /\ x.seen \subseteq Known /\ x.deep \subseteq Known
    /\ x.found \subseteq Known /\ x.missed \subseteq Known
    /\ x.spend \subseteq Rows /\ x.confirm \subseteq Rows
    /\ x.step \notin {"find", "add"} => x.found \subseteq Rows
    /\ x.step = "find" => Rows \subseteq x.seen \cup SpentOutputs \cup x.missed
    /\ x.step = "add" => x.spend \subseteq SpentOutputs \cup x.missed
    /\ x.step = "consolidate" => x.found \subseteq x.seen \cup SpentOutputs
    /\ x.step = "swept" => x.found \subseteq SpentOutputs \cup x.missed
    /\ x.step = "sent" => x.found \subseteq SpentOutputs
    /\ x.step = "send" => \E o \in Outputs : x.found = {o}

ListedExist == \A o \in listed : chain[o].state # "unused"
ManagersFit == \A m \in Managers : Fit(managers[m])
ScansFit ==
    \A s \in Scripts :
        /\ scans[s] \subseteq Known
        /\ s \in {"reap", "revert"} => scans[s] \subseteq Rows

PoolInv ==
    /\ Shapes /\ ListedExist /\ Rows \subseteq Known /\ ManagersFit /\ ScansFit

-----------------------------------------------------------------------------
(* What the stores go through *)

\* The stores only learn.
Grows == Known \subseteq Known' /\ Rows \subseteq Rows' /\ SpentOutputs \subseteq SpentOutputs'

LEMMA PayEffect ==
    ASSUME Shapes, ListedExist, NEW inputs \in SUBSET Unspent, NEW amounts,
           DOMAIN amounts \subseteq Unused, Pay(inputs, amounts)
    PROVE  /\ ChainTyped'
           /\ SpentOutputs' = SpentOutputs \cup inputs
           /\ \A o \in listed : chain'[o].state # "unused"
  <1>1. PICK S : chain \in [Outputs -> [satoshis : S, state : States]]
    BY DEF Shapes, ChainTyped
  <1> DEFINE T == S \cup {amounts[o] : o \in DOMAIN amounts}
  <1>2. \A o \in Outputs : chain[o] \in [satoshis : S, state : States]
    BY <1>1
  <1>3. ASSUME NEW o \in Outputs
        PROVE  /\ chain'[o] \in [satoshis : T, state : States]
               /\ o \in inputs => chain'[o].state = "spent"
               /\ o \notin inputs /\ o \in DOMAIN amounts => chain'[o].state = "fresh"
               /\ o \notin inputs /\ o \notin DOMAIN amounts => chain'[o] = chain[o]
    <2>1. inputs \cap DOMAIN amounts = {}
      BY DEF Unspent, Unused
    <2>2. CASE o \in inputs
      <3>1. chain'[o] = [chain[o] EXCEPT !.state = "spent"]
        BY <2>1, <2>2 DEF Pay
      <3> QED
        BY <1>2, <2>2, <3>1 DEF States
    <2>3. CASE o \in DOMAIN amounts
      <3>1. chain'[o] = [satoshis |-> amounts[o], state |-> "fresh"]
        BY <2>1, <2>3 DEF Pay
      <3> QED
        BY <2>1, <2>3, <3>1 DEF States
    <2>4. CASE o \notin inputs /\ o \notin DOMAIN amounts
      <3>1. chain'[o] = chain[o]
        BY <2>4 DEF Pay
      <3> QED
        BY <1>2, <2>4, <3>1
    <2> QED
      BY <2>2, <2>3, <2>4
  <1> HIDE DEF T
  <1>4. chain' \in [Outputs -> [satoshis : T, state : States]]
    <2>1. chain' = [o \in Outputs |-> chain'[o]]
      BY DEF Pay
    <2> QED
      BY <1>3, <2>1
  <1>5. ChainTyped'
    BY <1>4 DEF ChainTyped
  <1>6. inputs \subseteq Outputs /\ \A o \in inputs : chain[o].state # "spent"
    BY DEF Unspent
  <1>7. \A o \in DOMAIN amounts : o \in Outputs /\ chain[o].state = "unused"
    BY DEF Unused
  <1>8. SpentOutputs' = SpentOutputs \cup inputs
    BY <1>3, <1>6, <1>7 DEF SpentOutputs
  <1>9. \A o \in listed : chain'[o].state # "unused"
    BY <1>3, <1>6, <1>7 DEF Shapes, ListedExist
  <1> QED
    BY <1>5, <1>8, <1>9

LEMMA PlacesUnused == \A n : Places(n) \subseteq Unused
  BY DEF Places

\* Rows come and never go.
LEMMA SetEffect ==
    ASSUME Shapes, NEW S \in SUBSET Outputs, NEW status \in Statuses \ {"absent"},
           Set(S, status)
    PROVE  /\ utxos' \in [Outputs -> Statuses]
           /\ Rows' = Rows \cup S
           /\ \A o \in Outputs : utxos'[o] = IF o \in S THEN status ELSE utxos[o]
  BY DEF Shapes, Set, Rows

\* One manager moves.
Moved(m) ==
    /\ managers' \in [Managers -> Manager]
    /\ \A k \in Managers : k # m => managers'[k] = managers[k]

LEMMA ManagerWritten ==
    ASSUME Shapes, NEW m \in Managers, NEW new \in Manager,
           managers' = [managers EXCEPT ![m] = new]
    PROVE  Moved(m) /\ managers'[m] = new
  BY DEF Shapes, Moved

\* A manager that holds nothing.
Clean(x) ==
    /\ x.step \in {"idle", "sync", "sweep", "split"}
    /\ x.seen = {} /\ x.deep = {} /\ x.found = {} /\ x.spend = {}
    /\ x.confirm = {} /\ x.missed = {}

LEMMA CleanFits ==
    ASSUME NEW m \in Managers, Clean(managers'[m])
    PROVE  Fit(managers[m])'
  BY DEF Clean, Fit

\* A manager that has just been given a request, or a phase of one.
LEMMA FreshRequest ==
    ASSUME NEW action \in Actions \cup {"none"},
           NEW step \in {"idle", "sync", "sweep", "split"}
    PROVE  /\ [Idle EXCEPT !.action = action, !.step = step] \in Manager
           /\ Clean([Idle EXCEPT !.action = action, !.step = step])
           /\ Idle \in Manager /\ Clean(Idle)
  <1>1. 0 \in 0..MaxSplit /\ {"idle", "sync", "sweep", "split"} \subseteq Steps
    BY PoolAssumption DEF Steps
  <1>2. Idle \in Manager /\ Clean(Idle)
    BY <1>1 DEF Idle, Manager, Clean
  <1> DEFINE asked == [Idle EXCEPT !.action = action]
             fresh == [asked EXCEPT !.step = step]
  <1>3. asked \in Manager /\ Clean(asked)
    BY <1>2 DEF Manager, Clean
  <1> HIDE DEF asked
  <1>4. fresh \in Manager /\ Clean(fresh)
    BY <1>1, <1>3 DEF Manager, Clean
  <1> QED
    BY <1>2, <1>4 DEF asked, fresh

LEMMA DoneEffect ==
    ASSUME Shapes, NEW m \in Managers, NEW next \in {"sweep", "split", "idle"}, Done(m, next)
    PROVE  Moved(m) /\ Clean(managers'[m])
  <1> DEFINE fresh == [Idle EXCEPT !.action = "auto", !.step = next]
             new == IF managers[m].action = "auto" /\ next # "idle" THEN fresh ELSE Idle
  <1>1. managers' = [managers EXCEPT ![m] = new]
    BY DEF Done
  <1>2. Idle \in Manager /\ Clean(Idle)
    BY FreshRequest
  <1>3. ASSUME managers[m].action = "auto"
        PROVE  fresh \in Manager /\ Clean(fresh)
    <2>1. "auto" \in Actions \cup {"none"}
      BY <1>3 DEF Shapes, Manager
    <2> QED
      BY <2>1, FreshRequest
  <1> HIDE DEF fresh
  <1>4. new \in Manager /\ Clean(new)
    BY <1>2, <1>3
  <1> HIDE DEF new
  <1> QED
    BY <1>1, <1>4, ManagerWritten

LEMMA FitGrows ==
    ASSUME NEW x, Fit(x), Grows,
           x.step = "find" => Rows' \subseteq Rows \cup x.missed
    PROVE  Fit(x)'
  BY DEF Fit, Grows

\* The others still fit.
LEMMA OthersFit ==
    ASSUME PoolInv, NEW m \in Managers, Moved(m), Grows, Rows' = Rows, Fit(managers[m])'
    PROVE  ManagersFit'
  <1>1. ASSUME NEW k \in Managers, k # m
        PROVE  Fit(managers[k])'
    <2>1. PICK x : x = managers[k]
      OBVIOUS
    <2>2. Fit(x)'
      BY <2>1, FitGrows DEF PoolInv, ManagersFit
    <2>3. managers'[k] = x
      BY <1>1, <2>1 DEF Moved
    <2> QED
      BY <2>2, <2>3 DEF Fit
  <1> QED
    BY <1>1 DEF ManagersFit

\* A step of a manager that leaves the chain and its index alone.
LEMMA PoolMoves ==
    ASSUME PoolInv, NEW m \in Managers, UNCHANGED <<chain, listed, scans>>,
           faults' \in 0..MaxFaults, utxos' \in [Outputs -> Statuses], Rows' = Rows,
           Moved(m), Fit(managers[m])'
    PROVE  PoolInv'
  <1>1. SpentOutputs' = SpentOutputs /\ Known' = Known
    BY DEF SpentOutputs, Known
  <1>2. ManagersFit'
    BY <1>1, OthersFit DEF Grows
  <1>3. Shapes'
    BY DEF PoolInv, Shapes, ChainTyped, Moved
  <1>4. ScansFit' /\ ListedExist'
    BY <1>1 DEF PoolInv, ScansFit, ListedExist
  <1> QED
    BY <1>1, <1>2, <1>3, <1>4 DEF PoolInv

\* Rows of a step that leaves the pool alone, or writes to rows there are.
LEMMA RowsKept == ASSUME UNCHANGED utxos PROVE Rows' = Rows
  BY DEF Rows

LEMMA PoolPays ==
    ASSUME PoolInv, NEW m \in Managers, UNCHANGED <<listed, utxos, scans, faults>>,
           NEW inputs \in SUBSET Unspent, NEW amounts,
           DOMAIN amounts \subseteq Unused, Pay(inputs, amounts),
           Moved(m), Fit(managers[m])'
    PROVE  PoolInv'
  <1>1. /\ ChainTyped' /\ SpentOutputs' = SpentOutputs \cup inputs
        /\ \A o \in listed : chain'[o].state # "unused"
    BY PayEffect DEF PoolInv
  <1>2. Grows /\ Rows' = Rows
    BY <1>1, RowsKept DEF Grows, Known, Rows
  <1>3. ManagersFit'
    BY <1>2, OthersFit
  <1>4. Shapes'
    BY <1>1 DEF PoolInv, Shapes, Moved
  <1>5. ListedExist'
    BY <1>1 DEF ListedExist
  <1>6. ScansFit' /\ (Rows \subseteq Known)'
    BY <1>2 DEF PoolInv, ScansFit, Grows
  <1> QED
    BY <1>3, <1>4, <1>5, <1>6 DEF PoolInv

-----------------------------------------------------------------------------
(* Steps of a manager *)

LEMMA RequestKeeps ==
    ASSUME PoolInv, NEW m \in Managers, NEW action \in Actions, Request(m, action)
    PROVE  PoolInv'
  <1> DEFINE step == IF action = "auto" THEN "sync" ELSE action
             new == [Idle EXCEPT !.action = action, !.step = step]
  <1>1. managers' = [managers EXCEPT ![m] = new]
    BY DEF Request
  <1>2. step \in {"idle", "sync", "sweep", "split"}
    BY PoolAssumption
  <1>3. new \in Manager /\ Clean(new)
    BY <1>2, FreshRequest
  <1> HIDE DEF new
  <1>4. Moved(m) /\ Clean(managers'[m])
    BY <1>1, <1>3, ManagerWritten DEF PoolInv
  <1> QED
    BY <1>4, CleanFits, PoolMoves, RowsKept DEF Request, PoolInv, Shapes

LEMMA StopKeeps ==
    ASSUME PoolInv, NEW m \in Managers, Stop(m)
    PROVE  PoolInv'
  <1>1. Idle \in Manager /\ Clean(Idle)
    BY FreshRequest
  <1>2. Moved(m) /\ Clean(managers'[m])
    BY <1>1, ManagerWritten DEF PoolInv, Stop
  <1>3. faults' \in 0..MaxFaults
    BY PoolAssumption DEF Stop, PoolInv, Shapes
  <1> QED
    BY <1>2, <1>3, CleanFits, PoolMoves, RowsKept DEF Stop, PoolInv, Shapes

\* What a manager that has just asked the index holds.
LEMMA FetchedFits ==
    ASSUME PoolInv, NEW m \in Managers, managers[m].step = "sync",
           UNCHANGED <<chain, listed, utxos, scans>>, faults' \in 0..MaxFaults,
           NEW new \in Manager, managers' = [managers EXCEPT ![m] = new],
           new.step = "find", new.seen \subseteq Known, new.deep \subseteq Known,
           new.missed \subseteq Known, listed \subseteq new.seen \/ Rows \subseteq new.missed,
           new.found = managers[m].found, new.spend = managers[m].spend,
           new.confirm = managers[m].confirm
    PROVE  PoolInv'
  <1>1. Fit(managers[m]) /\ Rows \subseteq Known
    BY DEF PoolInv, ManagersFit
  <1>2. Moved(m) /\ managers'[m] = new
    BY ManagerWritten DEF PoolInv
  <1>3. Fit(managers[m])'
    BY <1>1, <1>2 DEF Fit, Known, SpentOutputs, Rows
  <1> QED
    BY <1>2, <1>3, PoolMoves, RowsKept DEF PoolInv, Shapes

LEMMA SyncFetchKeeps ==
    ASSUME PoolInv, NEW m \in Managers, SyncFetch(m)
    PROVE  PoolInv'
  <1> DEFINE old == managers[m]
             asked == [old EXCEPT !.step = "find"]
             missing == [asked EXCEPT !.missed = Rows]
  <1>1. /\ UNCHANGED <<chain, listed, utxos, scans>> /\ old.step = "sync"
        /\ old \in Manager /\ Fit(old) /\ Rows \subseteq Known /\ Rows \subseteq Outputs
        /\ listed \subseteq Known /\ listed \subseteq Outputs
    BY DEF SyncFetch, PoolInv, Shapes, ManagersFit, Known, Rows
  <1>2. ASSUME NEW deep \in SUBSET listed, UNCHANGED faults,
               managers' = [managers EXCEPT ![m].step = "find", ![m].seen = listed,
                                           ![m].deep = deep]
        PROVE  PoolInv'
    <2> DEFINE new == [[asked EXCEPT !.seen = listed] EXCEPT !.deep = deep]
    <2>1. managers' = [managers EXCEPT ![m] = new]
      BY <1>2 DEF PoolInv, Shapes
    <2> HIDE DEF old
    <2>2. /\ new \in Manager /\ new.step = "find" /\ new.seen = listed /\ new.deep = deep
          /\ new.found = old.found /\ new.spend = old.spend /\ new.confirm = old.confirm
          /\ new.missed = old.missed
      BY <1>1 DEF Manager, Steps
    <2> HIDE DEF new
    <2>3. new.missed \subseteq Known /\ deep \subseteq Known
      BY <1>1, <2>2 DEF Fit
    <2>4. faults' \in 0..MaxFaults
      BY <1>2 DEF PoolInv, Shapes
    <2> QED
      BY <1>1, <2>1, <2>2, <2>3, <2>4, FetchedFits DEF old
  <1>3. ASSUME managers' = [managers EXCEPT ![m].step = "find", ![m].missed = Rows],
               faults < MaxFaults, faults' = faults + 1
        PROVE  PoolInv'
    <2>1. managers' = [managers EXCEPT ![m] = missing]
      BY <1>3 DEF PoolInv, Shapes
    <2> HIDE DEF old
    <2>2. /\ missing \in Manager /\ missing.step = "find" /\ missing.missed = Rows
          /\ missing.seen = old.seen /\ missing.deep = old.deep /\ missing.found = old.found
          /\ missing.spend = old.spend /\ missing.confirm = old.confirm
      BY <1>1 DEF Manager, Steps
    <2> HIDE DEF missing
    <2>3. missing.seen \subseteq Known /\ missing.deep \subseteq Known
      BY <1>1, <2>2 DEF Fit
    <2>4. faults' \in 0..MaxFaults
      BY <1>3, PoolAssumption DEF PoolInv, Shapes
    <2> QED
      BY <1>1, <2>1, <2>2, <2>3, <2>4, FetchedFits DEF old
  <1> QED
    BY <1>2, <1>3 DEF SyncFetch

LEMMA SyncFindKeeps ==
    ASSUME PoolInv, NEW m \in Managers, SyncFind(m)
    PROVE  PoolInv'
  <1> DEFINE old == managers[m]
             seen == old.seen
             new1 == [[old EXCEPT !.step = "add"] EXCEPT !.seen = {}]
             new2 == [[new1 EXCEPT !.deep = old.deep \ LocalUtxos]
                         EXCEPT !.found = seen \ LocalUtxos]
             new == [[new2 EXCEPT !.spend = InStatus("available") \ seen]
                        EXCEPT !.confirm = InStatus("unconfirmed") \cap seen]
  <1>1. old \in Manager /\ Fit(old) /\ old.step = "find" /\ Rows \subseteq Known
    BY DEF PoolInv, Shapes, ManagersFit, SyncFind
  <1>2. managers' = [managers EXCEPT ![m] = new]
    BY Zenon DEF SyncFind
  <1>3. /\ InStatus("available") \subseteq Rows /\ InStatus("unconfirmed") \subseteq Rows
        /\ Rows \subseteq Outputs
    BY DEF InStatus, Rows
  <1> HIDE DEF old
  <1>4. /\ new1 \in Manager /\ new1.step = "add" /\ new1.seen = {}
        /\ new1.deep = old.deep /\ new1.missed = old.missed
    BY <1>1 DEF Manager, Steps
  <1> HIDE DEF new1
  <1>5. /\ new2 \in Manager /\ new2.step = "add" /\ new2.seen = {}
        /\ new2.deep = old.deep \ LocalUtxos /\ new2.missed = old.missed
        /\ new2.found = seen \ LocalUtxos
    BY <1>1, <1>4 DEF Manager
  <1> HIDE DEF new2
  <1>6. /\ new \in Manager /\ new.step = "add" /\ new.seen = {}
        /\ new.deep = old.deep \ LocalUtxos /\ new.missed = old.missed
        /\ new.found = seen \ LocalUtxos /\ new.spend = InStatus("available") \ seen
        /\ new.confirm = InStatus("unconfirmed") \cap seen
    BY <1>3, <1>5 DEF Manager
  <1> HIDE DEF new
  <1>7. Moved(m) /\ managers'[m] = new
    BY <1>2, <1>6, ManagerWritten DEF PoolInv
  <1>8. UNCHANGED <<chain, listed, utxos, scans, faults>>
    BY DEF SyncFind
  <1>9. Fit(new)
    BY <1>1, <1>3, <1>6 DEF Fit
  <1>10. Fit(managers[m])'
    BY <1>7, <1>8, <1>9 DEF Fit, Known, SpentOutputs, Rows
  <1> QED
    BY <1>7, <1>8, <1>10, PoolMoves, RowsKept DEF PoolInv, Shapes

\* Writing to rows there are adds none.
LEMMA SetRows ==
    ASSUME PoolInv, NEW S \in SUBSET Rows, NEW status \in Statuses \ {"absent"},
           Set(S, status)
    PROVE  utxos' \in [Outputs -> Statuses] /\ Rows' = Rows
  <1>1. S \in SUBSET Outputs
    BY DEF Rows
  <1> QED
    BY <1>1, SetEffect DEF PoolInv

LEMMA SyncSpendKeeps ==
    ASSUME PoolInv, NEW m \in Managers, SyncSpend(m)
    PROVE  PoolInv'
  <1> DEFINE old == managers[m]
             new == [[[old EXCEPT !.step = "confirm"] EXCEPT !.spend = {}] EXCEPT !.missed = {}]
  <1>1. old \in Manager /\ Fit(old) /\ old.found = {} /\ old.step = "add"
    BY DEF PoolInv, Shapes, ManagersFit, SyncSpend
  <1>2. managers' = [managers EXCEPT ![m] = new]
    BY DEF SyncSpend, PoolInv, Shapes
  <1>3. utxos' \in [Outputs -> Statuses] /\ Rows' = Rows
    <2>1. /\ old.spend \in SUBSET Rows /\ "spent" \in Statuses \ {"absent"}
          /\ Set(old.spend, "spent")
      BY <1>1 DEF Fit, Statuses, SyncSpend
    <2> QED
      BY <2>1, SetRows
  <1> HIDE DEF old
  <1>4. /\ new \in Manager /\ new.step = "confirm" /\ new.spend = {} /\ new.missed = {}
        /\ new.seen = old.seen /\ new.deep = old.deep /\ new.found = old.found
        /\ new.confirm = old.confirm
    BY <1>1 DEF Manager, Steps
  <1> HIDE DEF new
  <1>5. Moved(m) /\ managers'[m] = new
    BY <1>2, <1>4, ManagerWritten DEF PoolInv
  <1>6. UNCHANGED <<chain, listed, scans, faults>>
    BY DEF SyncSpend
  <1>7. Fit(managers[m])'
    BY <1>1, <1>3, <1>4, <1>5, <1>6 DEF Fit, Known, SpentOutputs
  <1> QED
    BY <1>3, <1>5, <1>6, <1>7, PoolMoves DEF PoolInv, Shapes

\* The last write of a phase.
LEMMA PhaseEnds ==
    ASSUME PoolInv, NEW m \in Managers, UNCHANGED <<chain, listed, scans, faults>>,
           NEW next \in {"sweep", "split", "idle"}, Done(m, next),
           utxos' \in [Outputs -> Statuses], Rows' = Rows
    PROVE  PoolInv'
  <1>1. Moved(m) /\ Clean(managers'[m])
    BY DoneEffect DEF PoolInv
  <1>2. Fit(managers[m])'
    BY <1>1, CleanFits
  <1> QED
    BY <1>1, <1>2, PoolMoves DEF PoolInv, Shapes

LEMMA SyncConfirmKeeps ==
    ASSUME PoolInv, NEW m \in Managers, SyncConfirm(m)
    PROVE  PoolInv'
  <1>1. /\ managers[m].confirm \in SUBSET Rows /\ "available" \in Statuses \ {"absent"}
        /\ Set(managers[m].confirm, "available") /\ Done(m, "sweep")
        /\ UNCHANGED <<chain, listed, scans, faults>>
    BY DEF PoolInv, ManagersFit, Fit, Statuses, SyncConfirm
  <1> QED
    BY <1>1, SetRows, PhaseEnds

LEMMA SweepSpendKeeps ==
    ASSUME PoolInv, NEW m \in Managers, SweepSpend(m)
    PROVE  PoolInv'
  <1>1. /\ managers[m].found \in SUBSET Rows /\ "spent" \in Statuses \ {"absent"}
        /\ Set(managers[m].found, "spent") /\ Done(m, "split")
        /\ UNCHANGED <<chain, listed, scans, faults>>
    BY DEF PoolInv, ManagersFit, Fit, Statuses, SweepSpend
  <1> QED
    BY <1>1, SetRows, PhaseEnds

LEMMA SplitUnlockKeeps ==
    ASSUME PoolInv, NEW m \in Managers, SplitUnlock(m)
    PROVE  PoolInv'
  <1>1. /\ managers[m].found \cap InStatus("locked") \in SUBSET Rows
        /\ "available" \in Statuses \ {"absent"}
        /\ Set(managers[m].found \cap InStatus("locked"), "available") /\ Done(m, "idle")
        /\ UNCHANGED <<chain, listed, scans, faults>>
    BY DEF InStatus, Rows, Statuses, SplitUnlock
  <1> QED
    BY <1>1, SetRows, PhaseEnds

\* New rows are missed by the syncs that have not read the pool, and change nothing else.
LEMMA LateEffect ==
    ASSUME Shapes, NEW N \in SUBSET Outputs
    PROVE  /\ Late(N) \in [Managers -> Manager]
           /\ \A k \in Managers :
                 /\ managers[k].step # "find" => Late(N)[k] = managers[k]
                 /\ managers[k].step = "find" =>
                       /\ Late(N)[k].step = "find" /\ Late(N)[k].seen = managers[k].seen
                       /\ Late(N)[k].deep = managers[k].deep
                       /\ Late(N)[k].found = managers[k].found
                       /\ Late(N)[k].spend = managers[k].spend
                       /\ Late(N)[k].confirm = managers[k].confirm
                       /\ Late(N)[k].missed = managers[k].missed \cup N
  <1>1. ASSUME NEW k \in Managers
        PROVE  /\ Late(N)[k] \in Manager
               /\ managers[k].step # "find" => Late(N)[k] = managers[k]
               /\ managers[k].step = "find" =>
                     /\ Late(N)[k].step = "find" /\ Late(N)[k].seen = managers[k].seen
                     /\ Late(N)[k].deep = managers[k].deep
                     /\ Late(N)[k].found = managers[k].found
                     /\ Late(N)[k].spend = managers[k].spend
                     /\ Late(N)[k].confirm = managers[k].confirm
                     /\ Late(N)[k].missed = managers[k].missed \cup N
    <2> DEFINE old == managers[k]
               new == [old EXCEPT !.missed = old.missed \cup N]
    <2>1. old \in Manager
      BY DEF Shapes
    <2>2. Late(N)[k] = IF old.step = "find" THEN new ELSE old
      BY DEF Late
    <2> HIDE DEF old
    <2>3. /\ new \in Manager /\ new.step = old.step /\ new.seen = old.seen
          /\ new.deep = old.deep /\ new.found = old.found /\ new.spend = old.spend
          /\ new.confirm = old.confirm /\ new.missed = old.missed \cup N
      BY <2>1 DEF Manager
    <2> HIDE DEF new
    <2> QED
      BY <2>1, <2>2, <2>3 DEF old
  <1>2. Late(N) = [k \in Managers |-> Late(N)[k]]
    BY DEF Late
  <1> QED
    BY <1>1, <1>2

LEMMA LateFits ==
    ASSUME PoolInv, NEW N \in SUBSET Known, UNCHANGED <<chain, listed>>,
           Rows' = Rows \cup N, NEW k \in Managers, NEW x, x = Late(N)[k]
    PROVE  Fit(x)'
  <1>1. SpentOutputs' = SpentOutputs /\ Known' = Known
    BY DEF SpentOutputs, Known
  <1>2. N \in SUBSET Outputs
    BY DEF PoolInv, Shapes, Known, SpentOutputs
  <1>3. PICK y : y = managers[k]
    OBVIOUS
  <1>4. Fit(y)
    BY <1>3 DEF PoolInv, ManagersFit
  <1>5. /\ y.step # "find" => x = y
        /\ y.step = "find" =>
              /\ x.step = "find" /\ x.seen = y.seen /\ x.deep = y.deep /\ x.found = y.found
              /\ x.spend = y.spend /\ x.confirm = y.confirm /\ x.missed = y.missed \cup N
    BY <1>2, <1>3, LateEffect DEF PoolInv
  <1>6. CASE y.step # "find"
    BY <1>1, <1>4, <1>5, <1>6 DEF Fit
  <1>7. CASE y.step = "find"
    BY <1>1, <1>4, <1>5, <1>7 DEF Fit
  <1> QED
    BY <1>6, <1>7

LEMMA SyncAddKeeps ==
    ASSUME PoolInv, NEW m \in Managers, SyncAdd(m)
    PROVE  PoolInv'
  <1>1. PICK o \in managers[m].found :
           /\ Set({o}, IF o \in managers[m].deep THEN "available" ELSE "unconfirmed")
           /\ managers' = [Late({o} \cap InStatus("absent")) EXCEPT
                  ![m].found = @ \ {o}, ![m].deep = @ \ {o}]
    BY DEF SyncAdd
  <1> DEFINE N == {o} \cap InStatus("absent")
             old == managers[m]
             new == [[old EXCEPT !.found = old.found \ {o}] EXCEPT !.deep = old.deep \ {o}]
  <1>2. /\ UNCHANGED <<chain, listed, scans, faults>>
        /\ old.step = "add" /\ old \in Manager /\ Fit(old) /\ o \in Known /\ o \in Outputs
    BY <1>1 DEF SyncAdd, PoolInv, Shapes, ManagersFit, Fit, Manager
  <1>3. N \in SUBSET Known /\ N \in SUBSET Outputs
    BY <1>2
  <1>4. utxos' \in [Outputs -> Statuses] /\ Rows' = Rows \cup {o}
    <2> DEFINE status == IF o \in old.deep THEN "available" ELSE "unconfirmed"
    <2>1. status \in Statuses \ {"absent"} /\ {o} \in SUBSET Outputs /\ Set({o}, status)
      BY <1>1, <1>2 DEF Statuses
    <2> HIDE DEF status
    <2> QED
      BY <2>1, SetEffect DEF PoolInv
  <1>5. Rows' = Rows \cup N
    BY <1>2, <1>4 DEF Rows, InStatus
  <1>6. PICK f : f = Late(N)
    OBVIOUS
  <1>7. f \in [Managers -> Manager] /\ f[m] = old
    BY <1>2, <1>3, <1>6, LateEffect DEF PoolInv
  <1>8. managers' = [f EXCEPT ![m].found = @ \ {o}, ![m].deep = @ \ {o}]
    BY <1>1, <1>6
  <1>9. managers' = [f EXCEPT ![m] = new]
    BY <1>7, <1>8
  <1> HIDE DEF old, N
  <1>10. /\ new \in Manager /\ new.step = old.step /\ new.seen = old.seen
         /\ new.found = old.found \ {o} /\ new.spend = old.spend
         /\ new.deep = old.deep \ {o} /\ new.confirm = old.confirm /\ new.missed = old.missed
    BY <1>2 DEF Manager
  <1> HIDE DEF new
  <1>11. /\ managers' \in [Managers -> Manager] /\ managers'[m] = new
         /\ \A k \in Managers : k # m => managers'[k] = f[k]
    BY <1>7, <1>9, <1>10
  <1>12. SpentOutputs' = SpentOutputs /\ Known' = Known
    BY <1>2 DEF SpentOutputs, Known
  <1>13. Fit(managers[m])'
    BY <1>2, <1>5, <1>10, <1>11, <1>12 DEF Fit
  <1>14. ASSUME NEW k \in Managers, k # m
         PROVE  Fit(managers[k])'
    <2>1. PICK x : x = Late(N)[k]
      OBVIOUS
    <2>2. Fit(x)'
      BY <1>2, <1>3, <1>5, <2>1, LateFits
    <2>3. managers'[k] = x
      BY <1>6, <1>11, <1>14, <2>1
    <2> QED
      BY <2>2, <2>3 DEF Fit
  <1>15. Shapes'
    BY <1>2, <1>4, <1>11 DEF PoolInv, Shapes, ChainTyped
  <1>16. ManagersFit'
    BY <1>13, <1>14 DEF ManagersFit
  <1>17. ScansFit' /\ ListedExist' /\ (Rows \subseteq Known)'
    BY <1>2, <1>3, <1>5, <1>12 DEF PoolInv, ScansFit, ListedExist
  <1> QED
    BY <1>15, <1>16, <1>17 DEF PoolInv

LEMMA AddKeeps ==
    ASSUME PoolInv, Add
    PROVE  PoolInv'
  <1> DEFINE N == scans["add"] \cap InStatus("absent")
  <1>1. "add" \in Scripts /\ N \in SUBSET Known /\ N \in SUBSET Outputs
    BY DEF Add, PoolInv, ScansFit, Shapes
  <1>2. /\ UNCHANGED <<chain, listed, faults>> /\ managers' = Late(N) /\ Set(N, "available")
        /\ scans' = [scans EXCEPT !["add"] = {}]
    BY DEF Add
  <1>3. utxos' \in [Outputs -> Statuses] /\ Rows' = Rows \cup N
    BY <1>1, <1>2, SetEffect DEF PoolInv, Statuses
  <1> HIDE DEF N
  <1>4. SpentOutputs' = SpentOutputs /\ Known' = Known
    BY <1>2 DEF SpentOutputs, Known
  <1>5. managers' \in [Managers -> Manager]
    BY <1>1, <1>2, LateEffect DEF PoolInv
  <1>6. Shapes'
    BY <1>2, <1>3, <1>5 DEF PoolInv, Shapes, ChainTyped
  <1>7. ASSUME NEW k \in Managers
        PROVE  Fit(managers[k])'
    <2>1. PICK x : x = Late(N)[k]
      OBVIOUS
    <2>2. Fit(x)'
      BY <1>1, <1>2, <1>3, <2>1, LateFits
    <2>3. managers'[k] = x
      BY <1>2, <2>1
    <2> QED
      BY <2>2, <2>3 DEF Fit
  <1>8. ScansFit' /\ ListedExist' /\ (Rows \subseteq Known)'
    BY <1>1, <1>2, <1>3, <1>4 DEF PoolInv, ScansFit, ListedExist, Shapes
  <1> QED
    BY <1>6, <1>7, <1>8 DEF PoolInv, ManagersFit

LEMMA SweepFindKeeps ==
    ASSUME PoolInv, NEW m \in Managers, SweepFind(m)
    PROVE  PoolInv'
  <1> DEFINE dust == {o \in InStatus("available") : chain[o].satoshis < DustThreshold}
             old == managers[m]
             new == [[old EXCEPT !.step = "list"] EXCEPT !.found = dust]
  <1>1. UNCHANGED <<chain, listed, utxos, scans, faults>>
    BY DEF SweepFind
  <1>2. utxos' \in [Outputs -> Statuses] /\ Rows' = Rows
    BY <1>1, RowsKept DEF PoolInv, Shapes
  <1>3. CASE Done(m, "split")
    BY <1>1, <1>2, <1>3, PhaseEnds
  <1>4. CASE managers' = [managers EXCEPT ![m].step = "list", ![m].found = dust]
    <2>1. managers' = [managers EXCEPT ![m] = new]
      BY <1>4 DEF PoolInv, Shapes
    <2>2. old \in Manager /\ Fit(old) /\ Rows \subseteq Known
      BY DEF PoolInv, Shapes, ManagersFit
    <2>3. old.step = "sweep"
      BY DEF SweepFind
    <2>4. dust \subseteq Rows
      BY DEF InStatus, Rows
    <2>5. dust \subseteq Outputs
      BY DEF InStatus
    <2> HIDE DEF dust, old
    <2>6. /\ new \in Manager /\ new.step = "list" /\ new.found = dust
          /\ new.seen = old.seen /\ new.deep = old.deep /\ new.spend = old.spend
          /\ new.confirm = old.confirm /\ new.missed = old.missed
      BY <2>2, <2>5 DEF Manager, Steps
    <2> HIDE DEF new
    <2>7. Moved(m) /\ managers'[m] = new
      BY <2>1, <2>6, ManagerWritten DEF PoolInv
    <2>8. Fit(new)
      BY <2>2, <2>3, <2>4, <2>6 DEF Fit
    <2>9. Fit(managers[m])'
      BY <1>1, <2>7, <2>8 DEF Fit, Known, SpentOutputs, Rows
    <2> QED
      BY <1>1, <1>2, <2>7, <2>9, PoolMoves DEF PoolInv, Shapes
  <1> QED
    BY <1>3, <1>4 DEF SweepFind

\* What a manager that goes on with a sweep holds.
LEMMA ListedFits ==
    ASSUME PoolInv, NEW m \in Managers, managers[m].step = "list",
           UNCHANGED <<chain, listed, utxos, scans>>, faults' \in 0..MaxFaults,
           NEW new \in Manager, managers' = [managers EXCEPT ![m] = new],
           \/ new.step = "consolidate" /\ new.seen = listed /\ new.missed = managers[m].missed
           \/ new.step = "swept" /\ new.seen = managers[m].seen /\ listed = {}
                /\ new.missed = managers[m].missed
           \/ new.step = "swept" /\ new.seen = managers[m].seen
                /\ new.missed = managers[m].found,
           new.found = managers[m].found, new.deep = managers[m].deep,
           new.spend = managers[m].spend, new.confirm = managers[m].confirm
    PROVE  PoolInv'
  <1>1. Fit(managers[m])
    BY DEF PoolInv, ManagersFit
  <1>2. Moved(m) /\ managers'[m] = new
    BY ManagerWritten DEF PoolInv
  <1>3. Fit(managers[m])'
    BY <1>1, <1>2 DEF Fit, Known, SpentOutputs, Rows
  <1> QED
    BY <1>2, <1>3, PoolMoves, RowsKept DEF PoolInv, Shapes

LEMMA SweepListKeeps ==
    ASSUME PoolInv, NEW m \in Managers, SweepList(m)
    PROVE  PoolInv'
  <1> DEFINE old == managers[m]
             swept == [old EXCEPT !.step = "swept"]
             missing == [swept EXCEPT !.missed = old.found]
             all == [[old EXCEPT !.step = "consolidate"] EXCEPT !.seen = listed]
  <1>1. /\ UNCHANGED <<chain, listed, utxos, scans>> /\ old \in Manager
        /\ old.step = "list" /\ listed \subseteq Outputs /\ faults \in 0..MaxFaults
    BY DEF PoolInv, Shapes, SweepList
  <1>2. faults' \in 0..MaxFaults
    BY <1>1, PoolAssumption DEF SweepList
  <1>3. CASE Done(m, "split") /\ UNCHANGED faults
    BY <1>1, <1>3, PhaseEnds, RowsKept DEF PoolInv, Shapes
  <1>4. CASE listed = {} /\ managers' = [managers EXCEPT ![m].step = "swept"]
    <2>1. managers' = [managers EXCEPT ![m] = swept]
      BY <1>4 DEF PoolInv, Shapes
    <2> HIDE DEF old
    <2>2. /\ swept \in Manager /\ swept.step = "swept" /\ swept.found = old.found
          /\ swept.seen = old.seen /\ swept.deep = old.deep /\ swept.spend = old.spend
          /\ swept.confirm = old.confirm /\ swept.missed = old.missed
      BY <1>1 DEF Manager, Steps
    <2> HIDE DEF swept
    <2> QED
      BY <1>1, <1>2, <1>4, <2>1, <2>2, ListedFits DEF old
  <1>5. CASE managers' = [managers EXCEPT ![m].step = "consolidate", ![m].seen = listed]
    <2>1. managers' = [managers EXCEPT ![m] = all]
      BY <1>5 DEF PoolInv, Shapes
    <2> HIDE DEF old
    <2>2. /\ all \in Manager /\ all.step = "consolidate" /\ all.found = old.found
          /\ all.seen = listed /\ all.deep = old.deep /\ all.spend = old.spend
          /\ all.confirm = old.confirm /\ all.missed = old.missed
      BY <1>1 DEF Manager, Steps
    <2> HIDE DEF all
    <2> QED
      BY <1>1, <1>2, <2>1, <2>2, ListedFits DEF old
  <1>6. CASE managers' = [managers EXCEPT ![m].step = "swept", ![m].missed = managers[m].found]
    <2>1. managers' = [managers EXCEPT ![m] = missing]
      BY <1>6 DEF PoolInv, Shapes
    <2> HIDE DEF old
    <2>2. /\ missing \in Manager /\ missing.step = "swept" /\ missing.found = old.found
          /\ missing.seen = old.seen /\ missing.deep = old.deep /\ missing.spend = old.spend
          /\ missing.confirm = old.confirm /\ missing.missed = old.found
      BY <1>1 DEF Manager, Steps
    <2> HIDE DEF missing
    <2> QED
      BY <1>1, <1>2, <2>1, <2>2, ListedFits DEF old
  <1> QED
    BY <1>3, <1>4, <1>5, <1>6 DEF SweepList

LEMMA SweepBroadcastKeeps ==
    ASSUME PoolInv, NEW m \in Managers, SweepBroadcast(m)
    PROVE  PoolInv'
  <1> DEFINE old == managers[m]
             new == [[old EXCEPT !.step = "swept"] EXCEPT !.seen = {}]
             amounts == [o \in Places(1) |-> Satoshis(managers[m].seen) - Fee]
  <1>1. UNCHANGED <<listed, utxos, scans, faults>>
    BY DEF SweepBroadcast
  <1>2. utxos' \in [Outputs -> Statuses] /\ Rows' = Rows
    BY <1>1, RowsKept DEF PoolInv, Shapes
  <1>3. old \in Manager /\ Fit(old) /\ old.step = "consolidate"
    BY DEF PoolInv, Shapes, ManagersFit, SweepBroadcast
  <1>4. CASE Done(m, "split") /\ UNCHANGED chain
    BY <1>1, <1>2, <1>4, PhaseEnds
  <1>5. CASE /\ old.seen \subseteq Unspent
             /\ Pay(old.seen, amounts)
             /\ \/ Done(m, "split")
                \/ managers' = [managers EXCEPT ![m].step = "swept", ![m].seen = {}]
    <2>1. DOMAIN amounts \subseteq Unused
      BY PlacesUnused
    <2>2. PICK paid : paid = amounts
      OBVIOUS
    <2>3. DOMAIN paid \subseteq Unused /\ Pay(old.seen, paid)
      BY <1>5, <2>1, <2>2
    <2> HIDE DEF amounts
    <2>4. CASE Done(m, "split")
      <3>1. Moved(m) /\ Clean(managers'[m])
        BY <2>4, DoneEffect DEF PoolInv
      <3>2. Fit(managers[m])'
        BY <3>1, CleanFits
      <3> QED
        BY <1>1, <1>5, <2>3, <3>1, <3>2, PoolPays
    <2>5. CASE managers' = [managers EXCEPT ![m].step = "swept", ![m].seen = {}]
      <3>1. managers' = [managers EXCEPT ![m] = new]
        BY <2>5 DEF PoolInv, Shapes
      <3>2. SpentOutputs' = SpentOutputs \cup old.seen
        BY <1>5, <2>3, PayEffect DEF PoolInv
      <3> HIDE DEF old
      <3>3. /\ new \in Manager /\ new.step = "swept" /\ new.found = old.found
            /\ new.seen = {} /\ new.deep = old.deep /\ new.spend = old.spend
            /\ new.confirm = old.confirm /\ new.missed = old.missed
        BY <1>3 DEF Manager, Steps
      <3> HIDE DEF new
      <3>4. Moved(m) /\ managers'[m] = new
        BY <3>1, <3>3, ManagerWritten DEF PoolInv
      <3>5. Fit(managers[m])'
        BY <1>1, <1>2, <1>3, <3>2, <3>3, <3>4 DEF Fit, Known
      <3> QED
        BY <1>1, <1>5, <2>3, <3>4, <3>5, PoolPays DEF old
    <2> QED
      BY <1>5, <2>4, <2>5
  <1> QED
    BY <1>4, <1>5 DEF SweepBroadcast

LEMMA SplitCountKeeps ==
    ASSUME PoolInv, NEW m \in Managers, SplitCount(m)
    PROVE  PoolInv'
  <1> DEFINE count == Cardinality(InStatus("available"))
             deficit == Min({MinCount - count, MaxSplit})
             old == managers[m]
             new == [[old EXCEPT !.step = "select"] EXCEPT !.deficit = deficit]
  <1>1. UNCHANGED <<chain, listed, utxos, scans, faults>>
    BY DEF SplitCount
  <1>2. utxos' \in [Outputs -> Statuses] /\ Rows' = Rows
    BY <1>1, RowsKept DEF PoolInv, Shapes
  <1>3. CASE Done(m, "idle")
    BY <1>1, <1>2, <1>3, PhaseEnds
  <1>4. CASE /\ ~(count >= MinCount)
             /\ managers' = [managers EXCEPT ![m].step = "select", ![m].deficit = deficit]
    <2>1. managers' = [managers EXCEPT ![m] = new]
      BY <1>4 DEF PoolInv, Shapes
    <2>2. old \in Manager /\ Fit(old) /\ old.step = "split"
      BY DEF PoolInv, Shapes, ManagersFit, SplitCount
    <2>3. count \in Nat
      <3>1. InStatus("available") \in SUBSET Outputs /\ IsFiniteSet(Outputs)
        BY PoolAssumption DEF InStatus
      <3>2. IsFiniteSet(InStatus("available"))
        BY <3>1, FS_Subset
      <3> QED
        BY <3>2, FS_CardinalityType
    <2>4. deficit \in 0..MaxSplit
      <3> DEFINE gap == MinCount - count
      <3>1. gap \in Nat /\ MaxSplit \in Nat
        BY <1>4, <2>3, PoolAssumption
      <3>2. deficit = Min({gap, MaxSplit})
        OBVIOUS
      <3> HIDE DEF gap, deficit
      <3>3. \E x \in {gap, MaxSplit} : \A y \in {gap, MaxSplit} : x <= y
        BY <3>1
      <3>4. deficit \in {gap, MaxSplit} /\ \A y \in {gap, MaxSplit} : deficit <= y
        BY <3>2, <3>3 DEF Min
      <3> QED
        BY <3>1, <3>4
    <2> HIDE DEF old, deficit
    <2>5. /\ new \in Manager /\ new.step = "select" /\ new.found = old.found
          /\ new.seen = old.seen /\ new.deep = old.deep /\ new.spend = old.spend
          /\ new.confirm = old.confirm /\ new.missed = old.missed
      BY <2>2, <2>4 DEF Manager, Steps
    <2> HIDE DEF new
    <2>6. Moved(m) /\ managers'[m] = new
      BY <2>1, <2>5, ManagerWritten DEF PoolInv
    <2>7. Fit(new)
      BY <2>2, <2>5 DEF Fit
    <2>8. Fit(managers[m])'
      BY <1>1, <2>6, <2>7 DEF Fit, Known, SpentOutputs, Rows
    <2> QED
      BY <1>1, <1>2, <2>6, <2>8, PoolMoves DEF PoolInv, Shapes
  <1> QED
    BY <1>3, <1>4 DEF SplitCount

LEMMA SplitSelectKeeps ==
    ASSUME PoolInv, NEW m \in Managers, SplitSelect(m)
    PROVE  PoolInv'
  <1> DEFINE old == managers[m]
  <1>1. UNCHANGED <<chain, listed, scans, faults>>
    BY DEF SplitSelect
  <1>2. CASE Done(m, "idle") /\ UNCHANGED utxos
    BY <1>1, <1>2, PhaseEnds, RowsKept DEF PoolInv, Shapes
  <1>3. ASSUME NEW o \in InStatus("available"), Set({o}, "locked"),
               managers' = [managers EXCEPT ![m].step = "send", ![m].found = {o}]
        PROVE  PoolInv'
    <2> DEFINE new == [[old EXCEPT !.step = "send"] EXCEPT !.found = {o}]
    <2>1. managers' = [managers EXCEPT ![m] = new]
      BY <1>3 DEF PoolInv, Shapes
    <2>2. old \in Manager /\ Fit(old) /\ old.step = "select" /\ Rows \subseteq Known
      BY DEF PoolInv, Shapes, ManagersFit, SplitSelect
    <2>3. o \in Outputs /\ o \in Rows
      BY DEF InStatus, Rows
    <2>4. utxos' \in [Outputs -> Statuses] /\ Rows' = Rows
      BY <1>3, <2>3, SetRows DEF Statuses
    <2> HIDE DEF old
    <2>5. /\ new \in Manager /\ new.step = "send" /\ new.found = {o}
          /\ new.seen = old.seen /\ new.deep = old.deep /\ new.spend = old.spend
          /\ new.confirm = old.confirm /\ new.missed = old.missed
      BY <2>2, <2>3 DEF Manager, Steps
    <2> HIDE DEF new
    <2>6. Moved(m) /\ managers'[m] = new
      BY <2>1, <2>5, ManagerWritten DEF PoolInv
    <2>7. Fit(new)
      BY <2>2, <2>3, <2>5 DEF Fit
    <2>8. Fit(managers[m])'
      BY <1>1, <2>4, <2>6, <2>7 DEF Fit, Known, SpentOutputs
    <2> QED
      BY <1>1, <2>4, <2>6, <2>8, PoolMoves DEF PoolInv, Shapes
  <1> QED
    BY <1>2, <1>3 DEF SplitSelect

\* A broadcast of a split is over, or an answer of the database did not come.
LEMMA SplitEnds ==
    ASSUME PoolInv, NEW m \in Managers, NEW step \in {"sent", "failed"},
           NEW deficit \in 0..MaxSplit, NEW new, Rows' = Rows,
           new = [[managers[m] EXCEPT !.step = step] EXCEPT !.deficit = deficit],
           managers' = [managers EXCEPT ![m] = new],
           managers[m].step \in {"send", "sent"}, Grows,
           step = "sent" => managers[m].found \subseteq SpentOutputs'
    PROVE  Moved(m) /\ Fit(managers[m])'
  <1> DEFINE old == managers[m]
  <1>1. old \in Manager /\ Fit(old) /\ old.step \in {"send", "sent"}
    BY DEF PoolInv, Shapes, ManagersFit
  <1>2. new = [[old EXCEPT !.step = step] EXCEPT !.deficit = deficit]
    OBVIOUS
  <1>3. step = "sent" => old.found \subseteq SpentOutputs'
    OBVIOUS
  <1> HIDE DEF old
  <1>4. /\ new \in Manager /\ new.step = step /\ new.found = old.found
        /\ new.seen = old.seen /\ new.deep = old.deep /\ new.spend = old.spend
        /\ new.confirm = old.confirm /\ new.missed = old.missed
    BY <1>1, <1>2 DEF Manager, Steps
  <1>5. Moved(m) /\ managers'[m] = new
    BY <1>4, ManagerWritten DEF PoolInv
  <1>6. Fit(managers[m])'
    BY <1>1, <1>3, <1>4, <1>5 DEF Fit, Grows
  <1> QED
    BY <1>5, <1>6

LEMMA SplitBroadcastKeeps ==
    ASSUME PoolInv, NEW m \in Managers, SplitBroadcast(m)
    PROVE  PoolInv'
  <1>1. /\ UNCHANGED <<listed, utxos, scans, faults>> /\ managers[m].step = "send"
        /\ managers[m] \in Manager /\ Fit(managers[m]) /\ 0 \in 0..MaxSplit
    BY PoolAssumption DEF SplitBroadcast, PoolInv, Shapes, ManagersFit
  <1>2. Rows' = Rows
    BY <1>1, RowsKept
  <1>3. CASE /\ managers' = [managers EXCEPT ![m].step = "failed", ![m].deficit = 0]
             /\ UNCHANGED chain
    <2>1. PICK new : new = [[managers[m] EXCEPT !.step = "failed"] EXCEPT !.deficit = 0]
      OBVIOUS
    <2>2. managers' = [managers EXCEPT ![m] = new]
      BY <1>3, <2>1 DEF PoolInv, Shapes
    <2>3. Grows
      BY <1>1, <1>2, <1>3 DEF Grows, Known, SpentOutputs
    <2>4. Moved(m) /\ Fit(managers[m])'
      BY <1>1, <1>2, <2>1, <2>2, <2>3, SplitEnds
    <2> QED
      BY <1>1, <1>2, <1>3, <2>4, PoolMoves DEF PoolInv, Shapes
  <1>4. ASSUME NEW o \in managers[m].found \cap Unspent,
               Pay({o}, SplitOutputs(o, managers[m].deficit)),
               NEW step \in {"sent", "failed"},
               managers' = [managers EXCEPT ![m].step = step, ![m].deficit = 0]
        PROVE  PoolInv'
    <2>1. PICK new : new = [[managers[m] EXCEPT !.step = step] EXCEPT !.deficit = 0]
      OBVIOUS
    <2>2. managers' = [managers EXCEPT ![m] = new]
      BY <1>4, <2>1 DEF PoolInv, Shapes
    <2>3. PICK paid : paid = SplitOutputs(o, managers[m].deficit)
      OBVIOUS
    <2>4. DOMAIN paid \subseteq Unused
      BY <2>3, PlacesUnused DEF SplitOutputs
    <2>5. Pay({o}, paid) /\ {o} \in SUBSET Unspent
      BY <1>4, <2>3
    <2>6. SpentOutputs' = SpentOutputs \cup {o}
      BY <2>4, <2>5, PayEffect DEF PoolInv
    <2>7. managers[m].found = {o}
      BY <1>1, <1>4 DEF Fit
    <2>8. Grows
      BY <1>1, <1>2, <2>6 DEF Grows, Known
    <2>9. Moved(m) /\ Fit(managers[m])'
      BY <1>1, <1>2, <2>1, <2>2, <2>6, <2>7, <2>8, SplitEnds
    <2> QED
      BY <1>1, <2>4, <2>5, <2>9, PoolPays
  <1> QED
    BY <1>3, <1>4 DEF SplitBroadcast

LEMMA SplitSpendKeeps ==
    ASSUME PoolInv, NEW m \in Managers, SplitSpend(m)
    PROVE  PoolInv'
  <1>1. /\ UNCHANGED <<chain, listed, scans, faults>> /\ managers[m].step = "sent"
        /\ managers[m] \in Manager /\ Fit(managers[m])
    BY DEF SplitSpend, PoolInv, Shapes, ManagersFit
  <1>2. CASE Set(managers[m].found, "spent") /\ Done(m, "idle")
    <2>1. managers[m].found \in SUBSET Rows /\ "spent" \in Statuses \ {"absent"}
      BY <1>1 DEF Fit, Statuses
    <2> QED
      BY <1>1, <1>2, <2>1, SetRows, PhaseEnds
  <1>3. CASE managers' = [managers EXCEPT ![m].step = "failed"] /\ UNCHANGED utxos
    <2> DEFINE old == managers[m]
               new == [old EXCEPT !.step = "failed"]
    <2>1. managers' = [managers EXCEPT ![m] = new]
      BY <1>3 DEF PoolInv, Shapes
    <2>2. old \in Manager /\ Fit(old) /\ old.step = "sent"
      BY <1>1
    <2>3. utxos' \in [Outputs -> Statuses] /\ Rows' = Rows
      BY <1>3, RowsKept DEF PoolInv, Shapes
    <2> HIDE DEF old
    <2>4. /\ new \in Manager /\ new.step = "failed" /\ new.found = old.found
          /\ new.seen = old.seen /\ new.deep = old.deep /\ new.spend = old.spend
          /\ new.confirm = old.confirm /\ new.missed = old.missed
      BY <2>2 DEF Manager, Steps
    <2> HIDE DEF new
    <2>5. Moved(m) /\ managers'[m] = new
      BY <2>1, <2>4, ManagerWritten DEF PoolInv
    <2>6. Fit(new)
      BY <2>2, <2>4 DEF Fit
    <2>7. Fit(managers[m])'
      BY <1>1, <1>3, <2>5, <2>6 DEF Fit, Known, SpentOutputs, Rows
    <2> QED
      BY <1>1, <2>3, <2>5, <2>7, PoolMoves DEF PoolInv, Shapes
  <1> QED
    BY <1>2, <1>3 DEF SplitSpend

-----------------------------------------------------------------------------
(* Steps of scripts, and of the chain *)

\* A script scans, or writes to rows there are.
LEMMA ScriptMoves ==
    ASSUME PoolInv, UNCHANGED <<chain, listed, managers, faults>>,
           utxos' \in [Outputs -> Statuses], Rows' = Rows,
           NEW s \in Scripts, NEW found \in SUBSET Known,
           s \in {"reap", "revert"} => found \subseteq Rows,
           scans' = [scans EXCEPT ![s] = found]
    PROVE  PoolInv'
  <1>1. SpentOutputs' = SpentOutputs /\ Known' = Known
    BY DEF SpentOutputs, Known
  <1>2. Known \subseteq Outputs
    BY DEF Known, SpentOutputs, PoolInv, Shapes
  <1>3. Shapes'
    BY <1>2 DEF PoolInv, Shapes, ChainTyped
  <1>4. ScansFit' /\ ListedExist'
    BY <1>1 DEF PoolInv, ScansFit, ListedExist, Shapes
  <1>5. ManagersFit'
    BY <1>1 DEF PoolInv, ManagersFit, Fit
  <1> QED
    BY <1>1, <1>3, <1>4, <1>5 DEF PoolInv

LEMMA ScriptKeeps ==
    ASSUME PoolInv, ScriptStep
    PROVE  PoolInv'
  <1> USE DEF PoolInv
  <1>1. Rows \subseteq Known /\ InStatus("locked") \subseteq Rows
    BY DEF InStatus, Rows
  <1>2. ASSUME NEW s \in Scripts, ScanLocked(s)
        PROVE  PoolInv'
    <2>1. utxos' \in [Outputs -> Statuses] /\ Rows' = Rows
      BY <1>2, RowsKept DEF ScanLocked, Shapes
    <2>2. InStatus("locked") \in SUBSET Known
      BY <1>1
    <2> QED
      BY <1>1, <1>2, <2>1, <2>2, ScriptMoves DEF ScanLocked
  <1>3. CASE Reap
    <2>1. scans["reap"] \in SUBSET Rows /\ "available" \in Statuses \ {"absent"}
      BY <1>3 DEF ScansFit, Reap, Statuses
    <2>2. utxos' \in [Outputs -> Statuses] /\ Rows' = Rows
      BY <1>3, <2>1, SetRows DEF Reap
    <2> QED
      BY <1>3, <2>2, ScriptMoves DEF Reap
  <1>4. CASE Revert
    <2>1. /\ scans["revert"] \cap InStatus("locked") \in SUBSET Rows
          /\ "available" \in Statuses \ {"absent"}
      BY <1>1 DEF Statuses
    <2>2. utxos' \in [Outputs -> Statuses] /\ Rows' = Rows
      BY <1>4, <2>1, SetRows DEF Revert
    <2> QED
      BY <1>4, <2>2, ScriptMoves DEF Revert
  <1>5. CASE AddCheck
    <2>1. utxos' \in [Outputs -> Statuses] /\ Rows' = Rows
      BY <1>5, RowsKept DEF AddCheck, Shapes
    <2>2. PICK o \in listed : scans' = [scans EXCEPT !["add"] = {o}]
      BY <1>5 DEF AddCheck
    <2>3. {o} \in SUBSET Known
      BY DEF Known
    <2> QED
      BY <1>5, <2>1, <2>2, <2>3, ScriptMoves DEF AddCheck
  <1> QED
    BY <1>2, <1>3, <1>4, <1>5, AddKeeps DEF ScriptStep

\* The chain goes on, and its index follows.
LEMMA ChainMoves ==
    ASSUME PoolInv, UNCHANGED <<utxos, managers, scans, faults>>,
           ChainTyped', listed' \subseteq Outputs, ListedExist', Grows
    PROVE  PoolInv'
  <1>1. Rows' = Rows
    BY RowsKept
  <1>2. ASSUME NEW k \in Managers
        PROVE  Fit(managers[k])'
    <2>1. PICK x : x = managers[k]
      OBVIOUS
    <2>2. Fit(x)'
      BY <1>1, <2>1, FitGrows DEF PoolInv, ManagersFit
    <2> QED
      BY <2>1, <2>2 DEF Fit
  <1>3. Shapes'
    BY DEF PoolInv, Shapes
  <1>4. ScansFit' /\ (Rows \subseteq Known)'
    BY <1>1 DEF PoolInv, ScansFit, Grows
  <1> QED
    BY <1>2, <1>3, <1>4 DEF PoolInv, ManagersFit

LEMMA DepositKeeps ==
    ASSUME PoolInv, Deposit
    PROVE  PoolInv'
  <1>1. PICK sats \in Deposits : Pay({}, [o \in Places(1) |-> sats])
    BY DEF Deposit
  <1>2. PICK paid : paid = [o \in Places(1) |-> sats]
    OBVIOUS
  <1>3. DOMAIN paid \subseteq Unused /\ Pay({}, paid) /\ {} \in SUBSET Unspent
    BY <1>1, <1>2, PlacesUnused
  <1>4. /\ ChainTyped' /\ SpentOutputs' = SpentOutputs \cup {}
        /\ \A o \in listed : chain'[o].state # "unused"
    BY <1>3, PayEffect DEF PoolInv
  <1>5. Grows
    BY <1>4, RowsKept DEF Grows, Known, Deposit
  <1> QED
    BY <1>4, <1>5, ChainMoves DEF Deposit, ListedExist, PoolInv, Shapes

LEMMA MineKeeps ==
    ASSUME PoolInv, Mine
    PROVE  PoolInv'
  <1>1. PICK S : chain \in [Outputs -> [satoshis : S, state : States]]
    BY DEF PoolInv, Shapes, ChainTyped
  <1>2. ASSUME NEW o \in Outputs
        PROVE  /\ chain'[o] \in [satoshis : S, state : States]
               /\ chain'[o].state = IF chain[o].state = "fresh" THEN "deep" ELSE chain[o].state
    <2> DEFINE old == chain[o]
               new == [old EXCEPT !.state = "deep"]
    <2>1. chain'[o] = IF old.state = "fresh" THEN new ELSE old
      BY DEF Mine
    <2>2. old \in [satoshis : S, state : States]
      BY <1>1
    <2> HIDE DEF old
    <2>3. new \in [satoshis : S, state : States] /\ new.state = "deep"
      BY <2>2 DEF States
    <2> QED
      BY <2>1, <2>2, <2>3 DEF old
  <1>3. chain' \in [Outputs -> [satoshis : S, state : States]]
    <2>1. chain' = [o \in Outputs |-> chain'[o]]
      BY DEF Mine
    <2> QED
      BY <1>2, <2>1
  <1>4. SpentOutputs' = SpentOutputs
    BY <1>2 DEF SpentOutputs
  <1>5. ListedExist'
    BY <1>2 DEF PoolInv, Shapes, ListedExist, Mine
  <1>6. Grows
    BY <1>4, RowsKept DEF Grows, Known, Mine
  <1> QED
    BY <1>3, <1>5, <1>6, ChainMoves DEF Mine, PoolInv, Shapes, ChainTyped

LEMMA IndexKeeps ==
    ASSUME PoolInv, Index
    PROVE  PoolInv'
  <1>1. listed' = Unspent /\ UNCHANGED <<chain, utxos, managers, scans, faults>>
    BY DEF Index
  <1>2. SpentOutputs' = SpentOutputs /\ ChainTyped'
    BY <1>1 DEF SpentOutputs, ChainTyped, PoolInv, Shapes
  <1>3. listed \subseteq Unspent \cup SpentOutputs
    BY DEF PoolInv, Shapes, ChainTyped, States, ListedExist, Unspent, SpentOutputs
  <1>4. Grows
    BY <1>1, <1>2, <1>3, RowsKept DEF Grows, Known
  <1>5. ListedExist' /\ listed' \subseteq Outputs
    BY <1>1 DEF ListedExist, Unspent
  <1> QED
    BY <1>1, <1>2, <1>4, <1>5, ChainMoves

-----------------------------------------------------------------------------
(* Theorems *)

LEMMA PoolStarts == Init => PoolInv
  <1> SUFFICES ASSUME Init PROVE PoolInv
    OBVIOUS
  <1>1. Rows = {} /\ listed = {}
    BY DEF Init, Rows
  <1>2. \A m \in Managers : managers[m] = Idle
    BY DEF Init
  <1>3. Idle \in Manager /\ Clean(Idle)
    BY FreshRequest
  <1>4. chain \in [Outputs -> [satoshis : {0}, state : States]]
    BY DEF Init, States
  <1>5. utxos \in [Outputs -> Statuses] /\ faults \in 0..MaxFaults
    BY PoolAssumption DEF Init, Statuses
  <1>6. managers \in [Managers -> Manager] /\ scans = [s \in Scripts |-> {}]
    BY <1>3 DEF Init
  <1>7. Shapes
    BY <1>1, <1>4, <1>5, <1>6 DEF Shapes, ChainTyped
  <1>8. ManagersFit
    BY <1>1, <1>2, <1>3 DEF ManagersFit, Fit, Clean
  <1> QED
    BY <1>1, <1>6, <1>7, <1>8 DEF PoolInv, ScansFit, ListedExist

LEMMA ManagerKeeps ==
    ASSUME PoolInv, NEW m \in Managers, ManagerStep(m)
    PROVE  PoolInv'
  BY SyncFetchKeeps, SyncFindKeeps, SyncAddKeeps, SyncSpendKeeps, SyncConfirmKeeps,
     SweepFindKeeps, SweepListKeeps, SweepBroadcastKeeps, SweepSpendKeeps,
     SplitCountKeeps, SplitSelectKeeps, SplitBroadcastKeeps, SplitSpendKeeps,
     SplitUnlockKeeps DEF ManagerStep

LEMMA PoolStep == PoolInv /\ [Next]_vars => PoolInv'
  <1> SUFFICES ASSUME PoolInv, [Next]_vars PROVE PoolInv'
    OBVIOUS
  <1>1. CASE UNCHANGED vars
    <2>1. UNCHANGED <<chain, listed, utxos, managers, scans, faults>>
      BY <1>1 DEF vars
    <2>2. Rows' = Rows /\ SpentOutputs' = SpentOutputs /\ Known' = Known
      BY <2>1 DEF Rows, SpentOutputs, Known
    <2>3. ChainTyped' /\ ListedExist'
      BY <2>1 DEF PoolInv, Shapes, ChainTyped, ListedExist
    <2> QED
      BY <2>1, <2>2, <2>3, ChainMoves DEF PoolInv, Shapes, Grows
  <1>2. CASE Next
    BY <1>2, DepositKeeps, MineKeeps, IndexKeeps, RequestKeeps, StopKeeps, ManagerKeeps,
       ScriptKeeps DEF Next
  <1> QED
    BY <1>1, <1>2

\* Rows are of outputs that the index has listed, and what managers and scripts hold
\* of old answers of the index still fits, whoever writes or stops in between.
THEOREM PoolInvariant == Spec => []PoolInv
  BY PoolStarts, PoolStep, PTL DEF Spec

\* For any number of managers and scripts, whatever gets lost: a row is marked spent
\* only if its output is, or by a manager that works with an answer of WhatsOnChain
\* which misses the row.
THEOREM SpentRowsAreSpent == Spec => SpentIsSpent
  <1> DEFINE Truly ==
        \A o \in Outputs : utxos[o] # "spent" /\ utxos'[o] = "spent" =>
              \/ chain'[o].state = "spent"
              \/ \E m \in Managers :
                    (SyncSpend(m) \/ SweepSpend(m)) /\ o \in managers[m].missed
  <1>1. PoolInv /\ [Next]_vars => [Truly]_vars
    <2> SUFFICES ASSUME PoolInv, Next PROVE Truly
      BY DEF vars
    <2> USE DEF Set
    <2>1. ASSUME NEW m \in Managers, SyncSpend(m)
          PROVE  Truly
      <3>1. managers[m].spend \subseteq SpentOutputs \cup managers[m].missed
        BY <2>1 DEF PoolInv, ManagersFit, Fit, SyncSpend
      <3>2. \A o \in Outputs \ managers[m].spend : utxos'[o] = utxos[o]
        BY <2>1 DEF SyncSpend
      <3> QED
        BY <2>1, <3>1, <3>2 DEF SpentOutputs, SyncSpend
    <2>2. ASSUME NEW m \in Managers, SweepSpend(m)
          PROVE  Truly
      <3>1. managers[m].found \subseteq SpentOutputs \cup managers[m].missed
        BY <2>2 DEF PoolInv, ManagersFit, Fit, SweepSpend
      <3>2. UNCHANGED chain /\ \A o \in Outputs \ managers[m].found : utxos'[o] = utxos[o]
        BY <2>2 DEF SweepSpend
      <3> QED
        BY <2>2, <3>1, <3>2 DEF SpentOutputs
    <2>3. ASSUME NEW m \in Managers, SplitSpend(m)
          PROVE  Truly
      <3>1. managers[m].found \subseteq SpentOutputs /\ UNCHANGED chain
        BY <2>3 DEF PoolInv, ManagersFit, Fit, SplitSpend
      <3>2. \A o \in Outputs \ managers[m].found : utxos'[o] = utxos[o]
        BY <2>3 DEF SplitSpend
      <3> QED
        BY <3>1, <3>2 DEF SpentOutputs
    <2>4. ASSUME NEW m \in Managers,
                 \/ SyncFetch(m) \/ SyncFind(m) \/ SweepFind(m) \/ SweepList(m)
                 \/ SweepBroadcast(m) \/ SplitCount(m) \/ SplitBroadcast(m)
          PROVE  UNCHANGED utxos
      BY <2>4 DEF SyncFetch, SyncFind, SweepFind, SweepList, SweepBroadcast, SplitCount,
                  SplitBroadcast
    <2>5. ASSUME NEW m \in Managers,
                 SyncAdd(m) \/ SyncConfirm(m) \/ SplitSelect(m) \/ SplitUnlock(m)
          PROVE  Truly
      BY <2>5 DEF SyncAdd, SyncConfirm, SplitSelect, SplitUnlock
    <2>6. CASE ScriptStep
      BY <2>6 DEF ScriptStep, ScanLocked, Reap, Revert, AddCheck, Add
    <2>7. ASSUME NEW m \in Managers, Stop(m) \/ \E action \in Actions : Request(m, action)
          PROVE  UNCHANGED utxos
      BY <2>7 DEF Stop, Request
    <2>8. CASE Deposit \/ Mine \/ Index
      BY <2>8 DEF Deposit, Mine, Index
    <2> QED
      BY <2>1, <2>2, <2>3, <2>4, <2>5, <2>6, <2>7, <2>8 DEF Next, ManagerStep
  <1> QED
    BY <1>1, PoolInvariant, PTL DEF Spec, SpentIsSpent

-----------------------------------------------------------------------------
(* Sums of amounts: MapThenSumSet is a recursive function, of which        *)
(* nothing is known before it is shown that there is one, size by size.    *)

\* Every set of natural numbers has a least one.
LEMMA LeastNumber ==
    ASSUME NEW T \in SUBSET Nat, T # {}
    PROVE  \E n \in T : \A k \in T : n <= k
  <1>1. IsWellFoundedOn(OpToRel(<, Nat), Nat)
    BY NatLessThanWellFounded
  <1>2. PICK n \in T : \A k \in T : ~(<<k, n>> \in OpToRel(<, Nat))
    BY <1>1, WFMin
  <1>3. ASSUME NEW k \in T
        PROVE  n <= k
    <2>1. CASE k < n
      <3>1. <<k, n>> \in Nat \X Nat /\ <<k, n>>[1] < <<k, n>>[2]
        BY <2>1
      <3>2. <<k, n>> \in OpToRel(<, Nat)
        BY <3>1 DEF OpToRel
      <3> QED
        BY <1>2, <3>2
    <2> QED
      BY <2>1
  <1> QED
    BY <1>3

First(s) == CHOOSE x \in s : TRUE

\* How the sum of S goes on from subset to subset.
Sums(g, a, S) ==
    \A s \in S : g[s] = IF s = {} THEN 0 ELSE a[First(s)].satoshis + g[s \ {First(s)}]

SumOf(a, S) ==
    (CHOOSE g : g = [s \in SUBSET S |->
        IF s = {} THEN 0 ELSE a[First(s)].satoshis + g[s \ {First(s)}]])[S]

LEMMA SatoshisSum == \A S : Satoshis(S) = SumOf(chain, S)
  BY Zenon DEF Satoshis, MapThenSumSet, MapThenFoldSet, SumOf, First

\* The rest of a set is a smaller one.
LEMMA RestSmaller ==
    ASSUME NEW s, IsFiniteSet(s), s # {}
    PROVE  /\ First(s) \in s /\ IsFiniteSet(s \ {First(s)})
           /\ Cardinality(s) \in Nat /\ Cardinality(s \ {First(s)}) \in Nat
           /\ Cardinality(s \ {First(s)}) < Cardinality(s)
  <1>1. First(s) \in s
    BY DEF First
  <1>2. /\ IsFiniteSet(s \ {First(s)})
        /\ Cardinality(s \ {First(s)}) = Cardinality(s) - 1
    BY <1>1, FS_RemoveElement
  <1>3. Cardinality(s) \in Nat /\ Cardinality(s \ {First(s)}) \in Nat
    BY <1>2, FS_CardinalityType
  <1> QED
    BY <1>1, <1>2, <1>3

Upto(S, n) == {s \in SUBSET S : Cardinality(s) <= n}

LEMMA SumsUpto ==
    ASSUME NEW S, IsFiniteSet(S), NEW a, \A o \in S : a[o].satoshis \in Nat
    PROVE  \A n \in Nat : \E g \in [Upto(S, n) -> Nat] : Sums(g, a, Upto(S, n))
  <1> DEFINE Built(n) == \E g \in [Upto(S, n) -> Nat] : Sums(g, a, Upto(S, n))
             T == {n \in Nat : ~Built(n)}
  <1>1. \A s \in SUBSET S : IsFiniteSet(s) /\ Cardinality(s) \in Nat
    BY FS_Subset, FS_CardinalityType
  <1>2. ASSUME T # {}
        PROVE  FALSE
    <2>1. PICK n \in T : \A k \in T : n <= k
      BY <1>2, LeastNumber
    <2> HIDE DEF Built
    <2>2. CASE n = 0
      <3>1. \A s \in Upto(S, n) : s = {}
        <4> SUFFICES ASSUME NEW s \in Upto(S, n), s # {} PROVE FALSE
          OBVIOUS
        <4>1. IsFiniteSet(s) /\ Cardinality(s) <= 0
          BY <1>1, <2>2 DEF Upto
        <4>2. /\ Cardinality(s \ {First(s)}) < Cardinality(s)
              /\ Cardinality(s) \in Nat /\ Cardinality(s \ {First(s)}) \in Nat
          BY <4>1, RestSmaller
        <4> QED
          BY <4>1, <4>2
      <3>2. [s \in Upto(S, n) |-> 0] \in [Upto(S, n) -> Nat]
        OBVIOUS
      <3>3. Sums([s \in Upto(S, n) |-> 0], a, Upto(S, n))
        BY <3>1 DEF Sums
      <3> QED
        BY <2>1, <3>2, <3>3 DEF Built
    <2>3. CASE n # 0
      <3>1. n - 1 \in Nat /\ n - 1 \notin T
        BY <2>1, <2>3
      <3>2. PICK f \in [Upto(S, n - 1) -> Nat] : Sums(f, a, Upto(S, n - 1))
        BY <3>1 DEF Built
      <3> DEFINE g == [s \in Upto(S, n) |->
                          IF s = {} THEN 0 ELSE a[First(s)].satoshis + f[s \ {First(s)}]]
      <3>3. ASSUME NEW s \in Upto(S, n), s # {}
            PROVE  First(s) \in S /\ s \ {First(s)} \in Upto(S, n - 1)
        <4>1. /\ First(s) \in s /\ Cardinality(s \ {First(s)}) < Cardinality(s)
              /\ Cardinality(s) \in Nat /\ Cardinality(s \ {First(s)}) \in Nat
          BY <1>1, <3>3, RestSmaller DEF Upto
        <4> QED
          BY <2>1, <4>1 DEF Upto
      <3>4. g \in [Upto(S, n) -> Nat]
        BY <3>2, <3>3
      <3>5. \A s \in Upto(S, n - 1) : s \in Upto(S, n) /\ g[s] = f[s]
        <4>1. \A s \in Upto(S, n - 1) : s \in Upto(S, n)
          BY <1>1, <2>1 DEF Upto
        <4> QED
          BY <3>2, <4>1 DEF Sums
      <3>6. Sums(g, a, Upto(S, n))
        BY <3>3, <3>5 DEF Sums
      <3> QED
        BY <2>1, <3>4, <3>6 DEF Built
    <2> QED
      BY <2>2, <2>3
  <1> QED
    BY <1>2

\* There is such a function, so the one that is chosen is one.
LEMMA SumUnfolds ==
    ASSUME NEW S, IsFiniteSet(S), NEW a, \A o \in S : a[o].satoshis \in Nat
    PROVE  \E g : Sums(g, a, SUBSET S) /\ SumOf(a, S) = g[S]
  <1> DEFINE Fits(g) == g = [s \in SUBSET S |->
                 IF s = {} THEN 0 ELSE a[First(s)].satoshis + g[s \ {First(s)}]]
  <1>1. PICK n \in Nat : Upto(S, n) = SUBSET S
    BY FS_Subset, FS_CardinalityType DEF Upto
  <1>2. PICK g \in [SUBSET S -> Nat] : Sums(g, a, SUBSET S)
    <2>1. \E g \in [Upto(S, n) -> Nat] : Sums(g, a, Upto(S, n))
      BY SumsUpto
    <2> QED
      BY <1>1, <2>1
  <1>3. Fits(g)
    BY <1>2 DEF Sums
  <1>4. Fits(CHOOSE h : Fits(h))
    BY <1>3
  <1>5. PICK f : f = CHOOSE h : Fits(h)
    OBVIOUS
  <1>6. SumOf(a, S) = f[S]
    BY <1>5 DEF SumOf
  <1>7. Fits(f)
    BY <1>4, <1>5
  <1>8. Sums(f, a, SUBSET S)
    BY <1>7 DEF Sums
  <1> QED
    BY <1>6, <1>8

LEMMA SumsNatural ==
    ASSUME NEW S, IsFiniteSet(S), NEW a, \A o \in S : a[o].satoshis \in Nat,
           NEW g, Sums(g, a, SUBSET S)
    PROVE  g[S] \in Nat
  <1> DEFINE T == {n \in Nat : \E s \in SUBSET S : Cardinality(s) = n /\ g[s] \notin Nat}
  <1>1. \A s \in SUBSET S : IsFiniteSet(s) /\ Cardinality(s) \in Nat
    BY FS_Subset, FS_CardinalityType
  <1>2. ASSUME T # {}
        PROVE  FALSE
    <2>1. PICK n \in T : \A k \in T : n <= k
      BY <1>2, LeastNumber
    <2>2. PICK s \in SUBSET S : Cardinality(s) = n /\ g[s] \notin Nat
      BY <2>1
    <2>3. s # {}
      BY <2>2 DEF Sums
    <2>4. /\ First(s) \in s /\ Cardinality(s \ {First(s)}) < Cardinality(s)
          /\ Cardinality(s) \in Nat /\ Cardinality(s \ {First(s)}) \in Nat
      BY <1>1, <2>3, RestSmaller
    <2>5. s \ {First(s)} \in SUBSET S /\ g[s \ {First(s)}] \in Nat
      BY <2>1, <2>2, <2>4
    <2>6. g[s] = a[First(s)].satoshis + g[s \ {First(s)}]
      BY <2>3 DEF Sums
    <2> QED
      BY <2>2, <2>4, <2>5, <2>6
  <1>3. g[S] \in Nat
    BY <1>1, <1>2
  <1> QED
    BY <1>3

LEMMA SumsEqual ==
    ASSUME NEW S, IsFiniteSet(S), NEW a, NEW b,
           \A o \in S : a[o].satoshis = b[o].satoshis,
           NEW f, Sums(f, a, SUBSET S), NEW g, Sums(g, b, SUBSET S)
    PROVE  f[S] = g[S]
  <1> DEFINE T == {n \in Nat : \E s \in SUBSET S : Cardinality(s) = n /\ f[s] # g[s]}
  <1>1. \A s \in SUBSET S : IsFiniteSet(s) /\ Cardinality(s) \in Nat
    BY FS_Subset, FS_CardinalityType
  <1>2. ASSUME T # {}
        PROVE  FALSE
    <2>1. PICK n \in T : \A k \in T : n <= k
      BY <1>2, LeastNumber
    <2>2. PICK s \in SUBSET S : Cardinality(s) = n /\ f[s] # g[s]
      BY <2>1
    <2>3. s # {}
      BY <2>2 DEF Sums
    <2>4. /\ First(s) \in s /\ Cardinality(s \ {First(s)}) < Cardinality(s)
          /\ Cardinality(s) \in Nat /\ Cardinality(s \ {First(s)}) \in Nat
      BY <1>1, <2>3, RestSmaller
    <2>5. f[s \ {First(s)}] = g[s \ {First(s)}]
      BY <2>1, <2>2, <2>4
    <2>6. /\ f[s] = a[First(s)].satoshis + f[s \ {First(s)}]
          /\ g[s] = b[First(s)].satoshis + g[s \ {First(s)}]
      BY <2>3 DEF Sums
    <2> QED
      BY <2>2, <2>4, <2>5, <2>6
  <1> QED
    BY <1>1, <1>2

LEMMA SatoshisNatural ==
    ASSUME NEW S \in SUBSET Outputs, \A o \in Outputs : chain[o].satoshis \in Nat
    PROVE  Satoshis(S) \in Nat
  <1>1. IsFiniteSet(S)
    BY PoolAssumption, FS_Subset
  <1>2. PICK g : Sums(g, chain, SUBSET S) /\ SumOf(chain, S) = g[S]
    BY <1>1, SumUnfolds
  <1> QED
    BY <1>1, <1>2, SumsNatural, SatoshisSum

LEMMA SatoshisKept ==
    ASSUME NEW S \in SUBSET Outputs,
           \A o \in S : chain[o].satoshis \in Nat /\ chain'[o].satoshis = chain[o].satoshis
    PROVE  Satoshis(S)' = Satoshis(S)
  <1>1. IsFiniteSet(S)
    BY PoolAssumption, FS_Subset
  <1>2. PICK f : Sums(f, chain, SUBSET S) /\ SumOf(chain, S) = f[S]
    BY <1>1, SumUnfolds
  <1>3. PICK g : Sums(g, chain', SUBSET S) /\ SumOf(chain', S) = g[S]
    BY <1>1, SumUnfolds
  <1>4. f[S] = g[S]
    BY <1>1, <1>2, <1>3, SumsEqual
  <1>5. Satoshis(S)' = SumOf(chain', S)
    BY Zenon DEF Satoshis, MapThenSumSet, MapThenFoldSet, SumOf, First
  <1> QED
    BY <1>2, <1>3, <1>4, <1>5, SatoshisSum

-----------------------------------------------------------------------------
(* Amounts *)

\* What a sweep is about to consolidate pays its fee.
Amounts ==
    /\ \A o \in Outputs : chain[o].satoshis \in Nat
    /\ \A m \in Managers : \A S \in SUBSET Outputs :
          managers[m].step = "consolidate" /\ managers[m].seen = S => Satoshis(S) > Fee

\* Amounts stay amounts, and those of outputs there are stay what they are.
AmountsKept ==
    \A o \in Outputs :
        /\ chain'[o].satoshis \in Nat
        /\ chain[o].state # "unused" => chain'[o].satoshis = chain[o].satoshis

LEMMA PayAmounts ==
    ASSUME PoolInv, Amounts, NEW inputs \in SUBSET Unspent, NEW amounts,
           DOMAIN amounts \subseteq Unused, \A o \in DOMAIN amounts : amounts[o] \in Nat,
           Pay(inputs, amounts)
    PROVE  AmountsKept
  <1>1. PICK S : chain \in [Outputs -> [satoshis : S, state : States]]
    BY DEF PoolInv, Shapes, ChainTyped
  <1>2. inputs \cap DOMAIN amounts = {}
    BY DEF Unspent, Unused
  <1>3. ASSUME NEW o \in Outputs
        PROVE  /\ chain'[o].satoshis \in Nat
               /\ chain[o].state # "unused" => chain'[o].satoshis = chain[o].satoshis
    <2> DEFINE old == chain[o]
               spent == [old EXCEPT !.state = "spent"]
    <2>1. old \in [satoshis : S, state : States] /\ old.satoshis \in Nat
      BY <1>1 DEF Amounts
    <2>2. CASE o \in inputs
      <3>1. chain'[o] = spent
        BY <1>2, <2>2 DEF Pay
      <3> HIDE DEF old
      <3>2. spent.satoshis = old.satoshis
        BY <2>1
      <3> QED
        BY <2>1, <3>1, <3>2 DEF old
    <2>3. CASE o \in DOMAIN amounts
      <3>1. chain'[o] = [satoshis |-> amounts[o], state |-> "fresh"]
        BY <1>2, <2>3 DEF Pay
      <3> QED
        BY <2>3, <3>1 DEF Unused
    <2>4. CASE o \notin inputs /\ o \notin DOMAIN amounts
      <3>1. chain'[o] = old
        BY <2>4 DEF Pay
      <3> QED
        BY <2>1, <3>1
    <2> QED
      BY <2>2, <2>3, <2>4
  <1> QED
    BY <1>3 DEF AmountsKept

LEMMA SplitAmounts ==
    ASSUME PoolInv, Amounts, NEW o \in Outputs, NEW deficit \in 0..MaxSplit
    PROVE  \A p \in DOMAIN SplitOutputs(o, deficit) : SplitOutputs(o, deficit)[p] \in Nat
  <1> DEFINE change == chain[o].satoshis - SplitSize * deficit - Fee
             paysChange == ChangeReturns /\ change >= MinChange
             places == Places(deficit + (IF paysChange THEN 1 ELSE 0))
  <1>1. SplitSize * deficit \in Nat /\ SplitSize \in Nat
    BY PoolAssumption
  <1>2. change \in Int /\ (change >= MinChange => change \in Nat)
    BY <1>1, PoolAssumption DEF Amounts
  <1>3. SplitOutputs(o, deficit) =
            [p \in places |-> IF paysChange /\ p = Max(places) THEN change ELSE SplitSize]
    BY Zenon DEF SplitOutputs
  <1> HIDE DEF change, places
  <1> QED
    BY <1>1, <1>2, <1>3

LEMMA ChainAmounts ==
    ASSUME PoolInv, Amounts, [Next]_vars
    PROVE  AmountsKept
  <1>1. CASE UNCHANGED chain
    BY <1>1 DEF Amounts, AmountsKept
  <1>2. CASE Deposit
    <2>1. PICK sats \in Deposits : Pay({}, [o \in Places(1) |-> sats])
      BY <1>2 DEF Deposit
    <2>2. PICK paid : paid = [o \in Places(1) |-> sats]
      OBVIOUS
    <2>3. DOMAIN paid \subseteq Unused /\ \A o \in DOMAIN paid : paid[o] \in Nat
      BY <2>2, PlacesUnused, PoolAssumption
    <2> QED
      BY <2>1, <2>2, <2>3, PayAmounts
  <1>3. CASE Mine
    <2>1. PICK S : chain \in [Outputs -> [satoshis : S, state : States]]
      BY DEF PoolInv, Shapes, ChainTyped
    <2>2. ASSUME NEW o \in Outputs
          PROVE  chain'[o].satoshis = chain[o].satoshis
      <3> DEFINE old == chain[o]
                 new == [old EXCEPT !.state = "deep"]
      <3>1. chain'[o] = IF old.state = "fresh" THEN new ELSE old
        BY <1>3 DEF Mine
      <3>2. old \in [satoshis : S, state : States]
        BY <2>1
      <3> HIDE DEF old
      <3>3. new.satoshis = old.satoshis
        BY <3>2
      <3> QED
        BY <3>1, <3>3 DEF old
    <2> QED
      BY <2>2 DEF Amounts, AmountsKept
  <1>4. ASSUME NEW m \in Managers, SweepBroadcast(m), ~UNCHANGED chain
        PROVE  AmountsKept
    <2>1. /\ managers[m].step = "consolidate" /\ managers[m].seen \subseteq Unspent
          /\ Pay(managers[m].seen, [o \in Places(1) |-> Satoshis(managers[m].seen) - Fee])
      BY <1>4 DEF SweepBroadcast
    <2>2. PICK S : S = managers[m].seen
      OBVIOUS
    <2>3. S \in SUBSET Unspent /\ S \in SUBSET Outputs
      BY <2>1, <2>2 DEF Unspent
    <2>4. Satoshis(S) \in Nat /\ Satoshis(S) > Fee
      BY <2>1, <2>2, <2>3, SatoshisNatural DEF Amounts
    <2>5. Satoshis(S) - Fee \in Nat
      BY <2>4, PoolAssumption
    <2>6. PICK paid : paid = [o \in Places(1) |-> Satoshis(S) - Fee]
      OBVIOUS
    <2>7. DOMAIN paid \subseteq Unused /\ \A o \in DOMAIN paid : paid[o] \in Nat
      BY <2>5, <2>6, PlacesUnused
    <2> QED
      BY <2>1, <2>2, <2>3, <2>6, <2>7, PayAmounts
  <1>5. ASSUME NEW m \in Managers, SplitBroadcast(m), ~UNCHANGED chain
        PROVE  AmountsKept
    <2>1. PICK o \in managers[m].found \cap Unspent :
              Pay({o}, SplitOutputs(o, managers[m].deficit))
      BY <1>5 DEF SplitBroadcast
    <2>2. o \in Outputs /\ managers[m].deficit \in 0..MaxSplit
      BY DEF Unspent, PoolInv, Shapes, Manager
    <2>3. PICK paid : paid = SplitOutputs(o, managers[m].deficit)
      OBVIOUS
    <2>4. \A p \in DOMAIN paid : paid[p] \in Nat
      BY <2>2, <2>3, SplitAmounts
    <2>5. DOMAIN paid \subseteq Unused
      BY <2>3, PlacesUnused DEF SplitOutputs
    <2> QED
      BY <2>1, <2>3, <2>4, <2>5, PayAmounts
  <1>6. ASSUME NEW m \in Managers, ManagerStep(m), ~SweepBroadcast(m), ~SplitBroadcast(m)
        PROVE  UNCHANGED chain
    BY <1>6 DEF ManagerStep, SyncFetch, SyncFind, SyncAdd, SyncSpend, SyncConfirm, SweepFind,
       SweepList, SweepSpend, SplitCount, SplitSelect, SplitSpend, SplitUnlock
  <1>7. ASSUME NEW m \in Managers, Stop(m) \/ \E action \in Actions : Request(m, action)
        PROVE  UNCHANGED chain
    BY <1>7 DEF Stop, Request
  <1>8. CASE Index \/ ScriptStep \/ UNCHANGED vars
    BY <1>1, <1>8 DEF Index, ScriptStep, ScanLocked, Reap, Revert, AddCheck, Add, vars
  <1> QED
    BY <1>1, <1>2, <1>3, <1>4, <1>5, <1>6, <1>7, <1>8 DEF Next

\* Who is about to consolidate was so before, or has just asked for the whole list
\* and found that it pays.
Consolidates(k) ==
    managers'[k].step = "consolidate" =>
        \/ managers[k].step = "consolidate" /\ managers'[k].seen = managers[k].seen
        \/ managers'[k].seen = listed /\ ~(Satoshis(listed) <= Fee) /\ UNCHANGED chain

LEMMA ManagersConsolidate ==
    ASSUME PoolInv, [Next]_vars
    PROVE  \A k \in Managers : Consolidates(k)
  <1>1. managers \in [Managers -> Manager]
    BY DEF PoolInv, Shapes
  <1>2. CASE UNCHANGED managers
    BY <1>2 DEF Consolidates
  <1>3. ASSUME NEW m \in Managers, NEW next \in {"sweep", "split", "idle"}, Done(m, next)
        PROVE  \A k \in Managers : Consolidates(k)
    <2>1. Moved(m) /\ Clean(managers'[m])
      BY <1>3, DoneEffect DEF PoolInv
    <2> QED
      BY <2>1 DEF Moved, Clean, Consolidates
  <1>4. ASSUME NEW m \in Managers, Stop(m) \/ \E action \in Actions : Request(m, action)
        PROVE  \A k \in Managers : Consolidates(k)
    <2>1. CASE Stop(m)
      BY <1>1, <2>1 DEF Stop, Idle, Consolidates
    <2>2. ASSUME NEW action \in Actions, Request(m, action)
          PROVE  \A k \in Managers : Consolidates(k)
      <3> DEFINE step == IF action = "auto" THEN "sync" ELSE action
                 new == [Idle EXCEPT !.action = action, !.step = step]
      <3>1. managers' = [managers EXCEPT ![m] = new]
        BY <2>2 DEF Request
      <3>2. step \in {"idle", "sync", "sweep", "split"}
        BY PoolAssumption
      <3>3. Clean(new)
        BY <3>2, FreshRequest
      <3> HIDE DEF new
      <3>4. \A k \in Managers : managers'[k] = IF k = m THEN new ELSE managers[k]
        BY <1>1, <3>1
      <3> QED
        BY <3>3, <3>4 DEF Clean, Consolidates
    <2> QED
      BY <1>4, <2>1, <2>2
  <1>5. ASSUME NEW m \in Managers, SyncFetch(m) \/ SyncFind(m) \/ SyncSpend(m)
        PROVE  \A k \in Managers : Consolidates(k)
    <2>1. ASSUME NEW deep,
                 managers' = [managers EXCEPT ![m].step = "find", ![m].seen = listed,
                                              ![m].deep = deep]
          PROVE  \A k \in Managers : Consolidates(k)
      BY <1>1, <2>1 DEF Manager, Consolidates
    <2>2. CASE managers' = [managers EXCEPT ![m].step = "find", ![m].missed = Rows]
      BY <1>1, <2>2 DEF Manager, Consolidates
    <2>3. CASE SyncFind(m)
      <3> DEFINE old == managers[m]
                 new == [old EXCEPT
                   !.step = "add", !.seen = {}, !.deep = old.deep \ LocalUtxos,
                   !.found = old.seen \ LocalUtxos,
                   !.spend = InStatus("available") \ old.seen,
                   !.confirm = InStatus("unconfirmed") \cap old.seen]
      <3>1. managers' = [managers EXCEPT ![m] = new]
        BY Zenon, <2>3 DEF SyncFind
      <3>2. old \in Manager
        BY <1>1
      <3> HIDE DEF old
      <3>3. new.step = "add"
        BY <3>2 DEF Manager
      <3> HIDE DEF new
      <3>4. \A k \in Managers : managers'[k] = IF k = m THEN new ELSE managers[k]
        BY <1>1, <3>1
      <3> QED
        BY <3>3, <3>4 DEF Consolidates
    <2>4. CASE SyncSpend(m)
      BY <1>1, <2>4 DEF SyncSpend, Manager, Consolidates
    <2> QED
      BY <1>5, <2>1, <2>2, <2>3, <2>4 DEF SyncFetch
  <1>6. ASSUME NEW m \in Managers, SyncAdd(m)
        PROVE  \A k \in Managers : Consolidates(k)
    <2>1. PICK o \in managers[m].found :
              managers' = [Late({o} \cap InStatus("absent")) EXCEPT
                  ![m].found = @ \ {o}, ![m].deep = @ \ {o}]
      BY <1>6 DEF SyncAdd
    <2>2. PICK f : f = Late({o} \cap InStatus("absent"))
      OBVIOUS
    <2>3. /\ f \in [Managers -> Manager]
          /\ \A k \in Managers : f[k].step = managers[k].step /\ f[k].seen = managers[k].seen
      <3>1. {o} \cap InStatus("absent") \in SUBSET Outputs
        BY DEF InStatus
      <3> QED
        BY <2>2, <3>1, LateEffect DEF PoolInv
    <2>4. managers' = [f EXCEPT ![m].found = @ \ {o}, ![m].deep = @ \ {o}]
      BY <2>1, <2>2
    <2>5. \A k \in Managers : managers'[k].step = f[k].step /\ managers'[k].seen = f[k].seen
      BY <2>3, <2>4 DEF Manager
    <2> QED
      BY <2>3, <2>5 DEF Consolidates
  <1>7. ASSUME NEW m \in Managers, SweepFind(m) \/ SweepList(m) \/ SweepBroadcast(m)
        PROVE  \A k \in Managers : Consolidates(k)
    <2>1. CASE Done(m, "split")
      BY <1>3, <2>1
    <2>2. ASSUME NEW found,
                 managers' = [managers EXCEPT ![m].step = "list", ![m].found = found]
          PROVE  \A k \in Managers : Consolidates(k)
      BY <1>1, <2>2 DEF Manager, Consolidates
    <2>3. CASE managers' = [managers EXCEPT ![m].step = "swept"]
      BY <1>1, <2>3 DEF Manager, Consolidates
    <2>4. CASE managers' = [managers EXCEPT ![m].step = "swept", ![m].seen = {}]
      BY <1>1, <2>4 DEF Manager, Consolidates
    <2>5. CASE /\ ~(Satoshis(listed) <= Fee) /\ UNCHANGED chain
               /\ managers' = [managers EXCEPT ![m].step = "consolidate", ![m].seen = listed]
      BY <1>1, <2>5 DEF Manager, Consolidates
    <2>6. CASE managers' = [managers EXCEPT ![m].step = "swept", ![m].missed = managers[m].found]
      BY <1>1, <2>6 DEF Manager, Consolidates
    <2> QED
      BY <1>7, <2>1, <2>2, <2>3, <2>4, <2>5, <2>6 DEF SweepFind, SweepList, SweepBroadcast
  <1>8. ASSUME NEW m \in Managers,
               SplitCount(m) \/ SplitSelect(m) \/ SplitBroadcast(m) \/ SplitSpend(m)
        PROVE  \A k \in Managers : Consolidates(k)
    <2>1. CASE Done(m, "idle")
      BY <1>3, <2>1
    <2>2. ASSUME NEW deficit, NEW step \in {"select", "sent", "failed"},
                 managers' = [managers EXCEPT ![m].step = step, ![m].deficit = deficit]
          PROVE  \A k \in Managers : Consolidates(k)
      BY <1>1, <2>2 DEF Manager, Consolidates
    <2>3. ASSUME NEW found,
                 managers' = [managers EXCEPT ![m].step = "send", ![m].found = found]
          PROVE  \A k \in Managers : Consolidates(k)
      BY <1>1, <2>3 DEF Manager, Consolidates
    <2>4. CASE managers' = [managers EXCEPT ![m].step = "failed"]
      BY <1>1, <2>4 DEF Manager, Consolidates
    <2> QED
      BY <1>8, <2>1, <2>2, <2>3, <2>4 DEF SplitCount, SplitSelect, SplitBroadcast, SplitSpend
  <1>9. ASSUME NEW m \in Managers, SyncConfirm(m) \/ SweepSpend(m) \/ SplitUnlock(m)
        PROVE  \A k \in Managers : Consolidates(k)
    BY <1>3, <1>9 DEF SyncConfirm, SweepSpend, SplitUnlock
  <1>10. CASE Add
    <2>1. scans["add"] \cap InStatus("absent") \in SUBSET Outputs
      BY DEF InStatus
    <2> QED
      BY <1>10, <2>1, LateEffect DEF Add, Consolidates, PoolInv
  <1>11. CASE Deposit \/ Mine \/ Index \/ (\E s \in Scripts : ScanLocked(s))
              \/ Reap \/ Revert \/ AddCheck \/ UNCHANGED vars
    BY <1>2, <1>11 DEF Deposit, Mine, Index, ScanLocked, Reap, Revert, AddCheck, vars
  <1> QED
    BY <1>4, <1>5, <1>6, <1>7, <1>8, <1>9, <1>10, <1>11 DEF Next, ManagerStep, ScriptStep

LEMMA AmountsStep ==
    ASSUME PoolInv, Amounts, [Next]_vars
    PROVE  Amounts'
  <1>1. AmountsKept
    BY ChainAmounts
  <1>2. \A o \in Outputs : chain'[o].satoshis \in Nat
    BY <1>1 DEF AmountsKept
  <1>3. ASSUME NEW m \in Managers, NEW S \in SUBSET Outputs,
               managers'[m].step = "consolidate", managers'[m].seen = S
        PROVE  Satoshis(S)' > Fee
    <2>1. Satoshis(S) > Fee /\ S \subseteq Known
      <3>1. Consolidates(m)
        BY ManagersConsolidate
      <3>2. CASE managers[m].step = "consolidate" /\ managers[m].seen = S
        BY <3>2 DEF Amounts, PoolInv, ManagersFit, Fit
      <3>3. CASE S = listed /\ ~(Satoshis(listed) <= Fee)
        <4>1. Satoshis(S) \in Nat
          BY SatoshisNatural DEF Amounts
        <4> QED
          BY <3>3, <4>1, PoolAssumption DEF Known
      <3> QED
        BY <1>3, <3>1, <3>2, <3>3 DEF Consolidates
    <2>2. \A o \in S : chain[o].state # "unused"
      BY <2>1 DEF Known, SpentOutputs, PoolInv, ListedExist
    <2>3. Satoshis(S)' = Satoshis(S)
      BY <1>1, <2>2, SatoshisKept DEF Amounts, AmountsKept
    <2> QED
      BY <2>1, <2>3
  <1> QED
    BY <1>2, <1>3 DEF Amounts

\* The stores and the managers keep their types; no transaction pays a negative
\* amount, for what a sweep is about to consolidate is worth its fee.
THEOREM PoolTypeCorrect == Spec => []TypeOK
  <1>1. Init => Amounts
    <2> SUFFICES ASSUME Init PROVE Amounts
      OBVIOUS
    <2> QED
      BY DEF Init, Amounts, Idle
  <1>2. PoolInv /\ Amounts /\ [Next]_vars => Amounts'
    BY AmountsStep
  <1>3. PoolInv /\ Amounts => TypeOK
    <2> SUFFICES ASSUME PoolInv, Amounts PROVE TypeOK
      OBVIOUS
    <2>1. chain \in [Outputs -> [satoshis : Nat, state : States]]
      BY DEF PoolInv, Shapes, ChainTyped, Amounts
    <2> QED
      BY <2>1 DEF TypeOK, PoolInv, Shapes, Manager, States, Statuses
  <1> QED
    BY <1>1, <1>2, <1>3, PoolInvariant, PTL DEF Spec
=============================================================================
