------------------------------- MODULE UtxoPool -------------------------------
(***************************************************************************)
(* The pool of funding outputs (models/Utxo.js) against the chain: sync,   *)
(* sweep and split of services/utxoManagerService.js, as the admin         *)
(* endpoint and scripts/utxo-manager.js run them, and the scripts that     *)
(* write to the pool beside them.                                          *)
(*                                                                         *)
(* The chain, its index at WhatsOnChain and the collection Utxo are three  *)
(* stores: the index lags behind the chain, replies get lost, and managers *)
(* stop between two awaits.  Nothing excludes one manager from running     *)
(* beside another: the endpoint's lock is in its process, the script's is  *)
(* another one.                                                            *)
(***************************************************************************)
EXTENDS Naturals, FiniteSetsExt

CONSTANTS
    Outputs,            \* places for outputs of the funding address
    Deposits,           \* amounts that others pay to it
    Managers,           \* processes that run maintenance, one request at a time
    Actions,            \* `action' of their requests
    Scripts,            \* those that run: "reap" (reapLocks), "revert"
                        \* (revert-stale-locks), "add" (addUtxo)
    MinCount,           \* MIN_UTXO_COUNT
    SplitSize,          \* UTXO_SPLIT_SIZE_SATS
    MaxSplit,           \* MAX_SPLIT_OUTPUTS
    DustThreshold,      \* DUST_THRESHOLD_SATS
    DustLimit,          \* DUST_SWEEP_LIMIT
    Fee,                \* of every transaction, and the buffer for it
    MinChange,          \* smaller change is left to the miner
    ChangeReturns,      \* CHANGE_ADDRESS is the funding address
    MaxFaults           \* bound of the model: managers that die, whose request ends
                        \* with an error of WhatsOnChain, KMS or database, or that
                        \* WhatsOnChain answers with something else than a list

ASSUME PoolAssumption ==
    /\ Outputs \subseteq Nat /\ IsFiniteSet(Outputs)
    /\ Deposits \subseteq Nat
    /\ Actions \subseteq {"sync", "sweep", "split", "auto"}
    /\ Scripts \subseteq {"reap", "revert", "add"}
    /\ {MinCount, SplitSize, MaxSplit, DustThreshold, DustLimit, Fee, MinChange,
        MaxFaults} \subseteq Nat
    /\ ChangeReturns \in BOOLEAN

VARIABLES
    chain,      \* the outputs: amount and what became of them; a "deep" one has
                \* UTXO_MIN_CONFIRMATIONS confirmations (1 or more), a "fresh" one fewer
    listed,     \* those the index lists as unspent
    utxos,      \* status by output: the collection Utxo
    managers,   \* what each manager holds between two awaits, and, a history, the
                \* rows that the answer it works with misses
    scans,      \* what each script has found and not written yet
    faults

vars == <<chain, listed, utxos, managers, scans, faults>>

Idle == [action |-> "none", step |-> "idle", seen |-> {}, deep |-> {}, found |-> {},
         spend |-> {}, confirm |-> {}, deficit |-> 0, missed |-> {}]

Steps == {"idle", "sync", "find", "add", "confirm",
          "sweep", "list", "consolidate", "swept", "split", "select", "send", "sent", "failed"}

TypeOK ==
    /\ chain \in [Outputs -> [satoshis : Nat, state : {"unused", "fresh", "deep", "spent"}]]
    /\ listed \subseteq Outputs
    /\ utxos \in [Outputs -> {"absent", "unconfirmed", "available", "locked", "spent"}]
    /\ managers \in [Managers ->
          [action : Actions \cup {"none"}, step : Steps, seen : SUBSET Outputs,
           deep : SUBSET Outputs, found : SUBSET Outputs, spend : SUBSET Outputs,
           confirm : SUBSET Outputs, deficit : 0..MaxSplit, missed : SUBSET Outputs]]
    /\ scans \in [Scripts -> SUBSET Outputs]
    /\ faults \in 0..MaxFaults

Init ==
    /\ chain = [o \in Outputs |-> [satoshis |-> 0, state |-> "unused"]]
    /\ listed = {}
    /\ utxos = [o \in Outputs |-> "absent"]
    /\ managers = [m \in Managers |-> Idle]
    /\ scans = [s \in Scripts |-> {}]
    /\ faults = 0

Unspent == {o \in Outputs : chain[o].state \in {"fresh", "deep"}}
Unused == {o \in Outputs : chain[o].state = "unused"}
InStatus(status) == {o \in Outputs : utxos[o] = status}
Satoshis(S) == MapThenSumSet(LAMBDA o : chain[o].satoshis, S)

\* updateMany and updateOne by _id.
Set(S, status) == utxos' = [o \in Outputs |-> IF o \in S THEN status ELSE utxos[o]]

Rows == {o \in Outputs : utxos[o] # "absent"}

\* A new row is late for a sync that has asked the index and not read the pool.
Late(S) == [m \in Managers |-> IF managers[m].step = "find"
                               THEN [managers[m] EXCEPT !.missed = @ \cup S] ELSE managers[m]]

-----------------------------------------------------------------------------
(* The chain and its index *)

\* The first n unused places.
Places(n) == {o \in Unused : Cardinality({p \in Unused : p < o}) < n}

Pay(inputs, amounts) ==
    chain' = [o \in Outputs |->
        CASE o \in inputs -> [chain[o] EXCEPT !.state = "spent"]
          [] o \in DOMAIN amounts -> [satoshis |-> amounts[o], state |-> "fresh"]
          [] OTHER -> chain[o]]

Deposit ==
    /\ Unused # {}
    /\ \E sats \in Deposits : Pay({}, [o \in Places(1) |-> sats])
    /\ UNCHANGED <<listed, utxos, managers, scans, faults>>

Mine ==
    /\ \E o \in Outputs : chain[o].state = "fresh"
    /\ chain' = [o \in Outputs |-> IF chain[o].state = "fresh"
                                  THEN [chain[o] EXCEPT !.state = "deep"] ELSE chain[o]]
    /\ UNCHANGED <<listed, utxos, managers, scans, faults>>

Index ==
    /\ listed # Unspent
    /\ listed' = Unspent
    /\ UNCHANGED <<chain, utxos, managers, scans, faults>>

-----------------------------------------------------------------------------
(* Requests *)

\* The request has finished a phase; 'auto' has three.
Done(m, next) ==
    managers' = [managers EXCEPT ![m] =
        IF managers[m].action = "auto" /\ next # "idle"
        THEN [Idle EXCEPT !.action = "auto", !.step = next] ELSE Idle]

\* triggerMaintenance: _acquireLock admits one request per process.
Request(m, action) ==
    /\ managers[m].step = "idle"
    /\ managers' = [managers EXCEPT ![m] = [Idle EXCEPT !.action = action,
                       !.step = IF action = "auto" THEN "sync" ELSE action]]
    /\ UNCHANGED <<chain, listed, utxos, scans, faults>>

\* The process dies, or an await outside the try block of splitIfNeeded throws.
Stop(m) ==
    /\ managers[m].step # "idle"
    /\ faults < MaxFaults
    /\ faults' = faults + 1
    /\ managers' = [managers EXCEPT ![m] = Idle]
    /\ UNCHANGED <<chain, listed, utxos, scans>>

-----------------------------------------------------------------------------
(* syncUtxos *)

\* getUnspentOutputs and getChainInfo: confirmations may be counted too low.  An answer
\* that is not a list counts as an empty one.
SyncFetch(m) ==
    /\ managers[m].step = "sync"
    /\ \/ /\ \E deep \in SUBSET {o \in listed : chain[o].state # "fresh"} :
                managers' = [managers EXCEPT ![m].step = "find", ![m].seen = listed,
                                            ![m].deep = deep]
          /\ UNCHANGED faults
       \/ /\ faults < MaxFaults
          /\ faults' = faults + 1
          /\ managers' = [managers EXCEPT ![m].step = "find", ![m].missed = Rows]
    /\ UNCHANGED <<chain, listed, utxos, scans>>

\* Mutant of LocalUtxos: no condition on the status.
AllRows == Rows

LocalUtxos == InStatus("available") \cup InStatus("unconfirmed")

\* The rows are read, and everything after is decided: toAdd (found), toMarkSpent
\* and toMarkConfirmed.
SyncFind(m) ==
    /\ managers[m].step = "find"
    /\ LET sync == managers[m]
       IN  managers' = [managers EXCEPT ![m] = [sync EXCEPT
               !.step = "add", !.seen = {}, !.deep = sync.deep \ LocalUtxos,
               !.found = sync.seen \ LocalUtxos,
               !.spend = InStatus("available") \ sync.seen,
               !.confirm = InStatus("unconfirmed") \cap sync.seen]]
    /\ UNCHANGED <<chain, listed, utxos, scans, faults>>

\* addUtxo with a status: an upsert, whatever became of the row.
SyncAdd(m) ==
    /\ managers[m].step = "add"
    /\ \E o \in managers[m].found :
          /\ Set({o}, IF o \in managers[m].deep THEN "available" ELSE "unconfirmed")
          /\ managers' = [Late({o} \cap InStatus("absent")) EXCEPT
                 ![m].found = @ \ {o}, ![m].deep = @ \ {o}]
    /\ UNCHANGED <<chain, listed, scans, faults>>

SyncSpend(m) ==
    /\ managers[m].step = "add"
    /\ managers[m].found = {}
    /\ Set(managers[m].spend, "spent")
    /\ managers' = [managers EXCEPT ![m].step = "confirm", ![m].spend = {}, ![m].missed = {}]
    /\ UNCHANGED <<chain, listed, scans, faults>>

SyncConfirm(m) ==
    /\ managers[m].step = "confirm"
    /\ Set(managers[m].confirm, "available")
    /\ Done(m, "sweep")
    /\ UNCHANGED <<chain, listed, scans, faults>>

-----------------------------------------------------------------------------
(* sweepDust *)

SweepFind(m) ==
    /\ managers[m].step = "sweep"
    /\ LET dust == {o \in InStatus("available") : chain[o].satoshis < DustThreshold}
       IN  IF Cardinality(dust) < DustLimit
           THEN Done(m, "split")
           ELSE managers' = [managers EXCEPT ![m].step = "list", ![m].found = dust]
    /\ UNCHANGED <<chain, listed, utxos, scans, faults>>

\* sweepAddress asks the index what to sweep, not the pool.  Nothing to sweep is
\* a success, and so is an answer that is not a list.
SweepList(m) ==
    /\ managers[m].step = "list"
    /\ \/ /\ CASE listed = {} -> managers' = [managers EXCEPT ![m].step = "swept"]
               [] listed # {} /\ Satoshis(listed) <= Fee -> Done(m, "split")
               [] OTHER -> managers' = [managers EXCEPT ![m].step = "consolidate",
                                                       ![m].seen = listed]
          /\ UNCHANGED faults
       \/ /\ faults < MaxFaults
          /\ faults' = faults + 1
          /\ managers' = [managers EXCEPT ![m].step = "swept", ![m].missed = managers[m].found]
    /\ UNCHANGED <<chain, listed, utxos, scans>>

\* Mutant of SweepBroadcast: a failure is taken for a success.
SweepBroadcastOrNot(m) ==
    /\ managers[m].step = "consolidate"
    /\ managers' = [managers EXCEPT ![m].step = "swept", ![m].seen = {}]
    /\ UNCHANGED <<chain, listed, utxos, scans, faults>>

\* broadcastRawTx: refused or not sent, accepted, or accepted without an answer.
SweepBroadcast(m) ==
    /\ managers[m].step = "consolidate"
    /\ \/ /\ Done(m, "split")
          /\ UNCHANGED chain
       \/ /\ managers[m].seen \subseteq Unspent
          /\ Unused # {}
          /\ Pay(managers[m].seen, [o \in Places(1) |-> Satoshis(managers[m].seen) - Fee])
          /\ \/ Done(m, "split")
             \/ managers' = [managers EXCEPT ![m].step = "swept", ![m].seen = {}]
    /\ UNCHANGED <<listed, utxos, scans, faults>>

SweepSpend(m) ==
    /\ managers[m].step = "swept"
    /\ Set(managers[m].found, "spent")
    /\ Done(m, "split")
    /\ UNCHANGED <<chain, listed, scans, faults>>

-----------------------------------------------------------------------------
(* splitIfNeeded *)

\* Mutant of SplitCount: MAX_SPLIT_OUTPUTS is ignored.
SplitCountAll(m) ==
    /\ managers[m].step = "split"
    /\ LET count == Cardinality(InStatus("available"))
       IN  IF count >= MinCount
           THEN Done(m, "idle")
           ELSE managers' = [managers EXCEPT ![m].step = "select", ![m].deficit = MinCount - count]
    /\ UNCHANGED <<chain, listed, utxos, scans, faults>>

SplitCount(m) ==
    /\ managers[m].step = "split"
    /\ LET count == Cardinality(InStatus("available"))
       IN  IF count >= MinCount
           THEN Done(m, "idle")
           ELSE managers' = [managers EXCEPT ![m].step = "select",
                                ![m].deficit = Min({MinCount - count, MaxSplit})]
    /\ UNCHANGED <<chain, listed, utxos, scans, faults>>

\* The smallest output that is large enough is locked, unless another manager has
\* the lease `utxo_split_v2'.  A lease may be lost, so none is relied on here.
SplitSelect(m) ==
    /\ managers[m].step = "select"
    /\ LET large == {o \in InStatus("available") :
                        chain[o].satoshis >= SplitSize * managers[m].deficit + Fee}
       IN  \/ /\ Done(m, "idle")
              /\ UNCHANGED utxos
           \/ \E o \in large :
                 /\ \A p \in large : chain[o].satoshis <= chain[p].satoshis
                 /\ Set({o}, "locked")
                 /\ managers' = [managers EXCEPT ![m].step = "send", ![m].found = {o}]
    /\ UNCHANGED <<chain, listed, scans, faults>>

\* The outputs of a split, and its change.
SplitOutputs(o, deficit) ==
    LET change == chain[o].satoshis - SplitSize * deficit - Fee
        paysChange == ChangeReturns /\ change >= MinChange
        places == Places(deficit + (IF paysChange THEN 1 ELSE 0))
    IN  [p \in places |-> IF paysChange /\ p = Max(places) THEN change ELSE SplitSize]

\* signBatch and broadcast: they throw, whether or not the transaction is
\* accepted, or answer.  A transaction needs places for its outputs, which is a
\* bound of the model.
SplitBroadcast(m) ==
    /\ managers[m].step = "send"
    /\ \/ /\ managers' = [managers EXCEPT ![m].step = "failed", ![m].deficit = 0]
          /\ UNCHANGED chain
       \/ \E o \in managers[m].found \cap Unspent :
             /\ Cardinality(Unused) > managers[m].deficit
             /\ Pay({o}, SplitOutputs(o, managers[m].deficit))
             /\ \E step \in {"sent", "failed"} :
                   managers' = [managers EXCEPT ![m].step = step, ![m].deficit = 0]
    /\ UNCHANGED <<listed, utxos, scans, faults>>

\* spendUtxo, or an error of the database, which the catch block does not tell
\* from a failed broadcast.
SplitSpend(m) ==
    /\ managers[m].step = "sent"
    /\ \/ /\ Set(managers[m].found, "spent")
          /\ Done(m, "idle")
       \/ /\ managers' = [managers EXCEPT ![m].step = "failed"]
          /\ UNCHANGED utxos
    /\ UNCHANGED <<chain, listed, scans, faults>>

\* unlockUtxo, and the error is thrown.
SplitUnlock(m) ==
    /\ managers[m].step = "failed"
    /\ Set(managers[m].found \cap InStatus("locked"), "available")
    /\ Done(m, "idle")
    /\ UNCHANGED <<chain, listed, scans, faults>>

-----------------------------------------------------------------------------
(* Scripts *)

\* unlockOrphanedLocked and revert-stale-locks.js find locked rows that have been
\* locked for long, which is any: a manager may take its time.
ScanLocked(s) ==
    /\ s \in {"reap", "revert"}
    /\ scans[s] = {}
    /\ InStatus("locked") # {}
    /\ scans' = [scans EXCEPT ![s] = InStatus("locked")]
    /\ UNCHANGED <<chain, listed, utxos, managers, faults>>

\* unlockOrphanedLocked updates what it has found by _id.
Reap ==
    /\ "reap" \in Scripts /\ scans["reap"] # {}
    /\ Set(scans["reap"], "available")
    /\ scans' = [scans EXCEPT !["reap"] = {}]
    /\ UNCHANGED <<chain, listed, managers, faults>>

\* revert-stale-locks.js updates it if it is still locked.
Revert ==
    /\ "revert" \in Scripts /\ scans["revert"] # {}
    /\ Set(scans["revert"] \cap InStatus("locked"), "available")
    /\ scans' = [scans EXCEPT !["revert"] = {}]
    /\ UNCHANGED <<chain, listed, managers, faults>>

\* addUtxo.js, without --force and --exclusive, makes sure that the output is
\* listed and not known to be spent, ...
AddCheck ==
    /\ "add" \in Scripts /\ scans["add"] = {}
    /\ \E o \in listed \cap Unspent : scans' = [scans EXCEPT !["add"] = {o}]
    /\ UNCHANGED <<chain, listed, utxos, managers, faults>>

\* ... and adds it without a status: a new row is available, another keeps its own.
Add ==
    /\ "add" \in Scripts /\ scans["add"] # {}
    /\ Set(scans["add"] \cap InStatus("absent"), "available")
    /\ managers' = Late(scans["add"] \cap InStatus("absent"))
    /\ scans' = [scans EXCEPT !["add"] = {}]
    /\ UNCHANGED <<chain, listed, faults>>

-----------------------------------------------------------------------------
ManagerStep(m) ==
    \/ SyncFetch(m) \/ SyncFind(m) \/ SyncAdd(m) \/ SyncSpend(m) \/ SyncConfirm(m)
    \/ SweepFind(m) \/ SweepList(m) \/ SweepBroadcast(m) \/ SweepSpend(m)
    \/ SplitCount(m) \/ SplitSelect(m) \/ SplitBroadcast(m) \/ SplitSpend(m) \/ SplitUnlock(m)

ScriptStep == (\E s \in Scripts : ScanLocked(s)) \/ Reap \/ Revert \/ AddCheck \/ Add

Next ==
    \/ Deposit \/ Mine \/ Index
    \/ \E m \in Managers :
          \/ \E action \in Actions : Request(m, action)
          \/ ManagerStep(m)
          \/ Stop(m)
    \/ ScriptStep

Spec == Init /\ [][Next]_vars

\* The index catches up.  Maintenance and the reaper run again and again (cron),
\* and a request that has begun goes on.
FairSpec ==
    /\ Spec
    /\ WF_vars(Index)
    /\ \A m \in Managers : WF_vars(ManagerStep(m)) /\ SF_vars(Request(m, "auto"))
    /\ WF_vars(\E s \in Scripts : ScanLocked(s)) /\ WF_vars(Reap) /\ WF_vars(Revert)

-----------------------------------------------------------------------------
\* A row is marked spent only if its output is, or if the manager that marks it works
\* with an answer of WhatsOnChain that misses the row: neither a lagging index nor a
\* broadcast whose outcome is unknown, nor another manager or script, makes the pool
\* give up funds that it has.  An answer misses a row that was added between the call
\* and the read of the pool (utxoManagerService.js:107 and :119), and misses all rows
\* if it is not a list (wocClient.js:99); PoolHeals says that this is made good.
SpentIsSpent ==
    [][\A o \in Outputs : utxos[o] # "spent" /\ utxos'[o] = "spent" =>
          \/ chain'[o].state = "spent"
          \/ \E m \in Managers :
                (SyncSpend(m) \/ SweepSpend(m)) /\ o \in managers[m].missed]_vars

\* Whatever got lost or was marked spent by mistake, whoever stopped with an output
\* locked, however late: again and again the pool offers all that is confirmed and
\* nothing that is spent, and nothing is locked (docs/UTXO_MAINTENANCE.md:18,
\* `Consolidates local state with on-chain').  Unconfirmed outputs may be offered or not.
PoolHeals ==
    []<>(/\ {o \in Outputs : chain[o].state = "deep"} \subseteq InStatus("available")
         /\ InStatus("available") \subseteq Unspent
         /\ InStatus("locked") = {})

-----------------------------------------------------------------------------
(* What documents of the repository say, and the code does not do *)

\* docs/UTXO_MAINTENANCE.md:22-23, README.md:599, docs/CONFIGURATION.md:43: an output with
\* fewer than UTXO_MIN_CONFIRMATIONS confirmations is `unconfirmed' and not used.
ConfirmationsAwaited ==
    [][\A o \in Outputs :
          utxos[o] = "unconfirmed" /\ utxos'[o] = "available" => chain[o].state # "fresh"]_vars
=============================================================================
