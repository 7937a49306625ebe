------------------------------- MODULE TaskLock -------------------------------
(***************************************************************************)
(* One lock of services/lockManager.js: a key in Redis with a random token *)
(* and a time to live, kept alive by a heartbeat while a task runs         *)
(* (withLockHeartbeat).  Scripts and API processes use it to run one       *)
(* batch, sweep, reaper or split at a time.  Time passes in ticks of a     *)
(* second; commands to Redis and their replies take time, or get lost.     *)
(***************************************************************************)
EXTENDS Naturals, FiniteSetsExt

CONSTANTS
    Processes,      \* scripts and API processes that use the lock
    TTL,            \* ttlMs
    Prompt,         \* those whose timers fire on time, whose commands and replies
                    \* take no longer than Delay, and who miss no more than
                    \* MissedBeats heartbeats in a row
    Delay,
    MissedBeats,
    Faults,         \* acquiring and releasing may fail as well
    MaxTokens       \* bound of the model: attempts to take the lock

\* Math.max(2000, Math.min(20000, Math.floor(ttlMs / 3)))
Interval == Max({2, Min({20, TTL \div 3})})

\* Leases as long as the timing needs.  Callers use leases of minutes, except
\* that SPLIT_LEASE_MS may be configured to anything.
ASSUME TaskLockAssumption ==
    /\ TTL \in Nat \ {0}
    /\ Delay \in Nat
    /\ MissedBeats \in Nat
    /\ Prompt \subseteq Processes
    /\ Faults \in BOOLEAN
    /\ MaxTokens \in Nat
    /\ Prompt # {} => 2 * Delay + (MissedBeats + 1) * Interval < TTL

VARIABLES
    lock,       \* the key: its token and the ticks it has to live
    procs,      \* where each process is, its token, and the ticks until its next
                \* heartbeat or until its answer is due
    ready,      \* isReady of each process: its connection to Redis
    commands,   \* commands that Redis has not executed yet
    issued      \* number of tokens made so far

vars == <<lock, procs, ready, commands, issued>>

Tokens == 1..MaxTokens
NoToken == 0
NoLock == [token |-> NoToken, ttl |-> 0]
Idle == [step |-> "idle", token |-> NoToken, timer |-> 0, missed |-> 0]

TypeOK ==
    /\ lock \in {NoLock} \cup [token : Tokens, ttl : 1..TTL]
    /\ procs \in [Processes ->
          [step : {"idle", "acquiring", "granted", "refused", "running", "releasing"},
           token : Tokens \cup {NoToken}, timer : 0..Max({Interval, Delay}), missed : 0..MissedBeats]]
    /\ ready \in [Processes -> BOOLEAN]
    /\ commands \subseteq [type : {"set", "extend", "del"}, process : Processes,
                           token : Tokens, age : 0..Delay]
    /\ issued \in 0..MaxTokens

Command(type, p, token) == [type |-> type, process |-> p, token |-> token, age |-> 0]

Init ==
    /\ lock = NoLock
    /\ procs = [p \in Processes |-> Idle]
    /\ ready = [p \in Processes |-> TRUE]
    /\ commands = {}
    /\ issued = 0

-----------------------------------------------------------------------------
(* The process *)

\* acquireLock: set(key, token, {NX, PX}).  Without a connection it returns
\* null at once.
AcquireLock(p) ==
    /\ procs[p].step = "idle"
    /\ ready[p]
    /\ issued < MaxTokens
    /\ issued' = issued + 1
    /\ procs' = [procs EXCEPT ![p] = [Idle EXCEPT !.step = "acquiring", !.token = issued + 1]]
    /\ commands' = commands \cup {Command("set", p, issued + 1)}
    /\ UNCHANGED <<lock, ready>>

\* The reply: `OK' starts the heartbeat and the task, anything else ends the
\* attempt with LOCK_NOT_ACQUIRED.
AcquireReply(p) ==
    /\ \/ /\ procs[p].step = "granted"
          /\ procs' = [procs EXCEPT ![p].step = "running", ![p].timer = Interval]
       \/ /\ procs[p].step = "refused"
          /\ procs' = [procs EXCEPT ![p] = Idle]
    /\ UNCHANGED <<lock, ready, commands, issued>>

\* The command or its reply is lost: acquireLock returns null, whether or not
\* Redis has set the key or is about to.
AcquireFails(p) ==
    /\ Faults
    /\ procs[p].step \in {"acquiring", "granted", "refused"}
    /\ procs' = [procs EXCEPT ![p] = Idle]
    /\ UNCHANGED <<lock, ready, commands, issued>>

MayMiss(p) == p \in Prompt => procs[p].missed < MissedBeats
Missed(p) == IF p \in Prompt THEN procs[p].missed + 1 ELSE 0

\* setInterval(beat, intervalMs).  Two heartbeats on their way at once are one
\* to Redis.
Beat(p) ==
    /\ procs[p].step = "running"
    /\ procs[p].timer = 0
    /\ ready[p]
    /\ procs' = [procs EXCEPT ![p].timer = Interval]
    /\ commands' = commands \cup {Command("extend", p, procs[p].token)}
    /\ UNCHANGED <<lock, ready, issued>>

\* Without a connection extendLock returns false, and the task runs on.
BeatSkipped(p) ==
    /\ procs[p].step = "running"
    /\ procs[p].timer = 0
    /\ ~ready[p]
    /\ MayMiss(p)
    /\ procs' = [procs EXCEPT ![p].timer = Interval, ![p].missed = Missed(p)]
    /\ UNCHANGED <<lock, ready, commands, issued>>

\* A heartbeat is lost: the error is logged, and the task runs on.
BeatFails(p) ==
    /\ MayMiss(p)
    /\ \E c \in commands :
          /\ c.type = "extend" /\ c.process = p /\ c.token = procs[p].token
          /\ commands' = commands \ {c}
    /\ procs' = [procs EXCEPT ![p].missed = Missed(p)]
    /\ UNCHANGED <<lock, ready, issued>>

\* The task ends or throws: the timer is cleared and the lock released, if there
\* is a connection.
Finish(p) ==
    /\ procs[p].step = "running"
    /\ IF ready[p]
       THEN /\ procs' = [procs EXCEPT ![p].step = "releasing"]
            /\ commands' = commands \cup {Command("del", p, procs[p].token)}
       ELSE /\ procs' = [procs EXCEPT ![p] = Idle]
            /\ UNCHANGED commands
    /\ UNCHANGED <<lock, ready, issued>>

\* releaseLock fails: the error is logged, and the key lives on until its end.
ReleaseFails(p) ==
    /\ Faults
    /\ procs[p].step = "releasing"
    /\ procs' = [procs EXCEPT ![p] = Idle]
    /\ UNCHANGED <<lock, ready, commands, issued>>

\* 'error' and 'ready' events of the client.
ConnectionChanges(p) ==
    /\ Faults
    /\ ready' = [ready EXCEPT ![p] = ~@]
    /\ UNCHANGED <<lock, procs, commands, issued>>

\* The process dies, with or without the lock; what it has sent is on its way.
Crash(p) ==
    /\ procs[p].step # "idle"
    /\ procs' = [procs EXCEPT ![p] = Idle]
    /\ UNCHANGED <<lock, ready, commands, issued>>

-----------------------------------------------------------------------------
(* Redis *)

\* Is p still waiting for the answer to this token?
Waits(p, token, step) == procs[p].step = step /\ procs[p].token = token

\* Mutant of ExecuteSet: no PX, and a key without a time to live stays.
ExecuteSetForever(c) ==
    /\ c.type = "set"
    /\ lock' = IF lock = NoLock THEN [token |-> c.token, ttl |-> 0] ELSE lock
    /\ procs' = IF Waits(c.process, c.token, "acquiring")
                THEN [procs EXCEPT
                         ![c.process].step = IF lock = NoLock THEN "granted" ELSE "refused",
                         ![c.process].timer = Delay]
                ELSE procs
    /\ commands' = commands \ {c}
    /\ UNCHANGED <<ready, issued>>

\* set(key, token, {NX: true, PX: ttlMs})
ExecuteSet(c) ==
    /\ c.type = "set"
    /\ lock' = IF lock = NoLock THEN [token |-> c.token, ttl |-> TTL] ELSE lock
    /\ procs' = IF Waits(c.process, c.token, "acquiring")
                THEN [procs EXCEPT
                         ![c.process].step = IF lock = NoLock THEN "granted" ELSE "refused",
                         ![c.process].timer = Delay]
                ELSE procs
    /\ commands' = commands \ {c}
    /\ UNCHANGED <<ready, issued>>

\* Mutant of ExecuteExtend: the interval is taken for the time to live.
ExecuteExtendShort(c) ==
    /\ c.type = "extend"
    /\ lock' = IF lock.token = c.token THEN [lock EXCEPT !.ttl = Interval] ELSE lock
    /\ procs' = IF procs[c.process].token = c.token
                THEN [procs EXCEPT ![c.process].missed = 0] ELSE procs
    /\ commands' = commands \ {c}
    /\ UNCHANGED <<ready, issued>>

\* if get(key) == token then pexpire(key, ttl)
ExecuteExtend(c) ==
    /\ c.type = "extend"
    /\ lock' = IF lock.token = c.token THEN [lock EXCEPT !.ttl = TTL] ELSE lock
    /\ procs' = IF procs[c.process].token = c.token
                THEN [procs EXCEPT ![c.process].missed = 0] ELSE procs
    /\ commands' = commands \ {c}
    /\ UNCHANGED <<ready, issued>>

\* Mutant of ExecuteDel: del(key).
ExecuteDelAnyway(c) ==
    /\ c.type = "del"
    /\ lock' = NoLock
    /\ procs' = IF Waits(c.process, c.token, "releasing")
                THEN [procs EXCEPT ![c.process] = Idle] ELSE procs
    /\ commands' = commands \ {c}
    /\ UNCHANGED <<ready, issued>>

\* if get(key) == token then del(key)
ExecuteDel(c) ==
    /\ c.type = "del"
    /\ lock' = IF lock.token = c.token THEN NoLock ELSE lock
    /\ procs' = IF Waits(c.process, c.token, "releasing")
                THEN [procs EXCEPT ![c.process] = Idle] ELSE procs
    /\ commands' = commands \ {c}
    /\ UNCHANGED <<ready, issued>>

\* A second passes.
Tick ==
    /\ \A c \in commands : c.process \in Prompt => c.age < Delay
    /\ \A p \in Prompt : procs[p].step \in {"granted", "running"} => procs[p].timer > 0
    /\ lock' = CASE lock.ttl > 1 -> [lock EXCEPT !.ttl = @ - 1]
                 [] lock.ttl = 1 -> NoLock
                 [] OTHER -> lock
    /\ procs' = [p \in Processes |->
                    [procs[p] EXCEPT !.timer = IF @ > 0 THEN @ - 1 ELSE 0]]
    /\ commands' = {[c EXCEPT !.age = IF c.process \in Prompt THEN @ + 1 ELSE 0] :
                       c \in commands}
    /\ UNCHANGED <<ready, issued>>

-----------------------------------------------------------------------------
ProcessStep(p) ==
    \/ AcquireLock(p) \/ AcquireReply(p) \/ AcquireFails(p)
    \/ Beat(p) \/ BeatSkipped(p) \/ BeatFails(p)
    \/ Finish(p) \/ ReleaseFails(p)
    \/ ConnectionChanges(p) \/ Crash(p)

Execute(c) == ExecuteSet(c) \/ ExecuteExtend(c) \/ ExecuteDel(c)

Next ==
    \/ \E p \in Processes : ProcessStep(p)
    \/ \E c \in commands : Execute(c)
    \/ Tick

Spec == Init /\ [][Next]_vars

\* Time goes on, Redis executes what it gets, answers arrive and tasks end.
FairSpec ==
    /\ Spec
    /\ WF_vars(Tick)
    /\ WF_vars(\E c \in commands : Execute(c))
    /\ \A p \in Processes : WF_vars(AcquireReply(p)) /\ WF_vars(Finish(p))

-----------------------------------------------------------------------------
\* A process whose heartbeats come in time, but for one in a row, holds the key
\* as long as its task runs, whatever the others do: no other process takes the
\* lock meanwhile (docs/ARCHITECTURE.md:49, `to prevent concurrent actions across
\* hosts').  One that stalls loses it without noticing, and its task runs on.
LeaseHeld ==
    \A p \in Prompt : procs[p].step = "running" => lock.token = procs[p].token

\* However late commands and timers are: a token gets the key only by its own
\* set on a free key, and loses it only when its time is up or by its own
\* release; no command of another process or of an earlier attempt touches it
\* (the comparisons in lockManager.js:22-28 and :141-147).
OwnersDecide ==
    [][lock'.token # lock.token =>
          \/ /\ lock = NoLock
             /\ \E c \in commands \ commands' : c.type = "set" /\ c.token = lock'.token
          \/ /\ lock' = NoLock
             /\ \/ lock.ttl = 1
                \/ \E c \in commands \ commands' : c.type = "del" /\ c.token = lock.token]_vars

\* Whatever crashes or fails, the key is free again in time.
FreeAgain == []<>(lock = NoLock)
=============================================================================
