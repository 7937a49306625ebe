---------------------------- MODULE TaskLockProofs ----------------------------
(***************************************************************************)
(* For any number of processes, any lease and any delays: only a set on a  *)
(* free key, the end of the lease, and the release of the present holder   *)
(* change who has the lock; and a task whose heartbeats come in time has   *)
(* the lock until it ends.                                                 *)
(***************************************************************************)
EXTENDS TaskLock, FiniteSetTheorems, TLAPS

-----------------------------------------------------------------------------
\* The greater of two numbers.
LEMMA MaxOfTwo ==
    ASSUME NEW a \in Nat, NEW b \in Nat
    PROVE  /\ Max({a, b}) \in Nat
           /\ Max({a, b}) \in {a, b}
           /\ a <= Max({a, b})
           /\ b <= Max({a, b})
<1>1. \E x \in {a, b} : \A y \in {a, b} : x >= y
  <2>1. CASE a >= b
    BY <2>1
  <2>2. CASE b >= a
    BY <2>2
  <2> QED
    BY <2>1, <2>2
<1> QED
  BY <1>1 DEF Max

\* The lesser of two numbers.
LEMMA MinOfTwo ==
    ASSUME NEW a \in Nat, NEW b \in Nat
    PROVE  Min({a, b}) \in Nat
<1>1. \E x \in {a, b} : \A y \in {a, b} : x <= y
  <2>1. CASE a <= b
    BY <2>1
  <2>2. CASE b <= a
    BY <2>2
  <2> QED
    BY <2>1, <2>2
<1> QED
  BY <1>1 DEF Min

\* The heartbeat interval is a number of seconds.
LEMMA IntervalIsNumber == Interval \in Nat
<1>1. TTL \div 3 \in Nat
  BY TaskLockAssumption
<1>2. Min({20, TTL \div 3}) \in Nat
  BY <1>1, MinOfTwo
<1> QED
  BY <1>2, MaxOfTwo DEF Interval

\* What a timer is set to.
Longest == Max({Interval, Delay})

\* A timer may be set to the interval or to the delay.
LEMMA TimerRange ==
    /\ Longest \in Nat
    /\ Interval \in 0..Longest
    /\ Delay \in 0..Longest
  BY IntervalIsNumber, MaxOfTwo, TaskLockAssumption DEF Longest

Process ==
    [step : {"idle", "acquiring", "granted", "refused", "running", "releasing"},
     token : Tokens \cup {NoToken}, timer : 0..Longest, missed : 0..MissedBeats]
Key == {NoLock} \cup [token : Tokens, ttl : 1..TTL]
Sent == [type : {"set", "extend", "del"}, process : Processes, token : Tokens, age : 0..Delay]

\* Who waits or runs has a token: the commands it sends carry it.
Types ==
    /\ lock \in Key
    /\ procs \in [Processes -> Process]
    /\ ready \in [Processes -> BOOLEAN]
    /\ commands \subseteq Sent
    /\ issued \in 0..MaxTokens
    /\ \A p \in Processes : procs[p].step # "idle" => procs[p].token \in Tokens

-----------------------------------------------------------------------------
\* Nothing is set and nobody waits.
LEMMA TypesInit == Init => Types
<1> SUFFICES ASSUME Init PROVE Types
  OBVIOUS
<1>1. Idle \in Process
  BY TimerRange, TaskLockAssumption DEF Idle, Process
<1> QED
  BY <1>1, TaskLockAssumption DEF Init, Types, Key, Idle

\* A step of a process sends at most one command, with its own token.
LEMMA TypesProcess ==
    ASSUME Types, NEW p \in Processes, ProcessStep(p)
    PROVE  Types'
<1> USE DEF Types
<1>0. Idle \in Process /\ Idle.step = "idle" /\ procs[p] \in Process
  BY TimerRange, TaskLockAssumption DEF Idle, Process
<1>1. CASE AcquireLock(p)
  <2>1. issued + 1 \in Tokens /\ issued + 1 \in 0..MaxTokens
    BY <1>1, TaskLockAssumption DEF AcquireLock, Tokens
  <2>2. [Idle EXCEPT !.step = "acquiring", !.token = issued + 1] \in Process
    BY <1>0, <2>1 DEF Process
  <2>3. Command("set", p, issued + 1) \in Sent
    BY <2>1, TaskLockAssumption DEF Command, Sent
  <2>4. procs' \in [Processes -> Process] /\ commands' \subseteq Sent
    BY <1>1, <2>2, <2>3 DEF AcquireLock
  <2>5. \A q \in Processes : procs'[q].step # "idle" => procs'[q].token \in Tokens
    BY <1>1, <2>1 DEF AcquireLock, Idle
  <2> QED
    BY <1>1, <2>1, <2>4, <2>5 DEF AcquireLock
<1>2. CASE AcquireReply(p)
  BY <1>0, <1>2, TimerRange DEF AcquireReply, Process
<1>3. CASE AcquireFails(p)
  BY <1>0, <1>3 DEF AcquireFails
<1>4. CASE Beat(p)
  <2>1. Command("extend", p, procs[p].token) \in Sent
    BY <1>4, TaskLockAssumption DEF Beat, Command, Sent
  <2>2. procs' \in [Processes -> Process]
    BY <1>0, <1>4, TimerRange DEF Beat, Process
  <2>3. \A q \in Processes : procs'[q].step = procs[q].step /\ procs'[q].token = procs[q].token
    BY <1>4 DEF Beat, Process
  <2> QED
    BY <1>4, <2>1, <2>2, <2>3 DEF Beat
<1>5. CASE BeatSkipped(p) \/ BeatFails(p)
  <2>1. Missed(p) \in 0..MissedBeats
    BY <1>0, <1>5, TaskLockAssumption DEF BeatSkipped, BeatFails, MayMiss, Missed, Process
  <2>2. procs' \in [Processes -> Process]
    BY <1>0, <1>5, <2>1, TimerRange DEF BeatSkipped, BeatFails, Process
  <2>3. \A q \in Processes : procs'[q].step = procs[q].step /\ procs'[q].token = procs[q].token
    BY <1>5 DEF BeatSkipped, BeatFails, Process
  <2> QED
    BY <1>5, <2>2, <2>3 DEF BeatSkipped, BeatFails
<1>6. CASE Finish(p)
  <2>1. CASE ready[p]
    <3>1. Command("del", p, procs[p].token) \in Sent
      BY <1>6, TaskLockAssumption DEF Finish, Command, Sent
    <3>2. procs' \in [Processes -> Process]
      BY <1>0, <1>6, <2>1 DEF Finish, Process
    <3>3. \A q \in Processes : procs'[q].step # "idle" => procs'[q].token \in Tokens
      BY <1>6, <2>1 DEF Finish, Process
    <3> QED
      BY <1>6, <2>1, <3>1, <3>2, <3>3 DEF Finish
  <2>2. CASE ~ready[p]
    BY <1>0, <1>6, <2>2 DEF Finish
  <2> QED
    BY <2>1, <2>2
<1>7. CASE ReleaseFails(p)
  BY <1>0, <1>7 DEF ReleaseFails
<1>8. CASE ConnectionChanges(p)
  BY <1>8 DEF ConnectionChanges
<1>9. CASE Crash(p)
  BY <1>0, <1>9 DEF Crash
<1> QED
  BY <1>1, <1>2, <1>3, <1>4, <1>5, <1>6, <1>7, <1>8, <1>9 DEF ProcessStep

\* A command sets, extends or removes the key and may answer the process.
LEMMA TypesExecute ==
    ASSUME Types, NEW c \in commands, Execute(c)
    PROVE  Types'
<1> USE DEF Types
<1>1. c \in Sent /\ commands \ {c} \subseteq Sent /\ c.process \in Processes
  BY DEF Sent
<1>2. [token |-> c.token, ttl |-> TTL] \in Key
  BY <1>1, TaskLockAssumption DEF Sent, Key
<1>3. NoLock \in Key
  BY DEF Key
<1>4. Idle \in Process /\ Idle.step = "idle" /\ procs[c.process] \in Process
  BY <1>1, TimerRange, TaskLockAssumption DEF Idle, Process
<1>5. CASE ExecuteSet(c)
  <2>1. procs' \in [Processes -> Process]
    BY <1>4, <1>5, TimerRange DEF ExecuteSet, Process
  <2>2. \A q \in Processes : procs'[q].step # "idle" => procs'[q].token \in Tokens
    BY <1>4, <1>5 DEF ExecuteSet, Waits, Process
  <2> QED
    BY <1>1, <1>2, <1>5, <2>1, <2>2 DEF ExecuteSet
<1>6. CASE ExecuteExtend(c)
  <2>1. [lock EXCEPT !.ttl = TTL] \in Key \/ lock.token # c.token
    BY <1>1, TaskLockAssumption DEF Key, NoLock, NoToken, Sent, Tokens
  <2>2. procs' \in [Processes -> Process]
    <3>1. 0 \in 0..MissedBeats
      BY TaskLockAssumption
    <3>2. [procs[c.process] EXCEPT !.missed = 0] \in Process
      BY <1>4, <3>1 DEF Process
    <3> QED
      BY <1>6, <3>2 DEF ExecuteExtend
  <2>3. \A q \in Processes : procs'[q].step = procs[q].step /\ procs'[q].token = procs[q].token
    BY <1>4, <1>6 DEF ExecuteExtend, Process
  <2> QED
    BY <1>1, <1>6, <2>1, <2>2, <2>3 DEF ExecuteExtend
<1>7. CASE ExecuteDel(c)
  BY <1>1, <1>3, <1>4, <1>7 DEF ExecuteDel
<1> QED
  BY <1>5, <1>6, <1>7 DEF Execute

\* Time runs down timers and the lease, and ages commands.
LEMMA TypesTick == Types /\ Tick => Types'
<1> SUFFICES ASSUME Types, Tick PROVE Types'
  OBVIOUS
<1> USE DEF Types
<1>1. lock' \in Key
  BY TaskLockAssumption DEF Tick, Key, NoLock
<1>2. \A p \in Processes : procs'[p] \in Process
  BY TimerRange DEF Tick, Process
<1>3. procs' \in [Processes -> Process]
  BY <1>2 DEF Tick
<1>4. \A p \in Processes : procs'[p].step = procs[p].step /\ procs'[p].token = procs[p].token
  BY DEF Tick, Process
<1>5. commands' \subseteq Sent
  BY TaskLockAssumption DEF Tick, Sent
<1> QED
  BY <1>1, <1>3, <1>4, <1>5 DEF Tick

\* Every step.
LEMMA TypesStep == Types /\ [Next]_vars => Types'
<1> SUFFICES ASSUME Types, [Next]_vars PROVE Types'
  OBVIOUS
<1>1. CASE UNCHANGED vars
  BY <1>1 DEF Types, vars
<1> QED
  BY <1>1, TypesProcess, TypesExecute, TypesTick DEF Next

-----------------------------------------------------------------------------
\* Keys, processes and commands are what they should be: timers never exceed
\* what they are set to, a lease never its length.
THEOREM TypeCorrect == Spec => []TypeOK
<1>1. Types => TypeOK
  BY DEF Types, TypeOK, Key, Process, Sent, Longest
<1> QED
  BY <1>1, TypesInit, TypesStep, PTL DEF Spec

\* The step formula of OwnersDecide.
Decided ==
    lock'.token # lock.token =>
          \/ /\ lock = NoLock
             /\ \E c \in commands \ commands' : c.type = "set" /\ c.token = lock'.token
          \/ /\ lock' = NoLock
             /\ \/ lock.ttl = 1
                \/ \E c \in commands \ commands' : c.type = "del" /\ c.token = lock.token

\* No step but these three changes the token of the key.
LEMMA StepsDecide == Types /\ [Next]_vars => Decided \/ UNCHANGED vars
<1> SUFFICES ASSUME Types, Next PROVE Decided
  BY DEF vars
<1> USE DEF Decided
<1>1. ASSUME NEW p \in Processes, ProcessStep(p) PROVE Decided
  <2>1. lock' = lock
    BY <1>1 DEF ProcessStep, AcquireLock, AcquireReply, AcquireFails, Beat, BeatSkipped,
                BeatFails, Finish, ReleaseFails, ConnectionChanges, Crash
  <2> QED
    BY <2>1
<1>2. ASSUME NEW c \in commands, Execute(c) PROVE Decided
  <2>1. commands' = commands \ {c}
    BY <1>2 DEF Execute, ExecuteSet, ExecuteExtend, ExecuteDel
  <2>2. c \in commands \ commands'
    BY <2>1
  <2>3. CASE ExecuteSet(c)
    BY <2>2, <2>3 DEF ExecuteSet
  <2>4. CASE ExecuteExtend(c)
    BY <2>4 DEF ExecuteExtend, Types, Key, NoLock
  <2>5. CASE ExecuteDel(c)
    BY <2>2, <2>5 DEF ExecuteDel
  <2> QED
    BY <1>2, <2>3, <2>4, <2>5 DEF Execute
<1>3. CASE Tick
  BY <1>3 DEF Tick, Types, Key, NoLock
<1> QED
  BY <1>1, <1>2, <1>3 DEF Next

\* However late commands and heartbeats are, and whoever crashes: nobody takes or
\* frees a lock that someone else holds before its lease is over
\* (lockManager.js:22-28, :141-147).
THEOREM OwnersAlwaysDecide == Spec => OwnersDecide
<1>1. Types /\ [Next]_vars => [Decided]_vars
  BY StepsDecide
<1> QED
  BY <1>1, TypesInit, TypesStep, PTL DEF Spec, OwnersDecide, Decided

-----------------------------------------------------------------------------
(* The lease outlives the task *)

\* Whose token is whose: tokens are made one at a time, and the command to
\* release a token is sent when its task is over.
TokensApart ==
    /\ \A p \in Processes : procs[p].token <= issued
    /\ \A c \in commands : c.token <= issued
    /\ \A p, q \in Processes : procs[p].token = procs[q].token => p = q \/ procs[p].token = NoToken
    /\ \A p \in Processes : procs[p].token # NoToken => procs[p].step # "idle"
    /\ \A c \in commands, p \in Processes :
          c.type = "del" /\ c.token = procs[p].token => procs[p].step = "releasing"

\* The heartbeat that p sent as the i-th of b since the key was last refreshed.
Heartbeat(p, b, i) ==
    [type |-> "extend", process |-> p, token |-> procs[p].token,
     age |-> (Interval - procs[p].timer) + (b - i) * Interval]

\* Of the b heartbeats since the key was last refreshed, those in S were missed
\* and all others are on their way.
Beating(p, b, S) ==
    /\ Cardinality(S) <= procs[p].missed
    /\ TTL + procs[p].timer <= lock.ttl + Delay + (b + 1) * Interval
    /\ \A i \in (1..b) \ S : Heartbeat(p, b, i) \in commands

\* The key is p's, for as long as the answer takes.
Granted(p) ==
    /\ lock.token = procs[p].token
    /\ TTL + procs[p].timer <= lock.ttl + Delay

\* The key is p's, for as long as the heartbeats it has sent or missed explain.
Kept(p) ==
    /\ lock.token = procs[p].token
    /\ procs[p].timer <= Interval
    /\ \E b \in Nat : \E S \in SUBSET (1..b) : Beating(p, b, S)

LeaseOf(p) ==
    /\ procs[p].step = "granted" => Granted(p)
    /\ procs[p].step = "running" => Kept(p)

Leases == \A p \in Prompt : LeaseOf(p)

\* What a step of a process does to tokens: a new one is the highest, and a
\* command carries the token of the process that sends it.
LEMMA ProcessTokens ==
    ASSUME Types, TokensApart, NEW p \in Processes, ProcessStep(p)
    PROVE  /\ lock' = lock
           /\ \A q \in Processes \ {p} : procs'[q] = procs[q]
           /\ \/ issued' = issued /\ procs'[p].token \in {procs[p].token, NoToken}
              \/ issued' = issued + 1 /\ procs'[p].token = issued + 1
           /\ procs'[p].token # NoToken => procs'[p].step # "idle"
           /\ procs[p].step = "releasing" /\ procs'[p].token = procs[p].token
                  => procs'[p].step = "releasing" \/ procs'[p].token = NoToken
           /\ \A c \in commands' \ commands :
                  /\ c.token = procs'[p].token /\ c.token # NoToken
                  /\ c.type = "del" => procs'[p].step = "releasing"
<1>1. procs[p] \in Process /\ issued \in Nat /\ Idle.token = NoToken /\ Idle.step = "idle"
  BY DEF Types, Idle
<1>2. \A type, token : /\ Command(type, p, token).token = token
                      /\ Command(type, p, token).type = type
  BY DEF Command
<1> USE DEF Types, TokensApart
<1>3. CASE AcquireLock(p)
  <2>1. [Idle EXCEPT !.step = "acquiring", !.token = issued + 1].token = issued + 1
    BY DEF Idle
  <2>2. [Idle EXCEPT !.step = "acquiring", !.token = issued + 1].step = "acquiring"
    BY DEF Idle
  <2> QED
    BY <1>1, <1>2, <1>3, <2>1, <2>2 DEF AcquireLock, NoToken
<1>4. CASE AcquireReply(p) \/ AcquireFails(p) \/ ReleaseFails(p) \/ Crash(p)
  BY <1>1, <1>4 DEF AcquireReply, AcquireFails, ReleaseFails, Crash, Process
<1>5. CASE Beat(p)
  BY <1>1, <1>2, <1>5 DEF Beat, Process, Tokens, NoToken
<1>6. CASE BeatSkipped(p) \/ BeatFails(p)
  BY <1>1, <1>6 DEF BeatSkipped, BeatFails, Process
<1>7. CASE Finish(p)
  BY <1>1, <1>2, <1>7 DEF Finish, Process, Tokens, NoToken
<1>8. CASE ConnectionChanges(p)
  BY <1>8 DEF ConnectionChanges
<1> QED
  BY <1>3, <1>4, <1>5, <1>6, <1>7, <1>8 DEF ProcessStep

\* Redis makes no tokens and ends no task.
LEMMA ExecuteTokens ==
    ASSUME Types, TokensApart, NEW c \in commands, Execute(c)
    PROVE  /\ commands' = commands \ {c}
           /\ issued' = issued
           /\ \A q \in Processes \ {c.process} : procs'[q] = procs[q]
           /\ \A q \in Processes :
                 \/ procs'[q] = Idle
                 \/ /\ procs'[q].token = procs[q].token
                    /\ procs'[q].step = "idle" => procs[q].step = "idle"
                    /\ procs[q].step = "releasing" => procs'[q].step = "releasing"
<1>1. c \in Sent /\ c.process \in Processes /\ procs[c.process] \in Process
  BY DEF Types, Sent
<1>2. CASE ExecuteSet(c)
  BY <1>1, <1>2 DEF ExecuteSet, Waits, Types, Process
<1>3. CASE ExecuteExtend(c)
  BY <1>1, <1>3 DEF ExecuteExtend, Types, Process
<1>4. CASE ExecuteDel(c)
  BY <1>1, <1>4 DEF ExecuteDel, Waits, Types, Process
<1> QED
  BY <1>2, <1>3, <1>4 DEF Execute

\* Time changes no token.
LEMMA TickTokens ==
    ASSUME Types, Tick
    PROVE  /\ issued' = issued
           /\ \A q \in Processes : /\ procs'[q].token = procs[q].token
                                   /\ procs'[q].step = procs[q].step
                                   /\ procs'[q].missed = procs[q].missed
                                   /\ procs'[q].timer = IF procs[q].timer > 0
                                                        THEN procs[q].timer - 1 ELSE 0
           /\ \A d \in commands' : \E c \in commands : d.type = c.type /\ d.token = c.token
  BY DEF Tick, Types, Process, Sent

LEMMA TokensStep == Types /\ TokensApart /\ [Next]_vars => TokensApart'
<1> SUFFICES ASSUME Types, TokensApart, [Next]_vars PROVE TokensApart'
  OBVIOUS
<1>0. /\ issued \in Nat
      /\ \A p \in Processes : procs[p].token \in Nat
      /\ \A c \in commands : c.token \in Nat \ {NoToken}
  BY DEF Types, Process, Sent, Tokens, NoToken
<1>1. ASSUME NEW p \in Processes, ProcessStep(p) PROVE TokensApart'
  BY <1>0, <1>1, ProcessTokens DEF TokensApart, NoToken
<1>2. ASSUME NEW c \in commands, Execute(c) PROVE TokensApart'
  <2>1. Idle.token = NoToken /\ Idle.step = "idle"
    BY DEF Idle
  <2> QED
    BY <1>0, <1>2, <2>1, ExecuteTokens DEF TokensApart, NoToken
<1>3. CASE Tick
  BY <1>3, TickTokens DEF TokensApart
<1>4. CASE UNCHANGED vars
  BY <1>4 DEF TokensApart, vars
<1> QED
  BY <1>1, <1>2, <1>3, <1>4 DEF Next

\* A set of numbers has a least one.
LEMMA Least ==
    ASSUME NEW T \in SUBSET Nat, T # {}
    PROVE  \E m \in T : \A k \in T : m <= k
<1>1. PICK m \in T : \A k \in T : <<k, m>> \notin OpToRel(<, Nat)
  BY WFMin, NatLessThanWellFounded, Zenon
<1>2. \A k \in T : ~(k < m)
  BY <1>1, Zenon DEF OpToRel
<1> QED
  BY <1>2

\* Multiples grow.
LEMMA Multiples ==
    ASSUME NEW i \in Nat, NEW j \in Nat, NEW n \in Nat \ {0}
    PROVE  /\ i * n \in Nat
           /\ i <= j => i * n <= j * n
           /\ i < j => i * n < j * n
           /\ (i + 1) * n = i * n + n
<1>1. \A k \in Nat : k * n \in Nat /\ (k > 0 => k * n >= n) /\ (i + k) * n = i * n + k * n
  OBVIOUS
<1>2. i <= j => j - i \in Nat /\ j = i + (j - i)
  OBVIOUS
<1> QED
  BY <1>1, <1>2

\* The interval is never zero, and a third of the lease is a number.
LEMMA IntervalIsPositive == Interval \in Nat \ {0}
<1>1. TTL \div 3 \in Nat
  BY TaskLockAssumption
<1>2. Min({20, TTL \div 3}) \in Nat
  BY <1>1, MinOfTwo
<1>3. Interval >= 2
  BY <1>2, MaxOfTwo DEF Interval
<1> QED
  BY <1>3, IntervalIsNumber

\* A set of some of b heartbeats is finite.
LEMMA Some ==
    ASSUME NEW b \in Nat, NEW S \in SUBSET (1..b)
    PROVE  /\ IsFiniteSet(S) /\ Cardinality(S) \in Nat
           /\ \A n \in Nat : 1..n \subseteq S => n <= Cardinality(S)
<1>0. IsFiniteSet(1..b)
  BY FS_Interval
<1>1. IsFiniteSet(S) /\ Cardinality(S) \in Nat
  BY <1>0, FS_Subset, FS_CardinalityType, Zenon
<1>2. ASSUME NEW n \in Nat, 1..n \subseteq S PROVE n <= Cardinality(S)
  <2>1. Cardinality(1..n) = n
    BY FS_Interval
  <2> QED
    BY <1>1, <1>2, <2>1, FS_Subset
<1> QED
  BY <1>1, <1>2

\* One more heartbeat is missed.
LEMMA OneMore ==
    ASSUME NEW b \in Nat, NEW S \in SUBSET (1..b), NEW i, NEW n \in Nat, Cardinality(S) <= n
    PROVE  Cardinality(S \cup {i}) \in Nat /\ Cardinality(S \cup {i}) <= n + 1
<1>1. IsFiniteSet(S) /\ Cardinality(S) \in Nat
  BY Some
<1>2. Cardinality(S \cup {i}) = IF i \in S THEN Cardinality(S) ELSE Cardinality(S) + 1
  BY <1>1, FS_AddElement, Zenon
<1> QED
  BY <1>1, <1>2

\* As long as nothing of p's is overdue, its lease has more than a tick left:
\* the oldest heartbeat on its way was sent after at most MissedBeats others.
LEMMA LeaseLasts ==
    ASSUME Types, NEW p \in Prompt, Kept(p), procs[p].timer > 0,
           \A c \in commands : c.process \in Prompt => c.age < Delay
    PROVE  lock.ttl > 1
<1> DEFINE timer == procs[p].timer
           ttl == lock.ttl
<1>0. PICK b \in Nat : \E S \in SUBSET (1..b) : Beating(p, b, S)
  BY DEF Kept
<1>1. PICK S \in SUBSET (1..b) : Beating(p, b, S)
  BY <1>0
<1>2. /\ timer \in Nat \ {0} /\ timer <= Interval
      /\ procs[p].missed \in Nat /\ procs[p].missed <= MissedBeats
      /\ ttl \in Nat /\ Delay \in Nat /\ MissedBeats \in Nat /\ TTL \in Nat
      /\ 2 * Delay + (MissedBeats + 1) * Interval < TTL
  BY TaskLockAssumption, TimerRange DEF Types, Process, Key, NoLock, Kept
<1>3. TTL + timer <= ttl + Delay + (b + 1) * Interval
  BY <1>1 DEF Beating
<1>4. \A n \in Nat : 1..n \subseteq S => n <= MissedBeats
  <2>1. /\ Cardinality(S) \in Nat
        /\ \A n \in Nat : 1..n \subseteq S => n <= Cardinality(S)
    BY Some
  <2>2. Cardinality(S) <= procs[p].missed
    BY <1>1 DEF Beating
  <2> QED
    BY <1>2, <2>1, <2>2
<1> HIDE DEF timer, ttl
<1>5. CASE (1..b) \ S = {}
  <2>1. b <= MissedBeats
    <3>1. 1..b \subseteq S
      BY <1>5
    <3> QED
      BY <1>4, <3>1
  <2>2. (b + 1) * Interval <= (MissedBeats + 1) * Interval
    BY <1>2, <2>1, Multiples, IntervalIsPositive
  <2>3. (b + 1) * Interval \in Nat /\ (MissedBeats + 1) * Interval \in Nat
    BY <1>2, Multiples, IntervalIsPositive
  <2> DEFINE y == (b + 1) * Interval
             z == (MissedBeats + 1) * Interval
  <2>4. /\ y \in Nat /\ z \in Nat /\ y <= z
        /\ TTL + timer <= ttl + Delay + y
        /\ 2 * Delay + z < TTL
    BY <1>2, <1>3, <2>2, <2>3
  <2> HIDE DEF y, z
  <2> QED
    BY <1>2, <2>4 DEF ttl
<1>6. CASE (1..b) \ S # {}
  <2>1. PICK i \in (1..b) \ S : \A k \in (1..b) \ S : i <= k
    <3>1. (1..b) \ S \in SUBSET Nat
      OBVIOUS
    <3> QED
      BY <1>6, <3>1, Least
  <2>2. i \in Nat /\ i - 1 \in Nat /\ b - i \in Nat /\ 1..(i - 1) \subseteq S
    BY <2>1
  <2>3. i <= MissedBeats + 1
    BY <1>2, <1>4, <2>2
  <2>4. (Interval - timer) + (b - i) * Interval < Delay
    <3>1. Heartbeat(p, b, i) \in commands
      BY <1>1, <2>1 DEF Beating
    <3>2. Heartbeat(p, b, i).process = p
      BY DEF Heartbeat
    <3>3. Heartbeat(p, b, i).age = (Interval - timer) + (b - i) * Interval
      BY DEF Heartbeat, timer
    <3> QED
      BY <3>1, <3>2, <3>3
  <2>5. (b + 1) * Interval = (b - i) * Interval + i * Interval + Interval
    <3>1. (b - i) * Interval + i * Interval = b * Interval
      BY <2>2, IntervalIsNumber
    <3> QED
      BY <3>1, IntervalIsPositive, Multiples
  <2>6. i * Interval <= (MissedBeats + 1) * Interval
    BY <1>2, <2>2, <2>3, Multiples, IntervalIsPositive
  <2>7. /\ (b - i) * Interval \in Nat /\ i * Interval \in Nat
        /\ (MissedBeats + 1) * Interval \in Nat
    BY <1>2, <2>2, Multiples, IntervalIsPositive
  <2> DEFINE x == (b - i) * Interval
             y == i * Interval
             z == (MissedBeats + 1) * Interval
  <2>8. /\ x \in Nat /\ y \in Nat /\ z \in Nat /\ y <= z
        /\ Interval - timer + x < Delay
        /\ TTL + timer <= ttl + Delay + (x + y + Interval)
        /\ 2 * Delay + z < TTL
    BY <1>2, <1>3, <2>4, <2>5, <2>6, <2>7
  <2> HIDE DEF x, y, z
  <2> QED
    BY <1>2, <2>8, IntervalIsNumber DEF ttl
<1> QED
  BY <1>5, <1>6 DEF ttl

\* What does not concern p leaves its lease as it is.
LEMMA LeaseFrame ==
    ASSUME NEW p \in Prompt, LeaseOf(p), lock' = lock, procs'[p] = procs[p],
           \A c \in commands : c.type = "extend" /\ c.process = p /\ c.token = procs[p].token
                                  => c \in commands'
    PROVE  LeaseOf(p)'
<1>1. ASSUME NEW b \in Nat, NEW S \in SUBSET (1..b), Beating(p, b, S)
      PROVE  Beating(p, b, S)'
  <2>1. \A i \in (1..b) \ S : Heartbeat(p, b, i)' = Heartbeat(p, b, i)
    BY DEF Heartbeat
  <2>2. \A i \in (1..b) \ S : /\ Heartbeat(p, b, i) \in commands
                              /\ Heartbeat(p, b, i).type = "extend"
                              /\ Heartbeat(p, b, i).process = p
                              /\ Heartbeat(p, b, i).token = procs[p].token
    BY <1>1 DEF Beating, Heartbeat
  <2>3. \A i \in (1..b) \ S : Heartbeat(p, b, i)' \in commands'
    BY <2>1, <2>2
  <2> QED
    BY <1>1, <2>3 DEF Beating
<1> QED
  BY <1>1 DEF LeaseOf, Granted, Kept

\* The task starts: no heartbeat is due before the interval is over.
LEMMA LeaseStarts ==
    ASSUME Types, NEW p \in Prompt, LeaseOf(p), AcquireReply(p), procs[p].step = "granted"
    PROVE  LeaseOf(p)'
<1>1. p \in Processes /\ procs[p] \in Process
  BY TaskLockAssumption DEF Types
<1>2. /\ procs'[p].step = "running" /\ procs'[p].timer = Interval
      /\ procs'[p].token = procs[p].token /\ procs'[p].missed = procs[p].missed
      /\ lock' = lock
  BY <1>1 DEF AcquireReply, Types, Process
<1>3. TTL + procs[p].timer <= lock.ttl + Delay /\ lock.token = procs[p].token
  BY DEF LeaseOf, Granted
<1>4. /\ procs[p].timer \in Nat /\ procs[p].missed \in Nat /\ lock.ttl \in Nat
      /\ Delay \in Nat /\ TTL \in Nat /\ Interval \in Nat
  BY <1>1, IntervalIsNumber, TimerRange, TaskLockAssumption DEF Types, Process, Key, NoLock
<1>5. Beating(p, 0, {})'
  <2>1. TTL + procs'[p].timer <= lock'.ttl + Delay + (0 + 1) * Interval
    BY <1>2, <1>3, <1>4
  <2>2. Cardinality({}) <= procs'[p].missed
    BY <1>2, <1>4, FS_EmptySet
  <2> QED
    BY <2>1, <2>2 DEF Beating
<1> QED
  BY <1>2, <1>3, <1>4, <1>5 DEF LeaseOf, Kept

\* A heartbeat is sent on time, or skipped and counted.
LEMMA LeaseBeats ==
    ASSUME Types, NEW p \in Prompt, LeaseOf(p), Beat(p) \/ BeatSkipped(p)
    PROVE  LeaseOf(p)'
<1>1. /\ p \in Processes /\ procs[p] \in Process /\ Interval \in Nat \ {0}
      /\ procs[p].missed \in Nat
      /\ lock.ttl \in Nat /\ Delay \in Nat /\ TTL \in Nat
  BY IntervalIsPositive, TaskLockAssumption DEF Types, Process, Key, NoLock
<1>2. /\ procs[p].step = "running" /\ procs[p].timer = 0
      /\ procs'[p].step = "running" /\ procs'[p].timer = Interval
      /\ procs'[p].token = procs[p].token
      /\ lock' = lock /\ commands \subseteq commands'
  BY <1>1 DEF Beat, BeatSkipped, Types, Process
<1>3. \/ /\ procs'[p].missed = procs[p].missed
         /\ Command("extend", p, procs[p].token) \in commands'
      \/ procs'[p].missed = procs[p].missed + 1
  BY <1>1 DEF Beat, BeatSkipped, Missed, Types, Process
<1>4. lock.token = procs[p].token /\ Kept(p)
  BY <1>2 DEF LeaseOf, Kept
<1>5. PICK b \in Nat : \E S \in SUBSET (1..b) : Beating(p, b, S)
  BY <1>4 DEF Kept
<1>6. PICK S \in SUBSET (1..b) : Beating(p, b, S)
  BY <1>5
<1>7. TTL + procs'[p].timer <= lock'.ttl + Delay + ((b + 1) + 1) * Interval
  <2>1. TTL + procs[p].timer <= lock.ttl + Delay + (b + 1) * Interval
    BY <1>6 DEF Beating
  <2>2. /\ (b + 1) * Interval \in Nat
        /\ ((b + 1) + 1) * Interval = (b + 1) * Interval + Interval
    BY <1>1, Multiples
  <2> QED
    BY <1>1, <1>2, <2>1, <2>2
<1>8. \A i \in (1..b) \ S : Heartbeat(p, b + 1, i)' \in commands'
  <2> TAKE i \in (1..b) \ S
  <2>1. ((b + 1) - i) * Interval = (b - i) * Interval + Interval
    <3>1. b - i \in Nat /\ (b + 1) - i = (b - i) + 1
      OBVIOUS
    <3> QED
      BY <1>1, <3>1, Multiples
  <2>2. (b - i) * Interval \in Nat
    BY <1>1, Multiples
  <2>3. (Interval - Interval) + ((b + 1) - i) * Interval = (Interval - 0) + (b - i) * Interval
    BY <1>1, <2>1, <2>2
  <2>4. Heartbeat(p, b + 1, i)' = Heartbeat(p, b, i)
    BY <1>2, <2>3 DEF Heartbeat
  <2>5. Heartbeat(p, b, i) \in commands
    BY <1>6 DEF Beating
  <2> QED
    BY <1>2, <2>4, <2>5
<1>9. CASE /\ procs'[p].missed = procs[p].missed
           /\ Command("extend", p, procs[p].token) \in commands'
  <2>1. Heartbeat(p, b + 1, b + 1)' \in commands'
    <3>1. (Interval - Interval) + ((b + 1) - (b + 1)) * Interval = 0
      BY <1>1
    <3>2. Heartbeat(p, b + 1, b + 1)' = Command("extend", p, procs[p].token)
      BY <1>2, <3>1 DEF Heartbeat, Command
    <3> QED
      BY <1>9, <3>2
  <2>2. \A i \in (1..(b + 1)) \ S : Heartbeat(p, b + 1, i)' \in commands'
    <3>1. \A i \in (1..(b + 1)) \ S : i = b + 1 \/ i \in (1..b) \ S
      OBVIOUS
    <3> QED
      BY <1>8, <2>1, <3>1
  <2>3. Cardinality(S) <= procs'[p].missed
    BY <1>6, <1>9 DEF Beating
  <2>4. Beating(p, b + 1, S)'
    BY <1>7, <2>2, <2>3 DEF Beating
  <2>5. b + 1 \in Nat /\ S \in SUBSET (1..(b + 1))
    OBVIOUS
  <2> QED
    BY <1>1, <1>2, <1>4, <2>4, <2>5 DEF LeaseOf, Kept
<1>10. CASE procs'[p].missed = procs[p].missed + 1
  <2> DEFINE T == S \cup {b + 1}
  <2>1. Cardinality(T) <= procs'[p].missed
    <3>1. Cardinality(T) \in Nat /\ Cardinality(T) <= procs[p].missed + 1
      BY <1>1, <1>6, OneMore DEF Beating
    <3> QED
      BY <1>10, <3>1
  <2>2. \A i \in (1..(b + 1)) \ T : i \in (1..b) \ S
    OBVIOUS
  <2>3. Beating(p, b + 1, T)'
    BY <1>7, <1>8, <2>1, <2>2 DEF Beating
  <2>4. b + 1 \in Nat /\ T \in SUBSET (1..(b + 1))
    OBVIOUS
  <2> QED
    BY <1>1, <1>2, <1>4, <2>3, <2>4 DEF LeaseOf, Kept
<1> QED
  BY <1>3, <1>9, <1>10

\* A heartbeat is lost, and counted: of the lease only the heartbeat is gone.
LEMMA LeaseMisses ==
    ASSUME Types, NEW p \in Prompt, LeaseOf(p), BeatFails(p)
    PROVE  LeaseOf(p)'
<1>1. /\ p \in Processes /\ procs[p] \in Process /\ Interval \in Nat \ {0}
      /\ procs[p].missed \in Nat
  BY IntervalIsPositive, TaskLockAssumption DEF Types, Process
<1>2. PICK c \in commands : commands' = commands \ {c}
  BY DEF BeatFails
<1>3. /\ procs'[p].step = procs[p].step /\ procs'[p].timer = procs[p].timer
      /\ procs'[p].token = procs[p].token /\ procs'[p].missed = procs[p].missed + 1
      /\ lock' = lock
  BY <1>1 DEF BeatFails, Missed, Types, Process
<1>4. CASE procs[p].step = "running"
  <2>1. lock.token = procs[p].token /\ procs[p].timer <= Interval /\ Kept(p)
    BY <1>4 DEF LeaseOf, Kept
  <2>2. PICK b \in Nat : \E S \in SUBSET (1..b) : Beating(p, b, S)
    BY <2>1 DEF Kept
  <2>3. PICK S \in SUBSET (1..b) : Beating(p, b, S)
    BY <2>2
  <2>4. \A i : Heartbeat(p, b, i)' = Heartbeat(p, b, i)
    BY <1>3 DEF Heartbeat
  <2>5. TTL + procs'[p].timer <= lock'.ttl + Delay + (b + 1) * Interval
    BY <1>3, <2>3 DEF Beating
  <2>6. Cardinality(S) <= procs[p].missed
    BY <2>3 DEF Beating
  <2>7. \A i, k \in 1..b : Heartbeat(p, b, i) = Heartbeat(p, b, k) => i = k
    <3> SUFFICES ASSUME NEW i \in 1..b, NEW k \in 1..b,
                        Heartbeat(p, b, i) = Heartbeat(p, b, k)
                 PROVE  i = k
      OBVIOUS
    <3>1. Heartbeat(p, b, i).age = Heartbeat(p, b, k).age
      OBVIOUS
    <3>2. (Interval - procs[p].timer) + (b - i) * Interval
             = (Interval - procs[p].timer) + (b - k) * Interval
      BY <3>1 DEF Heartbeat
    <3>3. b - i \in Nat /\ b - k \in Nat /\ procs[p].timer \in Nat
      BY <1>1, TimerRange DEF Process
    <3>4. (b - i) * Interval \in Nat /\ (b - k) * Interval \in Nat
      BY <1>1, <3>3, Multiples
    <3>5. (b - i) * Interval = (b - k) * Interval
      BY <1>1, <3>2, <3>3, <3>4
    <3>6. ~(b - i < b - k) /\ ~(b - k < b - i)
      BY <1>1, <3>3, <3>4, <3>5, Multiples
    <3> QED
      BY <3>3, <3>6
  <2>8. CASE \E i \in (1..b) \ S : Heartbeat(p, b, i) = c
    <3>1. PICK i \in (1..b) \ S : Heartbeat(p, b, i) = c
      BY <2>8
    <3> DEFINE T == S \cup {i}
    <3>2. Cardinality(T) <= procs'[p].missed
      BY <1>1, <1>3, <2>6, OneMore
    <3>3. \A k \in (1..b) \ T : Heartbeat(p, b, k)' \in commands'
      BY <1>2, <2>3, <2>4, <2>7, <3>1 DEF Beating
    <3>4. Beating(p, b, T)' /\ T \in SUBSET (1..b)
      BY <2>5, <3>2, <3>3 DEF Beating
    <3> QED
      BY <1>3, <1>4, <2>1, <3>4 DEF LeaseOf, Kept
  <2>9. CASE ~\E i \in (1..b) \ S : Heartbeat(p, b, i) = c
    <3>1. Cardinality(S) <= procs'[p].missed
      <4>1. Cardinality(S) \in Nat
        BY Some
      <4> QED
        BY <1>1, <1>3, <2>6, <4>1
    <3>2. \A k \in (1..b) \ S : Heartbeat(p, b, k)' \in commands'
      BY <1>2, <2>3, <2>4, <2>9 DEF Beating
    <3>3. Beating(p, b, S)'
      BY <2>5, <3>1, <3>2 DEF Beating
    <3> QED
      BY <1>3, <1>4, <2>1, <3>3 DEF LeaseOf, Kept
  <2> QED
    BY <2>8, <2>9
<1> QED
  BY <1>3, <1>4 DEF LeaseOf, Granted

\* No step of a process takes a lease away.
LEMMA LeaseProcess ==
    ASSUME Types, TokensApart, NEW q \in Processes, ProcessStep(q),
           NEW p \in Prompt, LeaseOf(p)
    PROVE  LeaseOf(p)'
<1>0. p \in Processes /\ Idle.step = "idle"
  BY TaskLockAssumption DEF Idle
<1>1. CASE p # q
  <2>1. /\ lock' = lock /\ procs'[p] = procs[p]
    BY <1>0, <1>1, ProcessTokens
  <2>2. \A c \in commands : c.process = p => c \in commands'
    BY <1>1 DEF ProcessStep, AcquireLock, AcquireReply, AcquireFails, Beat, BeatSkipped,
                BeatFails, Finish, ReleaseFails, ConnectionChanges, Crash
  <2> QED
    BY <2>1, <2>2, LeaseFrame
<1>2. CASE p = q
  <2>1. CASE AcquireLock(p)
    BY <1>0, <2>1 DEF AcquireLock, LeaseOf, Types
  <2>2. CASE AcquireReply(p) /\ procs[p].step = "refused"
    BY <1>0, <2>2 DEF AcquireReply, LeaseOf, Types
  <2>3. CASE AcquireReply(p) /\ procs[p].step = "granted"
    BY <2>3, LeaseStarts
  <2>4. CASE AcquireFails(p) \/ ReleaseFails(p) \/ Crash(p)
    BY <1>0, <2>4 DEF AcquireFails, ReleaseFails, Crash, LeaseOf, Types
  <2>5. CASE Beat(p) \/ BeatSkipped(p)
    BY <2>5, LeaseBeats
  <2>6. CASE BeatFails(p)
    BY <2>6, LeaseMisses
  <2>7. CASE Finish(p)
    BY <1>0, <2>7 DEF Finish, LeaseOf, Types, Process
  <2>8. CASE ConnectionChanges(p)
    BY <2>8, LeaseFrame DEF ConnectionChanges
  <2> QED
    BY <1>2, <2>1, <2>2, <2>3, <2>4, <2>5, <2>6, <2>7, <2>8 DEF ProcessStep, AcquireReply
<1> QED
  BY <1>1, <1>2

\* A grant or a refresh gives p the whole lease; no other command touches it.
LEMMA LeaseExecute ==
    ASSUME Types, TokensApart, NEW c \in commands, Execute(c), NEW p \in Prompt, LeaseOf(p)
    PROVE  LeaseOf(p)'
<1>0. /\ p \in Processes /\ procs[p] \in Process /\ Idle.step = "idle"
      /\ c \in Sent /\ c.process \in Processes /\ c.token # NoToken
      /\ commands' = commands \ {c}
      /\ Delay \in Nat /\ TTL \in Nat /\ Interval \in Nat /\ lock.ttl \in Nat
      /\ procs[p].timer \in Nat /\ procs[p].missed \in Nat
  BY ExecuteTokens, IntervalIsNumber, TimerRange, TaskLockAssumption
  DEF Idle, Types, Sent, Tokens, NoToken, Process, Key, NoLock
<1>1. /\ procs[p].step \in {"granted", "running"} => lock.token = procs[p].token
      /\ lock.ttl <= TTL
  <2>1. procs[p].step \in {"granted", "running"} => lock.token = procs[p].token
    BY DEF LeaseOf, Granted, Kept
  <2>2. lock.ttl <= TTL
    BY TaskLockAssumption DEF Types, Key, NoLock
  <2> QED
    BY <2>1, <2>2
<1>2. procs[p].step # "idle" => procs[p].token # NoToken
  BY <1>0 DEF Types, Tokens, NoToken
<1>3. CASE ExecuteSet(c)
  <2>1. CASE procs'[p].step = "granted" /\ procs[p].step # "granted"
    <3>1. /\ c.process = p /\ Waits(p, c.token, "acquiring") /\ lock = NoLock
          /\ procs'[p].timer = Delay /\ procs'[p].token = c.token
      BY <1>0, <1>3, <2>1 DEF ExecuteSet, Waits, Types, Process
    <3>2. lock' = [token |-> c.token, ttl |-> TTL]
      BY <1>3, <3>1 DEF ExecuteSet
    <3> QED
      BY <1>0, <2>1, <3>1, <3>2 DEF LeaseOf, Granted
  <2>2. CASE procs[p].step \in {"granted", "running"}
    <3>1. lock # NoLock
      BY <1>1, <1>2, <2>2 DEF NoLock
    <3>2. lock' = lock /\ procs'[p] = procs[p]
      BY <1>0, <1>3, <2>2, <3>1 DEF ExecuteSet, Waits, Types
    <3> QED
      BY <1>0, <1>3, <3>2, LeaseFrame DEF ExecuteSet
  <2>3. procs'[p].step = "running" => procs[p].step = "running"
    BY <1>0, <1>3 DEF ExecuteSet, Waits, Types, Process
  <2> QED
    BY <2>1, <2>2, <2>3 DEF LeaseOf
<1>4. CASE ExecuteExtend(c)
  <2>1. /\ procs'[p].step = procs[p].step /\ procs'[p].token = procs[p].token
        /\ procs'[p].timer = procs[p].timer
        /\ procs'[p].missed \in Nat
        /\ c.token # procs[p].token => procs'[p] = procs[p]
    BY <1>0, <1>4 DEF ExecuteExtend, Types, Process
  <2>2. CASE procs[p].step \in {"granted", "running"} /\ c.token = procs[p].token
    <3>1. lock'.token = procs[p].token /\ lock'.ttl = TTL
      BY <1>1, <1>4, <2>2 DEF ExecuteExtend, Types, Key, NoLock
    <3>2. procs[p].step = "granted" => procs[p].timer <= Delay
      BY <1>0, <1>1 DEF LeaseOf, Granted
    <3>3. procs[p].step = "running" => procs[p].timer <= Interval
      BY DEF LeaseOf, Kept
    <3>4. procs[p].step = "running" => Beating(p, 0, {})'
      BY <1>0, <2>1, <3>1, <3>3, FS_EmptySet DEF Beating
    <3> QED
      BY <1>0, <2>1, <3>1, <3>2, <3>3, <3>4 DEF LeaseOf, Granted, Kept
  <2>3. CASE procs[p].step \in {"granted", "running"} /\ c.token # procs[p].token
    <3>1. lock' = lock /\ procs'[p] = procs[p]
      BY <1>1, <1>4, <2>1, <2>3 DEF ExecuteExtend
    <3> QED
      BY <1>0, <2>3, <3>1, LeaseFrame
  <2> QED
    BY <2>1, <2>2, <2>3 DEF LeaseOf
<1>5. CASE ExecuteDel(c)
  <2>1. procs'[p] = procs[p] \/ procs'[p].step = "idle"
    BY <1>0, <1>5 DEF ExecuteDel, Types
  <2>2. CASE procs[p].step \in {"granted", "running"} /\ procs'[p] = procs[p]
    <3>1. c.token # procs[p].token
      BY <1>0, <1>5, <2>2 DEF ExecuteDel, TokensApart
    <3>2. lock' = lock
      BY <1>1, <1>5, <2>2, <3>1 DEF ExecuteDel
    <3> QED
      BY <1>0, <2>2, <3>1, <3>2, LeaseFrame
  <2> QED
    BY <2>1, <2>2 DEF LeaseOf
<1> QED
  BY <1>3, <1>4, <1>5 DEF Execute

\* A tick takes a second from the lease and from the timer alike, and makes
\* every heartbeat on its way a second older.
LEMMA LeaseTick ==
    ASSUME Types, Tick, NEW p \in Prompt, LeaseOf(p)
    PROVE  LeaseOf(p)'
<1>0. /\ p \in Processes /\ procs[p] \in Process
      /\ Delay \in Nat /\ TTL \in Nat /\ Interval \in Nat \ {0} /\ lock.ttl \in Nat
      /\ procs[p].timer \in Nat
  BY IntervalIsPositive, TimerRange, TaskLockAssumption
  DEF Types, Process, Key, NoLock
<1>1. /\ procs'[p].step = procs[p].step /\ procs'[p].token = procs[p].token
      /\ procs'[p].missed = procs[p].missed
      /\ procs'[p].timer = IF procs[p].timer > 0 THEN procs[p].timer - 1 ELSE 0
  BY <1>0, TickTokens
<1>2. /\ procs[p].step \in {"granted", "running"} => procs[p].timer > 0
      /\ \A c \in commands : c.process \in Prompt => c.age < Delay
  BY <1>0 DEF Tick
<1>3. lock.ttl > 1 => lock'.token = lock.token /\ lock'.ttl = lock.ttl - 1
  BY <1>0 DEF Tick, Types, Key, NoLock
<1>4. CASE procs[p].step = "granted"
  <2>1. lock.token = procs[p].token /\ TTL + procs[p].timer <= lock.ttl + Delay
    BY <1>4 DEF LeaseOf, Granted
  <2>2. Delay < TTL
    <3>1. 2 * Delay + (MissedBeats + 1) * Interval < TTL /\ MissedBeats \in Nat
      BY TaskLockAssumption
    <3>2. (MissedBeats + 1) * Interval \in Nat
      BY <1>0, <3>1, Multiples
    <3> DEFINE z == (MissedBeats + 1) * Interval
    <3>3. z \in Nat /\ 2 * Delay + z < TTL
      BY <3>1, <3>2
    <3> HIDE DEF z
    <3> QED
      BY <1>0, <3>3
  <2>3. lock.ttl > 1
    BY <1>0, <1>2, <1>4, <2>1, <2>2
  <2> QED
    BY <1>0, <1>1, <1>2, <1>3, <1>4, <2>1, <2>3 DEF LeaseOf, Granted
<1>5. CASE procs[p].step = "running"
  <2>1. lock.token = procs[p].token /\ procs[p].timer <= Interval /\ Kept(p)
    BY <1>5 DEF LeaseOf, Kept
  <2>2. lock.ttl > 1
    BY <1>2, <1>5, <2>1, LeaseLasts
  <2>3. PICK b \in Nat : \E S \in SUBSET (1..b) : Beating(p, b, S)
    BY <2>1 DEF Kept
  <2>4. PICK S \in SUBSET (1..b) : Beating(p, b, S)
    BY <2>3
  <2>5. TTL + procs'[p].timer <= lock'.ttl + Delay + (b + 1) * Interval
    <3>1. TTL + procs[p].timer <= lock.ttl + Delay + (b + 1) * Interval
      BY <2>4 DEF Beating
    <3>2. (b + 1) * Interval \in Nat
      BY <1>0, Multiples
    <3> QED
      BY <1>0, <1>1, <1>2, <1>3, <1>5, <2>2, <3>1, <3>2
  <2>6. \A i \in (1..b) \ S : Heartbeat(p, b, i)' \in commands'
    <3> TAKE i \in (1..b) \ S
    <3> DEFINE h == Heartbeat(p, b, i)
               x == (b - i) * Interval
    <3>1. h \in commands
      BY <2>4 DEF Beating
    <3>2. h.process \in Prompt
      BY DEF Heartbeat
    <3>3. [h EXCEPT !.age = @ + 1] \in commands'
      BY <3>1, <3>2, Zenon DEF Tick
    <3>4. b - i \in Nat /\ x \in Nat
      BY <1>0, Multiples
    <3>5. ((Interval - procs[p].timer) + x) + 1 = (Interval - procs'[p].timer) + x
      <4> HIDE DEF x
      <4> QED
        BY <1>0, <1>1, <1>2, <1>5, <2>1, <3>4
    <3>6. [h EXCEPT !.age = @ + 1] = Heartbeat(p, b, i)'
      BY <1>1, <3>5 DEF Heartbeat
    <3> QED
      BY <3>3, <3>6
  <2>7. Beating(p, b, S)'
    BY <1>1, <2>4, <2>5, <2>6 DEF Beating
  <2> QED
    BY <1>0, <1>1, <1>2, <1>3, <1>5, <2>1, <2>2, <2>7 DEF LeaseOf, Kept
<1> QED
  BY <1>1, <1>4, <1>5 DEF LeaseOf

\* While the task of a process whose heartbeats come in time runs, the key is
\* its own: the lease outlives the answer to the set, every heartbeat that is on
\* its way, and as many missed ones as the timing allows.
THEOREM LeaseAlwaysHeld == Spec => []LeaseHeld
<1> DEFINE Inv == Types /\ TokensApart /\ Leases
<1>1. Init => Inv
  <2> SUFFICES ASSUME Init PROVE Inv
    OBVIOUS
  <2>1. TokensApart
    BY DEF Init, TokensApart, Idle, NoToken
  <2>2. Leases
    BY TaskLockAssumption DEF Init, Leases, LeaseOf, Idle
  <2> QED
    BY <2>1, <2>2, TypesInit
<1>2. Inv /\ [Next]_vars => Inv'
  <2> SUFFICES ASSUME Inv, [Next]_vars PROVE Inv'
    OBVIOUS
  <2>1. Types' /\ TokensApart'
    BY TypesStep, TokensStep
  <2>2. ASSUME NEW p \in Prompt PROVE LeaseOf(p)'
    <3>1. LeaseOf(p)
      BY DEF Leases
    <3>2. CASE UNCHANGED vars
      BY <3>1, <3>2, LeaseFrame DEF vars
    <3> QED
      BY <3>1, <3>2, LeaseProcess, LeaseExecute, LeaseTick DEF Next
  <2>3. Leases'
    BY <2>2 DEF Leases
  <2> QED
    BY <2>1, <2>3
<1>3. Inv => LeaseHeld
  BY DEF Leases, LeaseOf, Kept, LeaseHeld
<1> QED
  BY <1>1, <1>2, <1>3, PTL DEF Spec
=============================================================================
