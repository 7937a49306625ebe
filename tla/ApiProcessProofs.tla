--------------------------- MODULE ApiProcessProofs ---------------------------
(* What ApiProcess guarantees for any number of connections, signals and attempts. *)
EXTENDS ApiProcess, TLAPS

(* Phases in which startServer has got past an await. *)
Up(starting) == phase \in starting \cup {"deaf", "listening", "closing"}

PastDb == {"lock", "caches", "services", "jobs", "utxo"}

PastCaches == {"services", "jobs", "utxo"}

\* What each step of start-up leaves behind in production.
Checked ==
    config.production =>
        /\ Up(PastDb \cup {"db"}) => config.missing = {}
        /\ Up(PastDb) => config.mongoAuth
        /\ Up(PastCaches) =>
              /\ config.redisAuth = "password"
              /\ \A c \in {"replay", "challenge"} : clients[c] # "none"
        /\ Up({"jobs", "utxo"}) => UsesKms /\ config.selfTest
        /\ Up({}) => config.funding

Connected == Up(PastDb) => db = "connected"

\* Nothing is served, and nothing closed, before listen() and before a signal.
Quiet ==
    /\ phase \in Starting \cup {"rejected", "deaf"} => \A c \in Connections : conns[c] = "none"
    /\ phase \notin {"closing", "gone"} =>
          /\ \A s \in Signals : closers[s] = "none"
          /\ \A r \in RedisClients : clients[r] # "closed"
    /\ phase # "gone" => exitCode = NoExit

CleaningUp ==
    \/ \E s \in Signals : closers[s] \notin {"none", "waiting"}
    \/ \E r \in RedisClients : clients[r] = "closed"
    \/ db = "closed"
    \/ exitCode = 0

\* Once a cleanup has begun, or the process has exited with 0, no connection is left, and
\* none comes.
Drained == CleaningUp => \A c \in Connections : conns[c] = "none"

Served == \A c \in Connections : conns[c] = "serving" => db = "connected"

\* Before it connects, initDb has an attempt left.
Retrying == phase \in {"secrets", "db"} => attempts < MaxRetries

ProcInv == ProcTypeOK /\ Retrying /\ Checked /\ Connected /\ Quiet /\ Drained /\ Served

-----------------------------------------------------------------------------
(* The process starts with nothing open, nothing served and nothing closed. *)
LEMMA ProcInit == Init => ProcInv
  BY ProcessAssumption
     DEF Init, ProcInv, ProcTypeOK, Checked, Connected, Quiet, Drained, CleaningUp, Served, Up,
         Retrying, PastDb, PastCaches, Starting, RedisClients, CloserSteps, NoExit

(* Every step of a process keeps its variables in their types. *)
LEMMA ProcTypeNext == ProcTypeOK /\ Retrying /\ [Next]_vars => ProcTypeOK' /\ Retrying'
<1> SUFFICES ASSUME ProcTypeOK, Retrying, [Next]_vars PROVE ProcTypeOK' /\ Retrying'
  OBVIOUS
<1> USE ProcessAssumption DEF ProcTypeOK, Retrying, Starting, RedisClients, CloserSteps, NoExit
<1>1. CASE ValidateSecrets \/ InitServices \/ Listen
  BY <1>1 DEF ValidateSecrets, InitServices, Listen, Reject, Goto, Exit, serving
<1>2. CASE InitDb
  BY <1>2 DEF InitDb, Reject, Goto, Exit, serving
<1>3. CASE InitLock \/ InitCaches \/ InitJobs
  BY <1>3 DEF InitLock, InitCaches, CachesConnect, InitJobs, Goto, Exit, serving
<1>4. ASSUME NEW c \in RedisClients, ClientReady(c) PROVE ProcTypeOK' /\ Retrying'
  BY <1>4 DEF ClientReady, serving
<1>5. ASSUME NEW c \in Connections, Arrive(c) \/ Answer(c) \/ Hangup(c)
      PROVE ProcTypeOK' /\ Retrying'
  BY <1>5 DEF Arrive, Answer, Hangup
<1>6. ASSUME NEW s \in Signals, Signal(s) PROVE ProcTypeOK' /\ Retrying'
  BY <1>6 DEF Signal, Goto, Exit
<1>7. ASSUME NEW s \in Signals, Cleanup(s) PROVE ProcTypeOK' /\ Retrying'
  <2>1. CASE ServerClosed(s) \/ CloseDb(s)
    BY <2>1 DEF ServerClosed, CloseDb, Exit, serving
  <2>2. ASSUME NEW c \in RedisClients, NEW next \in CloserSteps, CloseClient(s, c, next)
        PROVE ProcTypeOK' /\ Retrying'
    BY <2>2 DEF CloseClient
  <2> QED
    BY <1>7, <2>1, <2>2 DEF Cleanup
<1>8. CASE ForceExit
  BY <1>8 DEF ForceExit, Exit, serving
<1>9. CASE RedisFlips
  <2>1. redisUp' \in BOOLEAN
    BY <1>9, Zenon DEF RedisFlips
  <2> QED
    BY <1>9, <2>1 DEF RedisFlips, serving
<1>10. CASE UNCHANGED vars
  BY <1>10 DEF vars
<1> HIDE DEF ProcTypeOK, Retrying, Starting, RedisClients
<1> QED
  BY <1>1, <1>2, <1>3, <1>4, <1>5, <1>6, <1>7, <1>8, <1>9, <1>10 DEF Next, StartupStep

-----------------------------------------------------------------------------
(* A start-up step that goes on has checked what Checked says of the next phase. *)
LEMMA StartupChecks == ProcTypeOK /\ Checked /\ StartupStep => Checked'
<1> SUFFICES ASSUME ProcTypeOK, Checked, StartupStep PROVE Checked'
  OBVIOUS
<1> USE DEF ProcTypeOK, Checked, Up, PastDb, PastCaches, RedisClients, Goto, Exit, Reject, serving
<1>1. CASE ValidateSecrets
  BY <1>1 DEF ValidateSecrets, UsesKms, KmsReady
<1>2. CASE InitDb
  BY <1>2 DEF InitDb, UnsafeMongo, UsesKms, KmsReady
<1>3. CASE InitLock
  BY <1>3 DEF InitLock, UsesKms, KmsReady
<1>4. CASE InitCaches
  BY <1>4 DEF InitCaches, CachesConnect, UnsafeRedis, UsesKms, KmsReady
<1>5. CASE InitServices
  BY <1>5 DEF InitServices, UsesKms, KmsReady
<1>6. CASE InitJobs
  BY <1>6 DEF InitJobs, UsesKms, KmsReady
<1>7. CASE Listen
  BY <1>7 DEF Listen, NoFunding, UsesKms, KmsReady
<1> QED
  BY <1>1, <1>2, <1>3, <1>4, <1>5, <1>6, <1>7 DEF StartupStep

(* No later step undoes a check: nothing starts again, and no client is forgotten. *)
LEMMA CheckedStays == ProcTypeOK /\ Checked /\ [Next]_vars => Checked'
<1> SUFFICES ASSUME ProcTypeOK, Checked, [Next]_vars PROVE Checked'
  OBVIOUS
<1>1. CASE StartupStep
  BY <1>1, StartupChecks
<1>2. ASSUME config' = config,
             phase' = phase \/ phase' = "gone"
               \/ (phase' = "closing" /\ phase \in {"listening", "deaf", "closing"}),
             \A r \in RedisClients : clients[r] # "none" => clients'[r] # "none"
      PROVE  Checked'
  BY <1>2 DEF Checked, Up, PastDb, PastCaches, RedisClients, UsesKms, KmsReady
<1>3. ASSUME NEW c \in RedisClients, ClientReady(c) PROVE Checked'
  BY <1>2, <1>3 DEF ClientReady, serving, ProcTypeOK
<1>4. ASSUME NEW c \in Connections, Arrive(c) \/ Answer(c) \/ Hangup(c) PROVE Checked'
  BY <1>2, <1>4 DEF Arrive, Answer, Hangup
<1>5. ASSUME NEW s \in Signals, Signal(s) PROVE Checked'
  BY <1>2, <1>5 DEF Signal, Goto, Exit
<1>6. ASSUME NEW s \in Signals, Cleanup(s) PROVE Checked'
  <2>1. CASE ServerClosed(s) \/ CloseDb(s)
    BY <1>2, <2>1 DEF ServerClosed, CloseDb, Exit, serving
  <2>2. ASSUME NEW c \in RedisClients, NEW next \in CloserSteps, CloseClient(s, c, next)
        PROVE  Checked'
    BY <1>2, <2>2 DEF CloseClient, ProcTypeOK
  <2> QED
    BY <1>6, <2>1, <2>2 DEF Cleanup, RedisClients, CloserSteps
<1>7. CASE ForceExit \/ RedisFlips
  BY <1>2, <1>7 DEF ForceExit, RedisFlips, Exit, serving
<1>8. CASE UNCHANGED vars
  BY <1>2, <1>8 DEF vars
<1> QED
  BY <1>1, <1>3, <1>4, <1>5, <1>6, <1>7, <1>8 DEF Next

-----------------------------------------------------------------------------
(* What a graceful exit needs to know: which stores are open, and who is served. *)
Graceful == Connected /\ Quiet /\ Drained /\ Served

(* Start-up serves nobody, and opens the database before it gets past initDb. *)
LEMMA StartupIsQuiet == ProcTypeOK /\ Graceful /\ StartupStep => Graceful'
<1> SUFFICES ASSUME ProcTypeOK, Graceful, StartupStep PROVE Graceful'
  OBVIOUS
<1>1. conns' = conns /\ closers' = closers
  BY DEF StartupStep, ValidateSecrets, InitDb, InitLock, InitCaches, InitServices, InitJobs,
         Listen, serving
<1>2. phase \in Starting
  BY DEF StartupStep, ValidateSecrets, InitDb, InitLock, InitCaches, InitServices, InitJobs,
         Listen, Starting
<1>3. \A c \in Connections : conns[c] = "none"
  BY <1>2 DEF Graceful, Quiet
<1>4. Drained' /\ Served'
  BY <1>1, <1>3 DEF Drained, Served
<1>5. \A r \in RedisClients : clients'[r] # "closed"
  BY <1>2 DEF Graceful, Quiet, ProcTypeOK, RedisClients, Starting, StartupStep, ValidateSecrets,
              InitDb, InitLock, InitCaches, CachesConnect, InitServices, InitJobs, Listen
<1>6. phase' # "gone" => exitCode' = exitCode
  BY DEF StartupStep, ValidateSecrets, InitDb, InitLock, InitCaches, InitServices, InitJobs,
         Listen, Reject, Goto, Exit
<1>7. Quiet'
  BY <1>1, <1>2, <1>3, <1>5, <1>6 DEF Graceful, Quiet, Starting
<1>8. Connected'
  BY DEF Graceful, Connected, Up, PastDb, StartupStep, ValidateSecrets, InitDb, InitLock,
         InitCaches, InitServices, InitJobs, Listen, Reject, Goto, Exit, serving
<1> QED
  BY <1>4, <1>7, <1>8 DEF Graceful

(* The last answer comes before the first close(), and no request after it. *)
LEMMA GracefulNext == ProcTypeOK /\ Graceful /\ [Next]_vars => Graceful'
<1> SUFFICES ASSUME ProcTypeOK, Graceful, [Next]_vars PROVE Graceful'
  OBVIOUS
<1>1. CASE StartupStep
  BY <1>1, StartupIsQuiet
<1> USE DEF Graceful, Connected, Quiet, Drained, CleaningUp, Served, Up, PastDb, Starting,
            NoExit
<1>2. ASSUME NEW c \in RedisClients, ClientReady(c) PROVE Graceful'
  BY <1>2 DEF ClientReady, serving, ProcTypeOK
<1>3. ASSUME NEW c \in Connections, Arrive(c) PROVE Graceful'
  BY <1>3 DEF Arrive, ProcTypeOK
<1>4. ASSUME NEW c \in Connections, Answer(c) \/ Hangup(c) PROVE Graceful'
  BY <1>4 DEF Answer, Hangup, ProcTypeOK
<1>5. ASSUME NEW s \in Signals, Signal(s) PROVE Graceful'
  BY <1>5 DEF Signal, Goto, Exit, ProcTypeOK
<1>6. ASSUME NEW s \in Signals, Cleanup(s) PROVE Graceful'
  <2>1. CASE ServerClosed(s)
    BY <2>1 DEF ServerClosed, ProcTypeOK
  <2>2. CASE CloseDb(s)
    BY <2>2 DEF CloseDb, Exit, serving, ProcTypeOK
  <2>3. ASSUME NEW c \in RedisClients, NEW next \in CloserSteps, CloseClient(s, c, next),
               c # "lock"
        PROVE  Graceful'
    <3>1. \A k \in Connections : conns[k] = "none"
      BY <2>3 DEF CloseClient, RedisClients
    <3> QED
      BY <2>3, <3>1 DEF CloseClient
  <2> QED
    BY <1>6, <2>1, <2>2, <2>3 DEF Cleanup, RedisClients, CloserSteps
<1>7. CASE ForceExit \/ RedisFlips
  BY <1>7 DEF ForceExit, RedisFlips, Exit, serving
<1>8. CASE UNCHANGED vars
  BY <1>8 DEF vars
<1> HIDE DEF Graceful
<1> QED
  BY <1>1, <1>2, <1>3, <1>4, <1>5, <1>6, <1>7, <1>8 DEF Next

-----------------------------------------------------------------------------
(* The invariant of an API process, for any number of connections and signals. *)
THEOREM InductiveInvariant == Spec => []ProcInv
<1>1. ProcInv /\ [Next]_vars => ProcInv'
  BY ProcTypeNext, CheckedStays, GracefulNext DEF ProcInv, Graceful
<1> QED
  BY ProcInit, <1>1, PTL DEF Spec

(* The type invariant; above all, initDb never uses more attempts than it has. *)
THEOREM TypeCorrect == Spec => []ProcTypeOK
<1>1. ProcInv => ProcTypeOK
  BY DEF ProcInv
<1> QED
  BY InductiveInvariant, <1>1, PTL

(* Whatever fails, and however late: production serves only with every credential in place. *)
THEOREM ProductionIsGuarded == Spec => []ProductionGuarded
<1>1. ProcInv => ProductionGuarded
  BY DEF ProcInv, Checked, Connected, ProductionGuarded, Up, PastDb, PastCaches
<1> QED
  BY InductiveInvariant, <1>1, PTL

(* However many signals come, and however their cleanups overlap: no store is closed, and no
   exit called graceful, while a request is being served. *)
THEOREM StoresStayOpen == Spec => []StoresOutliveRequests
<1>1. ProcInv => StoresOutliveRequests
  BY DEF ProcInv, Drained, CleaningUp, Served, StoresOutliveRequests
<1> QED
  BY InductiveInvariant, <1>1, PTL
=============================================================================
