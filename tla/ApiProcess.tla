------------------------------ MODULE ApiProcess ------------------------------
(***************************************************************************)
(* The life of an API process: startServer and the shutdown it installs    *)
(* (app.js), with what its steps do in config/db.js, secrets.js, the       *)
(* lock manager, the two SVD caches, the KMS signer, SvdService,           *)
(* JobService and UtxoManagerService.                                      *)
(*                                                                         *)
(* An error of startServer rejects its promise.  Nobody awaits it, and the *)
(* listener for unhandledRejection only logs: the process stays as long as *)
(* an open connection keeps its event loop alive.  The rate limiters' own  *)
(* client of Redis, connected while the routes are required and never      *)
(* closed, is such a connection whenever Redis answered it; it has no      *)
(* listener for errors, and gives up when its first connect fails.         *)
(***************************************************************************)
EXTENDS Naturals, FiniteSets

CONSTANTS
    Connections,    \* clients' connections to the HTTP server
    Signals,        \* SIGTERM and SIGINT the process may receive
    MaxRetries      \* attempts of initDb

ASSUME ProcessAssumption ==
    /\ IsFiniteSet(Connections)
    /\ MaxRetries \in Nat \ {0}

VARIABLES
    config,     \* the environment the process was started with
    phase,      \* where the process stands between two awaits
    attempts,   \* of initDb
    db,         \* mongoose's connection
    clients,    \* the Redis clients
    redisUp,    \* does Redis answer?
    conns,      \* state of each connection
    closers,    \* the cleanup each signal has started
    exitCode

vars == <<config, phase, attempts, db, clients, redisUp, conns, closers, exitCode>>

-----------------------------------------------------------------------------
\* Of the required secrets, those that a later step asks for again.
Secrets == {"MONGODB_URI", "REDIS_URL", "KMS_SIGN_URL"}

\* The password of Redis comes from REDIS_PASSWORD or from the URL; KMS_SIGN_URL is that of
\* a KMS or `mock', and SVD_USE_KMS asks for the KMS whatever its URL.
Config ==
    [production : BOOLEAN, missing : SUBSET Secrets, mongoAuth : BOOLEAN,
     redisAuth : {"none", "url", "password"}, kms : {"real", "mock", "forced"},
     selfTest : BOOLEAN, jobsAsync : BOOLEAN, funding : BOOLEAN]

Starting == {"secrets", "db", "lock", "caches", "services", "jobs", "utxo"}

RedisClients == {"lock", "replay", "challenge", "jobs"}

CloserSteps == {"none", "waiting", "jobs", "replay", "challenge", "db"}

NoExit == 255

ProcTypeOK ==
    /\ config \in Config
    /\ phase \in Starting \cup {"rejected", "deaf", "listening", "closing", "gone"}
    /\ attempts \in 0..MaxRetries
    /\ db \in {"none", "connected", "closed"}
    /\ clients \in [RedisClients -> {"none", "connecting", "ready", "closed"}]
    /\ redisUp \in BOOLEAN
    /\ conns \in [Connections -> {"none", "idle", "serving"}]
    /\ closers \in [Signals -> CloserSteps]
    /\ exitCode \in {NoExit, 0, 1, 143}

\* What only production looks at.
Unread == [mongoAuth |-> TRUE, redisAuth |-> "password", kms |-> "real", funding |-> TRUE]

Init ==
    /\ config \in Config
    /\ ~config.production => \A f \in DOMAIN Unread : config[f] = Unread[f]
    /\ phase = "secrets"
    /\ attempts = 0
    /\ db = "none"
    /\ clients = [c \in RedisClients |-> "none"]
    /\ redisUp \in BOOLEAN
    /\ conns = [c \in Connections |-> "none"]
    /\ closers = [s \in Signals |-> "none"]
    /\ exitCode = NoExit

serving == <<conns, closers>>

Goto(p) == phase' = p /\ UNCHANGED exitCode
Exit(code) == phase' = "gone" /\ exitCode' = code

\* A connection that start-up itself has opened holds the event loop.
HoldsLoop == db = "connected" \/ \E c \in RedisClients : clients[c] # "none"

\* startServer throws: the process stays, useless; or, when neither the limiters'
\* client nor start-up has a connection, nothing is left to run and it ends with 0.
Reject ==
    \/ Goto("rejected")
    \/ ~HoldsLoop /\ Exit(0)

-----------------------------------------------------------------------------
(* Start-up *)

\* validateRequiredSecrets.
ValidateSecrets ==
    /\ phase = "secrets"
    /\ IF config.production /\ config.missing # {} THEN Exit(1) ELSE Goto("db")
    /\ UNCHANGED <<config, attempts, db, clients, redisUp, serving>>

UnsafeMongo ==
    \/ "MONGODB_URI" \in config.missing
    \/ config.production /\ ~config.mongoAuth

\* Mutants of InitDb: the attempts start again when they are used up; one too many.
InitDbForever ==
    /\ phase = "db"
    /\ IF UnsafeMongo THEN Reject /\ UNCHANGED <<attempts, db>>
       ELSE \/ Goto("lock") /\ db' = "connected" /\ UNCHANGED attempts
            \/ /\ attempts' = (attempts + 1) % MaxRetries
               /\ Goto("db")
               /\ UNCHANGED db
    /\ UNCHANGED <<config, clients, redisUp, serving>>
InitDbOnceMore ==
    /\ phase = "db"
    /\ IF UnsafeMongo THEN Reject /\ UNCHANGED <<attempts, db>>
       ELSE \/ Goto("lock") /\ db' = "connected" /\ UNCHANGED attempts
            \/ /\ attempts' = attempts + 1
               /\ IF attempts >= MaxRetries THEN Reject ELSE Goto("db")
               /\ UNCHANGED db
    /\ UNCHANGED <<config, clients, redisUp, serving>>

\* initDb, one attempt to connect.
InitDb ==
    /\ phase = "db"
    /\ IF UnsafeMongo THEN Reject /\ UNCHANGED <<attempts, db>>
       ELSE \/ Goto("lock") /\ db' = "connected" /\ UNCHANGED attempts
            \/ /\ attempts' = attempts + 1
               /\ IF attempts' >= MaxRetries THEN Reject ELSE Goto("db")
               /\ UNCHANGED db
    /\ UNCHANGED <<config, clients, redisUp, serving>>

\* lockManager.initialize: the client of node-redis retries, as reconnectStrategy asks,
\* until Redis answers.  In production an unauthenticated client is refused; the error is
\* logged, and there will be no locks.
InitLock ==
    /\ phase = "lock"
    /\ \/ /\ config.production /\ config.redisAuth = "none"
          /\ UNCHANGED clients
       \/ /\ ~(config.production /\ config.redisAuth = "none")
          /\ redisUp
          /\ clients' = [clients EXCEPT !["lock"] = "ready"]
    /\ Goto("caches")
    /\ UNCHANGED <<config, attempts, db, redisUp, serving>>

\* The test for a password in the URL looks for a backslash and never finds one.
UnsafeRedis == config.production /\ config.redisAuth # "password"

\* new IORedis, for each cache.
CachesConnect ==
    clients' = [clients EXCEPT !["replay"] = "connecting", !["challenge"] = "connecting"]

\* Mutant of InitCaches: the first error is caught and logged like the lock manager's.
InitCachesAnyway ==
    /\ phase = "caches"
    /\ Goto("services")
    /\ CachesConnect
    /\ UNCHANGED <<config, attempts, db, redisUp, serving>>

\* initialize of the replay cache and of the challenge cache, which do not wait for Redis.
InitCaches ==
    /\ phase = "caches"
    /\ IF "REDIS_URL" \in config.missing
       THEN Goto("services") /\ UNCHANGED clients
       ELSE IF UnsafeRedis THEN Exit(1) /\ UNCHANGED clients
       ELSE /\ Goto("services")
            /\ CachesConnect
    /\ UNCHANGED <<config, attempts, db, redisUp, serving>>

\* The client's `ready' event; nothing takes isReady back.
ClientReady(c) ==
    /\ phase # "gone"
    /\ redisUp
    /\ clients[c] = "connecting"
    /\ clients' = [clients EXCEPT ![c] = "ready"]
    /\ UNCHANGED <<config, phase, attempts, db, redisUp, serving, exitCode>>

\* kmsSigner.isReady.
KmsReady == "KMS_SIGN_URL" \notin config.missing

\* useKmsForSvd.
UsesKms == config.kms = "forced" \/ (config.kms = "real" /\ KmsReady)

\* kmsSigner, svdService and wocClient, then the self-test, in one run to the next await.
InitServices ==
    /\ phase = "services"
    /\ IF config.production /\ ~UsesKms THEN Exit(1)
       ELSE IF ~config.selfTest THEN Reject
       ELSE Goto("jobs")
    /\ UNCHANGED <<config, attempts, db, clients, redisUp, serving>>

\* authService.initialize, whose errors only leave it without a transport, and
\* jobService.initialize.
InitJobs ==
    /\ phase = "jobs"
    /\ clients' = IF config.jobsAsync /\ ~UnsafeRedis
                  THEN [clients EXCEPT !["jobs"] = "connecting"] ELSE clients
    /\ Goto("utxo")
    /\ UNCHANGED <<config, attempts, db, redisUp, serving>>

\* utxoManagerService.initialize: process.exit(1) without its keys.
NoFunding == config.production /\ ~config.funding

\* utxoManagerService.initialize and listen.  A port in use is an uncaught exception, which
\* is logged.
Listen ==
    /\ phase = "utxo"
    /\ IF NoFunding THEN Exit(1)
       ELSE Goto("listening") \/ Goto("deaf")
    /\ UNCHANGED <<config, attempts, db, clients, redisUp, serving>>

-----------------------------------------------------------------------------
(* Requests *)

\* A request arrives, on a new connection or on one that was kept alive.
Arrive(c) ==
    /\ \/ phase = "listening"
       \/ phase = "closing" /\ conns[c] = "idle"
    /\ conns[c] # "serving"
    /\ conns' = [conns EXCEPT ![c] = "serving"]
    /\ UNCHANGED <<config, phase, attempts, db, clients, redisUp, closers, exitCode>>

Answer(c) ==
    /\ phase # "gone"
    /\ conns[c] = "serving"
    /\ conns' = [conns EXCEPT ![c] = "idle"]
    /\ UNCHANGED <<config, phase, attempts, db, clients, redisUp, closers, exitCode>>

\* The client, or the keep-alive timeout, ends an idle connection.
Hangup(c) ==
    /\ phase # "gone"
    /\ conns[c] = "idle"
    /\ conns' = [conns EXCEPT ![c] = "none"]
    /\ UNCHANGED <<config, phase, attempts, db, clients, redisUp, closers, exitCode>>

-----------------------------------------------------------------------------
(* Shutdown *)

\* shutdown: server.close, and a timer.  Before listen() there is no handler, and the
\* signal kills the process.
Signal(s) ==
    /\ closers[s] = "none"
    /\ \/ /\ phase \in {"listening", "deaf", "closing"}
          /\ Goto("closing")
          /\ closers' = [closers EXCEPT ![s] = "waiting"]
       \/ /\ phase \in Starting \cup {"rejected"}
          /\ Exit(143)
          /\ UNCHANGED closers
    /\ UNCHANGED <<config, attempts, db, clients, redisUp, conns>>

\* Mutant of ServerClosed: the cleanup does not wait for the connections.
ServerClosedAtOnce(s) ==
    /\ phase = "closing"
    /\ closers[s] = "waiting"
    /\ closers' = [closers EXCEPT ![s] = "jobs"]
    /\ UNCHANGED <<config, phase, attempts, db, clients, redisUp, conns, exitCode>>

\* The callback of server.close, when the last connection has ended.
ServerClosed(s) ==
    /\ phase = "closing"
    /\ closers[s] = "waiting"
    /\ \A c \in Connections : conns[c] = "none"
    /\ closers' = [closers EXCEPT ![s] = "jobs"]
    /\ UNCHANGED <<config, phase, attempts, db, clients, redisUp, conns, exitCode>>

\* One close() of the cleanup; errors are logged, and the next one is tried.  Only
\* the job queue's client keeps its commands until Redis is back.
CloseClient(s, c, next) ==
    /\ phase = "closing"
    /\ closers[s] = c
    /\ (c = "jobs" /\ clients[c] \in {"connecting", "ready"}) => redisUp
    /\ closers' = [closers EXCEPT ![s] = next]
    /\ \/ clients[c] # "none" /\ clients' = [clients EXCEPT ![c] = "closed"]
       \/ (clients[c] = "none" \/ ~redisUp) /\ UNCHANGED clients
    /\ UNCHANGED <<config, phase, attempts, db, redisUp, conns, exitCode>>

\* closeDb, then process.exit(0).
CloseDb(s) ==
    /\ phase = "closing"
    /\ closers[s] = "db"
    /\ db' = "closed"
    /\ Exit(0)
    /\ UNCHANGED <<config, attempts, clients, redisUp, serving>>

\* Mutant of ForceExit: the timer is set when the server has closed.
ForceExitLater ==
    /\ phase = "closing"
    /\ \A s \in Signals : closers[s] # "waiting"
    /\ Exit(1)
    /\ UNCHANGED <<config, attempts, db, clients, redisUp, serving>>

\* `Fallback: force-exit if something hangs', 10 s after the first signal.
ForceExit ==
    /\ phase = "closing"
    /\ Exit(1)
    /\ UNCHANGED <<config, attempts, db, clients, redisUp, serving>>

RedisFlips ==
    /\ phase # "gone"
    /\ redisUp' = ~redisUp
    /\ UNCHANGED <<config, phase, attempts, db, clients, serving, exitCode>>

-----------------------------------------------------------------------------
StartupStep ==
    \/ ValidateSecrets \/ InitDb \/ InitLock \/ InitCaches \/ InitServices
    \/ InitJobs \/ Listen

Cleanup(s) ==
    \/ ServerClosed(s)
    \/ CloseClient(s, "jobs", "replay") \/ CloseClient(s, "replay", "challenge")
    \/ CloseClient(s, "challenge", "db")
    \/ CloseDb(s)

Next ==
    \/ StartupStep
    \/ \E c \in RedisClients : ClientReady(c)
    \/ \E c \in Connections : Arrive(c) \/ Answer(c) \/ Hangup(c)
    \/ \E s \in Signals : Signal(s) \/ Cleanup(s)
    \/ ForceExit
    \/ RedisFlips

\* Node runs the next step of startServer when its await is over, and timers when they are
\* due.  Nothing is assumed of clients, of handlers, of Redis or of close().
Spec == Init /\ [][Next]_vars /\ WF_vars(StartupStep) /\ WF_vars(ForceExit)

-----------------------------------------------------------------------------
(* Properties *)

\* In production the server answers nobody unless every credential is in place: required
\* secrets, passwords for MongoDB and Redis, the KMS, the funding keys and a self-test
\* that passed, though ten steps of eight files decide it, each in its own way, and four
\* of them only log their errors.
ProductionGuarded ==
    config.production /\ phase \in {"listening", "closing"} =>
        /\ config.missing = {} /\ config.mongoAuth /\ config.redisAuth = "password"
        /\ UsesKms /\ config.selfTest /\ config.funding
        /\ db # "none" /\ \A c \in {"replay", "challenge"} : clients[c] # "none"

\* A graceful exit cuts nobody short: while a request is being served, the stores it works
\* with are open, whatever signals have come, and exit code 0 means that none was left.
StoresOutliveRequests ==
    \A c \in Connections :
        conns[c] = "serving" =>
            /\ db = "connected"
            /\ \A r \in RedisClients : clients[r] # "closed"
            /\ exitCode # 0

\* A process told to stop does so, even if a request, a quit() or a connection hangs.
ShutdownEnds == (phase = "closing") ~> (phase = "gone")

\* If Redis comes up, start-up ends: the retries of initDb and every wait are bounded.  As
\* long as Redis is down, lockManager.initialize is waited for.
StartupSettles == <>[]redisUp => (phase \in Starting ~> phase \notin Starting)
=============================================================================
