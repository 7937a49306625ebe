-------------------------- MODULE EmailVerification --------------------------
(***************************************************************************)
(* Login by a code sent by mail: services/authService.js behind the rate   *)
(* limiters of middleware/authRateLimiter.js, the collection               *)
(* VerificationCode and its TTL index, the email queue of                  *)
(* services/jobService.js and its worker.                                  *)
(*                                                                         *)
(* Rows and mails belong to one identifier each, so the model has one.     *)
(* The index on it is not unique: two upserts that both find no row insert *)
(* two.  Limits belong to keys, and an identifier has no key of its own:   *)
(* getNormalizedKey takes a `userId' of the body first, then the           *)
(* identifier, then the IP, before validateRequest looks at the body.      *)
(* Limits and mail jobs are in one Redis, which may lose them.             *)
(***************************************************************************)
EXTENDS Naturals, FiniteSets

CONSTANTS
    MaxCodes,           \* bound of the model: codes requested
    MaxSubmits,         \* bound of the model: codes submitted
    Keys,               \* what the limiters may count a request under
    RequestMax,         \* AUTH_REQUEST_MAX per AUTH_REQUEST_WINDOW_MS
    RequestWindow,
    SubmitMax,          \* AUTH_SUBMIT_MAX per AUTH_SUBMIT_WINDOW_MS
    SubmitWindow,
    CodeTTL,            \* `expires' of VerificationCode.createdAt
    Async,              \* JOBS_ASYNC: mails go through the queue
    MaxAttempts,        \* `attempts' of a mail job
    MaxStalls,          \* maxStalledCount of BullMQ
    MaxFaults,          \* bound of the model: deaths of a worker, and restarts of Redis
                        \* without its data
    MaxTime             \* bound of the model: the clock

ASSUME EmailAssumption ==
    /\ {MaxCodes, MaxSubmits, CodeTTL, MaxStalls, MaxFaults, MaxTime} \subseteq Nat
    /\ {RequestMax, RequestWindow, SubmitMax, SubmitWindow, MaxAttempts} \subseteq Nat \ {0}
    /\ Async \in BOOLEAN

\* Codes are numbered as they are requested; random codes are taken to differ.  0 is a
\* code that was never sent: a typing mistake, or a guess.
Codes == 1..MaxCodes
Submits == 1..MaxSubmits

VARIABLES
    now,
    limits,     \* by limiter and key: hits in the current window, and its end
    requests,   \* requestVerification of each code, createdAt, and the key it counts under
    rows,       \* VerificationCode: the codes whose hashes are stored
    jobs,       \* mail job of each code
    inbox,      \* codes that have arrived
    submits,    \* submitVerification: what was provided, which row it took
    crashes,
    losses

vars == <<now, limits, requests, rows, jobs, inbox, submits, crashes, losses>>

Answers == {"none", "TOKEN", "NOT_FOUND", "INVALID", "ERROR"}

Limiters == {"request", "submit"}

Max(l) == IF l = "request" THEN RequestMax ELSE SubmitMax
Window(l) == IF l = "request" THEN RequestWindow ELSE SubmitWindow

TypeOK ==
    /\ now \in 0..MaxTime
    /\ limits \in [Limiters \X Keys -> [hits : Nat, reset : Nat]]
    /\ \A l \in Limiters, k \in Keys : limits[<<l, k>>].hits <= Max(l)
    /\ requests \in [Codes ->
          [phase : {"none", "storing", "inserting", "mailing", "sent", "failed"},
           at : 0..MaxTime, key : Keys \cup {0}]]
    /\ rows \subseteq Codes
    /\ jobs \in [Codes -> [state : {"none", "waiting", "active", "done", "failed", "lost"},
                           attempts : 0..MaxAttempts, stalls : 0..MaxStalls]]
    /\ inbox \subseteq Codes
    /\ submits \in [Submits -> [phase : {"none", "asked", "comparing", "done"},
                                provided : Codes \cup {0}, took : Codes \cup {0},
                                answer : Answers]]
    /\ crashes \in 0..MaxFaults
    /\ losses \in 0..MaxFaults

NoHits == [x \in Limiters \X Keys |-> [hits |-> 0, reset |-> 0]]

Init ==
    /\ now = 0
    /\ limits = NoHits
    /\ requests = [c \in Codes |-> [phase |-> "none", at |-> 0, key |-> 0]]
    /\ rows = {}
    /\ jobs = [c \in Codes |-> [state |-> "none", attempts |-> 0, stalls |-> 0]]
    /\ inbox = {}
    /\ submits = [s \in Submits |->
                     [phase |-> "none", provided |-> 0, took |-> 0, answer |-> "none"]]
    /\ crashes = 0
    /\ losses = 0

-----------------------------------------------------------------------------
(* Limiters *)

\* A request passes limiter l under key k.  The key's window starts with the first hit; a
\* refused request changes nothing.  `skip' is asked before the handler runs, so successes
\* count as well.
Passes(l, k) ==
    IF now >= limits[<<l, k>>].reset
    THEN limits' = [limits EXCEPT ![<<l, k>>] = [hits |-> 1, reset |-> now + Window(l)]]
    ELSE /\ limits[<<l, k>>].hits < Max(l)
         /\ limits' = [limits EXCEPT ![<<l, k>>].hits = @ + 1]

-----------------------------------------------------------------------------
(* requestVerification *)

Phase(c, phase) == requests' = [requests EXCEPT ![c].phase = phase]

Request(c) ==
    /\ requests[c].phase = "none"
    /\ \A d \in Codes : d < c => requests[d].phase # "none"
    /\ \E k \in Keys :
          /\ Passes("request", k)
          /\ requests' = [requests EXCEPT ![c] = [phase |-> "storing", at |-> now, key |-> k]]
    /\ UNCHANGED <<now, rows, jobs, inbox, submits, crashes, losses>>

\* findOneAndUpdate finds a row and replaces its code.
Replace(c) ==
    /\ requests[c].phase = "storing"
    /\ \E old \in rows : rows' = (rows \ {old}) \cup {c}
    /\ Phase(c, "mailing")
    /\ UNCHANGED <<now, limits, jobs, inbox, submits, crashes, losses>>

\* It finds none and inserts, not in one step.
FindNone(c) ==
    /\ requests[c].phase = "storing"
    /\ rows = {}
    /\ Phase(c, "inserting")
    /\ UNCHANGED <<now, limits, rows, jobs, inbox, submits, crashes, losses>>

Insert(c) ==
    /\ requests[c].phase = "inserting"
    /\ rows' = rows \cup {c}
    /\ Phase(c, "mailing")
    /\ UNCHANGED <<now, limits, jobs, inbox, submits, crashes, losses>>

\* _sendVerificationCodeEmail: to the queue, or to SMTP.
SendMail(c) ==
    /\ requests[c].phase = "mailing"
    /\ Phase(c, "sent")
    /\ IF Async THEN jobs' = [jobs EXCEPT ![c].state = "waiting"] /\ UNCHANGED inbox
                ELSE inbox' = inbox \cup {c} /\ UNCHANGED jobs
    /\ UNCHANGED <<now, limits, rows, submits, crashes, losses>>

\* The database, the queue or SMTP fails, or the process dies: the caller gets an error,
\* and the code may be stored.
RequestFails(c) ==
    /\ requests[c].phase \in {"storing", "inserting", "mailing"}
    /\ Phase(c, "failed")
    /\ UNCHANGED <<now, limits, rows, jobs, inbox, submits, crashes, losses>>

-----------------------------------------------------------------------------
(* The mail queue and workers/emailWorker.js *)

Take(c) ==
    /\ jobs[c].state = "waiting"
    /\ jobs' = [jobs EXCEPT ![c].state = "active"]
    /\ UNCHANGED <<now, limits, requests, rows, inbox, submits, crashes, losses>>

Deliver(c) ==
    /\ jobs[c].state = "active"
    /\ jobs' = [jobs EXCEPT ![c].state = "done"]
    /\ inbox' = inbox \cup {c}
    /\ UNCHANGED <<now, limits, requests, rows, submits, crashes, losses>>

\* Tried once more than it should.
AfterFailureLate(job) == IF job.attempts < MaxAttempts THEN "waiting" ELSE "failed"

\* The error is logged and the job given up.
AfterFailureGivenUp(job) == "done"

AfterFailure(job) == IF job.attempts + 1 < MaxAttempts THEN "waiting" ELSE "failed"

\* sendMail throws: the mail was refused, or accepted and the answer lost.
DeliverFails(c) ==
    /\ jobs[c].state = "active"
    /\ jobs' = [jobs EXCEPT ![c].attempts = @ + 1, ![c].state = AfterFailure(jobs[c])]
    /\ inbox' \in {inbox, inbox \cup {c}}
    /\ UNCHANGED <<now, limits, requests, rows, submits, crashes, losses>>

\* The worker dies with the job: it stalls and waits again, or fails.
WorkerDies(c) ==
    /\ jobs[c].state = "active"
    /\ crashes + losses < MaxFaults
    /\ crashes' = crashes + 1
    /\ jobs' = [jobs EXCEPT ![c] =
          IF jobs[c].stalls < MaxStalls
          THEN [jobs[c] EXCEPT !.state = "waiting", !.stalls = @ + 1]
          ELSE [jobs[c] EXCEPT !.state = "failed"]]
    /\ inbox' \in {inbox, inbox \cup {c}}
    /\ UNCHANGED <<now, limits, requests, rows, submits, losses>>

-----------------------------------------------------------------------------
(* Redis *)

\* Redis restarts without its data: every window is forgotten, and so is every mail job; a
\* mail that a worker is sending may still go out.
Lose ==
    /\ crashes + losses < MaxFaults
    /\ losses' = losses + 1
    /\ limits' = NoHits
    /\ LET sending == {c \in Codes : jobs[c].state = "active"}
           queued == sending \cup {c \in Codes : jobs[c].state = "waiting"}
       IN  /\ jobs' = [c \in Codes |->
                  IF c \in queued THEN [jobs[c] EXCEPT !.state = "lost"] ELSE jobs[c]]
           /\ \E sent \in SUBSET sending : inbox' = inbox \cup sent
    /\ UNCHANGED <<now, requests, rows, submits, crashes>>

-----------------------------------------------------------------------------
(* submitVerification *)

\* The user submits a code that has arrived, or a wrong one.
Submit(s) ==
    /\ submits[s].phase = "none"
    /\ \A t \in Submits : t < s => submits[t].phase # "none"
    /\ \E k \in Keys : Passes("submit", k)
    /\ \E code \in inbox \cup {0} :
          submits' = [submits EXCEPT ![s].phase = "asked", ![s].provided = code]
    /\ UNCHANGED <<now, requests, rows, jobs, inbox, crashes, losses>>

\* findOne, and deleteOne after a match.
FindOnly(s) ==
    /\ submits[s].phase = "asked"
    /\ \/ /\ rows = {}
          /\ submits' = [submits EXCEPT ![s].phase = "done", ![s].answer = "NOT_FOUND"]
          /\ UNCHANGED rows
       \/ \E c \in rows :
          /\ rows' = rows \ {submits[s].provided}
          /\ submits' = [submits EXCEPT ![s].phase = "comparing", ![s].took = c]
    /\ UNCHANGED <<now, limits, requests, jobs, inbox, crashes, losses>>

\* The row is left to the TTL index.
FindAndKeep(s) ==
    /\ submits[s].phase = "asked"
    /\ \/ /\ rows = {}
          /\ submits' = [submits EXCEPT ![s].phase = "done", ![s].answer = "NOT_FOUND"]
       \/ \E c \in rows :
             submits' = [submits EXCEPT ![s].phase = "comparing", ![s].took = c]
    /\ UNCHANGED <<now, limits, requests, rows, jobs, inbox, crashes, losses>>

\* findOneAndDelete: the row goes whatever was provided.
FindAndDelete(s) ==
    /\ submits[s].phase = "asked"
    /\ \/ /\ rows = {}
          /\ submits' = [submits EXCEPT ![s].phase = "done", ![s].answer = "NOT_FOUND"]
          /\ UNCHANGED rows
       \/ \E c \in rows :
          /\ rows' = rows \ {c}
          /\ submits' = [submits EXCEPT ![s].phase = "comparing", ![s].took = c]
    /\ UNCHANGED <<now, limits, requests, jobs, inbox, crashes, losses>>

Compare(s) ==
    /\ submits[s].phase = "comparing"
    /\ submits' = [submits EXCEPT ![s].phase = "done",
          ![s].answer = IF submits[s].provided = submits[s].took THEN "TOKEN" ELSE "INVALID"]
    /\ UNCHANGED <<now, limits, requests, rows, jobs, inbox, crashes, losses>>

\* The database fails or the process dies; a row that was taken is gone.
SubmitFails(s) ==
    /\ submits[s].phase \in {"asked", "comparing"}
    /\ submits' = [submits EXCEPT ![s].phase = "done", ![s].answer = "ERROR"]
    /\ UNCHANGED <<now, limits, requests, rows, jobs, inbox, crashes, losses>>

-----------------------------------------------------------------------------

\* The TTL monitor removes a row some time after it expired.
Expire ==
    /\ \E c \in rows :
        /\ now >= requests[c].at + CodeTTL
        /\ rows' = rows \ {c}
    /\ UNCHANGED <<now, limits, requests, jobs, inbox, submits, crashes, losses>>

\* A request reaches the collection before the limiter's window ends.
Tick ==
    /\ now < MaxTime
    /\ \A c \in Codes : requests[c].phase \notin {"storing", "inserting"}
    /\ now' = now + 1
    /\ UNCHANGED <<limits, requests, rows, jobs, inbox, submits, crashes, losses>>

Asks(c) == Replace(c) \/ FindNone(c) \/ Insert(c) \/ SendMail(c) \/ RequestFails(c)
Works(c) == Take(c) \/ Deliver(c) \/ DeliverFails(c)
Answer(s) == FindAndDelete(s) \/ Compare(s) \/ SubmitFails(s)

Next ==
    \/ \E c \in Codes : Request(c) \/ Asks(c) \/ Works(c) \/ WorkerDies(c)
    \/ \E s \in Submits : Submit(s) \/ Answer(s)
    \/ Lose \/ Expire \/ Tick

Spec == Init /\ [][Next]_vars

\* A worker runs: as long as there are jobs it goes on with one of them.  Whoever asked
\* or submitted may have gone away.
FairSpec == Spec /\ WF_vars(\E c \in Codes : Works(c))

-----------------------------------------------------------------------------
(* Properties *)

\* A code opens one session at most, and only after it was stored: submissions race for
\* the row, and findOneAndDelete gives it to one of them.
OneTime == INSTANCE OneTimeSecret WITH
    Secrets <- Codes, Uses <- Submits,
    out <- {c \in Codes : requests[c].phase # "none"},
    sessions <- [c \in Codes |->
        {s \in Submits : submits[s].answer = "TOKEN" /\ submits[s].provided = c}]

RefinesOneTimeSecret == OneTime!Spec

Compared == {s \in Submits : submits[s].took # 0}

\* A guess at a stored code costs the code, however submissions overlap and whatever the
\* submit limiter is set to: so the guesses at codes that were asked for under one key are
\* as few as the codes that the request limiter lets through under this key, window by
\* window, and once more whenever Redis loses its windows.  The bound is one per key, as the
\* windows are; the code has none per identifier (authRateLimiter.js:58).
GuessesBounded ==
    \A k \in Keys :
        Cardinality({s \in Compared : requests[submits[s].took].key = k})
            <= RequestMax * (1 + losses + now \div RequestWindow)

\* A code whose request was answered `sent' arrives, unless SMTP fails as often as the
\* job is tried, a worker dies with it once too often, or Redis loses the job.
CodeArrives ==
    \A c \in Codes :
        requests[c].phase = "sent" ~>
            \/ c \in inbox
            \/ jobs[c].attempts = MaxAttempts
            \/ jobs[c].state = "failed" /\ jobs[c].stalls = MaxStalls
            \/ jobs[c].state = "lost"
=============================================================================
