----------------------- MODULE EmailVerificationProofs -----------------------
(***************************************************************************)
(* Proofs about EmailVerification, for any number of codes and submissions *)
(* any keys and any setting of the limiters: a code opens one session at   *)
(* most, and each guess at a stored code costs one of the codes that the   *)
(* request limiter has let through under some key.                         *)
(***************************************************************************)
EXTENDS EmailVerification, FiniteSetTheorems, TLAPS

-----------------------------------------------------------------------------
(* The inductive invariant *)

\* Codes that were asked for, those of them that count under k, and those that may have
\* been stored.
Requested == {c \in Codes : requests[c].phase # "none"}
Under(k) == {c \in Requested : requests[c].key = k}
Stored == {c \in Codes : requests[c].phase \in {"mailing", "sent", "failed"}}

\* A mail is queued once, and a job that has used its attempts is over.
Mails ==
    \A c \in Codes :
        /\ jobs[c].state # "none" => requests[c].phase = "sent"
        /\ jobs[c].state = "none" => jobs[c].attempts = 0
        /\ jobs[c].attempts = MaxAttempts => jobs[c].state = "failed"

\* Every submission that compares took a row of its own, which is gone for good.
Taken ==
    /\ rows \subseteq Stored
    /\ \A s \in Compared : submits[s].took \in Stored /\ submits[s].took \notin rows
    /\ \A s, t \in Compared : submits[s].took = submits[t].took => s = t

\* A token is the answer to the code of the row that was taken.
Answered ==
    \A s \in Submits :
        /\ submits[s].phase \in {"none", "asked"} => submits[s].took = 0
        /\ submits[s].phase = "comparing" => submits[s].took # 0
        /\ submits[s].phase # "done" => submits[s].answer = "none"
        /\ submits[s].answer = "TOKEN" =>
              submits[s].took # 0 /\ submits[s].provided = submits[s].took

\* w windows of the request limiter have ended under k, before the one that it counts in
\* and since the last loss; each of them, and each that was lost, let RequestMax codes
\* through at most.
Windows(k) ==
    LET limit == limits[<<"request", k>>]
    IN  /\ limit.reset = 0 => limit.hits = 0
        /\ \E w \in Nat :
              /\ w * RequestWindow <= now
              /\ limit.reset # 0 => w * RequestWindow + RequestWindow <= limit.reset
              /\ Cardinality(Under(k)) <= RequestMax * (w + losses) + limit.hits

EmailInv == TypeOK /\ Mails /\ Taken /\ Answered /\ \A k \in Keys : Windows(k)

-----------------------------------------------------------------------------
(* What an action writes *)

CodeRequest ==
    [phase : {"none", "storing", "inserting", "mailing", "sent", "failed"},
     at : 0..MaxTime, key : Keys \cup {0}]
MailJob ==
    [state : {"none", "waiting", "active", "done", "failed", "lost"},
     attempts : 0..MaxAttempts, stalls : 0..MaxStalls]
Submission ==
    [phase : {"none", "asked", "comparing", "done"},
     provided : Codes \cup {0}, took : Codes \cup {0}, answer : Answers]
Limit == [hits : Nat, reset : Nat]

LEMMA Types ==
    TypeOK <=>
        /\ now \in 0..MaxTime
        /\ limits \in [Limiters \X Keys -> Limit]
        /\ \A l \in Limiters, k \in Keys : limits[<<l, k>>].hits <= Max(l)
        /\ requests \in [Codes -> CodeRequest]
        /\ rows \subseteq Codes
        /\ jobs \in [Codes -> MailJob]
        /\ inbox \subseteq Codes
        /\ submits \in [Submits -> Submission]
        /\ crashes \in 0..MaxFaults
        /\ losses \in 0..MaxFaults
  BY DEF TypeOK, CodeRequest, MailJob, Submission, Limit

\* A hit of a limiter that lets it through.
LEMMA PassesEffect ==
    ASSUME TypeOK, NEW l \in Limiters, NEW k \in Keys, Passes(l, k)
    PROVE  /\ limits' \in [Limiters \X Keys -> Limit]
           /\ \A n \in Limiters, j \in Keys : limits'[<<n, j>>].hits <= Max(n)
           /\ \A n \in Limiters, j \in Keys :
                 <<n, j>> # <<l, k>> => limits'[<<n, j>>] = limits[<<n, j>>]
           /\ \/ /\ now >= limits[<<l, k>>].reset
                 /\ limits'[<<l, k>>].hits = 1 /\ limits'[<<l, k>>].reset = now + Window(l)
              \/ /\ ~(now >= limits[<<l, k>>].reset)
                 /\ limits'[<<l, k>>].hits = limits[<<l, k>>].hits + 1
                 /\ limits'[<<l, k>>].reset = limits[<<l, k>>].reset
  <1> DEFINE new == IF now >= limits[<<l, k>>].reset
                    THEN [hits |-> 1, reset |-> now + Window(l)]
                    ELSE [limits[<<l, k>>] EXCEPT !.hits = @ + 1]
  <1>1. /\ limits \in [Limiters \X Keys -> Limit] /\ now \in Nat
        /\ \A n \in Limiters, j \in Keys : limits[<<n, j>>].hits <= Max(n)
        /\ \A n \in Limiters : Max(n) \in Nat \ {0} /\ Window(n) \in Nat
    BY Types, EmailAssumption DEF Max, Window, Limiters
  <1>2. limits[<<l, k>>] \in Limit /\ <<l, k>> \in Limiters \X Keys
    BY <1>1
  <1>3. limits' = [limits EXCEPT ![<<l, k>>] = new]
    BY DEF Passes
  <1>4. /\ new \in Limit /\ new.hits <= Max(l)
        /\ \/ now >= limits[<<l, k>>].reset /\ new.hits = 1 /\ new.reset = now + Window(l)
           \/ /\ ~(now >= limits[<<l, k>>].reset)
              /\ new.hits = limits[<<l, k>>].hits + 1 /\ new.reset = limits[<<l, k>>].reset
    <2>1. CASE now >= limits[<<l, k>>].reset
      BY <1>1, <2>1 DEF Limit
    <2>2. CASE ~(now >= limits[<<l, k>>].reset)
      <3>1. limits[<<l, k>>].hits < Max(l)
        BY <2>2 DEF Passes
      <3> QED
        BY <1>1, <1>2, <2>2, <3>1 DEF Limit
    <2> QED
      BY <2>1, <2>2
  <1> HIDE DEF new
  <1>5. /\ limits' \in [Limiters \X Keys -> Limit] /\ limits'[<<l, k>>] = new
        /\ \A n \in Limiters, j \in Keys :
              <<n, j>> # <<l, k>> => limits'[<<n, j>>] = limits[<<n, j>>]
    BY <1>1, <1>2, <1>3, <1>4
  <1>6. \A n \in Limiters, j \in Keys : limits'[<<n, j>>].hits <= Max(n)
    BY <1>1, <1>4, <1>5
  <1> QED
    BY <1>4, <1>5, <1>6

\* Redis forgets its windows.
LEMMA NoHitsEffect ==
    /\ NoHits \in [Limiters \X Keys -> Limit]
    /\ \A l \in Limiters, k \in Keys :
          /\ NoHits[<<l, k>>].hits = 0 /\ NoHits[<<l, k>>].reset = 0 /\ NoHits[<<l, k>>].hits <= Max(l)
  <1>1. \A l \in Limiters : Max(l) \in Nat
    BY EmailAssumption DEF Max, Limiters
  <1> QED
    BY <1>1 DEF NoHits, Limit

\* requestVerification goes on with code c.
LEMMA PhaseEffect ==
    ASSUME TypeOK, NEW c \in Codes,
           NEW p \in {"storing", "inserting", "mailing", "sent", "failed"},
           Phase(c, p)
    PROVE  /\ requests' \in [Codes -> CodeRequest]
           /\ requests'[c].phase = p /\ requests'[c].key = requests[c].key
           /\ \A d \in Codes : d # c => requests'[d] = requests[d]
  <1> DEFINE new == [requests[c] EXCEPT !.phase = p]
  <1>1. requests \in [Codes -> CodeRequest] /\ requests[c] \in CodeRequest
    BY Types
  <1>2. new \in CodeRequest /\ new.phase = p /\ new.key = requests[c].key
    BY <1>1 DEF CodeRequest
  <1>3. requests' = [requests EXCEPT ![c] = new]
    BY DEF Phase
  <1> HIDE DEF new
  <1> QED
    BY <1>1, <1>2, <1>3

LEMMA JobWritten ==
    ASSUME TypeOK, NEW c \in Codes, NEW new \in MailJob,
           jobs' = [jobs EXCEPT ![c] = new]
    PROVE  /\ jobs' \in [Codes -> MailJob] /\ jobs'[c] = new
           /\ \A d \in Codes : d # c => jobs'[d] = jobs[d]
  BY Types

LEMMA SubmissionWritten ==
    ASSUME TypeOK, NEW s \in Submits, NEW new \in Submission,
           submits' = [submits EXCEPT ![s] = new]
    PROVE  /\ submits' \in [Submits -> Submission] /\ submits'[s] = new
           /\ \A t \in Submits : t # s => submits'[t] = submits[t]
  BY Types

-----------------------------------------------------------------------------
(* Submissions *)

LEMMA SubmitEffect ==
    ASSUME TypeOK, NEW s \in Submits, Submit(s)
    PROVE  /\ submits' \in [Submits -> Submission]
           /\ \A t \in Submits : t # s => submits'[t] = submits[t]
           /\ submits[s].phase = "none" /\ submits'[s].phase = "asked"
           /\ submits'[s].took = submits[s].took /\ submits'[s].answer = submits[s].answer
  <1>1. PICK code \in inbox \cup {0} :
           submits' = [submits EXCEPT ![s].phase = "asked", ![s].provided = code]
    BY DEF Submit
  <1> DEFINE new == [submits[s] EXCEPT !.phase = "asked", !.provided = code]
  <1>2. submits' = [submits EXCEPT ![s] = new]
    BY <1>1
  <1>3. submits[s] \in Submission /\ code \in Codes \cup {0}
    BY Types
  <1>4. /\ new \in Submission /\ new.phase = "asked"
        /\ new.took = submits[s].took /\ new.answer = submits[s].answer
    BY <1>3 DEF Submission
  <1> HIDE DEF new
  <1> QED
    BY <1>2, <1>4, SubmissionWritten DEF Submit

\* A row is taken, or there is none.
LEMMA FindEffect ==
    ASSUME TypeOK, NEW s \in Submits, FindAndDelete(s)
    PROVE  /\ submits' \in [Submits -> Submission]
           /\ \A t \in Submits : t # s => submits'[t] = submits[t]
           /\ submits[s].phase = "asked"
           /\ submits'[s].provided = submits[s].provided
           /\ \/ /\ UNCHANGED rows
                 /\ submits'[s].phase = "done" /\ submits'[s].answer = "NOT_FOUND"
                 /\ submits'[s].took = submits[s].took
              \/ \E c \in rows :
                    /\ rows' = rows \ {c}
                    /\ submits'[s].phase = "comparing" /\ submits'[s].took = c
                    /\ submits'[s].answer = submits[s].answer
  <1>1. submits[s] \in Submission /\ rows \subseteq Codes
    BY Types
  <1>2. CASE /\ rows = {} /\ UNCHANGED rows
             /\ submits' = [submits EXCEPT ![s].phase = "done", ![s].answer = "NOT_FOUND"]
    <2> DEFINE new == [submits[s] EXCEPT !.phase = "done", !.answer = "NOT_FOUND"]
    <2>1. submits' = [submits EXCEPT ![s] = new]
      BY <1>2
    <2>2. /\ new \in Submission /\ new.phase = "done" /\ new.answer = "NOT_FOUND"
          /\ new.took = submits[s].took /\ new.provided = submits[s].provided
      BY <1>1 DEF Submission, Answers
    <2> HIDE DEF new
    <2> QED
      BY <1>2, <2>1, <2>2, SubmissionWritten DEF FindAndDelete
  <1>3. ASSUME NEW c \in rows, rows' = rows \ {c},
               submits' = [submits EXCEPT ![s].phase = "comparing", ![s].took = c]
        PROVE  /\ submits' \in [Submits -> Submission]
               /\ \A t \in Submits : t # s => submits'[t] = submits[t]
               /\ submits'[s].provided = submits[s].provided
               /\ submits'[s].phase = "comparing" /\ submits'[s].took = c
               /\ submits'[s].answer = submits[s].answer
    <2> DEFINE new == [submits[s] EXCEPT !.phase = "comparing", !.took = c]
    <2>1. submits' = [submits EXCEPT ![s] = new]
      BY <1>3
    <2>2. /\ new \in Submission /\ new.phase = "comparing" /\ new.took = c
          /\ new.answer = submits[s].answer /\ new.provided = submits[s].provided
      BY <1>1, <1>3 DEF Submission
    <2> HIDE DEF new
    <2> QED
      BY <2>1, <2>2, SubmissionWritten
  <1> QED
    BY <1>2, <1>3 DEF FindAndDelete

\* A comparison, or an error, ends the submission.
LEMMA EndEffect ==
    ASSUME TypeOK, NEW s \in Submits, Compare(s) \/ SubmitFails(s)
    PROVE  /\ submits' \in [Submits -> Submission]
           /\ \A t \in Submits : t # s => submits'[t] = submits[t]
           /\ submits[s].phase \in {"asked", "comparing"} /\ submits'[s].phase = "done"
           /\ submits'[s].took = submits[s].took
           /\ submits'[s].provided = submits[s].provided
           /\ submits'[s].answer = "TOKEN" =>
                 submits[s].phase = "comparing" /\ submits[s].provided = submits[s].took
  <1>1. submits[s] \in Submission
    BY Types
  <1>2. ASSUME NEW answer \in Answers,
               submits' = [submits EXCEPT ![s].phase = "done", ![s].answer = answer]
        PROVE  /\ submits' \in [Submits -> Submission]
               /\ \A t \in Submits : t # s => submits'[t] = submits[t]
               /\ submits'[s].phase = "done" /\ submits'[s].answer = answer
               /\ submits'[s].took = submits[s].took
               /\ submits'[s].provided = submits[s].provided
    <2> DEFINE new == [submits[s] EXCEPT !.phase = "done", !.answer = answer]
    <2>1. submits' = [submits EXCEPT ![s] = new]
      BY <1>2
    <2>2. /\ new \in Submission /\ new.phase = "done" /\ new.answer = answer
          /\ new.took = submits[s].took /\ new.provided = submits[s].provided
      BY <1>1 DEF Submission
    <2> HIDE DEF new
    <2> QED
      BY <2>1, <2>2, SubmissionWritten
  <1>3. CASE Compare(s)
    <2> DEFINE answer == IF submits[s].provided = submits[s].took THEN "TOKEN" ELSE "INVALID"
    <2>1. /\ answer \in Answers
          /\ answer = "TOKEN" => submits[s].provided = submits[s].took
          /\ submits' = [submits EXCEPT ![s].phase = "done", ![s].answer = answer]
      BY <1>3 DEF Compare, Answers
    <2> HIDE DEF answer
    <2> QED
      BY <1>2, <1>3, <2>1 DEF Compare
  <1>4. CASE SubmitFails(s)
    BY <1>2, <1>4 DEF SubmitFails, Answers
  <1> QED
    BY <1>3, <1>4

-----------------------------------------------------------------------------
(* Requests and mails *)

\* A request is new, goes on, or stays.
LEMMA RequestTurn ==
    ASSUME TypeOK, [Next]_vars
    PROVE  \/ rows' \subseteq rows /\ UNCHANGED requests
           \/ \E c \in Codes : Request(c)
           \/ \E c \in Codes : Replace(c) \/ FindNone(c) \/ Insert(c) \/ SendMail(c)
                                  \/ RequestFails(c)
  <1>1. ASSUME NEW s, Submit(s) \/ Answer(s)
        PROVE  rows' \subseteq rows /\ UNCHANGED requests
    BY <1>1 DEF Submit, Answer, FindAndDelete, Compare, SubmitFails
  <1>2. ASSUME NEW c, Works(c) \/ WorkerDies(c)
        PROVE  UNCHANGED <<requests, rows>>
    BY <1>2 DEF Works, Take, Deliver, DeliverFails, WorkerDies
  <1>3. CASE Lose \/ Expire \/ Tick \/ UNCHANGED vars
    BY <1>3 DEF Lose, Expire, Tick, vars
  <1> QED
    BY <1>1, <1>2, <1>3 DEF Next, Asks

LEMMA NewRequest ==
    ASSUME TypeOK, NEW c \in Codes, Request(c)
    PROVE  /\ requests' \in [Codes -> CodeRequest]
           /\ requests[c].phase = "none" /\ requests'[c].phase = "storing"
           /\ \A d \in Codes : d # c => requests'[d] = requests[d]
           /\ \E k \in Keys : Passes("request", k) /\ requests'[c].key = k
  <1>1. PICK k \in Keys :
            /\ Passes("request", k)
            /\ requests' = [requests EXCEPT ![c] =
                   [phase |-> "storing", at |-> now, key |-> k]]
    BY DEF Request
  <1> DEFINE new == [phase |-> "storing", at |-> now, key |-> k]
  <1>2. requests \in [Codes -> CodeRequest]
    BY Types
  <1>3. new \in CodeRequest /\ new.phase = "storing" /\ new.key = k
    BY Types DEF CodeRequest
  <1>4. requests' = [requests EXCEPT ![c] = new] /\ requests[c].phase = "none"
    BY <1>1 DEF Request
  <1> HIDE DEF new
  <1> QED
    BY <1>1, <1>2, <1>3, <1>4

\* The next phase of a request.
LEMMA AsksEffect ==
    ASSUME TypeOK, NEW c \in Codes,
           Replace(c) \/ FindNone(c) \/ Insert(c) \/ SendMail(c) \/ RequestFails(c)
    PROVE  /\ requests' \in [Codes -> CodeRequest]
           /\ requests[c].phase \in {"storing", "inserting", "mailing"}
           /\ requests'[c].phase \in {"inserting", "mailing", "sent", "failed"}
           /\ requests'[c].key = requests[c].key
           /\ \A d \in Codes : d # c => requests'[d] = requests[d]
           /\ \/ /\ requests[c].phase \in {"storing", "inserting"}
                 /\ requests'[c].phase = "mailing"
                 /\ rows' \subseteq rows \cup {c}
              \/ /\ UNCHANGED rows
                 /\ requests[c].phase = "mailing" => requests'[c].phase \in {"sent", "failed"}
  <1>1. \E p \in {"inserting", "mailing", "sent", "failed"} :
           /\ Phase(c, p)
           /\ requests[c].phase \in {"storing", "inserting", "mailing"}
           /\ \/ /\ requests[c].phase \in {"storing", "inserting"}
                 /\ p = "mailing"
                 /\ rows' \subseteq rows \cup {c}
              \/ /\ UNCHANGED rows
                 /\ requests[c].phase = "mailing" => p \in {"sent", "failed"}
    BY DEF Replace, FindNone, Insert, SendMail, RequestFails
  <1> QED
    BY <1>1, PhaseEffect

\* What becomes of the mails.
LEMMA JobTurn ==
    ASSUME TypeOK, [Next]_vars
    PROVE  \/ UNCHANGED jobs
           \/ Lose
           \/ \E c \in Codes : SendMail(c) \/ Works(c) \/ WorkerDies(c)
  <1>1. ASSUME NEW c, \/ Request(c) \/ Replace(c) \/ FindNone(c) \/ Insert(c)
                      \/ RequestFails(c)
        PROVE  UNCHANGED jobs
    BY <1>1 DEF Request, Replace, FindNone, Insert, RequestFails
  <1>2. ASSUME NEW s, Submit(s) \/ Answer(s)
        PROVE  UNCHANGED jobs
    BY <1>2 DEF Submit, Answer, FindAndDelete, Compare, SubmitFails
  <1>3. CASE Expire \/ Tick \/ UNCHANGED vars
    BY <1>3 DEF Expire, Tick, vars
  <1> QED
    BY <1>1, <1>2, <1>3 DEF Next, Asks

LEMMA JobEffect ==
    ASSUME TypeOK, Mails, NEW c \in Codes, SendMail(c) \/ Works(c) \/ WorkerDies(c)
    PROVE  /\ jobs' \in [Codes -> MailJob]
           /\ \A d \in Codes : d # c => jobs'[d] = jobs[d]
           /\ requests'[c].phase = "sent"
           /\ jobs'[c].state = "none" => jobs'[c].attempts = 0
           /\ jobs'[c].attempts = MaxAttempts => jobs'[c].state = "failed"
  <1> DEFINE Goal == /\ jobs' \in [Codes -> MailJob]
                     /\ \A d \in Codes : d # c => jobs'[d] = jobs[d]
                     /\ jobs'[c].state = "none" => jobs'[c].attempts = 0
                     /\ jobs'[c].attempts = MaxAttempts => jobs'[c].state = "failed"
  <1>1. PICK old \in MailJob : old = jobs[c]
    BY Types
  <1>2. /\ old.attempts \in 0..MaxAttempts /\ old.stalls \in 0..MaxStalls
        /\ MaxAttempts \in Nat \ {0} /\ MaxStalls \in Nat
        /\ old.state = "none" => old.attempts = 0
        /\ old.attempts = MaxAttempts => old.state = "failed"
        /\ old.state # "none" => requests[c].phase = "sent"
    BY <1>1, EmailAssumption DEF MailJob, Mails
  <1>3. ASSUME NEW new \in MailJob, jobs' = [jobs EXCEPT ![c] = new],
               new.state = "none" => new.attempts = 0,
               new.attempts = MaxAttempts => new.state = "failed"
        PROVE  Goal
    BY <1>3, JobWritten
  <1>4. ASSUME NEW state \in {"waiting", "active", "done"}, old.attempts # MaxAttempts,
               jobs' = [jobs EXCEPT ![c].state = state]
        PROVE  Goal
    <2> DEFINE new == [old EXCEPT !.state = state]
    <2>1. new \in MailJob /\ new.state = state /\ new.attempts = old.attempts
      BY <1>1, <1>4 DEF MailJob
    <2>2. jobs' = [jobs EXCEPT ![c] = new]
      BY <1>1, <1>4
    <2> HIDE DEF new
    <2> QED
      BY <1>3, <1>4, <2>1, <2>2
  <1>5. CASE SendMail(c)
    <2>1. requests[c].phase = "mailing"
      BY <1>5 DEF SendMail
    <2>2. requests'[c].phase = "sent"
      BY <1>5, PhaseEffect DEF SendMail
    <2>3. old.state = "none" /\ old.attempts # MaxAttempts
      BY <1>2, <2>1
    <2>4. CASE UNCHANGED jobs
      BY <1>1, <1>2, <2>2, <2>4, Types
    <2>5. CASE jobs' = [jobs EXCEPT ![c].state = "waiting"]
      BY <1>4, <2>2, <2>3, <2>5
    <2> QED
      BY <1>5, <2>4, <2>5 DEF SendMail
  <1>6. ASSUME Works(c) \/ WorkerDies(c)
        PROVE  requests'[c].phase = "sent" /\ old.attempts # MaxAttempts
    <2>1. UNCHANGED requests /\ old.state \in {"waiting", "active"}
      BY <1>1, <1>6 DEF Works, Take, Deliver, DeliverFails, WorkerDies
    <2> QED
      BY <1>2, <2>1
  <1>7. CASE Take(c)
    BY <1>4, <1>6, <1>7 DEF Works, Take
  <1>8. CASE Deliver(c)
    BY <1>4, <1>6, <1>8 DEF Works, Deliver
  <1>9. CASE DeliverFails(c)
    <2> DEFINE new == [old EXCEPT !.attempts = old.attempts + 1, !.state = AfterFailure(old)]
    <2>1. old.attempts + 1 \in 0..MaxAttempts
      BY <1>2, <1>6, <1>9 DEF Works
    <2>2. /\ AfterFailure(old) \in {"waiting", "failed"}
          /\ old.attempts + 1 = MaxAttempts => AfterFailure(old) = "failed"
      BY <1>2, <2>1 DEF AfterFailure
    <2>3. /\ new \in MailJob /\ new.state = AfterFailure(old)
          /\ new.attempts = old.attempts + 1
      BY <1>1, <2>1, <2>2 DEF MailJob
    <2>4. jobs' = [jobs EXCEPT ![c] = new]
      BY <1>1, <1>9 DEF DeliverFails
    <2> HIDE DEF new
    <2> QED
      BY <1>3, <1>6, <1>9, <2>2, <2>3, <2>4 DEF Works
  <1>10. CASE WorkerDies(c)
    <2>1. CASE old.stalls < MaxStalls
      <3> DEFINE new == [old EXCEPT !.state = "waiting", !.stalls = old.stalls + 1]
      <3>1. old.stalls + 1 \in 0..MaxStalls
        BY <1>2, <2>1
      <3>2. new \in MailJob /\ new.state = "waiting" /\ new.attempts = old.attempts
        BY <1>1, <3>1 DEF MailJob
      <3>3. jobs' = [jobs EXCEPT ![c] = new]
        BY <1>1, <1>10, <2>1 DEF WorkerDies
      <3> HIDE DEF new
      <3> QED
        BY <1>3, <1>6, <1>10, <3>2, <3>3
    <2>2. CASE ~(old.stalls < MaxStalls)
      <3> DEFINE new == [old EXCEPT !.state = "failed"]
      <3>1. new \in MailJob /\ new.state = "failed" /\ new.attempts = old.attempts
        BY <1>1 DEF MailJob
      <3>2. jobs' = [jobs EXCEPT ![c] = new]
        BY <1>1, <1>10, <2>2 DEF WorkerDies
      <3> HIDE DEF new
      <3> QED
        BY <1>3, <1>6, <1>10, <3>1, <3>2
    <2> QED
      BY <2>1, <2>2
  <1> QED
    BY <1>5, <1>6, <1>7, <1>8, <1>9, <1>10 DEF Works

\* Redis forgets the mails that wait or are being sent.
LEMMA LoseEffect ==
    ASSUME TypeOK, Mails, Lose
    PROVE  /\ jobs' \in [Codes -> MailJob]
           /\ \A c \in Codes :
                 \/ jobs'[c] = jobs[c]
                 \/ /\ jobs[c].state \in {"waiting", "active"} /\ jobs'[c].state = "lost"
                    /\ jobs'[c].attempts = jobs[c].attempts
  <1> DEFINE queued == {c \in Codes : jobs[c].state = "active"}
                          \cup {c \in Codes : jobs[c].state = "waiting"}
             lost(c) == [jobs[c] EXCEPT !.state = "lost"]
  <1>1. jobs \in [Codes -> MailJob]
    BY Types
  <1>2. jobs' = [c \in Codes |-> IF c \in queued THEN lost(c) ELSE jobs[c]]
    BY Zenon DEF Lose
  <1>3. ASSUME NEW c \in Codes
        PROVE  /\ lost(c) \in MailJob /\ lost(c).state = "lost"
               /\ lost(c).attempts = jobs[c].attempts
    BY <1>1 DEF MailJob
  <1> HIDE DEF lost
  <1> QED
    BY <1>1, <1>2, <1>3

-----------------------------------------------------------------------------
(* One step *)

LEMMA RequestTypes ==
    ASSUME TypeOK, [Next]_vars
    PROVE  /\ requests' \in [Codes -> CodeRequest]
           /\ Requested \subseteq Requested'
           /\ \A c \in Requested : requests'[c].key = requests[c].key
           /\ \A c \in Codes : requests[c].phase = "sent" => requests'[c].phase = "sent"
           /\ Stored \subseteq Stored' /\ rows' \subseteq Codes
  <1>1. requests \in [Codes -> CodeRequest] /\ rows \subseteq Codes
    BY Types
  <1>2. CASE UNCHANGED requests /\ rows' \subseteq rows
    BY <1>1, <1>2 DEF Requested, Stored
  <1>3. ASSUME NEW c \in Codes, Request(c)
        PROVE  /\ requests' \in [Codes -> CodeRequest]
               /\ Requested \subseteq Requested'
               /\ \A d \in Requested : requests'[d].key = requests[d].key
               /\ \A d \in Codes : requests[d].phase = "sent" => requests'[d].phase = "sent"
               /\ Stored \subseteq Stored' /\ rows' \subseteq Codes
    <2>1. UNCHANGED rows
      BY <1>3 DEF Request
    <2> QED
      BY <1>1, <1>3, <2>1, NewRequest DEF Requested, Stored
  <1>4. ASSUME NEW c \in Codes,
               Replace(c) \/ FindNone(c) \/ Insert(c) \/ SendMail(c) \/ RequestFails(c)
        PROVE  /\ requests' \in [Codes -> CodeRequest]
               /\ Requested \subseteq Requested'
               /\ \A d \in Requested : requests'[d].key = requests[d].key
               /\ \A d \in Codes : requests[d].phase = "sent" => requests'[d].phase = "sent"
               /\ Stored \subseteq Stored' /\ rows' \subseteq Codes
    BY <1>1, <1>4, AsksEffect DEF Requested, Stored
  <1> QED
    BY <1>2, <1>3, <1>4, RequestTurn

LEMMA OtherTypes ==
    ASSUME TypeOK, [Next]_vars
    PROVE  /\ now' \in 0..MaxTime /\ now <= now'
           /\ inbox' \subseteq Codes /\ crashes' \in 0..MaxFaults
           /\ losses' \in 0..MaxFaults /\ (UNCHANGED losses \/ Lose)
           /\ limits' \in [Limiters \X Keys -> Limit]
           /\ \A l \in Limiters, k \in Keys : limits'[<<l, k>>].hits <= Max(l)
  <1>1. /\ now \in 0..MaxTime /\ inbox \subseteq Codes /\ crashes \in 0..MaxFaults
        /\ losses \in 0..MaxFaults
        /\ limits \in [Limiters \X Keys -> Limit]
        /\ \A l \in Limiters, k \in Keys : limits[<<l, k>>].hits <= Max(l)
        /\ MaxTime \in Nat /\ MaxFaults \in Nat
    BY Types, EmailAssumption
  <1>2. now' \in 0..MaxTime /\ now <= now'
    <2>1. CASE Tick
      BY <1>1, <2>1 DEF Tick
    <2>2. CASE UNCHANGED now
      BY <1>1, <2>2
    <2> QED
      BY <2>1, <2>2 DEF Next, Request, Asks, Replace, FindNone, Insert, SendMail, RequestFails,
         Works, Take, Deliver, DeliverFails, WorkerDies, Submit, Answer, FindAndDelete,
         Compare, SubmitFails, Lose, Expire, vars
  <1>3. inbox' \subseteq Codes
    BY <1>1 DEF Next, Request, Asks, Replace, FindNone, Insert, SendMail, RequestFails,
       Works, Take, Deliver, DeliverFails, WorkerDies, Submit, Answer, FindAndDelete, Compare,
       SubmitFails, Lose, Expire, Tick, vars
  <1>4. crashes' \in 0..MaxFaults
    <2>1. ASSUME NEW c \in Codes, WorkerDies(c)
          PROVE  crashes' \in 0..MaxFaults
      BY <1>1, <2>1 DEF WorkerDies
    <2>2. CASE UNCHANGED crashes
      BY <1>1, <2>2
    <2> QED
      BY <2>1, <2>2 DEF Next, Request, Asks, Replace, FindNone, Insert, SendMail, RequestFails,
         Works, Take, Deliver, DeliverFails, Submit, Answer, FindAndDelete, Compare,
         SubmitFails, Lose, Expire, Tick, vars
  <1>5. losses' \in 0..MaxFaults /\ (UNCHANGED losses \/ Lose)
    <2>1. CASE Lose
      <3>1. crashes + losses < MaxFaults /\ losses' = losses + 1
        BY Zenon, <2>1 DEF Lose
      <3> QED
        BY <1>1, <2>1, <3>1
    <2>2. CASE UNCHANGED losses
      BY <1>1, <2>2
    <2> QED
      BY <2>1, <2>2 DEF Next, Request, Asks, Replace, FindNone, Insert, SendMail, RequestFails,
         Works, Take, Deliver, DeliverFails, WorkerDies, Submit, Answer, FindAndDelete,
         Compare, SubmitFails, Expire, Tick, vars
  <1>6. /\ limits' \in [Limiters \X Keys -> Limit]
        /\ \A l \in Limiters, k \in Keys : limits'[<<l, k>>].hits <= Max(l)
    <2>1. ASSUME NEW l \in Limiters, NEW k \in Keys, Passes(l, k)
          PROVE  /\ limits' \in [Limiters \X Keys -> Limit]
                 /\ \A n \in Limiters, j \in Keys : limits'[<<n, j>>].hits <= Max(n)
      BY <2>1, PassesEffect
    <2>2. CASE UNCHANGED limits
      BY <1>1, <2>2
    <2>3. CASE Lose
      BY <2>3, NoHitsEffect DEF Lose
    <2>4. "request" \in Limiters /\ "submit" \in Limiters
      BY DEF Limiters
    <2> QED
      BY <2>1, <2>2, <2>3, <2>4 DEF Next, Request, Asks, Replace, FindNone, Insert, SendMail,
         RequestFails, Works, Take, Deliver, DeliverFails, WorkerDies, Submit, Answer,
         FindAndDelete, Compare, SubmitFails, Expire, Tick, vars
  <1> QED
    BY <1>2, <1>3, <1>4, <1>5, <1>6

\* A submission begins, takes a row, ends, or stays.
LEMMA SubmitTurn ==
    ASSUME TypeOK, [Next]_vars
    PROVE  \/ UNCHANGED submits
           \/ \E s \in Submits : \/ Submit(s) \/ FindAndDelete(s)
                                 \/ Compare(s) \/ SubmitFails(s)
  <1>1. ASSUME NEW c, Request(c) \/ Asks(c) \/ Works(c) \/ WorkerDies(c)
        PROVE  UNCHANGED submits
    BY <1>1 DEF Request, Asks, Replace, FindNone, Insert, SendMail, RequestFails,
       Works, Take, Deliver, DeliverFails, WorkerDies
  <1>2. CASE Lose \/ Expire \/ Tick \/ UNCHANGED vars
    BY <1>2 DEF Lose, Expire, Tick, vars
  <1> QED
    BY <1>1, <1>2 DEF Next, Answer

LEMMA MailsStep ==
    ASSUME TypeOK, Mails, [Next]_vars
    PROVE  Mails' /\ jobs' \in [Codes -> MailJob]
  <1>1. \A c \in Codes : requests[c].phase = "sent" => requests'[c].phase = "sent"
    BY RequestTypes
  <1>2. CASE UNCHANGED jobs
    BY <1>1, <1>2, Types DEF Mails
  <1>3. ASSUME NEW c \in Codes, SendMail(c) \/ Works(c) \/ WorkerDies(c)
        PROVE  Mails' /\ jobs' \in [Codes -> MailJob]
    BY <1>1, <1>3, JobEffect DEF Mails
  <1>4. CASE Lose
    BY <1>1, <1>4, LoseEffect DEF Mails
  <1> QED
    BY <1>2, <1>3, <1>4, JobTurn

LEMMA AnsweredStep ==
    ASSUME TypeOK, Taken, Answered, [Next]_vars
    PROVE  Answered' /\ submits' \in [Submits -> Submission]
  <1>1. CASE UNCHANGED submits
    BY <1>1, Types DEF Answered
  <1>2. ASSUME NEW s \in Submits, Submit(s)
        PROVE  Answered' /\ submits' \in [Submits -> Submission]
    BY <1>2, SubmitEffect DEF Answered
  <1>3. ASSUME NEW s \in Submits, FindAndDelete(s)
        PROVE  Answered' /\ submits' \in [Submits -> Submission]
    <2>1. \A c \in rows : c # 0
      BY Types DEF Codes
    <2> QED
      BY <1>3, <2>1, FindEffect DEF Answered
  <1>4. ASSUME NEW s \in Submits, Compare(s) \/ SubmitFails(s)
        PROVE  Answered' /\ submits' \in [Submits -> Submission]
    BY <1>4, EndEffect DEF Answered
  <1> QED
    BY <1>1, <1>2, <1>3, <1>4, SubmitTurn

LEMMA TakenStep ==
    ASSUME TypeOK, Taken, Answered, [Next]_vars
    PROVE  Taken'
  <1>1. Stored \subseteq Stored'
    BY RequestTypes
  <1>2. ASSUME NEW s \in Submits, submits'[s].took = submits[s].took,
               \A t \in Submits : t # s => submits'[t].took = submits[t].took
        PROVE  /\ Compared' = Compared
               /\ \A t \in Compared : submits'[t].took = submits[t].took
    BY <1>2 DEF Compared
  <1>3. CASE UNCHANGED submits
    <2>1. \A s \in Compared : submits[s].took \notin rows'
      <3>1. CASE rows' \subseteq rows
        BY <3>1 DEF Taken
      <3>2. ASSUME NEW c \in Codes, Request(c)
            PROVE  rows' \subseteq rows
        BY <3>2 DEF Request
      <3>3. ASSUME NEW c \in Codes,
                   Replace(c) \/ FindNone(c) \/ Insert(c) \/ SendMail(c) \/ RequestFails(c)
            PROVE  \A s \in Compared : submits[s].took \notin rows'
        BY <3>3, AsksEffect DEF Taken, Stored
      <3> QED
        BY <3>1, <3>2, <3>3, RequestTurn
    <2>2. rows' \subseteq Stored'
      <3>1. CASE rows' \subseteq rows
        BY <1>1, <3>1 DEF Taken
      <3>2. ASSUME NEW c \in Codes, Request(c)
            PROVE  rows' \subseteq rows
        BY <3>2 DEF Request
      <3>3. ASSUME NEW c \in Codes,
                   Replace(c) \/ FindNone(c) \/ Insert(c) \/ SendMail(c) \/ RequestFails(c)
            PROVE  rows' \subseteq Stored'
        BY <1>1, <3>3, AsksEffect DEF Taken, Stored
      <3> QED
        BY <3>1, <3>2, <3>3, RequestTurn
    <2>3. Compared' = Compared
      BY <1>3 DEF Compared
    <2> QED
      BY <1>1, <1>3, <2>1, <2>2, <2>3 DEF Taken
  <1>4. ASSUME NEW s \in Submits, Submit(s) \/ Compare(s) \/ SubmitFails(s)
        PROVE  Taken'
    <2>1. /\ submits'[s].took = submits[s].took
          /\ \A t \in Submits : t # s => submits'[t].took = submits[t].took
      BY <1>4, SubmitEffect, EndEffect
    <2>2. UNCHANGED <<rows, requests>>
      BY <1>4 DEF Submit, Compare, SubmitFails
    <2>3. /\ Compared' = Compared
          /\ \A t \in Compared : submits'[t].took = submits[t].took
      BY <1>2, <2>1
    <2> QED
      BY <2>2, <2>3 DEF Taken, Stored
  <1>5. ASSUME NEW s \in Submits, FindAndDelete(s)
        PROVE  Taken'
    <2>1. UNCHANGED requests /\ Stored' = Stored
      BY <1>5 DEF FindAndDelete, Stored
    <2>2. \A t \in Submits : t # s => submits'[t].took = submits[t].took
      BY <1>5, FindEffect
    <2>3. CASE UNCHANGED rows /\ submits'[s].took = submits[s].took
      <3>1. /\ Compared' = Compared
            /\ \A t \in Compared : submits'[t].took = submits[t].took
        BY <1>2, <2>2, <2>3
      <3> QED
        BY <2>1, <2>3, <3>1 DEF Taken
    <2>4. ASSUME NEW c \in rows, rows' = rows \ {c}, submits'[s].took = c
          PROVE  Taken'
      <3>1. submits[s].took = 0 /\ c # 0
        BY <1>5, <2>4, FindEffect, Types DEF Answered, Codes
      <3>2. /\ Compared' = Compared \cup {s} /\ s \notin Compared
            /\ \A t \in Compared : submits'[t].took = submits[t].took
        BY <2>2, <2>4, <3>1 DEF Compared
      <3> QED
        BY <2>1, <2>4, <3>2 DEF Taken
    <2> QED
      BY <1>5, <2>3, <2>4, FindEffect
  <1> QED
    BY <1>3, <1>4, <1>5, SubmitTurn

LEMMA Products ==
    ASSUME NEW a \in Nat, NEW b \in Nat
    PROVE  a * b \in Nat /\ a * (b + 1) = a * b + a /\ (b + 1) * a = b * a + a
  OBVIOUS

LEMMA CodesFinite ==
    ASSUME NEW S \in SUBSET Codes
    PROVE  /\ IsFiniteSet(S) /\ Cardinality(S) \in Nat
           /\ \A c : c \notin S => Cardinality(S \cup {c}) = Cardinality(S) + 1
           /\ S = {} => Cardinality(S) = 0
  <1>1. IsFiniteSet(Codes)
    BY FS_Interval, EmailAssumption DEF Codes
  <1>2. IsFiniteSet(S)
    BY <1>1, FS_Subset, Zenon
  <1>3. Cardinality(S) \in Nat
    BY <1>2, FS_CardinalityType, Zenon
  <1>4. ASSUME NEW c, c \notin S
        PROVE  Cardinality(S \cup {c}) = Cardinality(S) + 1
    BY <1>2, <1>4, FS_AddElement, Zenon
  <1>5. S = {} => Cardinality(S) = 0
    BY FS_EmptySet
  <1> QED
    BY <1>2, <1>3, <1>4, <1>5

LEMMA UnderCodes == \A k : Under(k) \in SUBSET Codes
  BY DEF Under, Requested

\* What the codes under a key are after a step: one more if its request passes.
LEMMA UnderStep ==
    ASSUME TypeOK, [Next]_vars, NEW k \in Keys
    PROVE  \/ Under(k)' = Under(k) /\ (UNCHANGED limits[<<"request", k>>] \/ Lose)
           \/ \E c \in Codes : /\ c \notin Under(k) /\ Under(k)' = Under(k) \cup {c}
                              /\ Passes("request", k) /\ UNCHANGED <<now, losses>>
  <1>1. "request" \in Limiters /\ "submit" \in Limiters
    BY DEF Limiters
  <1>2. ASSUME NEW c \in Codes, Request(c)
        PROVE  \/ Under(k)' = Under(k) /\ UNCHANGED limits[<<"request", k>>]
               \/ /\ c \notin Under(k) /\ Under(k)' = Under(k) \cup {c}
                  /\ Passes("request", k) /\ UNCHANGED <<now, losses>>
    <2>1. PICK n \in Keys : Passes("request", n) /\ requests'[c].key = n
      BY <1>2, NewRequest
    <2>2. /\ requests[c].phase = "none" /\ requests'[c].phase = "storing"
          /\ \A d \in Codes : d # c => requests'[d] = requests[d]
          /\ UNCHANGED <<now, losses>>
      BY <1>2, NewRequest DEF Request
    <2>3. CASE n = k
      BY <2>1, <2>2, <2>3 DEF Under, Requested
    <2>4. CASE n # k
      <3>1. Under(k)' = Under(k)
        BY <2>1, <2>2, <2>4 DEF Under, Requested
      <3>2. \A i \in Limiters, j \in Keys :
               <<i, j>> # <<"request", n>> => limits'[<<i, j>>] = limits[<<i, j>>]
        BY <1>1, <2>1, PassesEffect
      <3>3. <<"request", k>> # <<"request", n>>
        BY <2>4
      <3>4. UNCHANGED limits[<<"request", k>>]
        BY <1>1, <3>2, <3>3
      <3> QED
        BY <3>1, <3>4
    <2> QED
      BY <2>3, <2>4
  <1>3. ASSUME NEW c \in Codes,
               Replace(c) \/ FindNone(c) \/ Insert(c) \/ SendMail(c) \/ RequestFails(c)
        PROVE  Under(k)' = Under(k) /\ UNCHANGED limits
    <2>1. Under(k)' = Under(k)
      BY <1>3, AsksEffect DEF Under, Requested
    <2> QED
      BY <1>3, <2>1 DEF Replace, FindNone, Insert, SendMail, RequestFails
  <1>4. ASSUME NEW s \in Submits, Submit(s)
        PROVE  Under(k)' = Under(k) /\ UNCHANGED limits[<<"request", k>>]
    <2>1. PICK n \in Keys : Passes("submit", n)
      BY <1>4 DEF Submit
    <2>2. UNCHANGED requests
      BY <1>4 DEF Submit
    <2>3. <<"request", k>> # <<"submit", n>>
      OBVIOUS
    <2> QED
      BY <1>1, <2>1, <2>2, <2>3, PassesEffect DEF Under, Requested
  <1>5. CASE UNCHANGED requests /\ (UNCHANGED limits \/ Lose)
    BY <1>5 DEF Under, Requested
  <1>6. ASSUME NEW c, Works(c) \/ WorkerDies(c)
        PROVE  UNCHANGED <<requests, limits>>
    BY <1>6 DEF Works, Take, Deliver, DeliverFails, WorkerDies
  <1>7. ASSUME NEW s, Answer(s)
        PROVE  UNCHANGED <<requests, limits>>
    BY <1>7 DEF Answer, FindAndDelete, Compare, SubmitFails
  <1>8. CASE Lose \/ Expire \/ Tick \/ UNCHANGED vars
    BY <1>5, <1>8 DEF Lose, Expire, Tick, vars
  <1> QED
    BY <1>2, <1>3, <1>4, <1>5, <1>6, <1>7, <1>8 DEF Next, Asks

\* A code is let through in the window that counts, or opens the next one; a loss takes
\* a window with it.
LEMMA WindowsStep ==
    ASSUME TypeOK, [Next]_vars, NEW k \in Keys, Windows(k)
    PROVE  Windows(k)'
  <1>1. PICK limit : limit = limits[<<"request", k>>]
    OBVIOUS
  <1>2. PICK n \in Nat : n = Cardinality(Under(k))
    BY CodesFinite, UnderCodes
  <1>3. PICK w \in Nat :
           /\ w * RequestWindow <= now
           /\ limit.reset # 0 => w * RequestWindow + RequestWindow <= limit.reset
           /\ n <= RequestMax * (w + losses) + limit.hits
    BY <1>1, <1>2 DEF Windows
  <1>4. /\ now \in Nat /\ now' \in Nat /\ now <= now' /\ losses \in Nat
        /\ limit.hits \in Nat /\ limit.reset \in Nat /\ limit.hits <= RequestMax
        /\ RequestMax \in Nat \ {0} /\ RequestWindow \in Nat \ {0}
        /\ limit.reset = 0 => limit.hits = 0
    <2>1. limits[<<"request", k>>] \in Limit /\ limits[<<"request", k>>].hits <= Max("request")
      BY Types DEF Limiters
    <2> QED
      BY <1>1, <2>1, Types, OtherTypes, EmailAssumption DEF Limit, Max, Windows
  <1>5. /\ w * RequestWindow \in Nat /\ RequestMax * (w + losses) \in Nat
        /\ (w + 1) * RequestWindow = w * RequestWindow + RequestWindow
        /\ RequestMax * ((w + losses) + 1) = RequestMax * (w + losses) + RequestMax
    BY <1>4, Products
  <1>6. CASE Under(k)' = Under(k) /\ UNCHANGED limits[<<"request", k>>] /\ UNCHANGED losses
    <2>1. limits'[<<"request", k>>] = limit /\ losses' = losses /\ Cardinality(Under(k)') = n
      BY <1>1, <1>2, <1>6
    <2>2. w * RequestWindow <= now'
      BY <1>3, <1>4, <1>5
    <2> QED
      BY <1>3, <1>4, <2>1, <2>2 DEF Windows
  <1>7. CASE Under(k)' = Under(k) /\ Lose
    <2>1. losses' = losses + 1 /\ now' = now /\ limits' = NoHits
      BY <1>7 DEF Lose
    <2>2. limits'[<<"request", k>>].hits = 0 /\ limits'[<<"request", k>>].reset = 0
      BY <2>1, NoHitsEffect DEF Limiters
    <2>3. w + losses' = (w + losses) + 1
      BY <1>4, <2>1
    <2>4. n <= RequestMax * (w + losses') + 0
      BY <1>3, <1>4, <1>5, <2>3
    <2> QED
      BY <1>2, <1>3, <1>7, <2>1, <2>2, <2>4 DEF Windows
  <1>8. ASSUME NEW c \in Codes, c \notin Under(k), Under(k)' = Under(k) \cup {c},
               Passes("request", k), UNCHANGED <<now, losses>>
        PROVE  Windows(k)'
    <2>1. Cardinality(Under(k)') = n + 1
      BY <1>2, <1>8, CodesFinite, UnderCodes
    <2>2. PICK new : new = limits'[<<"request", k>>]
      OBVIOUS
    <2>3. \/ now >= limit.reset /\ new.hits = 1 /\ new.reset = now + RequestWindow
          \/ /\ ~(now >= limit.reset)
             /\ new.hits = limit.hits + 1 /\ new.reset = limit.reset
      BY <1>1, <1>8, <2>2, PassesEffect DEF Limiters, Window
    <2> DEFINE Fits(v) ==
                  /\ v * RequestWindow <= now
                  /\ v * RequestWindow + RequestWindow <= new.reset
                  /\ n + 1 <= RequestMax * (v + losses) + new.hits
    <2>4. new.reset # 0 /\ \E v \in Nat : Fits(v)
      <3>1. CASE ~(now >= limit.reset)
        <4>1. Fits(w) /\ new.reset # 0
          BY <1>3, <1>4, <1>5, <2>3, <3>1
        <4> QED
          BY <4>1
      <3>2. CASE now >= limit.reset /\ limit.reset = 0
        <4>1. Fits(w) /\ new.reset # 0
          BY <1>3, <1>4, <1>5, <2>3, <3>2
        <4> QED
          BY <4>1
      <3>3. CASE now >= limit.reset /\ limit.reset # 0
        <4>1. (w + 1) + losses = (w + losses) + 1
          BY <1>4
        <4>2. Fits(w + 1) /\ new.reset # 0
          BY <1>3, <1>4, <1>5, <2>3, <3>3, <4>1
        <4> QED
          BY <4>2
      <3> QED
        BY <3>1, <3>2, <3>3
    <2> QED
      BY <1>8, <2>1, <2>2, <2>4 DEF Windows
  <1>9. UNCHANGED losses \/ Lose
    BY OtherTypes
  <1>10. Lose => ~ UNCHANGED losses
    BY <1>4 DEF Lose
  <1> QED
    BY <1>6, <1>7, <1>8, <1>9, UnderStep

LEMMA EmailStep == EmailInv /\ [Next]_vars => EmailInv'
  <1> SUFFICES ASSUME EmailInv, [Next]_vars PROVE EmailInv'
    OBVIOUS
  <1> USE DEF EmailInv
  <1>1. Mails' /\ Taken' /\ Answered' /\ \A k \in Keys : Windows(k)'
    BY MailsStep, TakenStep, AnsweredStep, WindowsStep
  <1>2. TypeOK'
    <2>1. /\ requests' \in [Codes -> CodeRequest] /\ rows' \subseteq Codes
          /\ jobs' \in [Codes -> MailJob] /\ submits' \in [Submits -> Submission]
      BY RequestTypes, MailsStep, AnsweredStep
    <2> QED
      BY <2>1, OtherTypes, Types
      DEF TypeOK, CodeRequest, MailJob, Submission, Limit
  <1> QED
    BY <1>1, <1>2

LEMMA EmailStarts == Init => EmailInv
  <1> SUFFICES ASSUME Init PROVE EmailInv
    OBVIOUS
  <1> USE EmailAssumption DEF Init
  <1>1. TypeOK
    BY NoHitsEffect DEF TypeOK, Limit, Answers
  <1>2. Mails /\ Taken /\ Answered
    BY DEF Mails, Taken, Answered, Compared
  <1>3. ASSUME NEW k \in Keys
        PROVE  Windows(k)
    <2>1. limits[<<"request", k>>].hits = 0 /\ limits[<<"request", k>>].reset = 0
      BY NoHitsEffect DEF Limiters
    <2>2. Cardinality(Under(k)) = 0
      <3>1. Under(k) = {}
        BY DEF Under, Requested
      <3> QED
        BY <3>1, FS_EmptySet
    <2>3. /\ 0 * RequestWindow = 0 /\ RequestMax * (0 + losses) = 0
          /\ now = 0 /\ losses = 0
      OBVIOUS
    <2> QED
      BY <2>1, <2>2, <2>3 DEF Windows
  <1> QED
    BY <1>1, <1>2, <1>3 DEF EmailInv

-----------------------------------------------------------------------------
(* The theorems *)

THEOREM EmailInvariant == Spec => []EmailInv
  BY EmailStarts, EmailStep, PTL DEF Spec

\* Limits, rows, mails and submissions keep their types; no limiter counts past
\* its maximum and no mail is tried more often than it may be.
THEOREM EmailTypeCorrect == Spec => []TypeOK
  BY EmailInvariant, PTL DEF EmailInv

LEMMA Quotient ==
    ASSUME NEW a \in Nat, NEW b \in Nat \ {0}, NEW w \in Nat, w * b <= a
    PROVE  w <= a \div b
  <1>1. PICK q \in Nat : q = a \div b
    OBVIOUS
  <1>2. a < q * b + b
    BY <1>1
  <1>3. ASSUME q + 1 <= w PROVE FALSE
    <2>1. PICK d \in Nat : w = q + 1 + d
      BY <1>3
    <2>2. w * b = q * b + b + d * b /\ d * b \in Nat /\ q * b \in Nat
      BY <2>1
    <2> QED
      BY <1>2, <2>2
  <1> QED
    BY <1>1, <1>3

\* Whatever the submit limiter is set to and however submissions overlap, no more codes
\* that were asked for under a key are guessed at than the request limiter has let through
\* under this key, for every guess costs a row.
THEOREM GuessesStayBounded == Spec => []GuessesBounded
  <1>1. EmailInv => GuessesBounded
    <2> SUFFICES ASSUME EmailInv, NEW k \in Keys
                 PROVE  Cardinality({s \in Compared : requests[submits[s].took].key = k})
                            <= RequestMax * (1 + losses + now \div RequestWindow)
      BY DEF GuessesBounded
    <2> USE DEF EmailInv
    <2> DEFINE guesses == {s \in Compared : requests[submits[s].took].key = k}
    <2>1. Cardinality(guesses) \in Nat /\ Cardinality(guesses) <= Cardinality(Under(k))
      <3> DEFINE f == [s \in guesses |-> submits[s].took]
      <3>1. f \in Injection(guesses, Under(k))
        BY DEF Taken, Stored, Requested, Under, Injection, IsInjective
      <3> HIDE DEF f, guesses
      <3>2. IsFiniteSet(Under(k))
        BY CodesFinite, UnderCodes
      <3>3. IsFiniteSet(guesses) /\ Cardinality(guesses) <= Cardinality(Under(k))
        BY <3>1, <3>2, FS_Injection, Zenon
      <3> QED
        BY <3>3, FS_CardinalityType, Zenon
    <2> HIDE DEF guesses
    <2>2. PICK limit : limit = limits[<<"request", k>>]
      OBVIOUS
    <2>3. /\ now \in Nat /\ losses \in Nat /\ limit.hits \in Nat
          /\ limit.hits <= RequestMax /\ RequestMax \in Nat \ {0}
          /\ RequestWindow \in Nat \ {0}
      <3>1. limits[<<"request", k>>] \in Limit /\ limits[<<"request", k>>].hits <= Max("request")
        BY Types DEF Limiters
      <3> QED
        BY <2>2, <3>1, Types, EmailAssumption DEF Limit, Max
    <2>4. PICK n \in Nat : n = Cardinality(Under(k))
      BY CodesFinite, UnderCodes
    <2>5. PICK d \in Nat : d = now \div RequestWindow
      BY <2>3
    <2>6. PICK w \in Nat : w * RequestWindow <= now
                            /\ n <= RequestMax * (w + losses) + limit.hits
      BY <2>2, <2>4 DEF Windows
    <2>7. w <= d
      BY <2>3, <2>5, <2>6, Quotient
    <2>8. PICK e \in Nat : d = w + e
      BY <2>7
    <2>9. /\ RequestMax * (1 + losses + d)
                = RequestMax * (w + losses) + RequestMax * e + RequestMax
          /\ RequestMax * e \in Nat /\ RequestMax * (w + losses) \in Nat
      <3>1. 1 + losses + d = ((w + losses) + e) + 1
        BY <2>3, <2>8
      <3>2. PICK a \in Nat : a = w + losses
        BY <2>3
      <3>3. RequestMax * ((a + e) + 1) = RequestMax * a + RequestMax * e + RequestMax
        BY <2>3
      <3> QED
        BY <2>3, <3>1, <3>2, <3>3
    <2> QED
      BY <2>1, <2>3, <2>4, <2>5, <2>6, <2>9 DEF guesses
  <1> QED
    BY <1>1, EmailInvariant, PTL

-----------------------------------------------------------------------------
(* The program keeps the promise of module OneTimeSecret *)

\* Submissions that a code opened a session for.
Opened(c) == {s \in Submits : submits[s].answer = "TOKEN" /\ submits[s].provided = c}

LEMMA SecretsStart == Init => OneTime!Init
  <1> SUFFICES ASSUME Init PROVE OneTime!Init
    OBVIOUS
  <1>1. {c \in Codes : requests[c].phase # "none"} = {}
    BY DEF Init
  <1>2. \A c \in Codes : Opened(c) = {}
    BY DEF Init, Opened
  <1> QED
    BY <1>1, <1>2 DEF OneTime!Init, Opened

\* What does not open a session.
LEMMA NothingOpened ==
    ASSUME \A s \in Submits :
              \/ submits'[s] = submits[s]
              \/ submits[s].answer # "TOKEN" /\ submits'[s].answer # "TOKEN"
    PROVE  \A c \in Codes : Opened(c)' = Opened(c)
  BY DEF Opened

\* A code that is asked for is handed out, a comparison that matches redeems it,
\* and no other step shows.
LEMMA SecretsStep ==
    ASSUME EmailInv, [Next]_vars
    PROVE  [OneTime!Next]_(OneTime!vars)
  <1> DEFINE out == {c \in Codes : requests[c].phase # "none"}
             sessions == [c \in Codes |-> Opened(c)]
  <1> USE DEF EmailInv
  <1>1. CASE Requested' = Requested /\ \A c \in Codes : Opened(c)' = Opened(c)
    BY <1>1 DEF OneTime!vars, Requested, Opened
  <1>2. ASSUME NEW c \in Codes, Request(c)
        PROVE  OneTime!HandOut(c)
    <2>1. c \notin Requested /\ Requested' = Requested \cup {c}
      BY <1>2, NewRequest DEF Requested
    <2>2. UNCHANGED submits
      BY <1>2 DEF Request
    <2> QED
      BY <2>1, <2>2 DEF OneTime!HandOut, Requested
  <1>3. ASSUME NEW s \in Submits, Compare(s), submits'[s].answer = "TOKEN"
        PROVE  \E c \in Codes : OneTime!Redeem(c, s)
    <2>1. PICK c \in Codes \cup {0} : c = submits[s].took
      BY Types DEF Submission
    <2>2. /\ \A t \in Submits : t # s => submits'[t] = submits[t]
          /\ submits[s].phase = "comparing"
          /\ submits'[s].provided = c /\ submits[s].provided = c
      BY <1>3, <2>1, EndEffect
    <2>3. /\ c \in Codes /\ s \in Compared /\ c \in Stored
          /\ submits[s].answer = "none"
      BY <2>1, <2>2 DEF Answered, Compared, Taken
    <2>4. Opened(c) = {}
      <3>1. ASSUME NEW t \in Opened(c) PROVE FALSE
        <4>1. t \in Compared /\ submits[t].took = c /\ submits[t].answer = "TOKEN"
          BY <3>1 DEF Opened, Answered, Compared
        <4> QED
          BY <2>1, <2>3, <4>1 DEF Taken
      <3> QED
        BY <3>1
    <2>5. Opened(c)' = {s} /\ \A d \in Codes : d # c => Opened(d)' = Opened(d)
      BY <1>3, <2>2, <2>3, <2>4 DEF Opened
    <2>6. UNCHANGED requests
      BY <1>3 DEF Compare
    <2>7. /\ c \in out /\ out' = out
          /\ sessions[c] = {} /\ sessions' = [sessions EXCEPT ![c] = {s}]
      BY <2>3, <2>4, <2>5, <2>6 DEF Stored
    <2> QED
      BY <2>3, <2>7 DEF OneTime!Redeem, Opened
  <1>4. ASSUME NEW s \in Submits,
               Submit(s) \/ FindAndDelete(s) \/ Compare(s) \/ SubmitFails(s),
               submits'[s].answer # "TOKEN" \/ ~Compare(s)
        PROVE  Requested' = Requested /\ \A c \in Codes : Opened(c)' = Opened(c)
    <2>1. /\ \A t \in Submits : t # s => submits'[t] = submits[t]
          /\ submits[s].answer # "TOKEN"
      BY <1>4, SubmitEffect, FindEffect, EndEffect DEF Answered
    <2>2. submits'[s].answer # "TOKEN"
      <3>1. CASE Submit(s) \/ FindAndDelete(s)
        BY <2>1, <3>1, SubmitEffect, FindEffect
      <3>2. CASE SubmitFails(s)
        BY <3>2, Types DEF SubmitFails, Submission
      <3> QED
        BY <1>4, <3>1, <3>2
    <2>3. UNCHANGED requests
      BY <1>4 DEF Submit, FindAndDelete, Compare, SubmitFails
    <2>4. \A c \in Codes : Opened(c)' = Opened(c)
      BY <2>1, <2>2, NothingOpened
    <2> QED
      BY <2>3, <2>4 DEF Requested
  <1>5. CASE UNCHANGED submits
    <2>1. \A c \in Codes : Opened(c)' = Opened(c)
      BY <1>5 DEF Opened
    <2>2. ASSUME NEW c \in Codes,
                 Replace(c) \/ FindNone(c) \/ Insert(c) \/ SendMail(c) \/ RequestFails(c)
          PROVE  Requested' = Requested
      BY <2>2, AsksEffect DEF Requested
    <2>3. CASE UNCHANGED requests
      BY <1>1, <2>1, <2>3 DEF Requested
    <2> QED
      BY <1>1, <1>2, <2>1, <2>2, <2>3, RequestTurn DEF OneTime!Next
  <1> QED
    BY <1>1, <1>3, <1>4, <1>5, SubmitTurn DEF OneTime!Next

\* A code opens a session only after it was asked for, and one at most: two
\* submissions of it race for its row, and one of them gets it.
THEOREM CodesAreOneTime == Spec => RefinesOneTimeSecret
  <1>1. EmailInv /\ [Next]_vars => [OneTime!Next]_(OneTime!vars)
    BY SecretsStep
  <1> QED
    BY SecretsStart, <1>1, EmailInvariant, PTL
    DEF Spec, RefinesOneTimeSecret, OneTime!Spec
=============================================================================
