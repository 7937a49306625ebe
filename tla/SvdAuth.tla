------------------------------- MODULE SvdAuth -------------------------------
(***************************************************************************)
(* The SVD login: services/svdService.js with its challenge cache and its  *)
(* replay cache in Redis, the registry of keys in MongoDB and the KMS that *)
(* derives the shared secret, and the client of clients/svdSdk.js.         *)
(*                                                                         *)
(* complete() is split where it waits: the registry, the replay cache, the *)
(* challenge cache and the KMS are four stores or services, other requests *)
(* run in between, and the process may die.  Keys, challenges and devices  *)
(* are values without structure; a signature is good when the device signs *)
(* with the key that the server has read from the registry.                *)
(***************************************************************************)
EXTENDS Naturals, FiniteSets

CONSTANTS
    Users,
    Devices,            \* clients of the users
    UserOf, KeyOf,      \* the user of a device, and the key it signs with
    NoDevice,
    MaxKeys,            \* bound of the model: keys that a user registers
    MaxChallenges,      \* bound of the model: challenges issued
    MaxPosts,           \* bound of the model: times that one challenge is presented
    MaxCalls,           \* bound of the model: calls of complete
    ChallengeTTL,       \* SVD_CHALLENGE_TTL_SEC
    ReplayTTL,          \* DEFAULT_TTL_SEC of the replay cache
    MaxKmsTries,        \* KMS_SIGN_RETRY_ATTEMPTS
    MaxLoginTries,      \* maxAttempts of the client
    MaxCrashes,         \* bound of the model: ends of the API process or of Redis
    MaxTime             \* bound of the model: the clock

ASSUME SvdAssumption ==
    /\ UserOf \in [Devices -> Users] /\ KeyOf \in [Devices -> 1..MaxKeys]
    /\ NoDevice \notin Devices
    /\ {ChallengeTTL, ReplayTTL, MaxKmsTries, MaxLoginTries} \subseteq Nat \ {0}
    /\ ChallengeTTL <= ReplayTTL
    /\ {MaxKeys, MaxChallenges, MaxPosts, MaxCalls, MaxCrashes, MaxTime} \subseteq Nat

\* The master public keys (PMC) of a user are numbered as they are registered; 0 is none.
\* M is the clock and random bytes, never twice the same: challenges are numbered as they
\* are issued, and the presentations of one as they are posted; 0 is none.
Challenges == 1..MaxChallenges
Posts == 1..MaxPosts
Calls == Challenges \X Posts

VARIABLES
    now,
    registry,   \* SvdRegistry: the key of each user
    challenge,  \* challenge cache: the last challenge of each user and its expiry
    replay,     \* replay cache: expiry of the entry of each challenge, 0 for none
    ready,      \* caches of the API process that have seen Redis ready
    devices,    \* login() of each client
    calls,      \* complete() by challenge and presentation
    issued,     \* history: who got a challenge and when, the user's key
                \* then, and whether Redis has lost its data since
    crashes

vars == <<now, registry, challenge, replay, ready, devices, calls, issued, crashes>>

Answers == {"TOKEN", "NO_PMC", "REPLAYED", "EXPIRED", "BAD_CHALLENGE", "INVALID", "ERROR"}

NoCall == [phase |-> "unused", key |-> 0, tries |-> 0, cold |-> FALSE, answer |-> "none"]

\* No login() is under way, or one is about to try again.
Out(tries) ==
    [phase |-> "idle", m |-> 0, post |-> 0, tries |-> tries]

TypeOK ==
    /\ now \in 0..MaxTime
    /\ registry \in [Users -> 0..MaxKeys]
    /\ challenge \in [Users -> [m : 0..MaxChallenges, until : Nat]]
    /\ replay \in [Challenges -> Nat]
    /\ ready \subseteq {"challenge", "replay"}
    /\ devices \in [Devices ->
          [phase : {"idle", "begun", "signing", "waiting"},
           m : 0..MaxChallenges, post : 0..MaxPosts, tries : 1..MaxLoginTries]]
    /\ calls \in [Calls ->
          [phase : {"unused", "posted", "read", "added", "checked", "done"},
           key : 0..MaxKeys, tries : 0..MaxKmsTries, cold : BOOLEAN,
           answer : Answers \cup {"none"}]]
    /\ issued \in [Challenges -> [device : Devices \cup {NoDevice}, at : Nat,
                                  key : 0..MaxKeys, lost : BOOLEAN]]
    /\ crashes \in 0..MaxCrashes

Init ==
    /\ now = 0
    /\ registry = [u \in Users |-> 0]
    /\ challenge = [u \in Users |-> [m |-> 0, until |-> 0]]
    /\ replay = [m \in Challenges |-> 0]
    /\ ready = {}
    /\ devices = [d \in Devices |-> Out(1)]
    /\ calls = [c \in Calls |-> NoCall]
    /\ issued = [m \in Challenges |->
                    [device |-> NoDevice, at |-> 0, key |-> 0, lost |-> FALSE]]
    /\ crashes = 0

Issued == {m \in Challenges : issued[m].device # NoDevice}
Posted == {c \in Calls : calls[c].phase # "unused"}

\* The next challenge to be issued, and the next presentation of m.
NextChallenge(m) == m \notin Issued /\ \A k \in Challenges : k < m => k \in Issued
NextPost(m, n) == <<m, n>> \notin Posted /\ \A k \in Posts : k < n => <<m, k>> \in Posted

\* The bound on calls leaves one to every challenge issued.
CallsLeft == Cardinality(Posted \cup (Issued \X {1})) < MaxCalls

\* To whom a challenge was issued.
Owner(m) == UserOf[issued[m].device]

-----------------------------------------------------------------------------
(* Registration and begin *)

\* registerPMC: an upsert, which replaces the key of a user who has one.  Documents
\* promise a refusal instead (KeyRegisteredOnce); the route's 409 is for the error of a
\* duplicate key, which an upsert by the unique userId does not run into.
Register(u) ==
    /\ registry[u] < MaxKeys
    /\ registry' = [registry EXCEPT ![u] = @ + 1]
    /\ UNCHANGED <<now, challenge, replay, ready, devices, calls, issued, crashes>>

\* begin: the new challenge replaces the user's last one; whether the user has a key is
\* read after that.
Begin(d) ==
    /\ devices[d].phase = "idle"
    /\ "challenge" \in ready
    /\ \E m \in Challenges :
        /\ NextChallenge(m)
        /\ CallsLeft
        /\ issued' = [issued EXCEPT ![m] =
              [device |-> d, at |-> now, key |-> registry[UserOf[d]], lost |-> FALSE]]
        /\ challenge' = [challenge EXCEPT ![UserOf[d]] =
              [m |-> m, until |-> now + ChallengeTTL]]
        /\ devices' = [devices EXCEPT ![d] = [@ EXCEPT !.phase = "begun", !.m = m]]
    /\ UNCHANGED <<now, registry, replay, ready, calls, crashes>>

\* The registry has answered begin; the device has M and signs it.
BeginAnswered(d) ==
    /\ devices[d].phase = "begun"
    /\ devices' = [devices EXCEPT ![d].phase = "signing"]
    /\ UNCHANGED <<now, registry, challenge, replay, ready, calls, issued, crashes>>

-----------------------------------------------------------------------------
(* The client *)

\* The code that _fetchJson finds in a refusal.  The routes answer {error: 'SVD_...'},
\* and it reads errorData.code, which is undefined.
CodeOf(answer) == "undefined"

Retried(d, answer) ==
    /\ CodeOf(answer) \in {"EXPIRED", "REPLAYED"}
    /\ devices[d].tries < MaxLoginTries

\* The catch block of login.
Caught(d, answer) ==
    devices' = IF Retried(d, answer)
               THEN [devices EXCEPT ![d] = Out(devices[d].tries + 1)]
               ELSE [devices EXCEPT ![d] = Out(1)]

\* begin is refused while the challenge cache is not ready; it fails when Redis, the
\* registry or the connection does, with or without a challenge set.
BeginFails(d) ==
    /\ \/ devices[d].phase = "idle" /\ "challenge" \notin ready
       \/ devices[d].phase = "begun"
    /\ Caught(d, "ERROR")
    /\ UNCHANGED <<now, registry, challenge, replay, ready, calls, issued, crashes>>

\* completeSvd: by login once, by a caller that got no answer another time.
Post(d) ==
    /\ devices[d].phase \in {"signing", "waiting"}
    /\ \E n \in Posts :
        /\ NextPost(devices[d].m, n)
        /\ n = 1 \/ CallsLeft
        /\ calls' = [calls EXCEPT ![<<devices[d].m, n>>].phase = "posted"]
        /\ devices' = [devices EXCEPT ![d] = [@ EXCEPT !.phase = "waiting", !.post = n]]
    /\ UNCHANGED <<now, registry, challenge, replay, ready, issued, crashes>>

Answered(d) ==
    LET answer == calls[<<devices[d].m, devices[d].post>>].answer IN
    /\ devices[d].phase = "waiting"
    /\ answer # "none"
    /\ \/ /\ answer = "TOKEN"
          /\ devices' = [devices EXCEPT ![d] = Out(1)]
       \/ answer # "TOKEN" /\ Caught(d, answer)
       \/ Caught(d, "ERROR")    \* the answer gets lost
    /\ UNCHANGED <<now, registry, challenge, replay, ready, calls, issued, crashes>>

-----------------------------------------------------------------------------
(* complete *)

Finished(answer) == [NoCall EXCEPT !.phase = "done", !.answer = answer]

Answer(c, answer) == calls' = [calls EXCEPT ![c] = Finished(answer)]

\* An error that never reaches next().
CallHangs(c) ==
    /\ calls[c].phase \in {"posted", "read", "added", "checked"}
    /\ Answer(c, "none")
    /\ UNCHANGED <<now, registry, challenge, replay, ready, devices, issued, crashes>>

\* The store or service that call c waits for fails, or the answer of the store is lost.
CallFails(c) ==
    /\ calls[c].phase \in {"posted", "read", "added", "checked"}
    /\ Answer(c, "ERROR")
    /\ \/ UNCHANGED replay
       \/ /\ calls[c].phase = "read" /\ replay[c[1]] <= now /\ "replay" \in ready
          /\ replay' = [replay EXCEPT ![c[1]] = now + ReplayTTL]
    /\ UNCHANGED <<now, registry, challenge, ready, devices, issued, crashes>>

ReadRegistry(c) ==
    LET key == registry[Owner(c[1])] IN
    /\ calls[c].phase = "posted"
    /\ IF key = 0 THEN Answer(c, "NO_PMC")
       ELSE calls' = [calls EXCEPT ![c] = [@ EXCEPT !.phase = "read", !.key = key]]
    /\ UNCHANGED <<now, registry, challenge, replay, ready, devices, issued, crashes>>

\* SET without NX.
AddAlways(c) ==
    /\ calls[c].phase = "read"
    /\ replay' = [replay EXCEPT ![c[1]] = now + ReplayTTL]
    /\ calls' = [calls EXCEPT ![c].phase = "added"]
    /\ UNCHANGED <<now, registry, challenge, ready, devices, issued, crashes>>

AddIfNotExists(c) ==
    LET m == c[1] IN
    /\ calls[c].phase = "read"
    /\ IF "replay" \in ready /\ replay[m] <= now
       THEN /\ replay' = [replay EXCEPT ![m] = now + ReplayTTL]
            /\ calls' = [calls EXCEPT ![c].phase = "added"]
       ELSE /\ calls' = [calls EXCEPT ![c] =
                  [Finished("REPLAYED") EXCEPT !.cold = "replay" \notin ready]]
            /\ UNCHANGED replay
    /\ UNCHANGED <<now, registry, challenge, ready, devices, issued, crashes>>

\* A time to live in another unit.
ActiveShorter(u) == challenge[u].m # 0 /\ now + 1 < challenge[u].until

\* Is there a challenge of user u?
Active(u) == challenge[u].m # 0 /\ now < challenge[u].until

VerdictUnsigned(c) ==
    LET u == Owner(c[1]) IN
    CASE ~Active(u) -> "EXPIRED"
      [] Active(u) /\ challenge[u].m # c[1] -> "BAD_CHALLENGE"
      [] OTHER -> "good"

\* The verdict on call c, from the challenge in the cache and the signature.
Verdict(c) ==
    LET u == Owner(c[1]) IN
    CASE ~Active(u) -> "EXPIRED"
      [] Active(u) /\ challenge[u].m # c[1] -> "BAD_CHALLENGE"
      [] Active(u) /\ challenge[u].m = c[1] /\ KeyOf[issued[c[1]].device] # calls[c].key -> "INVALID"
      [] OTHER -> "good"

CheckChallenge(c) ==
    /\ calls[c].phase = "added"
    /\ "challenge" \in ready
    /\ IF Verdict(c) = "good"
       THEN calls' = [calls EXCEPT ![c] = [@ EXCEPT !.phase = "checked", !.tries = 1]]
       ELSE Answer(c, Verdict(c))
    /\ UNCHANGED <<now, registry, challenge, replay, ready, devices, issued, crashes>>

RetryDeriveOnceMore(c) ==
    /\ calls[c].phase = "checked"
    /\ calls[c].tries <= MaxKmsTries
    /\ calls' = [calls EXCEPT ![c].tries = @ + 1]
    /\ UNCHANGED <<now, registry, challenge, replay, ready, devices, issued, crashes>>

\* svdDeriveSharedSecret: the KMS fails and is asked again.
RetryDerive(c) ==
    /\ calls[c].phase = "checked"
    /\ calls[c].tries < MaxKmsTries
    /\ calls' = [calls EXCEPT ![c].tries = @ + 1]
    /\ UNCHANGED <<now, registry, challenge, replay, ready, devices, issued, crashes>>

\* The secret is derived and the token signed.  The challenge stays: the cache has no
\* del, and the TypeError is caught.
IssueToken(c) ==
    /\ calls[c].phase = "checked"
    /\ Answer(c, "TOKEN")
    /\ UNCHANGED <<now, registry, challenge, replay, ready, devices, issued, crashes>>

-----------------------------------------------------------------------------
(* Surroundings *)

\* A cache gets its `ready' event.
CacheReady(cache) ==
    /\ cache \notin ready
    /\ ready' = ready \cup {cache}
    /\ UNCHANGED <<now, registry, challenge, replay, devices, calls, issued, crashes>>

\* The API process dies and starts again.
Restart ==
    /\ crashes < MaxCrashes
    /\ crashes' = crashes + 1
    /\ ready' = {}
    /\ calls' = [c \in DOMAIN calls |->
          IF calls[c].phase \in {"unused", "done"} THEN calls[c]
          ELSE Finished("ERROR")]
    /\ UNCHANGED <<now, registry, challenge, replay, devices, issued>>

\* Redis starts again without its data: both caches lose everything.
RedisLoss ==
    /\ crashes < MaxCrashes
    /\ crashes' = crashes + 1
    /\ challenge' = [u \in Users |-> [m |-> 0, until |-> 0]]
    /\ replay' = [m \in Challenges |-> 0]
    /\ issued' = [m \in Challenges |->
          IF m \in Issued THEN [issued[m] EXCEPT !.lost = TRUE] ELSE issued[m]]
    /\ UNCHANGED <<now, registry, ready, devices, calls>>

Tick ==
    /\ now < MaxTime
    /\ now' = now + 1
    /\ UNCHANGED <<registry, challenge, replay, ready, devices, calls, issued, crashes>>

Client(d) == Begin(d) \/ BeginAnswered(d) \/ BeginFails(d) \/ Post(d) \/ Answered(d)

Server(c) ==
    \/ ReadRegistry(c) \/ AddIfNotExists(c) \/ CheckChallenge(c)
    \/ RetryDerive(c) \/ IssueToken(c) \/ CallFails(c)

Next ==
    \/ \E u \in Users : Register(u)
    \/ \E d \in Devices : Client(d)
    \/ \E c \in Calls : Server(c)
    \/ \E cache \in {"challenge", "replay"} : CacheReady(cache)
    \/ Restart \/ RedisLoss \/ Tick

Spec == Init /\ [][Next]_vars

\* A request that runs goes on or fails, an answer arrives, and a client that has a
\* challenge posts it: timeouts of the drivers and of the KMS client, and the event loop.
FairSpec ==
    /\ Spec
    /\ \A c \in Calls : WF_vars(Server(c))
    /\ \A d \in Devices :
        /\ WF_vars(BeginAnswered(d) \/ BeginFails(d))
        /\ WF_vars(Answered(d))
        /\ WF_vars(devices[d].phase = "signing" /\ Post(d))

-----------------------------------------------------------------------------
(* Properties *)

\* A challenge opens at most one session, however often and however late it is presented
\* and whatever Redis or the process loses in between: the promise of `Single-use' in
\* complete(), which rests on the replay cache alone.
OneTime == INSTANCE OneTimeSecret WITH
    Secrets <- Challenges, Uses <- Posts,
    out <- Issued,
    sessions <- [m \in Challenges |-> {n \in Posts : calls[<<m, n>>].answer = "TOKEN"}]

RefinesOneTimeSecret == OneTime!Spec

\* A refusal tells the truth: the challenge is over its time (or lost with Redis), the
\* user has begun another login since, or this challenge was presented before (or the
\* replay cache is not connected yet and refuses all).
RefusalsJustified ==
    \A m \in Challenges, n \in Posts :
        LET call == calls[<<m, n>>] IN
        /\ call.answer = "EXPIRED" =>
              issued[m].lost \/ now >= issued[m].at + ChallengeTTL
        /\ call.answer = "BAD_CHALLENGE" =>
              \E later \in Issued : later > m /\ Owner(later) = Owner(m)
        /\ call.answer = "REPLAYED" =>
              call.cold \/ \E other \in Posts \ {n} :
                              calls[<<m, other>>].phase \notin {"unused", "posted"}

\* As registrations replace keys: a key that was replaced before a login began opens no
\* session with it, although complete() reads the registry first and waits for three more
\* answers.
RetiredKeyOpensNothing ==
    \A m \in Challenges, n \in Posts :
        calls[<<m, n>>].answer = "TOKEN" => KeyOf[issued[m].device] >= issued[m].key

\* A login under way comes to an end, with a session or an error, whatever the KMS does.
LoginEnds ==
    \A d \in Devices :
        devices[d].phase # "idle" ~> devices[d].phase = "idle"

-----------------------------------------------------------------------------
(* What documents of the repository say, and the code does not do *)

\* docs/API.md:58 and :122, and the comment at routes/svdAuth.js:22: who has a key
\* registers no other one; the answer is 409.
KeyRegisteredOnce ==
    [][\A u \in Users : registry[u] # 0 => registry'[u] = registry[u]]_vars
=============================================================================
