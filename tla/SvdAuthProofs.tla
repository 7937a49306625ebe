---------------------------- MODULE SvdAuthProofs ----------------------------
(***************************************************************************)
(* For any number of users, devices, challenges and presentations, any     *)
(* times to live and any number of crashes: a challenge opens one session  *)
(* at most, refusals tell the truth, and a retired key opens nothing.      *)
(***************************************************************************)
EXTENDS SvdAuth, TLAPS

\* The challenge is over its time, or was lost with Redis.
Late(m) == issued[m].lost \/ now >= issued[m].at + ChallengeTTL

\* The call was the one that set the replay entry, and has not failed since.
Admitted(c) == calls[c].phase \in {"added", "checked"} \/ calls[c].answer = "TOKEN"

\* The call has found its challenge in the cache.
Good(c) == calls[c].phase = "checked" \/ calls[c].answer = "TOKEN"

\* Challenges are issued in order, as time goes on.
InOrder ==
    \A m \in Issued :
        /\ issued[m].at <= now
        /\ \A k \in Challenges : k < m => k \in Issued /\ issued[k].at <= issued[m].at

\* The cache has the last challenge of each user; of users without one all are lost.
Cached ==
    \A u \in Users :
        LET last == challenge[u].m IN
        /\ last # 0 =>
              /\ last \in Issued /\ Owner(last) = u /\ ~issued[last].lost
              /\ challenge[u].until = issued[last].at + ChallengeTTL
              /\ \A m \in Issued : Owner(m) = u => m <= last
        /\ last = 0 => \A m \in Issued : Owner(m) = u => issued[m].lost

\* Only challenges that were issued are presented, and only calls that are over have an
\* answer.
Answerable ==
    /\ \A d \in Devices : devices[d].phase # "idle" => devices[d].m \in Issued
    /\ \A c \in Calls :
          /\ calls[c].phase # "unused" => c[1] \in Issued
          /\ calls[c].answer # "none" => calls[c].phase = "done"

\* A replay entry outlasts its challenge; so a second call gets past it when the challenge
\* is late, and does not find it.
Guarded ==
    /\ \A c \in Calls :
          Admitted(c) => Late(c[1]) \/ replay[c[1]] >= issued[c[1]].at + ChallengeTTL
    /\ \A c, e \in Calls :
          c[1] = e[1] /\ c # e /\ Admitted(c) /\ Admitted(e) => Late(c[1])
    /\ \A c, e \in Calls : c[1] = e[1] /\ Good(c) /\ Good(e) => c = e

\* Keys only grow, and a call reads its key after its challenge was issued.
KeysGrow ==
    /\ \A m \in Issued : registry[Owner(m)] >= issued[m].key
    /\ \A c \in Calls :
          /\ calls[c].phase \in {"read", "added"} => calls[c].key >= issued[c[1]].key
          /\ Good(c) => KeyOf[issued[c[1]].device] >= issued[c[1]].key

\* An entry was set by a call that has got past reading.
EntriesHaveCause ==
    \A m \in Challenges :
        replay[m] > now =>
            \E c \in Calls : c[1] = m /\ calls[c].phase \notin {"unused", "posted", "read"}

SvdInv ==
    /\ TypeOK /\ InOrder /\ Cached /\ Answerable /\ Guarded /\ KeysGrow /\ EntriesHaveCause
    /\ RefusalsJustified

-----------------------------------------------------------------------------
\* Nothing is issued, presented or cached at first.
LEMMA SvdInit == Init => SvdInv
<1> SUFFICES ASSUME Init PROVE SvdInv
  OBVIOUS
<1> USE SvdAssumption DEF Init
<1>1. TypeOK
  BY DEF TypeOK, NoCall, Out, Answers, Posts, Challenges, Calls
<1>2. Issued = {}
  BY DEF Issued
<1>3. InOrder /\ Cached
  BY <1>2 DEF InOrder, Cached
<1>4. Answerable
  BY DEF Answerable, Out, NoCall
<1>5. Guarded /\ KeysGrow
  BY <1>2 DEF Guarded, KeysGrow, Admitted, Good, NoCall
<1>6. EntriesHaveCause
  BY DEF EntriesHaveCause
<1>7. RefusalsJustified
  BY DEF RefusalsJustified, NoCall, Calls
<1> QED
  BY <1>1, <1>3, <1>4, <1>5, <1>6, <1>7 DEF SvdInv

-----------------------------------------------------------------------------
DeviceStates ==
    [phase : {"idle", "begun", "signing", "waiting"},
     m : 0..MaxChallenges, post : 0..MaxPosts, tries : 1..MaxLoginTries]

CallStates ==
    [phase : {"unused", "posted", "read", "added", "checked", "done"},
     key : 0..MaxKeys, tries : 0..MaxKmsTries, cold : BOOLEAN, answer : Answers \cup {"none"}]

IssuedStates ==
    [device : Devices \cup {NoDevice}, at : Nat, key : 0..MaxKeys, lost : BOOLEAN]

CacheStates == [m : 0..MaxChallenges, until : Nat]

\* What the assumption says of each constant.
LEMMA Numbers ==
    /\ ChallengeTTL \in Nat \ {0} /\ ReplayTTL \in Nat \ {0} /\ ChallengeTTL <= ReplayTTL
    /\ MaxKmsTries \in Nat /\ 1 <= MaxKmsTries
    /\ MaxLoginTries \in Nat /\ 1 <= MaxLoginTries
    /\ MaxKeys \in Nat /\ MaxChallenges \in Nat /\ MaxPosts \in Nat
    /\ MaxCrashes \in Nat /\ MaxTime \in Nat
  BY SvdAssumption DEF SvdAssumption

\* The type invariant by parts.
LEMMA TypeByParts ==
    TypeOK <=>
        /\ now \in 0..MaxTime /\ crashes \in 0..MaxCrashes
        /\ registry \in [Users -> 0..MaxKeys]
        /\ challenge \in [Users -> CacheStates]
        /\ replay \in [Challenges -> Nat]
        /\ ready \subseteq {"challenge", "replay"}
        /\ devices \in [Devices -> DeviceStates]
        /\ calls \in [Calls -> CallStates]
        /\ issued \in [Challenges -> IssuedStates]
  BY DEF TypeOK, DeviceStates, CallStates, IssuedStates, CacheStates

\* The state of a login that is begun, again or anew.
LEMMA OutType == ASSUME NEW n \in 1..MaxLoginTries PROVE Out(n) \in DeviceStates
  BY Numbers DEF Out, DeviceStates

\* A login whose error was caught is idle.
LEMMA CaughtType ==
    ASSUME devices \in [Devices -> DeviceStates], NEW d \in Devices, NEW answer,
           Caught(d, answer)
    PROVE  devices' \in [Devices -> DeviceStates] /\ devices'[d].phase = "idle"
                /\ \A e \in Devices \ {d} : devices'[e] = devices[e]
<1>1. \E n \in 1..MaxLoginTries : devices' = [devices EXCEPT ![d] = Out(n)]
  <2>1. devices[d].tries \in 1..MaxLoginTries
    BY DEF DeviceStates
  <2>2. CASE Retried(d, answer)
    <3>1. devices' = [devices EXCEPT ![d] = Out(devices[d].tries + 1)]
      BY <2>2, Zenon DEF Caught
    <3>2. devices[d].tries < MaxLoginTries
      BY <2>2, Zenon DEF Retried
    <3>3. devices[d].tries + 1 \in 1..MaxLoginTries
      BY <2>1, <3>2, Numbers
    <3> QED
      BY <3>1, <3>3, Zenon
  <2>3. CASE ~Retried(d, answer)
    <3>1. devices' = [devices EXCEPT ![d] = Out(1)]
      BY <2>3, Zenon DEF Caught
    <3>2. 1 \in 1..MaxLoginTries
      BY Numbers
    <3> QED
      BY <3>1, <3>2, Zenon
  <2> QED
    BY <2>2, <2>3
<1>2. PICK n \in 1..MaxLoginTries : devices' = [devices EXCEPT ![d] = Out(n)]
  BY <1>1
<1>3. Out(n).phase = "idle"
  BY DEF Out
<1> QED
  BY <1>2, <1>3, OutType

\* A call that is over has a typed state.
LEMMA FinishedType ==
    ASSUME NEW a \in Answers \cup {"none"}
    PROVE  /\ Finished(a) \in CallStates
           /\ Finished(a).phase = "done" /\ Finished(a).answer = a
           /\ \A b \in BOOLEAN : [Finished(a) EXCEPT !.cold = b] \in CallStates
<1>1. NoCall \in CallStates
  BY Numbers DEF NoCall, CallStates
<1>2. Finished(a) \in CallStates /\ Finished(a).phase = "done" /\ Finished(a).answer = a
  BY <1>1 DEF Finished, CallStates
<1> QED
  BY <1>2 DEF CallStates

Untyped == <<now, crashes, registry, challenge, replay, ready, issued>>

\* The updates of a login that the actions make keep its type.
LEMMA DeviceUpdates ==
    ASSUME NEW r \in DeviceStates
    PROVE  /\ [r EXCEPT !.phase = "signing"] \in DeviceStates
           /\ \A m \in 0..MaxChallenges : [r EXCEPT !.phase = "begun", !.m = m] \in DeviceStates
           /\ \A n \in 0..MaxPosts : [r EXCEPT !.phase = "waiting", !.post = n] \in DeviceStates
  BY DEF DeviceStates

\* So do those of a call and of the history of a challenge.
LEMMA CallUpdates ==
    ASSUME NEW r \in CallStates
    PROVE  /\ [r EXCEPT !.phase = "posted"] \in CallStates
           /\ \A k \in 0..MaxKeys : [r EXCEPT !.phase = "read", !.key = k] \in CallStates
           /\ [r EXCEPT !.phase = "added"] \in CallStates
           /\ \A n \in 0..MaxKmsTries :
                 [r EXCEPT !.phase = "checked", !.tries = n] \in CallStates
  BY DEF CallStates

LEMMA IssuedUpdates ==
    ASSUME NEW r \in IssuedStates, NEW b \in BOOLEAN
    PROVE  [r EXCEPT !.lost = b] \in IssuedStates
  BY DEF IssuedStates

\* The owner of a challenge is a user.
LEMMA OwnerType ==
    ASSUME issued \in [Challenges -> IssuedStates], NEW m \in Issued
    PROVE  m \in Challenges /\ Owner(m) \in Users
<1>1. issued[m].device \in Devices
  BY DEF Issued, IssuedStates
<1> QED
  BY <1>1, SvdAssumption DEF Issued, Owner

\* Every step keeps the variables in their types.
LEMMA SvdTypeNext == TypeOK /\ Answerable /\ [Next]_vars => TypeOK'
<1> SUFFICES ASSUME TypeOK, Answerable, [Next]_vars PROVE TypeOK'
  OBVIOUS
<1> DEFINE Parts ==
        /\ now \in 0..MaxTime /\ crashes \in 0..MaxCrashes
        /\ registry \in [Users -> 0..MaxKeys]
        /\ challenge \in [Users -> CacheStates]
        /\ replay \in [Challenges -> Nat]
        /\ ready \subseteq {"challenge", "replay"}
        /\ devices \in [Devices -> DeviceStates]
        /\ calls \in [Calls -> CallStates]
        /\ issued \in [Challenges -> IssuedStates]
<1>a. Parts
  BY TypeByParts
<1> SUFFICES Parts'
  <2>1. TypeOK' <=> Parts'
    BY TypeByParts, PTL
  <2> QED
    BY <2>1
<1> USE SvdAssumption, Numbers, <1>a
<1>1. ASSUME NEW u \in Users, Register(u) PROVE Parts'
  BY <1>1 DEF Register
<1>2. ASSUME NEW d \in Devices, Begin(d) PROVE Parts'
  <2>1. PICK m \in Challenges :
          /\ issued' = [issued EXCEPT ![m] =
                [device |-> d, at |-> now, key |-> registry[UserOf[d]], lost |-> FALSE]]
          /\ challenge' = [challenge EXCEPT ![UserOf[d]] = [m |-> m, until |-> now + ChallengeTTL]]
          /\ devices' = [devices EXCEPT ![d] = [@ EXCEPT !.phase = "begun", !.m = m]]
          /\ UNCHANGED <<now, registry, replay, ready, calls, crashes>>
    BY <1>2 DEF Begin
  <2>2. UserOf[d] \in Users /\ m \in 1..MaxChallenges
    BY DEF Challenges
  <2>3. issued' \in [Challenges -> IssuedStates]
    BY <2>1, <2>2 DEF IssuedStates
  <2>4. challenge' \in [Users -> CacheStates]
    BY <2>1, <2>2 DEF CacheStates
  <2>5. devices' \in [Devices -> DeviceStates]
    <3>1. m \in 0..MaxChallenges
      BY <2>2
    <3>2. [devices[d] EXCEPT !.phase = "begun", !.m = m] \in DeviceStates
      BY <3>1, DeviceUpdates
    <3> QED
      BY <2>1, <3>2
  <2> QED
    BY <2>1, <2>3, <2>4, <2>5
<1>3. ASSUME NEW d \in Devices, BeginAnswered(d) PROVE Parts'
  <2>1. devices' \in [Devices -> DeviceStates]
    BY <1>3 DEF BeginAnswered, DeviceStates
  <2> QED
    BY <1>3, <2>1 DEF BeginAnswered
<1>4. ASSUME NEW d \in Devices, BeginFails(d) PROVE Parts'
  BY <1>4, CaughtType DEF BeginFails
<1>5. ASSUME NEW d \in Devices, Post(d) PROVE Parts'
  <2>1. PICK n \in Posts :
          /\ calls' = [calls EXCEPT ![<<devices[d].m, n>>].phase = "posted"]
          /\ devices' = [devices EXCEPT ![d] = [@ EXCEPT !.phase = "waiting", !.post = n]]
    BY <1>5 DEF Post
  <2>2. devices' \in [Devices -> DeviceStates]
    <3>1. n \in 0..MaxPosts
      BY DEF Posts
    <3>2. [devices[d] EXCEPT !.phase = "waiting", !.post = n] \in DeviceStates
      BY <3>1, DeviceUpdates
    <3> QED
      BY <2>1, <3>2
  <2>3. calls' \in [Calls -> CallStates]
    <3>1. ASSUME NEW c \in Calls PROVE [calls[c] EXCEPT !.phase = "posted"] \in CallStates
      BY DEF CallStates
    <3> QED
      BY <2>1, <3>1
  <2> QED
    BY <1>5, <2>2, <2>3 DEF Post
<1>6. ASSUME NEW d \in Devices, Answered(d) PROVE Parts'
  <2>1. devices' \in [Devices -> DeviceStates]
    <3>1. CASE devices' = [devices EXCEPT ![d] = Out(1)]
      BY <3>1, OutType
    <3>2. ASSUME NEW a, Caught(d, a) PROVE devices' \in [Devices -> DeviceStates]
      BY <3>2, CaughtType
    <3> QED
      BY <1>6, <3>1, <3>2 DEF Answered
  <2> QED
    BY <1>6, <2>1 DEF Answered
<1>7. ASSUME NEW c \in Calls, ReadRegistry(c) PROVE Parts'
  <2>1. CASE Answer(c, "NO_PMC")
    BY <1>7, <2>1, FinishedType DEF ReadRegistry, Answer, Answers
  <2>2. CASE calls' = [calls EXCEPT ![c] = [@ EXCEPT !.phase = "read", !.key = registry[Owner(c[1])]]]
    <3>1. registry[Owner(c[1])] \in 0..MaxKeys
      <4>1. c[1] \in Issued
        BY <1>7 DEF ReadRegistry, Answerable
      <4> QED
        BY <4>1, OwnerType
    <3>2. calls' \in [Calls -> CallStates]
      <4>1. [calls[c] EXCEPT !.phase = "read", !.key = registry[Owner(c[1])]] \in CallStates
        BY <3>1, CallUpdates
      <4> QED
        BY <2>2, <4>1
    <3> QED
      BY <1>7, <3>2 DEF ReadRegistry
  <2> QED
    BY <1>7, <2>1, <2>2 DEF ReadRegistry
<1>8. ASSUME NEW c \in Calls, AddIfNotExists(c) PROVE Parts'
  <2>1. CASE /\ replay' = [replay EXCEPT ![c[1]] = now + ReplayTTL]
             /\ calls' = [calls EXCEPT ![c].phase = "added"]
    <3>1. [calls[c] EXCEPT !.phase = "added"] \in CallStates
      BY CallUpdates
    <3>2. calls' \in [Calls -> CallStates]
      BY <2>1, <3>1
    <3>3. replay' \in [Challenges -> Nat]
      <4>1. now + ReplayTTL \in Nat
        OBVIOUS
      <4> QED
        BY <2>1, <4>1
    <3> QED
      BY <1>8, <3>2, <3>3 DEF AddIfNotExists
  <2>2. CASE /\ calls' = [calls EXCEPT ![c] =
                  [Finished("REPLAYED") EXCEPT !.cold = "replay" \notin ready]]
             /\ UNCHANGED replay
    <3>1. [Finished("REPLAYED") EXCEPT !.cold = "replay" \notin ready] \in CallStates
      BY FinishedType DEF Answers
    <3> QED
      BY <1>8, <2>2, <3>1 DEF AddIfNotExists
  <2> QED
    BY <1>8, <2>1, <2>2 DEF AddIfNotExists
<1>9. ASSUME NEW c \in Calls, CheckChallenge(c) PROVE Parts'
  <2>1. CASE calls' = [calls EXCEPT ![c] = [@ EXCEPT !.phase = "checked", !.tries = 1]]
    <3>1. 1 \in 0..MaxKmsTries
      OBVIOUS
    <3>2. [calls[c] EXCEPT !.phase = "checked", !.tries = 1] \in CallStates
      BY <3>1, CallUpdates
    <3> QED
      BY <1>9, <2>1, <3>2 DEF CheckChallenge
  <2>2. CASE Verdict(c) # "good" /\ Answer(c, Verdict(c))
    <3>1. Verdict(c) \in Answers
      BY <2>2 DEF Verdict, Answers
    <3> QED
      BY <1>9, <2>2, <3>1, FinishedType DEF CheckChallenge, Answer
  <2> QED
    BY <1>9, <2>1, <2>2 DEF CheckChallenge
<1>10. ASSUME NEW c \in Calls, RetryDerive(c) PROVE Parts'
  <2>1. [calls[c] EXCEPT !.tries = @ + 1] \in CallStates
    BY <1>10 DEF RetryDerive, CallStates
  <2> QED
    BY <1>10, <2>1 DEF RetryDerive
<1>11. ASSUME NEW c \in Calls, IssueToken(c) PROVE Parts'
  BY <1>11, FinishedType DEF IssueToken, Answer, Answers
<1>12. ASSUME NEW c \in Calls, CallFails(c) PROVE Parts'
  BY <1>12, FinishedType DEF CallFails, Answer, Answers
<1>13. ASSUME NEW cache \in {"challenge", "replay"}, CacheReady(cache) PROVE Parts'
  BY <1>13 DEF CacheReady
<1>14. CASE Restart
  <2>1. calls' \in [Calls -> CallStates]
    BY <1>14, FinishedType DEF Restart, Answers
  <2> QED
    BY <1>14, <2>1 DEF Restart
<1>15. CASE RedisLoss
  <2>1. challenge' \in [Users -> CacheStates] /\ replay' \in [Challenges -> Nat]
    BY <1>15 DEF RedisLoss, CacheStates
  <2>2. issued' \in [Challenges -> IssuedStates]
    BY <1>15, IssuedUpdates DEF RedisLoss
  <2> QED
    BY <1>15, <2>1, <2>2 DEF RedisLoss
<1>16. CASE Tick
  BY <1>16 DEF Tick
<1>17. CASE UNCHANGED vars
  BY <1>17 DEF vars
<1> HIDE DEF Parts
<1> QED
  BY <1>1, <1>2, <1>3, <1>4, <1>5, <1>6, <1>7, <1>8, <1>9, <1>10, <1>11, <1>12, <1>13, <1>14,
     <1>15, <1>16, <1>17 DEF Next, Client, Server

-----------------------------------------------------------------------------
\* The type facts that the steps below need.
LEMMA TypeFacts ==
    ASSUME TypeOK
    PROVE  /\ now \in Nat
           /\ registry \in [Users -> Nat]
           /\ \A u \in Users : challenge[u].m \in {0} \cup Challenges /\ challenge[u].until \in Nat
           /\ \A m \in Challenges : replay[m] \in Nat /\ issued[m].at \in Nat
                                    /\ issued[m].key \in Nat
           /\ \A m \in Issued : m \in Challenges /\ issued[m].device \in Devices
                                /\ Owner(m) \in Users
           /\ \A c \in Calls : c[1] \in Challenges /\ c[2] \in Posts /\ c = <<c[1], c[2]>>
                               /\ calls[c].key \in Nat
           /\ \A m \in Challenges : m \in Nat /\ m # 0
<1>1. now \in Nat /\ registry \in [Users -> Nat]
  BY Numbers DEF TypeOK
<1>2. \A u \in Users : challenge[u].m \in {0} \cup Challenges /\ challenge[u].until \in Nat
  BY Numbers DEF TypeOK, Challenges
<1>3. \A m \in Challenges : replay[m] \in Nat /\ issued[m].at \in Nat /\ issued[m].key \in Nat
  BY Numbers DEF TypeOK
<1>4. \A m \in Issued : m \in Challenges /\ issued[m].device \in Devices /\ Owner(m) \in Users
  BY OwnerType, TypeByParts DEF Issued, IssuedStates
<1>5. \A c \in Calls : c[1] \in Challenges /\ c[2] \in Posts /\ c = <<c[1], c[2]>>
  BY DEF Calls
<1>6. \A c \in Calls : calls[c].key \in Nat
  BY Numbers DEF TypeOK
<1>7. \A m \in Challenges : m \in Nat /\ m # 0
  BY Numbers DEF Challenges
<1> QED
  BY <1>1, <1>2, <1>3, <1>4, <1>5, <1>6, <1>7

\* Steps that leave the caches, the registry, the calls and the history alone.
Aside == UNCHANGED <<now, registry, challenge, replay, calls, issued>>

\* The steps of complete.
CallStep(c) ==
    \/ ReadRegistry(c) \/ AddIfNotExists(c) \/ CheckChallenge(c)
    \/ RetryDerive(c) \/ IssueToken(c) \/ CallFails(c)

\* Every step is one of these.
LEMMA Steps ==
    ASSUME [Next]_vars
    PROVE  \/ \E u \in Users : Register(u)
           \/ \E d \in Devices : Begin(d) \/ Post(d)
           \/ \E c \in Calls : CallStep(c)
           \/ Restart \/ RedisLoss \/ Tick \/ Aside
  BY DEF Next, Client, Server, CallStep, Aside, BeginAnswered, BeginFails, Answered, CacheReady,
         vars

-----------------------------------------------------------------------------
\* Begin takes the next challenge.
LEMMA BeginStep ==
    ASSUME TypeOK, InOrder, NEW d \in Devices, Begin(d)
    PROVE  \E m \in Challenges :
              /\ m \notin Issued /\ \A k \in Issued : k < m
              /\ \A k \in Challenges : k < m => k \in Issued
              /\ issued' = [issued EXCEPT ![m] =
                    [device |-> d, at |-> now, key |-> registry[UserOf[d]], lost |-> FALSE]]
              /\ challenge' = [challenge EXCEPT ![UserOf[d]] =
                    [m |-> m, until |-> now + ChallengeTTL]]
              /\ Issued' = Issued \cup {m}
              /\ Owner(m)' = UserOf[d]
              /\ \A k \in Issued : issued'[k] = issued[k] /\ Owner(k)' = Owner(k)
              /\ UNCHANGED <<now, registry, replay, calls>>
<1>1. PICK m \in Challenges :
        /\ NextChallenge(m)
        /\ issued' = [issued EXCEPT ![m] =
              [device |-> d, at |-> now, key |-> registry[UserOf[d]], lost |-> FALSE]]
        /\ challenge' = [challenge EXCEPT ![UserOf[d]] = [m |-> m, until |-> now + ChallengeTTL]]
  BY DEF Begin
<1>0. UNCHANGED <<now, registry, replay, calls>>
  BY Zenon DEF Begin
<1>2. m \notin Issued /\ \A k \in Challenges : k < m => k \in Issued
  BY <1>1 DEF NextChallenge
<1>3. ASSUME NEW k \in Issued PROVE k < m
  <2>1. k \in Nat /\ m \in Nat /\ k # m
    BY <1>2, TypeFacts
  <2>2. ~(m < k)
    BY <1>2 DEF InOrder
  <2> QED
    BY <2>1, <2>2
<1>4. issued'[m].device = d /\ \A k \in Challenges \ {m} : issued'[k] = issued[k]
  BY <1>1 DEF TypeOK
<1>5. Issued' = Issued \cup {m}
  BY <1>4, SvdAssumption DEF Issued
<1>6. Owner(m)' = UserOf[d] /\ \A k \in Issued : issued'[k] = issued[k] /\ Owner(k)' = Owner(k)
  BY <1>2, <1>4, TypeFacts DEF Owner
<1> QED
  BY <1>0, <1>1, <1>2, <1>3, <1>5, <1>6

\* Post presents a challenge that was issued, to a call that has not been made.
LEMMA PostStep ==
    ASSUME TypeOK, Answerable, NEW d \in Devices, Post(d)
    PROVE  \E c \in Calls :
              /\ c[1] \in Issued /\ c[1] = devices[d].m
              /\ calls[c].phase = "unused" /\ calls[c].answer = "none"
              /\ calls'[c].phase = "posted" /\ calls'[c].answer = "none"
              /\ \A e \in Calls \ {c} : calls'[e] = calls[e]
              /\ devices'[d].m = devices[d].m
              /\ \A e \in Devices \ {d} : devices'[e] = devices[e]
              /\ UNCHANGED <<now, registry, challenge, replay, issued>>
<1>1. PICK n \in Posts :
        /\ NextPost(devices[d].m, n)
        /\ calls' = [calls EXCEPT ![<<devices[d].m, n>>].phase = "posted"]
        /\ devices' = [devices EXCEPT ![d] = [@ EXCEPT !.phase = "waiting", !.post = n]]
  BY Zenon DEF Post
<1>2. UNCHANGED <<now, registry, challenge, replay, issued>>
  BY Zenon DEF Post
<1>3. devices[d].m \in Issued
  BY Zenon DEF Post, Answerable
<1> DEFINE c == <<devices[d].m, n>>
<1>4. c \in Calls /\ c[1] = devices[d].m
  BY <1>3, TypeFacts DEF Calls
<1>5. calls[c].phase = "unused"
  BY <1>1, <1>4 DEF NextPost, Posted
<1>6. calls[c].answer = "none"
  BY <1>4, <1>5 DEF Answerable
<1>7. calls'[c].phase = "posted" /\ calls'[c].answer = calls[c].answer
        /\ \A e \in Calls \ {c} : calls'[e] = calls[e]
  BY <1>1, <1>4 DEF TypeOK
<1>8. devices'[d].m = devices[d].m /\ \A e \in Devices \ {d} : devices'[e] = devices[e]
  BY <1>1 DEF TypeOK
<1> HIDE DEF c
<1> QED
  BY <1>2, <1>3, <1>4, <1>5, <1>6, <1>7, <1>8

\* The clock and the history during the steps of others.
LEMMA Quiet ==
    /\ \A u \in Users : Register(u) => UNCHANGED <<now, challenge, replay, calls, devices, issued>>
    /\ \A d \in Devices : Post(d) => UNCHANGED <<now, registry, challenge, replay, issued>>
    /\ \A c \in Calls : CallStep(c) => UNCHANGED <<now, registry, challenge, devices, issued>>
    /\ Restart => UNCHANGED <<now, registry, challenge, replay, devices, issued>>
    /\ Tick => now' = now + 1
               /\ UNCHANGED <<registry, challenge, replay, calls, devices, issued>>
<1>1. \A u \in Users : Register(u) => UNCHANGED <<now, challenge, replay, calls, devices, issued>>
  BY Zenon DEF Register
<1>2. \A d \in Devices : Post(d) => UNCHANGED <<now, registry, challenge, replay, issued>>
  BY Zenon DEF Post
<1>3. \A c \in Calls : CallStep(c) => UNCHANGED <<now, registry, challenge, devices, issued>>
  BY Zenon DEF CallStep, ReadRegistry, AddIfNotExists, CheckChallenge, RetryDerive,
               IssueToken, CallFails
<1>4. Restart => UNCHANGED <<now, registry, challenge, replay, devices, issued>>
  BY Zenon DEF Restart
<1>5. Tick => now' = now + 1
               /\ UNCHANGED <<registry, challenge, replay, calls, devices, issued>>
  BY Zenon DEF Tick
<1> QED
  BY <1>1, <1>2, <1>3, <1>4, <1>5

\* Challenges stay in order.
LEMMA InOrderNext == TypeOK /\ InOrder /\ [Next]_vars => InOrder'
<1> SUFFICES ASSUME TypeOK, InOrder, [Next]_vars PROVE InOrder'
  OBVIOUS
<1>1. CASE now' = now /\ issued' = issued
  BY <1>1 DEF InOrder, Issued
<1>2. CASE Tick
  BY <1>2, TypeFacts DEF Tick, InOrder, Issued
<1>3. CASE RedisLoss
  BY <1>3 DEF RedisLoss, InOrder, Issued, TypeOK
<1>4. ASSUME NEW d \in Devices, Begin(d) PROVE InOrder'
  <2>1. PICK m \in Challenges :
              /\ m \notin Issued /\ \A k \in Issued : k < m
              /\ \A k \in Challenges : k < m => k \in Issued
              /\ issued' = [issued EXCEPT ![m] =
                    [device |-> d, at |-> now, key |-> registry[UserOf[d]], lost |-> FALSE]]
              /\ Issued' = Issued \cup {m}
              /\ \A k \in Issued : issued'[k] = issued[k]
    BY <1>4, BeginStep
  <2>2. now' = now
    BY <1>4, BeginStep
  <2>3. issued'[m].at = now
    BY <2>1 DEF TypeOK
  <2> QED
    BY <2>1, <2>2, <2>3, TypeFacts DEF InOrder
<1> QED
  BY <1>1, <1>2, <1>3, <1>4, Steps, Quiet DEF Aside

\* A Redis that lost its data knows no challenge, and all that were issued are lost.
LEMMA LossStep ==
    ASSUME TypeOK, RedisLoss
    PROVE  /\ Issued' = Issued
           /\ \A m \in Challenges : issued'[m].device = issued[m].device
                                    /\ issued'[m].at = issued[m].at /\ issued'[m].key = issued[m].key
                                    /\ (issued[m].lost => issued'[m].lost)
           /\ \A m \in Issued : issued'[m].lost
           /\ \A u \in Users : challenge'[u].m = 0
           /\ \A m \in Challenges : replay'[m] = 0
           /\ UNCHANGED <<now, registry, calls, devices>>
  BY DEF RedisLoss, Issued, TypeOK

\* What every step leaves as it was.
LEMMA HistoryStays ==
    ASSUME TypeOK, InOrder, [Next]_vars
    PROVE  /\ now <= now' /\ now' \in Nat
           /\ \A m \in Issued :
                 /\ m \in Issued' /\ Owner(m)' = Owner(m)
                 /\ issued'[m].at = issued[m].at /\ issued'[m].key = issued[m].key
                 /\ issued'[m].device = issued[m].device
                 /\ Late(m) => Late(m)'
<1> USE TypeFacts, Numbers
<1>1. CASE issued' = issued /\ now' = now
  BY <1>1 DEF Issued, Owner, Late
<1>2. CASE Tick
  BY <1>2 DEF Tick, Issued, Owner, Late
<1>3. CASE RedisLoss
  BY <1>3, LossStep DEF Issued, Owner, Late
<1>4. ASSUME NEW d \in Devices, Begin(d)
      PROVE  /\ now' = now
             /\ \A m \in Issued : m \in Issued' /\ issued'[m] = issued[m]
  BY <1>4, BeginStep
<1>5. ASSUME NEW d \in Devices, Begin(d)
      PROVE  /\ now <= now' /\ now' \in Nat
             /\ \A m \in Issued :
                 /\ m \in Issued' /\ Owner(m)' = Owner(m)
                 /\ issued'[m].at = issued[m].at /\ issued'[m].key = issued[m].key
                 /\ issued'[m].device = issued[m].device
                 /\ Late(m) => Late(m)'
  BY <1>4, <1>5 DEF Owner, Late
<1> QED
  BY <1>1, <1>2, <1>3, <1>5, Steps, Quiet DEF Aside

\* The cache keeps the last challenge of each user.
LEMMA CachedNext == TypeOK /\ InOrder /\ Cached /\ [Next]_vars => Cached'
<1> SUFFICES ASSUME TypeOK, InOrder, Cached, [Next]_vars PROVE Cached'
  OBVIOUS
<1>1. CASE challenge' = challenge /\ issued' = issued
  BY <1>1 DEF Cached, Issued, Owner
<1>2. CASE RedisLoss
  BY <1>2, LossStep DEF Cached
<1>3. ASSUME NEW d \in Devices, Begin(d) PROVE Cached'
  <2>1. PICK m \in Challenges :
              /\ m \notin Issued /\ \A k \in Issued : k < m
              /\ issued' = [issued EXCEPT ![m] =
                    [device |-> d, at |-> now, key |-> registry[UserOf[d]], lost |-> FALSE]]
              /\ challenge' = [challenge EXCEPT ![UserOf[d]] =
                    [m |-> m, until |-> now + ChallengeTTL]]
              /\ Issued' = Issued \cup {m}
              /\ Owner(m)' = UserOf[d]
              /\ \A k \in Issued : issued'[k] = issued[k] /\ Owner(k)' = Owner(k)
    BY <1>3, BeginStep
  <2>2. issued'[m].at = now /\ ~issued'[m].lost
    BY <2>1 DEF TypeOK
  <2>3. UserOf[d] \in Users
    BY SvdAssumption
  <2>a. ASSUME NEW u \in Users
        PROVE  /\ challenge'[u].m # 0 =>
                    /\ challenge'[u].m \in Issued'
                    /\ UserOf[issued'[challenge'[u].m].device] = u
                    /\ ~issued'[challenge'[u].m].lost
                    /\ challenge'[u].until = issued'[challenge'[u].m].at + ChallengeTTL
                    /\ \A k \in Issued' : UserOf[issued'[k].device] = u => k <= challenge'[u].m
               /\ challenge'[u].m = 0 =>
                    \A k \in Issued' : UserOf[issued'[k].device] = u => issued'[k].lost
    <3>1. CASE u = UserOf[d]
      <4>1. challenge'[u].m = m /\ challenge'[u].until = now + ChallengeTTL
        BY <2>1, <2>3, <3>1 DEF TypeOK
      <4>2. \A k \in Issued' : k <= m
        BY <2>1, TypeFacts
      <4> QED
        BY <2>1, <2>2, <3>1, <4>1, <4>2, TypeFacts DEF Owner
    <3>2. CASE u # UserOf[d]
      <4>1. challenge'[u] = challenge[u]
        BY <2>1, <2>3, <3>2 DEF TypeOK
      <4> QED
        BY <2>1, <3>2, <4>1 DEF Cached, Owner
    <3> QED
      BY <3>1, <3>2
  <2> QED
    BY <2>a DEF Cached, Owner
<1> QED
  BY <1>1, <1>2, <1>3, Steps, Quiet DEF Aside

-----------------------------------------------------------------------------
-----------------------------------------------------------------------------
\* The fields of a call after the updates that the actions make.
LEMMA CallFields ==
    ASSUME NEW r \in CallStates
    PROVE  /\ [r EXCEPT !.phase = "added"].phase = "added"
           /\ [r EXCEPT !.phase = "added"].answer = r.answer
           /\ [r EXCEPT !.phase = "added"].key = r.key
           /\ \A k \in 0..MaxKeys :
                 /\ [r EXCEPT !.phase = "read", !.key = k].phase = "read"
                 /\ [r EXCEPT !.phase = "read", !.key = k].answer = r.answer
                 /\ [r EXCEPT !.phase = "read", !.key = k].key = k
           /\ [r EXCEPT !.phase = "checked", !.tries = 1].phase = "checked"
           /\ [r EXCEPT !.phase = "checked", !.tries = 1].answer = r.answer
           /\ [r EXCEPT !.tries = @ + 1].phase = r.phase
           /\ [r EXCEPT !.tries = @ + 1].answer = r.answer
  BY DEF CallStates

LEMMA FinishedFields ==
    /\ \A a : Finished(a).phase = "done" /\ Finished(a).answer = a
    /\ \A a, b : /\ [Finished(a) EXCEPT !.cold = b].phase = "done"
                 /\ [Finished(a) EXCEPT !.cold = b].answer = a
                 /\ [Finished(a) EXCEPT !.cold = b].cold = b
  BY DEF Finished, NoCall

\* Only call c changes.
OnlyCall(c) == \A e \in Calls \ {c} : calls'[e] = calls[e]

\* Call c ends with an answer.
Ends(c, answer) == calls'[c].phase = "done" /\ calls'[c].answer = answer

\* Call c goes on from one phase to another.
GoesOn(c, from, to) ==
    calls[c].phase = from /\ calls'[c].phase = to /\ calls'[c].answer = "none"

\* The call sets the replay entry, which was not there.
SetsEntry(c) ==
    replay[c[1]] <= now /\ replay' = [replay EXCEPT ![c[1]] = now + ReplayTTL]

\* Each step of complete, as the invariant sees it.
Effect(c) ==
    \/ /\ UNCHANGED replay
       /\ \/ GoesOn(c, "posted", "read") /\ calls'[c].key = registry[Owner(c[1])]
          \/ calls[c].phase = "posted" /\ Ends(c, "NO_PMC")
          \/ /\ calls[c].phase = "read" /\ Ends(c, "REPLAYED")
             /\ replay[c[1]] > now \/ calls'[c].cold
          \/ GoesOn(c, "added", "checked") /\ Verdict(c) = "good"
          \/ calls[c].phase = "added" /\ Verdict(c) # "good" /\ Ends(c, Verdict(c))
          \/ GoesOn(c, "checked", "checked")
          \/ calls[c].phase = "checked" /\ Ends(c, "TOKEN")
          \/ calls[c].phase \in {"posted", "read", "added", "checked"} /\ Ends(c, "ERROR")
    \/ SetsEntry(c) /\ GoesOn(c, "read", "added") /\ calls'[c].key = calls[c].key
    \/ SetsEntry(c) /\ calls[c].phase = "read" /\ Ends(c, "ERROR")

\* Every step of complete has one of these effects.
LEMMA CallEffect ==
    ASSUME TypeOK, Answerable, NEW c \in Calls, CallStep(c)
    PROVE  OnlyCall(c) /\ Effect(c)
<1>a. calls \in [Calls -> CallStates] /\ registry \in [Users -> 0..MaxKeys]
  BY TypeByParts
<1>b. calls[c] \in CallStates
  BY <1>a
<1>c. calls[c].phase # "done" => calls[c].answer = "none"
  BY DEF Answerable
<1>d. ASSUME NEW v, calls' = [calls EXCEPT ![c] = v] PROVE calls'[c] = v /\ OnlyCall(c)
  BY <1>a, <1>d DEF OnlyCall
<1>e. ASSUME NEW a, Answer(c, a) PROVE Ends(c, a) /\ OnlyCall(c)
  <2>1. calls' = [calls EXCEPT ![c] = Finished(a)]
    BY <1>e, Zenon DEF Answer
  <2>2. calls'[c] = Finished(a) /\ OnlyCall(c)
    BY <1>d, <2>1, Zenon
  <2> QED
    BY <2>2, FinishedFields DEF Ends
<1>1. CASE ReadRegistry(c)
  <2>1. c[1] \in Issued
    BY <1>1 DEF ReadRegistry, Answerable
  <2>2. registry[Owner(c[1])] \in 0..MaxKeys
    BY <1>a, <2>1, TypeFacts
  <2>3. calls[c].phase = "posted" /\ UNCHANGED replay
    BY <1>1, Zenon DEF ReadRegistry
  <2>4. CASE Answer(c, "NO_PMC")
    BY <1>e, <2>3, <2>4 DEF Effect
  <2>5. CASE calls' = [calls EXCEPT ![c] = [@ EXCEPT !.phase = "read", !.key = registry[Owner(c[1])]]]
    <3>1. calls'[c] = [calls[c] EXCEPT !.phase = "read", !.key = registry[Owner(c[1])]] /\ OnlyCall(c)
      BY <1>a, <2>5 DEF OnlyCall
    <3>2. calls'[c].phase = "read" /\ calls'[c].answer = calls[c].answer
            /\ calls'[c].key = registry[Owner(c[1])]
      BY <1>b, <2>2, <3>1, CallFields
    <3> QED
      BY <1>c, <2>3, <3>1, <3>2 DEF Effect, GoesOn
  <2> QED
    BY <1>1, <2>4, <2>5, Zenon DEF ReadRegistry
<1>2. CASE AddIfNotExists(c)
  <2>1. calls[c].phase = "read"
    BY <1>2, Zenon DEF AddIfNotExists
  <2>2. CASE "replay" \in ready /\ replay[c[1]] <= now
    <3>1. /\ replay' = [replay EXCEPT ![c[1]] = now + ReplayTTL]
          /\ calls' = [calls EXCEPT ![c].phase = "added"]
      BY <1>2, <2>2, Zenon DEF AddIfNotExists
    <3>2. calls'[c] = [calls[c] EXCEPT !.phase = "added"] /\ OnlyCall(c)
      BY <1>a, <3>1 DEF OnlyCall
    <3>3. calls'[c].phase = "added" /\ calls'[c].answer = calls[c].answer
            /\ calls'[c].key = calls[c].key
      BY <1>b, <3>2, CallFields
    <3> QED
      BY <1>c, <2>1, <2>2, <3>1, <3>2, <3>3 DEF Effect, GoesOn, SetsEntry
  <2>3. CASE ~("replay" \in ready /\ replay[c[1]] <= now)
    <3>1. /\ calls' = [calls EXCEPT ![c] =
                [Finished("REPLAYED") EXCEPT !.cold = "replay" \notin ready]]
          /\ UNCHANGED replay
      BY <1>2, <2>3, Zenon DEF AddIfNotExists
    <3>2. calls'[c] = [Finished("REPLAYED") EXCEPT !.cold = "replay" \notin ready] /\ OnlyCall(c)
      BY <1>d, <3>1, Zenon
    <3>3. Ends(c, "REPLAYED") /\ calls'[c].cold = ("replay" \notin ready)
      BY <3>2, FinishedFields DEF Ends
    <3>4. "replay" \notin ready => calls'[c].cold
      BY <3>3, Zenon
    <3>5. replay[c[1]] > now \/ calls'[c].cold
      BY <2>3, <3>4, TypeFacts
    <3> QED
      BY <2>1, <3>1, <3>2, <3>3, <3>5, Zenon DEF Effect
  <2> QED
    BY <2>2, <2>3
<1>3. CASE CheckChallenge(c)
  <2>1. calls[c].phase = "added" /\ UNCHANGED replay
    BY <1>3, Zenon DEF CheckChallenge
  <2>2. CASE Verdict(c) = "good"
    <3>1. calls' = [calls EXCEPT ![c] = [@ EXCEPT !.phase = "checked", !.tries = 1]]
      BY <1>3, <2>2, Zenon DEF CheckChallenge
    <3>2. calls'[c] = [calls[c] EXCEPT !.phase = "checked", !.tries = 1] /\ OnlyCall(c)
      BY <1>a, <3>1 DEF OnlyCall
    <3>3. calls'[c].phase = "checked" /\ calls'[c].answer = calls[c].answer
      BY <1>b, <3>2, CallFields
    <3> QED
      BY <1>c, <2>1, <2>2, <3>2, <3>3 DEF Effect, GoesOn
  <2>3. CASE Verdict(c) # "good"
    <3>1. Answer(c, Verdict(c))
      BY <1>3, <2>3, Zenon DEF CheckChallenge
    <3> QED
      BY <1>e, <2>1, <2>3, <3>1 DEF Effect
  <2> QED
    BY <2>2, <2>3
<1>4. CASE RetryDerive(c)
  <2>1. calls[c].phase = "checked" /\ UNCHANGED replay
            /\ calls' = [calls EXCEPT ![c].tries = @ + 1]
    BY <1>4, Zenon DEF RetryDerive
  <2>2. calls'[c] = [calls[c] EXCEPT !.tries = @ + 1] /\ OnlyCall(c)
    BY <1>a, <2>1 DEF OnlyCall
  <2>3. calls'[c].phase = calls[c].phase /\ calls'[c].answer = calls[c].answer
    BY <1>b, <2>2, CallFields
  <2> QED
    BY <1>c, <2>1, <2>2, <2>3 DEF Effect, GoesOn
<1>5. CASE IssueToken(c)
  BY <1>5, <1>e, Zenon DEF IssueToken, Effect
<1>6. CASE CallFails(c)
  <2>1. calls[c].phase \in {"posted", "read", "added", "checked"} /\ Answer(c, "ERROR")
          /\ \/ UNCHANGED replay
             \/ calls[c].phase = "read" /\ SetsEntry(c)
    BY <1>6, Zenon DEF CallFails, SetsEntry
  <2>2. Ends(c, "ERROR") /\ OnlyCall(c)
    BY <1>e, <2>1, Zenon
  <2> QED
    BY <2>1, <2>2, Zenon DEF Effect
<1> QED
  BY <1>1, <1>2, <1>3, <1>4, <1>5, <1>6, Zenon DEF CallStep

\* What a step of someone else may do to a call: present it first, or end it with an error.
Untouched(c) ==
    \/ calls'[c] = calls[c]
    \/ /\ calls[c].phase = "unused" /\ c[1] \in Issued
       /\ calls'[c].phase = "posted" /\ calls'[c].answer = "none"
    \/ calls[c].phase \notin {"unused", "done"} /\ Ends(c, "ERROR")

\* What the steps outside complete do to calls, entries and keys.
LEMMA OtherSteps ==
    ASSUME TypeOK, InOrder, Answerable, [Next]_vars, \A c \in Calls : ~CallStep(c)
    PROVE  /\ \A c \in Calls : Untouched(c)
           /\ \/ UNCHANGED replay
              \/ RedisLoss /\ UNCHANGED calls /\ \A m \in Challenges : replay'[m] = 0
           /\ \A u \in Users : registry'[u] >= registry[u]
<1>a. \A u \in Users : registry[u] \in Nat
  BY TypeFacts
<1>1. CASE UNCHANGED <<calls, replay, registry>>
  BY <1>1, <1>a DEF Untouched
<1>2. ASSUME NEW u \in Users, Register(u)
      PROVE  UNCHANGED <<calls, replay>> /\ \A v \in Users : registry'[v] >= registry[v]
  <2>1. UNCHANGED <<calls, replay>> /\ registry' = [registry EXCEPT ![u] = @ + 1]
    BY <1>2, Zenon DEF Register
  <2> QED
    BY <1>a, <2>1, TypeFacts
<1>3. ASSUME NEW d \in Devices, Begin(d) PROVE UNCHANGED <<calls, replay, registry>>
  BY <1>3, BeginStep
<1>4. ASSUME NEW d \in Devices, Post(d)
      PROVE  UNCHANGED <<replay, registry>> /\ \A c \in Calls : Untouched(c)
  <2>1. PICK c \in Calls :
              /\ c[1] \in Issued
              /\ calls[c].phase = "unused"
              /\ calls'[c].phase = "posted" /\ calls'[c].answer = "none"
              /\ \A e \in Calls \ {c} : calls'[e] = calls[e]
              /\ UNCHANGED <<registry, replay>>
    BY <1>4, PostStep
  <2> QED
    BY <2>1 DEF Untouched
<1>5. ASSUME Restart PROVE UNCHANGED <<replay, registry>> /\ \A c \in Calls : Untouched(c)
  <2>1. UNCHANGED <<replay, registry>>
          /\ calls' = [c \in DOMAIN calls |->
                          IF calls[c].phase \in {"unused", "done"} THEN calls[c]
                          ELSE Finished("ERROR")]
    BY <1>5, Zenon DEF Restart
  <2>2. DOMAIN calls = Calls
    BY TypeByParts
  <2> QED
    BY <2>1, <2>2, FinishedFields DEF Untouched, Ends
<1>6. ASSUME RedisLoss
      PROVE  /\ UNCHANGED <<registry, calls>>
             /\ RedisLoss /\ \A m \in Challenges : replay'[m] = 0
  BY <1>6, LossStep
<1>7. (\E c \in Calls : CallStep(c)) = FALSE
  OBVIOUS
<1>8. CASE Tick \/ Aside
  BY <1>1, <1>8, Quiet DEF Aside
<1>9. CASE RedisLoss
  BY <1>6, <1>9, <1>a DEF Untouched
<1>10. CASE \E u \in Users : Register(u)
  BY <1>2, <1>10 DEF Untouched
<1>11. CASE \E d \in Devices : Begin(d) \/ Post(d)
  BY <1>1, <1>3, <1>4, <1>11, <1>a
<1>12. CASE Restart
  BY <1>5, <1>12, <1>a
<1> QED
  BY <1>7, <1>8, <1>9, <1>10, <1>11, <1>12, Steps

-----------------------------------------------------------------------------
\* Only what was issued is presented, and only what is over is answered.
LEMMA AnswerableNext == TypeOK /\ InOrder /\ Answerable /\ [Next]_vars => Answerable'
<1> SUFFICES ASSUME TypeOK, InOrder, Answerable, [Next]_vars PROVE Answerable'
  OBVIOUS
<1>1. \A m \in Issued : m \in Issued'
  BY HistoryStays
<1>2. \A c \in Calls : /\ calls'[c].phase # "unused" => c[1] \in Issued
                       /\ calls'[c].answer # "none" => calls'[c].phase = "done"
  <2>1. ASSUME NEW c \in Calls, CallStep(c), NEW e \in Calls
        PROVE  /\ calls'[e].phase # "unused" => e[1] \in Issued
               /\ calls'[e].answer # "none" => calls'[e].phase = "done"
    <3>1. OnlyCall(c) /\ Effect(c)
      BY <2>1, CallEffect
    <3> QED
      BY <3>1 DEF OnlyCall, Effect, GoesOn, Ends, Answerable
  <2>2. ASSUME \A c \in Calls : ~CallStep(c), NEW e \in Calls
        PROVE  /\ calls'[e].phase # "unused" => e[1] \in Issued
               /\ calls'[e].answer # "none" => calls'[e].phase = "done"
    <3>1. Untouched(e)
      BY <2>2, OtherSteps
    <3> QED
      BY <3>1 DEF Untouched, Ends, Answerable
  <2> QED
    BY <2>1, <2>2
<1>3. ASSUME NEW d \in Devices, NEW e \in Devices, devices'[e].phase # "idle",
             Client(d)
      PROVE  devices'[e].m \in Issued'
  <2>1. CASE Begin(d)
    <3>1. PICK m \in Challenges :
            /\ NextChallenge(m)
            /\ issued' = [issued EXCEPT ![m] =
                  [device |-> d, at |-> now, key |-> registry[UserOf[d]], lost |-> FALSE]]
            /\ devices' = [devices EXCEPT ![d] = [@ EXCEPT !.phase = "begun", !.m = m]]
      BY <2>1, Zenon DEF Begin
    <3>2. issued'[m].device = d
      BY <3>1 DEF TypeOK
    <3>3. m \in Issued'
      BY <3>2, SvdAssumption DEF Issued
    <3>4. devices'[d].m = m /\ \A k \in Devices \ {d} : devices'[k] = devices[k]
      BY <3>1 DEF TypeOK
    <3> QED
      BY <1>1, <1>3, <3>3, <3>4 DEF Answerable
  <2>2. CASE Post(d)
    <3>1. /\ devices[d].m \in Issued
          /\ devices'[d].m = devices[d].m
          /\ \A k \in Devices \ {d} : devices'[k] = devices[k]
      BY <2>2, PostStep
    <3> QED
      BY <1>1, <1>3, <3>1 DEF Answerable
  <2>3. CASE BeginAnswered(d)
    <3>1. devices[d].phase = "begun" /\ devices' = [devices EXCEPT ![d].phase = "signing"]
      BY <2>3, Zenon DEF BeginAnswered
    <3>2. devices'[d].m = devices[d].m /\ \A k \in Devices \ {d} : devices'[k] = devices[k]
      BY <3>1 DEF TypeOK
    <3> QED
      BY <1>1, <1>3, <3>1, <3>2 DEF Answerable
  <2>4. CASE BeginFails(d) \/ Answered(d)
    <3>1. (\E a : Caught(d, a)) \/ devices' = [devices EXCEPT ![d] = Out(1)]
      BY <2>4, Zenon DEF BeginFails, Answered
    <3>2. ASSUME NEW a, Caught(d, a)
          PROVE  devices'[d].phase = "idle" /\ \A k \in Devices \ {d} : devices'[k] = devices[k]
      BY <3>2, CaughtType, TypeByParts
    <3>3. ASSUME devices' = [devices EXCEPT ![d] = Out(1)]
          PROVE  devices'[d].phase = "idle" /\ \A k \in Devices \ {d} : devices'[k] = devices[k]
      BY <3>3 DEF TypeOK, Out
    <3> QED
      BY <1>1, <1>3, <3>1, <3>2, <3>3 DEF Answerable
  <2> QED
    BY <1>3, <2>1, <2>2, <2>3, <2>4, Zenon DEF Client
<1>4. ASSUME \A d \in Devices : ~Client(d) PROVE devices' = devices
  <2>1. ASSUME NEW cache, CacheReady(cache) PROVE devices' = devices
    BY <2>1, Zenon DEF CacheReady
  <2>2. ASSUME RedisLoss PROVE devices' = devices
    BY <2>2, Zenon DEF RedisLoss
  <2>3. ASSUME UNCHANGED vars PROVE devices' = devices
    BY <2>3, Zenon DEF vars
  <2> QED
    BY <1>4, <2>1, <2>2, <2>3, Quiet, Zenon DEF Next, Server, CallStep
<1>5. \A e \in Devices : devices'[e].phase # "idle" => devices'[e].m \in Issued'
  BY <1>1, <1>3, <1>4 DEF Answerable
<1> QED
  BY <1>1, <1>2, <1>5 DEF Answerable

-----------------------------------------------------------------------------
\* A call found good is not late: the cache has its challenge, not over its time.
LEMMA GoodIsNotLate ==
    ASSUME TypeOK, Cached, NEW c \in Calls, c[1] \in Issued, Verdict(c) = "good"
    PROVE  ~Late(c[1]) /\ KeyOf[issued[c[1]].device] = calls[c].key
<1>1. Owner(c[1]) \in Users
  BY TypeFacts
<1>2. /\ Active(Owner(c[1])) /\ challenge[Owner(c[1])].m = c[1]
      /\ KeyOf[issued[c[1]].device] = calls[c].key
  BY DEF Verdict
<1>3. ~issued[c[1]].lost /\ challenge[Owner(c[1])].until = issued[c[1]].at + ChallengeTTL
  BY <1>1, <1>2 DEF Cached, Active
<1>4. now < issued[c[1]].at + ChallengeTTL
  BY <1>2, <1>3 DEF Active
<1> QED
  BY <1>2, <1>3, <1>4, TypeFacts, Numbers DEF Late

\* A late challenge stays late, and an entry stays until then.
LEMMA GuardedNext ==
    TypeOK /\ InOrder /\ Cached /\ Answerable /\ Guarded /\ [Next]_vars => Guarded'
<1> SUFFICES ASSUME TypeOK, InOrder, Cached, Answerable, Guarded, [Next]_vars PROVE Guarded'
  OBVIOUS
<1>a. \A m \in Issued : issued'[m].at = issued[m].at /\ (Late(m) => Late(m)')
  BY HistoryStays
<1>b. \A c \in Calls : Admitted(c) => c[1] \in Issued
  BY DEF Admitted, Answerable
<1>1. ASSUME \A c \in Calls : ~CallStep(c) PROVE Guarded'
  <2>1. \A c \in Calls : (Admitted(c)' => Admitted(c)) /\ (Good(c)' => Good(c))
    <3>1. \A c \in Calls : Untouched(c)
      BY <1>1, OtherSteps
    <3> QED
      BY <3>1 DEF Untouched, Ends, Admitted, Good
  <2>2. CASE replay' = replay
    BY <1>a, <1>b, <2>1, <2>2 DEF Guarded
  <2>3. CASE RedisLoss
    <3>1. \A m \in Issued : Late(m)'
      BY <2>3, LossStep DEF Late
    <3> QED
      BY <1>b, <2>1, <3>1 DEF Guarded
  <2> QED
    BY <1>1, <2>2, <2>3, OtherSteps
<1>2. ASSUME NEW c \in Calls, CallStep(c) PROVE Guarded'
  <2> DEFINE m == c[1]
  <2>0. m \in Issued /\ m \in Challenges /\ now' = now
    BY <1>2, CallEffect, Quiet, TypeFacts DEF Effect, GoesOn, SetsEntry, Answerable
  <2>1. OnlyCall(c) /\ Effect(c)
    BY <1>2, CallEffect
  <2>2. \A e \in Calls \ {c} : (Admitted(e)' <=> Admitted(e)) /\ (Good(e)' <=> Good(e))
    BY <2>1 DEF OnlyCall, Admitted, Good
  <2>3. \A k \in Issued : Late(k) \/ replay'[k] >= replay[k]
                              \/ replay'[k] >= issued[k].at + ChallengeTTL
    <3>1. CASE replay' = replay
      BY <3>1, TypeFacts
    <3>2. CASE SetsEntry(c)
      <4>1. \A k \in Challenges : replay'[k] = IF k = m THEN now + ReplayTTL ELSE replay[k]
        BY <3>2 DEF SetsEntry, TypeOK
      <4>2. issued[m].at <= now
        BY <2>0 DEF InOrder
      <4> QED
        BY <2>0, <4>1, <4>2, TypeFacts, Numbers
    <3> QED
      BY <2>1, <3>1, <3>2 DEF Effect
  <2>4. ASSUME NEW e \in Calls, Admitted(e)
        PROVE  Late(e[1]) \/ replay'[e[1]] >= issued[e[1]].at + ChallengeTTL
    <3>1. e[1] \in Issued
      BY <1>b, <2>4
    <3>2. Late(e[1]) \/ replay[e[1]] >= issued[e[1]].at + ChallengeTTL
      BY <2>4 DEF Guarded
    <3>3. replay[e[1]] \in Nat /\ issued[e[1]].at + ChallengeTTL \in Nat
      BY <3>1, TypeFacts, Numbers
    <3>4. replay'[e[1]] \in Nat
      BY <2>0, <2>1, <3>1, TypeFacts, Numbers DEF Effect, SetsEntry, TypeOK
    <3> QED
      BY <2>3, <3>1, <3>2, <3>3, <3>4
  <2>5. Admitted(c)' /\ ~Admitted(c) => SetsEntry(c)
    BY <2>1 DEF Effect, GoesOn, Ends, Admitted, Verdict
  <2>6. SetsEntry(c) => replay'[m] >= issued[m].at + ChallengeTTL
    <3>1. SetsEntry(c) => replay'[m] = now + ReplayTTL
      BY <2>0 DEF SetsEntry, TypeOK
    <3>2. issued[m].at <= now
      BY <2>0 DEF InOrder
    <3> QED
      BY <2>0, <3>1, <3>2, TypeFacts, Numbers
  <2>7. ASSUME SetsEntry(c), NEW e \in Calls, e[1] = m, Admitted(e) PROVE Late(m)
    <3>1. Late(m) \/ replay[m] >= issued[m].at + ChallengeTTL
      BY <2>7 DEF Guarded
    <3>2. replay[m] <= now
      BY <2>7, Zenon DEF SetsEntry
    <3> QED
      BY <2>0, <3>1, <3>2, TypeFacts, Numbers DEF Late
  <2>8. Good(c)' /\ ~Good(c) => Admitted(c) /\ ~Late(m)
    <3>1. Good(c)' /\ ~Good(c) => calls[c].phase = "added" /\ Verdict(c) = "good"
      BY <2>1 DEF Effect, GoesOn, Ends, Good, Verdict
    <3> QED
      BY <2>0, <3>1, GoodIsNotLate DEF Admitted
  <2>9. Good(c)' => Admitted(c)
    BY <2>8 DEF Good, Admitted
  <2>a. \A e \in Calls : Good(e) => Admitted(e)
    BY DEF Good, Admitted
  <2>b. \A e \in Calls : Admitted(e)' => e[1] \in Issued
    BY <1>b, <2>0, <2>2
  <2> HIDE DEF m
  <2>c. ASSUME NEW e \in Calls, Admitted(e)'
        PROVE  Late(e[1])' \/ replay'[e[1]] >= issued'[e[1]].at + ChallengeTTL
    BY <1>a, <2>2, <2>4, <2>5, <2>6, <2>b, <2>c DEF m
  <2>d. ASSUME NEW e \in Calls, NEW f \in Calls, e[1] = f[1], e # f, Admitted(e)', Admitted(f)'
        PROVE  Late(e[1])'
    <3>1. Late(e[1])
      <4>1. CASE Admitted(e) /\ Admitted(f)
        BY <2>d, <4>1 DEF Guarded
      <4>2. CASE e = c /\ ~Admitted(e) /\ Admitted(f)
        BY <2>d, <2>5, <2>7, <4>2 DEF m
      <4>3. CASE f = c /\ ~Admitted(f) /\ Admitted(e)
        BY <2>d, <2>5, <2>7, <4>3 DEF m
      <4> QED
        BY <2>2, <2>d, <4>1, <4>2, <4>3
    <3> QED
      BY <1>a, <2>b, <2>d, <3>1
  <2>e. ASSUME NEW e \in Calls, NEW f \in Calls, e[1] = f[1], Good(e)', Good(f)' PROVE e = f
    <3>1. CASE Good(e) /\ Good(f)
      BY <2>e, <3>1 DEF Guarded
    <3>2. CASE e = c /\ ~Good(e) /\ Good(f)
      BY <2>e, <2>8, <2>a, <3>2 DEF Guarded, m
    <3>3. CASE f = c /\ ~Good(f) /\ Good(e)
      BY <2>e, <2>8, <2>a, <3>3 DEF Guarded, m
    <3> QED
      BY <2>2, <2>e, <3>1, <3>2, <3>3
  <2> QED
    BY <2>c, <2>d, <2>e DEF Guarded
<1> QED
  BY <1>1, <1>2

-----------------------------------------------------------------------------
\* A call reads the key that its user has when it reads, which is not older than the one
\* the user had when the login began.
LEMMA KeysNext ==
    TypeOK /\ InOrder /\ Cached /\ Answerable /\ KeysGrow /\ [Next]_vars => KeysGrow'
<1> SUFFICES ASSUME TypeOK, InOrder, Cached, Answerable, KeysGrow, [Next]_vars PROVE KeysGrow'
  OBVIOUS
<1>a. \A m \in Issued : /\ issued'[m].key = issued[m].key /\ Owner(m)' = Owner(m)
                        /\ issued'[m].device = issued[m].device
                        /\ m \in Challenges /\ Owner(m) \in Users
                        /\ issued[m].key \in Nat /\ registry[Owner(m)] \in Nat
  BY HistoryStays, TypeFacts
<1>b. \A u \in Users : registry[u] \in Nat /\ registry'[u] \in Nat /\ registry'[u] >= registry[u]
  <2>1. \A u \in Users : registry[u] \in Nat
    BY TypeFacts
  <2>2. ASSUME NEW c \in Calls, CallStep(c) PROVE registry' = registry
    BY <2>2, Quiet
  <2>3. \A u \in Users : registry'[u] \in Nat
    <3>1. TypeOK'
      BY SvdTypeNext
    <3> QED
      BY <3>1, Numbers DEF TypeOK
  <2> QED
    BY <2>1, <2>2, <2>3, OtherSteps
<1>1. ASSUME NEW m \in Issued' PROVE registry'[UserOf[issued'[m].device]] >= issued'[m].key
  <2>1. CASE m \in Issued
    BY <1>a, <1>b, <2>1 DEF KeysGrow, Owner
  <2>2. CASE m \notin Issued
    <3>1. PICK d \in Devices : Begin(d)
      <4>1. issued' # issued
        BY <1>1, <2>2 DEF Issued
      <4>2. ~RedisLoss
        BY <1>1, <2>2, LossStep
      <4> QED
        BY <4>1, <4>2, Steps, Quiet DEF Aside
    <3>2. PICK k \in Challenges :
            /\ issued' = [issued EXCEPT ![k] =
                  [device |-> d, at |-> now, key |-> registry[UserOf[d]], lost |-> FALSE]]
            /\ Issued' = Issued \cup {k}
            /\ registry' = registry
      BY <3>1, BeginStep
    <3>3. m = k
      BY <1>1, <2>2, <3>2
    <3>4. issued'[m].key = registry[UserOf[d]] /\ issued'[m].device = d
      BY <3>2, <3>3 DEF TypeOK
    <3>5. UserOf[d] \in Users
      BY SvdAssumption
    <3> QED
      BY <1>b, <3>2, <3>4, <3>5
  <2> QED
    BY <2>1, <2>2
<1>2. ASSUME NEW c \in Calls
      PROVE  /\ calls'[c].phase \in {"read", "added"} =>
                    c[1] \in Issued /\ calls'[c].key >= issued[c[1]].key
             /\ Good(c)' => c[1] \in Issued /\ KeyOf[issued[c[1]].device] >= issued[c[1]].key
  <2> DEFINE Kept == /\ calls'[c].phase \in {"read", "added"} =>
                            c[1] \in Issued /\ calls'[c].key >= issued[c[1]].key
                     /\ Good(c)' =>
                            c[1] \in Issued /\ KeyOf[issued[c[1]].device] >= issued[c[1]].key
  <2>0. ASSUME calls'[c] = calls[c] PROVE Kept
    BY <2>0 DEF KeysGrow, Answerable, Good
  <2>1. ASSUME CallStep(c), Effect(c) PROVE Kept
    <3>1. c[1] \in Issued
      BY <2>1 DEF Effect, GoesOn, SetsEntry, Answerable
    <3>2. calls'[c].phase \in {"read", "added"} =>
              \/ calls'[c].key = registry[Owner(c[1])]
              \/ calls[c].phase = "read" /\ calls'[c].key = calls[c].key
      BY <2>1 DEF Effect, GoesOn, Ends
    <3>3. Good(c)' => Good(c) \/ (calls[c].phase = "added" /\ Verdict(c) = "good")
      BY <2>1 DEF Effect, GoesOn, Ends, Good, Verdict
    <3>4. calls[c].phase = "added" /\ Verdict(c) = "good" =>
              KeyOf[issued[c[1]].device] >= issued[c[1]].key
      BY <3>1, GoodIsNotLate DEF KeysGrow
    <3> QED
      BY <3>1, <3>2, <3>3, <3>4 DEF KeysGrow
  <2>2. ASSUME Untouched(c)
        PROVE  Kept
    BY <2>2 DEF Untouched, Ends, Good, KeysGrow, Answerable
  <2> HIDE DEF Kept
  <2>3. ASSUME NEW e \in Calls, CallStep(e) PROVE Kept
    <3>1. CASE CallStep(c)
      BY <2>1, <3>1, CallEffect
    <3>2. CASE e # c
      BY <2>0, <2>3, <3>2, CallEffect DEF OnlyCall
    <3> QED
      BY <2>3, <3>1, <3>2
  <2>4. Kept
    BY <2>2, <2>3, OtherSteps
  <2> QED
    BY <2>4 DEF Kept
<1>3. ASSUME NEW c \in Calls
      PROVE  /\ calls'[c].phase \in {"read", "added"} => calls'[c].key >= issued'[c[1]].key
             /\ Good(c)' => KeyOf[issued'[c[1]].device] >= issued'[c[1]].key
  BY <1>2, <1>a
<1> QED
  BY <1>1, <1>3 DEF KeysGrow, Owner

\* A call that has got past a phase is not back in it: nothing is presented twice.
Past(c) == calls[c].phase \notin {"unused", "posted", "read"}

LEMMA PastStays ==
    ASSUME TypeOK, InOrder, Answerable, [Next]_vars, NEW c \in Calls
    PROVE  /\ Past(c) => Past(c)'
           /\ calls[c].phase \notin {"unused", "posted"} =>
                 calls'[c].phase \notin {"unused", "posted"}
<1>1. ASSUME NEW e \in Calls, OnlyCall(e), Effect(e)
      PROVE  /\ Past(c) => Past(c)'
             /\ calls[c].phase \notin {"unused", "posted"} =>
                   calls'[c].phase \notin {"unused", "posted"}
  BY <1>1 DEF OnlyCall, Effect, GoesOn, Ends, Past
<1>2. ASSUME Untouched(c)
      PROVE  /\ Past(c) => Past(c)'
             /\ calls[c].phase \notin {"unused", "posted"} =>
                   calls'[c].phase \notin {"unused", "posted"}
  BY <1>2 DEF Untouched, Ends, Past
<1> QED
  BY <1>1, <1>2, CallEffect, OtherSteps

\* An entry has the call that set it as its cause.
LEMMA CausesNext ==
    TypeOK /\ InOrder /\ Answerable /\ EntriesHaveCause /\ [Next]_vars => EntriesHaveCause'
<1> SUFFICES ASSUME TypeOK, InOrder, Answerable, EntriesHaveCause, [Next]_vars,
                    NEW m \in Challenges, replay'[m] > now'
             PROVE  \E c \in Calls : c[1] = m /\ Past(c)'
  BY DEF EntriesHaveCause, Past
<1>a. now \in Nat /\ now' \in Nat /\ now <= now' /\ replay[m] \in Nat
  BY HistoryStays, TypeFacts
<1>1. CASE replay'[m] = replay[m]
  <2>1. replay[m] > now
    BY <1>a, <1>1
  <2>2. PICK c \in Calls : c[1] = m /\ Past(c)
    BY <2>1 DEF EntriesHaveCause, Past
  <2> QED
    BY <2>2, PastStays
<1>2. CASE replay'[m] = 0
  BY <1>a, <1>2
<1>3. ASSUME NEW c \in Calls, CallStep(c), replay'[m] # replay[m]
      PROVE  c[1] = m /\ Past(c)'
  <2>1. Effect(c)
    BY <1>3, CallEffect
  <2>2. SetsEntry(c) /\ calls'[c].phase \in {"added", "done"}
    BY <1>3, <2>1 DEF Effect, GoesOn, Ends
  <2>3. c[1] = m
    BY <1>3, <2>2 DEF SetsEntry, TypeOK
  <2> QED
    BY <2>2, <2>3 DEF Past
<1> QED
  BY <1>1, <1>2, <1>3, OtherSteps

-----------------------------------------------------------------------------
\* The three refusals that say why, of one call.
Justified(c) ==
    /\ calls[c].answer = "EXPIRED" => Late(c[1])
    /\ calls[c].answer = "BAD_CHALLENGE" =>
          \E later \in Issued : later > c[1] /\ Owner(later) = Owner(c[1])
    /\ calls[c].answer = "REPLAYED" =>
          calls[c].cold \/ \E other \in Calls : /\ other[1] = c[1] /\ other # c
                                                /\ calls[other].phase \notin {"unused", "posted"}

LEMMA JustifiedByCall == RefusalsJustified <=> \A c \in Calls : Justified(c)
<1>1. ASSUME NEW m \in Challenges, NEW n \in Posts
      PROVE  (\E other \in Posts \ {n} : calls[<<m, other>>].phase \notin {"unused", "posted"}) <=>
             (\E other \in Calls : /\ other[1] = m /\ other # <<m, n>>
                                   /\ calls[other].phase \notin {"unused", "posted"})
  <2>1. ASSUME NEW k \in Posts \ {n} PROVE <<m, k>> \in Calls /\ <<m, k>>[1] = m /\ <<m, k>> # <<m, n>>
    BY DEF Calls
  <2>2. ASSUME NEW c \in Calls, c[1] = m, c # <<m, n>> PROVE \E k \in Posts \ {n} : c = <<m, k>>
    BY <2>2 DEF Calls
  <2> QED
    BY <2>1, <2>2
<1>2. ASSUME NEW m \in Challenges, NEW n \in Posts
      PROVE  <<m, n>> \in Calls /\ <<m, n>>[1] = m
  BY DEF Calls
<1>3. ASSUME NEW c \in Calls PROVE \E m \in Challenges, n \in Posts : c = <<m, n>>
  BY DEF Calls
<1> QED
  BY <1>1, <1>2, <1>3 DEF RefusalsJustified, Justified, Late

\* The last challenge of the user to whom m was issued.
LEMMA LastChallenge ==
    ASSUME TypeOK, Cached, NEW m \in Issued, NEW u, u = Owner(m)
    PROVE  /\ challenge[u].m = 0 => issued[m].lost
           /\ challenge[u].m # 0 =>
                /\ challenge[u].m \in Issued /\ Owner(challenge[u].m) = u
                /\ m <= challenge[u].m
                /\ challenge[u].until = issued[challenge[u].m].at + ChallengeTTL
<1>1. u \in Users /\ UserOf[issued[m].device] = u
  BY TypeFacts DEF Owner
<1> QED
  BY <1>1 DEF Cached, Owner

\* A challenge that the check finds expired is late, the user's last one or not.
LEMMA ExpiredIsLate ==
    ASSUME TypeOK, InOrder, Cached, NEW c \in Calls, c[1] \in Issued, Verdict(c) = "EXPIRED"
    PROVE  Late(c[1])
<1> DEFINE m == c[1]
           u == Owner(m)
<1>1. ~Active(u)
  BY DEF Verdict
<1>2. m \in Challenges /\ u \in Users
  BY TypeFacts
<1> HIDE DEF u
<1>3. CASE challenge[u].m = 0
  BY <1>3, LastChallenge DEF Late, u
<1>4. CASE challenge[u].m # 0
  <2>1. /\ challenge[u].m \in Issued /\ m <= challenge[u].m
        /\ challenge[u].until = issued[challenge[u].m].at + ChallengeTTL
    BY <1>4, LastChallenge DEF u
  <2>2. issued[m].at <= issued[challenge[u].m].at
    BY <1>2, <2>1, TypeFacts DEF InOrder
  <2>3. now >= challenge[u].until
    BY <1>1, <1>2, <1>4, TypeFacts DEF Active
  <2> QED
    BY <1>2, <2>1, <2>2, <2>3, TypeFacts, Numbers DEF Late
<1> QED
  BY <1>3, <1>4

\* A challenge found to be another is older than the user's last one.
LEMMA BadIsOlder ==
    ASSUME TypeOK, Cached, NEW c \in Calls, c[1] \in Issued, Verdict(c) = "BAD_CHALLENGE"
    PROVE  \E later \in Issued : later > c[1] /\ Owner(later) = Owner(c[1])
<1> DEFINE m == c[1]
           u == Owner(m)
<1>1. Active(u) /\ challenge[u].m # m
  BY DEF Verdict
<1> HIDE DEF u
<1>2. challenge[u].m \in Issued /\ Owner(challenge[u].m) = u /\ m <= challenge[u].m
  BY <1>1, LastChallenge DEF Active, u
<1>3. challenge[u].m > m
  BY <1>1, <1>2, TypeFacts
<1> QED
  BY <1>2, <1>3 DEF u

\* What was true of a refusal stays true.
LEMMA RefusalsNext == SvdInv /\ [Next]_vars => RefusalsJustified'
<1> SUFFICES ASSUME SvdInv, [Next]_vars PROVE RefusalsJustified'
  OBVIOUS
<1>a. TypeOK /\ InOrder /\ Cached /\ Answerable /\ EntriesHaveCause
        /\ \A c \in Calls : Justified(c)
  BY JustifiedByCall DEF SvdInv
<1>1. ASSUME NEW c \in Calls, Justified(c), calls'[c] = calls[c] PROVE Justified(c)'
  <2>1. calls[c].phase # "unused" => c[1] \in Issued
    BY <1>a DEF Answerable
  <2>2. calls[c].answer # "none" => c[1] \in Issued
    BY <1>a, <2>1 DEF Answerable
  <2>3. calls[c].answer = "EXPIRED" => Late(c[1])'
    BY <1>a, <1>1, <2>2, HistoryStays DEF Justified
  <2>4. ASSUME calls[c].answer = "BAD_CHALLENGE"
        PROVE  \E later \in Issued' : later > c[1] /\ Owner(later)' = Owner(c[1])'
    <3>1. PICK later \in Issued : later > c[1] /\ Owner(later) = Owner(c[1])
      BY <1>1, <2>4 DEF Justified
    <3>2. later \in Issued' /\ Owner(later)' = Owner(later) /\ Owner(c[1])' = Owner(c[1])
      BY <1>a, <2>2, <2>4, HistoryStays
    <3> QED
      BY <3>1, <3>2
  <2>5. calls[c].answer = "REPLAYED" =>
          calls[c].cold \/ \E other \in Calls : /\ other[1] = c[1] /\ other # c
                                                /\ calls'[other].phase \notin {"unused", "posted"}
    BY <1>a, <1>1, PastStays DEF Justified
  <2> QED
    BY <1>1, <2>3, <2>4, <2>5 DEF Justified, Owner
<1>2. ASSUME NEW c \in Calls, calls'[c].answer \notin {"EXPIRED", "BAD_CHALLENGE", "REPLAYED"}
      PROVE  Justified(c)'
  BY <1>2 DEF Justified
<1>3. ASSUME NEW c \in Calls, CallStep(c), Effect(c) PROVE Justified(c)'
  <2> DEFINE m == c[1]
  <2>1. m \in Issued /\ m \in Challenges
    BY <1>3, <1>a, TypeFacts DEF Effect, GoesOn, SetsEntry, Answerable
  <2>2. UNCHANGED <<now, issued>>
    BY <1>3, Quiet
  <2>3. CASE calls'[c].answer = "EXPIRED"
    <3>1. Verdict(c) = "EXPIRED"
      BY <1>3, <2>3 DEF Effect, GoesOn, Ends
    <3>2. Late(m)
      BY <1>a, <2>1, <3>1, ExpiredIsLate
    <3> QED
      BY <2>2, <2>3, <3>2 DEF Justified, Late
  <2>4. CASE calls'[c].answer = "BAD_CHALLENGE"
    <3>1. Verdict(c) = "BAD_CHALLENGE"
      BY <1>3, <2>4 DEF Effect, GoesOn, Ends
    <3>2. PICK later \in Issued : later > m /\ Owner(later) = Owner(m)
      BY <1>a, <2>1, <3>1, BadIsOlder
    <3>3. later \in Issued' /\ UserOf[issued'[later].device] = UserOf[issued'[m].device]
      BY <2>2, <3>2 DEF Issued, Owner
    <3> QED
      BY <2>4, <3>2, <3>3 DEF Justified, Owner
  <2>5. CASE calls'[c].answer = "REPLAYED"
    <3>1. calls[c].phase = "read" /\ (replay[m] > now \/ calls'[c].cold)
      BY <1>3, <2>5 DEF Effect, GoesOn, Ends, Verdict
    <3>2. CASE replay[m] > now
      <4>1. PICK other \in Calls : other[1] = m /\ Past(other)
        BY <1>a, <2>1, <3>2 DEF EntriesHaveCause, Past
      <4>2. other # c /\ Past(other)'
        BY <1>a, <3>1, <4>1, PastStays DEF Past
      <4> QED
        BY <2>5, <4>1, <4>2 DEF Justified, Past
    <3>3. CASE calls'[c].cold
      BY <2>5, <3>3 DEF Justified
    <3> QED
      BY <3>1, <3>2, <3>3
  <2> QED
    BY <1>2, <2>3, <2>4, <2>5
<1>4. ASSUME NEW c \in Calls PROVE Justified(c)'
  <2>1. ASSUME NEW e \in Calls, CallStep(e) PROVE Justified(c)'
    BY <1>1, <1>3, <1>a, <2>1, CallEffect DEF OnlyCall
  <2>2. ASSUME \A e \in Calls : ~CallStep(e) PROVE Justified(c)'
    <3>1. Untouched(c)
      BY <1>a, <2>2, OtherSteps
    <3> QED
      BY <1>1, <1>2, <1>a, <3>1 DEF Untouched, Ends
  <2> QED
    BY <2>1, <2>2
<1> QED
  <2>1. RefusalsJustified' <=> (\A c \in Calls : Justified(c))'
    BY JustifiedByCall, PTL
  <2> QED
    BY <1>4, <2>1

-----------------------------------------------------------------------------
\* The invariant is inductive.
LEMMA SvdInvNext == SvdInv /\ [Next]_vars => SvdInv'
<1> SUFFICES ASSUME SvdInv, [Next]_vars PROVE SvdInv'
  OBVIOUS
<1>1. TypeOK /\ InOrder /\ Cached /\ Answerable /\ Guarded /\ KeysGrow /\ EntriesHaveCause
  BY DEF SvdInv
<1>2. TypeOK' /\ InOrder' /\ Cached' /\ Answerable'
  BY <1>1, SvdTypeNext, InOrderNext, CachedNext, AnswerableNext
<1>3. Guarded' /\ KeysGrow' /\ EntriesHaveCause'
  BY <1>1, GuardedNext, KeysNext, CausesNext
<1>4. RefusalsJustified'
  BY RefusalsNext
<1> QED
  BY <1>2, <1>3, <1>4 DEF SvdInv

\* The strengthened invariant holds in every state.
THEOREM InductiveInvariant == Spec => []SvdInv
<1> QED
  BY SvdInit, SvdInvNext, PTL DEF Spec

\* The state of the login keeps its types: no step reads a field that is not there.
THEOREM TypeCorrect == Spec => []TypeOK
<1>1. SvdInv => TypeOK
  BY DEF SvdInv
<1> QED
  BY <1>1, InductiveInvariant, PTL

\* A refusal tells the truth: of the time, of a later login, of an earlier presentation.
THEOREM RefusalsTellTheTruth == Spec => []RefusalsJustified
<1>1. SvdInv => RefusalsJustified
  BY DEF SvdInv
<1> QED
  BY <1>1, InductiveInvariant, PTL

\* A key replaced before a login began opens no session with it, wherever complete() waits
\* while keys are registered.
THEOREM RetiredKeysOpenNothing == Spec => []RetiredKeyOpensNothing
<1>1. SvdInv => RetiredKeyOpensNothing
  <2> SUFFICES ASSUME SvdInv, NEW m \in Challenges, NEW n \in Posts,
                      calls[<<m, n>>].answer = "TOKEN"
               PROVE  KeyOf[issued[m].device] >= issued[m].key
    BY DEF RetiredKeyOpensNothing
  <2>1. <<m, n>> \in Calls /\ <<m, n>>[1] = m
    BY DEF Calls
  <2> QED
    BY <2>1 DEF SvdInv, KeysGrow, Good
<1> QED
  BY <1>1, InductiveInvariant, PTL

-----------------------------------------------------------------------------
\* The presentations of m that opened a session.
Opened(m) == {n \in Posts : calls[<<m, n>>].answer = "TOKEN"}

\* Presentations that get no token, and lose none, leave the sessions as they are.
LEMMA SameSessions ==
    ASSUME \A c \in Calls : calls'[c].answer = "TOKEN" <=> calls[c].answer = "TOKEN"
    PROVE  [m \in Challenges |-> Opened(m)]' = [m \in Challenges |-> Opened(m)]
<1>1. ASSUME NEW m \in Challenges PROVE Opened(m)' = Opened(m)
  <2>1. \A n \in Posts : <<m, n>> \in Calls
    BY DEF Calls
  <2> QED
    BY <2>1 DEF Opened
<1> QED
  BY <1>1

\* A step of complete that ends with the token is the first use of its challenge.
LEMMA TokenStep ==
    ASSUME SvdInv, NEW c \in Calls, CallStep(c), calls'[c].answer = "TOKEN"
    PROVE  /\ c[1] \in Challenges /\ c[2] \in Posts /\ c[1] \in Issued
           /\ Opened(c[1]) = {}
           /\ [m \in Challenges |-> Opened(m)]' =
                 [[m \in Challenges |-> Opened(m)] EXCEPT ![c[1]] = {c[2]}]
<1>1. TypeOK /\ Answerable /\ Guarded
  BY DEF SvdInv
<1>2. OnlyCall(c) /\ Effect(c)
  BY <1>1, CallEffect
<1>3. calls[c].phase = "checked"
  BY <1>2 DEF Effect, GoesOn, Ends, Verdict
<1>4. c[1] \in Challenges /\ c[2] \in Posts /\ c = <<c[1], c[2]>> /\ c[1] \in Issued
  BY <1>1, <1>3, TypeFacts DEF Answerable
<1>5. \A n \in Posts : calls[<<c[1], n>>].answer # "TOKEN"
  <2> SUFFICES ASSUME NEW n \in Posts, calls[<<c[1], n>>].answer = "TOKEN" PROVE FALSE
    OBVIOUS
  <2>1. <<c[1], n>> \in Calls /\ <<c[1], n>>[1] = c[1]
    BY <1>4 DEF Calls
  <2>2. <<c[1], n>> = c
    BY <1>1, <1>3, <2>1 DEF Guarded, Good
  <2> QED
    BY <1>1, <1>3, <2>2 DEF Answerable
<1>6. Opened(c[1]) = {}
  BY <1>5 DEF Opened
<1>7. ASSUME NEW m \in Challenges
      PROVE  Opened(m)' = IF m = c[1] THEN {c[2]} ELSE Opened(m)
  <2>1. \A n \in Posts : <<m, n>> \in Calls /\ (<<m, n>> = c <=> m = c[1] /\ n = c[2])
    BY <1>4 DEF Calls
  <2>2. \A n \in Posts : calls'[<<m, n>>].answer = "TOKEN" <=>
                            \/ m = c[1] /\ n = c[2]
                            \/ m # c[1] /\ calls[<<m, n>>].answer = "TOKEN"
    BY <1>2, <1>4, <1>5, <2>1 DEF OnlyCall
  <2> QED
    BY <1>4, <2>2 DEF Opened
<1> QED
  BY <1>4, <1>6, <1>7

\* Any other step of complete opens no session.
LEMMA NoTokenStep ==
    ASSUME SvdInv, NEW c \in Calls, CallStep(c), calls'[c].answer # "TOKEN"
    PROVE  \A e \in Calls : calls'[e].answer = "TOKEN" <=> calls[e].answer = "TOKEN"
<1>1. TypeOK /\ Answerable
  BY DEF SvdInv
<1>2. OnlyCall(c) /\ Effect(c)
  BY <1>1, CallEffect
<1>3. calls[c].answer # "TOKEN"
  BY <1>1, <1>2 DEF Effect, GoesOn, Answerable
<1> QED
  BY <1>2, <1>3 DEF OnlyCall

\* Every step of the login is one of the secret's: begin hands it out, the token redeems it.
LEMMA RefinesStep == SvdInv /\ [Next]_vars => [OneTime!Next]_OneTime!vars
<1> SUFFICES ASSUME SvdInv, [Next]_vars PROVE [OneTime!Next]_OneTime!vars
  OBVIOUS
<1> DEFINE sessions == [m \in Challenges |-> Opened(m)]
<1>a. sessions = [m \in Challenges |-> {n \in Posts : calls[<<m, n>>].answer = "TOKEN"}]
  BY DEF Opened
<1>b. sessions' = [m \in Challenges |-> {n \in Posts : calls'[<<m, n>>].answer = "TOKEN"}]
  BY DEF Opened
<1>c. TypeOK /\ InOrder /\ Answerable
  BY DEF SvdInv
<1>d. \A m \in Challenges : sessions[m] = Opened(m)
  OBVIOUS
<1> HIDE DEF sessions
<1>1. ASSUME Issued' = Issued, sessions' = sessions PROVE UNCHANGED OneTime!vars
  BY <1>1, <1>a, <1>b DEF OneTime!vars
<1>2. ASSUME NEW d \in Devices, Begin(d) PROVE OneTime!Next
  <2>1. PICK m \in Challenges : m \notin Issued /\ Issued' = Issued \cup {m} /\ calls' = calls
    BY <1>2, <1>c, BeginStep
  <2>2. sessions' = sessions
    BY <2>1, <1>a, <1>b
  <2>3. OneTime!HandOut(m)
    BY <2>1, <2>2, <1>a, <1>b DEF OneTime!HandOut
  <2> QED
    BY <2>3 DEF OneTime!Next
<1>3. ASSUME NEW c \in Calls, CallStep(c), calls'[c].answer = "TOKEN" PROVE OneTime!Next
  <2>1. /\ c[1] \in Challenges /\ c[2] \in Posts /\ c[1] \in Issued
        /\ sessions[c[1]] = {} /\ sessions' = [sessions EXCEPT ![c[1]] = {c[2]}]
    BY <1>3, <1>d, TokenStep DEF sessions
  <2>2. Issued' = Issued
    BY <1>3, Quiet DEF Issued
  <2>3. OneTime!Redeem(c[1], c[2])
    BY <2>1, <2>2, <1>a, <1>b DEF OneTime!Redeem
  <2> QED
    BY <2>1, <2>3 DEF OneTime!Next
<1>4. ASSUME NEW c \in Calls, CallStep(c), calls'[c].answer # "TOKEN"
      PROVE  UNCHANGED OneTime!vars
  <2>1. Issued' = Issued
    BY <1>4, Quiet DEF Issued
  <2>2. sessions' = sessions
    BY <1>4, NoTokenStep, SameSessions DEF sessions
  <2> QED
    BY <1>1, <2>1, <2>2
<1>5. ASSUME \A c \in Calls : ~CallStep(c), \A d \in Devices : ~Begin(d)
      PROVE  UNCHANGED OneTime!vars
  <2>1. Issued' = Issued
    <3>1. CASE RedisLoss
      BY <1>c, <3>1, LossStep
    <3>2. CASE ~RedisLoss
      BY <1>5, <3>2, Steps, Quiet DEF Aside, Issued
    <3> QED
      BY <3>1, <3>2
  <2>2. \A c \in Calls : calls'[c].answer = "TOKEN" <=> calls[c].answer = "TOKEN"
    <3>1. \A c \in Calls : Untouched(c)
      BY <1>5, <1>c, OtherSteps
    <3> QED
      BY <1>c, <3>1 DEF Untouched, Ends, Answerable
  <2>3. sessions' = sessions
    BY <2>2, SameSessions DEF sessions
  <2> QED
    BY <1>1, <2>1, <2>3
<1> QED
  BY <1>2, <1>3, <1>4, <1>5

\* The login implements the one-time secret: a challenge is handed out once, and however
\* often it is presented, whatever is lost, it opens one session at most.
THEOREM ImplementsOneTimeSecret == Spec => RefinesOneTimeSecret
<1>1. Init => OneTime!Init
  <2> SUFFICES ASSUME Init PROVE OneTime!Init
    OBVIOUS
  <2>1. Issued = {}
    BY DEF Init, Issued
  <2>2. \A c \in Calls : calls[c].answer = "none"
    BY DEF Init, NoCall
  <2>3. \A m \in Challenges, n \in Posts : <<m, n>> \in Calls
    BY DEF Calls
  <2>4. [m \in Challenges |-> {n \in Posts : calls[<<m, n>>].answer = "TOKEN"}] =
            [m \in Challenges |-> {}]
    BY <2>2, <2>3
  <2> QED
    BY <2>1, <2>4 DEF OneTime!Init
<1> QED
  BY <1>1, RefinesStep, InductiveInvariant, PTL DEF Spec, RefinesOneTimeSecret, OneTime!Spec
=============================================================================
