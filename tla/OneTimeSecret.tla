---------------------------- MODULE OneTimeSecret ----------------------------
(***************************************************************************)
(* What the passwordless logins promise of the secrets they hand out, the  *)
(* challenges of services/svdService.js and the codes of                   *)
(* services/authService.js: each was handed out before it is used, and at  *)
(* most one use of it opens a session.                                     *)
(***************************************************************************)
CONSTANTS
    Secrets,    \* what may be handed out
    Uses        \* requests that present a secret

VARIABLES
    out,        \* the secrets handed out so far
    sessions    \* by secret: the uses that opened a session

vars == <<out, sessions>>

Init ==
    /\ out = {}
    /\ sessions = [s \in Secrets |-> {}]

HandOut(s) ==
    /\ s \notin out
    /\ out' = out \cup {s}
    /\ UNCHANGED sessions

Redeem(s, u) ==
    /\ s \in out
    /\ sessions[s] = {}
    /\ sessions' = [sessions EXCEPT ![s] = {u}]
    /\ UNCHANGED out

Next == \E s \in Secrets : HandOut(s) \/ \E u \in Uses : Redeem(s, u)

Spec == Init /\ [][Next]_vars
=============================================================================
