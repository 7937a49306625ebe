----------------------------- MODULE PosClaimsMC -----------------------------
(* Small instances of PosClaims for TLC. *)
EXTENDS PosClaims, TLC

\* No property of the run is a liveness property, and none names a customer or an
\* approval.
PosSymmetry == Permutations(Addresses) \cup Permutations(Approvals)

\* Bounds: each patch is registered once; of its transfers, which are the other records,
\* one is the owner's; one job fails at most.
OneRegistration ==
    \A r, q \in RecordIds :
        /\ records[r].type = "REGISTRATION" /\ records[q].type = "REGISTRATION"
        /\ records[r].uid = records[q].uid
        => r = q
OneOwnersTransfer ==
    Cardinality({r \in RecordIds : records[r].signer # NoAddress})
        + Cardinality({h \in Handlers : requests[h].step = "authorized"}) <= 1
OneFailure == \A j, k \in JobIds : InStage(j, "failed") /\ InStage(k, "failed") => j = k
PosBound == OneRegistration /\ OneOwnersTransfer /\ OneFailure
=============================================================================
