------------------------------ MODULE Custody ------------------------------
(***************************************************************************)
(* What PatchProof promises of a patch: a chain of custody.  A patch is    *)
(* issued to an owner, and from then on it changes hands link by link,     *)
(* each link signed by the one who held it before.  PatchLifecycle is the  *)
(* program that has to keep this promise.                                  *)
(***************************************************************************)
EXTENDS Naturals

CONSTANTS
    Uids,         \* the patches (uid_tag_id)
    Txids,        \* the transactions a link may be recorded in
    Addresses,    \* the owners' addresses
    NoAddress     \* nobody: the owner of a patch that was never issued

\* Transactions are numbered from 1; 0 is the transaction of no link.
NoTx == 0

VARIABLES
    head,         \* head[u]: the last link of patch u and who holds it
    ledger        \* every link there ever was

custodyVars == <<head, ledger>>

Head == [txid : Nat, owner : Addresses \cup {NoAddress}]
Link == [uid : Uids, txid : Txids, prev : Nat,
         owner : Addresses, by : Addresses \cup {NoAddress}]

CustodyTypeOK ==
    /\ head \in [Uids -> Head]
    /\ ledger \subseteq Link

Fresh(t) == \A link \in ledger : link.txid # t

\* The chain grows by one link of patch u, which becomes its head.
Extend(u, t, prev, owner, by) ==
    /\ Fresh(t)
    /\ ledger' = ledger \cup {[uid |-> u, txid |-> t, prev |-> prev,
                               owner |-> owner, by |-> by]}
    /\ head' = [head EXCEPT ![u] = [txid |-> t, owner |-> owner]]

-----------------------------------------------------------------------------
CustodyInit ==
    /\ head = [u \in Uids |-> [txid |-> NoTx, owner |-> NoAddress]]
    /\ ledger = {}

\* The issuer starts a chain for u.
Issue(u, t, owner) == Extend(u, t, NoTx, owner, NoAddress)

\* The present holder, and nobody else, hands u over.
HandOver(u, t, owner) ==
    /\ head[u].txid # NoTx
    /\ Extend(u, t, head[u].txid, owner, head[u].owner)

CustodyNext ==
    \E u \in Uids, t \in Txids, owner \in Addresses :
        Issue(u, t, owner) \/ HandOver(u, t, owner)

CustodySpec == CustodyInit /\ [][CustodyNext]_custodyVars
=============================================================================
