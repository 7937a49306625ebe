------------------------------ MODULE SvdAuthMC ------------------------------
(* Small instances of SvdAuth for TLC: a user with one device, who may register
   another key than the one the device signs with, and log in while an earlier login is
   still being served. *)
EXTENDS SvdAuth, TLC

CONSTANTS alice, phone

Owners == phone :> alice
Signers == phone :> 1
=============================================================================
