------------------------------ MODULE UtxoPoolMC ------------------------------
(* Small instances of UtxoPool for TLC. *)
EXTENDS UtxoPool

OutputPlaces == 1..3
=============================================================================
