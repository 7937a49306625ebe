----------------------------- MODULE ApiProcessMC -----------------------------
(* Small instances of ApiProcess for TLC. *)
EXTENDS ApiProcess
=============================================================================
