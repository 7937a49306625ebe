------------------------- MODULE EmailVerificationMC -------------------------
(* Small instances of EmailVerification for TLC: the values of its constants are in
   EmailVerification.cfg and EmailVerification_keys.cfg. *)
EXTENDS EmailVerification, TLC

\* Keys are interchangeable.
KeySymmetry == Permutations(Keys)
=============================================================================
