---------------------------- MODULE MCHoldPayment ---------------------------
(***************************************************************************)
(* Instances of HoldPayment for TLC.  A total of 2 gives a deposit of      *)
(* nothing, a part and everything.                                         *)
(***************************************************************************)
EXTENDS HoldPayment, TLC

VerificationSymmetry == Permutations(Verifications)
=============================================================================
