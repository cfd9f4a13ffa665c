------------------------------ MODULE MCPrivacy ------------------------------
(* Instances of PrivacyLease for TLC.                                       *)
EXTENDS PrivacyLease, TLC

mcSymmetry == Permutations(Ops)
=============================================================================
