----------------------------- MODULE MCBroadcast ----------------------------
(***************************************************************************)
(* Small instances of BroadcastJournal.                                    *)
(***************************************************************************)
EXTENDS BroadcastJournal, TLC

\* Batches are interchangeable.
mcSymmetry == Permutations(Batches)
=============================================================================
