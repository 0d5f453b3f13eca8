----------------------------- MODULE MCRetention -----------------------------
(* Instances of Retention for TLC.                                         *)
EXTENDS Retention, TLC

RetentionSymmetry == Permutations(Seats) \cup Permutations(Runs)
==============================================================================
