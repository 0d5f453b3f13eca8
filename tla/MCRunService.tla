---------------------------- MODULE MCRunService ----------------------------
(* Instances of RunService for TLC.                                        *)
EXTENDS RunService, TLC

SeatSymmetry == Permutations(Seats)
==============================================================================
