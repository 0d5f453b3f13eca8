---------------------------- MODULE MCQuarantine ----------------------------
(* Instances of Quarantine for TLC.                                        *)
EXTENDS Quarantine, TLC

RunSymmetry == Permutations(Runs)
==============================================================================
