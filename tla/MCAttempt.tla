------------------------------ MODULE MCAttempt ------------------------------
(* Instances of Attempt for TLC.                                           *)
EXTENDS Attempt

AllWorkspaces == {"operator", "snapshot", "worktree"}
AllFaults == FaultNames
NoFaults == {}
==============================================================================
