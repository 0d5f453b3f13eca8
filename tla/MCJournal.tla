----------------------------- MODULE MCJournal ------------------------------
(* Instances of Journal for TLC.                                           *)
EXTENDS Journal, TLC

HandleSymmetry == Permutations(Handles)
NoFaults == {}
PartialWrites == {"partial"}
AnyFault == {"nothing", "partial", "unsynced"}
==============================================================================
