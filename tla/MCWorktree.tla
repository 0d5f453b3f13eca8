------------------------------ MODULE MCWorktree ------------------------------
(* Instances of Worktree for TLC.                                          *)
EXTENDS Worktree, TLC

WorktreeSymmetry == Permutations(Contents \ {Plain})
==============================================================================
