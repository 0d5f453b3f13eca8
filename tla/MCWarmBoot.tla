----------------------------- MODULE MCWarmBoot -----------------------------
(* Instances of WarmBoot for TLC.                                          *)
EXTENDS WarmBoot, TLC

WarmBootSymmetry == Permutations(Boots) \cup Permutations(Keys)
==============================================================================
