----------------------------- MODULE MCRequests -----------------------------
(* Instances of Requests for TLC: two texts compete for one identifier.    *)
EXTENDS Requests

CONSTANTS a, x, y

asks == {<<a, x>>, <<a, y>>}
==============================================================================
