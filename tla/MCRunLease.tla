------------------------------ MODULE MCRunLease ------------------------------
(* Small instances of RunLease for TLC.                                    *)
EXTENDS RunLease, TLC

CONSTANTS s1, s2, s3

MCSeats == {s1, s2, s3}
MCSymmetry == Permutations(MCSeats)
==============================================================================
