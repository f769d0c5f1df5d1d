------------------------------ MODULE MCMsmStd ------------------------------
(* Small instances of MsmStd for TLC. *)
EXTENDS MsmStd, TLC

CONSTANTS t1, t2, t3, s1, l1, x1

\* The threads other than the root are interchangeable.
Symm == Permutations({t2, t3})

=============================================================================
