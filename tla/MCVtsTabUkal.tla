------------------------------ MODULE MCVtsTabUkal ------------------------------
(* Small instances of VtsTabUkal for TLC. *)
EXTENDS VtsTabUkal, TLC

CONSTANTS t1, t2, c1, c2, s1, s2

\* The two cells are in different lines; with one way they evict each other.
MCLineNo(c) == IF c = c1 THEN 0 ELSE 1

=============================================================================
