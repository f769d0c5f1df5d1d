------------------------------ MODULE MCVtsTab ------------------------------
(* Small instances of VtsTab for TLC. *)
EXTENDS VtsTab, TLC

CONSTANTS t1, t2, c1, c2, s1, s2

\* The two cells are in different lines; with one way they evict each other.
MCLineNo(c) == IF c = c1 THEN 0 ELSE 1

\* The SOs are interchangeable, and with one way the cells are too: the line
\* number matters only modulo NWay.
Symm == Permutations(SO) \cup Permutations(Cell)

\* The scope of the run: shadow memory in use with one SO and a table of
\* three, or two SOs and a table of four without shadow memory.
Scope ==
  \/ soLive # SO /\ vt.n <= 3
  \/ Cached = {} /\ \A c \in Cell : line[c] = VtsID_INVALID

=============================================================================
