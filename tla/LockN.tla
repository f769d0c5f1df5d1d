-------------------------------- MODULE LockN --------------------------------
(***************************************************************************)
(* The record of one lock (Lock, hg_basics.h and hg_main.c).  heldBy is a  *)
(* bag of threads; the NULL bag is the empty one.  The same record serves  *)
(* for the locks in map_locks and for those found in spin loops.           *)
(***************************************************************************)
EXTENDS Threads, Integers

AllKinds == {"nonRec", "mbRec", "rdwr"}
Bag == [Thr -> Nat]
NULL == [t \in Thr |-> 0]
LockRecord == [kind : AllKinds, heldW : BOOLEAN, heldBy : Bag]

mk_LockN(kind) == [kind |-> kind, heldW |-> FALSE, heldBy |-> NULL]

lockN_acquire_writer(lk, t) ==
  [lk EXCEPT !.heldW = TRUE, !.heldBy[t] = @ + 1]
lockN_acquire_reader(lk, t) ==
  [lk EXCEPT !.heldW = FALSE, !.heldBy[t] = @ + 1]
\* Mutant: the holder stays in the bag.
lockN_release_keep(lk, t) == lk

lockN_release(lk, t) ==
  LET by == [lk.heldBy EXCEPT ![t] = @ - 1]
  IN [lk EXCEPT !.heldBy = by, !.heldW = @ /\ by # NULL]
==============================================================================
