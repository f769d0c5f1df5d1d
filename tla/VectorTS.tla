------------------------------ MODULE VectorTS ------------------------------
(***************************************************************************)
(* Vector timestamps, as libhb computes with them.                         *)
(*                                                                         *)
(* A VTS in libhb_core.c is an array of <<thread, time>> pairs sorted by    *)
(* thread, without zero times.  Here it is the total function it denotes:  *)
(* a thread that is absent from the array has time 0.  Module VtsArray     *)
(* checks that the array algorithms compute the operators of this module.  *)
(***************************************************************************)
EXTENDS Threads, Integers

\* libhb.h, type VTS: one time per thread.
VTS == [Thr -> Nat]

\* A fresh VTS that holds one thread only.
VTS__singleton(thr, tym) == [t \in Thr |-> IF t = thr THEN tym ELSE 0]

\* The same VTS with the component of one thread advanced by one.
VTS__tick(me, vts) == [vts EXCEPT ![me] = @ + 1]

\* The componentwise maximum.
VTS__join(a, b) == [t \in Thr |-> IF a[t] < b[t] THEN b[t] ELSE a[t]]

\* The partial order on VTSs.
VTS__leq(a, b) == \A t \in Thr : a[t] <= b[t]

\* The four outcomes of a comparison (enum POrd).
POrd == {"EQ", "LT", "GT", "UN"}

VTS__cmp(a, b) ==
  IF VTS__leq(a, b)
    THEN IF VTS__leq(b, a) THEN "EQ" ELSE "LT"
    ELSE IF VTS__leq(b, a) THEN "GT" ELSE "UN"

=============================================================================
