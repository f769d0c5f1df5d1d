----------------------------- MODULE MCMsmUkal -----------------------------
(* Small instances of MsmUkal for TLC. *)
EXTENDS MsmUkal, TLC

CONSTANTS t1, t2, t3, s1, l1, x1

\* The threads other than the root are interchangeable.
Symm == Permutations({t2, t3})

\* The scope of the run: two threads with a lock, atomic and spinning accesses
\* and no SO; or three threads and an SO with plain accesses and no locks.
Scope ==
  \/ soLive = {} /\ (\E t \in Thr : ~Created(t)) /\ (\A x \in Loc : Cardinality(hist[x]) <= 3)
  \/ \A x \in Loc : sv[x].st # "SpinVar" /\ LockFree(x) /\ \A t \in Thr : locksetA[t] = {}

=============================================================================
