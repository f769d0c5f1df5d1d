----------------------------- MODULE MCSpinLock -----------------------------
(***************************************************************************)
(* SpinLock for TLC.  Three threads share one variable (mode "one"), or    *)
(* two threads have two variables, waited for in one loop with a code      *)
(* block, of which at most one kind of mishap befalls (mode "two").        *)
(***************************************************************************)
EXTENDS SpinLock, FiniteSets, TLC

CONSTANT Pair     \* the threads of mode "two"

VARIABLE mode

MCInit ==
  /\ SpinInit /\ mode \in {"one", "two"}
  /\ mode = "two" => EmptyLoop \notin {loopOf[a] : a \in Addr}
  /\ mode = "one" => \A a \in Addr : a > 1 => role[a] = role[1] /\ loopOf[a] = loopOf[1]

MCNext ==
  /\ \/ mode = "one" /\ Steps(Thr, {1})
     \/ mode = "two" /\ Steps(Pair, Addr)
  /\ UNCHANGED mode

MCSpec == MCInit /\ [][MCNext]_<<spinVars, mode>>

Scope ==
  mode = "two" =>
    /\ Cardinality(UNION {blame[a] : a \in Addr}) <= 1
    /\ \A a \in Addr : "reused" \notin blame[a]
    /\ \A t \in Thr : Mutex \notin locksetA[t]

Symm == Permutations(Pair)
=============================================================================
