----------------------------- MODULE HgBarrier -----------------------------
(***************************************************************************)
(* Barriers of pthreads and of libgomp (hg_main.c:                         *)
(* evh__HG_PTHREAD_BARRIER_..., evh__HG_OMP_BARRIER_...).  The tool is     *)
(* told of a wait BEFORE the thread arrives at the real barrier, and gives *)
(* all the participants a common timestamp when it has been told of the    *)
(* last one.  The real barrier is external: barReal and pc.                *)
(*                                                                         *)
(* A Bar that is not initialised and a barrier without a Bar behave alike. *)
(***************************************************************************)
EXTENDS HgThreads

CONSTANTS
  Barrier,
  MaxCount      \* bound: the greatest count of a barrier

ASSUME BarrierAssumption == MaxCount \in Nat

VARIABLES
  bar,          \* map_barrier_to_Bar
  barReal       \* barReal[b]: the count of the library's barrier, 0 if none

barVars == <<bar, barReal>>

NoBar == [initted |-> FALSE, size |-> 0, waiting |-> <<>>]

BarrierInit ==
  /\ bar = [b \in Barrier |-> NoBar]
  /\ barReal = [b \in Barrier |-> 0]

\* The threads between the report of a wait and the release, and those of
\* them that have arrived at the real barrier.
AtBarrier(b) == {t \in Thr : pc[t].op \in {"bar", "barIn"} /\ pc[t].b = b}
Arrived(b) == {t \in Thr : pc[t].op = "barIn" /\ pc[t].b = b}

BarErrors(b, badState, badName, count) ==
     (IF count = 0 THEN {"zeroCount"} ELSE {})
  \cup (IF badState THEN {badName} ELSE {})
  \cup (IF bar[b].waiting # <<>> THEN {"threadsWait"} ELSE {})

\* pthread_barrier_init; the library refuses a count of 0, the tool does not.
evh__HG_PTHREAD_BARRIER_INIT_PRE(t, b, count) ==
  /\ Ready(t)
  /\ IF count = 0 THEN Does("zeroBarrier", TRUE) ELSE Does("reinit", AtBarrier(b) # {})
  /\ Records(BarErrors(b, bar[b].initted, "alreadyInit", count))
  /\ bar' = [bar EXCEPT ![b] = [initted |-> TRUE, size |-> count, waiting |-> <<>>]]
  /\ barReal' = IF count = 0 THEN barReal ELSE [barReal EXCEPT ![b] = count]
  /\ UNCHANGED <<clkVars, thrVars, pc, locksetA>>

\* gomp_barrier_reinit: the same, but on a barrier that is there.
evh__HG_OMP_BARRIER_REINIT_PRE(t, b, count) ==
  /\ Ready(t)
  /\ IF count = 0 THEN Does("zeroBarrier", TRUE) ELSE Does("reinit", AtBarrier(b) # {})
  /\ Records(BarErrors(b, ~bar[b].initted, "notInit", count))
  /\ bar' = [bar EXCEPT ![b] = [initted |-> TRUE, size |-> count, waiting |-> <<>>]]
  /\ barReal' = IF count = 0 THEN barReal ELSE [barReal EXCEPT ![b] = count]
  /\ UNCHANGED <<clkVars, thrVars, pc, locksetA>>

\* The library does not destroy a barrier that threads wait at.
evh__HG_PTHREAD_BARRIER_DESTROY_PRE(t, b) ==
  /\ Ready(t)
  /\ Does("reinit", AtBarrier(b) # {})
  /\ Records(IF ~bar[b].initted THEN {"notInit"}
             ELSE IF bar[b].waiting # <<>> THEN {"threadsWait"} ELSE {})
  /\ bar' = [bar EXCEPT ![b] = NoBar]
  /\ barReal' = IF AtBarrier(b) # {} THEN barReal ELSE [barReal EXCEPT ![b] = 0]
  /\ UNCHANGED <<clkVars, thrVars, pc, locksetA>>

Times(t, list) == Cardinality({i \in DOMAIN list : list[i] = t})

\* Every participant in turn sends, weakly, to a new SO and moves along ...
BarrierSO(list) ==
  JoinAll({Ticks(list[i], clk[list[i]], Times(list[i], list) - 1) : i \in DOMAIN list})

\* Mutant: a participant receives before the later ones have sent.
BarrierRelease_early(list) ==
  [t \in Thr |->
     IF Times(t, list) = 0 THEN clk[t]
     ELSE LET seen == SubSeq(list, 1, CHOOSE i \in DOMAIN list : list[i] = t)
          IN VTS__join(Ticks(t, clk[t], Times(t, list)), BarrierSO(seen))]

\* ... and then all of them receive.
BarrierRelease(list) ==
  [t \in Thr |->
     IF Times(t, list) = 0 THEN clk[t]
     ELSE VTS__join(Ticks(t, clk[t], Times(t, list)), BarrierSO(list))]

\* Mutant: the waiting threads stay on the list.
evh__HG_PTHREAD_BARRIER_WAIT_PRE_keep(t, b) ==
  LET all == Append(bar[b].waiting, t)
  IN /\ Ready(t) /\ barReal[b] > 0 /\ bar[b].initted /\ bar[b].size > 0
     /\ Does("crowd", Cardinality(AtBarrier(b)) >= barReal[b])
     /\ \A u \in Thr : Times(u, all) > 0 => MayTickBy(u, Times(u, all))
     /\ clk' = IF Len(all) = bar[b].size THEN BarrierRelease(all) ELSE clk
     /\ bar' = [bar EXCEPT ![b].waiting = IF Len(all) = bar[b].size THEN @ ELSE all]
     /\ NoError
     /\ Goto(t, [op |-> "bar", b |-> b, at |-> clk[t]])
     /\ UNCHANGED <<soLive, soClk, cell, thrVars, barReal, locksetA>>

\* The real barrier exists when it is waited at, or the library's call fails
\* at once.
evh__HG_PTHREAD_BARRIER_WAIT_PRE(t, b) ==
  LET all == Append(bar[b].waiting, t)
      full == Len(all) = bar[b].size
  IN /\ Ready(t)
     /\ Does("crowd", barReal[b] > 0 /\ Cardinality(AtBarrier(b)) >= barReal[b])
     /\ IF ~bar[b].initted
          THEN Records({"notInit"}) /\ UNCHANGED <<clk, bar>>
        ELSE IF bar[b].size = 0 \/ Len(all) > bar[b].size
          THEN /\ aborted' = "barrier" /\ errs' = {} /\ UNCHANGED <<clk, bar>>
          ELSE /\ \A u \in Thr : Times(u, all) > 0 => MayTickBy(u, Times(u, all))
               /\ clk' = IF full THEN BarrierRelease(all) ELSE clk
               /\ bar' = [bar EXCEPT ![b].waiting = IF full THEN <<>> ELSE all]
               /\ NoError
     /\ Goto(t, IF barReal[b] > 0 THEN [op |-> "bar", b |-> b, at |-> clk[t]] ELSE Idle)
     /\ UNCHANGED <<soLive, soClk, cell, thrVars, barReal, locksetA>>

\* The thread arrives at the real barrier; the last one lets all go (external).
Arrive(t) ==
  LET b == pc[t].b
      in == Arrived(b) \cup {t}
  IN /\ In(t, "bar")
     /\ pc' = IF Cardinality(in) >= barReal[b]
                THEN [u \in Thr |-> IF u \in in THEN Idle ELSE pc[u]]
                ELSE [pc EXCEPT ![t].op = "barIn"]
     /\ NoError
     /\ UNCHANGED <<clkVars, thrVars, barVars, locksetA, hit>>

BarrierNext ==
  \/ \E t \in Thr, b \in Barrier, n \in 0 .. MaxCount :
       evh__HG_PTHREAD_BARRIER_INIT_PRE(t, b, n) \/ evh__HG_OMP_BARRIER_REINIT_PRE(t, b, n)
  \/ \E t \in Thr, b \in Barrier :
       evh__HG_PTHREAD_BARRIER_DESTROY_PRE(t, b) \/ evh__HG_PTHREAD_BARRIER_WAIT_PRE(t, b)
  \/ \E t \in Thr : Arrive(t)

----------------------------------------------------------------------------
BarrierTypeOK ==
  /\ bar \in [Barrier -> [initted : BOOLEAN, size : 0 .. MaxCount, waiting : Seq(Thr)]]
  /\ barReal \in [Barrier -> 0 .. MaxCount]

\* What breaks the argument in the comment of ..._BARRIER_WAIT_PRE.
Disturbed == hit \cap {"crowd", "reinit", "zeroBarrier"} # {}

\* The tool's list is exact: on it is, once, every thread that is at the
\* barrier and was not yet given the common timestamp ("XXX check ->waiting
\* has no duplicates"), and it is never full, as long as the tool runs.  A
\* thread that leaves and comes back while others are still on their way does
\* not upset it.
WaitingIsPresent ==
  ~Disturbed /\ aborted = "no" => \A b \in Barrier :
    LET list == bar[b].waiting
    IN /\ Len(list) < bar[b].size \/ ~bar[b].initted
       /\ \A t \in Thr : Times(t, list) <= 1
       /\ {t \in Thr : Times(t, list) = 1} =
            {t \in AtBarrier(b) : pc[t].at = clk[t]}

\* When the real barrier lets threads go, each of them is ordered after the
\* arrival of every other, although the tool did this at the report of the
\* last wait and the threads arrive in another order.
BarrierSynchronises ==
  [][\A b \in Barrier :
       LET out == {t \in AtBarrier(b) : pc'[t] = Idle}
       IN ~Disturbed => \A p, q \in out : VTS__leq(pc[q].at, clk[p])]_<<pc, clk>>

=============================================================================
