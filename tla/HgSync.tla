------------------------------- MODULE HgSync -------------------------------
(***************************************************************************)
(* All the handlers of synchronisation events that make happens-before     *)
(* edges: threads, semaphores, barriers and condition variables, over one  *)
(* set of clocks and one pool of synchronisation objects.                  *)
(***************************************************************************)
EXTENDS HgSem, HgBarrier, HgCond

vars == <<clk, soLive, soClk, cell, life, pth, pc, map_threads, map_pthread_t_to_Thread,
          locksetA, aborted, errs, hit, ended, joiner,
          semVal, semStack, semPosts, semWaiters, bar, barReal,
          lsdLevel, condSO, condVars, recorded, lsd, loop, owner, sent>>

Init == ThreadsInit /\ SemInit /\ BarrierInit /\ CondInit

Next ==
  \/ ThreadsNext /\ UNCHANGED <<semVars, barVars, condVarsAll>>
  \/ SemNext /\ UNCHANGED <<barVars, condVarsAll>>
  \/ BarrierNext /\ UNCHANGED <<semVars, condVarsAll>>
  \/ CondNext /\ UNCHANGED <<semVars, barVars>>

Spec == Init /\ [][Next]_vars

----------------------------------------------------------------------------
\* Type invariant.
TypeOK == ThreadsTypeOK /\ SemTypeOK /\ BarrierTypeOK /\ CondTypeOK

\* A thread that was joined is ordered before its joiner, with all that it
\* did: ThreadIds and pthread_t values are used again, and the tool must find
\* the Thread that really ended.
JoinIsOrdered ==
  hit \cap {"reuse", "joinRoot"} = {} =>
    \A q \in Thr : joiner[q] # NoThr => VTS__leq(ended[q], clk[joiner[q]])

\* The tool's own assertions fail, and it blames libpthread for a wait that
\* succeeds although nobody has signalled, only after what the client, or the
\* thread library, did that is named here.
FailuresHaveCauses ==
  /\ "neverSent" \in errs => hit \cap {"spurious", "earlyDestroy"} # {}
  /\ aborted = "join" => hit \cap {"reuse", "joinRoot"} # {}
  /\ aborted = "barrier" => "zeroBarrier" \in hit
  /\ aborted = "waiting" => hit \cap {"bogusWait", "waitFails"} # {}
  /\ aborted = "mutex" => "twoMutexes" \in hit

\* Every live SO belongs to exactly one cond, recorded signal or post, and
\* each of these has its own: no SO leaks and none is shared or freed early.
SOsExact ==
  LET conds == {<<"cond", c>> : c \in {d \in Cond : condSO[d] # NoSO}}
      posts == UNION {{<<"sem", m, i>> : i \in DOMAIN semStack[m]} : m \in Sem}
      signals == UNION {{<<"rec", c, i>> : i \in DOMAIN recorded[c]} : c \in Cond}
      so(x) == IF x[1] = "cond" THEN condSO[x[2]]
               ELSE IF x[1] = "sem" THEN semStack[x[2]][x[3]] ELSE recorded[x[2]][x[3]].so
      users == conds \cup posts \cup signals
  IN /\ {so(x) : x \in users} = soLive
     /\ \A x, y \in users : so(x) = so(y) => x = y

\* helgrind/tests/tc23_bogus_condwait.c:2, a program that calls
\* pthread_cond_wait four times in a row with a mutex that it does not hold:
\* "Expect 5 errors total (4 re cvs, 1 re exiting w/lock.)".  Such a call is
\* reported and the tool goes on.
BogusWaitsGoOn == hit \subseteq {"bogusWait"} => aborted = "no"

=============================================================================
