------------------------------ MODULE MCHgSync ------------------------------
(* A small instance of HgSync for TLC. *)
EXTENDS HgSync, FiniteSetsExt, TLC

CONSTANTS t1, t2, t3, t4, h1, h2, m1, m2, s1, b1, c1, v1, v2

\* Threads other than the root are interchangeable, pthread_t values and
\* variables too.
Symm == Permutations({t2, t3, t4}) \cup Permutations(Pth) \cup Permutations(Var)

UsesSem == \E m \in Sem : semVal[m] # -1
UsesBarrier == \E b \in Barrier : bar[b] # NoBar \/ barReal[b] > 0
UsesCond == \/ \E c \in Cond : c \in condVars \/ condSO[c] # NoSO
            \/ \E m \in Mutex : owner[m] # NoThr
            \/ \E t \in Thr : lsd[t] # create_ThrLSD
\* The scope of the run: a behaviour is about threads that come and go, or
\* about one kind of synchronisation object that two or three threads made by
\* the root use: semaphores and barriers three, conds three at level 0; at the
\* levels that know loops the root signals and one thread waits, and level 1,
\* which tells lost signals by their mutex, has a second mutex.  At most one
\* unusual thing happens in it, and the threads send at most so many times.
Family == CASE UsesSem -> "sem" [] UsesBarrier -> "bar" [] UsesCond -> "cond" [] OTHER -> "none"
Users == {t \in Thr : life[t] # "unborn"}
Sends == CASE Family = "none" -> Cardinality({t \in Thr : joiner[t] # NoThr})
           [] Family = "bar" -> IF hit = {} THEN 4 ELSE 2
           [] Family = "cond" /\ lsdLevel = 2 -> 3
           [] OTHER -> IF hit = {} THEN 2 ELSE 1
Ticked == FoldSet(LAMBDA t, n : clk[t][t] + n, 0, Users)

Scope ==
  /\ Cardinality({i \in 1 .. 3 : <<UsesSem, UsesBarrier, UsesCond>>[i]}) <= 1
  /\ Cardinality(hit) <= 1
  /\ Ticked <= 2 * Cardinality(Users) - 1 + Sends
  /\ lsdLevel > 0 => \A t \in Thr : life[t] \notin {"gone", "joined"}
  /\ Family # "none" =>
       /\ Cardinality(Users) = IF lsdLevel = 0 THEN 3 ELSE 2
       /\ \A t \in Users : life[t] = "running" /\ pc[t].op # "create"
       /\ \E t \in Users \ {t1} : clk[t][t1] >= Cardinality(Users) - 1
       /\ Family # "cond" => lsdLevel = 0
       /\ lsdLevel = 0 => hit \cap {"bogusWait", "waitFails"} = {}
       /\ lsdLevel # 1 => \A m \in Mutex : owner[m] # NoThr => m = m1
       /\ lsdLevel > 0 => lsd[t1].expect = <<>> /\ ~lsd[t1].waiting
       /\ lsdLevel = 2 =>
            /\ hit = {} /\ lsd[t1].reads = <<>>
            /\ \A t \in Users \ {t1} : clk[t][t] = 1 /\ lsd[t].writes = <<>>

\* Only the steps that stay in the scope.
MCNext ==
  \/ Family = "none" /\ ThreadsNext /\ UNCHANGED <<semVars, barVars, condVarsAll>>
  \/ Family \in {"none", "sem"} /\ lsdLevel = 0 /\ SemNext /\ UNCHANGED <<barVars, condVarsAll>>
  \/ Family \in {"none", "bar"} /\ lsdLevel = 0 /\ BarrierNext
       /\ UNCHANGED <<semVars, condVarsAll>>
  \/ Family \in {"none", "cond"} /\ CondNext /\ UNCHANGED <<semVars, barVars>>
MCSpec == Init /\ [][MCNext]_vars

=============================================================================
