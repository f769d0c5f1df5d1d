------------------------------- MODULE HgSem -------------------------------
(***************************************************************************)
(* POSIX semaphores (hg_main.c: evh__HG_POSIX_SEM_..., hg_intercepts.c:    *)
(* sem_..._WRK).  For each semaphore the tool keeps a stack of SOs, one    *)
(* for each post that no wait has used up yet.  The tool is told of a post *)
(* BEFORE the library does it and of a wait AFTER the library has let the  *)
(* thread through.                                                         *)
(***************************************************************************)
EXTENDS HgThreads

CONSTANTS
  Sem,
  SemMax,       \* 10000: the greatest initial value the tool follows
  MaxInit       \* bound: the greatest initial value the client asks for

ASSUME SemAssumption == SemMax \in Nat /\ MaxInit \in Nat

VARIABLES
  semVal,       \* semVal[m]: the library's counter, -1 while not initialised
  semStack,     \* map_sem_to_SO_stack
  semPosts,     \* ghost: the timestamps of the posts since initialisation
  semWaiters    \* ghost: who has completed a wait since initialisation

semVars == <<semVal, semStack, semPosts, semWaiters>>

SemInit ==
  /\ semVal = [m \in Sem |-> -1]
  /\ semStack = [m \in Sem |-> <<>>]
  /\ semPosts = [m \in Sem |-> {}]
  /\ semWaiters = [m \in Sem |-> {}]

StackSOs(m) == {semStack[m][i] : i \in DOMAIN semStack[m]}
push_SO_for_sem(m, so) == Append(semStack[m], so)
\* Mutant: the SO stays on the stack.
mb_pop_SO_for_sem_keep(m) == semStack[m]

\* The stack without its last entry.
mb_pop_SO_for_sem(m) == SubSeq(semStack[m], 1, Len(semStack[m]) - 1)

\* No thread is inside a call on the semaphore.
Quiet(m) == \A t \in Thr : pc[t].op \in {"sem_post", "sem_wait"} => pc[t].m # m

\* sem_init and its report, which no one uses the semaphore before.  The
\* stack is emptied; then each unit of the value is as good as a post.
evh__HG_POSIX_SEM_INIT_POST(t, m, value) ==
  LET n == IF value > SemMax THEN SemMax ELSE value
      left == soLive \ StackSOs(m)
      fresh(k) == Nth(SO \ left, k - 1)
      new == {fresh(k) : k \in 1 .. n}
  IN /\ Ready(t) /\ Quiet(m) /\ MayTickBy(t, n)
     /\ Cardinality(SO \ left) >= n
     /\ Does("capped", value > SemMax)
     /\ semVal' = [semVal EXCEPT ![m] = value]
     /\ soLive' = left \cup new
     /\ soClk' = [s \in SO |-> IF s \in new
                    THEN Ticks(t, clk[t], Cardinality({r \in SO \ left : r < s}))
                    ELSE IF s \in left THEN soClk[s] ELSE NoVTS]
     /\ clk' = [clk EXCEPT ![t] = Ticks(t, @, n)]
     /\ semStack' = [semStack EXCEPT ![m] = [k \in 1 .. n |-> fresh(k)]]
     /\ Records(IF value > SemMax THEN {"semInit"} ELSE {})
     /\ semPosts' = [semPosts EXCEPT ![m] = {Ticks(t, clk[t], k) : k \in 0 .. n - 1}]
     /\ semWaiters' = [semWaiters EXCEPT ![m] = {}]
     /\ UNCHANGED <<cell, pc, thrVars, locksetA>>

\* Mutant: the report of a post comes after the post.
evh__HG_POSIX_SEM_POST_PRE_late(t, m) ==
  /\ Ready(t) /\ semVal[m] >= 0 /\ MayTick(t) /\ Spare # {}
  /\ Goto(t, [op |-> "sem_post", m |-> m])
  /\ NoError
  /\ UNCHANGED <<clkVars, semVars, thrVars, locksetA, hit>>

evh__HG_POSIX_SEM_POST_PRE(t, m) ==
  LET so == libhb_so_alloc(0)
  IN /\ Ready(t) /\ semVal[m] >= 0 /\ MayTick(t) /\ Spare # {}
     /\ soLive' = soLive \cup {so}
     /\ soClk' = [soClk EXCEPT ![so] = clk[t]]
     /\ clk' = [clk EXCEPT ![t] = VTS__tick(t, @)]
     /\ semStack' = [semStack EXCEPT ![m] = push_SO_for_sem(m, so)]
     /\ semPosts' = [semPosts EXCEPT ![m] = @ \cup {clk[t]}]
     /\ Goto(t, [op |-> "sem_post", m |-> m])
     /\ NoError
     /\ UNCHANGED <<cell, semVal, semWaiters, thrVars, locksetA, hit>>

\* The library's counter goes up, or down for a thread that gets through
\* (external).
RealPost(t) ==
  /\ In(t, "sem_post")
  /\ semVal' = [semVal EXCEPT ![pc[t].m] = @ + 1]
  /\ Goto(t, Idle) /\ NoError
  /\ UNCHANGED <<clkVars, semStack, semPosts, semWaiters, thrVars, locksetA, hit>>

RealWait(t, m) ==
  /\ Ready(t) /\ semVal[m] > 0
  /\ semVal' = [semVal EXCEPT ![m] = @ - 1]
  /\ Goto(t, [op |-> "sem_wait", m |-> m]) /\ NoError
  /\ UNCHANGED <<clkVars, semStack, semPosts, semWaiters, thrVars, locksetA, hit>>

\* Mutant: the SO is popped and nothing received.
evh__HG_POSIX_SEM_WAIT_POST_mute(t) ==
  LET m == pc[t].m
      so == semStack[m][Len(semStack[m])]
  IN /\ In(t, "sem_wait") /\ semStack[m] # <<>>
     /\ soLive' = soLive \ {so}
     /\ soClk' = [soClk EXCEPT ![so] = NoVTS]
     /\ semStack' = [semStack EXCEPT ![m] = mb_pop_SO_for_sem(m)]
     /\ NoError /\ Goto(t, Idle)
     /\ semWaiters' = [semWaiters EXCEPT ![m] = @ \cup {t}]
     /\ UNCHANGED <<clk, cell, semVal, semPosts, thrVars, locksetA, hit>>

evh__HG_POSIX_SEM_WAIT_POST(t) ==
  LET m == pc[t].m
      so == semStack[m][Len(semStack[m])]
  IN /\ In(t, "sem_wait")
     /\ IF semStack[m] = <<>>
          THEN /\ Records({"semWait"}) /\ UNCHANGED <<clk, soLive, soClk, semStack>>
          ELSE /\ clk' = [clk EXCEPT ![t] = VTS__join(@, soClk[so])]
               /\ soLive' = soLive \ {so}
               /\ soClk' = [soClk EXCEPT ![so] = NoVTS]
               /\ semStack' = [semStack EXCEPT ![m] = mb_pop_SO_for_sem(m)]
               /\ NoError
     /\ semWaiters' = [semWaiters EXCEPT ![m] = @ \cup {t}]
     /\ Goto(t, Idle)
     /\ UNCHANGED <<cell, semVal, semPosts, thrVars, locksetA, hit>>

\* A semaphore is destroyed when no one uses it.
evh__HG_POSIX_SEM_DESTROY_PRE(t, m) ==
  /\ Ready(t) /\ semVal[m] >= 0 /\ Quiet(m)
  /\ soLive' = soLive \ StackSOs(m)
  /\ soClk' = [s \in SO |-> IF s \in StackSOs(m) THEN NoVTS ELSE soClk[s]]
  /\ semStack' = [semStack EXCEPT ![m] = <<>>]
  /\ semVal' = [semVal EXCEPT ![m] = -1]
  /\ NoError
  /\ UNCHANGED <<clk, cell, pc, semPosts, semWaiters, thrVars, locksetA, hit>>

SemNext ==
  \/ \E t \in Thr, m \in Sem, v \in 0 .. MaxInit : evh__HG_POSIX_SEM_INIT_POST(t, m, v)
  \/ \E t \in Thr, m \in Sem :
       \/ evh__HG_POSIX_SEM_POST_PRE(t, m) \/ RealWait(t, m)
       \/ evh__HG_POSIX_SEM_DESTROY_PRE(t, m)
  \/ \E t \in Thr : RealPost(t) \/ evh__HG_POSIX_SEM_WAIT_POST(t)

----------------------------------------------------------------------------
SemTypeOK ==
  /\ semVal \in [Sem -> Int] /\ semStack \in [Sem -> Seq(SO)]

Inside(op, m) == {t \in Thr : pc[t].op = op /\ pc[t].m = m}

\* Every unit of the semaphore, every post under way and every wait that is
\* not reported yet has its own SO on the stack, so a wait is never taken for
\* a bug of libpthread, however posts, waits and their reports interleave.
SemStackExact ==
  \A m \in Sem : semVal[m] >= 0 /\ "capped" \notin hit =>
    Len(semStack[m]) = semVal[m] + Cardinality(Inside("sem_post", m))
                                 + Cardinality(Inside("sem_wait", m))

\* hg_main.c:2528: "Imagine T1 and T2 both post once on a semaphore S, and T3
\* waits twice on S. [...] T3 acquires dependencies on both T1 and T2."  When
\* one thread has used up all the posts it is ordered after all of them,
\* although the stack gives it the posts in another order.
SoleWaiterSeesAllPosts ==
  \A m \in Sem, t \in Thr :
    /\ semVal[m] = 0 /\ Quiet(m) /\ semWaiters[m] = {t}
    => \A v \in semPosts[m] : VTS__leq(v, clk[t])

=============================================================================
