----------------------------- MODULE HgThreads -----------------------------
(***************************************************************************)
(* Threads as the tool follows them (hg_main.c: evh__pre_thread_ll_create, *)
(* evh__pre_thread_ll_exit, evh__HG_PTHREAD_JOIN_POST and the client       *)
(* request SET_MY_PTHREAD_T), and what the handlers of semaphores,         *)
(* barriers and condition variables share: the clocks and the pool of      *)
(* synchronisation objects of LibhbClocks.                                 *)
(*                                                                         *)
(* Thr are the Thread records; they are never reused.  The core's          *)
(* ThreadIds and the library's pthread_t values are.  A thread is told to  *)
(* the tool through two maps, one by ThreadId and one by pthread_t.        *)
(*                                                                         *)
(* The client and its thread library are external: life, pth, pc.  What    *)
(* the client may do that is unusual or wrong is named, and noted in hit   *)
(* when it happens.                                                        *)
(***************************************************************************)
EXTENDS LibhbClocks, FiniteSets, Sequences

CONSTANTS
  Tid,          \* the core's thread slots; the root thread has the least
  Pth,          \* values of pthread_t
  NoThr,
  Mutex,        \* the client's mutexes
  Allowed       \* the unusual behaviours that the client may show

\* reuse:        a pthread_t is given away again between the return of the
\*               real pthread_join and the report to the tool
\* joinRoot:     the main thread is joined, which never told its pthread_t
\* capped:       sem_init with more than SemMax
\* zeroBarrier:  pthread_barrier_init with count 0
\* reinit:       a barrier with waiting threads is initialised or destroyed
\* crowd:        more threads use a barrier than its count
\* bogusWait:    pthread_cond_wait without holding the mutex
\* waitFails:    pthread_cond_wait returns an error
\* earlyDestroy: a condition variable is destroyed when the waiters have been
\*               woken but have not returned
\* stray:        a waiting loop is left other than through its end
\* spurious:     pthread_cond_wait returns without a signal
\* twoMutexes:   a waiting loop waits for one cond with different mutexes
Unusual == {"reuse", "joinRoot", "capped", "zeroBarrier", "reinit", "crowd", "bogusWait",
            "waitFails", "earlyDestroy", "stray", "spurious", "twoMutexes"}

ASSUME ThreadsAssumption ==
  /\ SO \subseteq Nat /\ Tid \subseteq Nat /\ Tid # {} /\ Pth # {} /\ NoThr \notin Thr
  /\ Allowed \subseteq Unusual
ASSUME FiniteAssumption == IsFiniteSet(Thr) /\ IsFiniteSet(SO)

VARIABLES
  life,         \* life[t]: unborn, started, running, gone, joined
  pth,          \* pth[t]: the pthread_t of t
  pc,           \* pc[t]: the library call t is in
  map_threads,  \* ThreadId -> Thread
  map_pthread_t_to_Thread,
  locksetA,     \* locksetA[t]: the mutexes the tool believes t to hold
  aborted,      \* the assertion of the tool that has failed, or "no"
  errs,         \* the kinds of error that the last step recorded
  hit,          \* ghost: the unusual behaviours that have happened
  ended,        \* ghost: ended[t]: the timestamp of t when it exited
  joiner        \* ghost: joiner[t]: who has reported the join of t

thrVars == <<life, pth, map_threads, map_pthread_t_to_Thread, ended, joiner>>
clkVars == <<clk, soLive, soClk, cell>>

Idle == [op |-> "idle"]
ZeroVTS == [t \in Thr |-> 0]

ThreadsInit ==
  /\ ClocksInit
  /\ life = [t \in Thr |-> IF t = Root THEN "running" ELSE "unborn"]
  /\ pth = [t \in Thr |-> CHOOSE h \in Pth : TRUE]
  /\ pc = [t \in Thr |-> Idle]
  /\ map_threads = [i \in Tid |-> IF \A j \in Tid : i <= j THEN Root ELSE NoThr]
  /\ map_pthread_t_to_Thread = [h \in Pth |-> NoThr]
  /\ locksetA = [t \in Thr |-> {}]
  /\ aborted = "no" /\ errs = {} /\ hit = {}
  /\ ended = [t \in Thr |-> ZeroVTS]
  /\ joiner = [t \in Thr |-> NoThr]

----------------------------------------------------------------------------
(* What all the handlers share. *)

Alive(t) == aborted = "no" /\ life[t] = "running"
Ready(t) == Alive(t) /\ pc[t] = Idle
Goto(t, p) == pc' = [pc EXCEPT ![t] = p]
In(t, op) == Alive(t) /\ pc[t].op = op

NoError == errs' = {} /\ UNCHANGED aborted
Records(E) == errs' = E /\ UNCHANGED aborted
DoesAll(K) == K \subseteq Allowed /\ hit' = hit \cup K
Does(kind, condition) == DoesAll(IF condition THEN {kind} ELSE {})

\* The n synchronisation objects that n calls of libhb_so_alloc return next;
\* SO bounds how many there are at a time.
Spare == SO \ soLive
Nth(S, k) == CHOOSE s \in S : Cardinality({r \in S : r < s}) = k
libhb_so_alloc(k) == Nth(Spare, k)

\* A timestamp after n ticks of t.
Ticks(t, v, n) == [v EXCEPT ![t] = @ + n]
MayTickBy(t, n) == clk[t][t] + n <= MaxTick

\* What an SO holds when the timestamps of S have been sent to it weakly, or a
\* thread when it has received them all.
JoinAll(S) == [u \in Thr |-> CHOOSE n \in {v[u] : v \in S} : \A v \in S : v[u] <= n]

Bound(t) == \E i \in Tid : map_threads[i] = t

----------------------------------------------------------------------------
(* Threads. *)

\* A pthread_t is the address of the thread's descriptor, which the library
\* reuses when the thread has been joined.
Taken(h) == \E t \in Thr \ {Root} :
              pth[t] = h /\ life[t] \in {"started", "running", "gone"}
BeingJoined(h) == \E s \in Thr : pc[s].op = "join" /\ pc[s].h = h /\ pc[s].q # Root

evh__pre_thread_ll_create(p, c) ==
  /\ Ready(p) /\ life[c] = "unborn"
  /\ Create(p, c)
  /\ \E i \in Tid : /\ map_threads[i] = NoThr /\ \A j \in Tid : j < i => map_threads[j] # NoThr
                    /\ map_threads' = [map_threads EXCEPT ![i] = c]
  /\ \E h \in Pth : /\ ~Taken(h)
                    /\ Does("reuse", BeingJoined(h))
                    /\ pth' = [pth EXCEPT ![c] = h]
  /\ life' = [life EXCEPT ![c] = "started"]
  /\ Goto(p, [op |-> "create", child |-> c])
  /\ NoError
  /\ UNCHANGED <<map_pthread_t_to_Thread, ended, joiner, locksetA>>

\* Mutant: the first binding of a pthread_t stays.
set_my_pthread_t_keep(t) ==
  /\ aborted = "no" /\ life[t] = "started"
  /\ map_pthread_t_to_Thread' =
       [map_pthread_t_to_Thread EXCEPT ![pth[t]] = IF @ = NoThr THEN t ELSE @]
  /\ life' = [life EXCEPT ![t] = "running"]
  /\ NoError
  /\ UNCHANGED <<clkVars, pth, pc, map_threads, ended, joiner, locksetA, hit>>

\* mythread_wrapper: the new thread tells its pthread_t before anything else.
set_my_pthread_t(t) ==
  /\ aborted = "no" /\ life[t] = "started"
  /\ map_pthread_t_to_Thread' = [map_pthread_t_to_Thread EXCEPT ![pth[t]] = t]
  /\ life' = [life EXCEPT ![t] = "running"]
  /\ NoError
  /\ UNCHANGED <<clkVars, pth, pc, map_threads, ended, joiner, locksetA, hit>>

\* pthread_create returns to the parent when the child has done so.
CreateReturns(p) ==
  /\ In(p, "create") /\ life[pc[p].child] # "started"
  /\ Goto(p, Idle) /\ NoError
  /\ UNCHANGED <<clkVars, thrVars, locksetA, hit>>

\* A detached thread is never joined.
evh__pre_thread_ll_exit(t, detached) ==
  /\ Ready(t)
  /\ life' = [life EXCEPT ![t] = IF detached THEN "joined" ELSE "gone"]
  /\ map_threads' = [i \in Tid |-> IF map_threads[i] = t THEN NoThr ELSE map_threads[i]]
  /\ Records(IF locksetA[t] # {} THEN {"exitHolds"} ELSE {})
  /\ ended' = [ended EXCEPT ![t] = clk[t]]
  /\ UNCHANGED <<clkVars, pth, pc, map_pthread_t_to_Thread, joiner, locksetA, hit>>

\* The library's pthread_join returns (external).
JoinReturns(s, q) ==
  /\ Ready(s) /\ s # q /\ life[q] = "gone"
  /\ Does("joinRoot", q = Root)
  /\ life' = [life EXCEPT ![q] = "joined"]
  /\ Goto(s, [op |-> "join", h |-> pth[q], q |-> q])
  /\ NoError
  /\ UNCHANGED <<clkVars, pth, map_threads, map_pthread_t_to_Thread, ended, joiner, locksetA>>

\* The pthread_t of the main thread was never told.
Quitter(s) == IF pc[s].q = Root THEN NoThr ELSE map_pthread_t_to_Thread[pc[s].h]

\* A temporary SO takes a message from the quitting thread to the joiner.
evh__HG_PTHREAD_JOIN_POST(s) ==
  LET q == Quitter(s)
  IN /\ In(s, "join")
     /\ IF q \notin Thr \/ q = s
          THEN /\ aborted' = "join" /\ errs' = {} /\ UNCHANGED clk
          ELSE /\ MayTick(q)
               /\ clk' = [clk EXCEPT ![q] = VTS__tick(q, @),
                                     ![s] = VTS__join(@, clk[q])]
               /\ aborted' = IF Bound(q) THEN "join" ELSE "no"
               /\ errs' = {}
     /\ Goto(s, Idle)
     /\ joiner' = [joiner EXCEPT ![pc[s].q] = s]
     /\ UNCHANGED <<soLive, soClk, cell, life, pth, map_threads, map_pthread_t_to_Thread,
                    ended, locksetA, hit>>

ThreadsNext ==
  \/ \E p, c \in Thr : evh__pre_thread_ll_create(p, c)
  \/ \E t \in Thr : set_my_pthread_t(t) \/ CreateReturns(t) \/ evh__HG_PTHREAD_JOIN_POST(t)
  \/ \E t \in Thr, d \in BOOLEAN : evh__pre_thread_ll_exit(t, d)
  \/ \E s, q \in Thr : JoinReturns(s, q)

----------------------------------------------------------------------------
ThreadsTypeOK ==
  /\ ClocksTypeOK
  /\ life \in [Thr -> {"unborn", "started", "running", "gone", "joined"}]
  /\ pth \in [Thr -> Pth]
  /\ map_threads \in [Tid -> Thr \cup {NoThr}]
  /\ map_pthread_t_to_Thread \in [Pth -> Thr \cup {NoThr}]
  /\ locksetA \in [Thr -> SUBSET Mutex]
  /\ hit \subseteq Allowed

=============================================================================
