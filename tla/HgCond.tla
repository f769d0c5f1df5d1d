------------------------------- MODULE HgCond -------------------------------
(***************************************************************************)
(* Condition variables (hg_main.c: evh__HG_PTHREAD_COND_...) and the       *)
(* detector of lost signals (hg_lsd.c).  A signal sends, weakly, to the SO *)
(* of the condition variable; a wait that has returned receives from it.   *)
(*                                                                         *)
(* With lsdLevel >= 1 the tool knows the loops                             *)
(*     while (!condition) pthread_cond_wait(cond, mutex);                  *)
(* and takes the edge at the end of the loop, so that a thread that finds  *)
(* the condition true and never waits is ordered after the signal too.     *)
(* With lsdLevel >= 2 it compares what the waiter has read under the lock  *)
(* with what the last signallers had written, and takes the edge from the  *)
(* signals that fit best.                                                  *)
(*                                                                         *)
(* The hybrid builds are modelled: a mutex gives no happens-before edge.   *)
(* The library's mutexes and condition variables are external: owner and   *)
(* pc.                                                                     *)
(***************************************************************************)
EXTENDS HgThreads, Functions

CONSTANTS
  Cond, Var,
  Levels,       \* the values of --lost-signal-detector to look at
  RecMax,       \* 8: recorded_signals_size
  AccMax        \* 100: ACCESSLIST_SIZE

ASSUME CondAssumption ==
  Levels \subseteq 0 .. 2 /\ {RecMax, AccMax} \subseteq Nat \ {0} /\ IsFiniteSet(Cond)

VARIABLES
  lsdLevel,     \* HG_(clo_lost_signal_detector)
  condSO,       \* map_cond_to_SO: the SO of a cond, or none
  condVars,     \* the conds with a CondVar, which none ever loses
  recorded,     \* recorded[c]: the last signals, the newest first
  lsd,          \* lsd[t]: the ThrLSD
  loop,         \* loop[t]: where t is in a waiting loop: out, test, body
  owner,        \* owner[m]: who holds the mutex (external)
  sent          \* ghost: sent[c]: the join of what the signals since the last
                \* destruction of c sent, or NoVTS

condVarsAll == <<lsdLevel, condSO, condVars, recorded, lsd, loop, owner, sent>>

NoSO == -1

create_ThrLSD ==
  [waiting |-> FALSE, in_waiting_loop |-> FALSE, record_writes |-> FALSE,
   record_reads |-> FALSE, writes |-> <<>>, reads |-> <<>>,
   expect |-> <<>>, cvlist |-> {}]

CondInit ==
  /\ lsdLevel \in Levels
  /\ condSO = [c \in Cond |-> NoSO]
  /\ condVars = {}
  /\ recorded = [c \in Cond |-> <<>>]
  /\ lsd = [t \in Thr |-> create_ThrLSD]
  /\ loop = [t \in Thr |-> "out"]
  /\ owner = [m \in Mutex |-> NoThr]
  /\ sent = [c \in Cond |-> NoVTS]

----------------------------------------------------------------------------
(* Mutexes, as far as they matter here; HgLocks has the rest. *)

hg_lsd__mutex_lock(th) ==
  IF lsdLevel < 2 THEN th
  ELSE [th EXCEPT !.record_writes = TRUE, !.record_reads = TRUE,
                  !.writes = IF th.waiting THEN @ ELSE <<>>,
                  !.reads = IF th.waiting THEN @ ELSE <<>>]
hg_lsd__mutex_unlock(th) == [th EXCEPT !.record_writes = FALSE, !.record_reads = FALSE]

\* pthread_mutex_lock and MUTEX_LOCK_POST
MutexLock(t, m) ==
  /\ Ready(t) /\ owner[m] = NoThr
  /\ owner' = [owner EXCEPT ![m] = t]
  /\ locksetA' = [locksetA EXCEPT ![t] = @ \cup {m}]
  /\ lsd' = [lsd EXCEPT ![t] = hg_lsd__mutex_lock(@)]
  /\ NoError
  /\ UNCHANGED <<clkVars, thrVars, pc, hit, lsdLevel, condSO, condVars, recorded, loop, sent>>

\* MUTEX_UNLOCK_PRE and pthread_mutex_unlock.  The tool may have lost the
\* lock when a wait failed.
MutexUnlock(t, m) ==
  /\ Ready(t) /\ owner[m] = t
  /\ owner' = [owner EXCEPT ![m] = NoThr]
  /\ locksetA' = [locksetA EXCEPT ![t] = @ \ {m}]
  /\ lsd' = IF m \in locksetA[t] THEN [lsd EXCEPT ![t] = hg_lsd__mutex_unlock(@)] ELSE lsd
  /\ Records(IF m \in locksetA[t] THEN {} ELSE {"unlock"})
  /\ UNCHANGED <<clkVars, thrVars, pc, hit, lsdLevel, condSO, condVars, recorded, loop, sent>>

alist_add(al, v) == IF Len(al) < AccMax THEN Append(al, v) ELSE al

\* hg_lsd__rec_write and hg_lsd__rec_read; an access leaves no other trace
\* here.
Access(t, v, write) ==
  LET th == lsd[t]
  IN /\ Ready(t)
     /\ IF write THEN th.record_writes ELSE th.record_reads
     /\ lsd' = [lsd EXCEPT ![t] = IF write THEN [th EXCEPT !.writes = alist_add(@, v)]
                                           ELSE [th EXCEPT !.reads = alist_add(@, v)]]
     /\ lsd' # lsd
     /\ NoError
     /\ UNCHANGED <<clkVars, thrVars, pc, hit, locksetA,
                    lsdLevel, condSO, condVars, recorded, loop, owner, sent>>

----------------------------------------------------------------------------
(* Signals. *)

\* map_cond_to_SO_lookup_or_alloc, and how many SOs it takes.
lookup_or_alloc(c) == IF condSO[c] = NoSO THEN libhb_so_alloc(0) ELSE condSO[c]
Allocs(c) == IF condSO[c] = NoSO THEN 1 ELSE 0
JoinMaybe(a, b) == IF a = NoVTS THEN b ELSE VTS__join(a, b)

\* Mutant: the signal is sent strongly.
SignalSend_strong(old, new) == new

\* A weak send joins with what the SO holds.
SignalSend(old, new) == JoinMaybe(old, new)

\* evh__HG_PTHREAD_COND_SIGNAL_PRE (hg_lsd__cond_signal_pre included), for
\* pthread_cond_signal and pthread_cond_broadcast.  At level 2 the oldest
\* recorded signal makes room, and an extracted SO goes with the new one.
evh__HG_PTHREAD_COND_SIGNAL_PRE(t, c, all) ==
  LET so == lookup_or_alloc(c)
      rec == lsdLevel >= 2
      ext == libhb_so_alloc(Allocs(c))
      full == rec /\ Len(recorded[c]) = RecMax
      gone == IF full THEN {recorded[c][RecMax].so} ELSE {}
      kept == IF full THEN SubSeq(recorded[c], 1, RecMax - 1) ELSE recorded[c]
      fresh == {so} \cup (IF rec THEN {ext} ELSE {})
  IN /\ Ready(t) /\ MayTick(t)
     /\ Cardinality(Spare) >= Allocs(c) + IF rec THEN 1 ELSE 0
     /\ condSO' = [condSO EXCEPT ![c] = so]
     /\ condVars' = condVars \cup {c}
     /\ recorded' = IF rec THEN [recorded EXCEPT ![c] =
                                   <<[writes |-> lsd[t].writes, so |-> ext]>> \o kept]
                           ELSE recorded
     /\ lsd' = IF rec THEN [lsd EXCEPT ![t].writes = <<>>] ELSE lsd
     /\ soLive' = (soLive \ gone) \cup fresh
     /\ soClk' = [s \in SO |-> IF s = so THEN SignalSend(soClk[s], clk[t])
                               ELSE IF rec /\ s = ext THEN clk[t]
                               ELSE IF s \in gone THEN NoVTS ELSE soClk[s]]
     /\ clk' = [clk EXCEPT ![t] = VTS__tick(t, @)]
     /\ sent' = [sent EXCEPT ![c] = JoinMaybe(@, clk[t])]
     /\ Goto(t, [op |-> "signal", c |-> c, all |-> all, at |-> clk[t]])
     /\ NoError
     /\ UNCHANGED <<cell, thrVars, locksetA, hit, lsdLevel, loop, owner>>

Blocked(c) == {t \in Thr : pc[t].op = "condIn" /\ pc[t].c = c}
Woken(t, by, timed) ==
  [op |-> "condWoken", c |-> pc[t].c, m |-> pc[t].m, by |-> by, timed |-> timed]

\* The library wakes one waiter, or all (external).
RealSignal(t) ==
  LET c == pc[t].c
  IN /\ In(t, "signal")
     /\ \E W \in SUBSET Blocked(c) :
          /\ IF pc[t].all \/ Blocked(c) = {} THEN W = Blocked(c) ELSE Cardinality(W) = 1
          /\ pc' = [u \in Thr |-> IF u = t THEN Idle
                                  ELSE IF u \in W THEN Woken(u, pc[t].at, FALSE) ELSE pc[u]]
     /\ NoError
     /\ UNCHANGED <<clkVars, thrVars, locksetA, hit, condVarsAll>>

----------------------------------------------------------------------------
(* Waits. *)

\* One of the pairs in E has the cond with another mutex.
OtherMutex(E, c, m) == \E e \in E : e[1] = c /\ e[2] # m

\* COND_WAIT_PRE (hg_lsd__cond_wait_pre included) and, if the mutex is found
\* to be valid, MUTEX_UNLOCK_PRE.  With an invalid mutex the tool hears no
\* more of this wait, whatever comes of it.
evh__HG_PTHREAD_COND_WAIT_PRE(t, c, m) ==
  LET valid == m \in locksetA[t]
  IN /\ Ready(t)
     /\ DoesAll((IF owner[m] # t THEN {"bogusWait"} ELSE {}) \cup
                (IF /\ lsd[t].in_waiting_loop
                    /\ OtherMutex(lsd[t].cvlist \cup {lsd[t].expect}, c, m)
                   THEN {"twoMutexes"} ELSE {}))
     /\ errs' = IF valid THEN {} ELSE {"condWait"}
     /\ IF lsd[t].waiting
          THEN /\ aborted' = "waiting"
               /\ UNCHANGED <<pc, lsd, locksetA>>
          ELSE /\ UNCHANGED aborted
               /\ lsd' = [lsd EXCEPT ![t] =
                    IF valid THEN hg_lsd__mutex_unlock([@ EXCEPT !.waiting = TRUE])
                             ELSE [@ EXCEPT !.waiting = TRUE]]
               /\ locksetA' = [locksetA EXCEPT ![t] = @ \ {m}]
               /\ pc' = IF valid THEN [pc EXCEPT ![t] = [op |-> "condPre", c |-> c, m |-> m]]
                                 ELSE pc
     /\ UNCHANGED <<clkVars, thrVars,
                    lsdLevel, condSO, condVars, recorded, loop, owner, sent>>

\* The library releases the mutex and waits, or returns an error (external).
Block(t) ==
  /\ In(t, "condPre")
  /\ pc' = [pc EXCEPT ![t].op = "condIn"]
  /\ owner' = [owner EXCEPT ![pc[t].m] = NoThr]
  /\ NoError
  /\ UNCHANGED <<clkVars, thrVars, locksetA, hit,
                 lsdLevel, condSO, condVars, recorded, lsd, loop, sent>>

WaitFails(t) ==
  /\ In(t, "condPre")
  /\ Does("waitFails", TRUE)
  /\ Goto(t, Idle) /\ NoError
  /\ UNCHANGED <<clkVars, thrVars, locksetA, condVarsAll>>

\* A timed wait gives up, or a wait ends for no reason (external).
Timeout(t) ==
  /\ In(t, "condIn")
  /\ Goto(t, Woken(t, NoVTS, TRUE)) /\ NoError
  /\ UNCHANGED <<clkVars, thrVars, locksetA, hit, condVarsAll>>

Spurious(t) ==
  /\ In(t, "condIn")
  /\ Does("spurious", TRUE)
  /\ Goto(t, Woken(t, NoVTS, FALSE)) /\ NoError
  /\ UNCHANGED <<clkVars, thrVars, locksetA, condVarsAll>>

Reacquire(t) ==
  /\ In(t, "condWoken") /\ owner[pc[t].m] = NoThr
  /\ owner' = [owner EXCEPT ![pc[t].m] = t]
  /\ pc' = [pc EXCEPT ![t].op = "condBack"]
  /\ NoError
  /\ UNCHANGED <<clkVars, thrVars, locksetA, hit,
                 lsdLevel, condSO, condVars, recorded, lsd, loop, sent>>

\* hg_lsd__cond_direct_so: how often the entries of a recorded signal are
\* among what the waiter has read, and what the best signals sent.
Score(al, reads) == Cardinality({i \in DOMAIN al : al[i] \in Range(reads)})
BestScore(c, reads) ==
  LET scores == {0} \cup {Score(recorded[c][i].writes, reads) : i \in DOMAIN recorded[c]}
  IN CHOOSE n \in scores : \A k \in scores : k <= n
hg_lsd__cond_direct_so(c, reads) ==
  LET best == {i \in DOMAIN recorded[c] :
                 Score(recorded[c][i].writes, reads) = BestScore(c, reads)}
  IN JoinAll({soClk[recorded[c][i].so] : i \in best})

\* What thread t receives for c: at level 2 the signals that fit best, if
\* any does, otherwise what was sent to the SO.
Received(c, th) ==
  IF lsdLevel >= 2 /\ BestScore(c, th.reads) > 0 THEN hg_lsd__cond_direct_so(c, th.reads)
  ELSE IF condSO[c] = NoSO THEN NoVTS ELSE soClk[condSO[c]]

\* The SOs after a lookup for each of the conds in C.
WithSOs(C) ==
  LET new == {c \in C : condSO[c] = NoSO}
      f == CHOOSE g \in Injection(new, Spare) : TRUE
  IN /\ Cardinality(new) <= Cardinality(Spare)
     /\ condSO' = [c \in Cond |-> IF c \in new THEN f[c] ELSE condSO[c]]
     /\ soLive' = soLive \cup {f[c] : c \in new}
     /\ soClk' = soClk

\* hg_lsd__cond_wait_post: inside a waiting loop the wait is only noted.
NotesOnly(th) == th.in_waiting_loop

\* MUTEX_LOCK_POST and COND_WAIT_POST.
evh__HG_PTHREAD_COND_WAIT_POST(t) ==
  LET c == pc[t].c
      m == pc[t].m
      th == [hg_lsd__mutex_lock(lsd[t]) EXCEPT !.waiting = FALSE]
      note == NotesOnly(th)
      odd == note /\ OtherMutex(th.cvlist, c, m)
  IN /\ In(t, "condBack") /\ ~pc[t].timed
     /\ locksetA' = [locksetA EXCEPT ![t] = @ \cup {m}]
     /\ WithSOs({c})
     /\ errs' = IF condSO[c] = NoSO \/ soClk[condSO[c]] = NoVTS THEN {"neverSent"} ELSE {}
     /\ aborted' = IF ~lsd[t].waiting THEN "waiting" ELSE IF odd THEN "mutex" ELSE "no"
     /\ lsd' = [lsd EXCEPT ![t] = IF note THEN [th EXCEPT !.cvlist = @ \cup {<<c, m>>}] ELSE th]
     /\ clk' = IF note \/ Received(c, th) = NoVTS THEN clk
               ELSE [clk EXCEPT ![t] = VTS__join(@, Received(c, th))]
     /\ condVars' = IF note THEN condVars ELSE condVars \cup {c}
     /\ Goto(t, Idle)
     /\ UNCHANGED <<cell, thrVars, hit, lsdLevel, recorded, loop, owner, sent>>

\* Mutant: the flag stays set.
evh__HG_PTHREAD_COND_WAIT_TIMEOUT_keep(t) ==
  /\ In(t, "condBack") /\ pc[t].timed
  /\ locksetA' = [locksetA EXCEPT ![t] = @ \cup {pc[t].m}]
  /\ WithSOs({pc[t].c})
  /\ lsd' = [lsd EXCEPT ![t] = hg_lsd__mutex_lock(@)]
  /\ NoError /\ Goto(t, Idle)
  /\ UNCHANGED <<clk, cell, thrVars, hit, lsdLevel, condVars, recorded, loop, owner, sent>>

\* MUTEX_LOCK_POST and COND_WAIT_TIMEOUT.
evh__HG_PTHREAD_COND_WAIT_TIMEOUT(t) ==
  /\ In(t, "condBack") /\ pc[t].timed
  /\ locksetA' = [locksetA EXCEPT ![t] = @ \cup {pc[t].m}]
  /\ WithSOs({pc[t].c})
  /\ lsd' = [lsd EXCEPT ![t] = [hg_lsd__mutex_lock(@) EXCEPT !.waiting = FALSE]]
  /\ errs' = {} /\ aborted' = IF lsd[t].waiting THEN "no" ELSE "waiting"
  /\ Goto(t, Idle)
  /\ UNCHANGED <<clk, cell, thrVars, hit, lsdLevel, condVars, recorded, loop, owner, sent>>

\* The threads that have been woken on c but have not returned.
WokenOn(c) == {t \in Thr : pc[t].op \in {"condWoken", "condBack"} /\ pc[t].c = c}
\* No one is inside a call on c, apart from them.
NoneIn(c) == \A t \in Thr : pc[t].op \in {"condPre", "condIn", "signal"} => pc[t].c # c

\* POSIX lets a cond be destroyed as soon as all the waiters are woken.
evh__HG_PTHREAD_COND_DESTROY_PRE(t, c) ==
  /\ Ready(t) /\ NoneIn(c)
  /\ Does("earlyDestroy", WokenOn(c) # {})
  /\ condSO' = [condSO EXCEPT ![c] = NoSO]
  /\ soLive' = soLive \ {condSO[c]}
  /\ soClk' = [s \in SO |-> IF s = condSO[c] THEN NoVTS ELSE soClk[s]]
  /\ sent' = [sent EXCEPT ![c] = NoVTS]
  /\ NoError
  /\ UNCHANGED <<clk, cell, thrVars, pc, locksetA,
                 lsdLevel, condVars, recorded, lsd, loop, owner>>

----------------------------------------------------------------------------
(* Waiting loops, which are instrumented from level 1 on. *)

\* The test of the loop that waits on c with m: the tool notes what the loop
\* is going to wait for.
evh__waiting_loop(t, c, m) ==
  /\ lsdLevel >= 1 /\ Ready(t) /\ owner[m] = t /\ loop[t] # "test"
  /\ loop' = [loop EXCEPT ![t] = "test"]
  /\ Does("twoMutexes", OtherMutex(lsd[t].cvlist, c, m))
  /\ lsd' = [lsd EXCEPT ![t].expect = <<c, m>>]
  /\ NoError
  /\ UNCHANGED <<clkVars, thrVars, pc, locksetA,
                 lsdLevel, condSO, condVars, recorded, owner, sent>>

evh__waiting_loop_begin(t) ==
  /\ Ready(t) /\ loop[t] = "test"
  /\ loop' = [loop EXCEPT ![t] = "body"]
  /\ lsd' = [lsd EXCEPT ![t].in_waiting_loop = TRUE, ![t].record_reads = FALSE]
  /\ NoError
  /\ UNCHANGED <<clkVars, thrVars, pc, locksetA, hit,
                 lsdLevel, condSO, condVars, recorded, owner, sent>>

\* Mutant: only the conds that were really waited on.
Annotated_noLost(th) == {e[1] : e \in th.cvlist} \cap condVars

\* The conds that main_annotate_wait is called for at the end of a loop: the
\* ones waited on in it and the one it would have waited on.
Annotated(th) == ({e[1] : e \in th.cvlist} \cup {th.expect[1]}) \cap condVars

\* The end of the loop, from its test or out of its body.
evh__waiting_loop_end(t) ==
  LET th == lsd[t]
      got == {Received(c, th) : c \in Annotated(th)} \ {NoVTS}
  IN /\ Ready(t) /\ loop[t] # "out"
     /\ aborted' = IF OtherMutex(th.cvlist, th.expect[1], th.expect[2]) THEN "mutex" ELSE "no"
     /\ errs' = {}
     /\ WithSOs(Annotated(th))
     /\ clk' = [clk EXCEPT ![t] = JoinAll(got \cup {@})]
     /\ lsd' = [lsd EXCEPT ![t].in_waiting_loop = FALSE, ![t].cvlist = {}]
     /\ loop' = [loop EXCEPT ![t] = "out"]
     /\ UNCHANGED <<cell, thrVars, pc, locksetA, hit,
                    lsdLevel, condVars, recorded, owner, sent>>

\* A return or goto out of the body (external).
StrayExit(t) ==
  /\ Ready(t) /\ loop[t] = "body"
  /\ Does("stray", TRUE)
  /\ loop' = [loop EXCEPT ![t] = "out"]
  /\ NoError
  /\ UNCHANGED <<clkVars, thrVars, pc, locksetA,
                 lsdLevel, condSO, condVars, recorded, lsd, owner, sent>>

CondNext ==
  \/ \E t \in Thr, m \in Mutex : MutexLock(t, m) \/ MutexUnlock(t, m)
  \/ \E t \in Thr, v \in Var, w \in BOOLEAN : Access(t, v, w)
  \/ \E t \in Thr, c \in Cond, all \in BOOLEAN : evh__HG_PTHREAD_COND_SIGNAL_PRE(t, c, all)
  \/ \E t \in Thr, c \in Cond, m \in Mutex :
       evh__HG_PTHREAD_COND_WAIT_PRE(t, c, m) \/ evh__waiting_loop(t, c, m)
  \/ \E t \in Thr, c \in Cond : evh__HG_PTHREAD_COND_DESTROY_PRE(t, c)
  \/ \E t \in Thr :
       \/ RealSignal(t) \/ Block(t) \/ WaitFails(t) \/ Timeout(t) \/ Spurious(t) \/ Reacquire(t)
       \/ evh__HG_PTHREAD_COND_WAIT_POST(t) \/ evh__HG_PTHREAD_COND_WAIT_TIMEOUT(t)
       \/ evh__waiting_loop_begin(t) \/ evh__waiting_loop_end(t) \/ StrayExit(t)

----------------------------------------------------------------------------
CondTypeOK ==
  /\ condSO \in [Cond -> SO \cup {NoSO}] /\ condVars \subseteq Cond
  /\ \A c \in Cond : Len(recorded[c]) <= RecMax
  /\ loop \in [Thr -> {"out", "test", "body"}]
  /\ owner \in [Mutex -> Thr \cup {NoThr}]
  /\ sent \in [Cond -> MaybeVTS]
  /\ \A t \in Thr : {Len(lsd[t].writes), Len(lsd[t].reads)} \subseteq 0 .. AccMax

Returns(t) == pc[t].op = "condBack" /\ ~pc[t].timed /\ pc'[t] = Idle

\* A thread that returns from a wait outside of waiting loops is ordered after
\* the signal that woke it, however many signals, timeouts and other waiters
\* there are between the wake-up and the report.  Not so when the cond is
\* destroyed in between, which is legal, or when an earlier loop was left by a
\* stray exit: the flag in_waiting_loop is then still set.
WokenIsOrdered ==
  [][\A t \in Thr :
       /\ Returns(t) /\ loop[t] = "out" /\ lsdLevel < 2 /\ pc[t].by # NoVTS
       /\ hit \cap {"earlyDestroy", "stray"} = {}
       => VTS__leq(pc[t].by, clk'[t])]_<<pc, clk, loop>>

\* What the detector of lost signals is for: a thread that leaves a waiting
\* loop is ordered after every signal on the cond that was sent before, whether
\* it waited, timed out, was woken by another signal or never waited at all.
LostSignalCaught ==
  [][\A t \in Thr :
       /\ loop[t] = "test" /\ loop'[t] = "out" /\ lsdLevel = 1
       /\ sent[lsd[t].expect[1]] # NoVTS
       => VTS__leq(sent[lsd[t].expect[1]], clk'[t])]_<<pc, clk, loop>>

=============================================================================
