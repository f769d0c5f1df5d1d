------------------------------- MODULE HgLocks -------------------------------
(***************************************************************************)
(* How the tool follows the client's mutexes and reader-writer locks       *)
(* (hg_main.c: lockN_..., evhH__..., evh__HG_PTHREAD_MUTEX_..., _RWLOCK_...)*)
(*                                                                         *)
(* The tool is told of a lock AFTER libpthread has granted it and of an    *)
(* unlock BEFORE libpthread does it, and other threads may run in between, *)
(* so its view and the real locks differ for a while.  The real locks are  *)
(* the external part of the model: realKind, realW and realBy.             *)
(*                                                                         *)
(* acquired_at, which is NULL exactly while heldBy is, is left out.  A     *)
(* failing tl_assert stops the tool: aborted becomes TRUE.                 *)
(***************************************************************************)
EXTENDS Laog, LockN

CONSTANTS
  Kinds,        \* the kinds of lock the client uses
  NoLock,       \* "map_locks has no entry"
  MaxHold,      \* bound: how often a thread holds one lock
  Misuse,       \* TRUE: the client may unlock what it does not hold and
                \* destroy what is held
  Reuse         \* TRUE: the client frees a lock's memory without destroying
                \* the lock and makes another kind of lock there

ASSUME LocksAssumption ==
  Kinds \subseteq AllKinds /\ MaxHold \in Nat /\ {Misuse, Reuse} \subseteq BOOLEAN

ASSUME NoLockAssumption == NoLock \notin LockRecord

VARIABLES
  realKind, realW, realBy,    \* the client's locks (external)
  pc,             \* pc[t]: where t is in a lock or unlock call
  map_locks,      \* guest address -> Lock
  locksetA, locksetW,
  laog,
  errs,           \* the kinds of error that the last step recorded
  aborted,        \* an assertion of the tool has failed
  misused,        \* the client unlocked what it did not hold, destroyed a
                  \* held lock or reused the memory of an undestroyed one
  order           \* ghost: <<a, b>> when b was, directly or through locks
                  \* deleted since, acquired while a was held

realVars == <<realKind, realW, realBy>>
toolVars == <<map_locks, locksetA, locksetW, laog, aborted, order>>
vars == <<realKind, realW, realBy, pc, map_locks, locksetA, locksetW, laog,
          errs, aborted, misused, order>>

Idle == [op |-> "idle"]
PC == [op : {"idle"}]
   \cup [op : {"call", "post"}, a : Addr, w : BOOLEAN] \cup [op : {"unlock"}, a : Addr]

Init ==
  /\ realKind \in [Addr -> Kinds]
  /\ realW = [a \in Addr |-> FALSE]
  /\ realBy = [a \in Addr |-> NULL]
  /\ pc = [t \in Thr |-> Idle]
  /\ map_locks = [a \in Addr |-> NoLock]
  /\ locksetA = [t \in Thr |-> {}]
  /\ locksetW = [t \in Thr |-> {}]
  /\ laog = EmptyLaog
  /\ errs = {} /\ aborted = FALSE /\ misused = FALSE /\ order = {}

Known(a) == map_locks[a] # NoLock
Held(a) == Known(a) /\ map_locks[a].heldBy # NULL
\* The locks with an acquisition point, once a is held too.
AcquiredWith(a) == {b \in Addr : Held(b)} \cup {a}

map_locks_lookup_or_create(lkk, a) ==
  IF Known(a) THEN map_locks[a] ELSE mk_LockN(lkk)

----------------------------------------------------------------------------
(* libpthread (external) *)

IsMutex(a) == realKind[a] # "rdwr"

\* A mutex can be taken when it is free or, if recursive, by its owner; a
\* rwlock for writing when it is free, for reading when no one writes.
Grantable(t, a, w) ==
  /\ realBy[a][t] < MaxHold
  /\ \/ realBy[a] = NULL
     \/ realKind[a] = "mbRec" /\ realBy[a][t] > 0
     \/ realKind[a] = "rdwr" /\ ~w /\ ~realW[a]

Grant(t) ==
  /\ pc[t].op = "call"
  /\ Grantable(t, pc[t].a, pc[t].w)
  /\ Known(pc[t].a) => map_locks[pc[t].a].heldBy[t] < MaxHold
  /\ realBy' = [realBy EXCEPT ![pc[t].a][t] = @ + 1]
  /\ realW' = [realW EXCEPT ![pc[t].a] = pc[t].w]
  /\ pc' = [pc EXCEPT ![t].op = "post"]
  /\ errs' = {} /\ UNCHANGED <<realKind, misused>> /\ UNCHANGED toolVars

\* A trylock gives up, or the call returns an error: no POST event follows.
TryFails(t) ==
  /\ pc[t].op = "call"
  /\ ~Grantable(t, pc[t].a, pc[t].w)
  /\ pc' = [pc EXCEPT ![t] = Idle]
  /\ errs' = {} /\ UNCHANGED misused /\ UNCHANGED realVars /\ UNCHANGED toolVars

\* The unlock takes effect; one by a thread that is no holder fails or, on a
\* plain mutex, may unlock it all the same.
RealUnlock(t) ==
  LET a == pc[t].a
      by == [realBy[a] EXCEPT ![t] = @ - 1]
  IN /\ pc[t].op = "unlock"
     /\ IF realBy[a][t] > 0
          THEN /\ realBy' = [realBy EXCEPT ![a] = by]
               /\ realW' = [realW EXCEPT ![a] = @ /\ by # NULL]
          ELSE \/ UNCHANGED <<realBy, realW>>
               \/ /\ realKind[a] = "nonRec"
                  /\ realBy' = [realBy EXCEPT ![a] = NULL]
                  /\ realW' = [realW EXCEPT ![a] = FALSE]
     /\ pc' = [pc EXCEPT ![t] = Idle]
     /\ errs' = {} /\ UNCHANGED <<realKind, misused>> /\ UNCHANGED toolVars

\* The memory of a free, undestroyed lock becomes a lock of another kind.
\* evh__die_mem and evh__new_mem change shadow memory only, not map_locks.
ReuseMemory(a, kind) ==
  /\ Reuse /\ realBy[a] = NULL /\ \A t \in Thr : pc[t] = Idle
  /\ realKind' = [realKind EXCEPT ![a] = kind]
  /\ errs' = {} /\ misused' = (misused \/ Known(a))
  /\ UNCHANGED <<realW, realBy, pc>> /\ UNCHANGED toolVars

----------------------------------------------------------------------------
(* The tool's handlers *)

\* evh__HG_PTHREAD_MUTEX_INIT_POST and evh__HG_PTHREAD_RWLOCK_INIT_POST
INIT_POST(t, a) ==
  /\ pc[t] = Idle /\ realBy[a] = NULL
  /\ map_locks' = [map_locks EXCEPT ![a] = map_locks_lookup_or_create(realKind[a], a)]
  /\ errs' = {}
  /\ UNCHANGED <<pc, locksetA, locksetW, laog, aborted, misused, order>>
  /\ UNCHANGED realVars

\* The lock is known as one of the other sort, mutex or rwlock.
KindErrs(a) ==
  IF Known(a) /\ IsMutex(a) # (map_locks[a].kind # "rdwr") THEN {"WrongKind"} ELSE {}

\* evh__HG_PTHREAD_MUTEX_LOCK_PRE and evh__HG_PTHREAD_RWLOCK_LOCK_PRE
LOCK_PRE(t, a, w, isTryLock) ==
  /\ pc[t] = Idle
  /\ IsMutex(a) => w
  /\ pc' = [pc EXCEPT ![t] = [op |-> "call", a |-> a, w |-> w]]
  /\ errs' = KindErrs(a)
       \cup (IF /\ IsMutex(a) /\ Known(a) /\ ~isTryLock
                /\ map_locks[a].kind \in {"nonRec", "rdwr"}
                /\ map_locks[a].heldW /\ map_locks[a].heldBy[t] > 0
               THEN {"Relock"} ELSE {})
  /\ UNCHANGED misused /\ UNCHANGED realVars /\ UNCHANGED toolVars

\* The order error that the acquisition of a by t causes, if any.
OrderErrs(t, a) ==
  IF a \notin locksetA[t] /\ laog__do_dfs_from_to(laog, a, locksetA[t]) # {}
    THEN {"LockOrder"} ELSE {}

\* The part after label noerror: first the order graph, then the locksets.
Acquired(t, a, lk, w) ==
  /\ map_locks' = [map_locks EXCEPT ![a] = lk]
  /\ errs' = OrderErrs(t, a)
  /\ laog' = laog__pre_thread_acquires_lock(laog, locksetA[t], a, AcquiredWith(a))
  /\ order' = IF a \in locksetA[t] THEN order
              ELSE order \cup
                {e \in Addr \X Addr :
                   /\ \E h \in locksetA[t] : e[1] = h \/ <<e[1], h>> \in order
                   /\ e[2] = a \/ <<a, e[2]>> \in order}
  /\ locksetA' = [locksetA EXCEPT ![t] = @ \cup {a}]
  /\ locksetW' = IF w THEN [locksetW EXCEPT ![t] = @ \cup {a}] ELSE locksetW
  /\ UNCHANGED aborted

\* The grant is refused with a complaint; a lock just made stays known.
LibpthreadBug(a, lk) ==
  /\ map_locks' = [map_locks EXCEPT ![a] = lk]
  /\ errs' = {"LibpthreadBug"}
  /\ UNCHANGED <<locksetA, locksetW, laog, order, aborted>>

\* Mutant: a recursive acquisition is not foreseen.
w_acquires_noRec(t, lkk, a) ==
  LET lk == map_locks_lookup_or_create(lkk, a)
  IN IF lk.heldBy = NULL THEN Acquired(t, a, lockN_acquire_writer(lk, t), TRUE)
     ELSE LibpthreadBug(a, lk)

evhH__post_thread_w_acquires_lock(t, lkk, a) ==
  LET lk == map_locks_lookup_or_create(lkk, a)
  IN IF \/ lk.heldBy = NULL
        \/ lk.heldW /\ lk.heldBy[t] > 0 /\ lk.kind = "mbRec"
       THEN Acquired(t, a, lockN_acquire_writer(lk, t), TRUE)
       ELSE LibpthreadBug(a, lk)

evhH__post_thread_r_acquires_lock(t, a) ==
  LET lk == map_locks_lookup_or_create("rdwr", a)
  IN IF lk.heldBy # NULL /\ lk.heldW THEN LibpthreadBug(a, lk)
     ELSE IF lk.kind = "rdwr" THEN Acquired(t, a, lockN_acquire_reader(lk, t), FALSE)
     ELSE /\ aborted' = TRUE        \* tl_assert(lk->kind == LK_rdwr)
          /\ errs' = {}
          /\ UNCHANGED <<map_locks, locksetA, locksetW, laog, order>>

\* evh__HG_PTHREAD_MUTEX_LOCK_POST and evh__HG_PTHREAD_RWLOCK_LOCK_POST
LOCK_POST(t) ==
  /\ pc[t].op = "post"
  /\ IF pc[t].w
       THEN evhH__post_thread_w_acquires_lock(
              t, IF IsMutex(pc[t].a) THEN "mbRec" ELSE "rdwr", pc[t].a)
       ELSE evhH__post_thread_r_acquires_lock(t, pc[t].a)
  /\ pc' = [pc EXCEPT ![t] = Idle]
  /\ UNCHANGED misused /\ UNCHANGED realVars

\* The last hold of t goes: the assertion at hg_main.c:1425 wants the lock to
\* be free altogether.
evhH__pre_thread_releases_lock(t, a) ==
  LET lk  == map_locks[a]
      rel == lockN_release(lk, t)
      complain(e) == /\ errs' = KindErrs(a) \cup {e}
                     /\ UNCHANGED toolVars
  IN IF ~Known(a) THEN complain("UnlockBogus")
     ELSE IF lk.heldBy = NULL THEN complain("UnlockUnlocked")
     ELSE IF lk.heldBy[t] = 0 THEN complain("UnlockForeign")
     ELSE /\ map_locks' = [map_locks EXCEPT ![a] = rel]
          /\ errs' = KindErrs(a)
          /\ aborted' = (rel.heldBy[t] = 0 /\ rel.heldBy # NULL)
          /\ IF rel.heldBy[t] = 0 /\ ~aborted'
               THEN /\ locksetA' = [locksetA EXCEPT ![t] = @ \ {a}]
                    /\ locksetW' = [locksetW EXCEPT ![t] = @ \ {a}]
               ELSE UNCHANGED <<locksetA, locksetW>>
          /\ UNCHANGED <<laog, order>>

\* evh__HG_PTHREAD_MUTEX_UNLOCK_PRE and evh__HG_PTHREAD_RWLOCK_UNLOCK_PRE
UNLOCK_PRE(t, a) ==
  /\ pc[t] = Idle
  /\ realBy[a][t] = 0 => Misuse
  /\ evhH__pre_thread_releases_lock(t, a)
  /\ pc' = [pc EXCEPT ![t] = [op |-> "unlock", a |-> a]]
  /\ misused' = (misused \/ realBy[a][t] = 0)
  /\ UNCHANGED realVars

\* Mutant: the lock stays in the locksets of its holders.
remove_Lock_keepSets(a) == UNCHANGED <<locksetA, locksetW>>

\* Every holder of lock a loses it from its locksets.
remove_Lock_from_locksets_of_all_owning_Threads(a) ==
  LET lk == map_locks[a]
  IN /\ locksetA' = [u \in Thr |-> IF lk.heldBy[u] > 0 THEN locksetA[u] \ {a}
                                                        ELSE locksetA[u]]
     /\ locksetW' = [u \in Thr |-> IF lk.heldBy[u] > 0 /\ lk.heldW
                                      THEN locksetW[u] \ {a} ELSE locksetW[u]]

\* evh__HG_PTHREAD_MUTEX_DESTROY_PRE and evh__HG_PTHREAD_RWLOCK_DESTROY_PRE;
\* libpthread refuses to destroy a held lock and leaves it as it is.
DESTROY_PRE(t, a) ==
  LET acquired == {b \in Addr : Held(b)} \ {a}
  IN /\ pc[t] = Idle
     /\ realBy[a] # NULL => Misuse
     /\ errs' =
               (IF ~Known(a) \/ KindErrs(a) # {} THEN {"DestroyInvalid"} ELSE {})
          \cup (IF Held(a) THEN {"DestroyLocked"} ELSE {})
     /\ IF ~Known(a) THEN UNCHANGED <<map_locks, locksetA, locksetW, laog, order>>
        ELSE /\ map_locks' = [map_locks EXCEPT ![a] = NoLock]
             /\ remove_Lock_from_locksets_of_all_owning_Threads(a)
             /\ laog' = laog__handle_one_lock_deletion(laog, a, acquired)
             /\ order' = {e \in order : e[1] # a /\ e[2] # a}
     /\ misused' = (misused \/ realBy[a] # NULL)
     /\ UNCHANGED <<pc, aborted>> /\ UNCHANGED realVars

\* What the threads in T do to the locks in A.
Steps(T, A) ==
  /\ ~aborted
  /\ \/ \E t \in T : Grant(t) \/ TryFails(t) \/ RealUnlock(t) \/ LOCK_POST(t)
     \/ \E t \in T, a \in A : INIT_POST(t, a) \/ UNLOCK_PRE(t, a) \/ DESTROY_PRE(t, a)
     \/ \E t \in T, a \in A, w, isTry \in BOOLEAN : LOCK_PRE(t, a, w, isTry)
     \/ \E a \in A, k \in Kinds : ReuseMemory(a, k)

Next == Steps(Thr, Addr)

Spec == Init /\ [][Next]_vars

----------------------------------------------------------------------------
(* Properties *)

\* Type invariant.
TypeOK ==
  /\ realKind \in [Addr -> Kinds]
  /\ realW \in [Addr -> BOOLEAN]
  /\ realBy \in [Addr -> Bag]
  /\ pc \in [Thr -> PC]
  /\ map_locks \in [Addr -> LockRecord \cup {NoLock}]
  /\ locksetA \in [Thr -> SUBSET Addr]
  /\ locksetW \in [Thr -> SUBSET Addr]
  /\ laog \in [outs : [Addr -> SUBSET Addr], inns : [Addr -> SUBSET Addr],
               expo : SUBSET (Addr \X Addr)]
  /\ errs \subseteq {"WrongKind", "Relock", "LockOrder", "LibpthreadBug", "UnlockBogus",
                     "UnlockUnlocked", "UnlockForeign", "DestroyInvalid", "DestroyLocked"}
  /\ aborted \in BOOLEAN /\ misused \in BOOLEAN
  /\ order \subseteq Addr \X Addr

\* HG_(is_sane_LockN), which every handler asserts: a writer is alone, and
\* what is held otherwise is a reader-writer lock.
is_sane_LockN(lk) ==
  /\ lk.heldW => \E t \in Thr : /\ lk.heldBy[t] > 0
                                /\ \A u \in Thr \ {t} : lk.heldBy[u] = 0
                                /\ lk.kind # "mbRec" => lk.heldBy[t] = 1
  /\ ~lk.heldW /\ lk.heldBy # NULL => lk.kind = "rdwr"

\* The Locks are sane, and the two records of who holds what agree (what
\* locks__sanity_check and threads__sanity_check compare): the locksets that
\* the race checker reads are exactly what the holder bags of the locks say.
LocksetsMatch ==
  /\ \A a \in Addr : Known(a) => is_sane_LockN(map_locks[a])
  /\ ~aborted => \A t \in Thr, a \in Addr :
       /\ a \in locksetA[t] <=> Known(a) /\ map_locks[a].heldBy[t] > 0
       /\ a \in locksetW[t] <=> Known(a) /\ map_locks[a].heldBy[t] > 0 /\ map_locks[a].heldW

\* The tool never believes that a thread holds a lock which the thread does
\* not really hold, although it hears of grants late and of unlocks early.
\* Otherwise an unprotected access would count as protected.
ToolBehindClient ==
  ~misused => \A t \in Thr, a \in Addr :
    Known(a) => map_locks[a].heldBy[t] <= realBy[a][t]

\* A client that uses its locks properly gets no complaint about an unlock,
\* and libpthread is not blamed.
ErrorsAreReal ==
  ~misused => errs \cap {"LibpthreadBug", "UnlockBogus", "UnlockUnlocked", "UnlockForeign"} = {}

\* The graph knows the acquisition order between any two locks that still
\* exist, also the part that went through locks deleted since, and invents
\* none: a path means that the order was really seen.
LaogIsOrder ==
  \A a, b \in Addr : a # b => (b \in Reach(laog, a) <=> <<a, b>> \in order)

\* hg_main.c:1425, after a thread has dropped its last hold of a lock:
\* "tl_assert(!lock->heldBy);".
ReleaseAssertHolds == ~aborted

=============================================================================
