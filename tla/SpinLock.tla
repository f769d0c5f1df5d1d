------------------------------ MODULE SpinLock ------------------------------
(***************************************************************************)
(* How helgrind-ukas tells the locks among the spin variables              *)
(* (hg_main_inc.c.h, with its callers in hg_loops.c and libhb_ukas_core.h).*)
(*                                                                         *)
(* A variable that is written inside a spin loop may be a lock: the loop's *)
(* exit acquires it, a write outside the loop releases it, and accesses to *)
(* it are checked by locksets.  Any other spin variable orders its readers *)
(* after its writer.  The records are keyed by address and by ThreadId,    *)
(* and neither is cleared when the memory or the thread goes away.         *)
(*                                                                         *)
(* The client is external: test-and-set locks and one-shot flags, some of  *)
(* them waited for in loops of which the analyser has no code block        *)
(* (EmptyLoop), and one mutex.  Threads switch between any two steps.  A   *)
(* timestamp is the set of flags whose setting happens before it, so that  *)
(* a tick changes nothing.  lastWriterHasExited returns at once and        *)
(* HANDLE_BARRIER is 0: both are left out.                                 *)
(***************************************************************************)
EXTENDS LockN

CONSTANTS
  NAddr,             \* the addresses are 1..NAddr
  Loop, EmptyLoop,   \* code blocks; EmptyLoop has no parts
  Mutex,             \* the mutex, as a member of locksets
  None

Addr == 1..NAddr
Maybe(S) == S \cup {None}

ASSUME SpinAssumption ==
  /\ NAddr \in Nat /\ EmptyLoop \in Loop
  /\ None \notin Thr \cup Loop /\ Mutex \notin Addr

VARIABLES
  role,            \* role[a]: a "lock" or a "flag" of the client
  val,             \* val[a]: who holds the lock, or who set the flag
  at,              \* at[t]: the loop that t is in, or Idle
  loopOf,          \* the code block of the loops that wait for a
  lastSpin,        \* hg_loops_lastSpinProperty: ThreadId -> SpinProperty
  map_spin_locks, map_locks, locksetA,
  sv,              \* shadow values
  vid,             \* timestamps of the threads
  blame            \* ghost: what has led the detection astray at an address

spinVars == <<role, val, at, loopOf, lastSpin, map_spin_locks, map_locks, locksetA, sv,
          vid, blame>>

Idle == [a |-> 0, got |-> FALSE]

SpinRecord == [sLk : LockRecord, lastSpinWriter : Maybe(Thr),
               lastReleaseWriter : Maybe(Thr), wasReleasedBefore : BOOLEAN,
               wasALock : BOOLEAN, sp : Maybe(Loop)]

ASSUME RecordAssumption == None \notin SpinRecord \cup LockRecord

mk_SpinLock ==
  [sLk |-> mk_LockN("mbRec"), lastSpinWriter |-> None, lastReleaseWriter |-> None,
   wasReleasedBefore |-> FALSE, wasALock |-> FALSE, sp |-> None]

New == [st |-> "New", v |-> {}]
mk_ExclW(v) == [st |-> "ExclW", v |-> v]
mk_SpinVar(v) == [st |-> "SpinVar", v |-> v]

SpinInit ==
  /\ role \in [Addr -> {"lock", "flag"}]
  /\ val = [a \in Addr |-> None]
  /\ at = [t \in Thr |-> Idle]
  /\ loopOf \in [Addr -> Loop]
  /\ lastSpin = [t \in Thr |-> None]
  /\ map_spin_locks = [a \in Addr |-> None]
  /\ map_locks = [a \in Addr |-> None]
  /\ locksetA = [t \in Thr |-> {}]
  /\ sv = [a \in Addr |-> New]
  /\ vid = [t \in Thr |-> {}]
  /\ blame = [a \in Addr |-> {}]

\* What one access may change, as a record that the calls hand on.
Tool == [spin |-> map_spin_locks, locks |-> map_locks, ls |-> locksetA,
         sv |-> sv, vid |-> vid]
SetTool(s) ==
  /\ map_spin_locks' = s.spin /\ map_locks' = s.locks /\ locksetA' = s.ls
  /\ sv' = s.sv /\ vid' = s.vid

----------------------------------------------------------------------------
(* The locks of map_locks, which only spin loops use here *)

\* evhH__post_thread_w_acquires_lock; a lock held by another is left alone.
w_acquires(s, t, a) ==
  LET lk == IF s.locks[a] = None THEN mk_LockN("mbRec") ELSE s.locks[a]
  IN IF lk.heldBy # NULL /\ lk.heldBy[t] = 0 THEN [s EXCEPT !.locks[a] = lk]
     ELSE [s EXCEPT !.locks[a] = lockN_acquire_writer(lk, t), !.ls[t] = @ \cup {a}]

\* evhH__pre_thread_releases_lock; an unlock by no holder is only reported.
releases(s, t, a) ==
  LET rel == lockN_release(s.locks[a], t)
  IN IF s.locks[a] = None \/ s.locks[a].heldBy[t] = 0 THEN s
     ELSE [s EXCEPT !.locks[a] = rel,
                    !.ls[t] = IF rel.heldBy[t] = 0 THEN @ \ {a} ELSE @]

\* Thread t gives a up, in the spin record and in map_locks.
DropSpinLock(s, t, a) ==
  releases([s EXCEPT !.spin[a].sLk = lockN_release(@, t)], t, a)

----------------------------------------------------------------------------
(* Classification of the accesses *)

lookup_or_create(s, a) == IF s.spin[a] = None THEN mk_SpinLock ELSE s.spin[a]

\* Mutant: a record without any release counts as invalidated.
Invalidated_fresh(lk) == lk # None /\ ~lk.wasReleasedBefore

\* Written outside spin loops by a thread that did not hold it: not a lock.
Invalidated(lk) == lk # None /\ lk.lastReleaseWriter # None /\ ~lk.wasReleasedBefore

set_lastReleaseWriter(s, t, a) ==
  IF s.spin[a].lastReleaseWriter = t THEN s.spin[a]
  ELSE [s.spin[a] EXCEPT !.lastReleaseWriter = t,
                         !.wasReleasedBefore = a \in s.ls[t]]

\* Results of HG_(onSpinWrite): the new state and "this is a lock operation".
Is(isALock, s) == [s |-> s, isALock |-> isALock]

\* Part of HG_(onSpinWrite): not in a spin loop, so this may release a lock.
OutsideWrite(s, t, a) ==
  LET lk1 == set_lastReleaseWriter(s, t, a)
      lk  == [lk1 EXCEPT !.wasALock = @ /\ lk1.wasReleasedBefore]
      s1  == [s EXCEPT !.spin[a] = lk]
      realOwner == CHOOSE u \in Thr : lk.sLk.heldBy[u] > 0
  IN IF s.spin[a] = None THEN Is(FALSE, s)
     ELSE IF lk.sLk.heldBy = NULL THEN Is(lk.wasALock, s1)
     ELSE IF lk.sLk.heldBy[t] = 0
       THEN Is(FALSE, DropSpinLock([s1 EXCEPT !.spin[a].wasALock = FALSE], realOwner, a))
     ELSE Is(TRUE, DropSpinLock(s1, t, a))

\* Part of HG_(onSpinWrite): in loop L, so this may try to acquire a lock.
InsideWrite(s, t, a, L) ==
  LET lk == lookup_or_create(s, a)
  IN IF Invalidated(lk)
       THEN Is(FALSE, [s EXCEPT !.spin[a] =
                         [lk EXCEPT !.lastSpinWriter = None, !.wasALock = FALSE]])
       ELSE Is(TRUE, [s EXCEPT !.spin[a] =
                        [lk EXCEPT !.lastSpinWriter = t, !.sp = L, !.wasALock = TRUE]])

\* Mutant: any write by a thread with locks counts as one in a spin loop.
NotInSpin_protected(s, t, L, atomic, spinning) ==
  ~(atomic /\ spinning) /\ s.ls[t] = {}

\* spinning: between start_spin_reading and stop_spin_reading.
NotInSpin(s, t, L, atomic, spinning) ==
  /\ ~(atomic /\ spinning)
  /\ L \in {None, EmptyLoop} \/ (~atomic /\ s.ls[t] = {})

Classify(s, t, a, L, atomic, spinning) ==
  IF NotInSpin(s, t, L, atomic, spinning) THEN OutsideWrite(s, t, a)
                                          ELSE InsideWrite(s, t, a, L)

\* The part of msm_write behind HG_(onSpinWrite), whose result is r; the
\* shadow value and the timestamp are the ones read before that call.
WriteSpinVar(s, t, a, r) ==
  [r.s EXCEPT !.sv[a] = IF r.isALock THEN s.sv[a] ELSE mk_SpinVar(s.vid[t])]

\* msm_write for a write that is not atomic, for which HG_(onSpinWrite) only
\* classifies.
plain_write(s, t, a, L, spinning) ==
  IF s.sv[a].st = "SpinVar" THEN WriteSpinVar(s, t, a, Classify(s, t, a, L, FALSE, spinning))
  ELSE [s EXCEPT !.sv[a] = mk_ExclW(s.vid[t])]

\* HG_(onExitSpinLoop) for one record: the thread that wrote a last in this
\* loop acquires it.  If another thread holds it, a is no lock and the write
\* is repeated as a plain one (zsm_apply32___msm_write).
ExitOne(s, t, L, spinning, a) ==
  LET lk == s.spin[a]
      done == [s EXCEPT !.spin[a].lastSpinWriter = None]
      not == [done EXCEPT !.spin[a].wasALock = FALSE]
  IN IF lk = None \/ Invalidated(lk) THEN s
     ELSE IF lk.lastSpinWriter # t \/ lk.sp # L THEN s
     ELSE IF lk.sLk.heldBy = NULL
       THEN [w_acquires(done, t, a) EXCEPT
               !.spin[a].sLk = lockN_acquire_writer(lk.sLk, t)]
     ELSE IF lk.sLk.heldBy[t] > 0 THEN done
     ELSE plain_write(not, t, a, L, spinning)

\* The records are visited in the order of their addresses.
onExitSpinLoop(s, t, L, spinning) ==
  LET upTo[n \in 0 .. NAddr] ==
        IF n = 0 THEN s ELSE ExitOne(upTo[n - 1], t, L, spinning, n)
  IN upTo[NAddr]

\* HG_(onSpinWrite): an atomic write in a loop without code block is taken
\* for the whole loop.
onSpinWrite(s, t, a, L, atomic, spinning) ==
  LET r == Classify(s, t, a, L, atomic, spinning)
  IN IF /\ ~NotInSpin(s, t, L, atomic, spinning)
        /\ atomic /\ L = EmptyLoop
       THEN Is(r.isALock, onExitSpinLoop(r.s, t, r.s.spin[a].sp, spinning))
       ELSE r

msm_write(s, t, a, L, atomic, spinning) ==
  IF s.sv[a].st = "SpinVar"
    THEN WriteSpinVar(s, t, a, onSpinWrite(s, t, a, L, atomic, spinning))
  ELSE IF atomic THEN s
  ELSE [s EXCEPT !.sv[a] = mk_ExclW(s.vid[t])]

\* Mutant: a lock's readers join, the others do not.
spin_read_swapped(s, t, a, L) ==
  LET lk == lookup_or_create(s, a)
      has_VTS == s.sv[a] # New
  IN [s EXCEPT
        !.spin[a] = [lk EXCEPT !.sp = L],
        !.sv[a] = mk_SpinVar(IF has_VTS THEN @.v ELSE s.vid[t]),
        !.vid[t] = IF lk.wasALock /\ has_VTS THEN @ \cup s.sv[a].v ELSE @]

\* msm_read in a spinning instruction, with HG_(onSpinRead).
spin_read(s, t, a, L) ==
  LET lk == lookup_or_create(s, a)
      has_VTS == s.sv[a] # New
  IN [s EXCEPT
        !.spin[a] = [lk EXCEPT !.sp = L],
        !.sv[a] = mk_SpinVar(IF has_VTS THEN @.v ELSE s.vid[t]),
        !.vid[t] = IF ~lk.wasALock /\ has_VTS THEN @ \cup s.sv[a].v ELSE @]

----------------------------------------------------------------------------
(* The instrumented client *)

MayLoop(t, a) == at[t] \in {Idle, [a |-> a, got |-> FALSE]}

\* A winner that has not left its loop yet.
Overlaps(a) == \E u \in Thr : at[u] = [a |-> a, got |-> TRUE]

\* An atomic test-and-set in a loop: start_spin_reading, read, write, stop.
TestAndSet(t, a) ==
  LET L == loopOf[a]
  IN /\ role[a] = "lock" /\ val[a] # t /\ MayLoop(t, a)
     /\ SetTool(msm_write(spin_read(Tool, t, a, L), t, a, L, TRUE, TRUE))
     /\ lastSpin' = [lastSpin EXCEPT ![t] = L]
     /\ val' = [val EXCEPT ![a] = IF @ = None THEN t ELSE @]
     /\ at' = [at EXCEPT ![t] = [a |-> a, got |-> val[a] = None]]
     /\ blame' = [blame EXCEPT ![a] = @
          \cup (IF Overlaps(a) THEN {"overlap"} ELSE {})
          \cup (IF L = EmptyLoop /\ val[a] # None THEN {"empty"} ELSE {})]
     /\ UNCHANGED <<role, loopOf>>

\* A reading loop: in front of a test-and-set, or waiting for a flag.
SpinTest(t, a) ==
  /\ val[a] # t \/ role[a] = "flag"
  /\ MayLoop(t, a)
  /\ SetTool(spin_read(Tool, t, a, loopOf[a]))
  /\ lastSpin' = [lastSpin EXCEPT ![t] = loopOf[a]]
  /\ at' = [at EXCEPT ![t] = [a |-> a, got |-> role[a] = "flag" /\ val[a] # None]]
  /\ UNCHANGED <<role, val, loopOf, blame>>

\* spin_follow_exitif: t leaves its loop, with what it waited for or not.  A
\* loop without code block has no exit that the tool sees.
ExitLoop(t) ==
  LET a == at[t].a
      L == loopOf[a]
  IN /\ at[t] # Idle
     /\ IF L = EmptyLoop THEN SetTool(Tool) /\ UNCHANGED lastSpin
        ELSE /\ SetTool(onExitSpinLoop(Tool, t, L, FALSE))
             /\ lastSpin' = [lastSpin EXCEPT ![t] = None]
     /\ at' = [at EXCEPT ![t] = Idle]
     /\ blame' = IF at[t].got THEN blame ELSE [blame EXCEPT ![a] = @ \cup {"gaveUp"}]
     /\ UNCHANGED <<role, val, loopOf>>

\* t leaves its loop by a return or a call, which is not instrumented.
ReturnFromLoop(t) ==
  /\ at[t] # Idle /\ loopOf[at[t].a] # EmptyLoop
  /\ at' = [at EXCEPT ![t] = Idle]
  /\ blame' = [a \in Addr |-> blame[a] \cup {"return"}]
  /\ UNCHANGED <<role, val, loopOf, lastSpin, map_spin_locks, map_locks, locksetA, sv, vid>>

\* The holder unlocks, by a plain or by an atomic write.
Unlock(t, a, atomic) ==
  /\ role[a] = "lock" /\ val[a] = t /\ at[t] = Idle
  /\ SetTool(msm_write(Tool, t, a, lastSpin[t], atomic, FALSE))
  /\ val' = [val EXCEPT ![a] = None]
  /\ UNCHANGED <<role, at, loopOf, lastSpin, blame>>

\* t sets the flag a after some work, which is the element a of timestamps.
SetFlag(t, a) ==
  /\ role[a] = "flag" /\ val[a] = None /\ at[t] = Idle
  /\ SetTool(msm_write([Tool EXCEPT !.vid[t] = @ \cup {a}], t, a, lastSpin[t], FALSE, FALSE))
  /\ val' = [val EXCEPT ![a] = t]
  /\ UNCHANGED <<role, at, loopOf, lastSpin, blame>>

\* The mutex, seen by its effect on the locksets.
LockMutex(t) ==
  /\ at[t] = Idle /\ \A u \in Thr : Mutex \notin locksetA[u]
  /\ locksetA' = [locksetA EXCEPT ![t] = @ \cup {Mutex}]
  /\ UNCHANGED <<role, val, at, loopOf, lastSpin, map_spin_locks, map_locks, sv, vid, blame>>

UnlockMutex(t) ==
  /\ at[t] = Idle /\ Mutex \in locksetA[t]
  /\ locksetA' = [locksetA EXCEPT ![t] = @ \ {Mutex}]
  /\ UNCHANGED <<role, val, at, loopOf, lastSpin, map_spin_locks, map_locks, sv, vid, blame>>

\* The memory is freed and serves as another variable: the shadow values are
\* new, the records stay.
ReuseMemory(a, r) ==
  /\ role[a] = "lock" => val[a] = None
  /\ \A t \in Thr : at[t].a # a
  /\ role' = [role EXCEPT ![a] = r]
  /\ val' = [val EXCEPT ![a] = None]
  /\ sv' = [sv EXCEPT ![a] = New]
  /\ vid' = [t \in Thr |-> vid[t] \ {a}]
  /\ blame' = [blame EXCEPT ![a] = @ \cup {"reused"}]
  /\ UNCHANGED <<at, loopOf, lastSpin, map_spin_locks, map_locks, locksetA>>

\* Mutant: the record keeps the lock, map_locks does not.
DropHeld_half(s, t, a) ==
  IF s.spin[a] # None /\ s.spin[a].sLk.heldBy[t] > 0 THEN releases(s, t, a) ELSE s

\* What mutex_detect_exitThread does to one record.
DropHeld(s, t, a) ==
  IF s.spin[a] # None /\ s.spin[a].sLk.heldBy[t] > 0 THEN DropSpinLock(s, t, a) ELSE s

mutex_detect_exitThread(s, t) ==
  LET upTo[n \in 0 .. NAddr] == IF n = 0 THEN s ELSE DropHeld(upTo[n - 1], t, n)
  IN upTo[NAddr]

\* A thread exits without locks of the client's, and a new thread gets its
\* ThreadId.
ExitThread(t) ==
  LET s == mutex_detect_exitThread(Tool, t)
  IN /\ at[t] = Idle /\ Mutex \notin locksetA[t]
     /\ \A a \in Addr : role[a] = "lock" => val[a] # t
     /\ SetTool([s EXCEPT !.vid[t] = {}])
     /\ UNCHANGED <<role, val, at, loopOf, lastSpin, blame>>

\* What the threads in T do to the variables in A.
Steps(T, A) ==
  \/ \E t \in T : ExitLoop(t) \/ ReturnFromLoop(t) \/ ExitThread(t)
                  \/ LockMutex(t) \/ UnlockMutex(t)
  \/ \E t \in T, a \in A : TestAndSet(t, a) \/ SpinTest(t, a) \/ SetFlag(t, a)
  \/ \E t \in T, a \in A, atomic \in BOOLEAN : Unlock(t, a, atomic)
  \/ \E a \in A, r \in {"lock", "flag"} : ReuseMemory(a, r)

SpinNext == Steps(Thr, Addr)

SpinSpec == SpinInit /\ [][SpinNext]_spinVars

----------------------------------------------------------------------------
(* Properties *)

\* Type invariant.
SpinTypeOK ==
  /\ role \in [Addr -> {"lock", "flag"}] /\ val \in [Addr -> Maybe(Thr)]
  /\ at \in [Thr -> [a : Addr \cup {0}, got : BOOLEAN]]
  /\ loopOf \in [Addr -> Loop] /\ lastSpin \in [Thr -> Maybe(Loop)]
  /\ map_spin_locks \in [Addr -> Maybe(SpinRecord)]
  /\ map_locks \in [Addr -> Maybe(LockRecord)]
  /\ locksetA \in [Thr -> SUBSET (Addr \cup {Mutex})]
  /\ sv \in [Addr -> [st : {"New", "ExclW", "SpinVar"}, v : SUBSET Addr]]
  /\ vid \in [Thr -> SUBSET Addr]
  /\ blame \in [Addr -> SUBSET {"overlap", "empty", "gaveUp", "return", "reused"}]

\* The three places that say who holds a spin lock agree: the record of the
\* spin lock, the lock in map_locks and the lockset the race checker reads.
RecordsAgree ==
  \A a \in Addr, t \in Thr :
    LET inSpin == IF map_spin_locks[a] = None THEN 0 ELSE map_spin_locks[a].sLk.heldBy[t]
        inLock == IF map_locks[a] = None THEN 0 ELSE map_locks[a].heldBy[t]
    IN inSpin = inLock /\ (a \in locksetA[t] <=> inLock > 0)

\* The race checker takes a lock for held only while the client holds it,
\* unless a thread gave up waiting for it, left a loop by a return, or lost
\* the lock in a loop without code block.  Two attempts that overlap, and a
\* reused record, cannot lead to that.
HoldIsReal ==
  \A a \in Addr, t \in Thr :
    a \in locksetA[t] => val[a] = t \/ blame[a] \cap {"gaveUp", "return", "empty"} # {}

\* A client that has its lock and has left the loop is known to hold it, as
\* long as none of the five things has happened to this lock.
AcquisitionIsSeen ==
  \A a \in Addr, t \in Thr :
    role[a] = "lock" /\ val[a] = t /\ at[t] = Idle => a \in locksetA[t] \/ blame[a] # {}

\* A thread that has waited for a flag in a spin loop is ordered after the
\* thread that set it, unless a loop was left by a return (the next write to
\* the flag looks like an attempt to lock it) or the flag's memory has been
\* used before.
FlagHandsOver ==
  \A a \in Addr, t \in Thr :
    role[a] = "flag" /\ at[t] = [a |-> a, got |-> TRUE]
      => a \in vid[t] \/ blame[a] \cap {"return", "reused"} # {}

VerdictStays ==
  \A a \in Addr : Invalidated(map_spin_locks[a]) => Invalidated(map_spin_locks'[a])

\* Once a variable has been written outside spin loops by a thread that did
\* not hold it, it never counts as a lock again: nothing resets the two fields
\* lastReleaseWriter and wasReleasedBefore to an acceptable pair.
NotALockIsFinal == [][VerdictStays]_spinVars
=============================================================================
