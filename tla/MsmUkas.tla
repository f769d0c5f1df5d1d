------------------------------ MODULE MsmUkas ------------------------------
(***************************************************************************)
(* The memory state machine of helgrind-ukas (libhb_ukas_sval.h,           *)
(* libhb_ukas_core.h): a hybrid of happens-before and locksets, with       *)
(* spin variables as an additional source of happens-before.               *)
(*                                                                         *)
(* A shadow value is a state with a timestamp and a lockset; the states    *)
(* that carry none have ZeroVTS or {} there.  The detector's verdict is    *)
(* the transition to state Race, which is where record_race_info is called.*)
(***************************************************************************)
EXTENDS MsmHist

VARIABLE sv      \* sv[x]: the shadow value of location x

vars == <<clk, soLive, soClk, locksetA, locksetW, hist, race, lastW, hbRace, sv>>

SVal == [st : {"New", "NoAccess", "Race", "ExclW", "ExclR", "ShR", "ShM", "SpinVar"},
         v  : VTS, ls : SUBSET Lock]

Plain(st)    == [st |-> st, v |-> ZeroVTS, ls |-> {}]
mk_New       == Plain("New")
mk_NoAccess  == Plain("NoAccess")
mk_Race      == Plain("Race")
mk_ExclW(v)  == [st |-> "ExclW", v |-> v, ls |-> {}]
mk_ExclR(v)  == [st |-> "ExclR", v |-> v, ls |-> {}]
mk_SpinVar(v) == [st |-> "SpinVar", v |-> v, ls |-> {}]
mk_ShR(v, ls) == [st |-> "ShR", v |-> v, ls |-> ls]
mk_ShM(v, ls) == [st |-> "ShM", v |-> v, ls |-> ls]

has_VTS(s) == s.st \in {"ExclW", "ExclR", "ShR", "ShM", "SpinVar"}

\* Mutant: an access in the same segment counts as unordered.
Ordered_strict(s, tv) == VTS__cmp(s.v, tv) = "LT"

\* ord == POrd_EQ || ord == POrd_LT
Ordered(s, tv) == VTS__cmp(s.v, tv) \in {"EQ", "LT"}

\* The new shadow value after an ordinary read by a thread with timestamp tv
\* and lockset A, state by state.
ReadState(s, tv, A) ==
  CASE s.st = "ExclW" ->
         IF Ordered(s, tv) THEN mk_ExclR(tv)
         ELSE IF A = {} THEN mk_Race ELSE mk_ShM(s.v, A)
    [] s.st = "ExclR" ->
         IF Ordered(s, tv) THEN mk_ExclR(tv) ELSE mk_ShR(s.v, A)
    [] s.st = "ShR" -> mk_ShR(s.v, s.ls \cap A)
    [] s.st = "ShM" ->
         IF s.ls \cap A # {} THEN mk_ShM(tv, s.ls \cap A)
         ELSE IF Ordered(s, tv) THEN mk_ExclR(tv) ELSE mk_Race
    [] s.st = "New" -> mk_ExclR(tv)
    [] OTHER -> s

\* A spinning read makes any location a spin variable; an atomic access
\* leaves anything but a spin variable alone.
msm_read(s, tv, A, spin, atomic) ==
  IF spin THEN mk_SpinVar(IF has_VTS(s) THEN s.v ELSE tv)
  ELSE IF atomic /\ s.st # "SpinVar" THEN s
  ELSE ReadState(s, tv, A)

\* Mutant: the spin variable's timestamp replaces the reader's.
msm_read_vid_replace(s, tv, spin, isLock) ==
  IF \/ spin /\ ~isLock /\ has_VTS(s)
     \/ ~spin /\ s.st = "SpinVar"
    THEN s.v ELSE tv

\* The reader's timestamp afterwards: a spin variable hands over its own,
\* unless the variable was recognised as a lock (HG_(onSpinRead)).
msm_read_vid(s, tv, spin, isLock) ==
  IF \/ spin /\ ~isLock /\ has_VTS(s)
     \/ ~spin /\ s.st = "SpinVar"
    THEN VTS__join(tv, s.v) ELSE tv

\* Mutant: an ordered write to a shared location keeps the old timestamp.
WriteState_oldVTS(s, tv, W) ==
  CASE s.st = "New" -> mk_ExclW(tv)
    [] s.st \in {"ExclW", "ExclR"} ->
         IF Ordered(s, tv) THEN mk_ExclW(tv)
         ELSE IF W = {} THEN mk_Race ELSE mk_ShM(s.v, W)
    [] s.st \in {"ShR", "ShM"} ->
         IF s.ls \cap W # {} \/ Ordered(s, tv) THEN mk_ShM(s.v, s.ls \cap W)
         ELSE mk_Race
    [] OTHER -> s

\* The new shadow value after an ordinary write, W the locks held for writing.
WriteState(s, tv, W) ==
  CASE s.st = "New" -> mk_ExclW(tv)
    [] s.st \in {"ExclW", "ExclR"} ->
         IF Ordered(s, tv) THEN mk_ExclW(tv)
         ELSE IF W = {} THEN mk_Race ELSE mk_ShM(s.v, W)
    [] s.st = "ShR" ->
         IF s.ls \cap W # {} THEN mk_ShM(s.v, s.ls \cap W)
         ELSE IF Ordered(s, tv) THEN mk_ShM(tv, {}) ELSE mk_Race
    [] s.st = "ShM" ->
         IF s.ls \cap W # {} THEN mk_ShM(tv, s.ls \cap W)
         ELSE IF Ordered(s, tv) THEN mk_ExclW(tv) ELSE mk_Race
    [] OTHER -> s

\* A spin variable takes the writer's timestamp and the writer moves along,
\* unless the write released a recognised lock (HG_(onSpinWrite)).
msm_write(s, tv, W, atomic, isLock) ==
  IF s.st = "SpinVar" THEN IF isLock THEN s ELSE mk_SpinVar(tv)
  ELSE IF atomic THEN s
  ELSE WriteState(s, tv, W)

WriteTicks(s, isLock) == s.st = "SpinVar" /\ ~isLock

----------------------------------------------------------------------------
Init == EnvInit /\ HistInit /\ sv = [x \in Loc |-> mk_New]

EntersRace(x, new) == new.st = "Race" /\ sv[x].st # "Race"

\* Mutant: a read counts under the locks held for writing only.
Read_wLocks(t, x, kind) ==
  LET new == msm_read(sv[x], clk[t], locksetW[t], FALSE, FALSE)
  IN /\ Created(t) /\ kind = "plain"
     /\ sv' = [sv EXCEPT ![x] = new]
     /\ clk' = [clk EXCEPT ![t] = msm_read_vid(sv[x], clk[t], FALSE, FALSE)]
     /\ Report(x, t, FALSE, EntersRace(x, new))
     /\ Note(x, t, FALSE)
     /\ UNCHANGED <<soLive, soClk>> /\ NoLockChange

Read(t, x, kind) ==
  LET spin == kind \in {"spin", "spinlock"}
      atomic == kind = "atomic"
      isLock == kind = "spinlock"
      new == msm_read(sv[x], clk[t], locksetA[t], spin, atomic)
  IN /\ Created(t)
     /\ sv' = [sv EXCEPT ![x] = new]
     /\ clk' = [clk EXCEPT ![t] = msm_read_vid(sv[x], clk[t], spin, isLock)]
     /\ Report(x, t, FALSE, EntersRace(x, new))
     /\ IF spin \/ atomic THEN UNCHANGED <<hist, hbRace, lastW>>
                          ELSE Note(x, t, FALSE)
     /\ UNCHANGED <<soLive, soClk>> /\ NoLockChange

\* HG_(onSpinWrite), as far as locksets go.  The lock that was detected at
\* location x is x itself.  The write releases it or, being atomic, takes it;
\* or it shows that x is no lock, and the thread that was believed to hold it
\* loses it.
onSpinWrite(t, x, isLock) ==
  \/ NoLockChange
  \/ isLock /\ x \in Lock /\ x \in locksetW[t] /\ SetHeld(t, x, FALSE)
  \/ isLock /\ x \in Lock /\ (\A u \in Thr : x \notin locksetA[u]) /\ SetHeld(t, x, TRUE)
  \/ ~isLock /\ x \in Lock /\ \E u \in Thr \ {t} : x \in locksetW[u] /\ SetHeld(u, x, FALSE)

Write(t, x, kind) ==
  LET atomic == kind = "atomic"
      isLock == kind = "spinlock"
      new == msm_write(sv[x], clk[t], locksetW[t], atomic, isLock)
      ticks == WriteTicks(sv[x], isLock)
  IN /\ Created(t)
     /\ ticks => MayTick(t)
     /\ sv' = [sv EXCEPT ![x] = new]
     /\ clk' = IF ticks THEN [clk EXCEPT ![t] = VTS__tick(t, @)] ELSE clk
     /\ Report(x, t, TRUE, EntersRace(x, new))
     /\ IF atomic THEN UNCHANGED <<hist, hbRace, lastW>> ELSE Note(x, t, TRUE)
     /\ IF sv[x].st = "SpinVar" THEN onSpinWrite(t, x, isLock) ELSE NoLockChange
     /\ UNCHANGED <<soLive, soClk>>

\* libhb_range_new and libhb_range_noaccess: the location starts anew.
Reset(x, new) ==
  /\ sv' = [sv EXCEPT ![x] = new]
  /\ Forget(x)
  /\ UNCHANGED envVars

Next ==
  \/ EnvNext /\ UNCHANGED <<histVars, sv>>
  \/ \E t \in Thr, x \in Loc, k \in Kind : Read(t, x, k)
  \/ \E t \in Thr, x \in Loc, k \in Kind \ {"spin"} : Write(t, x, k)
  \/ \E x \in Loc : Reset(x, mk_New) \/ Reset(x, mk_NoAccess)

Spec == Init /\ [][Next]_vars

----------------------------------------------------------------------------
(* Properties *)

\* Type invariant.
TypeOK == EnvTypeOK /\ HistTypeOK /\ sv \in [Loc -> SVal]

\* The one timestamp a location keeps covers its last write as long as no
\* lock is involved: a write that is unordered with the last one then cannot
\* pass for an ordered one.
LastWriteCovered ==
  \A x \in Loc :
    LockFree(x) /\ sv[x].st \in {"ExclW", "ExclR", "ShR", "ShM"}
      => VTS__leq(lastW[x], sv[x].v)

\* The state machine moves timestamps in no other way than LibhbClocks says,
\* so what VtsTab shows for those operations holds for this machine.
Clocks == INSTANCE LibhbClocks WITH
  Cell <- Loc,
  cell <- [x \in Loc |-> IF has_VTS(sv[x]) THEN sv[x].v ELSE NoVTS]
UsesClocks == Clocks!ClocksSpec

=============================================================================
