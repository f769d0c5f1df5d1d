------------------------------ MODULE MsmUkal ------------------------------
(***************************************************************************)
(* The memory state machine of helgrind-ukal (libhb_ukal_sval.h,           *)
(* libhb_ukal_core.h), made for long runs: a first violation of the        *)
(* locking discipline is forgiven and puts the location in ExclRW, only a  *)
(* second one (from ExclRW or ShM2) is reported.                           *)
(*                                                                         *)
(* SVal__mk_ShM leaves the VtsID out of the shadow value, so a location in *)
(* ShM carries VtsID 0, which is the root thread's first timestamp for as  *)
(* long as no garbage collection frees it.  This module describes a run up *)
(* to there; VtsTabUkal shows what follows.                                *)
(***************************************************************************)
EXTENDS MsmHist

VARIABLE sv      \* sv[x]: the shadow value of location x

vars == <<clk, soLive, soClk, locksetA, locksetW, hist, race, lastW, hbRace, sv>>

SVal == [st : {"New", "NoAccess", "Race", "ExclW", "ExclR", "ExclRW",
               "ShR", "ShM", "ShM2", "SpinVar"},
         v  : VTS, ls : SUBSET Lock]

Plain(st)     == [st |-> st, v |-> ZeroVTS, ls |-> {}]
mk_New        == Plain("New")
mk_NoAccess   == Plain("NoAccess")
mk_Race       == Plain("Race")
mk_ExclW(v)   == [st |-> "ExclW", v |-> v, ls |-> {}]
mk_ExclR(v)   == [st |-> "ExclR", v |-> v, ls |-> {}]
mk_ExclRW(v)  == [st |-> "ExclRW", v |-> v, ls |-> {}]
mk_SpinVar(v) == [st |-> "SpinVar", v |-> v, ls |-> {}]
mk_ShR(v, ls)  == [st |-> "ShR", v |-> v, ls |-> ls]
mk_ShM2(v, ls) == [st |-> "ShM2", v |-> v, ls |-> ls]
\* The VTS argument is dropped: VtsID 0.
mk_ShM(v, ls)  == [st |-> "ShM", v |-> VTS__singleton(Root, 1), ls |-> ls]

has_VTS(s) ==
  s.st \in {"ExclW", "ExclR", "ExclRW", "ShR", "ShM", "ShM2", "SpinVar"}

\* Mutant: an access in the same segment counts as unordered.
Ordered_strict(s, tv) == VTS__cmp(s.v, tv) = "LT"

\* ord == POrd_EQ || ord == POrd_LT
Ordered(s, tv) == VTS__cmp(s.v, tv) \in {"EQ", "LT"}

\* Mutant: the location leaves ShM with the timestamp it had there.
ReadState_oldVTS(s, tv, A) ==
  CASE s.st = "ExclW" ->
         IF Ordered(s, tv) THEN mk_ExclR(tv)
         ELSE IF A = {} THEN mk_Race ELSE mk_ShM(s.v, A)
    [] s.st = "ShM" ->
         IF s.ls \cap A = {} THEN mk_ExclRW(s.v) ELSE mk_ShM(tv, s.ls \cap A)
    [] OTHER -> s

\* The new shadow value after an ordinary read by a thread with timestamp tv
\* and lockset A, state by state.
ReadState(s, tv, A) ==
  CASE s.st = "ExclW" ->
         IF Ordered(s, tv) THEN mk_ExclR(tv)
         ELSE IF A = {} THEN mk_Race ELSE mk_ShM(s.v, A)
    [] s.st = "ExclR" ->
         IF Ordered(s, tv) THEN mk_ExclR(tv) ELSE mk_ShR(s.v, A)
    [] s.st = "ExclRW" ->
         IF Ordered(s, tv) THEN mk_ShR(s.v, A) ELSE mk_ShM2(s.v, A)
    [] s.st = "ShR" -> mk_ShR(s.v, s.ls \cap A)
    [] s.st = "ShM" ->
         IF s.ls \cap A = {} THEN mk_ExclRW(tv) ELSE mk_ShM(tv, s.ls \cap A)
    [] s.st = "ShM2" ->
         IF s.ls \cap A # {} THEN mk_ShM2(tv, s.ls \cap A)
         ELSE IF Ordered(s, tv) THEN mk_ExclRW(tv) ELSE mk_Race
    [] s.st = "New" -> mk_ExclR(tv)
    [] OTHER -> s

\* A spinning read makes any location a spin variable; an atomic access
\* leaves anything but a spin variable alone.
msm_read(s, tv, A, spin, atomic) ==
  IF spin THEN mk_SpinVar(IF has_VTS(s) THEN s.v ELSE tv)
  ELSE IF atomic /\ s.st # "SpinVar" THEN s
  ELSE ReadState(s, tv, A)

\* The reader's timestamp afterwards: a spin variable hands over its own.
msm_read_vid(s, tv, spin) ==
  IF s.st = "SpinVar" \/ (spin /\ has_VTS(s)) THEN VTS__join(tv, s.v) ELSE tv

\* The new shadow value after a write, W the locks held for writing.
WriteState(s, tv, W) ==
  CASE s.st = "New" -> mk_ExclW(tv)
    [] s.st \in {"ExclW", "ExclR"} ->
         IF Ordered(s, tv) THEN mk_ExclW(tv)
         ELSE IF W = {} THEN mk_Race ELSE mk_ShM(s.v, W)
    [] s.st = "ExclRW" ->
         IF Ordered(s, tv) THEN mk_ExclRW(tv)
         ELSE IF W = {} THEN mk_Race ELSE mk_ShM2(s.v, W)
    [] s.st = "ShR" ->
         IF s.ls \cap W = {} THEN mk_ExclRW(tv) ELSE mk_ShM(s.v, s.ls \cap W)
    [] s.st = "ShM" ->
         IF s.ls \cap W = {} THEN mk_ExclRW(tv) ELSE mk_ShM(tv, s.ls \cap W)
    [] s.st = "ShM2" ->
         IF s.ls \cap W # {} THEN mk_ShM2(tv, s.ls \cap W)
         ELSE IF Ordered(s, tv) THEN mk_ExclRW(tv) ELSE mk_Race
    [] s.st = "SpinVar" -> mk_SpinVar(tv)
    [] OTHER -> s

msm_write(s, tv, W, atomic) ==
  IF atomic /\ s.st # "SpinVar" THEN s ELSE WriteState(s, tv, W)

----------------------------------------------------------------------------
Init == EnvInit /\ HistInit /\ sv = [x \in Loc |-> mk_New]

EntersRace(x, new) == new.st = "Race" /\ sv[x].st # "Race"

\* Mutant: a read counts under the locks held for writing only.
Read_wLocks(t, x, kind) ==
  LET new == msm_read(sv[x], clk[t], locksetW[t], FALSE, FALSE)
  IN /\ Created(t) /\ kind = "plain"
     /\ sv' = [sv EXCEPT ![x] = new]
     /\ clk' = [clk EXCEPT ![t] = msm_read_vid(sv[x], clk[t], FALSE)]
     /\ Report(x, t, FALSE, EntersRace(x, new))
     /\ Note(x, t, FALSE)
     /\ UNCHANGED <<soLive, soClk>> /\ NoLockChange

Read(t, x, kind) ==
  LET spin == kind = "spin"
      atomic == kind = "atomic"
      new == msm_read(sv[x], clk[t], locksetA[t], spin, atomic)
  IN /\ Created(t)
     /\ sv' = [sv EXCEPT ![x] = new]
     /\ clk' = [clk EXCEPT ![t] = msm_read_vid(sv[x], clk[t], spin)]
     /\ Report(x, t, FALSE, EntersRace(x, new))
     /\ IF spin \/ atomic THEN UNCHANGED <<hist, hbRace, lastW>>
                          ELSE Note(x, t, FALSE)
     /\ UNCHANGED <<soLive, soClk>> /\ NoLockChange

Write(t, x, kind) ==
  LET atomic == kind = "atomic"
      new == msm_write(sv[x], clk[t], locksetW[t], atomic)
      ticks == sv[x].st = "SpinVar"
  IN /\ Created(t)
     /\ ticks => MayTick(t)
     /\ sv' = [sv EXCEPT ![x] = new]
     /\ clk' = IF ticks THEN [clk EXCEPT ![t] = VTS__tick(t, @)] ELSE clk
     /\ Report(x, t, TRUE, EntersRace(x, new))
     /\ IF atomic THEN UNCHANGED <<hist, hbRace, lastW>> ELSE Note(x, t, TRUE)
     /\ UNCHANGED <<soLive, soClk>> /\ NoLockChange

\* libhb_range_new and libhb_range_noaccess: the location starts anew.
Reset(x, new) ==
  /\ sv' = [sv EXCEPT ![x] = new]
  /\ Forget(x)
  /\ UNCHANGED envVars

Next ==
  \/ EnvNext /\ UNCHANGED <<histVars, sv>>
  \/ \E t \in Thr, x \in Loc, k \in Kind : Read(t, x, k)
  \/ \E t \in Thr, x \in Loc, k \in Kind \ {"spin"} : Write(t, x, k)
  \/ \E x \in Loc : Reset(x, mk_New) \/ Reset(x, mk_NoAccess)

Spec == Init /\ [][Next]_vars

----------------------------------------------------------------------------
(* Properties *)

\* Type invariant.
TypeOK == EnvTypeOK /\ HistTypeOK /\ sv \in [Loc -> SVal]

\* A location that was forgiven once (ExclRW, ShM2) is judged by an access that
\* was really made: its timestamp never is the VtsID 0 of an ShM shadow value
\* on its way, nor that of a spin variable.
SecondChanceIsReal ==
  \A x \in Loc : sv[x].st \in {"ExclRW", "ShM2"} =>
    \E a \in hist[x] : a.v = sv[x].v

=============================================================================
