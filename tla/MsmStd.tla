------------------------------- MODULE MsmStd -------------------------------
(***************************************************************************)
(* The memory state machine of the standard tool (libhb_core.c, "Core      *)
(* MSM"): pure happens-before.  A location carries two constraints, the    *)
(* timestamps that a reader (r) and a writer (w) must be ordered after.    *)
(*                                                                         *)
(* The thread's viR and viW are one timestamp here: they only differ when  *)
(* locks induce happens-before, and LIBHB_LOCK_INCUDED_HB is not defined.  *)
(* MSM_RACE2ERR is 0, so state E is never entered.                         *)
(***************************************************************************)
EXTENDS MsmHist

VARIABLE sv      \* sv[x]: the shadow value of location x

vars == <<clk, soLive, soClk, locksetA, locksetW, hist, race, lastW, hbRace, sv>>

SVal == [st : {"C", "A"}, r : VTS, w : VTS]

SVal__mkC(rmin, wmin) == [st |-> "C", r |-> rmin, w |-> wmin]
SVal__mkA == [st |-> "A", r |-> ZeroVTS, w |-> ZeroVTS]

\* ord == POrd_EQ || ord == POrd_LT
Before(a, b) == VTS__cmp(a, b) \in {"EQ", "LT"}

\* A read must be ordered after rmin, a write after wmin.
ReadRaces(s, tv)  == s.st = "C" /\ ~Before(s.r, tv)
WriteRaces(s, tv) == s.st = "C" /\ ~Before(s.w, tv)

\* Mutant: a race forgets what was there before, as a write without race does.
Raced_forget(s, tv) == SVal__mkC(tv, tv)

\* The constraints after a race.
Raced(s, tv) == SVal__mkC(VTS__join(s.r, tv), VTS__join(s.w, tv))

\* Mutant: a read replaces the writers' constraint.
msm_read_replace(s, tv) ==
  IF s.st = "A" THEN s
  ELSE IF ReadRaces(s, tv) THEN Raced(s, tv)
  ELSE SVal__mkC(s.r, tv)

msm_read(s, tv) ==
  IF s.st = "A" THEN s
  ELSE IF ReadRaces(s, tv) THEN Raced(s, tv)
  ELSE SVal__mkC(s.r, VTS__join(s.w, tv))

msm_write(s, tv) ==
  IF s.st = "A" THEN s
  ELSE IF WriteRaces(s, tv) THEN Raced(s, tv)
  ELSE SVal__mkC(tv, tv)

----------------------------------------------------------------------------
Init == EnvInit /\ HistInit /\ sv = [x \in Loc |-> SVal__mkA]

\* Accesses to memory that is not allocated are nobody's business.
Judge(x, t, w) ==
  IF sv[x].st = "A" THEN UNCHANGED <<hist, hbRace, lastW>> ELSE Note(x, t, w)

Read(t, x) ==
  /\ Created(t)
  /\ sv' = [sv EXCEPT ![x] = msm_read(@, clk[t])]
  /\ Report(x, t, FALSE, ReadRaces(sv[x], clk[t]))
  /\ Judge(x, t, FALSE)
  /\ UNCHANGED envVars

Write(t, x) ==
  /\ Created(t)
  /\ sv' = [sv EXCEPT ![x] = msm_write(@, clk[t])]
  /\ Report(x, t, TRUE, WriteRaces(sv[x], clk[t]))
  /\ Judge(x, t, TRUE)
  /\ UNCHANGED envVars

\* Allocation constrains a location like a write of the allocating thread.
libhb_range_new(t, x) ==
  /\ Created(t)
  /\ sv' = [sv EXCEPT ![x] = SVal__mkC(clk[t], clk[t])]
  /\ hist' = [hist EXCEPT ![x] = {AccessRec(t, TRUE)}]
  /\ race' = [race EXCEPT ![x] = NoRace]
  /\ lastW' = [lastW EXCEPT ![x] = clk[t]]
  /\ hbRace' = [hbRace EXCEPT ![x] = FALSE]
  /\ UNCHANGED envVars

libhb_range_noaccess(x) ==
  /\ sv' = [sv EXCEPT ![x] = SVal__mkA]
  /\ Forget(x)
  /\ UNCHANGED envVars

Next ==
  \/ EnvNext /\ UNCHANGED <<histVars, sv>>
  \/ \E t \in Thr, x \in Loc : Read(t, x) \/ Write(t, x) \/ libhb_range_new(t, x)
  \/ \E x \in Loc : libhb_range_noaccess(x)

Spec == Init /\ [][Next]_vars

----------------------------------------------------------------------------
(* Properties *)

\* Type invariant.
TypeOK == EnvTypeOK /\ HistTypeOK /\ sv \in [Loc -> SVal]

\* is_sane_SVal_C, which both handlers assert when they have found a race: a
\* writer is never constrained less than a reader.
ConstraintsSane ==
  \A x \in Loc : sv[x].st = "C" => VTS__leq(sv[x].r, sv[x].w)

\* Two timestamps are enough to be exact: a location is reported if and only
\* if some access to it was not ordered after an earlier conflicting access
\* of another thread, allocation counting as a write.
FirstRaceExact == \A x \in Loc : hbRace[x] <=> race[x] # NoRace

\* The constraints that a race leaves behind (libhb_core.c:3727, 3808) still do
\* their work: whatever raced before, a write is reported exactly if an access
\* of another thread does not happen before it; a read is reported if a write
\* does not, and never when all accesses do.  Two reads may be reported after
\* a race, because a racing read constrains later readers too.
LaterRacesFound ==
  \A x \in Loc, t \in Thr : Created(t) /\ sv[x].st = "C" =>
    LET unordered == {a \in hist[x] : a.thr # t /\ ~VTS__leq(a.v, clk[t])}
    IN /\ WriteRaces(sv[x], clk[t]) <=> unordered # {}
       /\ (\E a \in unordered : a.w) => ReadRaces(sv[x], clk[t])
       /\ ReadRaces(sv[x], clk[t]) => unordered # {}

=============================================================================
