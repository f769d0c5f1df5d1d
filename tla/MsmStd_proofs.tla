--------------------------- MODULE MsmStd_proofs ---------------------------
(***************************************************************************)
(* Proofs for MsmStd: the two constraints of the standard machine are as   *)
(* good as the whole history, for any number of threads, SOs and locations *)
(* and any length of the history.                                          *)
(***************************************************************************)
EXTENDS MsmStd, MsmHist_proofs

----------------------------------------------------------------------------
\* The test of the state machine is the order on timestamps.
LEMMA BeforeIsLeq == ASSUME NEW a, NEW b PROVE Before(a, b) <=> VTS__leq(a, b)
BY DEF Before, VTS__cmp

LEMMA JoinMonotone ==
  ASSUME NEW r \in VTS, NEW w \in VTS, NEW v \in VTS, VTS__leq(r, w)
  PROVE  /\ VTS__leq(r, VTS__join(w, v)) /\ VTS__leq(v, VTS__join(w, v))
         /\ VTS__leq(VTS__join(r, v), VTS__join(w, v))
BY DEF VTS, VTS__leq, VTS__join

\* Every step keeps the types, and no thread moves back.
LEMMA StdTypeStep == TypeOK /\ [Next]_vars => TypeOK' /\ Forward
<1> SUFFICES ASSUME TypeOK, [Next]_vars PROVE TypeOK' /\ Forward
  OBVIOUS
<1>1. CASE EnvNext /\ UNCHANGED <<histVars, sv>>
  BY <1>1, EnvStep DEF TypeOK, HistTypeOK, histVars
<1>2. CASE UNCHANGED vars
  BY <1>2, LeqRefl DEF vars, TypeOK, EnvTypeOK, HistTypeOK, Forward, Created
<1>3. CASE UNCHANGED envVars
  <2>1. EnvTypeOK' /\ Forward
    BY <1>3, LeqRefl DEF envVars, TypeOK, EnvTypeOK, Forward, Created
  <2>2. ASSUME NEW t \in Thr, NEW x \in Loc, Read(t, x) PROVE TypeOK'
    <3>1. clk[t] \in VTS /\ sv[x] \in SVal
      BY <2>2 DEF Read, Created, TypeOK, EnvTypeOK
    <3>2. msm_read(sv[x], clk[t]) \in SVal
      BY <3>1, JoinLemma DEF msm_read, Raced, SVal__mkC, SVal
    <3>3. ReadRaces(sv[x], clk[t]) \in BOOLEAN
      BY DEF ReadRaces
    <3>4. HistTypeOK'
      BY <2>2, <3>3, NoteType DEF Read, Judge, TypeOK
    <3> QED BY <2>1, <2>2, <3>2, <3>4 DEF Read, TypeOK
  <2>3. ASSUME NEW t \in Thr, NEW x \in Loc, Write(t, x) PROVE TypeOK'
    <3>1. clk[t] \in VTS /\ sv[x] \in SVal
      BY <2>3 DEF Write, Created, TypeOK, EnvTypeOK
    <3>2. msm_write(sv[x], clk[t]) \in SVal
      BY <3>1, JoinLemma DEF msm_write, Raced, SVal__mkC, SVal
    <3>3. WriteRaces(sv[x], clk[t]) \in BOOLEAN
      BY DEF WriteRaces
    <3>4. HistTypeOK'
      BY <2>3, <3>3, NoteType DEF Write, Judge, TypeOK
    <3> QED BY <2>1, <2>3, <3>2, <3>4 DEF Write, TypeOK
  <2>4. ASSUME NEW t \in Thr, NEW x \in Loc, libhb_range_new(t, x) PROVE TypeOK'
    <3>1. clk[t] \in VTS
      BY <2>4 DEF libhb_range_new, Created, TypeOK, EnvTypeOK
    <3>2. AccessRec(t, TRUE) \in AccessType
      BY <3>1 DEF AccessRec, AccessType, TypeOK, EnvTypeOK
    <3>3. DOMAIN hist' = Loc /\ \A y \in Loc : hist'[y] \subseteq AccessType
      BY <2>4, <3>2 DEF libhb_range_new, TypeOK, HistTypeOK
    <3>4. HistTypeOK'
      BY <2>4, <3>1, <3>3 DEF libhb_range_new, TypeOK, HistTypeOK
    <3> QED BY <2>1, <2>4, <3>1, <3>4 DEF libhb_range_new, TypeOK, SVal, SVal__mkC
  <2>5. ASSUME NEW x \in Loc, libhb_range_noaccess(x) PROVE TypeOK'
    <3>1. DOMAIN hist' = Loc /\ \A y \in Loc : hist'[y] \subseteq AccessType
      BY <2>5 DEF libhb_range_noaccess, Forget, TypeOK, HistTypeOK
    <3>2. HistTypeOK'
      BY <2>5, <3>1, ZeroType DEF libhb_range_noaccess, Forget, TypeOK, HistTypeOK
    <3> QED BY <2>1, <2>5, <3>2, ZeroType
        DEF libhb_range_noaccess, TypeOK, SVal, SVal__mkA
  <2> QED BY <2>1, <2>2, <2>3, <2>4, <2>5, <1>1, <1>2 DEF Next
<1> QED BY <1>1, <1>2, <1>3 DEF Next, Read, Write, libhb_range_new, libhb_range_noaccess

----------------------------------------------------------------------------
(* Exactness *)

\* The constraints summarise the history, whatever raced: w covers every
\* access and r every write, and each component of w comes from some access.
Summary(x) ==
  /\ \A a \in hist[x] : VTS__leq(a.v, sv[x].w) /\ (a.w => VTS__leq(a.v, sv[x].r))
  /\ \A u \in Thr : \E a \in hist[x] : sv[x].w[u] <= a.v[u]

\* As long as nothing raced, r is the timestamp of a write: after a race it may
\* come from a read.
WriterKnown(x) == \E a \in hist[x] : a.w /\ a.v = sv[x].r

\* The strengthening of FirstRaceExact and of LaterRacesFound.
Exact(x) ==
  /\ sv[x].st = "A" => ~hbRace[x] /\ race[x] = NoRace
  /\ sv[x].st = "C" => VTS__leq(sv[x].r, sv[x].w) /\ Summary(x)
  /\ sv[x].st = "C" /\ ~hbRace[x] => race[x] = NoRace /\ WriterKnown(x)
  /\ hbRace[x] => race[x] # NoRace

StdInv == HistPast /\ \A x \in Loc : Exact(x)

\* A read and a write of allocated memory in one form: s is the constraint
\* that the access must be ordered after.
AccessAt(t, x, w, s, new) ==
  /\ Created(t) /\ sv[x].st = "C"
  /\ sv' = [sv EXCEPT ![x] = new]
  /\ Report(x, t, w, ~VTS__leq(s, clk[t]))
  /\ Note(x, t, w)

LEMMA AccessExact ==
  ASSUME TypeOK, TypeOK', Forward, StdInv,
         NEW t \in Thr, NEW x \in Loc, NEW w \in BOOLEAN, NEW s, NEW new,
         s = IF w THEN sv[x].w ELSE sv[x].r,
         AccessAt(t, x, w, s, new),
         new = IF ~VTS__leq(s, clk[t]) THEN Raced(sv[x], clk[t])
               ELSE IF w THEN SVal__mkC(clk[t], clk[t])
               ELSE SVal__mkC(sv[x].r, VTS__join(sv[x].w, clk[t]))
  PROVE  StdInv'
<1> DEFINE a0 == AccessRec(t, w)
           tv == clk[t]
           r0 == sv[x].r
           w0 == sv[x].w
<1>1. /\ a0.thr = t /\ a0.v = tv /\ a0.w = w /\ tv \in VTS /\ Created(t)
      /\ sv[x].st = "C" /\ r0 \in VTS /\ w0 \in VTS /\ VTS__leq(r0, w0)
  BY DEF AccessRec, AccessAt, TypeOK, EnvTypeOK, Created, SVal, StdInv, Exact
<1>2. \A y \in Loc : y # x => /\ hist'[y] = hist[y] /\ race'[y] = race[y]
                              /\ sv'[y] = sv[y] /\ hbRace'[y] = hbRace[y]
  BY DEF AccessAt, Note, Report, TypeOK, HistTypeOK
<1>3. /\ sv'[x] = new /\ hist'[x] = hist[x] \cup {a0}
      /\ hbRace'[x] = (hbRace[x] \/ \E a \in hist[x] : Conflict(a, a0) /\ ~VTS__leq(a.v, tv))
  BY DEF AccessAt, Note, TypeOK, HistTypeOK
<1>4. race'[x] = IF VTS__leq(s, tv) THEN race[x] ELSE [thr |-> t, v |-> tv, w |-> w]
  BY DEF AccessAt, Report, TypeOK, HistTypeOK
<1>5. [thr |-> t, v |-> tv, w |-> w] # NoRace
  BY <1>1, NoRaceAssumption
<1>6. ASSUME NEW a \in hist[x], ~VTS__leq(a.v, tv) PROVE a.thr # t
  BY <1>6 DEF StdInv, HistPast
<1>7. HistPast'
  <2> SUFFICES ASSUME NEW y \in Loc, NEW a \in hist'[y]
               PROVE  Created(a.thr)' /\ VTS__leq(a.v, clk'[a.thr])
    BY DEF HistPast
  <2>1. CASE a \in hist[y]
    BY <2>1, PastStays DEF StdInv, TypeOK
  <2>2. CASE a = a0
    BY <2>2, <1>1 DEF Forward
  <2> QED BY <2>1, <2>2, <1>2, <1>3
<1>8. new.st = "C" /\ VTS__leq(new.r, new.w)
  BY <1>1, JoinMonotone, LeqRefl DEF Raced, SVal__mkC
<1>s. Summary(x)
  BY <1>1 DEF StdInv, Exact
\* What is below the constraint is below the access, if that does not race.
<1>b. ASSUME VTS__leq(s, tv), NEW a \in hist[x], w \/ a.w PROVE VTS__leq(a.v, tv)
  <2>1. a.v \in VTS
    BY DEF TypeOK, HistTypeOK, AccessType
  <2>2. VTS__leq(a.v, s) /\ s \in VTS
    BY <1>b, <1>s, <1>1 DEF Summary
  <2> QED BY <2>1, <2>2, <1>1, <1>b, LeqTrans
<1>c. Summary(x)'
  <2>1. CASE w /\ VTS__leq(s, tv)
    <3>1. new.r = tv /\ new.w = tv
      BY <2>1 DEF SVal__mkC
    <3>2. \A a \in hist'[x] : VTS__leq(a.v, tv)
      BY <2>1, <1>b, <1>1, <1>3, LeqRefl
    <3>3. \A u \in Thr : tv[u] <= a0.v[u]
      BY <1>1 DEF VTS
    <3>4. a0 \in hist'[x]
      BY <1>3
    <3> QED BY <3>1, <3>2, <3>3, <3>4, <1>3 DEF Summary
  <2>2. CASE ~(w /\ VTS__leq(s, tv))
    <3>1. /\ new.w = VTS__join(w0, tv)
          /\ new.r = VTS__join(r0, tv) \/ (~w /\ new.r = r0)
      BY <2>2 DEF Raced, SVal__mkC
    <3>2. ASSUME NEW a \in hist'[x]
          PROVE VTS__leq(a.v, new.w) /\ (a.w => VTS__leq(a.v, new.r))
      <4>1. CASE a = a0
        <5>1. VTS__leq(tv, VTS__join(w0, tv)) /\ VTS__leq(tv, VTS__join(r0, tv))
          BY <1>1, JoinMonotone, LeqRefl
        <5> QED BY <4>1, <5>1, <3>1, <1>1
      <4>2. CASE a \in hist[x]
        <5>1. a.v \in VTS
          BY <4>2 DEF TypeOK, HistTypeOK, AccessType
        <5>2. VTS__leq(a.v, w0) /\ (a.w => VTS__leq(a.v, r0))
          BY <4>2, <1>s DEF Summary
        <5>3. /\ VTS__leq(a.v, VTS__join(w0, tv))
              /\ a.w => VTS__leq(a.v, VTS__join(r0, tv))
          BY <5>1, <5>2, <1>1, JoinMonotone
        <5> QED BY <5>2, <5>3, <3>1
      <4> QED BY <4>1, <4>2, <1>3
    <3>3. ASSUME NEW u \in Thr PROVE \E a \in hist'[x] : new.w[u] <= a.v[u]
      <4>0. new.w[u] = IF w0[u] < tv[u] THEN tv[u] ELSE w0[u]
        BY <3>1 DEF VTS__join
      <4>1. CASE w0[u] < tv[u]
        <5>1. new.w[u] <= a0.v[u]
          BY <4>0, <4>1, <1>1 DEF VTS
        <5>2. a0 \in hist'[x]
          BY <1>3
        <5> QED BY <5>1, <5>2
      <4>2. CASE ~(w0[u] < tv[u])
        BY <4>0, <4>2, <1>s, <1>3 DEF Summary
      <4> QED BY <4>1, <4>2
    <3> QED BY <3>2, <3>3, <1>3 DEF Summary
  <2> QED BY <2>1, <2>2
<1>9. CASE hbRace[x]
  <2>1. Exact(x)'
    BY <1>3, <1>4, <1>5, <1>8, <1>9, <1>c DEF StdInv, Exact
  <2> QED BY <2>1, <1>2, <1>7 DEF StdInv, Exact, Summary, WriterKnown
<1>10. CASE ~hbRace[x] /\ ~VTS__leq(s, tv)
  <2>2. PICK a \in hist[x] : Conflict(a, a0) /\ ~VTS__leq(a.v, tv)
    <3>1. CASE w
      <4>1. PICK u \in Thr : ~(w0[u] <= tv[u])
        BY <1>10, <3>1 DEF VTS__leq
      <4>2. PICK a \in hist[x] : w0[u] <= a.v[u]
        BY <1>s DEF Summary
      <4>3. a.v \in VTS
        BY DEF TypeOK, HistTypeOK, AccessType
      <4>4. ~(a.v[u] <= tv[u])
        BY <4>1, <4>2, <4>3, <1>1 DEF VTS
      <4>5. ~VTS__leq(a.v, tv)
        BY <4>4 DEF VTS__leq
      <4> QED BY <4>5, <3>1, <1>1, <1>6 DEF Conflict
    <3>2. CASE ~w
      <4>1. PICK a \in hist[x] : a.w /\ a.v = r0
        BY <1>1, <1>10 DEF StdInv, Exact, WriterKnown
      <4> QED BY <4>1, <3>2, <1>1, <1>6, <1>10 DEF Conflict
    <3> QED BY <3>1, <3>2
  <2>3. Exact(x)'
    BY <2>2, <1>3, <1>4, <1>5, <1>8, <1>10, <1>c DEF Exact
  <2> QED BY <2>3, <1>2, <1>7 DEF StdInv, Exact, Summary, WriterKnown
<1>11. CASE ~hbRace[x] /\ VTS__leq(s, tv)
  <2>1. WriterKnown(x) /\ race[x] = NoRace
    BY <1>1, <1>11 DEF StdInv, Exact
  <2>2. ~hbRace'[x] /\ race'[x] = NoRace
    BY <2>1, <1>b, <1>1, <1>3, <1>4, <1>11 DEF Conflict
  <2>3. WriterKnown(x)'
    BY <2>1, <1>1, <1>3, <1>11 DEF WriterKnown, SVal__mkC
  <2> QED BY <2>2, <2>3, <1>2, <1>3, <1>7, <1>8, <1>c DEF StdInv, Exact, Summary, WriterKnown
<1> QED BY <1>9, <1>10, <1>11

\* A step that judges no access and leaves memory alone.
LEMMA QuietExact ==
  ASSUME TypeOK, TypeOK', Forward, StdInv, UNCHANGED <<hist, race, hbRace, sv>>
  PROVE  StdInv'
<1>1. HistPast'
  BY PastStays DEF StdInv, HistPast, TypeOK
<1> QED BY <1>1 DEF StdInv, Exact, Summary, WriterKnown

LEMMA ReadExact ==
  ASSUME TypeOK, TypeOK', Forward, StdInv, NEW t \in Thr, NEW x \in Loc, Read(t, x)
  PROVE  StdInv'
<1>1. sv[x] \in SVal
  BY DEF TypeOK
<1>2. CASE sv[x].st = "A"
  <2>1. sv' = sv /\ race' = race /\ UNCHANGED <<hist, hbRace>>
    BY <1>2 DEF Read, msm_read, ReadRaces, Report, Judge, TypeOK
  <2> QED BY <2>1, QuietExact
<1>3. CASE sv[x].st = "C"
  <2> DEFINE new == msm_read(sv[x], clk[t])
  <2>1. AccessAt(t, x, FALSE, sv[x].r, new)
    BY <1>3, BeforeIsLeq DEF Read, AccessAt, Judge, ReadRaces
  <2>2. new = IF ~VTS__leq(sv[x].r, clk[t]) THEN Raced(sv[x], clk[t])
              ELSE SVal__mkC(sv[x].r, VTS__join(sv[x].w, clk[t]))
    BY <1>3, BeforeIsLeq DEF msm_read, ReadRaces
  <2> QED BY <2>1, <2>2, AccessExact
<1> QED BY <1>1, <1>2, <1>3 DEF SVal

LEMMA WriteExact ==
  ASSUME TypeOK, TypeOK', Forward, StdInv, NEW t \in Thr, NEW x \in Loc, Write(t, x)
  PROVE  StdInv'
<1>1. sv[x] \in SVal
  BY DEF TypeOK
<1>2. CASE sv[x].st = "A"
  <2>1. sv' = sv /\ race' = race /\ UNCHANGED <<hist, hbRace>>
    BY <1>2 DEF Write, msm_write, WriteRaces, Report, Judge, TypeOK
  <2> QED BY <2>1, QuietExact
<1>3. CASE sv[x].st = "C"
  <2> DEFINE new == msm_write(sv[x], clk[t])
  <2>1. AccessAt(t, x, TRUE, sv[x].w, new)
    BY <1>3, BeforeIsLeq DEF Write, AccessAt, Judge, WriteRaces
  <2>2. new = IF ~VTS__leq(sv[x].w, clk[t]) THEN Raced(sv[x], clk[t])
              ELSE SVal__mkC(clk[t], clk[t])
    BY <1>3, BeforeIsLeq DEF msm_write, WriteRaces
  <2> QED BY <2>1, <2>2, AccessExact
<1> QED BY <1>1, <1>2, <1>3 DEF SVal

LEMMA NewExact ==
  ASSUME TypeOK, TypeOK', Forward, StdInv, NEW t \in Thr, NEW x \in Loc,
         libhb_range_new(t, x)
  PROVE  StdInv'
<1> DEFINE a0 == AccessRec(t, TRUE)
<1>1. a0.thr = t /\ a0.v = clk[t] /\ a0.w /\ clk[t] \in VTS /\ Created(t)
  BY DEF AccessRec, libhb_range_new, TypeOK, EnvTypeOK, Created
<1>2. \A y \in Loc : y # x => /\ hist'[y] = hist[y] /\ race'[y] = race[y]
                              /\ sv'[y] = sv[y] /\ hbRace'[y] = hbRace[y]
  BY DEF libhb_range_new, TypeOK, HistTypeOK
<1>3. /\ hist'[x] = {a0} /\ race'[x] = NoRace /\ ~hbRace'[x]
      /\ sv'[x] = SVal__mkC(clk[t], clk[t])
  BY DEF libhb_range_new, TypeOK, HistTypeOK
<1>4. HistPast'
  <2> SUFFICES ASSUME NEW y \in Loc, NEW a \in hist'[y]
               PROVE  Created(a.thr)' /\ VTS__leq(a.v, clk'[a.thr])
    BY DEF HistPast
  <2>1. CASE a \in hist[y]
    BY <2>1, PastStays DEF StdInv, TypeOK
  <2>2. CASE a = a0
    BY <2>2, <1>1 DEF Forward
  <2> QED BY <2>1, <2>2, <1>2, <1>3
<1>5. Exact(x)'
  <2>1. sv'[x].st = "C" /\ sv'[x].r = clk[t] /\ sv'[x].w = clk[t]
    BY <1>3 DEF SVal__mkC
  <2>2. VTS__leq(clk[t], clk[t]) /\ \A u \in Thr : clk[t][u] <= clk[t][u]
    BY <1>1, LeqRefl DEF VTS
  <2>3. Summary(x)' /\ WriterKnown(x)'
    BY <1>1, <1>3, <2>1, <2>2 DEF Summary, WriterKnown
  <2> QED BY <1>3, <2>1, <2>2, <2>3 DEF Exact
<1> QED BY <1>2, <1>4, <1>5 DEF StdInv, Exact, Summary, WriterKnown

LEMMA NoaccessExact ==
  ASSUME TypeOK, TypeOK', Forward, StdInv, NEW x \in Loc, libhb_range_noaccess(x)
  PROVE  StdInv'
<1>1. \A y \in Loc : y # x => /\ hist'[y] = hist[y] /\ race'[y] = race[y]
                              /\ sv'[y] = sv[y] /\ hbRace'[y] = hbRace[y]
  BY DEF libhb_range_noaccess, Forget, TypeOK, HistTypeOK
<1>2. hist'[x] = {} /\ race'[x] = NoRace /\ ~hbRace'[x] /\ sv'[x].st = "A"
  BY DEF libhb_range_noaccess, Forget, TypeOK, HistTypeOK, SVal__mkA
<1>3. HistPast'
  BY <1>1, <1>2, PastStays DEF StdInv, HistPast, TypeOK
<1> QED BY <1>1, <1>2, <1>3 DEF StdInv, Exact, Summary, WriterKnown

LEMMA StdAlways == Spec => [](TypeOK /\ StdInv)
<1>1. Init => TypeOK
  BY EnvAssumption, ZeroType, SingletonType
  DEF Init, EnvInit, HistInit, TypeOK, EnvTypeOK, HistTypeOK, SVal__mkA, SVal
<1>2. Init => StdInv
  BY DEF Init, HistInit, StdInv, HistPast, Exact, SVal__mkA
<1>3. TypeOK /\ TypeOK' /\ Forward /\ StdInv /\ [Next]_vars => StdInv'
  <2> SUFFICES ASSUME TypeOK, TypeOK', Forward, StdInv, [Next]_vars PROVE StdInv'
    OBVIOUS
  <2>1. CASE UNCHANGED <<hist, race, hbRace, sv>>
    BY <2>1, QuietExact
  <2> QED BY <2>1, ReadExact, WriteExact, NewExact, NoaccessExact
      DEF Next, vars, histVars
<1>4. TypeOK /\ StdInv /\ [Next]_vars => TypeOK' /\ StdInv'
  BY <1>3, StdTypeStep
<1> QED BY <1>1, <1>2, <1>4, PTL DEF Spec

\* The standard machine's first report is exact: a location is reported if
\* and only if two conflicting accesses to it really were unordered.
THEOREM FirstRaceIsExact == Spec => []FirstRaceExact
<1>1. TypeOK /\ StdInv => FirstRaceExact
  BY DEF StdInv, Exact, FirstRaceExact, TypeOK, SVal
<1> QED BY <1>1, StdAlways, PTL

\* is_sane_SVal_C holds of every shadow value, also after races.
THEOREM ConstraintsAreSane == Spec => []ConstraintsSane
<1>1. StdInv => ConstraintsSane
  BY DEF StdInv, Exact, ConstraintsSane
<1> QED BY <1>1, StdAlways, PTL

\* After a race the constraints still tell every write that is unordered and
\* every read that is unordered with a write, and no access that is ordered.
THEOREM LaterRacesAreFound == Spec => []LaterRacesFound
<1>1. TypeOK /\ StdInv => LaterRacesFound
  <2> SUFFICES ASSUME TypeOK, StdInv, NEW x \in Loc, NEW t \in Thr,
                      Created(t), sv[x].st = "C"
               PROVE  LET U == {a \in hist[x] : a.thr # t /\ ~VTS__leq(a.v, clk[t])}
                      IN /\ WriteRaces(sv[x], clk[t]) <=> U # {}
                         /\ (\E a \in U : a.w) => ReadRaces(sv[x], clk[t])
                         /\ ReadRaces(sv[x], clk[t]) => U # {}
    BY DEF LaterRacesFound
  <2> DEFINE U == {a \in hist[x] : a.thr # t /\ ~VTS__leq(a.v, clk[t])}
             tv == clk[t]
  <2>1. /\ tv \in VTS /\ sv[x].r \in VTS /\ sv[x].w \in VTS
        /\ VTS__leq(sv[x].r, sv[x].w) /\ Summary(x)
    BY DEF TypeOK, EnvTypeOK, Created, SVal, StdInv, Exact
  <2>2. /\ WriteRaces(sv[x], tv) <=> ~VTS__leq(sv[x].w, tv)
        /\ ReadRaces(sv[x], tv) <=> ~VTS__leq(sv[x].r, tv)
    BY BeforeIsLeq DEF WriteRaces, ReadRaces
  <2>3. ASSUME ~VTS__leq(sv[x].w, tv) PROVE U # {}
    <3>1. PICK u \in Thr : ~(sv[x].w[u] <= tv[u])
      BY <2>3 DEF VTS__leq
    <3>2. PICK a \in hist[x] : sv[x].w[u] <= a.v[u]
      BY <2>1 DEF Summary
    <3>3. a.v \in VTS
      BY DEF TypeOK, HistTypeOK, AccessType
    <3>4. ~(a.v[u] <= tv[u])
      BY <3>1, <3>2, <3>3, <2>1 DEF VTS
    <3>5. ~VTS__leq(a.v, tv)
      BY <3>4 DEF VTS__leq
    <3>6. a.thr # t
      BY <3>5 DEF StdInv, HistPast
    <3> QED BY <3>5, <3>6
  <2>4. ASSUME NEW a \in U
        PROVE  ~VTS__leq(sv[x].w, tv) /\ (a.w => ~VTS__leq(sv[x].r, tv))
    <3>1. a \in hist[x] /\ a.v \in VTS /\ ~VTS__leq(a.v, tv)
      BY DEF TypeOK, HistTypeOK, AccessType
    <3>2. VTS__leq(a.v, sv[x].w) /\ (a.w => VTS__leq(a.v, sv[x].r))
      BY <3>1, <2>1 DEF Summary
    <3> QED BY <3>1, <3>2, <2>1, LeqTrans
  <2>5. VTS__leq(sv[x].w, tv) => VTS__leq(sv[x].r, tv)
    BY <2>1, LeqTrans
  <2> HIDE DEF U
  <2>6. U # {} => ~VTS__leq(sv[x].w, tv)
    BY <2>4
  <2>7. (\E a \in U : a.w) => ~VTS__leq(sv[x].r, tv)
    BY <2>4
  <2> QED BY <2>2, <2>3, <2>5, <2>6, <2>7 DEF U
<1> QED BY <1>1, StdAlways, PTL

=============================================================================
