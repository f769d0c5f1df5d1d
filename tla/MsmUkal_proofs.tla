--------------------------- MODULE MsmUkal_proofs ---------------------------
(***************************************************************************)
(* Proofs for MsmUkal: what the state machine of helgrind-ukal never       *)
(* reports, and that a location it has forgiven once is judged by a real   *)
(* access, for any number of threads, locks, SOs and locations, any kinds  *)
(* of access and any length of the history.                                *)
(***************************************************************************)
EXTENDS MsmUkal, MsmHist_proofs

----------------------------------------------------------------------------
(* Timestamps *)

\* The test of the state machine is the order on timestamps.
LEMMA OrderedIsLeq ==
  ASSUME NEW s, NEW tv PROVE Ordered(s, tv) <=> VTS__leq(s.v, tv)
BY DEF Ordered, VTS__cmp

----------------------------------------------------------------------------
(* Type correctness *)

\* The transition functions stay within the shadow values.
LEMMA ReadType ==
  ASSUME NEW s \in SVal, NEW tv \in VTS, NEW A \in SUBSET Lock, NEW spin, NEW atomic
  PROVE  msm_read(s, tv, A, spin, atomic) \in SVal
BY ZeroType, SingletonType
DEF msm_read, ReadState, SVal, Plain, mk_Race, mk_ExclR, mk_ExclRW, mk_ShR, mk_ShM, mk_ShM2,
    mk_SpinVar

LEMMA WriteType ==
  ASSUME NEW s \in SVal, NEW tv \in VTS, NEW W \in SUBSET Lock, NEW atomic
  PROVE  msm_write(s, tv, W, atomic) \in SVal
BY ZeroType, SingletonType
DEF msm_write, WriteState, SVal, Plain, mk_Race, mk_ExclW, mk_ExclRW, mk_ShM, mk_ShM2, mk_SpinVar

\* What every read does, with the transition function left closed.
LEMMA ReadStep ==
  ASSUME TypeOK, NEW t \in Thr, NEW x \in Loc, NEW k \in Kind, Read(t, x, k)
  PROVE  TypeOK' /\ Forward
<1> USE DEF TypeOK
<1> DEFINE spin == k = "spin"
           atomic == k = "atomic"
           new == msm_read(sv[x], clk[t], locksetA[t], spin, atomic)
           vid == msm_read_vid(sv[x], clk[t], spin)
<1>1. clk[t] \in VTS /\ sv[x] \in SVal /\ locksetA[t] \in SUBSET Lock /\ Created(t)
  BY DEF Read, Created, EnvTypeOK
<1>2. new \in SVal
  BY <1>1, ReadType
<1>3. vid \in VTS /\ VTS__leq(clk[t], vid)
  BY <1>1, JoinLemma, LeqRefl DEF msm_read_vid, SVal
<1>4. /\ sv' = [sv EXCEPT ![x] = new] /\ clk' = [clk EXCEPT ![t] = vid]
      /\ Report(x, t, FALSE, EntersRace(x, new)) /\ UNCHANGED <<soLive, soClk, locksetA, locksetW>>
  BY DEF Read, NoLockChange
<1>5. EnvTypeOK' /\ Forward
  BY <1>1, <1>3, <1>4, LeqRefl, EnvAssumption DEF EnvTypeOK, Forward, Created
<1>6. HistTypeOK'
  <2>1. Note(x, t, FALSE) \/ UNCHANGED <<hist, hbRace, lastW>>
    BY DEF Read
  <2>2. EntersRace(x, new) \in BOOLEAN
    BY DEF EntersRace
  <2> QED BY <1>1, <1>4, <2>1, <2>2, NoteType
<1> QED BY <1>2, <1>4, <1>5, <1>6

LEMMA WriteStep ==
  ASSUME TypeOK, NEW t \in Thr, NEW x \in Loc, NEW k \in Kind, Write(t, x, k)
  PROVE  TypeOK' /\ Forward
<1> USE DEF TypeOK
<1> DEFINE atomic == k = "atomic"
           new == msm_write(sv[x], clk[t], locksetW[t], atomic)
           ticks == sv[x].st = "SpinVar"
<1>1. clk[t] \in VTS /\ sv[x] \in SVal /\ locksetW[t] \in SUBSET Lock /\ Created(t)
  BY DEF Write, Created, EnvTypeOK
<1>2. new \in SVal
  BY <1>1, WriteType
<1>4. /\ sv' = [sv EXCEPT ![x] = new]
      /\ clk' = IF ticks THEN [clk EXCEPT ![t] = VTS__tick(t, @)] ELSE clk
      /\ Report(x, t, TRUE, EntersRace(x, new)) /\ UNCHANGED <<soLive, soClk>>
  BY DEF Write
<1>3. locksetA' \in [Thr -> SUBSET Lock] /\ locksetW' \in [Thr -> SUBSET Lock]
  BY DEF Write, NoLockChange, EnvTypeOK
<1>5. EnvTypeOK' /\ Forward
  BY <1>1, <1>3, <1>4, TickLemma, LeqRefl, EnvAssumption DEF EnvTypeOK, Forward, Created
<1>6. HistTypeOK'
  <2>1. Note(x, t, TRUE) \/ UNCHANGED <<hist, hbRace, lastW>>
    BY DEF Write
  <2>2. EntersRace(x, new) \in BOOLEAN
    BY DEF EntersRace
  <2> QED BY <1>1, <1>4, <2>1, <2>2, NoteType
<1> QED BY <1>2, <1>4, <1>5, <1>6

LEMMA ResetStep ==
  ASSUME TypeOK, NEW x \in Loc, Reset(x, mk_New) \/ Reset(x, mk_NoAccess)
  PROVE  TypeOK' /\ Forward
<1>1. mk_New \in SVal /\ mk_NoAccess \in SVal
  BY ZeroType DEF mk_New, mk_NoAccess, Plain, SVal
<1>2. Forget(x) /\ UNCHANGED <<clk, soLive, soClk, locksetA, locksetW>>
  BY DEF Reset, envVars
<1>3. EnvTypeOK' /\ Forward
  BY <1>2, LeqRefl DEF TypeOK, EnvTypeOK, Forward, Created
<1>4. DOMAIN hist' = Loc /\ \A y \in Loc : hist'[y] \subseteq AccessType
  BY <1>2 DEF Forget, TypeOK, HistTypeOK
<1>5. HistTypeOK'
  BY <1>2, <1>4, ZeroType DEF Forget, TypeOK, HistTypeOK
<1>6. sv' \in [Loc -> SVal]
  BY <1>1 DEF Reset, TypeOK
<1> QED BY <1>3, <1>5, <1>6 DEF TypeOK

LEMMA TypeInit == Init => TypeOK
BY EnvAssumption, ZeroType, SingletonType
DEF Init, EnvInit, HistInit, TypeOK, EnvTypeOK, HistTypeOK, mk_New, Plain, SVal

LEMMA TypeStep == TypeOK /\ [Next]_vars => TypeOK' /\ Forward
<1> SUFFICES ASSUME TypeOK, [Next]_vars PROVE TypeOK' /\ Forward
  OBVIOUS
<1>1. CASE EnvNext /\ UNCHANGED <<histVars, sv>>
  BY <1>1, EnvStep DEF TypeOK, HistTypeOK, histVars
<1>2. CASE UNCHANGED vars
  BY <1>2, LeqRefl DEF vars, TypeOK, EnvTypeOK, HistTypeOK, Forward, Created
<1> QED BY <1>1, <1>2, ReadStep, WriteStep, ResetStep DEF Next

\* The state of helgrind-ukal is well typed.
THEOREM UkalType == Spec => []TypeOK
BY TypeInit, TypeStep, PTL DEF Spec

----------------------------------------------------------------------------
(* Consistent locking *)

Shared == {"ShR", "ShM", "ShM2"}

\* Lock l was held, for writing by the writers, at every access to x.
HeldAtAll(x, l) == \A a \in hist[x] : l \in a.ls

\* A shared state keeps every lock that was held at all accesses, so state
\* Race is out of reach: the strengthening of LockedIsSilent.
KeepsLock(x, l) ==
  /\ race[x] = NoRace
  /\ sv[x].st # "Race"
  /\ sv[x].st \in Shared => l \in sv[x].ls
LockInv == \A x \in Loc, l \in Lock : HeldAtAll(x, l) => KeepsLock(x, l)

\* The transition functions keep a lock that the accessing thread holds.
LEMMA ReadKeeps ==
  ASSUME NEW s \in SVal, NEW tv, NEW A, NEW l \in A, NEW spin, NEW atomic,
         s.st # "Race", s.st \in Shared => l \in s.ls,
         NEW new, new = msm_read(s, tv, A, spin, atomic)
  PROVE  new.st # "Race" /\ (new.st \in Shared => l \in new.ls)
BY DEF msm_read, ReadState, SVal, Plain, mk_Race, mk_ExclR, mk_ExclRW, mk_ShR,
    mk_ShM, mk_ShM2, mk_SpinVar, Shared

LEMMA WriteKeeps ==
  ASSUME NEW s \in SVal, NEW tv, NEW W, NEW l \in W, NEW atomic,
         s.st # "Race", s.st \in Shared => l \in s.ls,
         NEW new, new = msm_write(s, tv, W, atomic)
  PROVE  new.st # "Race" /\ (new.st \in Shared => l \in new.ls)
BY DEF msm_write, WriteState, SVal, Plain, mk_Race, mk_ExclW, mk_ExclRW, mk_ShM,
    mk_ShM2, mk_SpinVar, Shared

\* What a read or a write by t at x does, in one form for both.
\* The machine goes to new; an atomic access and a spinning read, which are
\* not in the history, go to no shared state and report nothing.
AccessTo(t, x, w, new, quiet) ==
  /\ Created(t)
  /\ sv' = [sv EXCEPT ![x] = new]
  /\ Report(x, t, w, EntersRace(x, new))
  /\ IF quiet THEN /\ UNCHANGED <<hist, hbRace, lastW>>
                   /\ new = sv[x] \/ new.st = "SpinVar"
              ELSE Note(x, t, w)

LEMMA ReadIsAccess ==
  ASSUME NEW t \in Thr, NEW x \in Loc, NEW k \in Kind, Read(t, x, k)
  PROVE  \E new, spin, atomic :
           /\ AccessTo(t, x, FALSE, new, spin \/ atomic)
           /\ new = msm_read(sv[x], clk[t], locksetA[t], spin, atomic)
<1> DEFINE spin == k = "spin"
           atomic == k = "atomic"
           new == msm_read(sv[x], clk[t], locksetA[t], spin, atomic)
<1>2. (spin \/ atomic) => new = sv[x] \/ new.st = "SpinVar"
  BY DEF msm_read, ReadState, mk_SpinVar
<1>3. AccessTo(t, x, FALSE, new, spin \/ atomic)
  BY <1>2 DEF Read, AccessTo
<1> QED BY <1>3

LEMMA WriteIsAccess ==
  ASSUME NEW t \in Thr, NEW x \in Loc, NEW k \in Kind, Write(t, x, k)
  PROVE  \E new, atomic :
           /\ AccessTo(t, x, TRUE, new, atomic)
           /\ new = msm_write(sv[x], clk[t], locksetW[t], atomic)
<1> DEFINE atomic == k = "atomic"
           new == msm_write(sv[x], clk[t], locksetW[t], atomic)
<1>2. atomic => new = sv[x] \/ new.st = "SpinVar"
  BY DEF msm_write, WriteState, mk_SpinVar
<1>3. AccessTo(t, x, TRUE, new, atomic)
  BY <1>2 DEF Write, AccessTo
<1> QED BY <1>3

\* A step at x keeps LockInv when the new value keeps the locks of this access.
LEMMA AccessKeepsLocks ==
  ASSUME TypeOK, LockInv, NEW t \in Thr, NEW x \in Loc, NEW w \in BOOLEAN,
         NEW new, NEW quiet, AccessTo(t, x, w, new, quiet),
         \A l \in AccessRec(t, w).ls :
            KeepsLock(x, l) => /\ new.st # "Race"
                               /\ new.st \in Shared => l \in new.ls
  PROVE  LockInv'
<1> SUFFICES ASSUME NEW y \in Loc, NEW l \in Lock, HeldAtAll(y, l)'
             PROVE  KeepsLock(y, l)'
  BY DEF LockInv
<1>1. CASE y # x
  <2>1. hist'[y] = hist[y] /\ race'[y] = race[y] /\ sv'[y] = sv[y]
    BY <1>1 DEF AccessTo, Note, Report, TypeOK, HistTypeOK
  <2> QED BY <2>1 DEF LockInv, HeldAtAll, KeepsLock
<1>2. CASE y = x
  <2>1. hist[x] \subseteq hist'[x]
    BY DEF AccessTo, Note, TypeOK, HistTypeOK
  <2>2. KeepsLock(x, l)
    BY <1>2, <2>1 DEF LockInv, HeldAtAll
  <2>3. sv'[x] = new
    BY DEF AccessTo, TypeOK
  <2>4. CASE Note(x, t, w)
    <3>1. AccessRec(t, w) \in hist'[x]
      BY <2>4 DEF Note, TypeOK, HistTypeOK
    <3>2. l \in AccessRec(t, w).ls
      BY <1>2, <3>1 DEF HeldAtAll
    <3>3. new.st # "Race" /\ (new.st \in Shared => l \in new.ls)
      BY <2>2, <3>2
    <3>4. race'[x] = race[x]
      BY <3>3 DEF AccessTo, Report, EntersRace
    <3> QED BY <1>2, <2>2, <2>3, <3>3, <3>4 DEF KeepsLock
  <2>5. CASE new = sv[x] \/ new.st = "SpinVar"
    <3>1. race'[x] = race[x]
      BY <2>5 DEF AccessTo, Report, EntersRace
    <3> QED BY <1>2, <2>2, <2>3, <2>5, <3>1 DEF KeepsLock, Shared
  <2> QED BY <2>4, <2>5 DEF AccessTo
<1> QED BY <1>1, <1>2

LEMMA ReadKeepsLocks ==
  ASSUME TypeOK, LockInv, NEW t \in Thr, NEW x \in Loc, NEW k \in Kind, Read(t, x, k)
  PROVE  LockInv'
<1>1. PICK new, spin, atomic :
        /\ AccessTo(t, x, FALSE, new, spin \/ atomic)
        /\ new = msm_read(sv[x], clk[t], locksetA[t], spin, atomic)
  BY ReadIsAccess
<1>2. sv[x] \in SVal /\ AccessRec(t, FALSE).ls = locksetA[t]
  BY DEF TypeOK, AccessRec
<1>3. ASSUME NEW l \in locksetA[t], KeepsLock(x, l)
      PROVE  new.st # "Race" /\ (new.st \in Shared => l \in new.ls)
  BY <1>1, <1>2, <1>3, ReadKeeps DEF KeepsLock
<1> QED BY <1>1, <1>2, <1>3, AccessKeepsLocks

LEMMA WriteKeepsLocks ==
  ASSUME TypeOK, LockInv, NEW t \in Thr, NEW x \in Loc, NEW k \in Kind, Write(t, x, k)
  PROVE  LockInv'
<1>1. PICK new, atomic :
        /\ AccessTo(t, x, TRUE, new, atomic)
        /\ new = msm_write(sv[x], clk[t], locksetW[t], atomic)
  BY WriteIsAccess
<1>2. sv[x] \in SVal /\ AccessRec(t, TRUE).ls = locksetW[t]
  BY DEF TypeOK, AccessRec
<1>3. ASSUME NEW l \in locksetW[t], KeepsLock(x, l)
      PROVE  new.st # "Race" /\ (new.st \in Shared => l \in new.ls)
  BY <1>1, <1>2, <1>3, WriteKeeps DEF KeepsLock
<1> QED BY <1>1, <1>2, <1>3, AccessKeepsLocks

LEMMA ResetKeepsLocks ==
  ASSUME TypeOK, LockInv, NEW x \in Loc, Reset(x, mk_New) \/ Reset(x, mk_NoAccess)
  PROVE  LockInv'
<1> SUFFICES ASSUME NEW y \in Loc, NEW l \in Lock, HeldAtAll(y, l)'
             PROVE  KeepsLock(y, l)'
  BY DEF LockInv
<1>1. CASE y # x
  <2>1. hist'[y] = hist[y] /\ race'[y] = race[y] /\ sv'[y] = sv[y]
    BY <1>1 DEF Reset, Forget, TypeOK, HistTypeOK
  <2> QED BY <2>1 DEF LockInv, HeldAtAll, KeepsLock
<1>2. CASE y = x
  <2>1. race'[x] = NoRace /\ sv'[x].st \in {"New", "NoAccess"}
    BY DEF Reset, Forget, TypeOK, HistTypeOK, mk_New, mk_NoAccess, Plain
  <2> QED BY <1>2, <2>1 DEF KeepsLock, Shared
<1> QED BY <1>1, <1>2

LEMMA LockInvInit == Init => LockInv
BY DEF Init, HistInit, LockInv, KeepsLock, Shared, mk_New, Plain

LEMMA LockInvStep == TypeOK /\ LockInv /\ [Next]_vars => LockInv'
<1> SUFFICES ASSUME TypeOK, LockInv, [Next]_vars PROVE LockInv'
  OBVIOUS
<1>1. CASE UNCHANGED <<hist, race, sv>>
  BY <1>1 DEF LockInv, HeldAtAll, KeepsLock
<1> QED
  BY <1>1, ReadKeepsLocks, WriteKeepsLocks, ResetKeepsLocks DEF Next, vars, histVars

\* helgrind-ukal never reports a location that one lock protects at every
\* access, however threads, locks, spin variables and the location's earlier
\* states interleave.
THEOREM LockedSilent == Spec => []LockedIsSilent
<1>1. Init => TypeOK /\ LockInv
  BY TypeInit, LockInvInit
<1>2. TypeOK /\ LockInv /\ [Next]_vars => TypeOK' /\ LockInv'
  BY TypeStep, LockInvStep
<1>3. LockInv => LockedIsSilent
  BY DEF LockInv, HeldAtAll, KeepsLock, LockedIsSilent, Disciplined
<1> QED BY <1>1, <1>2, <1>3, PTL DEF Spec

----------------------------------------------------------------------------
(* Reports and order *)

\* All but ShM, whose timestamp is that of VtsID 0.
Stamped == {"ExclW", "ExclR", "ExclRW", "ShR", "ShM2"}
Written == {"ExclW", "ExclRW"}

\* The timestamp a location keeps is that of an access to it.
Witnessed(x) == sv[x].st \in Stamped => \E a \in hist[x] : a.v = sv[x].v

\* Without locks and without a real race a location is in no shared-modified
\* state, and in the written states the timestamp is that of a write.
WriteWitnessed(x) ==
  LockFree(x) /\ ~hbRace[x] =>
    /\ race[x] = NoRace /\ sv[x].st \notin {"Race", "ShM", "ShM2"}
    /\ sv[x].st \in Written => \E a \in hist[x] : a.w /\ a.v = sv[x].v

HistInv ==
  /\ HistPast /\ ReportIsUnordered
  /\ \A x \in Loc : Witnessed(x) /\ WriteWitnessed(x)

\* What the properties need to know of the transition functions; free says
\* that the accessing thread holds no lock.
Shape(s, new, tv, w, free) ==
  /\ new.st \in Stamped => new.v = tv \/ (s.st \in Stamped /\ new.v = s.v)
  /\ new.st = "Race" /\ s.st # "Race" =>
       s.st \in Stamped /\ ~VTS__leq(s.v, tv) /\ (w \/ s.st \in {"ExclW", "ShM2"})
  /\ free /\ new # s /\ s.st \notin {"ShM", "ShM2"} =>
       /\ new.st \in Written => w /\ new.v = tv
       /\ new.st \in {"ShM", "ShM2"} => s.st = "ExclRW" /\ ~VTS__leq(s.v, tv)

LEMMA ReadShape ==
  ASSUME NEW s \in SVal, NEW tv \in VTS, NEW A, NEW spin, NEW atomic,
         NEW new, new = msm_read(s, tv, A, spin, atomic)
  PROVE  Shape(s, new, tv, FALSE, A = {})
<1>1. CASE spin \/ (atomic /\ s.st # "SpinVar")
  BY <1>1 DEF Shape, Stamped, Written, msm_read, SVal, mk_SpinVar
<1>2. CASE ~spin /\ ~(atomic /\ s.st # "SpinVar")
  <2>1. new = ReadState(s, tv, A)
    BY <1>2 DEF msm_read
  <2> QED BY <2>1, OrderedIsLeq
      DEF Shape, Stamped, Written, ReadState, SVal, Plain, mk_Race, mk_ExclR, mk_ExclRW, mk_ShR,
          mk_ShM, mk_ShM2
<1> QED BY <1>1, <1>2

LEMMA WriteShape ==
  ASSUME NEW s \in SVal, NEW tv \in VTS, NEW W, NEW atomic,
         NEW new, new = msm_write(s, tv, W, atomic)
  PROVE  Shape(s, new, tv, TRUE, W = {})
<1>1. CASE atomic /\ s.st # "SpinVar"
  BY <1>1 DEF Shape, Stamped, Written, msm_write, SVal
<1>2. CASE ~(atomic /\ s.st # "SpinVar")
  <2>1. new = WriteState(s, tv, W)
    BY <1>2 DEF msm_write
  <2> QED BY <2>1, OrderedIsLeq
      DEF Shape, Stamped, Written, WriteState, SVal, Plain, mk_Race, mk_ExclW, mk_ExclRW,
          mk_ShM, mk_ShM2, mk_SpinVar
<1> QED BY <1>1, <1>2

\* A step that accesses location x keeps the invariant.
LEMMA AccessKeepsHist ==
  ASSUME TypeOK, TypeOK', Forward, HistInv,
         NEW t \in Thr, NEW x \in Loc, NEW w \in BOOLEAN, NEW new, NEW quiet,
         AccessTo(t, x, w, new, quiet),
         Shape(sv[x], new, clk[t], w, AccessRec(t, w).ls = {})
  PROVE  HistInv'
<1> DEFINE a0 == AccessRec(t, w)
<1>1. /\ a0.thr = t /\ a0.v = clk[t] /\ a0.w = w /\ clk[t] \in VTS /\ Created(t)
      /\ sv[x] \in SVal /\ sv[x].v \in VTS
  BY DEF AccessRec, AccessTo, TypeOK, EnvTypeOK, HistTypeOK, Created, SVal
<1>2. \A y \in Loc : y # x => /\ hist'[y] = hist[y] /\ race'[y] = race[y] /\ sv'[y] = sv[y]
                              /\ hbRace'[y] = hbRace[y]
  BY DEF AccessTo, Note, Report, TypeOK, HistTypeOK
<1>3. sv'[x] = new
  BY DEF AccessTo, TypeOK
<1>4. \/ /\ ~quiet /\ hist'[x] = hist[x] \cup {a0}
         /\ hbRace'[x] = (hbRace[x] \/ \E a \in hist[x] : Conflict(a, a0) /\ ~VTS__leq(a.v, clk[t]))
      \/ /\ quiet /\ hist'[x] = hist[x] /\ hbRace'[x] = hbRace[x]
         /\ new = sv[x] \/ new.st = "SpinVar"
  BY DEF AccessTo, Note, TypeOK, HistTypeOK
<1>5. race'[x] = IF new.st = "Race" /\ sv[x].st # "Race"
                   THEN [thr |-> t, v |-> clk[t], w |-> w] ELSE race[x]
  BY DEF AccessTo, Report, EntersRace, TypeOK, HistTypeOK
<1>6. ASSUME NEW a \in hist[x], ~VTS__leq(a.v, clk[t]) PROVE a.thr # t
  BY <1>6 DEF HistInv, HistPast
<1>7. HistPast'
  <2> SUFFICES ASSUME NEW y \in Loc, NEW a \in hist'[y]
               PROVE  Created(a.thr)' /\ VTS__leq(a.v, clk'[a.thr])
    BY DEF HistPast
  <2>1. CASE a \in hist[y]
    BY <2>1, PastStays DEF HistInv, TypeOK
  <2>2. CASE a = a0
    BY <2>2, <1>1 DEF Forward
  <2> QED BY <2>1, <2>2, <1>2, <1>4
<1>8. ReportIsUnordered'
  <2> SUFFICES ASSUME NEW y \in Loc, race'[y] # NoRace
               PROVE \E a \in hist'[y] : a.thr # race'[y].thr /\ ~VTS__leq(a.v, race'[y].v)
    BY DEF ReportIsUnordered
  <2>1. CASE y # x \/ race'[x] = race[x]
    <3>1. race'[y] = race[y] /\ hist[y] \subseteq hist'[y]
      BY <2>1, <1>2, <1>4
    <3> QED BY <3>1 DEF HistInv, ReportIsUnordered
  <2>2. CASE y = x /\ new.st = "Race" /\ sv[x].st # "Race"
    <3>1. sv[x].st \in Stamped /\ ~VTS__leq(sv[x].v, clk[t])
      BY <2>2 DEF Shape
    <3>2. PICK a \in hist[x] : a.v = sv[x].v
      BY <3>1 DEF HistInv, Witnessed
    <3>3. a \in hist'[x] /\ a.thr # t /\ ~VTS__leq(a.v, clk[t])
      BY <3>1, <3>2, <1>4, <1>6
    <3> QED BY <2>2, <3>3, <1>5
  <2> QED BY <2>1, <2>2, <1>5
<1>9. Witnessed(x)'
  <2>1. CASE new = sv[x]
    BY <2>1, <1>3, <1>4 DEF HistInv, Witnessed
  <2>2. CASE new # sv[x]
    BY <2>2, <1>1, <1>3, <1>4 DEF HistInv, Witnessed, Shape, Stamped
  <2> QED BY <2>1, <2>2
<1>10. WriteWitnessed(x)'
  <2> SUFFICES ASSUME LockFree(x)', ~hbRace'[x]
               PROVE  /\ race'[x] = NoRace /\ new.st \notin {"Race", "ShM", "ShM2"}
                      /\ new.st \in Written => \E a \in hist'[x] : a.w /\ a.v = new.v
    BY <1>3 DEF WriteWitnessed
  <2>1. LockFree(x) /\ ~hbRace[x]
    BY <1>4 DEF LockFree
  <2>2. /\ race[x] = NoRace /\ sv[x].st \notin {"Race", "ShM", "ShM2"}
        /\ sv[x].st \in Written => \E a \in hist[x] : a.w /\ a.v = sv[x].v
    BY <2>1 DEF HistInv, WriteWitnessed
  <2>3. CASE new = sv[x] \/ new.st = "SpinVar"
    BY <2>2, <2>3, <1>4, <1>5 DEF Written
  <2>4. CASE ~(new = sv[x] \/ new.st = "SpinVar")
    <3>1. /\ hist'[x] = hist[x] \cup {a0} /\ a0.ls = {}
          /\ \A a \in hist[x] : Conflict(a, a0) => VTS__leq(a.v, clk[t])
      BY <2>4, <1>4 DEF LockFree
    <3>2. ASSUME sv[x].st \in Stamped, w \/ sv[x].st \in Written
          PROVE  VTS__leq(sv[x].v, clk[t])
      <4>1. PICK a \in hist[x] : a.v = sv[x].v /\ (w \/ a.w)
        BY <3>2, <2>2 DEF HistInv, Witnessed
      <4>2. CASE a.thr = t
        BY <4>1, <4>2 DEF HistInv, HistPast
      <4>3. CASE a.thr # t
        BY <4>1, <4>3, <3>1, <1>1 DEF Conflict
      <4> QED BY <4>2, <4>3
    <3>3. new.st \notin {"Race", "ShM", "ShM2"}
      BY <2>2, <2>4, <3>1, <3>2 DEF Shape, Stamped, Written
    <3>4. new.st \in Written => a0.w /\ a0.v = new.v
      BY <2>2, <2>4, <3>1, <1>1 DEF Shape
    <3> QED BY <2>2, <3>1, <3>3, <3>4, <1>5
  <2> QED BY <2>3, <2>4
<1> QED BY <1>2, <1>7, <1>8, <1>9, <1>10
    DEF HistInv, Witnessed, WriteWitnessed, LockFree

LEMMA ResetKeepsHist ==
  ASSUME TypeOK, TypeOK', Forward, HistInv,
         NEW x \in Loc, Reset(x, mk_New) \/ Reset(x, mk_NoAccess)
  PROVE  HistInv'
<1>1. /\ \A y \in Loc : y # x => /\ hist'[y] = hist[y] /\ race'[y] = race[y] /\ sv'[y] = sv[y]
                                 /\ hbRace'[y] = hbRace[y]
      /\ hist'[x] = {} /\ race'[x] = NoRace
      /\ sv'[x].st \in {"New", "NoAccess"}
  BY DEF Reset, Forget, TypeOK, HistTypeOK, mk_New, mk_NoAccess, Plain
<1>2. HistPast'
  BY <1>1, PastStays DEF HistInv, HistPast, TypeOK
<1>3. ReportIsUnordered'
  BY <1>1 DEF HistInv, ReportIsUnordered
<1>4. \A y \in Loc : (Witnessed(y) /\ WriteWitnessed(y))'
  BY <1>1 DEF HistInv, Witnessed, WriteWitnessed, LockFree, Stamped, Written
<1> QED BY <1>2, <1>3, <1>4 DEF HistInv

LEMMA HistInvInit == Init => HistInv
<1> SUFFICES ASSUME Init PROVE HistInv
  OBVIOUS
<1>1. \A x \in Loc : /\ hist[x] = {} /\ race[x] = NoRace
                     /\ sv[x].st = "New"
  BY DEF Init, HistInit, mk_New, Plain
<1> QED BY <1>1
    DEF HistInv, HistPast, ReportIsUnordered, Witnessed, WriteWitnessed, Stamped, Written

LEMMA HistInvStep == TypeOK /\ TypeOK' /\ Forward /\ HistInv /\ [Next]_vars => HistInv'
<1> SUFFICES ASSUME TypeOK, TypeOK', Forward, HistInv, [Next]_vars PROVE HistInv'
  OBVIOUS
<1>1. CASE UNCHANGED <<hist, race, lastW, hbRace, sv>>
  <2>1. HistPast'
    BY <1>1, PastStays DEF HistInv, HistPast, TypeOK
  <2> QED BY <2>1, <1>1
      DEF HistInv, ReportIsUnordered, Witnessed, WriteWitnessed, LockFree
<1>2. ASSUME NEW t \in Thr, NEW x \in Loc, NEW k \in Kind, Read(t, x, k) PROVE HistInv'
  <2>1. PICK new, spin, atomic :
          /\ AccessTo(t, x, FALSE, new, spin \/ atomic)
          /\ new = msm_read(sv[x], clk[t], locksetA[t], spin, atomic)
    BY <1>2, ReadIsAccess
  <2>2. sv[x] \in SVal /\ clk[t] \in VTS /\ AccessRec(t, FALSE).ls = locksetA[t]
    BY <2>1 DEF TypeOK, EnvTypeOK, AccessRec, AccessTo, Created
  <2>3. Shape(sv[x], new, clk[t], FALSE, locksetA[t] = {})
    BY <2>1, <2>2, ReadShape
  <2> QED BY <2>1, <2>2, <2>3, AccessKeepsHist
<1>3. ASSUME NEW t \in Thr, NEW x \in Loc, NEW k \in Kind, Write(t, x, k) PROVE HistInv'
  <2>1. PICK new, atomic :
          /\ AccessTo(t, x, TRUE, new, atomic)
          /\ new = msm_write(sv[x], clk[t], locksetW[t], atomic)
    BY <1>3, WriteIsAccess
  <2>2. sv[x] \in SVal /\ clk[t] \in VTS /\ AccessRec(t, TRUE).ls = locksetW[t]
    BY <2>1 DEF TypeOK, EnvTypeOK, AccessRec, AccessTo, Created
  <2>3. Shape(sv[x], new, clk[t], TRUE, locksetW[t] = {})
    BY <2>1, <2>2, WriteShape
  <2> QED BY <2>1, <2>2, <2>3, AccessKeepsHist
<1> QED BY <1>1, <1>2, <1>3, ResetKeepsHist DEF Next, vars, histVars

LEMMA HistInvAlways == Spec => [](TypeOK /\ HistInv)
<1>1. Init => TypeOK /\ HistInv
  BY TypeInit, HistInvInit
<1>2. TypeOK /\ HistInv /\ [Next]_vars => TypeOK' /\ HistInv'
  BY TypeStep, HistInvStep
<1> QED BY <1>1, <1>2, PTL DEF Spec

\* Accesses that fork/join, sends and receives alone order are not reported.
THEOREM OrderedSilent == Spec => []OrderedIsSilent
<1>1. HistInv => OrderedIsSilent
  BY DEF HistInv, WriteWitnessed, OrderedIsSilent
<1> QED BY <1>1, HistInvAlways, PTL

\* Every report names an access that really is unordered with an earlier
\* access of another thread.
THEOREM ReportsUnordered == Spec => []ReportIsUnordered
<1>1. HistInv => ReportIsUnordered
  BY DEF HistInv
<1> QED BY <1>1, HistInvAlways, PTL

\* A forgiven location is judged by an access that was really made, although
\* it may have passed through ShM, which has lost its timestamp.
THEOREM SecondChances == Spec => []SecondChanceIsReal
<1>1. HistInv => SecondChanceIsReal
  BY DEF HistInv, Witnessed, Stamped, SecondChanceIsReal
<1> QED BY <1>1, HistInvAlways, PTL

=============================================================================
