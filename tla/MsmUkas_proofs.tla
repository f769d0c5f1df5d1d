--------------------------- MODULE MsmUkas_proofs ---------------------------
(***************************************************************************)
(* Proofs for MsmUkas: what the state machine of helgrind-ukas never       *)
(* reports, for any number of threads, locks, SOs and locations, any kinds *)
(* of access and any length of the history.                                *)
(***************************************************************************)
EXTENDS MsmUkas, MsmHist_proofs

----------------------------------------------------------------------------
(* Timestamps *)

\* The test of the state machine is the order on timestamps.
LEMMA OrderedIsLeq ==
  ASSUME NEW s, NEW tv PROVE Ordered(s, tv) <=> VTS__leq(s.v, tv)
BY DEF Ordered, VTS__cmp

----------------------------------------------------------------------------
(* Type correctness *)

\* The transition functions stay within the shadow values.
LEMMA ReadType ==
  ASSUME NEW s \in SVal, NEW tv \in VTS, NEW A \in SUBSET Lock, NEW spin, NEW atomic
  PROVE  msm_read(s, tv, A, spin, atomic) \in SVal
BY ZeroType DEF msm_read, ReadState, SVal, Plain, mk_Race, mk_ExclR, mk_ShR, mk_ShM, mk_SpinVar

LEMMA WriteType ==
  ASSUME NEW s \in SVal, NEW tv \in VTS, NEW W \in SUBSET Lock, NEW atomic, NEW isLock
  PROVE  msm_write(s, tv, W, atomic, isLock) \in SVal
BY ZeroType DEF msm_write, WriteState, SVal, Plain, mk_Race, mk_ExclW, mk_ShM, mk_SpinVar

\* What every read does, with the transition function left closed.
LEMMA ReadStep ==
  ASSUME TypeOK, NEW t \in Thr, NEW x \in Loc, NEW k \in Kind, Read(t, x, k)
  PROVE  TypeOK' /\ Forward
<1> USE DEF TypeOK
<1> DEFINE spin == k \in {"spin", "spinlock"}
           atomic == k = "atomic"
           isLock == k = "spinlock"
           new == msm_read(sv[x], clk[t], locksetA[t], spin, atomic)
           vid == msm_read_vid(sv[x], clk[t], spin, isLock)
<1>1. clk[t] \in VTS /\ sv[x] \in SVal /\ locksetA[t] \in SUBSET Lock /\ Created(t)
  BY DEF Read, Created, EnvTypeOK
<1>2. new \in SVal
  BY <1>1, ReadType
<1>3. vid \in VTS /\ VTS__leq(clk[t], vid)
  BY <1>1, JoinLemma, LeqRefl DEF msm_read_vid, SVal
<1>4. /\ sv' = [sv EXCEPT ![x] = new] /\ clk' = [clk EXCEPT ![t] = vid]
      /\ Report(x, t, FALSE, EntersRace(x, new)) /\ UNCHANGED <<soLive, soClk, locksetA, locksetW>>
  BY DEF Read, NoLockChange
<1>5. EnvTypeOK' /\ Forward
  BY <1>1, <1>3, <1>4, LeqRefl, EnvAssumption DEF EnvTypeOK, Forward, Created
<1>6. HistTypeOK'
  <2>1. Note(x, t, FALSE) \/ UNCHANGED <<hist, hbRace, lastW>>
    BY DEF Read
  <2>2. EntersRace(x, new) \in BOOLEAN
    BY DEF EntersRace
  <2> QED BY <1>1, <1>4, <2>1, <2>2, NoteType
<1> QED BY <1>2, <1>4, <1>5, <1>6

LEMMA WriteStep ==
  ASSUME TypeOK, NEW t \in Thr, NEW x \in Loc, NEW k \in Kind, Write(t, x, k)
  PROVE  TypeOK' /\ Forward
<1> USE DEF TypeOK
<1> DEFINE atomic == k = "atomic"
           isLock == k = "spinlock"
           new == msm_write(sv[x], clk[t], locksetW[t], atomic, isLock)
           ticks == WriteTicks(sv[x], isLock)
<1>1. clk[t] \in VTS /\ sv[x] \in SVal /\ locksetW[t] \in SUBSET Lock /\ Created(t)
  BY DEF Write, Created, EnvTypeOK
<1>2. new \in SVal
  BY <1>1, WriteType
<1>4. /\ sv' = [sv EXCEPT ![x] = new]
      /\ clk' = IF ticks THEN [clk EXCEPT ![t] = VTS__tick(t, @)] ELSE clk
      /\ Report(x, t, TRUE, EntersRace(x, new)) /\ UNCHANGED <<soLive, soClk>>
  BY DEF Write
<1>3. locksetA' \in [Thr -> SUBSET Lock] /\ locksetW' \in [Thr -> SUBSET Lock]
  BY DEF Write, NoLockChange, onSpinWrite, SetHeld, EnvTypeOK
<1>5. EnvTypeOK' /\ Forward
  BY <1>1, <1>3, <1>4, TickLemma, LeqRefl, EnvAssumption DEF EnvTypeOK, Forward, Created
<1>6. HistTypeOK'
  <2>1. Note(x, t, TRUE) \/ UNCHANGED <<hist, hbRace, lastW>>
    BY DEF Write
  <2>2. EntersRace(x, new) \in BOOLEAN
    BY DEF EntersRace
  <2> QED BY <1>1, <1>4, <2>1, <2>2, NoteType
<1> QED BY <1>2, <1>4, <1>5, <1>6

LEMMA ResetStep ==
  ASSUME TypeOK, NEW x \in Loc, Reset(x, mk_New) \/ Reset(x, mk_NoAccess)
  PROVE  TypeOK' /\ Forward
<1>1. mk_New \in SVal /\ mk_NoAccess \in SVal
  BY ZeroType DEF mk_New, mk_NoAccess, Plain, SVal
<1>2. Forget(x) /\ UNCHANGED <<clk, soLive, soClk, locksetA, locksetW>>
  BY DEF Reset, envVars
<1>3. EnvTypeOK' /\ Forward
  BY <1>2, LeqRefl DEF TypeOK, EnvTypeOK, Forward, Created
<1>4. DOMAIN hist' = Loc /\ \A y \in Loc : hist'[y] \subseteq AccessType
  BY <1>2 DEF Forget, TypeOK, HistTypeOK
<1>5. HistTypeOK'
  BY <1>2, <1>4, ZeroType DEF Forget, TypeOK, HistTypeOK
<1>6. sv' \in [Loc -> SVal]
  BY <1>1 DEF Reset, TypeOK
<1> QED BY <1>3, <1>5, <1>6 DEF TypeOK

LEMMA TypeInit == Init => TypeOK
BY EnvAssumption, ZeroType, SingletonType
DEF Init, EnvInit, HistInit, TypeOK, EnvTypeOK, HistTypeOK, mk_New, Plain, SVal

LEMMA TypeStep == TypeOK /\ [Next]_vars => TypeOK' /\ Forward
<1> SUFFICES ASSUME TypeOK, [Next]_vars PROVE TypeOK' /\ Forward
  OBVIOUS
<1>1. CASE EnvNext /\ UNCHANGED <<histVars, sv>>
  BY <1>1, EnvStep DEF TypeOK, HistTypeOK, histVars
<1>2. CASE UNCHANGED vars
  BY <1>2, LeqRefl DEF vars, TypeOK, EnvTypeOK, HistTypeOK, Forward, Created
<1> QED BY <1>1, <1>2, ReadStep, WriteStep, ResetStep DEF Next

\* The state of helgrind-ukas is well typed.
THEOREM UkasType == Spec => []TypeOK
BY TypeInit, TypeStep, PTL DEF Spec

----------------------------------------------------------------------------
(* Consistent locking *)

\* Lock l was held, for writing by the writers, at every access to x.
HeldAtAll(x, l) == \A a \in hist[x] : l \in a.ls

\* A shared state keeps every lock that was held at all accesses, so state
\* Race is out of reach: the strengthening of LockedIsSilent.
KeepsLock(x, l) ==
  /\ race[x] = NoRace
  /\ sv[x].st # "Race"
  /\ sv[x].st \in {"ShR", "ShM"} => l \in sv[x].ls
LockInv == \A x \in Loc, l \in Lock : HeldAtAll(x, l) => KeepsLock(x, l)

\* The transition functions keep a lock that the accessing thread holds.
LEMMA ReadKeeps ==
  ASSUME NEW s \in SVal, NEW tv, NEW A, NEW l \in A, NEW spin, NEW atomic,
         s.st # "Race", s.st \in {"ShR", "ShM"} => l \in s.ls,
         NEW new, new = msm_read(s, tv, A, spin, atomic)
  PROVE  new.st # "Race" /\ (new.st \in {"ShR", "ShM"} => l \in new.ls)
BY DEF msm_read, ReadState, SVal, Plain, mk_Race, mk_ExclR, mk_ShR, mk_ShM, mk_SpinVar

LEMMA WriteKeeps ==
  ASSUME NEW s \in SVal, NEW tv, NEW W, NEW l \in W, NEW atomic, NEW isLock,
         s.st # "Race", s.st \in {"ShR", "ShM"} => l \in s.ls,
         NEW new, new = msm_write(s, tv, W, atomic, isLock)
  PROVE  new.st # "Race" /\ (new.st \in {"ShR", "ShM"} => l \in new.ls)
BY DEF msm_write, WriteState, SVal, Plain, mk_Race, mk_ExclW, mk_ShM, mk_SpinVar

\* What a read or a write by t at x does, in one form for both.
\* The machine goes to new; an atomic access and a spinning read, which are
\* not in the history, go to no shared state and report nothing.
AccessTo(t, x, w, new, quiet) ==
  /\ Created(t)
  /\ sv' = [sv EXCEPT ![x] = new]
  /\ Report(x, t, w, EntersRace(x, new))
  /\ IF quiet THEN /\ UNCHANGED <<hist, hbRace, lastW>>
                   /\ new = sv[x] \/ new.st = "SpinVar"
              ELSE Note(x, t, w)

LEMMA ReadIsAccess ==
  ASSUME NEW t \in Thr, NEW x \in Loc, NEW k \in Kind, Read(t, x, k)
  PROVE  \E new, spin, atomic :
           /\ AccessTo(t, x, FALSE, new, spin \/ atomic)
           /\ new = msm_read(sv[x], clk[t], locksetA[t], spin, atomic)
<1> DEFINE spin == k \in {"spin", "spinlock"}
           atomic == k = "atomic"
           new == msm_read(sv[x], clk[t], locksetA[t], spin, atomic)
<1>2. (spin \/ atomic) => new = sv[x] \/ new.st = "SpinVar"
  BY DEF msm_read, ReadState, mk_SpinVar
<1>3. AccessTo(t, x, FALSE, new, spin \/ atomic)
  BY <1>2 DEF Read, AccessTo
<1> QED BY <1>3

LEMMA WriteIsAccess ==
  ASSUME NEW t \in Thr, NEW x \in Loc, NEW k \in Kind, Write(t, x, k)
  PROVE  \E new, atomic, isLock :
           /\ AccessTo(t, x, TRUE, new, atomic)
           /\ new = msm_write(sv[x], clk[t], locksetW[t], atomic, isLock)
<1> DEFINE atomic == k = "atomic"
           isLock == k = "spinlock"
           new == msm_write(sv[x], clk[t], locksetW[t], atomic, isLock)
<1>2. atomic => new = sv[x] \/ new.st = "SpinVar"
  BY DEF msm_write, mk_SpinVar
<1>3. AccessTo(t, x, TRUE, new, atomic)
  BY <1>2 DEF Write, AccessTo
<1> QED BY <1>3

\* A step at x keeps LockInv when the new value keeps the locks of this access.
LEMMA AccessKeepsLocks ==
  ASSUME TypeOK, LockInv, NEW t \in Thr, NEW x \in Loc, NEW w \in BOOLEAN,
         NEW new, NEW quiet, AccessTo(t, x, w, new, quiet),
         \A l \in AccessRec(t, w).ls :
            KeepsLock(x, l) => /\ new.st # "Race"
                               /\ new.st \in {"ShR", "ShM"} => l \in new.ls
  PROVE  LockInv'
<1> SUFFICES ASSUME NEW y \in Loc, NEW l \in Lock, HeldAtAll(y, l)'
             PROVE  KeepsLock(y, l)'
  BY DEF LockInv
<1>1. CASE y # x
  <2>1. hist'[y] = hist[y] /\ race'[y] = race[y] /\ sv'[y] = sv[y]
    BY <1>1 DEF AccessTo, Note, Report, TypeOK, HistTypeOK
  <2> QED BY <2>1 DEF LockInv, HeldAtAll, KeepsLock
<1>2. CASE y = x
  <2>1. hist[x] \subseteq hist'[x]
    BY DEF AccessTo, Note, TypeOK, HistTypeOK
  <2>2. KeepsLock(x, l)
    BY <1>2, <2>1 DEF LockInv, HeldAtAll
  <2>3. sv'[x] = new
    BY DEF AccessTo, TypeOK
  <2>4. CASE Note(x, t, w)
    <3>1. AccessRec(t, w) \in hist'[x]
      BY <2>4 DEF Note, TypeOK, HistTypeOK
    <3>2. l \in AccessRec(t, w).ls
      BY <1>2, <3>1 DEF HeldAtAll
    <3>3. new.st # "Race" /\ (new.st \in {"ShR", "ShM"} => l \in new.ls)
      BY <2>2, <3>2
    <3>4. race'[x] = race[x]
      BY <3>3 DEF AccessTo, Report, EntersRace
    <3> QED BY <1>2, <2>2, <2>3, <3>3, <3>4 DEF KeepsLock
  <2>5. CASE new = sv[x] \/ new.st = "SpinVar"
    <3>1. race'[x] = race[x]
      BY <2>5 DEF AccessTo, Report, EntersRace
    <3> QED BY <1>2, <2>2, <2>3, <2>5, <3>1 DEF KeepsLock
  <2> QED BY <2>4, <2>5 DEF AccessTo
<1> QED BY <1>1, <1>2

LEMMA ReadKeepsLocks ==
  ASSUME TypeOK, LockInv, NEW t \in Thr, NEW x \in Loc, NEW k \in Kind, Read(t, x, k)
  PROVE  LockInv'
<1>1. PICK new, spin, atomic :
        /\ AccessTo(t, x, FALSE, new, spin \/ atomic)
        /\ new = msm_read(sv[x], clk[t], locksetA[t], spin, atomic)
  BY ReadIsAccess
<1>2. sv[x] \in SVal /\ AccessRec(t, FALSE).ls = locksetA[t]
  BY DEF TypeOK, AccessRec
<1>3. ASSUME NEW l \in locksetA[t], KeepsLock(x, l)
      PROVE  new.st # "Race" /\ (new.st \in {"ShR", "ShM"} => l \in new.ls)
  BY <1>1, <1>2, <1>3, ReadKeeps DEF KeepsLock
<1> QED BY <1>1, <1>2, <1>3, AccessKeepsLocks

LEMMA WriteKeepsLocks ==
  ASSUME TypeOK, LockInv, NEW t \in Thr, NEW x \in Loc, NEW k \in Kind, Write(t, x, k)
  PROVE  LockInv'
<1>1. PICK new, atomic, isLock :
        /\ AccessTo(t, x, TRUE, new, atomic)
        /\ new = msm_write(sv[x], clk[t], locksetW[t], atomic, isLock)
  BY WriteIsAccess
<1>2. sv[x] \in SVal /\ AccessRec(t, TRUE).ls = locksetW[t]
  BY DEF TypeOK, AccessRec
<1>3. ASSUME NEW l \in locksetW[t], KeepsLock(x, l)
      PROVE  new.st # "Race" /\ (new.st \in {"ShR", "ShM"} => l \in new.ls)
  BY <1>1, <1>2, <1>3, WriteKeeps DEF KeepsLock
<1> QED BY <1>1, <1>2, <1>3, AccessKeepsLocks

LEMMA ResetKeepsLocks ==
  ASSUME TypeOK, LockInv, NEW x \in Loc, Reset(x, mk_New) \/ Reset(x, mk_NoAccess)
  PROVE  LockInv'
<1> SUFFICES ASSUME NEW y \in Loc, NEW l \in Lock, HeldAtAll(y, l)'
             PROVE  KeepsLock(y, l)'
  BY DEF LockInv
<1>1. CASE y # x
  <2>1. hist'[y] = hist[y] /\ race'[y] = race[y] /\ sv'[y] = sv[y]
    BY <1>1 DEF Reset, Forget, TypeOK, HistTypeOK
  <2> QED BY <2>1 DEF LockInv, HeldAtAll, KeepsLock
<1>2. CASE y = x
  <2>1. race'[x] = NoRace /\ sv'[x].st \in {"New", "NoAccess"}
    BY DEF Reset, Forget, TypeOK, HistTypeOK, mk_New, mk_NoAccess, Plain
  <2> QED BY <1>2, <2>1 DEF KeepsLock
<1> QED BY <1>1, <1>2

LEMMA LockInvInit == Init => LockInv
BY DEF Init, HistInit, LockInv, KeepsLock, mk_New, Plain

LEMMA LockInvStep == TypeOK /\ LockInv /\ [Next]_vars => LockInv'
<1> SUFFICES ASSUME TypeOK, LockInv, [Next]_vars PROVE LockInv'
  OBVIOUS
<1>1. CASE UNCHANGED <<hist, race, sv>>
  BY <1>1 DEF LockInv, HeldAtAll, KeepsLock
<1> QED
  BY <1>1, ReadKeepsLocks, WriteKeepsLocks, ResetKeepsLocks DEF Next, vars, histVars

\* helgrind-ukas never reports a location that one lock protects at every
\* access, however threads, locks, spin variables and the location's earlier
\* states interleave.
THEOREM LockedSilent == Spec => []LockedIsSilent
<1>1. Init => TypeOK /\ LockInv
  BY TypeInit, LockInvInit
<1>2. TypeOK /\ LockInv /\ [Next]_vars => TypeOK' /\ LockInv'
  BY TypeStep, LockInvStep
<1>3. LockInv => LockedIsSilent
  BY DEF LockInv, HeldAtAll, KeepsLock, LockedIsSilent, Disciplined
<1> QED BY <1>1, <1>2, <1>3, PTL DEF Spec

----------------------------------------------------------------------------
(* Reports and order *)

Stamped == {"ExclW", "ExclR", "ShR", "ShM"}

\* The timestamp a location keeps is that of an access to it.
Witnessed(x) == sv[x].st \in Stamped => \E a \in hist[x] : a.v = sv[x].v

\* Without locks and without a real race the machine is not in state Race, and
\* in the written states the timestamp is that of a write.
WriteWitnessed(x) ==
  LockFree(x) /\ ~hbRace[x] =>
    /\ race[x] = NoRace /\ sv[x].st # "Race"
    /\ sv[x].st \in {"ExclW", "ShM"} => \E a \in hist[x] : a.w /\ a.v = sv[x].v

\* The last write is covered, and a New location has seen none.
Covered(x) ==
  LockFree(x) =>
    /\ sv[x].st \in Stamped => VTS__leq(lastW[x], sv[x].v)
    /\ sv[x].st = "New" => lastW[x] = ZeroVTS

HistInv ==
  /\ HistPast /\ ReportIsUnordered
  /\ \A x \in Loc : Witnessed(x) /\ WriteWitnessed(x) /\ Covered(x)

\* What the properties need to know of the transition functions; free says
\* that the accessing thread holds no lock, quiet that the access is not one
\* for the history.
Shape(s, new, tv, w, free, quiet) ==
  /\ new.st \in Stamped => new.v = tv \/ (s.st \in Stamped /\ new.v = s.v)
  /\ new.st = "Race" /\ s.st # "Race" =>
       s.st \in Stamped /\ ~VTS__leq(s.v, tv) /\ (w \/ s.st \in {"ExclW", "ShM"})
  /\ free /\ new # s /\ new.st \in {"ExclW", "ShM"} => w /\ new.v = tv
  /\ free /\ ~quiet /\ new.st \in Stamped =>
       IF w THEN new.v = tv
       ELSE (s.st = "New" /\ new.v = tv) \/ (s.st \in Stamped /\ VTS__leq(s.v, new.v))
  /\ ~quiet => new.st # "New"

LEMMA ReadShape ==
  ASSUME NEW s \in SVal, NEW tv \in VTS, NEW A, NEW spin, NEW atomic,
         NEW new, new = msm_read(s, tv, A, spin, atomic)
  PROVE  Shape(s, new, tv, FALSE, A = {}, spin \/ atomic)
<1>1. s.v \in VTS /\ VTS__leq(s.v, s.v)
  BY LeqRefl DEF SVal
<1>2. CASE spin \/ (atomic /\ s.st # "SpinVar")
  BY <1>2 DEF Shape, Stamped, msm_read, SVal, mk_SpinVar
<1>3. CASE ~spin /\ ~(atomic /\ s.st # "SpinVar")
  <2>1. new = ReadState(s, tv, A)
    BY <1>3 DEF msm_read
  <2> QED BY <1>1, <2>1, OrderedIsLeq
      DEF Shape, Stamped, ReadState, SVal, Plain, mk_Race, mk_ExclR, mk_ShR, mk_ShM
<1> QED BY <1>2, <1>3

LEMMA WriteShape ==
  ASSUME NEW s \in SVal, NEW tv \in VTS, NEW W, NEW atomic, NEW isLock,
         NEW new, new = msm_write(s, tv, W, atomic, isLock)
  PROVE  Shape(s, new, tv, TRUE, W = {}, atomic)
<1>1. CASE s.st = "SpinVar" \/ atomic
  BY <1>1 DEF Shape, Stamped, msm_write, SVal, mk_SpinVar
<1>2. CASE ~(s.st = "SpinVar" \/ atomic)
  <2>1. new = WriteState(s, tv, W)
    BY <1>2 DEF msm_write
  <2> QED BY <2>1, OrderedIsLeq
      DEF Shape, Stamped, WriteState, SVal, Plain, mk_Race, mk_ExclW, mk_ShM
<1> QED BY <1>1, <1>2

\* A step that accesses location x keeps the invariant.
LEMMA AccessKeepsHist ==
  ASSUME TypeOK, TypeOK', Forward, HistInv,
         NEW t \in Thr, NEW x \in Loc, NEW w \in BOOLEAN, NEW new, NEW quiet,
         AccessTo(t, x, w, new, quiet),
         Shape(sv[x], new, clk[t], w, AccessRec(t, w).ls = {}, quiet)
  PROVE  HistInv'
<1> DEFINE a0 == AccessRec(t, w)
<1>1. /\ a0.thr = t /\ a0.v = clk[t] /\ a0.w = w /\ clk[t] \in VTS /\ Created(t)
      /\ sv[x] \in SVal /\ lastW[x] \in VTS /\ sv[x].v \in VTS
  BY DEF AccessRec, AccessTo, TypeOK, EnvTypeOK, HistTypeOK, Created, SVal
<1>2. \A y \in Loc : y # x => /\ hist'[y] = hist[y] /\ race'[y] = race[y] /\ sv'[y] = sv[y]
                              /\ hbRace'[y] = hbRace[y] /\ lastW'[y] = lastW[y]
  BY DEF AccessTo, Note, Report, TypeOK, HistTypeOK
<1>3. sv'[x] = new
  BY DEF AccessTo, TypeOK
<1>4. \/ /\ ~quiet /\ hist'[x] = hist[x] \cup {a0}
         /\ lastW'[x] = IF w THEN clk[t] ELSE lastW[x]
         /\ hbRace'[x] = (hbRace[x] \/ \E a \in hist[x] : Conflict(a, a0) /\ ~VTS__leq(a.v, clk[t]))
      \/ /\ quiet /\ hist'[x] = hist[x] /\ lastW'[x] = lastW[x] /\ hbRace'[x] = hbRace[x]
         /\ new = sv[x] \/ new.st = "SpinVar"
  BY DEF AccessTo, Note, TypeOK, HistTypeOK
<1>5. race'[x] = IF new.st = "Race" /\ sv[x].st # "Race"
                   THEN [thr |-> t, v |-> clk[t], w |-> w] ELSE race[x]
  BY DEF AccessTo, Report, EntersRace, TypeOK, HistTypeOK
<1>6. ASSUME NEW a \in hist[x], ~VTS__leq(a.v, clk[t]) PROVE a.thr # t
  BY <1>6 DEF HistInv, HistPast
<1>7. HistPast'
  <2> SUFFICES ASSUME NEW y \in Loc, NEW a \in hist'[y]
               PROVE  Created(a.thr)' /\ VTS__leq(a.v, clk'[a.thr])
    BY DEF HistPast
  <2>1. CASE a \in hist[y]
    BY <2>1, PastStays DEF HistInv, TypeOK
  <2>2. CASE a = a0
    BY <2>2, <1>1 DEF Forward
  <2> QED BY <2>1, <2>2, <1>2, <1>4
<1>8. ReportIsUnordered'
  <2> SUFFICES ASSUME NEW y \in Loc, race'[y] # NoRace
               PROVE \E a \in hist'[y] : a.thr # race'[y].thr /\ ~VTS__leq(a.v, race'[y].v)
    BY DEF ReportIsUnordered
  <2>1. CASE y # x \/ race'[x] = race[x]
    <3>1. race'[y] = race[y] /\ hist[y] \subseteq hist'[y]
      BY <2>1, <1>2, <1>4
    <3> QED BY <3>1 DEF HistInv, ReportIsUnordered
  <2>2. CASE y = x /\ new.st = "Race" /\ sv[x].st # "Race"
    <3>1. sv[x].st \in Stamped /\ ~VTS__leq(sv[x].v, clk[t])
      BY <2>2 DEF Shape
    <3>2. PICK a \in hist[x] : a.v = sv[x].v
      BY <3>1 DEF HistInv, Witnessed
    <3>3. a \in hist'[x] /\ a.thr # t /\ ~VTS__leq(a.v, clk[t])
      BY <3>1, <3>2, <1>4, <1>6
    <3> QED BY <2>2, <3>3, <1>5
  <2> QED BY <2>1, <2>2, <1>5
<1>9. Witnessed(x)'
  <2>1. CASE new = sv[x]
    BY <2>1, <1>3, <1>4 DEF HistInv, Witnessed
  <2>2. CASE new # sv[x]
    BY <2>2, <1>1, <1>3, <1>4 DEF HistInv, Witnessed, Shape, Stamped
  <2> QED BY <2>1, <2>2
<1>10. WriteWitnessed(x)'
  <2> SUFFICES ASSUME LockFree(x)', ~hbRace'[x]
               PROVE  /\ race'[x] = NoRace /\ new.st # "Race"
                      /\ new.st \in {"ExclW", "ShM"} => \E a \in hist'[x] : a.w /\ a.v = new.v
    BY <1>3 DEF WriteWitnessed
  <2>1. LockFree(x) /\ ~hbRace[x]
    BY <1>4 DEF LockFree
  <2>2. /\ race[x] = NoRace /\ sv[x].st # "Race"
        /\ sv[x].st \in {"ExclW", "ShM"} => \E a \in hist[x] : a.w /\ a.v = sv[x].v
    BY <2>1 DEF HistInv, WriteWitnessed
  <2>3. CASE new = sv[x] \/ new.st = "SpinVar"
    BY <2>2, <2>3, <1>4, <1>5
  <2>4. CASE ~(new = sv[x] \/ new.st = "SpinVar")
    <3>1. /\ hist'[x] = hist[x] \cup {a0} /\ a0.ls = {}
          /\ \A a \in hist[x] : Conflict(a, a0) => VTS__leq(a.v, clk[t])
      BY <2>4, <1>4 DEF LockFree
    <3>2. new.st # "Race"
      <4> SUFFICES ASSUME new.st = "Race" PROVE FALSE
        OBVIOUS
      <4>1. /\ sv[x].st \in Stamped /\ ~VTS__leq(sv[x].v, clk[t])
            /\ w \/ sv[x].st \in {"ExclW", "ShM"}
        BY <2>2 DEF Shape
      <4>2. PICK a \in hist[x] : a.v = sv[x].v /\ (w \/ a.w)
        BY <4>1, <2>2 DEF HistInv, Witnessed
      <4>3. Conflict(a, a0)
        BY <4>1, <4>2, <1>1, <1>6 DEF Conflict
      <4> QED BY <3>1, <4>1, <4>2, <4>3
    <3>3. new.st \in {"ExclW", "ShM"} => a0.w /\ a0.v = new.v
      BY <2>4, <3>1, <1>1 DEF Shape
    <3> QED BY <2>2, <3>1, <3>2, <3>3, <1>5
  <2> QED BY <2>3, <2>4
<1>11. Covered(x)'
  <2> SUFFICES ASSUME LockFree(x)'
               PROVE  /\ new.st \in Stamped => VTS__leq(lastW'[x], new.v)
                      /\ new.st = "New" => lastW'[x] = ZeroVTS
    BY <1>3 DEF Covered
  <2>1. LockFree(x)
    BY <1>4 DEF LockFree
  <2>2. /\ sv[x].st \in Stamped => VTS__leq(lastW[x], sv[x].v)
        /\ sv[x].st = "New" => lastW[x] = ZeroVTS
    BY <2>1 DEF HistInv, Covered
  <2>3. CASE quiet
    BY <2>2, <2>3, <1>4 DEF Stamped
  <2>4. CASE ~quiet
    <3>1. a0.ls = {} /\ lastW'[x] = IF w THEN clk[t] ELSE lastW[x]
      BY <2>4, <1>4 DEF LockFree
    <3>2. new.st # "New"
      BY <2>4 DEF Shape
    <3>3. ASSUME new.st \in Stamped, w PROVE VTS__leq(lastW'[x], new.v)
      BY <2>4, <3>1, <3>3, <1>1, LeqRefl DEF Shape
    <3>4. ASSUME new.st \in Stamped, ~w PROVE VTS__leq(lastW'[x], new.v)
      <4>0. new.v \in VTS
        BY <3>4, <1>3 DEF TypeOK, SVal
      <4>1. CASE sv[x].st = "New"
        BY <4>0, <4>1, <2>2, <3>1, <3>4 DEF ZeroVTS, VTS, VTS__leq
      <4>2. CASE sv[x].st \in Stamped /\ VTS__leq(sv[x].v, new.v)
        BY <4>0, <4>2, <2>2, <3>1, <3>4, <1>1, LeqTrans
      <4> QED BY <4>1, <4>2, <2>4, <3>1, <3>4 DEF Shape
    <3> QED BY <3>2, <3>3, <3>4
  <2> QED BY <2>3, <2>4
<1> QED BY <1>2, <1>7, <1>8, <1>9, <1>10, <1>11
    DEF HistInv, Witnessed, WriteWitnessed, Covered, LockFree

LEMMA ResetKeepsHist ==
  ASSUME TypeOK, TypeOK', Forward, HistInv,
         NEW x \in Loc, Reset(x, mk_New) \/ Reset(x, mk_NoAccess)
  PROVE  HistInv'
<1>1. /\ \A y \in Loc : y # x => /\ hist'[y] = hist[y] /\ race'[y] = race[y] /\ sv'[y] = sv[y]
                                 /\ hbRace'[y] = hbRace[y] /\ lastW'[y] = lastW[y]
      /\ hist'[x] = {} /\ race'[x] = NoRace /\ lastW'[x] = ZeroVTS
      /\ sv'[x].st \in {"New", "NoAccess"}
  BY DEF Reset, Forget, TypeOK, HistTypeOK, mk_New, mk_NoAccess, Plain
<1>2. HistPast'
  BY <1>1, PastStays DEF HistInv, HistPast, TypeOK
<1>3. ReportIsUnordered'
  BY <1>1 DEF HistInv, ReportIsUnordered
<1>4. \A y \in Loc : (Witnessed(y) /\ WriteWitnessed(y) /\ Covered(y))'
  BY <1>1 DEF HistInv, Witnessed, WriteWitnessed, Covered, LockFree, Stamped
<1> QED BY <1>2, <1>3, <1>4 DEF HistInv

LEMMA HistInvInit == Init => HistInv
<1> SUFFICES ASSUME Init PROVE HistInv
  OBVIOUS
<1>1. \A x \in Loc : /\ hist[x] = {} /\ race[x] = NoRace /\ lastW[x] = ZeroVTS
                     /\ sv[x].st = "New"
  BY DEF Init, HistInit, mk_New, Plain
<1> QED BY <1>1
    DEF HistInv, HistPast, ReportIsUnordered, Witnessed, WriteWitnessed, Covered, Stamped

LEMMA HistInvStep == TypeOK /\ TypeOK' /\ Forward /\ HistInv /\ [Next]_vars => HistInv'
<1> SUFFICES ASSUME TypeOK, TypeOK', Forward, HistInv, [Next]_vars PROVE HistInv'
  OBVIOUS
<1>1. CASE UNCHANGED <<hist, race, lastW, hbRace, sv>>
  <2>1. HistPast'
    BY <1>1, PastStays DEF HistInv, HistPast, TypeOK
  <2> QED BY <2>1, <1>1
      DEF HistInv, ReportIsUnordered, Witnessed, WriteWitnessed, Covered, LockFree
<1>2. ASSUME NEW t \in Thr, NEW x \in Loc, NEW k \in Kind, Read(t, x, k) PROVE HistInv'
  <2>1. PICK new, spin, atomic :
          /\ AccessTo(t, x, FALSE, new, spin \/ atomic)
          /\ new = msm_read(sv[x], clk[t], locksetA[t], spin, atomic)
    BY <1>2, ReadIsAccess
  <2>2. sv[x] \in SVal /\ clk[t] \in VTS /\ AccessRec(t, FALSE).ls = locksetA[t]
    BY <2>1 DEF TypeOK, EnvTypeOK, AccessRec, AccessTo, Created
  <2>3. Shape(sv[x], new, clk[t], FALSE, locksetA[t] = {}, spin \/ atomic)
    BY <2>1, <2>2, ReadShape
  <2> QED BY <2>1, <2>2, <2>3, AccessKeepsHist
<1>3. ASSUME NEW t \in Thr, NEW x \in Loc, NEW k \in Kind, Write(t, x, k) PROVE HistInv'
  <2>1. PICK new, atomic, isLock :
          /\ AccessTo(t, x, TRUE, new, atomic)
          /\ new = msm_write(sv[x], clk[t], locksetW[t], atomic, isLock)
    BY <1>3, WriteIsAccess
  <2>2. sv[x] \in SVal /\ clk[t] \in VTS /\ AccessRec(t, TRUE).ls = locksetW[t]
    BY <2>1 DEF TypeOK, EnvTypeOK, AccessRec, AccessTo, Created
  <2>3. Shape(sv[x], new, clk[t], TRUE, locksetW[t] = {}, atomic)
    BY <2>1, <2>2, WriteShape
  <2> QED BY <2>1, <2>2, <2>3, AccessKeepsHist
<1> QED BY <1>1, <1>2, <1>3, ResetKeepsHist DEF Next, vars, histVars

LEMMA HistInvAlways == Spec => [](TypeOK /\ HistInv)
<1>1. Init => TypeOK /\ HistInv
  BY TypeInit, HistInvInit
<1>2. TypeOK /\ HistInv /\ [Next]_vars => TypeOK' /\ HistInv'
  BY TypeStep, HistInvStep
<1> QED BY <1>1, <1>2, PTL DEF Spec

\* Accesses that fork/join, sends and receives alone order are not reported.
THEOREM OrderedSilent == Spec => []OrderedIsSilent
<1>1. HistInv => OrderedIsSilent
  BY DEF HistInv, WriteWitnessed, OrderedIsSilent
<1> QED BY <1>1, HistInvAlways, PTL

\* Every report names an access that really is unordered with an earlier
\* access of another thread.
THEOREM ReportsUnordered == Spec => []ReportIsUnordered
<1>1. HistInv => ReportIsUnordered
  BY DEF HistInv
<1> QED BY <1>1, HistInvAlways, PTL

\* Without locks the timestamp of a location covers its last write.
THEOREM LastWriteIsCovered == Spec => []LastWriteCovered
<1>1. HistInv => LastWriteCovered
  BY DEF HistInv, Covered, Stamped, LastWriteCovered
<1> QED BY <1>1, HistInvAlways, PTL

----------------------------------------------------------------------------
(* The machine uses the clocks of LibhbClocks *)

\* The timestamp that a shadow value holds, as LibhbClocks sees it.
CellOf(s) == IF has_VTS(s) THEN s.v ELSE NoVTS

\* An access that asks for the order of the two timestamps.
ByOrder(old, new, tv) ==
  IF old = NoVTS \/ VTS__leq(old, tv) THEN new = tv ELSE new \in {old, NoVTS}

\* The shadow value and the timestamp after a read of kind k.
ReadValue(s, tv, A, k) == msm_read(s, tv, A, k \in {"spin", "spinlock"}, k = "atomic")
ReadStamp(s, tv, k) == msm_read_vid(s, tv, k \in {"spin", "spinlock"}, k = "spinlock")

\* What a read does to the timestamps of the location and of the reader.
LEMMA ReadClocks ==
  ASSUME NEW s \in SVal, NEW tv \in VTS, NEW A \in SUBSET Lock, NEW k \in AllKinds
  PROVE  LET new == CellOf(ReadValue(s, tv, A, k))
             vid == ReadStamp(s, tv, k)
         IN \/ new = CellOf(s) /\ vid = tv
            \/ ByOrder(CellOf(s), new, tv) /\ vid = tv
            \/ CellOf(s) # NoVTS /\ new = tv /\ vid = tv
            \/ CellOf(s) # NoVTS /\ new = CellOf(s) /\ vid = VTS__join(tv, CellOf(s))
            \/ CellOf(s) = NoVTS /\ new = tv /\ vid = tv
<1> USE DEF ReadValue, ReadStamp
<1>1. s.v \in VTS /\ s.v # NoVTS
  BY EnvAssumption DEF SVal
<1>2. Ordered(s, tv) <=> VTS__leq(s.v, tv)
  BY OrderedIsLeq
<1>3. CASE k \in {"spin", "spinlock"}
  BY <1>1, <1>3 DEF msm_read, msm_read_vid, CellOf, has_VTS, mk_SpinVar
<1>4. CASE k = "atomic" /\ s.st # "SpinVar"
  BY <1>1, <1>4 DEF msm_read, msm_read_vid, CellOf, has_VTS
<1>5. CASE s.st = "SpinVar" /\ k \notin {"spin", "spinlock"}
  BY <1>1, <1>5 DEF msm_read, msm_read_vid, ReadState, CellOf, has_VTS
<1>6. CASE k = "plain" /\ s.st # "SpinVar"
  <2>1. ReadValue(s, tv, A, k) = ReadState(s, tv, A) /\ ReadStamp(s, tv, k) = tv
    BY <1>6 DEF msm_read, msm_read_vid
  <2>2. \/ CellOf(ReadState(s, tv, A)) = CellOf(s)
        \/ ByOrder(CellOf(s), CellOf(ReadState(s, tv, A)), tv)
        \/ CellOf(s) # NoVTS /\ CellOf(ReadState(s, tv, A)) = tv
    BY <1>1, <1>2, <1>6 DEF ReadState, CellOf, has_VTS, ByOrder, SVal, Plain,
       mk_Race, mk_ExclR, mk_ShR, mk_ShM
  <2> QED BY <1>6, <2>1, <2>2
<1> QED BY <1>3, <1>4, <1>5, <1>6 DEF AllKinds

\* What a write does to the timestamp of the location.
LEMMA WriteClocks ==
  ASSUME NEW s \in SVal, NEW tv \in VTS, NEW W \in SUBSET Lock, NEW atomic, NEW isLock
  PROVE  LET new == CellOf(msm_write(s, tv, W, atomic, isLock))
         IN \/ WriteTicks(s, isLock) /\ CellOf(s) # NoVTS /\ new = tv
            \/ /\ ~WriteTicks(s, isLock)
               /\ \/ new = CellOf(s)
                  \/ ByOrder(CellOf(s), new, tv)
                  \/ CellOf(s) # NoVTS /\ new = tv
<1>1. s.v \in VTS /\ s.v # NoVTS
  BY EnvAssumption DEF SVal
<1>2. Ordered(s, tv) <=> VTS__leq(s.v, tv)
  BY OrderedIsLeq
<1>3. CASE s.st = "SpinVar"
  BY <1>1, <1>3 DEF msm_write, WriteTicks, CellOf, has_VTS, mk_SpinVar
<1>4. CASE s.st # "SpinVar"
  <2>1. ~WriteTicks(s, isLock)
    BY <1>4 DEF WriteTicks
  <2>2. CASE atomic
    BY <1>4, <2>1, <2>2 DEF msm_write
  <2>3. CASE ~atomic
    BY <1>1, <1>2, <1>4, <2>1, <2>3 DEF msm_write, WriteState, CellOf, has_VTS, ByOrder, SVal, Plain,
       mk_Race, mk_ExclW, mk_ShM
  <2> QED BY <2>2, <2>3
<1> QED BY <1>3, <1>4

\* The abstract step of an access that leaves the clocks of the threads alone.
LEMMA CellStep ==
  ASSUME TypeOK, NEW t \in Thr, NEW x \in Loc, NEW new \in SVal, Created(t),
         sv' = [sv EXCEPT ![x] = new], UNCHANGED <<clk, soLive, soClk>>,
         \/ CellOf(new) = CellOf(sv[x])
         \/ ByOrder(CellOf(sv[x]), CellOf(new), clk[t])
         \/ CellOf(sv[x]) # NoVTS /\ CellOf(new) = clk[t]
  PROVE  [Clocks!ClocksNext]_(Clocks!cvars)
<1> DEFINE bar == [y \in Loc |-> IF has_VTS(sv[y]) THEN sv[y].v ELSE NoVTS]
<1>1. bar = [y \in Loc |-> CellOf(sv[y])] /\ bar[x] = CellOf(sv[x])
  BY DEF CellOf
<1>2. bar' = [bar EXCEPT ![x] = CellOf(new)]
  BY DEF CellOf, TypeOK
<1>3. Clocks!Created(t)
  BY DEF Created, Clocks!Created
<1> HIDE DEF bar
<1>4. CASE CellOf(new) = CellOf(sv[x])
  <2>1. bar' = bar
    BY <1>1, <1>2, <1>4
  <2> QED BY <2>1 DEF bar, Clocks!cvars
<1>5. CASE CellOf(sv[x]) # NoVTS /\ CellOf(new) = clk[t]
  <2>1. Clocks!AccessShared(t, x)
    BY <1>1, <1>2, <1>3, <1>5 DEF bar, Clocks!AccessShared
  <2> QED BY <2>1 DEF Clocks!ClocksNext
<1>6. CASE ByOrder(CellOf(sv[x]), CellOf(new), clk[t])
  <2>1. bar[x] = NoVTS \/ Clocks!VTS__cmp(bar[x], clk[t]) \in {"EQ", "LT"}
          <=> bar[x] = NoVTS \/ VTS__leq(bar[x], clk[t])
    BY DEF Clocks!VTS__cmp, Clocks!VTS__leq, VTS__leq
  <2>2. CASE bar[x] = NoVTS \/ VTS__leq(bar[x], clk[t])
    <3>1. bar' = [bar EXCEPT ![x] = clk[t]]
      BY <1>1, <1>2, <1>6, <2>2 DEF ByOrder
    <3>2. Clocks!AccessByOrder(t, x)
      BY <1>3, <2>1, <2>2, <3>1 DEF bar, Clocks!AccessByOrder
    <3> QED BY <3>2 DEF Clocks!ClocksNext
  <2>3. CASE ~(bar[x] = NoVTS \/ VTS__leq(bar[x], clk[t]))
    <3>1. CellOf(new) \in {bar[x], NoVTS}
      BY <1>1, <1>6, <2>3 DEF ByOrder
    <3>2. bar' \in {bar, [bar EXCEPT ![x] = NoVTS]}
      BY <1>1, <1>2, <3>1
    <3>3. Clocks!AccessByOrder(t, x)
      BY <1>3, <2>1, <2>3, <3>2 DEF bar, Clocks!AccessByOrder
    <3> QED BY <3>3 DEF Clocks!ClocksNext
  <2> QED BY <2>2, <2>3
<1> QED BY <1>4, <1>5, <1>6


LEMMA ReadUsesClocks ==
  ASSUME TypeOK, NEW t \in Thr, NEW x \in Loc, NEW k \in Kind, Read(t, x, k)
  PROVE  [Clocks!ClocksNext]_(Clocks!cvars)
<1> PICK A \in SUBSET Lock : A = locksetA[t]
  BY DEF TypeOK, EnvTypeOK
<1> DEFINE new == ReadValue(sv[x], clk[t], A, k)
           vid == ReadStamp(sv[x], clk[t], k)
           bar == [y \in Loc |-> IF has_VTS(sv[y]) THEN sv[y].v ELSE NoVTS]
<1>1. clk[t] \in VTS /\ sv[x] \in SVal /\ Created(t) /\ clk \in [Thr -> VTS \cup {NoVTS}]
  BY DEF Read, Created, TypeOK, EnvTypeOK
<1>2. new \in SVal
  BY <1>1, ReadType DEF ReadValue
<1>3. /\ sv' = [sv EXCEPT ![x] = new] /\ clk' = [clk EXCEPT ![t] = vid]
      /\ UNCHANGED <<soLive, soClk>>
  BY DEF Read, ReadValue, ReadStamp
<1>4. k \in AllKinds
  BY KindAssumption
<1>5. \/ CellOf(new) = CellOf(sv[x]) /\ vid = clk[t]
      \/ ByOrder(CellOf(sv[x]), CellOf(new), clk[t]) /\ vid = clk[t]
      \/ CellOf(sv[x]) # NoVTS /\ CellOf(new) = clk[t] /\ vid = clk[t]
      \/ CellOf(sv[x]) # NoVTS /\ CellOf(new) = CellOf(sv[x]) /\ vid = VTS__join(clk[t], CellOf(sv[x]))
      \/ CellOf(sv[x]) = NoVTS /\ CellOf(new) = clk[t] /\ vid = clk[t]
  BY <1>1, <1>4, ReadClocks
<1>6. /\ bar[x] = CellOf(sv[x]) /\ bar' = [bar EXCEPT ![x] = CellOf(new)]
      /\ bar = [y \in Loc |-> CellOf(sv[y])]
  BY <1>3 DEF CellOf, TypeOK
<1>7. Clocks!Created(t)
  BY <1>1 DEF Created, Clocks!Created
<1> HIDE DEF new, vid, bar
<1>8. CASE CellOf(sv[x]) # NoVTS /\ CellOf(new) = CellOf(sv[x]) /\ vid = VTS__join(clk[t], CellOf(sv[x]))
  <2>1. bar' = bar
    BY <1>6, <1>8
  <2>2. clk' = [clk EXCEPT ![t] = Clocks!VTS__join(clk[t], bar[x])]
    BY <1>3, <1>6, <1>8 DEF VTS__join, Clocks!VTS__join
  <2>3. Clocks!SpinRead(t, x)
    BY <1>3, <1>6, <1>7, <1>8, <2>1, <2>2 DEF bar, Clocks!SpinRead
  <2> QED BY <2>3 DEF Clocks!ClocksNext
<1>9. CASE vid = clk[t] /\ CellOf(sv[x]) = NoVTS /\ CellOf(new) = clk[t]
  <2>1. ByOrder(CellOf(sv[x]), CellOf(new), clk[t])
    BY <1>9 DEF ByOrder
  <2>2. clk' = clk
    BY <1>1, <1>3, <1>9
  <2> QED BY <1>1, <1>2, <1>3, <2>1, <2>2, CellStep
<1>10. CASE /\ vid = clk[t]
            /\ \/ CellOf(new) = CellOf(sv[x])
               \/ ByOrder(CellOf(sv[x]), CellOf(new), clk[t])
               \/ CellOf(sv[x]) # NoVTS /\ CellOf(new) = clk[t]
  <2>1. clk' = clk
    BY <1>1, <1>3, <1>10
  <2> QED BY <1>1, <1>2, <1>3, <1>10, <2>1, CellStep
<1> QED BY <1>5, <1>8, <1>9, <1>10

LEMMA WriteUsesClocks ==
  ASSUME TypeOK, NEW t \in Thr, NEW x \in Loc, NEW k \in Kind, Write(t, x, k)
  PROVE  [Clocks!ClocksNext]_(Clocks!cvars)
<1> PICK W \in SUBSET Lock : W = locksetW[t]
  BY DEF TypeOK, EnvTypeOK
<1> DEFINE isLock == k = "spinlock"
           new == msm_write(sv[x], clk[t], W, k = "atomic", isLock)
           ticks == WriteTicks(sv[x], isLock)
           bar == [y \in Loc |-> IF has_VTS(sv[y]) THEN sv[y].v ELSE NoVTS]
<1>1. clk[t] \in VTS /\ sv[x] \in SVal /\ Created(t) /\ clk \in [Thr -> VTS \cup {NoVTS}]
  BY DEF Write, Created, TypeOK, EnvTypeOK
<1>2. new \in SVal
  BY <1>1, WriteType
<1>3. /\ sv' = [sv EXCEPT ![x] = new] /\ UNCHANGED <<soLive, soClk>>
      /\ clk' = IF ticks THEN [clk EXCEPT ![t] = VTS__tick(t, @)] ELSE clk
      /\ ticks => MayTick(t)
  BY DEF Write
<1>4. \/ ticks /\ CellOf(sv[x]) # NoVTS /\ CellOf(new) = clk[t]
      \/ /\ ~ticks
         /\ \/ CellOf(new) = CellOf(sv[x])
            \/ ByOrder(CellOf(sv[x]), CellOf(new), clk[t])
            \/ CellOf(sv[x]) # NoVTS /\ CellOf(new) = clk[t]
  BY <1>1, WriteClocks
<1> HIDE DEF new, ticks
<1>5. CASE ticks /\ CellOf(sv[x]) # NoVTS /\ CellOf(new) = clk[t]
  <2>1. bar[x] = CellOf(sv[x]) /\ bar' = [bar EXCEPT ![x] = CellOf(new)]
    BY <1>3 DEF CellOf, TypeOK
  <2> HIDE DEF bar
  <2>2. Clocks!MayTick(t)
    BY <1>3, <1>5 DEF MayTick, Created, Clocks!MayTick, Clocks!Created
  <2>3. clk' = [clk EXCEPT ![t] = Clocks!VTS__tick(t, clk[t])]
    BY <1>3, <1>5 DEF VTS__tick, Clocks!VTS__tick
  <2>4. Clocks!SpinWrite(t, x)
    BY <1>3, <1>5, <2>1, <2>2, <2>3 DEF bar, Clocks!SpinWrite
  <2> QED BY <2>4 DEF Clocks!ClocksNext
<1>6. CASE ~ticks
  BY <1>1, <1>2, <1>3, <1>4, <1>6, CellStep
<1> QED BY <1>4, <1>5, <1>6

LEMMA EnvUsesClocks ==
  ASSUME TypeOK, EnvNext, UNCHANGED sv
  PROVE  [Clocks!ClocksNext]_(Clocks!cvars)
<1> DEFINE bar == [y \in Loc |-> IF has_VTS(sv[y]) THEN sv[y].v ELSE NoVTS]
<1>1. bar' = bar
  OBVIOUS
<1>2. ASSUME NEW p \in Thr, NEW t \in Thr, Create(p, t) PROVE Clocks!ClocksNext
  <2>1. Clocks!Create(p, t)
    BY <1>1, <1>2 DEF Create, MayTick, Created, VTS__tick,
       Clocks!Create, Clocks!MayTick, Clocks!Created, Clocks!VTS__tick
  <2> QED BY <2>1 DEF Clocks!ClocksNext
<1>3. ASSUME NEW s \in SO, SoAlloc(s) PROVE Clocks!ClocksNext
  <2>1. Clocks!SoAlloc(s)
    BY <1>1, <1>3 DEF SoAlloc, Clocks!SoAlloc
  <2> QED BY <2>1 DEF Clocks!ClocksNext
<1>4. ASSUME NEW t \in Thr, NEW s \in SO, Send(t, s) PROVE Clocks!ClocksNext
  <2>1. Clocks!SoSend(t, s, TRUE)
    BY <1>1, <1>4 DEF Send, MayTick, Created, VTS__tick,
       Clocks!SoSend, Clocks!MayTick, Clocks!Created, Clocks!VTS__tick
  <2> QED BY <2>1 DEF Clocks!ClocksNext
<1>5. ASSUME NEW t \in Thr, NEW s \in SO, Recv(t, s) PROVE Clocks!ClocksNext
  <2>1. Clocks!SoRecv(t, s)
    BY <1>1, <1>5 DEF Recv, Created, VTS__join, Clocks!SoRecv, Clocks!Created, Clocks!VTS__join
  <2> QED BY <2>1 DEF Clocks!ClocksNext
<1>6. ASSUME NEW t \in Thr, NEW l \in Lock, AcquireW(t, l) \/ AcquireR(t, l) \/ Release(t, l)
      PROVE UNCHANGED Clocks!cvars
  BY <1>1, <1>6 DEF AcquireW, AcquireR, Release, Clocks!cvars
<1> QED BY <1>2, <1>3, <1>4, <1>5, <1>6 DEF EnvNext

LEMMA ResetUsesClocks ==
  ASSUME TypeOK, NEW x \in Loc, Reset(x, mk_New) \/ Reset(x, mk_NoAccess)
  PROVE  [Clocks!ClocksNext]_(Clocks!cvars)
<1> DEFINE bar == [y \in Loc |-> IF has_VTS(sv[y]) THEN sv[y].v ELSE NoVTS]
<1>1. bar' = [bar EXCEPT ![x] = NoVTS]
  <2> PICK new : new \in {mk_New, mk_NoAccess} /\ sv' = [sv EXCEPT ![x] = new]
    BY DEF Reset
  <2>1. ~has_VTS(new)
    BY DEF mk_New, mk_NoAccess, Plain, has_VTS
  <2> QED BY <2>1 DEF TypeOK
<1>2. Clocks!RangeReset(x)
  BY <1>1 DEF Reset, envVars, Clocks!RangeReset
<1> QED BY <1>2 DEF Clocks!ClocksNext

\* The machine moves the timestamps of threads, synchronisation objects and
\* locations in no other way than LibhbClocks has them move: every transition
\* of msm_read and msm_write, with its call of libhb's table, is one abstract
\* operation or none.
THEOREM MachineUsesClocks == Spec => UsesClocks
<1>1. Init => Clocks!ClocksInit
  BY DEF Init, EnvInit, mk_New, Plain, has_VTS, VTS__singleton,
     Clocks!ClocksInit, Clocks!VTS__singleton
<1>2. TypeOK /\ [Next]_vars => [Clocks!ClocksNext]_(Clocks!cvars)
  <2> SUFFICES ASSUME TypeOK, [Next]_vars PROVE [Clocks!ClocksNext]_(Clocks!cvars)
    OBVIOUS
  <2>1. CASE UNCHANGED vars
    BY <2>1 DEF vars, Clocks!cvars
  <2> QED BY <2>1, EnvUsesClocks, ReadUsesClocks, WriteUsesClocks, ResetUsesClocks DEF Next
<1> QED BY <1>1, <1>2, UkasType, PTL DEF Spec, UsesClocks, Clocks!ClocksSpec


=============================================================================
