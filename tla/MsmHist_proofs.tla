--------------------------- MODULE MsmHist_proofs ---------------------------
(***************************************************************************)
(* Facts that the proofs about the memory state machines share: the order  *)
(* on timestamps, the types of the client's state and of the history, and  *)
(* that threads only move forward.                                         *)
(***************************************************************************)
EXTENDS MsmHist, TLAPS

----------------------------------------------------------------------------
(* Timestamps *)

LEMMA TickLemma ==
  ASSUME NEW a \in VTS, NEW t \in Thr
  PROVE  VTS__tick(t, a) \in VTS /\ VTS__leq(a, VTS__tick(t, a))
BY DEF VTS, VTS__leq, VTS__tick

LEMMA JoinLemma ==
  ASSUME NEW a \in VTS, NEW b \in VTS
  PROVE  VTS__join(a, b) \in VTS /\ VTS__leq(a, VTS__join(a, b))
BY DEF VTS, VTS__leq, VTS__join

LEMMA LeqRefl == ASSUME NEW a \in VTS PROVE VTS__leq(a, a)
BY DEF VTS, VTS__leq

LEMMA LeqTrans ==
  ASSUME NEW a \in VTS, NEW b \in VTS, NEW c \in VTS, VTS__leq(a, b), VTS__leq(b, c)
  PROVE  VTS__leq(a, c)
<1> SUFFICES ASSUME NEW t \in Thr PROVE a[t] <= c[t]
  BY DEF VTS__leq
<1>1. a[t] \in Nat /\ b[t] \in Nat /\ c[t] \in Nat
  BY DEF VTS
<1>2. a[t] <= b[t] /\ b[t] <= c[t]
  BY DEF VTS__leq
<1> QED BY <1>1, <1>2

LEMMA ZeroType == ZeroVTS \in VTS
BY DEF ZeroVTS, VTS

LEMMA SingletonType == VTS__singleton(Root, 1) \in VTS
BY DEF VTS, VTS__singleton

----------------------------------------------------------------------------
(* The client and the history *)

\* No thread disappears or moves back in time.
Forward == \A t \in Thr : Created(t) => Created(t)' /\ VTS__leq(clk[t], clk'[t])

\* What the client does outside memory keeps the types and moves forward.
LEMMA EnvStep == EnvTypeOK /\ EnvNext => EnvTypeOK' /\ Forward
<1> SUFFICES ASSUME EnvTypeOK, EnvNext PROVE EnvTypeOK' /\ Forward
  OBVIOUS
<1> USE EnvAssumption, LeqRefl DEF EnvTypeOK, Forward, Created
<1>1. ASSUME NEW p \in Thr, NEW t \in Thr, Create(p, t) PROVE EnvTypeOK' /\ Forward
  <2>1. clk[p] \in VTS /\ p # t
    BY <1>1 DEF Create, MayTick
  <2> QED BY <2>1, <1>1, TickLemma DEF Create, MayTick, NoLockChange
<1>2. ASSUME NEW s \in SO, SoAlloc(s) PROVE EnvTypeOK' /\ Forward
  BY <1>2 DEF SoAlloc, NoLockChange
<1>3. ASSUME NEW t \in Thr, NEW s \in SO, Send(t, s) PROVE EnvTypeOK' /\ Forward
  <2>1. clk[t] \in VTS
    BY <1>3 DEF Send, MayTick
  <2> QED BY <2>1, <1>3, TickLemma DEF Send, MayTick, NoLockChange
<1>4. ASSUME NEW t \in Thr, NEW s \in SO, Recv(t, s) PROVE EnvTypeOK' /\ Forward
  BY <1>4, JoinLemma DEF Recv, NoLockChange
<1>5. ASSUME NEW t \in Thr, NEW l \in Lock, AcquireW(t, l) \/ AcquireR(t, l) \/ Release(t, l)
      PROVE EnvTypeOK' /\ Forward
  BY <1>5 DEF AcquireW, AcquireR, Release, SetHeld
<1> QED BY <1>1, <1>2, <1>3, <1>4, <1>5 DEF EnvNext

\* An access is recorded with the right types.
LEMMA NoteType ==
  ASSUME EnvTypeOK, HistTypeOK, NEW t \in Thr, NEW x \in Loc, NEW w \in BOOLEAN,
         Created(t),
         Note(x, t, w) \/ UNCHANGED <<hist, hbRace, lastW>>,
         NEW enters \in BOOLEAN, Report(x, t, w, enters)
  PROVE  HistTypeOK'
<1>1. clk[t] \in VTS
  BY DEF EnvTypeOK, Created
<1>2. AccessRec(t, w) \in AccessType
  BY <1>1 DEF AccessRec, AccessType, EnvTypeOK
<1>3. CASE Note(x, t, w)
  BY <1>1, <1>2, <1>3 DEF Note, HistTypeOK, Report
<1>4. CASE UNCHANGED <<hist, hbRace, lastW>>
  BY <1>1, <1>4 DEF HistTypeOK, Report
<1> QED BY <1>3, <1>4

\* Every recorded access lies in the past of the thread that made it.
HistPast ==
  \A x \in Loc : \A a \in hist[x] : Created(a.thr) /\ VTS__leq(a.v, clk[a.thr])

\* When the threads only move forward, the past stays the past.
LEMMA PastStays ==
  ASSUME EnvTypeOK, EnvTypeOK', HistTypeOK, Forward, HistPast,
         NEW x \in Loc, NEW a \in hist[x]
  PROVE  Created(a.thr)' /\ VTS__leq(a.v, clk'[a.thr])
<1>1. a \in AccessType /\ a.thr \in Thr /\ a.v \in VTS
  BY DEF HistTypeOK, AccessType
<1>2. Created(a.thr) /\ VTS__leq(a.v, clk[a.thr]) /\ clk[a.thr] \in VTS
  BY <1>1 DEF HistPast, EnvTypeOK, Created
<1>3. Created(a.thr)' /\ VTS__leq(clk[a.thr], clk'[a.thr]) /\ clk'[a.thr] \in VTS
  BY <1>1, <1>2 DEF Forward, EnvTypeOK, Created
<1> QED BY <1>1, <1>2, <1>3, LeqTrans

=============================================================================
