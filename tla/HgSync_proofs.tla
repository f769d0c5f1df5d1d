---------------------------- MODULE HgSync_proofs ----------------------------
(***************************************************************************)
(* Proofs for HgSync, for any numbers of threads, ThreadIds, pthread_t     *)
(* values, mutexes, semaphores, barriers, condition variables and SOs, any *)
(* limits, and every combination of the unusual things a client may do;    *)
(* first, those for its clocks alone (LibhbClocks), for any sets of        *)
(* threads, SOs and cells and any bound on the ticks.                      *)
(***************************************************************************)
EXTENDS HgSync, FunctionTheorems, FiniteSetTheorems, SequenceTheorems,
        WellFoundedInduction, TLAPS

----------------------------------------------------------------------------
(* Operators on timestamps *)

\* A tick of a timestamp is a timestamp, not below the one it came from.
LEMMA TickLemma ==
  ASSUME NEW a \in VTS, NEW t \in Thr
  PROVE  /\ VTS__tick(t, a) \in VTS
         /\ VTS__leq(a, VTS__tick(t, a))
         /\ \A u \in Thr : VTS__tick(t, a)[u] = IF u = t THEN a[u] + 1 ELSE a[u]
BY DEF VTS, VTS__leq, VTS__tick

\* So is a join, and every component of it is one of its arguments'.
LEMMA JoinLemma ==
  ASSUME NEW a \in VTS, NEW b \in VTS
  PROVE  /\ VTS__join(a, b) \in VTS
         /\ VTS__leq(a, VTS__join(a, b)) /\ VTS__leq(b, VTS__join(a, b))
         /\ \A u \in Thr : VTS__join(a, b)[u] = IF a[u] < b[u] THEN b[u] ELSE a[u]
BY DEF VTS, VTS__leq, VTS__join

\* The order is reflexive.
LEMMA LeqRefl == ASSUME NEW a \in VTS PROVE VTS__leq(a, a)
BY DEF VTS, VTS__leq

\* The timestamp that libhb_init gives the root thread.
LEMMA SingletonLemma ==
  ASSUME NEW t \in Thr
  PROVE  /\ VTS__singleton(t, 1) \in VTS
         /\ \A u \in Thr : VTS__singleton(t, 1)[u] = IF u = t THEN 1 ELSE 0
BY DEF VTS, VTS__singleton

----------------------------------------------------------------------------
(* Type correctness *)

LEMMA TypeInit == ClocksInit => ClocksTypeOK
BY SingletonLemma, RootAssumption DEF ClocksInit, ClocksTypeOK, MaybeVTS

LEMMA TypeStep == ClocksTypeOK /\ [ClocksNext]_cvars => ClocksTypeOK'
<1> SUFFICES ASSUME ClocksTypeOK, [ClocksNext]_cvars PROVE ClocksTypeOK'
  OBVIOUS
<1> USE NoVTSAssumption DEF ClocksTypeOK, MaybeVTS
<1>1. ASSUME NEW p \in Thr, NEW t \in Thr, Create(p, t) PROVE ClocksTypeOK'
  <2>1. clk[p] \in VTS
    BY <1>1 DEF Create, MayTick, Created
  <2> QED BY <2>1, <1>1, TickLemma DEF Create
<1>2. ASSUME NEW s \in SO, SoAlloc(s) \/ SoDealloc(s) PROVE ClocksTypeOK'
  BY <1>2 DEF SoAlloc, SoDealloc
<1>3. ASSUME NEW t \in Thr, NEW s \in SO, NEW strong \in BOOLEAN, SoSend(t, s, strong)
      PROVE ClocksTypeOK'
  <2>1. clk[t] \in VTS
    BY <1>3 DEF SoSend, MayTick, Created
  <2>2. soClk[s] \in VTS \/ soClk[s] = NoVTS
    OBVIOUS
  <2> QED BY <2>1, <2>2, <1>3, TickLemma, JoinLemma DEF SoSend
<1>4. ASSUME NEW t \in Thr, NEW s \in SO, SoRecv(t, s) PROVE ClocksTypeOK'
  BY <1>4, JoinLemma DEF SoRecv, Created
<1>5. ASSUME NEW t \in Thr, NEW s \in SO, SoExtract(t, s) PROVE ClocksTypeOK'
  BY <1>5 DEF SoExtract
<1>6. ASSUME NEW s \in SO, NEW other \in SO, SoJoin(s, other) PROVE ClocksTypeOK'
  BY <1>6, JoinLemma DEF SoJoin
<1>7. ASSUME NEW t \in Thr, NEW c \in Cell, AccessByOrder(t, c) PROVE ClocksTypeOK'
  BY <1>7 DEF AccessByOrder
<1>8. ASSUME NEW t \in Thr, NEW c \in Cell, AccessShared(t, c) PROVE ClocksTypeOK'
  BY <1>8 DEF AccessShared
<1>9. ASSUME NEW t \in Thr, NEW c \in Cell, SpinRead(t, c) PROVE ClocksTypeOK'
  BY <1>9, JoinLemma DEF SpinRead, Created
<1>10. ASSUME NEW t \in Thr, NEW c \in Cell, SpinWrite(t, c) PROVE ClocksTypeOK'
  BY <1>10, TickLemma DEF SpinWrite, MayTick, Created
<1>11. ASSUME NEW c \in Cell, RangeReset(c) PROVE ClocksTypeOK'
  BY <1>11 DEF RangeReset
<1>12. ASSUME NEW c \in Cell, NEW d \in Cell, CopyShadow(c, d) PROVE ClocksTypeOK'
  BY <1>12 DEF CopyShadow
<1>13. CASE UNCHANGED cvars
  BY <1>13 DEF cvars
<1> QED
  BY <1>1, <1>2, <1>3, <1>4, <1>5, <1>6, <1>7, <1>8, <1>9, <1>10, <1>11, <1>12, <1>13
  DEF ClocksNext

\* The clocks are well typed in every reachable state.
THEOREM ClocksType == ClocksSpec => []ClocksTypeOK
BY TypeInit, TypeStep, PTL DEF ClocksSpec

----------------------------------------------------------------------------
(* Nobody knows more of a thread's time than the thread itself. *)

\* How much time of thread t has passed.
Now(t) == IF Created(t) THEN clk[t][t] ELSE 0

\* A timestamp, or no timestamp, that stays within the present.
Past(v) == v # NoVTS => \A t \in Thr : v[t] <= Now(t)

\* The invariant, holder by holder.
Bounded ==
  /\ \A u \in Thr : Past(clk[u])
  /\ \A s \in SO : Past(soClk[s])
  /\ \A c \in Cell : Past(cell[c])

LEMMA BoundedIsOwn == Bounded <=> OwnComponentIsGreatest
BY DEF Bounded, OwnComponentIsGreatest, Past, Now, Stamps

\* Time passes: what was in the past stays there when no thread moves back.
LEMMA PastStays ==
  ASSUME ClocksTypeOK, ClocksTypeOK',
         \A t \in Thr : Now(t) <= Now(t)',
         NEW v \in MaybeVTS, Past(v)
  PROVE  v # NoVTS => \A t \in Thr : v[t] <= Now(t)'
<1>1. \A t \in Thr : Now(t) \in Nat /\ Now(t)' \in Nat
  BY DEF ClocksTypeOK, MaybeVTS, Now, Created, VTS
<1>2. ASSUME v # NoVTS, NEW t \in Thr PROVE v[t] \in Nat
  BY <1>2 DEF MaybeVTS, VTS
<1> QED BY <1>1, <1>2 DEF Past

LEMMA BoundedInit == ClocksInit => Bounded
BY SingletonLemma, RootAssumption, NoVTSAssumption
DEF ClocksInit, Bounded, Past, Now, Created

LEMMA BoundedStep ==
  ClocksTypeOK /\ ClocksTypeOK' /\ Bounded /\ [ClocksNext]_cvars
    => Bounded' /\ (\A t \in Thr : Created(t) => Created(t)' /\ VTS__leq(clk[t], clk'[t]))
<1> SUFFICES ASSUME ClocksTypeOK, ClocksTypeOK', Bounded, [ClocksNext]_cvars
             PROVE  /\ Bounded'
                    /\ \A t \in Thr : Created(t) => Created(t)' /\ VTS__leq(clk[t], clk'[t])
  OBVIOUS
<1> DEFINE Forward == \A t \in Thr : Created(t) => Created(t)' /\ VTS__leq(clk[t], clk'[t])
           Later(v) == v # NoVTS => \A t \in Thr : v[t] <= Now(t)'
<1> USE NoVTSAssumption
<1>a. ASSUME Forward PROVE \A t \in Thr : Now(t) <= Now(t)'
  <2> SUFFICES ASSUME NEW t \in Thr PROVE Now(t) <= Now(t)'
    OBVIOUS
  <2>1. CASE Created(t)
    BY <1>a, <2>1 DEF Now, VTS__leq
  <2>2. CASE ~Created(t)
    BY <2>2 DEF Now, Created, ClocksTypeOK, MaybeVTS, VTS
  <2> QED BY <2>1, <2>2
<1>b. ASSUME Forward
      PROVE  /\ \A u \in Thr : Later(clk[u])
             /\ \A s \in SO : Later(soClk[s])
             /\ \A c \in Cell : Later(cell[c])
  BY <1>a, <1>b, PastStays DEF Bounded, ClocksTypeOK
<1>c. \A v \in VTS, w \in VTS : Later(v) /\ Later(w) => Later(VTS__join(v, w))
  BY JoinLemma
<1>d. ASSUME UNCHANGED clk PROVE Forward
  BY <1>d, LeqRefl DEF Created, ClocksTypeOK, MaybeVTS
<1>e. ASSUME NEW t \in Thr, Created(t), clk' = [clk EXCEPT ![t] = VTS__tick(t, @)]
      PROVE Forward /\ \A u \in Thr : Later(clk'[u])
  <2>1. clk[t] \in VTS
    BY <1>e DEF Created, ClocksTypeOK, MaybeVTS
  <2>2. Forward
    BY <1>e, <2>1, LeqRefl, TickLemma DEF Created, ClocksTypeOK, MaybeVTS
  <2>3. Later(clk'[t])
    <3> SUFFICES ASSUME NEW u \in Thr PROVE clk'[t][u] <= Now(u)'
      OBVIOUS
    <3>1. CASE u = t
      <4>1. Now(t)' = clk'[t][t] /\ clk'[t] \in VTS
        BY <1>e, <2>1, TickLemma DEF Now, Created, ClocksTypeOK
      <4> QED BY <3>1, <4>1 DEF VTS
    <3>2. CASE u # t
      <4>1. clk'[t][u] = clk[t][u]
        BY <1>e, <2>1, <3>2, TickLemma DEF ClocksTypeOK
      <4> QED BY <4>1, <2>2, <1>b, <1>e DEF Created
    <3> QED BY <3>1, <3>2
  <2>4. \A u \in Thr : u # t => clk'[u] = clk[u]
    BY <1>e DEF ClocksTypeOK
  <2> QED BY <2>2, <2>3, <2>4, <1>b
<1>f. ASSUME NEW t \in Thr, Created(t), NEW v \in VTS, Past(v),
             clk' = [clk EXCEPT ![t] = VTS__join(@, v)]
      PROVE Forward /\ \A u \in Thr : Later(clk'[u])
  <2>1. clk[t] \in VTS
    BY <1>f DEF Created, ClocksTypeOK, MaybeVTS
  <2>2. Forward
    BY <1>f, <2>1, LeqRefl, JoinLemma DEF Created, ClocksTypeOK, MaybeVTS
  <2>3. Later(v) /\ Later(clk[t])
    BY <2>2, <1>a, <1>b, <1>f, PastStays DEF MaybeVTS
  <2>4. Later(clk'[t])
    BY <2>1, <2>3, <1>c, <1>f DEF ClocksTypeOK
  <2>5. \A u \in Thr : u # t => clk'[u] = clk[u]
    BY <1>f DEF ClocksTypeOK
  <2> QED BY <2>2, <2>4, <2>5, <1>b
<1>g. ASSUME \A u \in Thr : Later(clk'[u]), \A s \in SO : Later(soClk'[s]),
             \A c \in Cell : Later(cell'[c])
      PROVE Bounded'
  BY <1>g DEF Bounded, Past
<1>1. ASSUME NEW p \in Thr, NEW t \in Thr, Create(p, t) PROVE Bounded' /\ Forward
  <2> USE DEF Create, MayTick
  <2>1. clk[p] \in VTS /\ p # t
    BY <1>1 DEF Created, ClocksTypeOK, MaybeVTS
  <2>2. /\ clk'[t] = VTS__tick(t, clk[p]) /\ clk'[p] = VTS__tick(p, clk[p])
        /\ \A u \in Thr \ {p, t} : clk'[u] = clk[u]
    BY <1>1, <2>1 DEF ClocksTypeOK
  <2>3. Forward
    <3> SUFFICES ASSUME NEW u \in Thr, Created(u)
                 PROVE  Created(u)' /\ VTS__leq(clk[u], clk'[u])
      OBVIOUS
    <3>1. clk[u] \in VTS /\ u # t
      BY <1>1 DEF Created, ClocksTypeOK, MaybeVTS
    <3>2. CASE u = p
      BY <2>1, <2>2, <3>2, TickLemma DEF Created
    <3>3. CASE u # p
      <4>1. clk'[u] = clk[u]
        BY <2>2, <3>1, <3>3
      <4> QED BY <4>1, <3>1, LeqRefl DEF Created
    <3> QED BY <3>2, <3>3
  <2>4. ASSUME NEW q \in {p, t} PROVE Later(clk'[q])
    <3> SUFFICES ASSUME NEW u \in Thr PROVE clk'[q][u] <= Now(u)'
      OBVIOUS
    <3>0. q \in Thr /\ clk'[q] = VTS__tick(q, clk[p]) /\ clk'[q] \in VTS
      BY <2>1, <2>2, TickLemma
    <3>1. CASE u = q
      <4>1. Now(u)' = clk'[q][u]
        BY <3>0, <3>1 DEF Now, Created
      <4> QED BY <4>1, <3>0 DEF VTS
    <3>2. CASE u # q
      <4>1. clk'[q][u] = clk[p][u]
        BY <3>0, <3>2, <2>1 DEF VTS, VTS__tick
      <4> QED BY <4>1, <2>1, <2>3, <1>b
    <3> QED BY <3>1, <3>2
  <2>5. \A u \in Thr : Later(clk'[u])
    BY <2>2, <2>3, <2>4, <1>b
  <2> QED BY <2>3, <2>5, <1>b, <1>g, <1>1
<1>2. ASSUME NEW s \in SO, SoAlloc(s) \/ SoDealloc(s) PROVE Bounded' /\ Forward
  BY <1>2, <1>b, <1>d, <1>g DEF SoAlloc, SoDealloc, ClocksTypeOK
<1>3. ASSUME NEW t \in Thr, NEW s \in SO, NEW strong \in BOOLEAN, SoSend(t, s, strong)
      PROVE Bounded' /\ Forward
  <2>1. Forward /\ \A u \in Thr : Later(clk'[u])
    BY <1>3, <1>e DEF SoSend, MayTick
  <2>2. clk[t] \in VTS /\ Later(clk[t]) /\ Later(soClk[s])
    BY <2>1, <1>3, <1>b DEF SoSend, MayTick, Created, ClocksTypeOK, MaybeVTS
  <2>3. Later(soClk'[s])
    BY <2>2, <1>3, <1>c DEF SoSend, ClocksTypeOK, MaybeVTS
  <2>4. \A r \in SO : r # s => soClk'[r] = soClk[r]
    BY <1>3 DEF SoSend, ClocksTypeOK
  <2> QED BY <2>1, <2>3, <2>4, <1>b, <1>g, <1>3 DEF SoSend
<1>4. ASSUME NEW t \in Thr, NEW s \in SO, SoRecv(t, s) PROVE Bounded' /\ Forward
  <2>1. CASE soClk[s] = NoVTS
    BY <2>1, <1>4, <1>b, <1>d, <1>g DEF SoRecv
  <2>2. CASE soClk[s] # NoVTS
    <3>1. soClk[s] \in VTS /\ Past(soClk[s])
      BY <2>2 DEF ClocksTypeOK, MaybeVTS, Bounded
    <3> QED BY <3>1, <2>2, <1>4, <1>b, <1>f, <1>g DEF SoRecv
  <2> QED BY <2>1, <2>2
<1>5. ASSUME NEW t \in Thr, NEW s \in SO, SoExtract(t, s) PROVE Bounded' /\ Forward
  BY <1>5, <1>b, <1>d, <1>g DEF SoExtract, ClocksTypeOK
<1>6. ASSUME NEW s \in SO, NEW other \in SO, SoJoin(s, other) PROVE Bounded' /\ Forward
  <2>1. Forward
    BY <1>6, <1>d DEF SoJoin
  <2>2. Later(soClk'[s])
    BY <2>1, <1>6, <1>b, <1>c DEF SoJoin, ClocksTypeOK, MaybeVTS
  <2>3. \A r \in SO : r # s => soClk'[r] = soClk[r]
    BY <1>6 DEF SoJoin, ClocksTypeOK
  <2> QED BY <2>1, <2>2, <2>3, <1>b, <1>g, <1>6 DEF SoJoin
<1>7. ASSUME NEW t \in Thr, NEW c \in Cell, AccessByOrder(t, c) \/ AccessShared(t, c)
      PROVE Bounded' /\ Forward
  <2>1. Forward
    BY <1>7, <1>d DEF AccessByOrder, AccessShared
  <2>2. cell'[c] \in {cell[c], clk[t], NoVTS} /\ \A d \in Cell : d # c => cell'[d] = cell[d]
    BY <1>7 DEF AccessByOrder, AccessShared, ClocksTypeOK
  <2>3. \A d \in Cell : Later(cell'[d])
    BY <2>1, <2>2, <1>b
  <2> QED BY <2>1, <2>3, <1>b, <1>g, <1>7 DEF AccessByOrder, AccessShared
<1>8. ASSUME NEW t \in Thr, NEW c \in Cell, SpinRead(t, c) PROVE Bounded' /\ Forward
  <2>1. CASE cell[c] = NoVTS
    BY <2>1, <1>8, <1>b, <1>d, <1>g DEF SpinRead, ClocksTypeOK
  <2>2. CASE cell[c] # NoVTS
    <3>1. cell[c] \in VTS /\ Past(cell[c])
      BY <2>2 DEF ClocksTypeOK, MaybeVTS, Bounded
    <3> QED BY <3>1, <2>2, <1>8, <1>b, <1>f, <1>g DEF SpinRead
  <2> QED BY <2>1, <2>2
<1>9. ASSUME NEW t \in Thr, NEW c \in Cell, SpinWrite(t, c) PROVE Bounded' /\ Forward
  <2>1. Forward /\ \A u \in Thr : Later(clk'[u])
    BY <1>9, <1>e DEF SpinWrite, MayTick
  <2>2. \A d \in Cell : Later(cell'[d])
    BY <2>1, <1>9, <1>b DEF SpinWrite, ClocksTypeOK
  <2> QED BY <2>1, <2>2, <1>b, <1>g, <1>9 DEF SpinWrite
<1>10. ASSUME NEW c \in Cell, RangeReset(c) PROVE Bounded' /\ Forward
  BY <1>10, <1>b, <1>d, <1>g DEF RangeReset, ClocksTypeOK
<1>11. ASSUME NEW c \in Cell, NEW d \in Cell, CopyShadow(c, d) PROVE Bounded' /\ Forward
  BY <1>11, <1>b, <1>d, <1>g DEF CopyShadow, ClocksTypeOK
<1>12. CASE UNCHANGED cvars
  BY <1>12, <1>b, <1>d, <1>g DEF cvars
<1> QED
  BY <1>1, <1>2, <1>3, <1>4, <1>5, <1>6, <1>7, <1>8, <1>9, <1>10, <1>11, <1>12
  DEF ClocksNext

\* No timestamp in a thread, an SO or a shadow cell is ahead of the thread it
\* speaks about, for any number of threads, SOs and cells.
THEOREM OwnComponent == ClocksSpec => []OwnComponentIsGreatest
<1>1. ClocksInit => ClocksTypeOK /\ Bounded
  BY TypeInit, BoundedInit
<1>2. ClocksTypeOK /\ Bounded /\ [ClocksNext]_cvars => ClocksTypeOK' /\ Bounded'
  BY TypeStep, BoundedStep
<1>3. ClocksTypeOK /\ Bounded => OwnComponentIsGreatest
  BY BoundedIsOwn
<1> QED BY <1>1, <1>2, <1>3, PTL DEF ClocksSpec

\* No operation of libhb moves a thread's timestamp back or drops it.
THEOREM NeverBack == ClocksSpec => ClockNeverMovesBack
<1>1. ClocksInit => ClocksTypeOK /\ Bounded
  BY TypeInit, BoundedInit
<1>2. ClocksTypeOK /\ Bounded /\ [ClocksNext]_cvars => ClocksTypeOK' /\ Bounded'
  BY TypeStep, BoundedStep
<1>3. ClocksTypeOK /\ Bounded /\ [ClocksNext]_cvars
        => [\A t \in Thr : Created(t) => Created(t)' /\ VTS__leq(clk[t], clk'[t])]_cvars
  BY TypeStep, BoundedStep
<1> QED BY <1>1, <1>2, <1>3, PTL DEF ClocksSpec, ClockNeverMovesBack

\* After a send the sender's timestamp is not covered by what the SO holds.
THEOREM SendsSeparate == ClocksSpec => SendSeparates
<1> DEFINE Sep == \A t \in Thr, s \in SO : (\E b \in BOOLEAN : SoSend(t, s, b))
                     => ~ VTS__leq(clk'[t], soClk'[s])
<1>1. ClocksInit => ClocksTypeOK /\ Bounded
  BY TypeInit, BoundedInit
<1>2. ClocksTypeOK /\ Bounded /\ [ClocksNext]_cvars => ClocksTypeOK' /\ Bounded'
  BY TypeStep, BoundedStep
<1>3. ClocksTypeOK /\ Bounded => Sep
  <2> SUFFICES ASSUME ClocksTypeOK, Bounded,
                      NEW t \in Thr, NEW s \in SO, NEW b \in BOOLEAN, SoSend(t, s, b)
               PROVE  ~ VTS__leq(clk'[t], soClk'[s])
    OBVIOUS
  <2>1. Created(t) /\ clk[t] \in VTS
    BY NoVTSAssumption DEF SoSend, MayTick, Created, ClocksTypeOK, MaybeVTS
  <2>2. clk'[t][t] = clk[t][t] + 1
    BY <2>1, TickLemma DEF SoSend, ClocksTypeOK
  <2>3. soClk'[s][t] <= clk[t][t]
    <3>1. CASE b \/ soClk[s] = NoVTS
      BY <3>1, <2>1 DEF SoSend, ClocksTypeOK, VTS
    <3>2. CASE ~(b \/ soClk[s] = NoVTS)
      <4>1. soClk[s] \in VTS /\ soClk[s][t] <= clk[t][t]
        BY <2>1, <3>2 DEF ClocksTypeOK, MaybeVTS, Bounded, Past, Now
      <4>2. soClk'[s] = VTS__join(soClk[s], clk[t])
        BY <3>2 DEF SoSend, ClocksTypeOK
      <4> QED BY <4>1, <4>2, <2>1, JoinLemma DEF VTS
    <3> QED BY <3>1, <3>2
  <2>4. clk[t][t] \in Nat /\ soClk'[s][t] \in Nat
    <3>1. soClk'[s] \in VTS
      BY <2>1, JoinLemma DEF SoSend, ClocksTypeOK, MaybeVTS
    <3> QED BY <3>1, <2>1 DEF VTS
  <2> QED BY <2>2, <2>3, <2>4 DEF VTS__leq
<1>4. ClocksTypeOK /\ Bounded /\ [ClocksNext]_cvars => [Sep]_cvars
  BY <1>3
<1> QED BY <1>1, <1>2, <1>4, PTL DEF ClocksSpec, SendSeparates


----------------------------------------------------------------------------
(* Finite sets of numbers *)

\* A set of numbers that is not empty has a least element.
LEMMA Least ==
  ASSUME NEW S \in SUBSET Nat, S # {}
  PROVE  \E x \in S : \A y \in S : x <= y
<1>1. PICK x \in S : \A y \in S : ~(<<y, x>> \in OpToRel(<, Nat))
  BY WFMin, NatLessThanWellFounded, Zenon
<1>2. \A y \in S : ~(y < x)
  BY <1>1 DEF OpToRel
<1> QED BY <1>2

\* A finite set of numbers that is not empty has a greatest element.
LEMMA Greatest ==
  ASSUME NEW S \in SUBSET Nat, IsFiniteSet(S), S # {}
  PROVE  \E x \in S : \A y \in S : y <= x
<1> DEFINE Bad(U) == IsFiniteSet(U) /\ U # {} /\ \A x \in U : \E y \in U : ~(y <= x)
           T == {n \in Nat : \E U \in SUBSET S : Bad(U) /\ Cardinality(U) = n}
<1> SUFFICES ASSUME Bad(S) PROVE FALSE
  OBVIOUS
<1>1. Cardinality(S) \in T
  BY FS_CardinalityType
<1>2. PICK n \in T : \A k \in T : n <= k
  <2>1. T \in SUBSET Nat /\ T # {}
    BY <1>1
  <2> HIDE DEF T
  <2> QED BY <2>1, Least
<1>3. PICK U \in SUBSET S : Bad(U) /\ Cardinality(U) = n
  OBVIOUS
<1>4. PICK x \in U : TRUE
  BY <1>3
<1>5. IsFiniteSet(U \ {x}) /\ Cardinality(U \ {x}) = n - 1
  BY <1>3, <1>4, FS_RemoveElement
<1>6. Cardinality(U \ {x}) \in Nat
  BY <1>5, FS_CardinalityType
<1>7. ~Bad(U \ {x})
  <2> SUFFICES ASSUME Bad(U \ {x}) PROVE FALSE
    OBVIOUS
  <2>1. n - 1 \in T
    BY <1>5, <1>6
  <2> QED BY <2>1, <1>2
<1>8. CASE U \ {x} = {}
  <2>1. U = {x}
    BY <1>4, <1>8
  <2> QED BY <1>3, <2>1
<1>9. CASE U \ {x} # {}
  <2>1. PICK y \in U \ {x} : \A z \in U \ {x} : z <= y
    BY <1>5, <1>7, <1>9
  <2>2. CASE x <= y
    BY <1>3, <2>1, <2>2
  <2>3. CASE y <= x
    <3>1. \A z \in U : z <= x
      BY <2>1, <2>3, <1>4
    <3> QED BY <1>3, <1>4, <3>1
  <2> QED BY <1>4, <2>1, <2>2, <2>3
<1> QED BY <1>8, <1>9

\* The numbers of S have their places in the order of S.
LEMMA NthExists ==
  ASSUME NEW S \in SUBSET Nat, IsFiniteSet(S), NEW k \in Nat, k < Cardinality(S)
  PROVE  \E s \in S : Cardinality({r \in S : r < s}) = k
<1> DEFINE P(j) == \E s \in S : Cardinality({r \in S : r < s}) = j
           T == {j \in Nat : j < Cardinality(S) /\ ~P(j)}
<1> SUFFICES ASSUME ~P(k) PROVE FALSE
  OBVIOUS
<1>0. Cardinality(S) \in Nat
  BY FS_CardinalityType
<1>1. PICK n \in T : \A j \in T : n <= j
  <2>1. k \in T
    OBVIOUS
  <2>2. T \in SUBSET Nat /\ T # {}
    BY <2>1
  <2> HIDE DEF T
  <2> QED BY <2>2, Least
<1>2. CASE n = 0
  <2>1. S # {}
    BY <1>0, <1>1, <1>2, FS_EmptySet
  <2>2. PICK s \in S : \A r \in S : s <= r
    BY <2>1, Least
  <2>3. \A r \in S : ~(r < s)
    BY <2>2
  <2>3a. {r \in S : r < s} = {}
    BY <2>3, Zenon
  <2>4. P(0)
    BY <2>3a, FS_EmptySet
  <2> QED BY <1>1, <1>2, <2>4
<1>3. CASE n # 0
  <2>1. n - 1 \in Nat /\ n - 1 \notin T
    BY <1>1, <1>3
  <2>2. P(n - 1)
    BY <1>0, <1>1, <2>1
  <2>3. PICK s \in S : Cardinality({r \in S : r < s}) = n - 1
    BY <2>2
  <2> DEFINE L == {r \in S : r < s}
  <2>4. IsFiniteSet(L) /\ s \notin L
    BY FS_Subset
  <2>5. IsFiniteSet(L \cup {s}) /\ Cardinality(L \cup {s}) = n
    <3>1. Cardinality(L \cup {s}) = Cardinality(L) + 1 /\ IsFiniteSet(L \cup {s})
      BY <2>4, FS_AddElement
    <3> QED BY <2>3, <3>1
  <2>6. S \ (L \cup {s}) # {}
    <3> SUFFICES ASSUME S = L \cup {s} PROVE FALSE
      OBVIOUS
    <3> QED BY <2>5, <1>1
  <2>7. PICK x \in S \ (L \cup {s}) : \A y \in S \ (L \cup {s}) : x <= y
    BY <2>6, Least
  <2>8. {r \in S : r < x} = L \cup {s}
    <3>1. ASSUME NEW r \in S, r < x PROVE r \in L \cup {s}
      BY <2>7, <3>1
    <3>2. ASSUME NEW r \in L \cup {s} PROVE r \in S /\ r < x
      BY <2>7, <3>2
    <3> QED BY <3>1, <3>2
  <2>9. P(n)
    BY <2>5, <2>7, <2>8
  <2> QED BY <1>1, <2>9
<1> QED BY <1>2, <1>3

LEMMA NthIn ==
  ASSUME NEW S \in SUBSET Nat, IsFiniteSet(S), NEW k \in Nat, k < Cardinality(S)
  PROVE  Nth(S, k) \in S /\ Cardinality({r \in S : r < Nth(S, k)}) = k
BY NthExists DEF Nth

\* Different places have different numbers.
LEMMA NthDiffer ==
  ASSUME NEW S \in SUBSET Nat, IsFiniteSet(S), NEW j \in Nat, j < Cardinality(S),
         NEW k \in Nat, k < Cardinality(S), Nth(S, j) = Nth(S, k)
  PROVE  j = k
<1>1. Cardinality({r \in S : r < Nth(S, j)}) = j
  BY NthIn
<1>2. Cardinality({r \in S : r < Nth(S, k)}) = k
  BY NthIn
<1> QED BY <1>1, <1>2

\* There is an injection into a set that is not smaller.
LEMMA InjectionExists ==
  ASSUME NEW S, IsFiniteSet(S), NEW T, IsFiniteSet(T), Cardinality(S) <= Cardinality(T)
  PROVE  \E g \in Injection(S, T) : TRUE
<1>1. Cardinality(S) \in Nat /\ Cardinality(T) \in Nat
  BY FS_CardinalityType
<1>2. ExistsBijection(1 .. Cardinality(S), S) /\ ExistsBijection(1 .. Cardinality(T), T)
  BY FS_CardinalityType
<1>3. ExistsInjection(1 .. Cardinality(S), 1 .. Cardinality(T))
  BY <1>1, Fun_NatInjLeq
<1>4. ExistsInjection(S, 1 .. Cardinality(S)) /\ ExistsInjection(1 .. Cardinality(T), T)
  BY <1>2, Fun_ExistsBijEquiv, Zenon
<1>5. ExistsInjection(S, T)
  BY <1>3, <1>4, Fun_ExistsInjTransitive, Zenon
<1> QED BY <1>5 DEF ExistsInjection

\* The image of a finite set is finite.
LEMMA ImageFinite ==
  ASSUME NEW S, IsFiniteSet(S), NEW f
  PROVE  IsFiniteSet({f[x] : x \in S})
<1> DEFINE N == {f[x] : x \in S}
           g == [x \in S |-> f[x]]
<1>1. g \in Surjection(S, N)
  BY DEF Surjection
<1> HIDE DEF N, g
<1>2. IsFiniteSet(N)
  BY <1>1, FS_Surjection, Zenon
<1> QED BY <1>2 DEF N

\* The join of finitely many timestamps is a timestamp above each of them.
LEMMA JoinAllLemma ==
  ASSUME NEW S \in SUBSET VTS, IsFiniteSet(S), S # {}
  PROVE  JoinAll(S) \in VTS /\ \A v \in S : VTS__leq(v, JoinAll(S))
<1>1. ASSUME NEW u \in Thr
      PROVE  \E n \in {v[u] : v \in S} : \A v \in S : v[u] <= n
  <2> DEFINE N == {v[u] : v \in S}
             f == [v \in S |-> v[u]]
  <2>1. N \in SUBSET Nat /\ N # {}
    BY DEF VTS
  <2>2. N = {f[v] : v \in S}
    OBVIOUS
  <2>3. IsFiniteSet(N)
    <3> HIDE DEF N, f
    <3> QED BY <2>2, ImageFinite
  <2>4. PICK n \in N : \A k \in N : k <= n
    <3> HIDE DEF N
    <3> QED BY <2>1, <2>3, Greatest
  <2> QED BY <2>4
<1>2. ASSUME NEW u \in Thr
      PROVE  JoinAll(S)[u] \in {v[u] : v \in S} /\ \A v \in S : v[u] <= JoinAll(S)[u]
  BY <1>1 DEF JoinAll
<1>3. ASSUME NEW u \in Thr PROVE JoinAll(S)[u] \in Nat
  BY <1>2 DEF VTS
<1>4. JoinAll(S) \in VTS
  BY <1>3 DEF JoinAll, VTS
<1> QED BY <1>2, <1>4 DEF VTS__leq

\* So is a timestamp after some ticks.
LEMMA TicksLemma ==
  ASSUME NEW v \in VTS, NEW t \in Thr, NEW n \in Nat
  PROVE  Ticks(t, v, n) \in VTS /\ VTS__leq(v, Ticks(t, v, n))
BY DEF Ticks, VTS, VTS__leq

LEMMA LeqTrans ==
  ASSUME NEW a \in VTS, NEW b \in VTS, NEW c \in VTS, VTS__leq(a, b), VTS__leq(b, c)
  PROVE  VTS__leq(a, c)
<1> SUFFICES ASSUME NEW u \in Thr PROVE a[u] <= c[u]
  BY DEF VTS__leq
<1>1. a[u] \in Nat /\ b[u] \in Nat /\ c[u] \in Nat
  BY DEF VTS
<1>2. a[u] <= b[u] /\ b[u] <= c[u]
  BY DEF VTS__leq
<1> QED BY <1>1, <1>2

----------------------------------------------------------------------------
(* Types *)

\* The library calls a thread may be in.
PC ==
       [op : {"idle"}]
  \cup [op : {"create"}, child : Thr]
  \cup [op : {"join"}, h : Pth, q : Thr]
  \cup [op : {"sem_post", "sem_wait"}, m : Sem]
  \cup [op : {"bar", "barIn"}, b : Barrier, at : VTS]
  \cup [op : {"signal"}, c : Cond, all : BOOLEAN, at : VTS]
  \cup [op : {"condPre", "condIn"}, c : Cond, m : Mutex]
  \cup [op : {"condWoken", "condBack"}, c : Cond, m : Mutex, by : MaybeVTS, timed : BOOLEAN]

ThrLSD ==
  [waiting : BOOLEAN, in_waiting_loop : BOOLEAN, record_writes : BOOLEAN,
   record_reads : BOOLEAN, writes : Seq(Var), reads : Seq(Var),
   expect : {<<>>} \cup (Cond \X Mutex), cvlist : SUBSET (Cond \X Mutex)]

ThreadsTyped ==
  /\ life \in [Thr -> {"unborn", "started", "running", "gone", "joined"}]
  /\ pth \in [Thr -> Pth]
  /\ map_threads \in [Tid -> Thr \cup {NoThr}]
  /\ map_pthread_t_to_Thread \in [Pth -> Thr \cup {NoThr}]
  /\ locksetA \in [Thr -> SUBSET Mutex]
  /\ hit \subseteq Allowed
  /\ joiner \in [Thr -> Thr \cup {NoThr}]

PcTyped == pc \in [Thr -> PC]

\* The threads that have a timestamp, and the calls only running threads are in.
LifeTyped ==
  /\ \A t \in Thr : clk[t] = NoVTS <=> life[t] = "unborn"
  /\ \A t \in Thr : pc[t].op # "idle" => life[t] = "running"
  /\ ended \in [Thr -> VTS]

SemTyped ==
  /\ semVal \in [Sem -> Int] /\ semStack \in [Sem -> Seq(SO)]
  /\ semPosts \in [Sem -> SUBSET VTS] /\ semWaiters \in [Sem -> SUBSET Thr]

BarTyped ==
  /\ BarrierTypeOK
  /\ \A b \in Barrier : \A i \in DOMAIN bar[b].waiting : life[bar[b].waiting[i]] # "unborn"

CondTyped ==
  /\ lsdLevel \in 0 .. 2
  /\ condSO \in [Cond -> SO \cup {NoSO}] /\ condVars \subseteq Cond
  /\ recorded \in [Cond -> Seq([writes : Seq(Var), so : SO])]
  /\ \A c \in Cond : Len(recorded[c]) <= RecMax
  /\ sent \in [Cond -> MaybeVTS]

LsdTyped ==
  /\ lsd \in [Thr -> ThrLSD]
  /\ loop \in [Thr -> {"out", "test", "body"}]
  /\ owner \in [Mutex -> Thr \cup {NoThr}]
  /\ \A t \in Thr : Len(lsd[t].writes) <= AccMax /\ Len(lsd[t].reads) <= AccMax
  /\ \A t \in Thr : loop[t] # "out" => lsd[t].expect # <<>>

Typed == ClocksTypeOK /\ ThreadsTyped /\ PcTyped /\ LifeTyped /\ SemTyped /\ BarTyped
         /\ CondTyped /\ LsdTyped

\* The fields that a call has.
LEMMA PcFields ==
  ASSUME NEW p \in PC
  PROVE  /\ p.op \in {"idle", "create", "join", "sem_post", "sem_wait", "bar", "barIn",
                      "signal", "condPre", "condIn", "condWoken", "condBack"}
         /\ p.op = "idle" => p = Idle
         /\ p.op = "create" => p.child \in Thr
         /\ p.op = "join" => p.h \in Pth /\ p.q \in Thr
         /\ p.op \in {"sem_post", "sem_wait"} => p.m \in Sem
         /\ p.op \in {"bar", "barIn"} => p.b \in Barrier /\ p.at \in VTS
         /\ p.op = "signal" => p.c \in Cond /\ p.all \in BOOLEAN /\ p.at \in VTS
         /\ p.op \in {"condPre", "condIn", "condWoken", "condBack"} => p.c \in Cond /\ p.m \in Mutex
         /\ p.op \in {"condWoken", "condBack"} => p.by \in MaybeVTS /\ p.timed \in BOOLEAN
BY DEF PC, Idle

\* The steps of the external library that only move on in a call.
LEMMA PcMoves ==
  ASSUME NEW p \in PC
  PROVE  /\ p.op = "bar" => [p EXCEPT !.op = "barIn"] = [op |-> "barIn", b |-> p.b, at |-> p.at]
         /\ p.op = "condPre" => [p EXCEPT !.op = "condIn"] = [op |-> "condIn", c |-> p.c, m |-> p.m]
         /\ p.op = "condWoken" => [p EXCEPT !.op = "condBack"] =
              [op |-> "condBack", c |-> p.c, m |-> p.m, by |-> p.by, timed |-> p.timed]
         /\ p.op = "bar" => [p EXCEPT !.op = "barIn"] \in PC
         /\ p.op = "condPre" => [p EXCEPT !.op = "condIn"] \in PC
         /\ p.op = "condWoken" => [p EXCEPT !.op = "condBack"] \in PC
<1>1. p.op = "bar" => p \in [op : {"bar", "barIn"}, b : Barrier, at : VTS]
  BY DEF PC
<1>2. p.op = "condPre" => p \in [op : {"condPre", "condIn"}, c : Cond, m : Mutex]
  BY DEF PC
<1>3. p.op = "condWoken" => p \in [op : {"condWoken", "condBack"}, c : Cond, m : Mutex,
                                   by : MaybeVTS, timed : BOOLEAN]
  BY DEF PC
<1>4. p.op = "bar" => [p EXCEPT !.op = "barIn"] \in PC
  BY <1>1 DEF PC
<1>5. p.op = "condPre" => [p EXCEPT !.op = "condIn"] \in PC
  BY <1>2 DEF PC
<1>6. p.op = "condWoken" => [p EXCEPT !.op = "condBack"] \in PC
  BY <1>3 DEF PC
<1> QED BY <1>1, <1>2, <1>3, <1>4, <1>5, <1>6

\* Every kind of call.
LEMMA PcMembers ==
  /\ Idle \in PC /\ Idle.op = "idle"
  /\ \A t \in Thr : [op |-> "create", child |-> t] \in PC
  /\ \A h \in Pth, q \in Thr : [op |-> "join", h |-> h, q |-> q] \in PC
  /\ \A m \in Sem : [op |-> "sem_post", m |-> m] \in PC /\ [op |-> "sem_wait", m |-> m] \in PC
  /\ \A b \in Barrier, v \in VTS : /\ [op |-> "bar", b |-> b, at |-> v] \in PC
                                   /\ [op |-> "barIn", b |-> b, at |-> v] \in PC
  /\ \A c \in Cond, a \in BOOLEAN, v \in VTS : [op |-> "signal", c |-> c, all |-> a, at |-> v] \in PC
  /\ \A c \in Cond, m \in Mutex : /\ [op |-> "condPre", c |-> c, m |-> m] \in PC
                                  /\ [op |-> "condIn", c |-> c, m |-> m] \in PC
  /\ \A c \in Cond, m \in Mutex, v \in MaybeVTS, w \in BOOLEAN :
       /\ [op |-> "condWoken", c |-> c, m |-> m, by |-> v, timed |-> w] \in PC
       /\ [op |-> "condBack", c |-> c, m |-> m, by |-> v, timed |-> w] \in PC
<1>1. Idle \in PC /\ Idle.op = "idle"
  BY DEF PC, Idle
<1>2. \A t \in Thr : [op |-> "create", child |-> t] \in PC
  BY DEF PC
<1>3. \A h \in Pth, q \in Thr : [op |-> "join", h |-> h, q |-> q] \in PC
  BY DEF PC
<1>4. \A m \in Sem : [op |-> "sem_post", m |-> m] \in PC /\ [op |-> "sem_wait", m |-> m] \in PC
  BY DEF PC
<1>5. \A b \in Barrier, v \in VTS : /\ [op |-> "bar", b |-> b, at |-> v] \in PC
                                    /\ [op |-> "barIn", b |-> b, at |-> v] \in PC
  BY DEF PC
<1>6. \A c \in Cond, a \in BOOLEAN, v \in VTS :
        [op |-> "signal", c |-> c, all |-> a, at |-> v] \in PC
  BY DEF PC
<1>7. \A c \in Cond, m \in Mutex : /\ [op |-> "condPre", c |-> c, m |-> m] \in PC
                                   /\ [op |-> "condIn", c |-> c, m |-> m] \in PC
  BY DEF PC
<1>8. \A c \in Cond, m \in Mutex, v \in MaybeVTS, w \in BOOLEAN :
        /\ [op |-> "condWoken", c |-> c, m |-> m, by |-> v, timed |-> w] \in PC
        /\ [op |-> "condBack", c |-> c, m |-> m, by |-> v, timed |-> w] \in PC
  BY DEF PC
<1> QED BY <1>1, <1>2, <1>3, <1>4, <1>5, <1>6, <1>7, <1>8


----------------------------------------------------------------------------
(* The four kinds of step *)

ThreadsStep == ThreadsNext /\ UNCHANGED <<semVars, barVars, condVarsAll>>
SemStep == SemNext /\ UNCHANGED <<barVars, condVarsAll>>
BarrierStep == BarrierNext /\ UNCHANGED <<semVars, condVarsAll>>
CondStep == CondNext /\ UNCHANGED <<semVars, barVars>>

LEMMA FourKinds ==
  [Next]_vars => ThreadsStep \/ SemStep \/ BarrierStep \/ CondStep \/ UNCHANGED vars
BY DEF Next, ThreadsStep, SemStep, BarrierStep, CondStep

LEMMA ThreadsTypedStep == Typed /\ [Next]_vars => ThreadsTyped'
<1> SUFFICES ASSUME Typed, [Next]_vars PROVE ThreadsTyped'
  OBVIOUS
<1> USE DEF Typed, ThreadsTyped, thrVars, DoesAll, Does
<1>1. CASE ThreadsStep
  <2>1. ASSUME NEW p \in Thr, NEW c \in Thr, evh__pre_thread_ll_create(p, c) PROVE ThreadsTyped'
    BY <2>1 DEF evh__pre_thread_ll_create
  <2>2. ASSUME NEW t \in Thr, set_my_pthread_t(t) PROVE ThreadsTyped'
    BY <2>2 DEF set_my_pthread_t
  <2>3. ASSUME NEW t \in Thr, CreateReturns(t) PROVE ThreadsTyped'
    BY <2>3 DEF CreateReturns
  <2>4. ASSUME NEW t \in Thr, evh__HG_PTHREAD_JOIN_POST(t) PROVE ThreadsTyped'
    BY <2>4 DEF evh__HG_PTHREAD_JOIN_POST
  <2>5. ASSUME NEW t \in Thr, NEW d \in BOOLEAN, evh__pre_thread_ll_exit(t, d) PROVE ThreadsTyped'
    BY <2>5 DEF evh__pre_thread_ll_exit
  <2>6. ASSUME NEW s \in Thr, NEW q \in Thr, JoinReturns(s, q) PROVE ThreadsTyped'
    BY <2>6 DEF JoinReturns
  <2> QED BY <1>1, <2>1, <2>2, <2>3, <2>4, <2>5, <2>6 DEF ThreadsStep, ThreadsNext
<1>2. CASE SemStep
  <2>1. ASSUME NEW t \in Thr, NEW m \in Sem, NEW v \in 0 .. MaxInit,
               evh__HG_POSIX_SEM_INIT_POST(t, m, v) PROVE ThreadsTyped'
    BY <2>1 DEF evh__HG_POSIX_SEM_INIT_POST
  <2>2. ASSUME NEW t \in Thr, NEW m \in Sem, \/ evh__HG_POSIX_SEM_POST_PRE(t, m) \/ RealWait(t, m)
                                             \/ evh__HG_POSIX_SEM_DESTROY_PRE(t, m)
        PROVE ThreadsTyped'
    BY <2>2 DEF evh__HG_POSIX_SEM_POST_PRE, RealWait, evh__HG_POSIX_SEM_DESTROY_PRE
  <2>3. ASSUME NEW t \in Thr, RealPost(t) \/ evh__HG_POSIX_SEM_WAIT_POST(t) PROVE ThreadsTyped'
    BY <2>3 DEF RealPost, evh__HG_POSIX_SEM_WAIT_POST
  <2> QED BY <1>2, <2>1, <2>2, <2>3 DEF SemStep, SemNext
<1>3. CASE BarrierStep
  <2>1. ASSUME NEW t \in Thr, NEW b \in Barrier, NEW n \in 0 .. MaxCount,
               evh__HG_PTHREAD_BARRIER_INIT_PRE(t, b, n) \/ evh__HG_OMP_BARRIER_REINIT_PRE(t, b, n)
        PROVE ThreadsTyped'
    BY <2>1 DEF evh__HG_PTHREAD_BARRIER_INIT_PRE, evh__HG_OMP_BARRIER_REINIT_PRE
  <2>2. ASSUME NEW t \in Thr, NEW b \in Barrier, \/ evh__HG_PTHREAD_BARRIER_DESTROY_PRE(t, b)
                                                 \/ evh__HG_PTHREAD_BARRIER_WAIT_PRE(t, b)
        PROVE ThreadsTyped'
    BY <2>2 DEF evh__HG_PTHREAD_BARRIER_DESTROY_PRE, evh__HG_PTHREAD_BARRIER_WAIT_PRE
  <2>3. ASSUME NEW t \in Thr, Arrive(t) PROVE ThreadsTyped'
    BY <2>3 DEF Arrive
  <2> QED BY <1>3, <2>1, <2>2, <2>3 DEF BarrierStep, BarrierNext
<1>4. CASE CondStep
  <2> USE PcFields DEF PcTyped
  <2>1. ASSUME NEW t \in Thr, NEW m \in Mutex, MutexLock(t, m) \/ MutexUnlock(t, m)
        PROVE ThreadsTyped'
    BY <2>1 DEF MutexLock, MutexUnlock
  <2>2. ASSUME NEW t \in Thr, NEW v \in Var, NEW w \in BOOLEAN, Access(t, v, w) PROVE ThreadsTyped'
    BY <2>2 DEF Access
  <2>3. ASSUME NEW t \in Thr, NEW c \in Cond, NEW a \in BOOLEAN,
               evh__HG_PTHREAD_COND_SIGNAL_PRE(t, c, a) PROVE ThreadsTyped'
    BY <2>3 DEF evh__HG_PTHREAD_COND_SIGNAL_PRE
  <2>4. ASSUME NEW t \in Thr, NEW c \in Cond, NEW m \in Mutex,
               evh__HG_PTHREAD_COND_WAIT_PRE(t, c, m) PROVE ThreadsTyped'
    <3>1. hit' \subseteq Allowed
      BY <2>4, Zenon DEF evh__HG_PTHREAD_COND_WAIT_PRE
    <3>2. UNCHANGED locksetA \/ locksetA' = [locksetA EXCEPT ![t] = @ \ {m}]
      BY <2>4, Zenon DEF evh__HG_PTHREAD_COND_WAIT_PRE
    <3>3. UNCHANGED thrVars
      BY <2>4, Zenon DEF evh__HG_PTHREAD_COND_WAIT_PRE
    <3> QED BY <3>1, <3>2, <3>3
  <2>5. ASSUME NEW t \in Thr, NEW c \in Cond, NEW m \in Mutex, evh__waiting_loop(t, c, m)
        PROVE ThreadsTyped'
    BY <2>5 DEF evh__waiting_loop
  <2>6. ASSUME NEW t \in Thr, NEW c \in Cond, evh__HG_PTHREAD_COND_DESTROY_PRE(t, c)
        PROVE ThreadsTyped'
    BY <2>6 DEF evh__HG_PTHREAD_COND_DESTROY_PRE
  <2>7. ASSUME NEW t \in Thr, \/ RealSignal(t) \/ Block(t) \/ WaitFails(t) \/ Timeout(t)
                              \/ Spurious(t) \/ Reacquire(t) \/ evh__waiting_loop_begin(t)
                              \/ evh__waiting_loop_end(t) \/ StrayExit(t)
        PROVE ThreadsTyped'
    BY <2>7 DEF RealSignal, Block, WaitFails, Timeout, Spurious, Reacquire,
                evh__waiting_loop_begin, evh__waiting_loop_end, StrayExit
  <2>8. ASSUME NEW t \in Thr, evh__HG_PTHREAD_COND_WAIT_POST(t) PROVE ThreadsTyped'
    BY <2>8 DEF evh__HG_PTHREAD_COND_WAIT_POST, In
  <2>9. ASSUME NEW t \in Thr, evh__HG_PTHREAD_COND_WAIT_TIMEOUT(t) PROVE ThreadsTyped'
    BY <2>9 DEF evh__HG_PTHREAD_COND_WAIT_TIMEOUT, In
  <2> QED BY <1>4, <2>1, <2>2, <2>3, <2>4, <2>5, <2>6, <2>7, <2>8, <2>9 DEF CondStep, CondNext
<1>5. CASE UNCHANGED vars
  BY <1>5 DEF vars
<1> QED BY <1>1, <1>2, <1>3, <1>4, <1>5, FourKinds

LEMMA PcTypedStep == Typed /\ [Next]_vars => PcTyped'
<1> SUFFICES ASSUME Typed, [Next]_vars PROVE PcTyped'
  OBVIOUS
<1>t. ASSUME NEW t \in Thr, life[t] = "running" PROVE clk[t] \in VTS
  BY <1>t DEF Typed, LifeTyped, ClocksTypeOK, MaybeVTS
<1>g. ASSUME NEW t \in Thr, NEW p \in PC, Goto(t, p) PROVE PcTyped'
  BY <1>g DEF Goto, Typed, PcTyped
<1>u. ASSUME UNCHANGED pc PROVE PcTyped'
  BY <1>u DEF Typed, PcTyped
<1>p. \A t \in Thr : pc[t] \in PC
  BY DEF Typed, PcTyped
<1> USE PcMembers
<1>1. CASE ThreadsStep
  <2>1. ASSUME NEW p \in Thr, NEW c \in Thr, evh__pre_thread_ll_create(p, c) PROVE PcTyped'
    BY <2>1, <1>g DEF evh__pre_thread_ll_create
  <2>2. ASSUME NEW t \in Thr, set_my_pthread_t(t) PROVE PcTyped'
    BY <2>2, <1>u DEF set_my_pthread_t
  <2>3. ASSUME NEW t \in Thr, CreateReturns(t) \/ evh__HG_PTHREAD_JOIN_POST(t) PROVE PcTyped'
    BY <2>3, <1>g DEF CreateReturns, evh__HG_PTHREAD_JOIN_POST
  <2>5. ASSUME NEW t \in Thr, NEW d \in BOOLEAN, evh__pre_thread_ll_exit(t, d) PROVE PcTyped'
    BY <2>5, <1>u DEF evh__pre_thread_ll_exit
  <2>6. ASSUME NEW s \in Thr, NEW q \in Thr, JoinReturns(s, q) PROVE PcTyped'
    <3>1. pth[q] \in Pth
      BY DEF Typed, ThreadsTyped
    <3> QED BY <2>6, <3>1, <1>g DEF JoinReturns
  <2> QED BY <1>1, <2>1, <2>2, <2>3, <2>5, <2>6 DEF ThreadsStep, ThreadsNext
<1>2. CASE SemStep
  <2>1. \/ UNCHANGED pc
        \/ \E t \in Thr : Goto(t, Idle)
        \/ \E t \in Thr, m \in Sem :
             Goto(t, [op |-> "sem_post", m |-> m]) \/ Goto(t, [op |-> "sem_wait", m |-> m])
    BY <1>2 DEF SemStep, SemNext, evh__HG_POSIX_SEM_INIT_POST, evh__HG_POSIX_SEM_POST_PRE, RealPost,
                RealWait, evh__HG_POSIX_SEM_WAIT_POST, evh__HG_POSIX_SEM_DESTROY_PRE
  <2> QED BY <2>1, <1>u, <1>g
<1>3. CASE BarrierStep
  <2>1. ASSUME NEW t \in Thr, NEW b \in Barrier, NEW n \in 0 .. MaxCount,
               evh__HG_PTHREAD_BARRIER_INIT_PRE(t, b, n) \/ evh__HG_OMP_BARRIER_REINIT_PRE(t, b, n)
        PROVE PcTyped'
    BY <2>1, <1>u DEF evh__HG_PTHREAD_BARRIER_INIT_PRE, evh__HG_OMP_BARRIER_REINIT_PRE
  <2>2. ASSUME NEW t \in Thr, NEW b \in Barrier, evh__HG_PTHREAD_BARRIER_DESTROY_PRE(t, b)
        PROVE PcTyped'
    BY <2>2, <1>u DEF evh__HG_PTHREAD_BARRIER_DESTROY_PRE
  <2>3. ASSUME NEW t \in Thr, NEW b \in Barrier, evh__HG_PTHREAD_BARRIER_WAIT_PRE(t, b)
        PROVE PcTyped'
    <3>1. clk[t] \in VTS
      BY <2>3, <1>t DEF evh__HG_PTHREAD_BARRIER_WAIT_PRE, Ready, Alive
    <3>2. \/ Goto(t, Idle) \/ Goto(t, [op |-> "bar", b |-> b, at |-> clk[t]])
      BY <2>3 DEF evh__HG_PTHREAD_BARRIER_WAIT_PRE
    <3> QED BY <3>1, <3>2, <1>g
  <2>4. ASSUME NEW t \in Thr, Arrive(t) PROVE PcTyped'
    <3>1. [pc[t] EXCEPT !.op = "barIn"] \in PC
      <4>1. pc[t] \in PC /\ pc[t].op = "bar"
        BY <2>4, <1>p DEF Arrive, In
      <4> QED BY <4>1, PcMoves
    <3> QED BY <2>4, <3>1, <1>p DEF Arrive, In, PcTyped, Typed
  <2> QED BY <1>3, <2>1, <2>2, <2>3, <2>4 DEF BarrierStep, BarrierNext
<1>4. CASE CondStep
  <2>1. ASSUME NEW t \in Thr, NEW m \in Mutex, MutexLock(t, m) \/ MutexUnlock(t, m)
        PROVE PcTyped'
    BY <2>1, <1>u DEF MutexLock, MutexUnlock
  <2>2. ASSUME NEW t \in Thr, NEW v \in Var, NEW w \in BOOLEAN, Access(t, v, w) PROVE PcTyped'
    BY <2>2, <1>u DEF Access
  <2>3. ASSUME NEW t \in Thr, NEW c \in Cond, NEW a \in BOOLEAN,
               evh__HG_PTHREAD_COND_SIGNAL_PRE(t, c, a) PROVE PcTyped'
    <3>1. clk[t] \in VTS
      BY <2>3, <1>t DEF evh__HG_PTHREAD_COND_SIGNAL_PRE, Ready, Alive
    <3> QED BY <2>3, <3>1, <1>g DEF evh__HG_PTHREAD_COND_SIGNAL_PRE
  <2>4. ASSUME NEW t \in Thr, NEW c \in Cond, NEW m \in Mutex,
               evh__HG_PTHREAD_COND_WAIT_PRE(t, c, m) PROVE PcTyped'
    BY <2>4, <1>u, <1>g DEF evh__HG_PTHREAD_COND_WAIT_PRE, Goto
  <2>5. ASSUME NEW t \in Thr, NEW c \in Cond, NEW m \in Mutex, evh__waiting_loop(t, c, m)
        PROVE PcTyped'
    BY <2>5, <1>u DEF evh__waiting_loop
  <2>6. ASSUME NEW t \in Thr, NEW c \in Cond, evh__HG_PTHREAD_COND_DESTROY_PRE(t, c)
        PROVE PcTyped'
    BY <2>6, <1>u DEF evh__HG_PTHREAD_COND_DESTROY_PRE
  <2>7. ASSUME NEW t \in Thr, RealSignal(t) PROVE PcTyped'
    <3>1. pc[t].at \in MaybeVTS
      BY <2>7, <1>p, PcFields DEF RealSignal, In, MaybeVTS
    <3>2. ASSUME NEW u \in Blocked(pc[t].c) PROVE Woken(u, pc[t].at, FALSE) \in PC
      BY <3>1, <1>p, PcFields DEF Blocked, Woken
    <3> QED BY <2>7, <3>2, <1>p DEF RealSignal, PcTyped, Typed
  <2>8. ASSUME NEW t \in Thr, Block(t) PROVE PcTyped'
    <3>1. [pc[t] EXCEPT !.op = "condIn"] \in PC
      <4>1. pc[t] \in PC /\ pc[t].op = "condPre"
        BY <2>8, <1>p DEF Block, In
      <4> QED BY <4>1, PcMoves
    <3> QED BY <2>8, <3>1, <1>p DEF Block, PcTyped, Typed
  <2>9. ASSUME NEW t \in Thr, Reacquire(t) PROVE PcTyped'
    <3>1. [pc[t] EXCEPT !.op = "condBack"] \in PC
      <4>1. pc[t] \in PC /\ pc[t].op = "condWoken"
        BY <2>9, <1>p DEF Reacquire, In
      <4> QED BY <4>1, PcMoves
    <3> QED BY <2>9, <3>1, <1>p DEF Reacquire, PcTyped, Typed
  <2>10. ASSUME NEW t \in Thr, Timeout(t) \/ Spurious(t) PROVE PcTyped'
    <3>1. Woken(t, NoVTS, TRUE) \in PC /\ Woken(t, NoVTS, FALSE) \in PC
      BY <2>10, <1>p, PcFields DEF Timeout, Spurious, In, Woken, MaybeVTS
    <3> QED BY <2>10, <3>1, <1>g DEF Timeout, Spurious
  <2>11. ASSUME NEW t \in Thr, \/ WaitFails(t) \/ evh__HG_PTHREAD_COND_WAIT_POST(t)
                               \/ evh__HG_PTHREAD_COND_WAIT_TIMEOUT(t) PROVE PcTyped'
    BY <2>11, <1>g DEF WaitFails, evh__HG_PTHREAD_COND_WAIT_POST, evh__HG_PTHREAD_COND_WAIT_TIMEOUT
  <2>12. ASSUME NEW t \in Thr, \/ evh__waiting_loop_begin(t) \/ evh__waiting_loop_end(t)
                               \/ StrayExit(t) PROVE PcTyped'
    BY <2>12, <1>u DEF evh__waiting_loop_begin, evh__waiting_loop_end, StrayExit
  <2> QED BY <1>4, <2>1, <2>2, <2>3, <2>4, <2>5, <2>6, <2>7, <2>8, <2>9, <2>10, <2>11, <2>12
          DEF CondStep, CondNext
<1>5. CASE UNCHANGED vars
  BY <1>5, <1>u DEF vars
<1> QED BY <1>1, <1>2, <1>3, <1>4, <1>5, FourKinds


----------------------------------------------------------------------------
(* Sequences without repetition *)

OneToOne(s) == \A i, j \in DOMAIN s : s[i] = s[j] => i = j

LEMMA SeqFacts ==
  ASSUME NEW S, NEW s \in Seq(S)
  PROVE  Len(s) \in Nat /\ DOMAIN s = 1 .. Len(s) /\ \A i \in DOMAIN s : s[i] \in S
OBVIOUS

LEMMA AppendFacts ==
  ASSUME NEW S, NEW s \in Seq(S), NEW x \in S
  PROVE  /\ Append(s, x) \in Seq(S) /\ Len(Append(s, x)) = Len(s) + 1
         /\ Range(Append(s, x)) = Range(s) \cup {x}
         /\ OneToOne(s) /\ x \notin Range(s) => OneToOne(Append(s, x))
<1>1. /\ Append(s, x) \in Seq(S) /\ Len(Append(s, x)) = Len(s) + 1
      /\ \A i \in 1 .. Len(s) : Append(s, x)[i] = s[i]
      /\ Append(s, x)[Len(s) + 1] = x
  OBVIOUS
<1>2. DOMAIN s = 1 .. Len(s) /\ DOMAIN Append(s, x) = 1 .. Len(s) + 1 /\ Len(s) \in Nat
  BY <1>1
<1>3. Range(Append(s, x)) = Range(s) \cup {x}
  <2>1. \A y \in Range(Append(s, x)) : y \in Range(s) \cup {x}
    BY <1>1, <1>2 DEF Range
  <2>2. \A y \in Range(s) \cup {x} : \E i \in DOMAIN Append(s, x) : y = Append(s, x)[i]
    <3> SUFFICES ASSUME NEW y \in Range(s) \cup {x}
                 PROVE  \E i \in DOMAIN Append(s, x) : y = Append(s, x)[i]
      OBVIOUS
    <3>1. CASE y = x
      BY <3>1, <1>1, <1>2
    <3>2. CASE y \in Range(s)
      <4>1. PICK i \in DOMAIN s : y = s[i]
        BY <3>2 DEF Range
      <4>2. i \in DOMAIN Append(s, x)
        BY <1>2
      <4> QED BY <4>1, <4>2, <1>1, <1>2
    <3> QED BY <3>1, <3>2
  <2> QED BY <2>1, <2>2 DEF Range
<1>4. ASSUME OneToOne(s), x \notin Range(s) PROVE OneToOne(Append(s, x))
  <2> SUFFICES ASSUME NEW i \in 1 .. Len(s) + 1, NEW j \in 1 .. Len(s) + 1,
                      Append(s, x)[i] = Append(s, x)[j]
               PROVE  i = j
    BY <1>2 DEF OneToOne
  <2>1. \A k \in 1 .. Len(s) : s[k] # x
    BY <1>2, <1>4 DEF Range
  <2>2. CASE i \in 1 .. Len(s) /\ j \in 1 .. Len(s)
    BY <1>1, <1>2, <1>4, <2>2 DEF OneToOne
  <2>3. CASE i = Len(s) + 1 /\ j \in 1 .. Len(s)
    BY <1>1, <2>1, <2>3
  <2>4. CASE j = Len(s) + 1 /\ i \in 1 .. Len(s)
    BY <1>1, <2>1, <2>4
  <2> QED BY <1>2, <2>2, <2>3, <2>4
<1> QED BY <1>1, <1>3, <1>4

IsFront(f, s) == f = SubSeq(s, 1, Len(s) - 1)

LEMMA FrontFacts ==
  ASSUME NEW S, NEW s \in Seq(S), s # <<>>, NEW f, IsFront(f, s)
  PROVE  /\ f \in Seq(S) /\ Len(f) = Len(s) - 1 /\ s[Len(s)] \in Range(s)
         /\ \A i \in 1 .. Len(f) : f[i] = s[i]
         /\ Range(f) \subseteq Range(s) /\ Range(s) = Range(f) \cup {s[Len(s)]}
         /\ OneToOne(s) => OneToOne(f) /\ s[Len(s)] \notin Range(f)
<1>1. Len(s) \in Nat /\ Len(s) # 0 /\ DOMAIN s = 1 .. Len(s)
  OBVIOUS
<1>2. f \in Seq(S) /\ Len(f) = Len(s) - 1 /\ \A i \in 1 .. Len(s) - 1 : f[i] = s[i]
  BY <1>1 DEF IsFront
<1>3. DOMAIN f = 1 .. Len(s) - 1
  BY <1>1, <1>2
<1>4. s[Len(s)] \in Range(s)
  BY <1>1 DEF Range
<1>5. Range(f) \subseteq Range(s)
  BY <1>1, <1>2, <1>3 DEF Range
<1>6. \A x \in Range(s) : x \in Range(f) \cup {s[Len(s)]}
  <2> SUFFICES ASSUME NEW x \in Range(s), x # s[Len(s)] PROVE x \in Range(f)
    OBVIOUS
  <2>1. PICK i \in 1 .. Len(s) : x = s[i]
    BY <1>1 DEF Range
  <2>2. i \in 1 .. Len(s) - 1
    BY <1>1, <2>1
  <2> QED BY <2>1, <2>2, <1>2, <1>3 DEF Range
<1>7. ASSUME OneToOne(s) PROVE OneToOne(f) /\ s[Len(s)] \notin Range(f)
  <2>1. OneToOne(f)
    BY <1>1, <1>2, <1>3, <1>7 DEF OneToOne
  <2>2. ASSUME NEW i \in 1 .. Len(s) - 1 PROVE f[i] # s[Len(s)]
    BY <1>1, <1>2, <1>7, <2>2 DEF OneToOne
  <2> QED BY <2>1, <2>2, <1>3 DEF Range
<1> QED BY <1>2, <1>4, <1>5, <1>6, <1>7

\* A new first entry.
LEMMA ConsFacts ==
  ASSUME NEW S, NEW s \in Seq(S), NEW x \in S, NEW f, f = <<x>> \o s
  PROVE  /\ f \in Seq(S) /\ Len(f) = Len(s) + 1
         /\ f[1] = x /\ \A i \in 1 .. Len(s) : f[i + 1] = s[i]
         /\ Range(f) = Range(s) \cup {x}
<1>1. Len(s) \in Nat /\ DOMAIN s = 1 .. Len(s)
  OBVIOUS
<1>2. f \in Seq(S) /\ Len(f) = Len(s) + 1 /\ \A i \in 1 .. Len(s) + 1 :
        f[i] = IF i <= 1 THEN <<x>>[i] ELSE s[i - 1]
  BY <1>1
<1>3. DOMAIN f = 1 .. Len(s) + 1
  BY <1>1, <1>2
<1>4. f[1] = x
  BY <1>1, <1>2
<1>5. \A i \in 1 .. Len(s) : f[i + 1] = s[i]
  BY <1>1, <1>2
<1>6. ASSUME NEW y \in Range(f) PROVE y \in Range(s) \cup {x}
  <2>1. PICK i \in 1 .. Len(s) + 1 : y = f[i]
    BY <1>3, <1>6 DEF Range
  <2>2. CASE i = 1
    BY <2>1, <2>2, <1>4
  <2>3. CASE i # 1
    <3>1. i - 1 \in 1 .. Len(s) /\ f[i] = s[i - 1]
      BY <1>1, <1>2, <2>3
    <3> QED BY <2>1, <3>1, <1>1 DEF Range
  <2> QED BY <2>2, <2>3
<1>7. x \in Range(f)
  BY <1>1, <1>3, <1>4 DEF Range
<1>8. ASSUME NEW y \in Range(s) PROVE y \in Range(f)
  <2>1. PICK i \in 1 .. Len(s) : y = s[i]
    BY <1>1, <1>8 DEF Range
  <2>2. i + 1 \in DOMAIN f
    BY <1>1, <1>3
  <2> QED BY <2>1, <2>2, <1>5 DEF Range
<1> QED BY <1>2, <1>4, <1>5, <1>6, <1>7, <1>8


----------------------------------------------------------------------------
(* Every SO has one holder: a cond, a recorded signal or a post. *)

RecSOs(c) == {recorded[c][i].so : i \in DOMAIN recorded[c]}
RecOnce(c) == \A i, j \in DOMAIN recorded[c] : recorded[c][i].so = recorded[c][j].so => i = j

HeldOnce ==
  /\ \A m \in Sem : OneToOne(semStack[m])
  /\ \A c \in Cond : RecOnce(c)
HeldApart ==
  /\ \A m, n \in Sem : m # n => StackSOs(m) \cap StackSOs(n) = {}
  /\ \A c, d \in Cond : c # d => RecSOs(c) \cap RecSOs(d) = {}
  /\ \A c, d \in Cond : c # d /\ condSO[c] # NoSO => condSO[c] # condSO[d]
  /\ \A m \in Sem, c \in Cond : StackSOs(m) \cap RecSOs(c) = {} /\ condSO[c] \notin StackSOs(m)
  /\ \A c, d \in Cond : condSO[c] \notin RecSOs(d)
HeldIsLive ==
  /\ \A m \in Sem : StackSOs(m) \subseteq soLive
  /\ \A c \in Cond : RecSOs(c) \subseteq soLive /\ (condSO[c] # NoSO => condSO[c] \in soLive)
LiveIsHeld ==
  \A s \in soLive : \/ \E m \in Sem : s \in StackSOs(m)
                    \/ \E c \in Cond : s \in RecSOs(c) \/ s = condSO[c]

\* What the SOs hold: a post and a recorded signal always something, a cond
\* what was sent, an SO that is not allocated nothing.
Stamped ==
  /\ \A s \in SO \ soLive : soClk[s] = NoVTS
  /\ \A m \in Sem : \A s \in StackSOs(m) : soClk[s] \in VTS
  /\ \A c \in Cond : \A s \in RecSOs(c) : soClk[s] \in VTS
  /\ \A c \in Cond : sent[c] = IF condSO[c] = NoSO THEN NoVTS ELSE soClk[condSO[c]]

\* The holders' sets are made of SOs.
LEMMA HeldAreSOs ==
  ASSUME Typed
  PROVE  /\ \A m \in Sem : StackSOs(m) \subseteq SO /\ StackSOs(m) = Range(semStack[m])
         /\ \A c \in Cond : RecSOs(c) \subseteq SO
         /\ NoSO \notin SO
<1>1. \A m \in Sem : StackSOs(m) \subseteq SO /\ StackSOs(m) = Range(semStack[m])
  <2> SUFFICES ASSUME NEW m \in Sem PROVE StackSOs(m) \subseteq SO /\ StackSOs(m) = Range(semStack[m])
    OBVIOUS
  <2>1. semStack[m] \in Seq(SO)
    BY DEF Typed, SemTyped
  <2>2. \A i \in DOMAIN semStack[m] : semStack[m][i] \in SO
    BY <2>1
  <2> QED BY <2>2 DEF StackSOs, Range
<1>2. ASSUME NEW c \in Cond PROVE RecSOs(c) \subseteq SO
  <2>1. recorded[c] \in Seq([writes : Seq(Var), so : SO])
    BY DEF Typed, CondTyped
  <2>2. \A i \in DOMAIN recorded[c] : recorded[c][i] \in [writes : Seq(Var), so : SO]
    BY <2>1, SeqFacts
  <2> QED BY <2>2 DEF RecSOs
<1>3. NoSO \notin SO
  BY ThreadsAssumption DEF NoSO
<1> QED BY <1>1, <1>2, <1>3

\* The SO that is allocated next, and the one after it.
LEMMA AllocFacts ==
  ASSUME NEW n \in Nat, Cardinality(Spare) > n
  PROVE  /\ libhb_so_alloc(n) \in SO \ soLive
         /\ \A k \in Nat : k < n => libhb_so_alloc(k) \in SO \ soLive /\ libhb_so_alloc(k) # libhb_so_alloc(n)
<1>1. Spare \in SUBSET Nat /\ Spare \subseteq SO
  BY ThreadsAssumption DEF Spare
<1>2. IsFiniteSet(Spare)
  BY <1>1, FiniteAssumption, FS_Subset
<1>3. Cardinality(Spare) \in Nat
  BY <1>2, FS_CardinalityType
<1>4. PICK sp : sp = Spare
  OBVIOUS
<1>5. ASSUME NEW k \in Nat, k <= n PROVE Nth(sp, k) \in sp
  <2>1. k < Cardinality(sp)
    BY <1>3, <1>4, <1>5
  <2> QED BY <1>1, <1>2, <1>4, <2>1, NthIn
<1>6. ASSUME NEW k \in Nat, k < n PROVE Nth(sp, k) # Nth(sp, n)
  <2>1. k < Cardinality(sp) /\ n < Cardinality(sp) /\ k # n
    BY <1>3, <1>4, <1>6
  <2> QED BY <1>1, <1>2, <1>4, <2>1, NthDiffer
<1> QED BY <1>3, <1>4, <1>5, <1>6 DEF libhb_so_alloc, Spare

\* The SOs after lookups.
LEMMA WithSOsFacts ==
  ASSUME Typed, NEW C \in SUBSET Cond, WithSOs(C)
  PROVE  \E f \in [{c \in C : condSO[c] = NoSO} -> SO \ soLive] :
           /\ \A c, d \in {e \in C : condSO[e] = NoSO} : f[c] = f[d] => c = d
           /\ condSO' = [c \in Cond |-> IF c \in C /\ condSO[c] = NoSO THEN f[c] ELSE condSO[c]]
           /\ soLive' = soLive \cup {f[c] : c \in {e \in C : condSO[e] = NoSO}}
           /\ soClk' = soClk
<1> DEFINE new == {c \in C : condSO[c] = NoSO}
<1>1. PICK nw : nw = new
  OBVIOUS
<1>2. IsFiniteSet(nw)
  BY <1>1, CondAssumption, FS_Subset
<1>3. IsFiniteSet(Spare)
  BY FiniteAssumption, FS_Subset DEF Spare
<1>4. Cardinality(nw) <= Cardinality(Spare)
  BY <1>1 DEF WithSOs
<1>5. \E g \in Injection(nw, Spare) : TRUE
  BY <1>2, <1>3, <1>4, InjectionExists
<1>6. PICK f : f = CHOOSE g \in Injection(nw, Spare) : TRUE
  OBVIOUS
<1>7. f \in Injection(nw, Spare)
  BY <1>5, <1>6
<1>8. f \in [nw -> Spare] /\ \A c, d \in nw : f[c] = f[d] => c = d
  BY <1>7, Fun_IsInj, Fun_InjectionProperties
<1>9. /\ condSO' = [c \in Cond |-> IF c \in nw THEN f[c] ELSE condSO[c]]
      /\ soLive' = soLive \cup {f[c] : c \in nw}
      /\ soClk' = soClk
  BY <1>1, <1>6 DEF WithSOs
<1> QED BY <1>1, <1>8, <1>9 DEF Spare


\* sem_init: the old stack goes, and there are n new SOs.
SemInitTo(t, m, v, stack, left) ==
  /\ Len(stack) = IF v > SemMax THEN SemMax ELSE v
  /\ left = soLive \ StackSOs(m)
  /\ OneToOne(stack) /\ Range(stack) \cap left = {}
  /\ semStack' = [semStack EXCEPT ![m] = stack]
  /\ soLive' = left \cup Range(stack)
  /\ \A k \in 1 .. Len(stack) : soClk'[stack[k]] = Ticks(t, clk[t], k - 1)
  /\ \A s \in SO \ Range(stack) : soClk'[s] = IF s \in left THEN soClk[s] ELSE NoVTS
  /\ soClk' = [s \in SO |-> soClk'[s]]
  /\ clk' = [clk EXCEPT ![t] = Ticks(t, @, Len(stack))]

LEMMA SemInitFacts ==
  ASSUME Typed, NEW t \in Thr, NEW m \in Sem, NEW v \in 0 .. MaxInit,
         evh__HG_POSIX_SEM_INIT_POST(t, m, v)
  PROVE  \E stack \in Seq(SO), left \in SUBSET SO : SemInitTo(t, m, v, stack, left)
<1>1. PICK n \in Nat : n = IF v > SemMax THEN SemMax ELSE v
  BY SemAssumption
<1>2. PICK left : left = soLive \ StackSOs(m)
  OBVIOUS
<1>3. PICK free : free = SO \ left
  OBVIOUS
<1>4. PICK stack : stack = [k \in 1 .. n |-> Nth(free, k - 1)]
  OBVIOUS
<1>5. free \in SUBSET Nat /\ left \in SUBSET SO
  BY <1>2, <1>3, ThreadsAssumption DEF Typed, ClocksTypeOK
<1>6. IsFiniteSet(free)
  BY <1>3, FiniteAssumption, FS_Subset
<1>7. Cardinality(free) \in Nat
  BY <1>6, FS_CardinalityType
<1>8. Cardinality(free) >= n
  BY <1>1, <1>2, <1>3 DEF evh__HG_POSIX_SEM_INIT_POST
<1>9. ASSUME NEW k \in 1 .. n PROVE stack[k] \in free
  <2>1. k - 1 \in Nat /\ k - 1 < Cardinality(free)
    BY <1>7, <1>8
  <2> QED BY <2>1, <1>4, <1>5, <1>6, NthIn
<1>10. ASSUME NEW j \in 1 .. n, NEW k \in 1 .. n, stack[j] = stack[k] PROVE j = k
  <2>1. k - 1 \in Nat /\ k - 1 < Cardinality(free) /\ j - 1 \in Nat /\ j - 1 < Cardinality(free)
    BY <1>7, <1>8
  <2>2. Nth(free, j - 1) = Nth(free, k - 1)
    BY <1>4, <1>10
  <2>3. j - 1 = k - 1
    BY <2>1, <2>2, <1>5, <1>6, NthDiffer
  <2> QED BY <2>3
<1>11. stack \in Seq(SO) /\ Len(stack) = n /\ DOMAIN stack = 1 .. n
  <2>1. stack \in [1 .. n -> SO]
    BY <1>3, <1>4, <1>9
  <2> QED BY <2>1, SeqDef
<1>12. OneToOne(stack) /\ Range(stack) \subseteq free
  BY <1>9, <1>10, <1>11 DEF OneToOne, Range
<1>13. Range(stack) = {Nth(SO \ left, k - 1) : k \in 1 .. n}
  BY <1>3, <1>4, <1>11 DEF Range
<1>14. semStack' = [semStack EXCEPT ![m] = stack]
  BY <1>1, <1>2, <1>3, <1>4 DEF evh__HG_POSIX_SEM_INIT_POST
<1>15. soLive' = left \cup Range(stack)
  BY <1>1, <1>2, <1>13 DEF evh__HG_POSIX_SEM_INIT_POST
<1>16. soClk' = [s \in SO |-> IF s \in Range(stack)
                    THEN Ticks(t, clk[t], Cardinality({r \in free : r < s}))
                    ELSE IF s \in left THEN soClk[s] ELSE NoVTS]
  BY <1>1, <1>2, <1>3, <1>13 DEF evh__HG_POSIX_SEM_INIT_POST
<1>17. ASSUME NEW k \in 1 .. n PROVE soClk'[stack[k]] = Ticks(t, clk[t], k - 1)
  <2>1. stack[k] \in Range(stack) /\ stack[k] \in SO
    BY <1>3, <1>9, <1>11 DEF Range
  <2>2. k - 1 \in Nat /\ k - 1 < Cardinality(free)
    BY <1>7, <1>8
  <2>3. Cardinality({r \in free : r < stack[k]}) = k - 1
    BY <2>2, <1>4, <1>5, <1>6, NthIn
  <2> QED BY <2>1, <2>3, <1>16
<1>18. \A s \in SO \ Range(stack) : soClk'[s] = IF s \in left THEN soClk[s] ELSE NoVTS
  BY <1>16
<1>19. soClk' = [s \in SO |-> soClk'[s]]
  BY <1>16
<1>20. clk' = [clk EXCEPT ![t] = Ticks(t, @, n)]
  BY <1>1 DEF evh__HG_POSIX_SEM_INIT_POST
<1>21. SemInitTo(t, m, v, stack, left)
  BY <1>1, <1>2, <1>3, <1>5, <1>11, <1>12, <1>14, <1>15, <1>17, <1>18, <1>19, <1>20 DEF SemInitTo
<1> QED BY <1>5, <1>11, <1>21

\* A signal: so is the SO of the cond, and at level 2 the recorded signal has
\* a new one and the oldest makes room.
SignalTo(t, c, so, new, gone) ==
  /\ IF condSO[c] = NoSO THEN so \notin soLive ELSE so = condSO[c]
  /\ so \notin new
  /\ condSO' = [condSO EXCEPT ![c] = so]
  /\ \A d \in Cond \ {c} : recorded'[d] = recorded[d]
  /\ RecSOs(c)' = (RecSOs(c) \ gone) \cup new
  /\ RecOnce(c)'
  /\ recorded' \in [Cond -> Seq([writes : Seq(Var), so : SO])]
  /\ Len(recorded'[c]) <= RecMax
  /\ soLive' = (soLive \ gone) \cup {so} \cup new
  /\ soClk' = [s \in SO |-> IF s = so THEN JoinMaybe(soClk[s], clk[t])
                            ELSE IF s \in new THEN clk[t]
                            ELSE IF s \in gone THEN NoVTS ELSE soClk[s]]

LEMMA SignalFacts ==
  ASSUME Typed, HeldOnce, HeldIsLive, NEW t \in Thr, NEW c \in Cond, NEW a \in BOOLEAN,
         evh__HG_PTHREAD_COND_SIGNAL_PRE(t, c, a)
  PROVE  \E so \in SO, new \in SUBSET (SO \ soLive), gone \in SUBSET RecSOs(c) :
           SignalTo(t, c, so, new, gone)
<1> DEFINE R == [writes : Seq(Var), so : SO]
<1> HIDE DEF R
<1>1. PICK so : so = lookup_or_alloc(c)
  OBVIOUS
<1>2. PICK ext : ext = libhb_so_alloc(Allocs(c))
  OBVIOUS
<1>3. PICK r : r = recorded[c]
  OBVIOUS
<1>4. r \in Seq(R) /\ recorded \in [Cond -> Seq(R)] /\ Len(r) <= RecMax /\ RecMax \in Nat /\ RecMax # 0
  BY <1>3, CondAssumption DEF Typed, CondTyped, R
<1>5. /\ Len(r) \in Nat /\ DOMAIN r = 1 .. Len(r) /\ \A i \in DOMAIN r : r[i] \in R
  BY <1>4, SeqFacts
<1>6. RecSOs(c) = {r[i].so : i \in DOMAIN r} /\ RecOnce(c)
  BY <1>3 DEF RecSOs, HeldOnce
<1>7. lsdLevel \in 0 .. 2 /\ condSO[c] \in SO \cup {NoSO}
  BY DEF Typed, CondTyped
<1>s. IsFiniteSet(Spare)
  BY FiniteAssumption, FS_Subset DEF Spare
<1>c. Cardinality(Spare) \in Nat
  BY <1>s, FS_CardinalityType
<1>8. so \in SO /\ IF condSO[c] = NoSO THEN so \notin soLive ELSE so = condSO[c]
  <2>1. CASE condSO[c] = NoSO
    <3>1. Cardinality(Spare) > 0
      BY <2>1, <1>c, <1>7 DEF evh__HG_PTHREAD_COND_SIGNAL_PRE, Allocs
    <3> QED BY <2>1, <3>1, <1>1, AllocFacts DEF lookup_or_alloc
  <2>2. CASE condSO[c] # NoSO
    BY <2>2, <1>1, <1>7 DEF lookup_or_alloc
  <2> QED BY <2>1, <2>2
<1>9. ASSUME lsdLevel >= 2 PROVE ext \in SO \ soLive /\ (condSO[c] = NoSO => ext # so)
  <2>1. Cardinality(Spare) > Allocs(c) /\ Allocs(c) \in Nat
    BY <1>9, <1>c, <1>7 DEF evh__HG_PTHREAD_COND_SIGNAL_PRE, Allocs
  <2>2. ext \in SO \ soLive
    BY <2>1, <1>2, AllocFacts
  <2>3. condSO[c] = NoSO => Allocs(c) = 1 /\ so = libhb_so_alloc(0)
    BY <1>1 DEF Allocs, lookup_or_alloc
  <2>4. condSO[c] = NoSO => ext # so
    BY <2>1, <2>3, <1>2, AllocFacts
  <2> QED BY <2>2, <2>4
<1>10. condSO' = [condSO EXCEPT ![c] = so]
  BY <1>1 DEF evh__HG_PTHREAD_COND_SIGNAL_PRE
<1>11. CASE ~(lsdLevel >= 2)
  <2>1. recorded' = recorded
    BY <1>11 DEF evh__HG_PTHREAD_COND_SIGNAL_PRE
  <2>2. soLive' = soLive \cup {so}
    BY <1>1, <1>11 DEF evh__HG_PTHREAD_COND_SIGNAL_PRE
  <2>3. soClk' = [s \in SO |-> IF s = so THEN JoinMaybe(soClk[s], clk[t]) ELSE soClk[s]]
    BY <1>1, <1>11 DEF evh__HG_PTHREAD_COND_SIGNAL_PRE, SignalSend
  <2>4. RecSOs(c)' = RecSOs(c) /\ RecOnce(c)'
    BY <2>1, <1>6 DEF RecSOs, RecOnce
  <2>5. SignalTo(t, c, so, {}, {})
    BY <2>1, <2>2, <2>3, <2>4, <1>3, <1>4, <1>8, <1>10 DEF R, SignalTo
  <2>6. {} \in SUBSET (SO \ soLive) /\ {} \in SUBSET RecSOs(c)
    OBVIOUS
  <2> QED BY <2>5, <2>6, <1>8, Zenon
<1>12. CASE lsdLevel >= 2
  <2>1. PICK kept : kept = IF Len(r) = RecMax THEN SubSeq(r, 1, RecMax - 1) ELSE r
    OBVIOUS
  <2>2. PICK gone : gone = IF Len(r) = RecMax THEN {r[RecMax].so} ELSE {}
    OBVIOUS
  <2>3. /\ kept \in Seq(R) /\ Len(kept) <= RecMax - 1 /\ Len(kept) <= Len(r) /\ Len(kept) \in Nat
        /\ \A i \in 1 .. Len(kept) : kept[i] = r[i]
        /\ gone \subseteq RecSOs(c)
        /\ \A i \in 1 .. Len(kept) : r[i].so \notin gone
        /\ \A i \in 1 .. Len(r) : i \in 1 .. Len(kept) \/ r[i].so \in gone
    <3>1. CASE Len(r) = RecMax
      <4>1. r # <<>>
        BY <3>1, <1>4
      <4>2. kept = SubSeq(r, 1, Len(r) - 1)
        BY <3>1, <2>1
      <4>3. kept \in Seq(R) /\ Len(kept) = Len(r) - 1 /\ \A i \in 1 .. Len(kept) : kept[i] = r[i]
        <5>1. r \in Seq(R)
          BY <1>4
        <5>2. IsFront(kept, r)
          BY <4>2 DEF IsFront
        <5> QED BY <4>1, <5>1, <5>2, FrontFacts
      <4>4. gone = {r[Len(r)].so}
        BY <3>1, <2>2
      <4>5. Len(r) \in DOMAIN r
        BY <3>1, <1>4, <1>5
      <4>6. \A i \in 1 .. Len(kept) : r[i].so # r[Len(r)].so
        BY <4>3, <4>5, <1>3, <1>5, <1>6 DEF RecOnce
      <4>7. gone \subseteq RecSOs(c)
        BY <4>4, <4>5, <1>6
      <4>8. \A i \in 1 .. Len(r) : i \in 1 .. Len(kept) \/ i = Len(r)
        BY <4>3, <1>5
      <4>9. Len(kept) <= RecMax - 1 /\ Len(kept) <= Len(r) /\ Len(kept) \in Nat
        BY <4>3, <3>1, <1>4, <1>5
      <4> HIDE <3>1
      <4> QED BY <4>3, <4>4, <4>6, <4>7, <4>8, <4>9
    <3>2. CASE Len(r) # RecMax
      <4>1. kept = r /\ gone = {}
        BY <3>2, <2>1, <2>2
      <4>2. Len(r) <= RecMax - 1
        <5>1. Len(r) \in Nat /\ RecMax \in Nat /\ Len(r) <= RecMax /\ Len(r) # RecMax
          BY <3>2, <1>4, <1>5
        <5> QED BY <5>1
      <4> QED BY <4>1, <4>2, <1>4, <1>5
    <3> QED BY <3>1, <3>2
  <2>4. PICK e : e = [writes |-> lsd[t].writes, so |-> ext]
    OBVIOUS
  <2>5. e \in R /\ e.so = ext
    BY <2>4, <1>9, <1>12 DEF Typed, LsdTyped, ThrLSD, R
  <2>6. PICK q : q = <<e>> \o kept
    OBVIOUS
  <2>7. /\ q \in Seq(R) /\ Len(q) = Len(kept) + 1 /\ q[1] = e
        /\ \A i \in 1 .. Len(kept) : q[i + 1] = kept[i]
    BY <2>3, <2>5, <2>6, ConsFacts
  <2>8. recorded' = [recorded EXCEPT ![c] = q]
    BY <2>1, <2>4, <2>6, <1>2, <1>3, <1>12 DEF evh__HG_PTHREAD_COND_SIGNAL_PRE
  <2>9. recorded'[c] = q /\ (\A d \in Cond \ {c} : recorded'[d] = recorded[d])
        /\ recorded' \in [Cond -> Seq(R)]
    BY <2>7, <2>8, <1>4
  <2>10. DOMAIN q = 1 .. Len(kept) + 1
    BY <2>7, SeqFacts
  <2>11. ASSUME NEW i \in DOMAIN q
         PROVE  IF i = 1 THEN q[i].so = ext
                ELSE i - 1 \in 1 .. Len(kept) /\ q[i] = r[i - 1]
    <3>1. i # 1 => i - 1 \in 1 .. Len(kept) /\ q[(i - 1) + 1] = kept[i - 1] /\ (i - 1) + 1 = i
      BY <2>3, <2>7, <2>10
    <3> QED BY <3>1, <2>3, <2>5, <2>7
  <2>12. \A i \in 1 .. Len(kept) : r[i].so \in RecSOs(c) /\ i \in DOMAIN r
    BY <2>3, <1>5, <1>6
  <2>e. ext \notin RecSOs(c) \/ ext \in SO \ soLive
    BY <1>9, <1>12
  <2>13. RecSOs(c)' = {q[i].so : i \in DOMAIN q}
    BY <2>9 DEF RecSOs
  <2>14. ASSUME NEW s \in {q[i].so : i \in DOMAIN q} PROVE s \in (RecSOs(c) \ gone) \cup {ext}
    BY <2>3, <2>11, <2>12
  <2>15. ASSUME NEW s \in (RecSOs(c) \ gone) \cup {ext} PROVE s \in {q[i].so : i \in DOMAIN q}
    <3>1. CASE s = ext
      <4>1. 1 \in DOMAIN q
        BY <2>3, <2>10
      <4> QED BY <3>1, <4>1, <2>11
    <3>2. CASE s \in RecSOs(c) \ gone
      <4>1. PICK i \in 1 .. Len(r) : s = r[i].so
        BY <3>2, <1>5, <1>6
      <4>2. i \in 1 .. Len(kept)
        BY <4>1, <3>2, <2>3
      <4>3. i + 1 \in DOMAIN q /\ q[i + 1] = r[i]
        BY <4>2, <2>3, <2>7, <2>10
      <4> QED BY <4>1, <4>3
    <3> QED BY <3>1, <3>2, <2>15
  <2>16. RecSOs(c)' = (RecSOs(c) \ gone) \cup {ext}
    BY <2>13, <2>14, <2>15
  <2>17. ASSUME ext \notin RecSOs(c) PROVE RecOnce(c)'
    <3> SUFFICES ASSUME NEW i \in DOMAIN q, NEW j \in DOMAIN q, q[i].so = q[j].so PROVE i = j
      BY <2>9 DEF RecOnce
    <3>1. CASE i = 1 \/ j = 1
      BY <3>1, <2>11, <2>12, <2>17
    <3>2. CASE i # 1 /\ j # 1
      <4>1. /\ i - 1 \in 1 .. Len(kept) /\ q[i] = r[i - 1]
            /\ j - 1 \in 1 .. Len(kept) /\ q[j] = r[j - 1]
        BY <3>2, <2>11
      <4>2. i - 1 = j - 1
        BY <4>1, <2>12, <1>3, <1>6 DEF RecOnce
      <4> QED BY <4>2, <2>3, <2>10
    <3> QED BY <3>1, <3>2
  <2>18. soLive' = (soLive \ gone) \cup {so} \cup {ext}
    BY <2>2, <1>1, <1>2, <1>3, <1>12 DEF evh__HG_PTHREAD_COND_SIGNAL_PRE
  <2>19. soClk' = [s \in SO |-> IF s = so THEN JoinMaybe(soClk[s], clk[t])
                                ELSE IF s \in {ext} THEN clk[t]
                                ELSE IF s \in gone THEN NoVTS ELSE soClk[s]]
    BY <2>2, <1>1, <1>2, <1>3, <1>12 DEF evh__HG_PTHREAD_COND_SIGNAL_PRE, SignalSend
  <2>20. SignalTo(t, c, so, {ext}, gone)
    <3>1. so # ext
      BY <1>7, <1>8, <1>9, <1>12 DEF HeldIsLive
    <3>2. ext \notin RecSOs(c)
      BY <1>9, <1>12 DEF HeldIsLive
    <3> QED BY <3>1, <3>2, <2>3, <2>7, <2>9, <2>16, <2>17, <2>18, <2>19, <1>4, <1>8, <1>10 DEF R, SignalTo
  <2>21. {ext} \in SUBSET (SO \ soLive) /\ gone \in SUBSET RecSOs(c)
    BY <2>3, <1>9, <1>12
  <2> QED BY <2>20, <2>21, <1>8, Zenon
<1> QED BY <1>11, <1>12


Holding == HeldOnce /\ HeldApart /\ HeldIsLive /\ LiveIsHeld

\* A semaphore gets another stack: the SOs it had and has no more are freed,
\* the ones it had not are new.
LEMMA StackChange ==
  ASSUME Typed, Holding, NEW m \in Sem, NEW st \in Seq(SO), OneToOne(st),
         semStack' = [semStack EXCEPT ![m] = st], UNCHANGED <<condSO, recorded>>,
         Range(st) \cap (soLive \ StackSOs(m)) = {},
         soLive' = (soLive \ StackSOs(m)) \cup Range(st)
  PROVE  /\ Holding'
         /\ StackSOs(m)' = Range(st) /\ \A n \in Sem \ {m} : StackSOs(n)' = StackSOs(n)
         /\ \A c \in Cond : RecSOs(c)' = RecSOs(c)
<1>1. semStack'[m] = st /\ \A n \in Sem \ {m} : semStack'[n] = semStack[n]
  BY DEF Typed, SemTyped
<1>2. StackSOs(m)' = Range(st) /\ \A n \in Sem \ {m} : StackSOs(n)' = StackSOs(n)
  BY <1>1 DEF StackSOs, Range
<1>3. \A c \in Cond : RecSOs(c)' = RecSOs(c) /\ (RecOnce(c) => RecOnce(c)') /\ condSO'[c] = condSO[c]
  BY DEF RecSOs, RecOnce
<1>4. HeldOnce'
  BY <1>1, <1>3 DEF HeldOnce, Holding
<1>5. \A s \in Range(st) : \/ s \in StackSOs(m) \/ s \notin soLive
  OBVIOUS
<1>6. HeldApart'
  <2>1. \A k, n \in Sem : k # n => StackSOs(k)' \cap StackSOs(n)' = {}
    BY <1>2, <1>5 DEF HeldApart, HeldIsLive, Holding
  <2>2. \A n \in Sem, c \in Cond : StackSOs(n)' \cap RecSOs(c)' = {} /\ condSO'[c] \notin StackSOs(n)'
    <3>1. ASSUME NEW c \in Cond PROVE condSO[c] \notin Range(st)
      <4>1. CASE condSO[c] = NoSO
        <5>1. \A s \in Range(st) : s \in SO
          BY SeqFacts DEF Range
        <5> QED BY <4>1, <5>1, HeldAreSOs
      <4>2. CASE condSO[c] # NoSO
        BY <4>2, <1>5 DEF HeldApart, HeldIsLive, Holding
      <4> QED BY <4>1, <4>2
    <3>2. ASSUME NEW c \in Cond PROVE Range(st) \cap RecSOs(c) = {}
      BY <1>5 DEF HeldApart, HeldIsLive, Holding
    <3> QED BY <3>1, <3>2, <1>2, <1>3 DEF HeldApart, Holding
  <2> QED BY <2>1, <2>2, <1>3 DEF HeldApart, Holding
<1>7. HeldIsLive'
  <2>1. \A n \in Sem : StackSOs(n)' \subseteq soLive'
    BY <1>2 DEF HeldApart, HeldIsLive, Holding
  <2>2. \A c \in Cond : RecSOs(c)' \subseteq soLive' /\ (condSO'[c] # NoSO => condSO'[c] \in soLive')
    BY <1>3 DEF HeldApart, HeldIsLive, Holding
  <2> QED BY <2>1, <2>2 DEF HeldIsLive
<1>8. LiveIsHeld'
  <2> SUFFICES ASSUME NEW s \in soLive'
               PROVE  \/ \E n \in Sem : s \in StackSOs(n)'
                      \/ \E c \in Cond : s \in RecSOs(c)' \/ s = condSO'[c]
    BY DEF LiveIsHeld
  <2>1. CASE s \in Range(st)
    BY <1>2, <2>1
  <2>2. CASE s \in soLive \ StackSOs(m)
    BY <1>2, <1>3, <2>2 DEF LiveIsHeld, Holding
  <2> QED BY <2>1, <2>2
<1> QED BY <1>2, <1>3, <1>4, <1>6, <1>7, <1>8 DEF Holding

LEMMA HoldingSame ==
  ASSUME Holding, UNCHANGED <<semStack, recorded, condSO, soLive>>
  PROVE  /\ Holding'
         /\ \A m \in Sem : StackSOs(m)' = StackSOs(m)
         /\ \A c \in Cond : RecSOs(c)' = RecSOs(c)
<1>1. \A m \in Sem : StackSOs(m)' = StackSOs(m)
  BY DEF StackSOs
<1>2. \A c \in Cond : RecSOs(c)' = RecSOs(c)
  BY DEF RecSOs
<1>3. HeldOnce'
  BY DEF HeldOnce, Holding, RecOnce
<1>4. HeldApart' /\ HeldIsLive' /\ LiveIsHeld'
  BY <1>1, <1>2 DEF HeldApart, HeldIsLive, LiveIsHeld, Holding
<1> QED BY <1>1, <1>2, <1>3, <1>4 DEF Holding

\* A cond gets an SO of its own, and its recorded signals change.
LEMMA SignalHolding ==
  ASSUME Typed, Holding, NEW c \in Cond, UNCHANGED semStack,
         NEW so \in SO, NEW new \in SUBSET (SO \ soLive), NEW gone \in SUBSET RecSOs(c),
         IF condSO[c] = NoSO THEN so \notin soLive ELSE so = condSO[c],
         so \notin new,
         condSO' = [condSO EXCEPT ![c] = so],
         \A d \in Cond \ {c} : recorded'[d] = recorded[d],
         RecSOs(c)' = (RecSOs(c) \ gone) \cup new,
         RecOnce(c)',
         soLive' = (soLive \ gone) \cup {so} \cup new
  PROVE  Holding' /\ (\A m \in Sem : StackSOs(m)' = StackSOs(m))
                  /\ (\A d \in Cond \ {c} : RecSOs(d)' = RecSOs(d))
<1>1. \A m \in Sem : StackSOs(m)' = StackSOs(m)
  BY DEF StackSOs
<1>2. \A d \in Cond \ {c} : RecSOs(d)' = RecSOs(d) /\ (RecOnce(d) => RecOnce(d)')
  BY DEF RecSOs, RecOnce
<1>3. condSO'[c] = so /\ (\A d \in Cond \ {c} : condSO'[d] = condSO[d]) /\ so # NoSO /\ NoSO \notin SO
  BY HeldAreSOs DEF Typed, CondTyped
<1>4. HeldOnce'
  BY <1>2 DEF HeldOnce, Holding
<1>5. /\ \A d \in Cond : so \notin RecSOs(d)
      /\ \A m \in Sem : so \notin StackSOs(m)
      /\ \A d \in Cond \ {c} : so # condSO[d]
  <2>1. CASE condSO[c] = NoSO
    BY <2>1, <1>3 DEF HeldIsLive, Holding
  <2>2. CASE condSO[c] # NoSO
    BY <2>2, <1>3 DEF HeldApart, Holding
  <2> QED BY <2>1, <2>2
<1>6. /\ \A d \in Cond : new \cap RecSOs(d) = {} /\ condSO[d] \notin new
      /\ \A m \in Sem : new \cap StackSOs(m) = {}
  BY <1>3 DEF HeldIsLive, Holding
<1>7. \A d \in Cond : RecSOs(d)' \subseteq RecSOs(d) \cup new
  BY <1>2
<1>8. HeldApart'
  <2>1. \A d, e \in Cond : d # e => RecSOs(d)' \cap RecSOs(e)' = {}
    BY <1>2, <1>6 DEF HeldApart, Holding
  <2>2. \A d, e \in Cond : d # e /\ condSO'[d] # NoSO => condSO'[d] # condSO'[e]
    BY <1>3, <1>5 DEF HeldApart, Holding
  <2>3. \A m \in Sem, d \in Cond : StackSOs(m)' \cap RecSOs(d)' = {} /\ condSO'[d] \notin StackSOs(m)'
    BY <1>1, <1>3, <1>5, <1>6, <1>7 DEF HeldApart, Holding
  <2>4. \A d, e \in Cond : condSO'[d] \notin RecSOs(e)'
    BY <1>3, <1>5, <1>6, <1>7 DEF HeldApart, Holding
  <2> QED BY <1>1, <2>1, <2>2, <2>3, <2>4 DEF HeldApart, Holding
<1>9. HeldIsLive'
  <2>1. \A m \in Sem : StackSOs(m)' \subseteq soLive'
    BY <1>1 DEF HeldApart, HeldIsLive, Holding
  <2>2. \A d \in Cond : RecSOs(d)' \subseteq soLive'
    BY <1>2 DEF HeldApart, HeldIsLive, Holding
  <2>3. \A d \in Cond : condSO'[d] # NoSO => condSO'[d] \in soLive'
    BY <1>3 DEF HeldApart, HeldIsLive, Holding
  <2> QED BY <2>1, <2>2, <2>3 DEF HeldIsLive
<1>10. LiveIsHeld'
  <2> SUFFICES ASSUME NEW s \in soLive'
               PROVE  \/ \E m \in Sem : s \in StackSOs(m)'
                      \/ \E d \in Cond : s \in RecSOs(d)' \/ s = condSO'[d]
    BY DEF LiveIsHeld
  <2>1. CASE s \in {so} \cup new
    BY <2>1, <1>3
  <2>2. CASE s \in soLive \ gone
    <3>1. CASE \E m \in Sem : s \in StackSOs(m)
      BY <3>1, <1>1
    <3>2. CASE \E d \in Cond : s \in RecSOs(d)
      BY <3>2, <2>2, <1>2
    <3>3. CASE \E d \in Cond : s = condSO[d]
      <4>1. s # NoSO
        BY <2>2, <1>3 DEF Typed, ClocksTypeOK
      <4> QED BY <3>3, <4>1, <1>3
    <3> QED BY <2>2, <3>1, <3>2, <3>3 DEF LiveIsHeld, Holding
  <2> QED BY <2>1, <2>2
<1> QED BY <1>1, <1>2, <1>4, <1>8, <1>9, <1>10 DEF Holding

\* Lookups give SOs to conds that have none.
LEMMA LookupHolding ==
  ASSUME Typed, Holding, UNCHANGED <<semStack, recorded>>,
         NEW C \in SUBSET Cond, WithSOs(C)
  PROVE  Holding'
<1>1. PICK f \in [{c \in C : condSO[c] = NoSO} -> SO \ soLive] :
           /\ \A c, d \in {e \in C : condSO[e] = NoSO} : f[c] = f[d] => c = d
           /\ condSO' = [c \in Cond |-> IF c \in C /\ condSO[c] = NoSO THEN f[c] ELSE condSO[c]]
           /\ soLive' = soLive \cup {f[c] : c \in {e \in C : condSO[e] = NoSO}}
           /\ soClk' = soClk
  BY WithSOsFacts
<1>2. \A m \in Sem : StackSOs(m)' = StackSOs(m)
  BY DEF StackSOs
<1>3. \A c \in Cond : RecSOs(c)' = RecSOs(c)
  BY DEF RecSOs
<1>4. HeldOnce'
  BY DEF HeldOnce, Holding, RecOnce
<1>5. NoSO \notin SO
  BY HeldAreSOs
<1>6. \A c \in Cond : IF c \in C /\ condSO[c] = NoSO THEN condSO'[c] = f[c] /\ f[c] \in SO \ soLive
                                                     ELSE condSO'[c] = condSO[c]
  BY <1>1
<1>7. HeldApart'
  <2>1. \A d, e \in Cond : d # e /\ condSO'[d] # NoSO => condSO'[d] # condSO'[e]
    <3> SUFFICES ASSUME NEW d \in Cond, NEW e \in Cond, d # e, condSO'[d] # NoSO
                 PROVE  condSO'[d] # condSO'[e]
      OBVIOUS
    <3>1. CASE (d \in C /\ condSO[d] = NoSO) /\ (e \in C /\ condSO[e] = NoSO)
      BY <3>1, <1>1
    <3>2. CASE (d \in C /\ condSO[d] = NoSO) /\ ~(e \in C /\ condSO[e] = NoSO)
      BY <3>2, <1>5, <1>6 DEF HeldIsLive, Holding
    <3>3. CASE ~(d \in C /\ condSO[d] = NoSO) /\ (e \in C /\ condSO[e] = NoSO)
      BY <3>3, <1>5, <1>6 DEF HeldIsLive, Holding
    <3>4. CASE ~(d \in C /\ condSO[d] = NoSO) /\ ~(e \in C /\ condSO[e] = NoSO)
      BY <3>4, <1>6 DEF HeldApart, Holding
    <3> QED BY <3>1, <3>2, <3>3, <3>4
  <2>2. \A m \in Sem, d \in Cond : StackSOs(m)' \cap RecSOs(d)' = {} /\ condSO'[d] \notin StackSOs(m)'
    BY <1>2, <1>3, <1>6 DEF HeldApart, HeldIsLive, Holding
  <2>3. \A d, e \in Cond : condSO'[d] \notin RecSOs(e)'
    BY <1>3, <1>6 DEF HeldApart, HeldIsLive, Holding
  <2> QED BY <1>2, <1>3, <2>1, <2>2, <2>3 DEF HeldApart, Holding
<1>8. HeldIsLive'
  <2>1. \A d \in Cond : condSO'[d] # NoSO => condSO'[d] \in soLive'
    BY <1>1, <1>6 DEF HeldIsLive, Holding
  <2> QED BY <1>1, <1>2, <1>3, <2>1 DEF HeldIsLive, Holding
<1>9. LiveIsHeld'
  <2> SUFFICES ASSUME NEW s \in soLive'
               PROVE  \/ \E m \in Sem : s \in StackSOs(m)'
                      \/ \E d \in Cond : s \in RecSOs(d)' \/ s = condSO'[d]
    BY DEF LiveIsHeld
  <2>1. CASE s \in soLive
    <3>1. s # NoSO
      BY <2>1, <1>5 DEF Typed, ClocksTypeOK
    <3> QED BY <2>1, <3>1, <1>2, <1>3, <1>6 DEF LiveIsHeld, Holding
  <2>2. CASE s \notin soLive
    BY <2>2, <1>1, <1>6
  <2> QED BY <2>1, <2>2
<1> QED BY <1>4, <1>7, <1>8, <1>9 DEF Holding


\* A thread that runs has a timestamp.
LEMMA RunningClock ==
  ASSUME Typed, NEW t \in Thr, life[t] = "running"
  PROVE  clk[t] \in VTS
BY DEF Typed, LifeTyped, ClocksTypeOK, MaybeVTS

LEMMA StampedSame ==
  ASSUME Holding, Stamped, UNCHANGED <<semStack, recorded, condSO, soLive, soClk, sent>>
  PROVE  Holding' /\ Stamped'
BY HoldingSame DEF Stamped

LEMMA LookupStamped ==
  ASSUME Typed, Holding, Stamped, UNCHANGED <<semStack, recorded, sent>>,
         NEW C \in SUBSET Cond, WithSOs(C)
  PROVE  Holding' /\ Stamped'
<1>1. PICK f \in [{c \in C : condSO[c] = NoSO} -> SO \ soLive] :
           /\ \A c, d \in {e \in C : condSO[e] = NoSO} : f[c] = f[d] => c = d
           /\ condSO' = [c \in Cond |-> IF c \in C /\ condSO[c] = NoSO THEN f[c] ELSE condSO[c]]
           /\ soLive' = soLive \cup {f[c] : c \in {e \in C : condSO[e] = NoSO}}
           /\ soClk' = soClk
  BY WithSOsFacts
<1>2. Holding'
  BY LookupHolding
<1>3. (\A m \in Sem : StackSOs(m)' = StackSOs(m)) /\ (\A c \in Cond : RecSOs(c)' = RecSOs(c))
  BY DEF StackSOs, RecSOs
<1>4. \A c \in Cond : sent'[c] = IF condSO'[c] = NoSO THEN NoVTS ELSE soClk'[condSO'[c]]
  <2> SUFFICES ASSUME NEW c \in Cond
               PROVE  sent[c] = IF condSO'[c] = NoSO THEN NoVTS ELSE soClk[condSO'[c]]
    BY <1>1
  <2>1. CASE c \in C /\ condSO[c] = NoSO
    <3>1. condSO'[c] \in SO \ soLive
      BY <2>1, <1>1
    <3> QED BY <2>1, <3>1 DEF Stamped
  <2>2. CASE ~(c \in C /\ condSO[c] = NoSO)
    <3>1. condSO'[c] = condSO[c]
      BY <2>2, <1>1
    <3> QED BY <3>1 DEF Stamped
  <2> QED BY <2>1, <2>2
<1>5. \A s \in SO \ soLive' : soClk'[s] = NoVTS
  BY <1>1 DEF Stamped
<1> QED BY <1>1, <1>2, <1>3, <1>4, <1>5 DEF Stamped

LEMMA SOInvStep == Typed /\ Holding /\ Stamped /\ [Next]_vars => Holding' /\ Stamped'
<1> SUFFICES ASSUME Typed, Holding, Stamped, [Next]_vars PROVE Holding' /\ Stamped'
  OBVIOUS
<1> USE DEF clkVars
<1>1. CASE ThreadsStep
  <2>1. UNCHANGED <<soLive, soClk>>
    BY <1>1 DEF ThreadsStep, ThreadsNext, evh__pre_thread_ll_create, set_my_pthread_t, CreateReturns,
      evh__HG_PTHREAD_JOIN_POST, evh__pre_thread_ll_exit, JoinReturns, Create
  <2> QED BY <1>1, <2>1, StampedSame DEF ThreadsStep, semVars, condVarsAll
<1>2. CASE SemStep
  <2>u. UNCHANGED <<condSO, recorded, sent>>
    BY <1>2 DEF SemStep, condVarsAll
  <2>0. semStack \in [Sem -> Seq(SO)] /\ soLive \subseteq SO /\ soClk \in [SO -> MaybeVTS]
    BY DEF Typed, SemTyped, ClocksTypeOK
  <2>1. ASSUME NEW t \in Thr, NEW m \in Sem, NEW v \in 0 .. MaxInit,
               evh__HG_POSIX_SEM_INIT_POST(t, m, v) PROVE Holding' /\ Stamped'
    <3>0. PICK stack \in Seq(SO), left \in SUBSET SO : SemInitTo(t, m, v, stack, left)
      BY <2>1, SemInitFacts
    <3>1. /\ Len(stack) = IF v > SemMax THEN SemMax ELSE v
          /\ left = soLive \ StackSOs(m)
          /\ OneToOne(stack) /\ Range(stack) \cap left = {}
          /\ semStack' = [semStack EXCEPT ![m] = stack]
          /\ soLive' = left \cup Range(stack)
          /\ \A k \in 1 .. Len(stack) : soClk'[stack[k]] = Ticks(t, clk[t], k - 1)
          /\ \A s \in SO \ Range(stack) : soClk'[s] = IF s \in left THEN soClk[s] ELSE NoVTS
          /\ soClk' = [s \in SO |-> soClk'[s]]
          /\ clk' = [clk EXCEPT ![t] = Ticks(t, @, Len(stack))]
      BY <3>0 DEF SemInitTo
    <3>2. /\ Holding'
          /\ StackSOs(m)' = Range(stack) /\ \A n \in Sem \ {m} : StackSOs(n)' = StackSOs(n)
          /\ \A c \in Cond : RecSOs(c)' = RecSOs(c)
      BY <3>1, <2>u, StackChange
    <3>3. clk[t] \in VTS
      BY <2>1, RunningClock DEF evh__HG_POSIX_SEM_INIT_POST, Ready, Alive
    <3>4. \A s \in Range(stack) : soClk'[s] \in VTS
      <4> SUFFICES ASSUME NEW k \in 1 .. Len(stack) PROVE soClk'[stack[k]] \in VTS
        BY SeqFacts DEF Range
      <4>1. k - 1 \in Nat
        BY SeqFacts
      <4> QED BY <4>1, <3>1, <3>3, TicksLemma
    <3>5. \A s \in left : soClk'[s] = soClk[s] /\ s \in soLive
      BY <3>1
    <3>6. \A s \in SO \ soLive' : soClk'[s] = NoVTS
      BY <3>1
    <3>7. \A n \in Sem : \A s \in StackSOs(n)' : soClk'[s] \in VTS
      <4>1. ASSUME NEW n \in Sem \ {m}, NEW s \in StackSOs(n) PROVE s \in left
        BY <3>1, <4>1 DEF Holding, HeldApart, HeldIsLive
      <4> QED BY <4>1, <3>2, <3>4, <3>5 DEF Stamped
    <3>8. \A c \in Cond : /\ \A s \in RecSOs(c) : s \in left
                          /\ condSO[c] # NoSO => condSO[c] \in left
      BY <3>1 DEF Holding, HeldApart, HeldIsLive
    <3> QED BY <3>2, <3>5, <3>6, <3>7, <3>8, <2>u DEF Stamped
  <2>2. ASSUME NEW t \in Thr, NEW m \in Sem, evh__HG_POSIX_SEM_POST_PRE(t, m)
        PROVE Holding' /\ Stamped'
    <3>1. PICK so : so = libhb_so_alloc(0)
      OBVIOUS
    <3>2. IsFiniteSet(Spare)
      BY FiniteAssumption, FS_Subset DEF Spare
    <3>3. Cardinality(Spare) \in Nat /\ Cardinality(Spare) # 0
      BY <2>2, <3>2, FS_CardinalityType, FS_EmptySet DEF evh__HG_POSIX_SEM_POST_PRE
    <3>4. so \in SO \ soLive
      BY <3>1, <3>3, AllocFacts
    <3>5. /\ soLive' = soLive \cup {so}
          /\ soClk' = [soClk EXCEPT ![so] = clk[t]]
          /\ semStack' = [semStack EXCEPT ![m] = Append(semStack[m], so)]
      BY <2>2, <3>1 DEF evh__HG_POSIX_SEM_POST_PRE, push_SO_for_sem
    <3>6. StackSOs(m) = Range(semStack[m]) /\ semStack[m] \in Seq(SO) /\ StackSOs(m) \subseteq soLive
      BY <2>0, HeldAreSOs DEF Holding, HeldIsLive
    <3>7. PICK st : st = Append(semStack[m], so)
      OBVIOUS
    <3>8. st \in Seq(SO) /\ Range(st) = StackSOs(m) \cup {so} /\ OneToOne(st)
      BY <3>4, <3>6, <3>7, AppendFacts DEF Holding, HeldOnce
    <3>9. /\ Holding'
          /\ StackSOs(m)' = Range(st) /\ \A n \in Sem \ {m} : StackSOs(n)' = StackSOs(n)
          /\ \A c \in Cond : RecSOs(c)' = RecSOs(c)
      <4>1. /\ semStack' = [semStack EXCEPT ![m] = st]
            /\ Range(st) \cap (soLive \ StackSOs(m)) = {}
            /\ soLive' = (soLive \ StackSOs(m)) \cup Range(st)
        BY <3>4, <3>5, <3>6, <3>7, <3>8
      <4> QED BY <4>1, <3>8, <2>u, StackChange
    <3>10. clk[t] \in VTS
      BY <2>2, RunningClock DEF evh__HG_POSIX_SEM_POST_PRE, Ready, Alive
    <3>11. soClk'[so] = clk[t] /\ \A s \in SO \ {so} : soClk'[s] = soClk[s]
      BY <2>0, <3>4, <3>5
    <3>12. \A c \in Cond : condSO[c] # so /\ so \notin RecSOs(c)
                           /\ condSO[c] \in SO \cup {NoSO} /\ RecSOs(c) \subseteq SO
      BY <3>4, HeldAreSOs DEF Holding, HeldIsLive, Typed, CondTyped
    <3>13. \A n \in Sem : StackSOs(n) \subseteq SO
      BY HeldAreSOs
    <3> QED BY <3>4, <3>5, <3>8, <3>9, <3>10, <3>11, <3>12, <3>13, <2>u DEF Stamped
  <2>3. ASSUME NEW t \in Thr, evh__HG_POSIX_SEM_WAIT_POST(t) PROVE Holding' /\ Stamped'
    <3>1. PICK m : m = pc[t].m
      OBVIOUS
    <3>2. m \in Sem
      BY <2>3, <3>1, PcFields DEF evh__HG_POSIX_SEM_WAIT_POST, In, Typed, PcTyped
    <3>3. CASE semStack[m] = <<>>
      <4>1. UNCHANGED <<soLive, soClk, semStack>>
        BY <2>3, <3>1, <3>3 DEF evh__HG_POSIX_SEM_WAIT_POST
      <4> QED BY <4>1, <2>u, StampedSame
    <3>4. CASE semStack[m] # <<>>
      <4>1. PICK so : so = semStack[m][Len(semStack[m])]
        OBVIOUS
      <4>2. PICK st : st = SubSeq(semStack[m], 1, Len(semStack[m]) - 1)
        OBVIOUS
      <4>3. /\ soLive' = soLive \ {so}
            /\ soClk' = [soClk EXCEPT ![so] = NoVTS]
            /\ semStack' = [semStack EXCEPT ![m] = st]
        BY <2>3, <3>1, <3>4, <4>1, <4>2 DEF evh__HG_POSIX_SEM_WAIT_POST, mb_pop_SO_for_sem
      <4>4. StackSOs(m) = Range(semStack[m]) /\ semStack[m] \in Seq(SO) /\ StackSOs(m) \subseteq soLive
            /\ StackSOs(m) \subseteq SO
        BY <2>0, <3>2, HeldAreSOs DEF Holding, HeldIsLive
      <4>5. PICK old : old = semStack[m]
        OBVIOUS
      <4>5a. old \in Seq(SO) /\ old # <<>> /\ IsFront(st, old) /\ so = old[Len(old)]
             /\ OneToOne(old) /\ StackSOs(m) = Range(old)
        BY <3>2, <3>4, <4>1, <4>2, <4>4, <4>5 DEF Holding, HeldOnce, IsFront
      <4>6. st \in Seq(SO) /\ Range(st) \subseteq Range(old) /\ so \in Range(old)
        BY <4>5a, FrontFacts
      <4>6a. Range(old) = Range(st) \cup {so} /\ OneToOne(st) /\ so \notin Range(st)
        BY <4>5a, FrontFacts
      <4>7. /\ Holding'
            /\ StackSOs(m)' = Range(st) /\ \A n \in Sem \ {m} : StackSOs(n)' = StackSOs(n)
            /\ \A c \in Cond : RecSOs(c)' = RecSOs(c)
        <5>1. /\ Range(st) \cap (soLive \ StackSOs(m)) = {}
              /\ soLive' = (soLive \ StackSOs(m)) \cup Range(st)
          BY <4>3, <4>4, <4>5a, <4>6, <4>6a
        <5> QED BY <5>1, <3>2, <4>3, <4>6, <4>6a, <2>u, StackChange
      <4>8. so \in SO /\ soClk'[so] = NoVTS /\ \A s \in SO \ {so} : soClk'[s] = soClk[s]
        BY <2>0, <4>3, <4>4, <4>5a, <4>6
      <4>9. \A c \in Cond : condSO[c] # so /\ so \notin RecSOs(c)
                            /\ condSO[c] \in SO \cup {NoSO} /\ RecSOs(c) \subseteq SO
        BY <3>2, <4>5a, <4>6, HeldAreSOs DEF Holding, HeldApart, Typed, CondTyped
      <4>10. \A n \in Sem : StackSOs(n)' \subseteq SO \ {so} /\ StackSOs(n)' \subseteq StackSOs(n)
        BY <3>2, <4>4, <4>5a, <4>6, <4>6a, <4>7, HeldAreSOs DEF Holding, HeldApart
      <4>11. \A s \in SO \ soLive' : soClk'[s] = NoVTS
        BY <4>3, <4>8 DEF Stamped
      <4> QED BY <4>7, <4>8, <4>9, <4>10, <4>11, <2>u DEF Stamped
    <3> QED BY <3>3, <3>4
  <2>4. ASSUME NEW t \in Thr, NEW m \in Sem, evh__HG_POSIX_SEM_DESTROY_PRE(t, m)
        PROVE Holding' /\ Stamped'
    <3>1. PICK st : st = <<>>
      OBVIOUS
    <3>2. st \in Seq(SO) /\ OneToOne(st) /\ Range(st) = {}
      BY <3>1 DEF OneToOne, Range
    <3>3. /\ soLive' = soLive \ StackSOs(m)
          /\ soClk' = [s \in SO |-> IF s \in StackSOs(m) THEN NoVTS ELSE soClk[s]]
          /\ semStack' = [semStack EXCEPT ![m] = st]
      BY <2>4, <3>1 DEF evh__HG_POSIX_SEM_DESTROY_PRE
    <3>4. /\ Holding'
          /\ StackSOs(m)' = Range(st) /\ \A n \in Sem \ {m} : StackSOs(n)' = StackSOs(n)
          /\ \A c \in Cond : RecSOs(c)' = RecSOs(c)
      <4>1. /\ Range(st) \cap (soLive \ StackSOs(m)) = {}
            /\ soLive' = (soLive \ StackSOs(m)) \cup Range(st)
        BY <3>2, <3>3
      <4> QED BY <4>1, <3>2, <3>3, <2>u, StackChange
    <3>5. \A c \in Cond : condSO[c] \notin StackSOs(m) /\ RecSOs(c) \cap StackSOs(m) = {}
                           /\ condSO[c] \in SO \cup {NoSO} /\ RecSOs(c) \subseteq SO
      BY HeldAreSOs DEF Holding, HeldApart, Typed, CondTyped
    <3>6. \A n \in Sem \ {m} : StackSOs(n) \subseteq SO \ StackSOs(m)
      BY HeldAreSOs DEF Holding, HeldApart
    <3> QED BY <3>2, <3>3, <3>4, <3>5, <3>6, <2>u DEF Stamped
  <2>5. ASSUME NEW t \in Thr, RealPost(t) \/ \E m \in Sem : RealWait(t, m) PROVE Holding' /\ Stamped'
    <3>1. UNCHANGED <<soLive, soClk, semStack>>
      BY <2>5 DEF RealPost, RealWait
    <3> QED BY <3>1, <2>u, StampedSame
  <2> QED BY <1>2, <2>1, <2>2, <2>3, <2>4, <2>5 DEF SemStep, SemNext
<1>3. CASE BarrierStep
  <2>1. UNCHANGED <<soLive, soClk>>
    BY <1>3 DEF BarrierStep, BarrierNext, evh__HG_PTHREAD_BARRIER_INIT_PRE, Arrive,
      evh__HG_OMP_BARRIER_REINIT_PRE, evh__HG_PTHREAD_BARRIER_DESTROY_PRE,
      evh__HG_PTHREAD_BARRIER_WAIT_PRE
  <2> QED BY <1>3, <2>1, StampedSame DEF BarrierStep, semVars, condVarsAll
<1>4. CASE CondStep
  <2>u. UNCHANGED semStack
    BY <1>4 DEF CondStep, semVars
  <2>s. \A c \in Cond : condSO[c] \in SO \cup {NoSO} /\ RecSOs(c) \subseteq SO /\ sent[c] \in MaybeVTS
    BY HeldAreSOs DEF Typed, CondTyped
  <2>m. \A m \in Sem : StackSOs(m) \subseteq SO
    BY HeldAreSOs
  <2>1. ASSUME NEW t \in Thr, NEW c \in Cond, NEW a \in BOOLEAN,
               evh__HG_PTHREAD_COND_SIGNAL_PRE(t, c, a) PROVE Holding' /\ Stamped'
    <3>0. PICK so \in SO, new \in SUBSET (SO \ soLive), gone \in SUBSET RecSOs(c) :
            SignalTo(t, c, so, new, gone)
      BY <2>1, SignalFacts DEF Holding
    <3>1. /\ IF condSO[c] = NoSO THEN so \notin soLive ELSE so = condSO[c]
          /\ so \notin new
          /\ condSO' = [condSO EXCEPT ![c] = so]
          /\ \A d \in Cond \ {c} : recorded'[d] = recorded[d]
          /\ RecSOs(c)' = (RecSOs(c) \ gone) \cup new
          /\ RecOnce(c)'
          /\ recorded' \in [Cond -> Seq([writes : Seq(Var), so : SO])]
          /\ Len(recorded'[c]) <= RecMax
          /\ soLive' = (soLive \ gone) \cup {so} \cup new
          /\ soClk' = [s \in SO |-> IF s = so THEN JoinMaybe(soClk[s], clk[t])
                                     ELSE IF s \in new THEN clk[t]
                                     ELSE IF s \in gone THEN NoVTS ELSE soClk[s]]
      BY <3>0 DEF SignalTo
    <3>2. Holding' /\ (\A m \in Sem : StackSOs(m)' = StackSOs(m))
                   /\ (\A d \in Cond \ {c} : RecSOs(d)' = RecSOs(d))
      BY <3>1, <2>u, SignalHolding
    <3>3. clk[t] \in VTS
      BY <2>1, RunningClock DEF evh__HG_PTHREAD_COND_SIGNAL_PRE, Ready, Alive
    <3>4. \A s \in SO \ soLive' : soClk'[s] = NoVTS
      BY <3>1 DEF Stamped
    <3>5. so \notin RecSOs(c) /\ (\A d \in Cond : so \notin RecSOs(d)) /\ (\A m \in Sem : so \notin StackSOs(m))
      BY <3>1 DEF Holding, HeldApart, HeldIsLive
    <3>6. \A m \in Sem : \A s \in StackSOs(m)' : soClk'[s] \in VTS
      <4> SUFFICES ASSUME NEW m \in Sem, NEW s \in StackSOs(m) PROVE soClk'[s] \in VTS
        BY <3>2
      <4>1. s \in SO /\ s # so /\ s \notin gone /\ s \notin new /\ soClk[s] \in VTS
        BY <3>1, <3>5, <2>m DEF Holding, HeldApart, HeldIsLive, Stamped
      <4> QED BY <4>1, <3>1
    <3>7. \A d \in Cond : \A s \in RecSOs(d)' : soClk'[s] \in VTS
      <4> SUFFICES ASSUME NEW d \in Cond, NEW s \in RecSOs(d)' PROVE soClk'[s] \in VTS
        OBVIOUS
      <4>1. CASE s \in new
        BY <4>1, <3>1, <3>3
      <4>2. CASE s \notin new
        <5>1. s \in RecSOs(d) /\ s \notin gone
          BY <4>2, <3>1, <3>2 DEF Holding, HeldApart
        <5>2. s \in SO /\ s # so /\ soClk[s] \in VTS
          BY <5>1, <3>5, <2>s DEF Stamped
        <5> QED BY <4>2, <5>1, <5>2, <3>1
      <4> QED BY <4>1, <4>2
    <3>8. sent' = [sent EXCEPT ![c] = JoinMaybe(@, clk[t])] /\ sent \in [Cond -> MaybeVTS]
      BY <2>1 DEF evh__HG_PTHREAD_COND_SIGNAL_PRE, Typed, CondTyped
    <3>9. condSO'[c] = so /\ so # NoSO /\ soClk'[so] = JoinMaybe(soClk[so], clk[t])
      BY <3>1, HeldAreSOs DEF Typed, CondTyped
    <3>10. sent'[c] = soClk'[so]
      <4>1. soClk[so] = sent[c]
        BY <3>1 DEF Stamped
      <4> QED BY <4>1, <3>8, <3>9
    <3>11. ASSUME NEW d \in Cond \ {c}
           PROVE  sent'[d] = IF condSO'[d] = NoSO THEN NoVTS ELSE soClk'[condSO'[d]]
      <4>1. condSO'[d] = condSO[d] /\ sent'[d] = sent[d]
        BY <3>1, <3>8 DEF Typed, CondTyped
      <4>2. CASE condSO[d] = NoSO
        BY <4>1, <4>2 DEF Stamped
      <4>3. CASE condSO[d] # NoSO
        <5>1. condSO[d] \in SO /\ condSO[d] # so /\ condSO[d] \notin new /\ condSO[d] \notin gone
          BY <4>3, <3>1, <2>s DEF Holding, HeldApart, HeldIsLive
        <5> QED BY <4>1, <4>3, <5>1, <3>1 DEF Stamped
      <4> QED BY <4>2, <4>3
    <3> QED BY <3>2, <3>4, <3>6, <3>7, <3>9, <3>10, <3>11 DEF Stamped
  <2>2. ASSUME NEW t \in Thr, evh__HG_PTHREAD_COND_WAIT_POST(t) PROVE Holding' /\ Stamped'
    <3>1. pc[t].c \in Cond
      BY <2>2, PcFields DEF evh__HG_PTHREAD_COND_WAIT_POST, In, Typed, PcTyped
    <3>2. PICK C : C = {pc[t].c}
      OBVIOUS
    <3>3. WithSOs(C) /\ UNCHANGED <<recorded, sent>>
      BY <2>2, <3>2 DEF evh__HG_PTHREAD_COND_WAIT_POST
    <3> QED BY <3>1, <3>2, <3>3, <2>u, LookupStamped
  <2>3. ASSUME NEW t \in Thr, evh__HG_PTHREAD_COND_WAIT_TIMEOUT(t) PROVE Holding' /\ Stamped'
    <3>1. pc[t].c \in Cond
      BY <2>3, PcFields DEF evh__HG_PTHREAD_COND_WAIT_TIMEOUT, In, Typed, PcTyped
    <3>2. PICK C : C = {pc[t].c}
      OBVIOUS
    <3>3. WithSOs(C) /\ UNCHANGED <<recorded, sent>>
      BY <2>3, <3>2 DEF evh__HG_PTHREAD_COND_WAIT_TIMEOUT
    <3> QED BY <3>1, <3>2, <3>3, <2>u, LookupStamped
  <2>4. ASSUME NEW t \in Thr, evh__waiting_loop_end(t) PROVE Holding' /\ Stamped'
    <3>1. PICK C : C = Annotated(lsd[t])
      OBVIOUS
    <3>2. C \in SUBSET Cond
      BY <3>1 DEF Annotated, Typed, CondTyped
    <3>3. WithSOs(C) /\ UNCHANGED <<recorded, sent>>
      BY <2>4, <3>1 DEF evh__waiting_loop_end
    <3> QED BY <3>2, <3>3, <2>u, LookupStamped
  <2>5. ASSUME NEW t \in Thr, NEW c \in Cond, evh__HG_PTHREAD_COND_DESTROY_PRE(t, c)
        PROVE Holding' /\ Stamped'
    <3>1. /\ condSO' = [condSO EXCEPT ![c] = NoSO]
          /\ soLive' = soLive \ {condSO[c]}
          /\ soClk' = [s \in SO |-> IF s = condSO[c] THEN NoVTS ELSE soClk[s]]
          /\ sent' = [sent EXCEPT ![c] = NoVTS]
          /\ UNCHANGED recorded
      BY <2>5 DEF evh__HG_PTHREAD_COND_DESTROY_PRE
    <3>2. /\ condSO'[c] = NoSO /\ sent'[c] = NoVTS
          /\ \A d \in Cond \ {c} : condSO'[d] = condSO[d] /\ sent'[d] = sent[d]
      BY <3>1 DEF Typed, CondTyped
    <3>3. (\A m \in Sem : StackSOs(m)' = StackSOs(m)) /\ (\A d \in Cond : RecSOs(d)' = RecSOs(d))
      BY <3>1, <2>u DEF StackSOs, RecSOs
    <3>n. NoSO \notin SO /\ soLive \subseteq SO
      BY HeldAreSOs DEF Typed, ClocksTypeOK
    <3>4. HeldOnce'
      BY <3>1, <2>u DEF Holding, HeldOnce, RecOnce
    <3>5. HeldApart'
      <4>1. \A d, e \in Cond : condSO'[d] \notin RecSOs(e)'
        BY <3>2, <3>3, <3>n, <2>s DEF Holding, HeldApart
      <4>2. \A m \in Sem, d \in Cond : condSO'[d] \notin StackSOs(m)'
        BY <3>2, <3>3, <3>n, <2>m DEF Holding, HeldApart
      <4>3. \A d, e \in Cond : d # e /\ condSO'[d] # NoSO => condSO'[d] # condSO'[e]
        BY <3>2 DEF Holding, HeldApart
      <4> QED BY <3>3, <4>1, <4>2, <4>3 DEF Holding, HeldApart
    <3>6. HeldIsLive'
      BY <3>1, <3>2, <3>3 DEF Holding, HeldApart, HeldIsLive
    <3>7. LiveIsHeld'
      <4> SUFFICES ASSUME NEW s \in soLive, s # condSO[c]
                   PROVE  \/ \E m \in Sem : s \in StackSOs(m)'
                          \/ \E d \in Cond : s \in RecSOs(d)' \/ s = condSO'[d]
        BY <3>1 DEF LiveIsHeld
      <4> QED BY <3>2, <3>3 DEF Holding, LiveIsHeld
    <3>8. Stamped'
      <4>1. \A s \in SO \ soLive' : soClk'[s] = NoVTS
        BY <3>1 DEF Stamped
      <4>2. \A m \in Sem : \A s \in StackSOs(m)' : soClk'[s] \in VTS
        BY <3>1, <3>3, <2>m DEF Stamped, Holding, HeldApart
      <4>3. \A d \in Cond : \A s \in RecSOs(d)' : soClk'[s] \in VTS
        BY <3>1, <3>3, <2>s DEF Stamped, Holding, HeldApart
      <4>4. ASSUME NEW d \in Cond \ {c}
            PROVE  sent'[d] = IF condSO'[d] = NoSO THEN NoVTS ELSE soClk'[condSO'[d]]
        BY <3>1, <3>2, <2>s DEF Stamped, Holding, HeldApart
      <4> QED BY <3>2, <4>1, <4>2, <4>3, <4>4 DEF Stamped
    <3> QED BY <3>4, <3>5, <3>6, <3>7, <3>8 DEF Holding
  <2>6. ASSUME NEW t \in Thr, NEW m \in Mutex, MutexLock(t, m) \/ MutexUnlock(t, m)
        PROVE Holding' /\ Stamped'
    BY <2>6, <2>u, StampedSame DEF MutexLock, MutexUnlock
  <2>7. ASSUME NEW t \in Thr, NEW v \in Var, NEW w \in BOOLEAN, Access(t, v, w)
        PROVE Holding' /\ Stamped'
    BY <2>7, <2>u, StampedSame DEF Access
  <2>8. ASSUME NEW t \in Thr, NEW c \in Cond, NEW m \in Mutex,
               evh__HG_PTHREAD_COND_WAIT_PRE(t, c, m) \/ evh__waiting_loop(t, c, m)
        PROVE Holding' /\ Stamped'
    <3>1. UNCHANGED <<soLive, soClk, recorded, condSO, sent>>
      BY <2>8, Zenon DEF evh__HG_PTHREAD_COND_WAIT_PRE, evh__waiting_loop
    <3> QED BY <3>1, <2>u, StampedSame
  <2>9. ASSUME NEW t \in Thr, \/ RealSignal(t) \/ Block(t) \/ WaitFails(t) \/ Timeout(t)
                              \/ Spurious(t) \/ Reacquire(t) \/ evh__waiting_loop_begin(t)
                              \/ StrayExit(t)
        PROVE Holding' /\ Stamped'
    <3>1. UNCHANGED <<soLive, soClk, recorded, condSO, sent>>
      BY <2>9 DEF RealSignal, Block, WaitFails, Timeout, Spurious, Reacquire,
                evh__waiting_loop_begin, StrayExit, condVarsAll
    <3> QED BY <3>1, <2>u, StampedSame
  <2> QED BY <1>4, <2>1, <2>2, <2>3, <2>4, <2>5, <2>6, <2>7, <2>8, <2>9 DEF CondStep, CondNext
<1>5. CASE UNCHANGED vars
  BY <1>5, StampedSame DEF vars
<1> QED BY <1>1, <1>2, <1>3, <1>4, <1>5, FourKinds


----------------------------------------------------------------------------
(* What threads receive *)

\* How often a thread is on a list.
LEMMA TimesFacts ==
  ASSUME NEW list \in Seq(Thr), NEW t
  PROVE  /\ Times(t, list) \in Nat
         /\ Times(t, list) = 0 <=> \A i \in DOMAIN list : list[i] # t
<1> DEFINE S == {i \in DOMAIN list : list[i] = t}
<1>1. Len(list) \in Nat /\ DOMAIN list = 1 .. Len(list)
  BY SeqFacts
<1>2. IsFiniteSet(1 .. Len(list))
  BY <1>1, FS_Interval
<1>3. IsFiniteSet(S)
  BY <1>1, <1>2, FS_Subset
<1>4. Cardinality(S) \in Nat /\ (Cardinality(S) = 0 <=> S = {})
  BY <1>3, FS_CardinalityType, FS_EmptySet
<1> QED BY <1>4 DEF Times

\* The common timestamp of a barrier is above what each participant had.
LEMMA BarrierSOFacts ==
  ASSUME Typed, NEW list \in Seq(Thr), list # <<>>, \A i \in DOMAIN list : clk[list[i]] \in VTS
  PROVE  /\ BarrierSO(list) \in VTS
         /\ \A i \in DOMAIN list : VTS__leq(clk[list[i]], BarrierSO(list))
<1> DEFINE f == [i \in DOMAIN list |-> Ticks(list[i], clk[list[i]], Times(list[i], list) - 1)]
           S == {f[i] : i \in DOMAIN list}
<1>1. Len(list) \in Nat /\ DOMAIN list = 1 .. Len(list) /\ \A i \in DOMAIN list : list[i] \in Thr
  BY SeqFacts
<1>2. ASSUME NEW i \in DOMAIN list PROVE f[i] \in VTS /\ VTS__leq(clk[list[i]], f[i])
  <2>1. Times(list[i], list) \in Nat /\ Times(list[i], list) # 0
    BY <1>1, TimesFacts
  <2>2. Times(list[i], list) - 1 \in Nat
    BY <2>1
  <2> QED BY <1>1, <2>2, TicksLemma
<1>3. IsFiniteSet(1 .. Len(list))
  BY <1>1, FS_Interval
<1>4. IsFiniteSet(S)
  <2> HIDE DEF f
  <2> QED BY <1>1, <1>3, ImageFinite
<1>5. S \in SUBSET VTS /\ S # {}
  <2>1. 1 \in DOMAIN list
    BY <1>1
  <2> QED BY <1>2, <2>1
<1>6. BarrierSO(list) = JoinAll(S)
  BY DEF BarrierSO
<1>7. JoinAll(S) \in VTS /\ \A v \in S : VTS__leq(v, JoinAll(S))
  <2> HIDE DEF S
  <2> QED BY <1>4, <1>5, JoinAllLemma
<1>8. ASSUME NEW i \in DOMAIN list PROVE VTS__leq(clk[list[i]], JoinAll(S))
  <2>1. f[i] \in S
    OBVIOUS
  <2> HIDE DEF S, f
  <2> QED BY <2>1, <1>2, <1>7, LeqTrans
<1> QED BY <1>6, <1>7, <1>8

\* The participants get it; nobody else moves.
LEMMA ReleaseFacts ==
  ASSUME Typed, NEW list \in Seq(Thr), list # <<>>, \A i \in DOMAIN list : clk[list[i]] \in VTS
  PROVE  /\ DOMAIN BarrierRelease(list) = Thr
         /\ \A t \in Thr : Times(t, list) = 0 => BarrierRelease(list)[t] = clk[t]
         /\ \A t \in Thr : Times(t, list) # 0 =>
              /\ clk[t] \in VTS /\ BarrierRelease(list)[t] \in VTS
              /\ VTS__leq(clk[t], BarrierRelease(list)[t])
              /\ VTS__leq(BarrierSO(list), BarrierRelease(list)[t])
<1>1. DOMAIN BarrierRelease(list) = Thr
  BY DEF BarrierRelease
<1>2. \A t \in Thr : Times(t, list) = 0 => BarrierRelease(list)[t] = clk[t]
  BY DEF BarrierRelease
<1>3. ASSUME NEW t \in Thr, Times(t, list) # 0
      PROVE  /\ clk[t] \in VTS /\ BarrierRelease(list)[t] \in VTS
             /\ VTS__leq(clk[t], BarrierRelease(list)[t])
             /\ VTS__leq(BarrierSO(list), BarrierRelease(list)[t])
  <2>1. Times(t, list) \in Nat /\ clk[t] \in VTS
    BY <1>3, TimesFacts
  <2>2. BarrierSO(list) \in VTS
    BY BarrierSOFacts
  <2>3. PICK v : v = Ticks(t, clk[t], Times(t, list))
    OBVIOUS
  <2>4. v \in VTS /\ VTS__leq(clk[t], v)
    BY <2>1, <2>3, TicksLemma
  <2>5. BarrierRelease(list)[t] = VTS__join(v, BarrierSO(list))
    BY <1>3, <2>3 DEF BarrierRelease
  <2> QED BY <2>1, <2>2, <2>4, <2>5, JoinLemma, LeqTrans
<1> QED BY <1>1, <1>2, <1>3

\* The best signals are recorded signals.
LEMMA BestFacts ==
  ASSUME Typed, NEW c \in Cond, NEW reads, BestScore(c, reads) > 0
  PROVE  \E i \in DOMAIN recorded[c] : Score(recorded[c][i].writes, reads) = BestScore(c, reads)
<1> DEFINE f == [i \in DOMAIN recorded[c] |-> Score(recorded[c][i].writes, reads)]
           T == {f[i] : i \in DOMAIN recorded[c]}
           scores == {0} \cup T
<1>1. /\ recorded[c] \in Seq([writes : Seq(Var), so : SO])
  BY DEF Typed, CondTyped
<1>2. /\ Len(recorded[c]) \in Nat /\ DOMAIN recorded[c] = 1 .. Len(recorded[c])
      /\ \A i \in DOMAIN recorded[c] : recorded[c][i] \in [writes : Seq(Var), so : SO]
  BY <1>1, SeqFacts
<1>3. ASSUME NEW i \in DOMAIN recorded[c] PROVE f[i] \in Nat
  <2>1. PICK al : al = recorded[c][i].writes
    OBVIOUS
  <2>2. al \in Seq(Var)
    BY <2>1, <1>2
  <2>3. Len(al) \in Nat /\ DOMAIN al = 1 .. Len(al)
    BY <2>2, SeqFacts
  <2>4. IsFiniteSet(1 .. Len(al))
    BY <2>3, FS_Interval
  <2>5. IsFiniteSet({k \in DOMAIN al : al[k] \in Range(reads)})
    BY <2>3, <2>4, FS_Subset
  <2>6. Score(al, reads) \in Nat
    BY <2>5, FS_CardinalityType DEF Score
  <2> QED BY <2>1, <2>6
<1>4. IsFiniteSet(1 .. Len(recorded[c]))
  BY <1>2, FS_Interval
<1>5. IsFiniteSet(T)
  <2> HIDE DEF f
  <2> QED BY <1>2, <1>4, ImageFinite
<1>6. IsFiniteSet(scores)
  <2> HIDE DEF T
  <2> QED BY <1>5, FS_AddElement
<1>7. scores \in SUBSET Nat /\ scores # {}
  <2>1. T \in SUBSET Nat
    <3> HIDE DEF f
    <3> QED BY <1>3
  <2> HIDE DEF T
  <2> QED BY <2>1
<1>8. \E n \in scores : \A k \in scores : k <= n
  <2> HIDE DEF scores
  <2> QED BY <1>6, <1>7, Greatest
<1>9. BestScore(c, reads) = CHOOSE n \in scores : \A k \in scores : k <= n
  BY DEF BestScore
<1>10. BestScore(c, reads) \in scores
  <2> HIDE DEF scores
  <2> QED BY <1>8, <1>9
<1>11. BestScore(c, reads) \in T
  BY <1>10
<1> QED BY <1>11

LEMMA ReceivedFacts ==
  ASSUME Typed, Stamped, NEW c \in Cond, NEW th
  PROVE  /\ Received(c, th) \in MaybeVTS
         /\ lsdLevel < 2 => Received(c, th) = sent[c]
<1>1. CASE lsdLevel >= 2 /\ BestScore(c, th.reads) > 0
  <2> DEFINE best == {i \in DOMAIN recorded[c] :
                 Score(recorded[c][i].writes, th.reads) = BestScore(c, th.reads)}
             f == [i \in best |-> soClk[recorded[c][i].so]]
             S == {f[i] : i \in best}
  <2>1. best # {}
    BY <1>1, BestFacts
  <2>2. Len(recorded[c]) \in Nat /\ DOMAIN recorded[c] = 1 .. Len(recorded[c])
    BY SeqFacts DEF Typed, CondTyped
  <2>3. IsFiniteSet(1 .. Len(recorded[c]))
    BY <2>2, FS_Interval
  <2>4. IsFiniteSet(best)
    BY <2>2, <2>3, FS_Subset
  <2>5. IsFiniteSet(S)
    <3> HIDE DEF f, best
    <3> QED BY <2>4, ImageFinite
  <2>6. S \in SUBSET VTS
    BY DEF Stamped, RecSOs
  <2>7. S # {}
    BY <2>1
  <2>8. hg_lsd__cond_direct_so(c, th.reads) = JoinAll(S)
    BY DEF hg_lsd__cond_direct_so
  <2>9. JoinAll(S) \in VTS
    <3> HIDE DEF S
    <3> QED BY <2>5, <2>6, <2>7, JoinAllLemma
  <2>10. lsdLevel \in 0 .. 2
    BY DEF Typed, CondTyped
  <2> QED BY <1>1, <2>8, <2>9, <2>10 DEF Received, MaybeVTS
<1>2. CASE ~(lsdLevel >= 2 /\ BestScore(c, th.reads) > 0)
  <2>1. Received(c, th) = IF condSO[c] = NoSO THEN NoVTS ELSE soClk[condSO[c]]
    BY <1>2 DEF Received
  <2> QED BY <2>1 DEF Stamped, Typed, CondTyped
<1> QED BY <1>1, <1>2


----------------------------------------------------------------------------
(* Clocks only move forward *)

Onward ==
  /\ clk' \in [Thr -> MaybeVTS]
  /\ \A t \in Thr : clk[t] \in VTS => clk'[t] \in VTS /\ VTS__leq(clk[t], clk'[t])
  /\ \A t \in Thr : clk'[t] = NoVTS <=> life'[t] = "unborn"

LEMMA OnwardOne ==
  ASSUME Typed, NEW t \in Thr, NEW x \in VTS, clk[t] \in VTS, VTS__leq(clk[t], x),
         clk' = [clk EXCEPT ![t] = x], UNCHANGED life
  PROVE  Onward
<1> USE NoVTSAssumption, LeqRefl
<1>1. clk \in [Thr -> MaybeVTS] /\ \A u \in Thr : clk[u] = NoVTS <=> life[u] = "unborn"
  BY DEF Typed, ClocksTypeOK, LifeTyped
<1>2. clk'[t] = x /\ \A u \in Thr \ {t} : clk'[u] = clk[u]
  BY <1>1
<1>3. clk' \in [Thr -> MaybeVTS]
  BY <1>1 DEF MaybeVTS
<1> QED BY <1>1, <1>2, <1>3 DEF Onward

LEMMA OnwardSame ==
  ASSUME Typed, UNCHANGED clk, \A u \in Thr : life'[u] = "unborn" <=> life[u] = "unborn"
  PROVE  Onward
BY LeqRefl DEF Typed, ClocksTypeOK, LifeTyped, Onward

LEMMA OnwardStep == Typed /\ Holding /\ Stamped /\ [Next]_vars => Onward
<1> SUFFICES ASSUME Typed, Holding, Stamped, [Next]_vars PROVE Onward
  OBVIOUS
<1> USE DEF clkVars, thrVars
<1>0. /\ clk \in [Thr -> MaybeVTS] /\ soClk \in [SO -> MaybeVTS] /\ pc \in [Thr -> PC]
      /\ life \in [Thr -> {"unborn", "started", "running", "gone", "joined"}]
      /\ \A u \in Thr : clk[u] = NoVTS <=> life[u] = "unborn"
      /\ \A u \in Thr : clk[u] # NoVTS => clk[u] \in VTS
  BY DEF Typed, ClocksTypeOK, LifeTyped, PcTyped, ThreadsTyped, MaybeVTS
<1>1. CASE ThreadsStep
  <2>1. ASSUME NEW p \in Thr, NEW c \in Thr, evh__pre_thread_ll_create(p, c) PROVE Onward
    <3>1. life[p] = "running" /\ life[c] = "unborn" /\ p # c
          /\ life' = [life EXCEPT ![c] = "started"]
      BY <2>1 DEF evh__pre_thread_ll_create, Ready, Alive
    <3>2. clk[p] \in VTS /\ clk[c] = NoVTS
      BY <1>0, <3>1
    <3>3. clk' = [clk EXCEPT ![c] = VTS__tick(c, clk[p]), ![p] = VTS__tick(p, clk[p])]
      BY <2>1 DEF evh__pre_thread_ll_create, Create
    <3>4. /\ VTS__tick(c, clk[p]) \in VTS /\ VTS__tick(p, clk[p]) \in VTS
          /\ VTS__leq(clk[p], VTS__tick(p, clk[p]))
      BY <3>2, TickLemma
    <3>5. clk'[c] = VTS__tick(c, clk[p]) /\ clk'[p] = VTS__tick(p, clk[p])
          /\ \A u \in Thr \ {c, p} : clk'[u] = clk[u]
      BY <1>0, <3>1, <3>3
    <3>6. clk' \in [Thr -> MaybeVTS]
      BY <1>0, <3>3, <3>4 DEF MaybeVTS
    <3>7. \A u \in Thr : clk'[u] = NoVTS <=> life'[u] = "unborn"
      BY <1>0, <3>1, <3>4, <3>5, NoVTSAssumption
    <3>8. \A u \in Thr : clk[u] \in VTS => clk'[u] \in VTS /\ VTS__leq(clk[u], clk'[u])
      BY <3>2, <3>4, <3>5, NoVTSAssumption, LeqRefl
    <3> QED BY <3>6, <3>7, <3>8 DEF Onward
  <2>2. ASSUME NEW t \in Thr, set_my_pthread_t(t) PROVE Onward
    BY <2>2, <1>0, OnwardSame DEF set_my_pthread_t
  <2>3. ASSUME NEW t \in Thr, CreateReturns(t) PROVE Onward
    BY <2>3, OnwardSame DEF CreateReturns
  <2>4. ASSUME NEW s \in Thr, evh__HG_PTHREAD_JOIN_POST(s) PROVE Onward
    <3>1. PICK q : q = Quitter(s)
      OBVIOUS
    <3>2. UNCHANGED life /\ life[s] = "running"
      BY <2>4 DEF evh__HG_PTHREAD_JOIN_POST, In, Alive
    <3>3. CASE q \notin Thr \/ q = s
      <4>1. UNCHANGED clk
        BY <2>4, <3>1, <3>3 DEF evh__HG_PTHREAD_JOIN_POST
      <4> QED BY <3>2, <4>1, OnwardSame
    <3>4. CASE q \in Thr /\ q # s
      <4>1. MayTick(q) /\ clk' = [clk EXCEPT ![q] = VTS__tick(q, @), ![s] = VTS__join(@, clk[q])]
        BY <2>4, <3>1, <3>4 DEF evh__HG_PTHREAD_JOIN_POST
      <4>2. clk[q] \in VTS /\ clk[s] \in VTS
        BY <1>0, <3>2, <3>4, <4>1 DEF MayTick, Created
      <4>3. /\ VTS__tick(q, clk[q]) \in VTS /\ VTS__leq(clk[q], VTS__tick(q, clk[q]))
            /\ VTS__join(clk[s], clk[q]) \in VTS /\ VTS__leq(clk[s], VTS__join(clk[s], clk[q]))
        BY <3>4, <4>2, TickLemma, JoinLemma
      <4>4. clk'[q] = VTS__tick(q, clk[q]) /\ clk'[s] = VTS__join(clk[s], clk[q])
            /\ \A u \in Thr \ {q, s} : clk'[u] = clk[u]
        BY <1>0, <3>4, <4>1
      <4>5. clk' \in [Thr -> MaybeVTS]
        BY <1>0, <4>1, <4>3 DEF MaybeVTS
      <4>6. \A u \in Thr : clk[u] \in VTS => clk'[u] \in VTS /\ VTS__leq(clk[u], clk'[u])
        BY <4>3, <4>4, LeqRefl
      <4>7. \A u \in Thr : clk'[u] = NoVTS <=> life'[u] = "unborn"
        BY <1>0, <3>2, <4>2, <4>3, <4>4, NoVTSAssumption
      <4> QED BY <4>5, <4>6, <4>7 DEF Onward
    <3> QED BY <3>3, <3>4
  <2>5. ASSUME NEW t \in Thr, NEW d \in BOOLEAN, evh__pre_thread_ll_exit(t, d) PROVE Onward
    BY <2>5, <1>0, OnwardSame DEF evh__pre_thread_ll_exit, Ready, Alive
  <2>6. ASSUME NEW s \in Thr, NEW q \in Thr, JoinReturns(s, q) PROVE Onward
    BY <2>6, <1>0, OnwardSame DEF JoinReturns
  <2> QED BY <1>1, <2>1, <2>2, <2>3, <2>4, <2>5, <2>6 DEF ThreadsStep, ThreadsNext
<1>2. CASE SemStep
  <2>1. ASSUME NEW t \in Thr, NEW m \in Sem, NEW v \in 0 .. MaxInit,
               evh__HG_POSIX_SEM_INIT_POST(t, m, v) PROVE Onward
    <3>1. clk[t] \in VTS /\ UNCHANGED life
      BY <2>1, RunningClock DEF evh__HG_POSIX_SEM_INIT_POST, Ready, Alive
    <3>2. PICK stack \in Seq(SO), left \in SUBSET SO : SemInitTo(t, m, v, stack, left)
      BY <2>1, SemInitFacts
    <3>3. clk' = [clk EXCEPT ![t] = Ticks(t, clk[t], Len(stack))] /\ Len(stack) \in Nat
      BY <3>2, SeqFacts DEF SemInitTo
    <3> QED BY <3>1, <3>3, TicksLemma, OnwardOne
  <2>2. ASSUME NEW t \in Thr, NEW m \in Sem, evh__HG_POSIX_SEM_POST_PRE(t, m) PROVE Onward
    <3>1. clk[t] \in VTS /\ UNCHANGED life /\ clk' = [clk EXCEPT ![t] = VTS__tick(t, clk[t])]
      BY <2>2, RunningClock DEF evh__HG_POSIX_SEM_POST_PRE, Ready, Alive
    <3> QED BY <3>1, TickLemma, OnwardOne
  <2>3. ASSUME NEW t \in Thr, evh__HG_POSIX_SEM_WAIT_POST(t) PROVE Onward
    <3>1. PICK m : m = pc[t].m
      OBVIOUS
    <3>2. m \in Sem /\ clk[t] \in VTS /\ UNCHANGED life
      BY <2>3, <3>1, <1>0, PcFields, RunningClock DEF evh__HG_POSIX_SEM_WAIT_POST, In, Alive
    <3>3. CASE semStack[m] = <<>>
      <4>1. UNCHANGED clk
        BY <2>3, <3>1, <3>3 DEF evh__HG_POSIX_SEM_WAIT_POST
      <4> QED BY <3>2, <4>1, OnwardSame
    <3>4. CASE semStack[m] # <<>>
      <4>1. PICK so : so = semStack[m][Len(semStack[m])]
        OBVIOUS
      <4>2. clk' = [clk EXCEPT ![t] = VTS__join(clk[t], soClk[so])]
        BY <2>3, <3>1, <3>4, <4>1 DEF evh__HG_POSIX_SEM_WAIT_POST
      <4>3. semStack[m] \in Seq(SO)
        BY <3>2 DEF Typed, SemTyped
      <4>4. so \in StackSOs(m)
        <5>1. Len(semStack[m]) \in DOMAIN semStack[m]
          BY <3>4, <4>3
        <5> QED BY <4>1, <5>1 DEF StackSOs
      <4>5. soClk[so] \in VTS
        BY <3>2, <4>4 DEF Stamped
      <4> QED BY <3>2, <4>2, <4>5, JoinLemma, OnwardOne
    <3> QED BY <3>3, <3>4
  <2>4. ASSUME NEW t \in Thr, NEW m \in Sem, evh__HG_POSIX_SEM_DESTROY_PRE(t, m) \/ RealWait(t, m)
        PROVE Onward
    BY <2>4, OnwardSame DEF evh__HG_POSIX_SEM_DESTROY_PRE, RealWait
  <2>5. ASSUME NEW t \in Thr, RealPost(t) PROVE Onward
    BY <2>5, OnwardSame DEF RealPost
  <2> QED BY <1>2, <2>1, <2>2, <2>3, <2>4, <2>5 DEF SemStep, SemNext
<1>3. CASE BarrierStep
  <2>0. UNCHANGED life
    BY <1>3 DEF BarrierStep, BarrierNext, evh__HG_PTHREAD_BARRIER_INIT_PRE, Arrive,
      evh__HG_OMP_BARRIER_REINIT_PRE, evh__HG_PTHREAD_BARRIER_DESTROY_PRE,
      evh__HG_PTHREAD_BARRIER_WAIT_PRE
  <2>1. ASSUME NEW t \in Thr, NEW b \in Barrier, evh__HG_PTHREAD_BARRIER_WAIT_PRE(t, b)
        PROVE Onward
    <3>1. PICK all : all = Append(bar[b].waiting, t)
      OBVIOUS
    <3>2. UNCHANGED clk \/ clk' = BarrierRelease(all)
      BY <2>1, <3>1 DEF evh__HG_PTHREAD_BARRIER_WAIT_PRE
    <3>3. bar[b].waiting \in Seq(Thr) /\ clk[t] \in VTS
      BY <2>1, RunningClock DEF evh__HG_PTHREAD_BARRIER_WAIT_PRE, Ready, Alive, Typed, BarTyped, BarrierTypeOK
    <3>4. all \in Seq(Thr) /\ all # <<>> /\ \A i \in DOMAIN all : clk[all[i]] \in VTS
      <4>1. \A i \in DOMAIN bar[b].waiting : clk[bar[b].waiting[i]] \in VTS
        BY <1>0, <3>3, SeqFacts DEF Typed, BarTyped
      <4>2. \A x \in Range(bar[b].waiting) : clk[x] \in VTS
        BY <4>1 DEF Range
      <4>3. all \in Seq(Thr) /\ Len(all) = Len(bar[b].waiting) + 1
            /\ Range(all) = Range(bar[b].waiting) \cup {t}
        BY <3>1, <3>3, AppendFacts
      <4>4. \A x \in Range(all) : clk[x] \in VTS
        BY <4>2, <4>3, <3>3
      <4>5. all # <<>>
        BY <3>1, <3>3
      <4> QED BY <4>3, <4>4, <4>5 DEF Range
    <3>5. CASE UNCHANGED clk
      BY <2>0, <3>5, OnwardSame
    <3>6. CASE clk' = BarrierRelease(all)
      <4>1. /\ DOMAIN clk' = Thr
            /\ \A u \in Thr : Times(u, all) = 0 => clk'[u] = clk[u]
            /\ \A u \in Thr : Times(u, all) # 0 =>
                 clk[u] \in VTS /\ clk'[u] \in VTS /\ VTS__leq(clk[u], clk'[u])
        BY <3>4, <3>6, ReleaseFacts
      <4>2. \A u \in Thr : clk'[u] \in MaybeVTS
        BY <1>0, <4>1 DEF MaybeVTS
      <4>3. clk' = [u \in Thr |-> clk'[u]]
        BY <3>6 DEF BarrierRelease
      <4>4. clk' \in [Thr -> MaybeVTS]
        BY <4>2, <4>3
      <4>5. \A u \in Thr : clk[u] \in VTS => clk'[u] \in VTS /\ VTS__leq(clk[u], clk'[u])
        BY <4>1, LeqRefl
      <4>6. \A u \in Thr : clk'[u] = NoVTS <=> life'[u] = "unborn"
        BY <1>0, <2>0, <4>1, NoVTSAssumption
      <4> QED BY <4>4, <4>5, <4>6 DEF Onward
    <3> QED BY <3>2, <3>5, <3>6
  <2>2. CASE UNCHANGED clk
    BY <2>0, <2>2, OnwardSame
  <2>3. (\E t \in Thr, b \in Barrier : evh__HG_PTHREAD_BARRIER_WAIT_PRE(t, b)) \/ UNCHANGED clk
    BY <1>3 DEF BarrierStep, BarrierNext, evh__HG_PTHREAD_BARRIER_INIT_PRE, Arrive,
      evh__HG_OMP_BARRIER_REINIT_PRE, evh__HG_PTHREAD_BARRIER_DESTROY_PRE
  <2> QED BY <2>1, <2>2, <2>3
<1>4. CASE CondStep
  <2>1. ASSUME NEW t \in Thr, NEW c \in Cond, NEW a \in BOOLEAN,
               evh__HG_PTHREAD_COND_SIGNAL_PRE(t, c, a) PROVE Onward
    <3>1. clk[t] \in VTS /\ UNCHANGED life /\ clk' = [clk EXCEPT ![t] = VTS__tick(t, clk[t])]
      BY <2>1, RunningClock DEF evh__HG_PTHREAD_COND_SIGNAL_PRE, Ready, Alive
    <3> QED BY <3>1, TickLemma, OnwardOne
  <2>2. ASSUME NEW t \in Thr, evh__HG_PTHREAD_COND_WAIT_POST(t) PROVE Onward
    <3>1. PICK r, c, th : /\ r = Received(c, th) /\ c = pc[t].c
                          /\ th = [hg_lsd__mutex_lock(lsd[t]) EXCEPT !.waiting = FALSE]
      OBVIOUS
    <3>2. c \in Cond /\ clk[t] \in VTS /\ UNCHANGED life
      BY <2>2, <3>1, <1>0, PcFields, RunningClock DEF evh__HG_PTHREAD_COND_WAIT_POST, In, Alive
    <3>3. clk' = clk \/ (r # NoVTS /\ clk' = [clk EXCEPT ![t] = VTS__join(clk[t], r)])
      BY <2>2, <3>1 DEF evh__HG_PTHREAD_COND_WAIT_POST
    <3>4. r \in MaybeVTS
      BY <3>1, <3>2, ReceivedFacts
    <3>5. CASE clk' = clk
      BY <3>2, <3>5, OnwardSame
    <3>6. CASE r # NoVTS /\ clk' = [clk EXCEPT ![t] = VTS__join(clk[t], r)]
      <4>1. r \in VTS
        BY <3>4, <3>6 DEF MaybeVTS
      <4> QED BY <3>2, <3>6, <4>1, JoinLemma, OnwardOne
    <3> QED BY <3>3, <3>5, <3>6
  <2>3. ASSUME NEW t \in Thr, evh__waiting_loop_end(t) PROVE Onward
    <3>1. PICK got : got = {Received(c, lsd[t]) : c \in Annotated(lsd[t])} \ {NoVTS}
      OBVIOUS
    <3>2. clk[t] \in VTS /\ UNCHANGED life /\ clk' = [clk EXCEPT ![t] = JoinAll(got \cup {clk[t]})]
      BY <2>3, <3>1, RunningClock DEF evh__waiting_loop_end, Ready, Alive
    <3>3. Annotated(lsd[t]) \subseteq Cond
      BY DEF Annotated, Typed, CondTyped
    <3>4. IsFiniteSet(Annotated(lsd[t]))
      BY <3>3, CondAssumption, FS_Subset
    <3>5. IsFiniteSet(got)
      <4>1. PICK f : f = [c \in Annotated(lsd[t]) |-> Received(c, lsd[t])]
        OBVIOUS
      <4>2. PICK A : A = Annotated(lsd[t])
        OBVIOUS
      <4>3. IsFiniteSet({f[c] : c \in A})
        BY <3>4, <4>2, ImageFinite
      <4>4. got \subseteq {f[c] : c \in A}
        BY <3>1, <4>1, <4>2
      <4> QED BY <4>3, <4>4, FS_Subset
    <3>6. got \subseteq VTS
      BY <3>1, <3>3, ReceivedFacts DEF MaybeVTS
    <3>7. IsFiniteSet(got \cup {clk[t]})
      BY <3>5, FS_AddElement
    <3>8. JoinAll(got \cup {clk[t]}) \in VTS /\ VTS__leq(clk[t], JoinAll(got \cup {clk[t]}))
      <4>1. PICK S : S = got \cup {clk[t]}
        OBVIOUS
      <4>2. S \in SUBSET VTS /\ S # {} /\ clk[t] \in S /\ IsFiniteSet(S)
        BY <3>2, <3>6, <3>7, <4>1
      <4> QED BY <4>1, <4>2, JoinAllLemma
    <3> QED BY <3>2, <3>8, OnwardOne
  <2>4. ASSUME NEW t \in Thr, NEW c \in Cond, evh__HG_PTHREAD_COND_DESTROY_PRE(t, c) PROVE Onward
    BY <2>4, OnwardSame DEF evh__HG_PTHREAD_COND_DESTROY_PRE
  <2>5. ASSUME NEW t \in Thr, evh__HG_PTHREAD_COND_WAIT_TIMEOUT(t) PROVE Onward
    BY <2>5, OnwardSame DEF evh__HG_PTHREAD_COND_WAIT_TIMEOUT
  <2>6. ASSUME NEW t \in Thr, NEW m \in Mutex, MutexLock(t, m) \/ MutexUnlock(t, m) PROVE Onward
    BY <2>6, OnwardSame DEF MutexLock, MutexUnlock
  <2>7. ASSUME NEW t \in Thr, NEW v \in Var, NEW w \in BOOLEAN, Access(t, v, w) PROVE Onward
    BY <2>7, OnwardSame DEF Access
  <2>8. ASSUME NEW t \in Thr, NEW c \in Cond, NEW m \in Mutex,
               evh__HG_PTHREAD_COND_WAIT_PRE(t, c, m) \/ evh__waiting_loop(t, c, m) PROVE Onward
    <3>1. UNCHANGED <<clk, life>>
      BY <2>8, Zenon DEF evh__HG_PTHREAD_COND_WAIT_PRE, evh__waiting_loop
    <3> QED BY <3>1, OnwardSame
  <2>9. ASSUME NEW t \in Thr, \/ RealSignal(t) \/ Block(t) \/ WaitFails(t) \/ Timeout(t)
                              \/ Spurious(t) \/ Reacquire(t) \/ evh__waiting_loop_begin(t)
                              \/ StrayExit(t)
        PROVE Onward
    <3>1. UNCHANGED <<clk, life>>
      BY <2>9 DEF RealSignal, Block, WaitFails, Timeout, Spurious, Reacquire,
                evh__waiting_loop_begin, StrayExit
    <3> QED BY <3>1, OnwardSame
  <2> QED BY <1>4, <2>1, <2>2, <2>3, <2>4, <2>5, <2>6, <2>7, <2>8, <2>9 DEF CondStep, CondNext
<1>5. CASE UNCHANGED vars
  BY <1>5, OnwardSame DEF vars
<1> QED BY <1>1, <1>2, <1>3, <1>4, <1>5, FourKinds


----------------------------------------------------------------------------
(* The rest of the types *)

LEMMA ClocksTypedStep == Typed /\ Holding /\ Stamped /\ Onward /\ [Next]_vars => ClocksTypeOK'
<1> SUFFICES ASSUME Typed, Holding, Stamped, Onward, [Next]_vars PROVE ClocksTypeOK'
  OBVIOUS
<1> USE DEF clkVars
<1>0. /\ soClk \in [SO -> MaybeVTS] /\ soLive \subseteq SO /\ cell \in [Cell -> MaybeVTS]
      /\ clk' \in [Thr -> MaybeVTS]
  BY DEF Typed, ClocksTypeOK, Onward
<1>c. UNCHANGED cell
  <2>1. CASE ThreadsStep
    BY <2>1 DEF ThreadsStep, ThreadsNext, evh__pre_thread_ll_create, set_my_pthread_t,
      CreateReturns, evh__HG_PTHREAD_JOIN_POST, evh__pre_thread_ll_exit, JoinReturns, Create
  <2>2. CASE SemStep
    BY <2>2 DEF SemStep, SemNext, evh__HG_POSIX_SEM_INIT_POST, evh__HG_POSIX_SEM_POST_PRE, RealPost,
      RealWait, evh__HG_POSIX_SEM_WAIT_POST, evh__HG_POSIX_SEM_DESTROY_PRE
  <2>3. CASE BarrierStep
    BY <2>3 DEF BarrierStep, BarrierNext, evh__HG_PTHREAD_BARRIER_INIT_PRE, Arrive,
      evh__HG_OMP_BARRIER_REINIT_PRE, evh__HG_PTHREAD_BARRIER_DESTROY_PRE,
      evh__HG_PTHREAD_BARRIER_WAIT_PRE
  <2>4. CASE CondStep
    <3>1. ASSUME NEW t \in Thr, NEW c \in Cond, NEW m \in Mutex,
                 evh__HG_PTHREAD_COND_WAIT_PRE(t, c, m) \/ evh__waiting_loop(t, c, m)
          PROVE  UNCHANGED cell
      BY <3>1, Zenon DEF evh__HG_PTHREAD_COND_WAIT_PRE, evh__waiting_loop
    <3>2. ASSUME NEW t \in Thr, \/ RealSignal(t) \/ Block(t) \/ WaitFails(t) \/ Timeout(t)
                                \/ Spurious(t) \/ Reacquire(t) \/ evh__HG_PTHREAD_COND_WAIT_POST(t)
                                \/ evh__HG_PTHREAD_COND_WAIT_TIMEOUT(t) \/ evh__waiting_loop_begin(t)
                                \/ evh__waiting_loop_end(t) \/ StrayExit(t)
          PROVE  UNCHANGED cell
      BY <3>2 DEF RealSignal, Block, WaitFails, Timeout, Spurious, Reacquire,
        evh__HG_PTHREAD_COND_WAIT_POST, evh__HG_PTHREAD_COND_WAIT_TIMEOUT, evh__waiting_loop_begin,
        evh__waiting_loop_end, StrayExit
    <3>3. ASSUME NEW t \in Thr, NEW c \in Cond, NEW a \in BOOLEAN,
                 \/ evh__HG_PTHREAD_COND_SIGNAL_PRE(t, c, a) \/ evh__HG_PTHREAD_COND_DESTROY_PRE(t, c)
          PROVE  UNCHANGED cell
      BY <3>3 DEF evh__HG_PTHREAD_COND_SIGNAL_PRE, evh__HG_PTHREAD_COND_DESTROY_PRE
    <3>4. ASSUME NEW t \in Thr, \/ \E m \in Mutex : MutexLock(t, m) \/ MutexUnlock(t, m)
                                \/ \E v \in Var, w \in BOOLEAN : Access(t, v, w)
          PROVE  UNCHANGED cell
      BY <3>4 DEF MutexLock, MutexUnlock, Access
    <3> QED BY <2>4, <3>1, <3>2, <3>3, <3>4 DEF CondStep, CondNext
  <2>5. CASE UNCHANGED vars
    BY <2>5 DEF vars
  <2> QED BY <2>1, <2>2, <2>3, <2>4, <2>5, FourKinds
<1> SUFFICES soLive' \subseteq SO /\ soClk' \in [SO -> MaybeVTS]
  BY <1>0, <1>c DEF ClocksTypeOK
<1>u. ASSUME UNCHANGED <<soLive, soClk>> PROVE soLive' \subseteq SO /\ soClk' \in [SO -> MaybeVTS]
  BY <1>0, <1>u
<1>1. CASE ThreadsStep
  BY <1>1, <1>u DEF ThreadsStep, ThreadsNext, evh__pre_thread_ll_create, set_my_pthread_t, CreateReturns,
      evh__HG_PTHREAD_JOIN_POST, evh__pre_thread_ll_exit, JoinReturns, Create
<1>2. CASE SemStep
  <2>1. ASSUME NEW t \in Thr, NEW m \in Sem, NEW v \in 0 .. MaxInit,
               evh__HG_POSIX_SEM_INIT_POST(t, m, v)
        PROVE  soLive' \subseteq SO /\ soClk' \in [SO -> MaybeVTS]
    <3>1. clk[t] \in VTS
      BY <2>1, RunningClock DEF evh__HG_POSIX_SEM_INIT_POST, Ready, Alive
    <3>2. PICK stack \in Seq(SO), left \in SUBSET SO : SemInitTo(t, m, v, stack, left)
      BY <2>1, SemInitFacts
    <3>3. Range(stack) \subseteq SO /\ DOMAIN stack = 1 .. Len(stack) /\ Len(stack) \in Nat
      BY SeqFacts DEF Range
    <3>4. \A s \in Range(stack) : soClk'[s] \in VTS
      <4> SUFFICES ASSUME NEW k \in 1 .. Len(stack) PROVE soClk'[stack[k]] \in VTS
        BY <3>3 DEF Range
      <4>1. k - 1 \in Nat
        BY <3>3
      <4> QED BY <3>1, <3>2, <4>1, TicksLemma DEF SemInitTo
    <3>5. \A s \in SO : soClk'[s] \in MaybeVTS
      BY <1>0, <3>2, <3>4 DEF SemInitTo, MaybeVTS
    <3>6. soClk' = [s \in SO |-> soClk'[s]] /\ soLive' = left \cup Range(stack)
      BY <3>2 DEF SemInitTo
    <3> QED BY <3>3, <3>5, <3>6
  <2>2. ASSUME NEW t \in Thr, NEW m \in Sem, evh__HG_POSIX_SEM_POST_PRE(t, m)
        PROVE  soLive' \subseteq SO /\ soClk' \in [SO -> MaybeVTS]
    <3>1. PICK so : so = libhb_so_alloc(0)
      OBVIOUS
    <3>2. IsFiniteSet(Spare)
      BY FiniteAssumption, FS_Subset DEF Spare
    <3>3. Cardinality(Spare) \in Nat /\ Cardinality(Spare) # 0
      BY <2>2, <3>2, FS_CardinalityType, FS_EmptySet DEF evh__HG_POSIX_SEM_POST_PRE
    <3>4. so \in SO \ soLive
      BY <3>1, <3>3, AllocFacts
    <3>5. clk[t] \in VTS
      BY <2>2, RunningClock DEF evh__HG_POSIX_SEM_POST_PRE, Ready, Alive
    <3> QED BY <1>0, <2>2, <3>1, <3>4, <3>5 DEF evh__HG_POSIX_SEM_POST_PRE, MaybeVTS
  <2>3. ASSUME NEW t \in Thr, evh__HG_POSIX_SEM_WAIT_POST(t)
        PROVE  soLive' \subseteq SO /\ soClk' \in [SO -> MaybeVTS]
    <3>1. PICK so : \/ soLive' = soLive \ {so} /\ soClk' = [soClk EXCEPT ![so] = NoVTS]
                    \/ UNCHANGED <<soLive, soClk>>
      BY <2>3 DEF evh__HG_POSIX_SEM_WAIT_POST
    <3> QED BY <1>0, <3>1 DEF MaybeVTS
  <2>4. ASSUME NEW t \in Thr, NEW m \in Sem, evh__HG_POSIX_SEM_DESTROY_PRE(t, m)
        PROVE  soLive' \subseteq SO /\ soClk' \in [SO -> MaybeVTS]
    BY <1>0, <2>4 DEF evh__HG_POSIX_SEM_DESTROY_PRE, MaybeVTS
  <2>5. ASSUME NEW t \in Thr, RealPost(t) \/ \E m \in Sem : RealWait(t, m)
        PROVE  soLive' \subseteq SO /\ soClk' \in [SO -> MaybeVTS]
    BY <2>5, <1>u DEF RealPost, RealWait
  <2> QED BY <1>2, <2>1, <2>2, <2>3, <2>4, <2>5 DEF SemStep, SemNext
<1>3. CASE BarrierStep
  BY <1>3, <1>u DEF BarrierStep, BarrierNext, evh__HG_PTHREAD_BARRIER_INIT_PRE, Arrive,
      evh__HG_OMP_BARRIER_REINIT_PRE, evh__HG_PTHREAD_BARRIER_DESTROY_PRE,
      evh__HG_PTHREAD_BARRIER_WAIT_PRE
<1>4. CASE CondStep
  <2>0. ASSUME NEW C \in SUBSET Cond, WithSOs(C)
        PROVE  soLive' \subseteq SO /\ soClk' \in [SO -> MaybeVTS]
    <3>1. PICK f \in [{c \in C : condSO[c] = NoSO} -> SO \ soLive] :
             /\ soLive' = soLive \cup {f[c] : c \in {e \in C : condSO[e] = NoSO}}
             /\ soClk' = soClk
      BY <2>0, WithSOsFacts
    <3> QED BY <3>1, <1>0
  <2>1. ASSUME NEW t \in Thr, NEW c \in Cond, NEW a \in BOOLEAN,
               evh__HG_PTHREAD_COND_SIGNAL_PRE(t, c, a)
        PROVE  soLive' \subseteq SO /\ soClk' \in [SO -> MaybeVTS]
    <3>1. PICK so \in SO, new \in SUBSET (SO \ soLive), gone \in SUBSET RecSOs(c) :
            SignalTo(t, c, so, new, gone)
      BY <2>1, SignalFacts DEF Holding
    <3>2. clk[t] \in VTS
      BY <2>1, RunningClock DEF evh__HG_PTHREAD_COND_SIGNAL_PRE, Ready, Alive
    <3>3. JoinMaybe(soClk[so], clk[t]) \in VTS
      BY <1>0, <3>2, JoinLemma DEF JoinMaybe, MaybeVTS
    <3>4. \A s \in SO : soClk'[s] \in MaybeVTS
      BY <1>0, <3>1, <3>2, <3>3 DEF SignalTo, MaybeVTS
    <3>5. soClk' = [s \in SO |-> soClk'[s]]
      BY <3>1 DEF SignalTo
    <3>6. soLive' \subseteq SO
      BY <1>0, <3>1 DEF SignalTo
    <3> QED BY <3>4, <3>5, <3>6
  <2>2. ASSUME NEW t \in Thr, \/ evh__HG_PTHREAD_COND_WAIT_POST(t) \/ evh__HG_PTHREAD_COND_WAIT_TIMEOUT(t)
        PROVE  soLive' \subseteq SO /\ soClk' \in [SO -> MaybeVTS]
    <3>1. pc[t].c \in Cond
      BY <2>2, PcFields DEF evh__HG_PTHREAD_COND_WAIT_POST, evh__HG_PTHREAD_COND_WAIT_TIMEOUT,
                            In, Typed, PcTyped
    <3>2. WithSOs({pc[t].c})
      BY <2>2 DEF evh__HG_PTHREAD_COND_WAIT_POST, evh__HG_PTHREAD_COND_WAIT_TIMEOUT
    <3>3. PICK C : C = {pc[t].c}
      OBVIOUS
    <3> QED BY <3>1, <3>2, <3>3, <2>0
  <2>4. ASSUME NEW t \in Thr, evh__waiting_loop_end(t)
        PROVE  soLive' \subseteq SO /\ soClk' \in [SO -> MaybeVTS]
    <3>1. PICK C : C = Annotated(lsd[t])
      OBVIOUS
    <3>2. C \in SUBSET Cond
      BY <3>1 DEF Annotated, Typed, CondTyped
    <3>3. WithSOs(C)
      BY <2>4, <3>1 DEF evh__waiting_loop_end
    <3> QED BY <3>2, <3>3, <2>0
  <2>5. ASSUME NEW t \in Thr, NEW c \in Cond, evh__HG_PTHREAD_COND_DESTROY_PRE(t, c)
        PROVE  soLive' \subseteq SO /\ soClk' \in [SO -> MaybeVTS]
    BY <1>0, <2>5 DEF evh__HG_PTHREAD_COND_DESTROY_PRE, MaybeVTS
  <2>6. ASSUME NEW t \in Thr, NEW m \in Mutex, MutexLock(t, m) \/ MutexUnlock(t, m)
        PROVE  soLive' \subseteq SO /\ soClk' \in [SO -> MaybeVTS]
    BY <2>6, <1>u DEF MutexLock, MutexUnlock
  <2>7. ASSUME NEW t \in Thr, NEW v \in Var, NEW w \in BOOLEAN, Access(t, v, w)
        PROVE  soLive' \subseteq SO /\ soClk' \in [SO -> MaybeVTS]
    BY <2>7, <1>u DEF Access
  <2>8. ASSUME NEW t \in Thr, NEW c \in Cond, NEW m \in Mutex,
               evh__HG_PTHREAD_COND_WAIT_PRE(t, c, m) \/ evh__waiting_loop(t, c, m)
        PROVE  soLive' \subseteq SO /\ soClk' \in [SO -> MaybeVTS]
    <3>1. UNCHANGED <<soLive, soClk>>
      BY <2>8, Zenon DEF evh__HG_PTHREAD_COND_WAIT_PRE, evh__waiting_loop
    <3> QED BY <3>1, <1>u
  <2>9. ASSUME NEW t \in Thr, \/ RealSignal(t) \/ Block(t) \/ WaitFails(t) \/ Timeout(t)
                              \/ Spurious(t) \/ Reacquire(t) \/ evh__waiting_loop_begin(t)
                              \/ StrayExit(t)
        PROVE  soLive' \subseteq SO /\ soClk' \in [SO -> MaybeVTS]
    BY <2>9, <1>u DEF RealSignal, Block, WaitFails, Timeout, Spurious, Reacquire,
                evh__waiting_loop_begin, StrayExit
  <2> QED BY <1>4, <2>1, <2>2, <2>4, <2>5, <2>6, <2>7, <2>8, <2>9 DEF CondStep, CondNext
<1>5. CASE UNCHANGED vars
  BY <1>5, <1>u DEF vars
<1> QED BY <1>1, <1>2, <1>3, <1>4, <1>5, FourKinds

LEMMA SemTypedStep == Typed /\ [Next]_vars => SemTyped'
<1> SUFFICES ASSUME Typed, [Next]_vars PROVE SemTyped'
  OBVIOUS
<1>0. /\ semVal \in [Sem -> Int] /\ semStack \in [Sem -> Seq(SO)]
      /\ semPosts \in [Sem -> SUBSET VTS] /\ semWaiters \in [Sem -> SUBSET Thr]
      /\ pc \in [Thr -> PC]
  BY DEF Typed, SemTyped, PcTyped
<1>u. ASSUME UNCHANGED semVars PROVE SemTyped'
  BY <1>0, <1>u DEF SemTyped, semVars
<1>2. CASE SemStep
  <2>1. ASSUME NEW t \in Thr, NEW m \in Sem, NEW v \in 0 .. MaxInit,
               evh__HG_POSIX_SEM_INIT_POST(t, m, v) PROVE SemTyped'
    <3>1. clk[t] \in VTS
      BY <2>1, RunningClock DEF evh__HG_POSIX_SEM_INIT_POST, Ready, Alive
    <3>2. PICK stack \in Seq(SO), left \in SUBSET SO : SemInitTo(t, m, v, stack, left)
      BY <2>1, SemInitFacts
    <3>3. semStack' \in [Sem -> Seq(SO)]
      BY <1>0, <3>2 DEF SemInitTo
    <3>4. PICK n \in Nat : n = IF v > SemMax THEN SemMax ELSE v
      BY SemAssumption
    <3>5. semPosts' = [semPosts EXCEPT ![m] = {Ticks(t, clk[t], k) : k \in 0 .. n - 1}]
      BY <2>1, <3>4 DEF evh__HG_POSIX_SEM_INIT_POST
    <3>6. \A k \in 0 .. n - 1 : Ticks(t, clk[t], k) \in VTS
      BY <3>1, TicksLemma
    <3>7. semPosts' \in [Sem -> SUBSET VTS]
      BY <1>0, <3>5, <3>6
    <3>8. semVal' \in [Sem -> Int] /\ semWaiters' \in [Sem -> SUBSET Thr]
      BY <1>0, <2>1 DEF evh__HG_POSIX_SEM_INIT_POST
    <3> QED BY <3>3, <3>7, <3>8 DEF SemTyped
  <2>2. ASSUME NEW t \in Thr, NEW m \in Sem, evh__HG_POSIX_SEM_POST_PRE(t, m) PROVE SemTyped'
    <3>1. PICK so : so = libhb_so_alloc(0)
      OBVIOUS
    <3>2. IsFiniteSet(Spare)
      BY FiniteAssumption, FS_Subset DEF Spare
    <3>3. Cardinality(Spare) \in Nat /\ Cardinality(Spare) # 0
      BY <2>2, <3>2, FS_CardinalityType, FS_EmptySet DEF evh__HG_POSIX_SEM_POST_PRE
    <3>4. so \in SO \ soLive
      BY <3>1, <3>3, AllocFacts
    <3>5. clk[t] \in VTS
      BY <2>2, RunningClock DEF evh__HG_POSIX_SEM_POST_PRE, Ready, Alive
    <3>6. Append(semStack[m], so) \in Seq(SO)
      BY <1>0, <3>4, AppendFacts
    <3>7. semStack' \in [Sem -> Seq(SO)]
      BY <1>0, <2>2, <3>1, <3>6 DEF evh__HG_POSIX_SEM_POST_PRE, push_SO_for_sem
    <3>8. semPosts' \in [Sem -> SUBSET VTS] /\ UNCHANGED <<semVal, semWaiters>>
      BY <1>0, <2>2, <3>5 DEF evh__HG_POSIX_SEM_POST_PRE
    <3> QED BY <1>0, <3>7, <3>8 DEF SemTyped
  <2>3. ASSUME NEW t \in Thr, evh__HG_POSIX_SEM_WAIT_POST(t) PROVE SemTyped'
    <3>1. PICK m : m = pc[t].m
      OBVIOUS
    <3>2. m \in Sem
      BY <2>3, <3>1, <1>0, PcFields DEF evh__HG_POSIX_SEM_WAIT_POST, In
    <3>3. semStack[m] # <<>> => mb_pop_SO_for_sem(m) \in Seq(SO)
      <4>1. PICK old, st : old = semStack[m] /\ st = mb_pop_SO_for_sem(m)
        OBVIOUS
      <4>2. old \in Seq(SO) /\ IsFront(st, old)
        BY <1>0, <3>2, <4>1 DEF IsFront, mb_pop_SO_for_sem
      <4> QED BY <4>1, <4>2, FrontFacts
    <3>4. \/ semStack' = semStack
          \/ semStack[m] # <<>> /\ semStack' = [semStack EXCEPT ![m] = mb_pop_SO_for_sem(m)]
      BY <2>3, <3>1 DEF evh__HG_POSIX_SEM_WAIT_POST
    <3>5. semWaiters' = [semWaiters EXCEPT ![m] = @ \cup {t}] /\ UNCHANGED <<semVal, semPosts>>
      BY <2>3, <3>1 DEF evh__HG_POSIX_SEM_WAIT_POST
    <3> QED BY <1>0, <3>3, <3>4, <3>5 DEF SemTyped
  <2>4. ASSUME NEW t \in Thr, NEW m \in Sem, evh__HG_POSIX_SEM_DESTROY_PRE(t, m) \/ RealWait(t, m)
        PROVE SemTyped'
    <3>1. <<>> \in Seq(SO)
      OBVIOUS
    <3>2. CASE evh__HG_POSIX_SEM_DESTROY_PRE(t, m)
      <4>1. semStack' \in [Sem -> Seq(SO)]
        BY <1>0, <3>1, <3>2 DEF evh__HG_POSIX_SEM_DESTROY_PRE
      <4>2. semVal' \in [Sem -> Int] /\ UNCHANGED <<semPosts, semWaiters>>
        BY <1>0, <3>2 DEF evh__HG_POSIX_SEM_DESTROY_PRE
      <4> QED BY <1>0, <4>1, <4>2 DEF SemTyped
    <3>3. CASE RealWait(t, m)
      BY <1>0, <3>3 DEF RealWait, SemTyped
    <3> QED BY <2>4, <3>2, <3>3
  <2>5. ASSUME NEW t \in Thr, RealPost(t) PROVE SemTyped'
    <3>1. pc[t].m \in Sem
      BY <2>5, <1>0, PcFields DEF RealPost, In
    <3> QED BY <1>0, <2>5, <3>1 DEF RealPost, SemTyped
  <2> QED BY <1>2, <2>1, <2>2, <2>3, <2>4, <2>5 DEF SemStep, SemNext
<1>3. CASE ~SemStep
  <2>1. UNCHANGED semVars
    BY <1>3, FourKinds DEF ThreadsStep, BarrierStep, CondStep, vars, semVars
  <2> QED BY <2>1, <1>u
<1> QED BY <1>2, <1>3


LEMMA LifeTypedStep == Typed /\ Onward /\ [Next]_vars => LifeTyped'
<1> SUFFICES ASSUME Typed, Onward, [Next]_vars PROVE LifeTyped'
  OBVIOUS
<1> USE DEF clkVars, thrVars
<1>0. /\ pc \in [Thr -> PC]
      /\ life \in [Thr -> {"unborn", "started", "running", "gone", "joined"}]
      /\ \A t \in Thr : pc[t].op # "idle" => life[t] = "running"
      /\ ended \in [Thr -> VTS]
      /\ \A t \in Thr : clk'[t] = NoVTS <=> life'[t] = "unborn"
  BY DEF Typed, LifeTyped, PcTyped, ThreadsTyped, Onward
<1>i. Idle.op = "idle"
  BY PcMembers
<1> DEFINE Goal == ended' \in [Thr -> VTS] /\ \A t \in Thr : pc'[t].op # "idle" => life'[t] = "running"
<1> SUFFICES Goal
  BY <1>0 DEF LifeTyped
<1>u. ASSUME UNCHANGED <<pc, life, ended>> PROVE Goal
  BY <1>0, <1>u
<1>g. ASSUME UNCHANGED <<life, ended>>, NEW t \in Thr, life[t] = "running", NEW p, Goto(t, p) PROVE Goal
  BY <1>0, <1>g DEF Goto
<1>1. CASE ThreadsStep
  <2>1. ASSUME NEW p \in Thr, NEW c \in Thr, evh__pre_thread_ll_create(p, c) PROVE Goal
    <3>1. /\ life[p] = "running" /\ life[c] = "unborn" /\ UNCHANGED ended
          /\ life' = [life EXCEPT ![c] = "started"]
          /\ pc' = [pc EXCEPT ![p] = [op |-> "create", child |-> c]]
      BY <2>1 DEF evh__pre_thread_ll_create, Ready, Alive, Goto
    <3> QED BY <1>0, <3>1
  <2>2. ASSUME NEW t \in Thr, set_my_pthread_t(t) PROVE Goal
    BY <2>2, <1>0 DEF set_my_pthread_t
  <2>3. ASSUME NEW t \in Thr, CreateReturns(t) \/ evh__HG_PTHREAD_JOIN_POST(t) PROVE Goal
    <3>1. UNCHANGED <<life, ended>> /\ life[t] = "running" /\ Goto(t, Idle)
      BY <2>3 DEF CreateReturns, evh__HG_PTHREAD_JOIN_POST, In, Alive
    <3> QED BY <3>1, <1>g
  <2>5. ASSUME NEW t \in Thr, NEW d \in BOOLEAN, evh__pre_thread_ll_exit(t, d) PROVE Goal
    <3>1. /\ life[t] = "running" /\ pc[t] = Idle /\ UNCHANGED pc
          /\ life' = [life EXCEPT ![t] = IF d THEN "joined" ELSE "gone"]
          /\ ended' = [ended EXCEPT ![t] = clk[t]]
      BY <2>5 DEF evh__pre_thread_ll_exit, Ready, Alive
    <3>2. clk[t] \in VTS
      BY <3>1, RunningClock
    <3> QED BY <1>0, <1>i, <3>1, <3>2
  <2>6. ASSUME NEW s \in Thr, NEW q \in Thr, JoinReturns(s, q) PROVE Goal
    <3>1. /\ life[s] = "running" /\ life[q] = "gone" /\ UNCHANGED ended
          /\ life' = [life EXCEPT ![q] = "joined"]
          /\ pc' = [pc EXCEPT ![s] = [op |-> "join", h |-> pth[q], q |-> q]]
      BY <2>6 DEF JoinReturns, Ready, Alive, Goto
    <3> QED BY <1>0, <3>1
  <2> QED BY <1>1, <2>1, <2>2, <2>3, <2>5, <2>6 DEF ThreadsStep, ThreadsNext
<1>2. CASE SemStep
  <2>1. UNCHANGED <<life, ended>> /\ (UNCHANGED pc \/ \E t \in Thr : life[t] = "running" /\ \E p : Goto(t, p))
    <3>1. ASSUME NEW t \in Thr, NEW m \in Sem, NEW v \in 0 .. MaxInit,
                 evh__HG_POSIX_SEM_INIT_POST(t, m, v) \/ evh__HG_POSIX_SEM_DESTROY_PRE(t, m)
          PROVE  UNCHANGED <<life, ended, pc>>
      BY <3>1 DEF evh__HG_POSIX_SEM_INIT_POST, evh__HG_POSIX_SEM_DESTROY_PRE
    <3>2. ASSUME NEW t \in Thr, NEW m \in Sem, evh__HG_POSIX_SEM_POST_PRE(t, m) \/ RealWait(t, m)
          PROVE  UNCHANGED <<life, ended>> /\ life[t] = "running" /\ \E p : Goto(t, p)
      BY <3>2 DEF evh__HG_POSIX_SEM_POST_PRE, RealWait, Ready, Alive
    <3>3. ASSUME NEW t \in Thr, RealPost(t) \/ evh__HG_POSIX_SEM_WAIT_POST(t)
          PROVE  UNCHANGED <<life, ended>> /\ life[t] = "running" /\ \E p : Goto(t, p)
      BY <3>3 DEF RealPost, evh__HG_POSIX_SEM_WAIT_POST, In, Alive
    <3>4. 0 \in 0 .. MaxInit
      BY SemAssumption
    <3> QED BY <1>2, <3>1, <3>2, <3>3, <3>4 DEF SemStep, SemNext
  <2> QED BY <2>1, <1>u, <1>g
<1>3. CASE BarrierStep
  <2>1. ASSUME NEW t \in Thr, NEW b \in Barrier, NEW n \in 0 .. MaxCount,
               evh__HG_PTHREAD_BARRIER_INIT_PRE(t, b, n) \/ evh__HG_OMP_BARRIER_REINIT_PRE(t, b, n)
        PROVE Goal
    BY <2>1, <1>u DEF evh__HG_PTHREAD_BARRIER_INIT_PRE, evh__HG_OMP_BARRIER_REINIT_PRE
  <2>2. ASSUME NEW t \in Thr, NEW b \in Barrier, evh__HG_PTHREAD_BARRIER_DESTROY_PRE(t, b) PROVE Goal
    BY <2>2, <1>u DEF evh__HG_PTHREAD_BARRIER_DESTROY_PRE
  <2>3. ASSUME NEW t \in Thr, NEW b \in Barrier, evh__HG_PTHREAD_BARRIER_WAIT_PRE(t, b) PROVE Goal
    <3>1. UNCHANGED <<life, ended>> /\ life[t] = "running" /\ \E p : Goto(t, p)
      BY <2>3 DEF evh__HG_PTHREAD_BARRIER_WAIT_PRE, Ready, Alive
    <3> QED BY <3>1, <1>g
  <2>4. ASSUME NEW t \in Thr, Arrive(t) PROVE Goal
    <3>1. UNCHANGED <<life, ended>> /\ pc[t].op = "bar" /\ life[t] = "running"
      BY <2>4 DEF Arrive, In, Alive
    <3>2. \A u \in Thr : pc'[u] = pc[u] \/ pc'[u] = Idle \/ u = t
      BY <2>4, <1>0 DEF Arrive
    <3> QED BY <1>0, <1>i, <3>1, <3>2
  <2> QED BY <1>3, <2>1, <2>2, <2>3, <2>4 DEF BarrierStep, BarrierNext
<1>4. CASE CondStep
  <2>1. ASSUME NEW t \in Thr, NEW m \in Mutex, MutexLock(t, m) \/ MutexUnlock(t, m) PROVE Goal
    BY <2>1, <1>u DEF MutexLock, MutexUnlock
  <2>2. ASSUME NEW t \in Thr, NEW v \in Var, NEW w \in BOOLEAN, Access(t, v, w) PROVE Goal
    BY <2>2, <1>u DEF Access
  <2>3. ASSUME NEW t \in Thr, NEW c \in Cond, NEW a \in BOOLEAN,
               evh__HG_PTHREAD_COND_SIGNAL_PRE(t, c, a) PROVE Goal
    <3>1. UNCHANGED <<life, ended>> /\ life[t] = "running" /\ \E p : Goto(t, p)
      BY <2>3 DEF evh__HG_PTHREAD_COND_SIGNAL_PRE, Ready, Alive
    <3> QED BY <3>1, <1>g
  <2>4. ASSUME NEW t \in Thr, NEW c \in Cond, NEW m \in Mutex,
               evh__HG_PTHREAD_COND_WAIT_PRE(t, c, m) PROVE Goal
    <3>1. UNCHANGED <<life, ended>> /\ life[t] = "running"
      BY <2>4, Zenon DEF evh__HG_PTHREAD_COND_WAIT_PRE, Ready, Alive
    <3>2. UNCHANGED pc \/ Goto(t, [op |-> "condPre", c |-> c, m |-> m])
      BY <2>4 DEF evh__HG_PTHREAD_COND_WAIT_PRE, Goto
    <3> QED BY <3>1, <3>2, <1>u, <1>g
  <2>5. ASSUME NEW t \in Thr, NEW c \in Cond, NEW m \in Mutex, evh__waiting_loop(t, c, m) PROVE Goal
    BY <2>5, <1>u DEF evh__waiting_loop
  <2>6. ASSUME NEW t \in Thr, NEW c \in Cond, evh__HG_PTHREAD_COND_DESTROY_PRE(t, c) PROVE Goal
    BY <2>6, <1>u DEF evh__HG_PTHREAD_COND_DESTROY_PRE
  <2>7. ASSUME NEW t \in Thr, RealSignal(t) PROVE Goal
    <3>1. UNCHANGED <<life, ended>>
      BY <2>7 DEF RealSignal
    <3>2. \A u \in Thr : pc'[u] = pc[u] \/ pc'[u] = Idle \/ pc[u].op = "condIn"
      BY <2>7, <1>0 DEF RealSignal, Blocked
    <3> QED BY <1>0, <1>i, <3>1, <3>2
  <2>8. ASSUME NEW t \in Thr, Block(t) \/ Reacquire(t) PROVE Goal
    <3>1. UNCHANGED <<life, ended>> /\ life[t] = "running" /\ \E p : Goto(t, p)
      BY <2>8 DEF Block, Reacquire, In, Alive, Goto
    <3> QED BY <3>1, <1>g
  <2>9. ASSUME NEW t \in Thr, \/ Timeout(t) \/ Spurious(t) \/ WaitFails(t) 
                              \/ evh__HG_PTHREAD_COND_WAIT_POST(t)
                              \/ evh__HG_PTHREAD_COND_WAIT_TIMEOUT(t) PROVE Goal
    <3>1. UNCHANGED <<life, ended>> /\ life[t] = "running" /\ \E p : Goto(t, p)
      BY <2>9 DEF Timeout, Spurious, WaitFails, evh__HG_PTHREAD_COND_WAIT_POST,
                  evh__HG_PTHREAD_COND_WAIT_TIMEOUT, In, Alive
    <3> QED BY <3>1, <1>g
  <2>10. ASSUME NEW t \in Thr, \/ evh__waiting_loop_begin(t) \/ evh__waiting_loop_end(t)
                               \/ StrayExit(t) PROVE Goal
    BY <2>10, <1>u DEF evh__waiting_loop_begin, evh__waiting_loop_end, StrayExit
  <2> QED BY <1>4, <2>1, <2>2, <2>3, <2>4, <2>5, <2>6, <2>7, <2>8, <2>9, <2>10 DEF CondStep, CondNext
<1>5. CASE UNCHANGED vars
  BY <1>5, <1>u DEF vars
<1> QED BY <1>1, <1>2, <1>3, <1>4, <1>5, FourKinds

\* Nobody becomes unborn.
LEMMA BornStays == Typed /\ Onward => \A t \in Thr : life[t] # "unborn" => life'[t] # "unborn"
BY NoVTSAssumption DEF Typed, Onward, LifeTyped, ClocksTypeOK, MaybeVTS

LEMMA BarTypedStep == Typed /\ Onward /\ [Next]_vars => BarTyped'
<1> SUFFICES ASSUME Typed, Onward, [Next]_vars PROVE BarTyped'
  OBVIOUS
<1>0. /\ bar \in [Barrier -> [initted : BOOLEAN, size : 0 .. MaxCount, waiting : Seq(Thr)]]
      /\ barReal \in [Barrier -> 0 .. MaxCount]
      /\ \A b \in Barrier : \A x \in Range(bar[b].waiting) : life[x] # "unborn" /\ x \in Thr
  <2>1. /\ bar \in [Barrier -> [initted : BOOLEAN, size : 0 .. MaxCount, waiting : Seq(Thr)]]
        /\ barReal \in [Barrier -> 0 .. MaxCount]
    BY DEF Typed, BarTyped, BarrierTypeOK
  <2>2. \A b \in Barrier : bar[b].waiting \in Seq(Thr)
    BY <2>1
  <2> QED BY <2>1, <2>2, SeqFacts DEF Typed, BarTyped, Range
<1>s. \A x \in Thr : life[x] # "unborn" => life'[x] # "unborn"
  BY BornStays
<1> DEFINE Goal == /\ bar' \in [Barrier -> [initted : BOOLEAN, size : 0 .. MaxCount, waiting : Seq(Thr)]]
                   /\ barReal' \in [Barrier -> 0 .. MaxCount]
                   /\ \A b \in Barrier : \A x \in Range(bar'[b].waiting) : life'[x] # "unborn"
<1> SUFFICES Goal
  BY DEF BarTyped, BarrierTypeOK, Range
<1>u. ASSUME UNCHANGED barVars PROVE Goal
  BY <1>0, <1>s, <1>u DEF barVars
<1>e. <<>> \in Seq(Thr) /\ Range(<<>>) = {}
  BY DEF Range
<1>3. CASE BarrierStep
  <2>1. ASSUME NEW t \in Thr, NEW b \in Barrier, NEW n \in 0 .. MaxCount,
               evh__HG_PTHREAD_BARRIER_INIT_PRE(t, b, n) \/ evh__HG_OMP_BARRIER_REINIT_PRE(t, b, n)
        PROVE Goal
    <3>1. /\ bar' = [bar EXCEPT ![b] = [initted |-> TRUE, size |-> n, waiting |-> <<>>]]
          /\ barReal' = IF n = 0 THEN barReal ELSE [barReal EXCEPT ![b] = n]
      BY <2>1 DEF evh__HG_PTHREAD_BARRIER_INIT_PRE, evh__HG_OMP_BARRIER_REINIT_PRE
    <3>2. barReal' \in [Barrier -> 0 .. MaxCount]
      BY <1>0, <3>1
    <3>3. bar' \in [Barrier -> [initted : BOOLEAN, size : 0 .. MaxCount, waiting : Seq(Thr)]]
      BY <1>0, <1>e, <3>1
    <3>4. bar'[b].waiting = <<>> /\ \A d \in Barrier \ {b} : bar'[d] = bar[d]
      BY <1>0, <3>1
    <3> QED BY <1>0, <1>e, <1>s, <3>2, <3>3, <3>4
  <2>2. ASSUME NEW t \in Thr, NEW b \in Barrier, evh__HG_PTHREAD_BARRIER_DESTROY_PRE(t, b) PROVE Goal
    <3>1. /\ bar' = [bar EXCEPT ![b] = [initted |-> FALSE, size |-> 0, waiting |-> <<>>]]
          /\ (barReal' = barReal \/ barReal' = [barReal EXCEPT ![b] = 0])
      BY <2>2 DEF evh__HG_PTHREAD_BARRIER_DESTROY_PRE, NoBar
    <3>2. barReal' \in [Barrier -> 0 .. MaxCount]
      <4>1. 0 \in 0 .. MaxCount
        BY BarrierAssumption
      <4> QED BY <1>0, <3>1, <4>1
    <3>3. bar' \in [Barrier -> [initted : BOOLEAN, size : 0 .. MaxCount, waiting : Seq(Thr)]]
      BY <1>0, <1>e, <3>1, BarrierAssumption
    <3>4. bar'[b].waiting = <<>> /\ \A d \in Barrier \ {b} : bar'[d] = bar[d]
      BY <1>0, <3>1
    <3> QED BY <1>0, <1>e, <1>s, <3>2, <3>3, <3>4
  <2>3. ASSUME NEW t \in Thr, NEW b \in Barrier, evh__HG_PTHREAD_BARRIER_WAIT_PRE(t, b) PROVE Goal
    <3>1. PICK w : w = Append(bar[b].waiting, t)
      OBVIOUS
    <3>2. \/ UNCHANGED bar \/ bar' = [bar EXCEPT ![b].waiting = <<>>]
          \/ bar' = [bar EXCEPT ![b].waiting = w]
      BY <2>3, <3>1 DEF evh__HG_PTHREAD_BARRIER_WAIT_PRE
    <3>3. UNCHANGED barReal /\ life[t] = "running"
      BY <2>3 DEF evh__HG_PTHREAD_BARRIER_WAIT_PRE, Ready, Alive
    <3>4. bar[b].waiting \in Seq(Thr)
      BY <1>0
    <3>5. w \in Seq(Thr) /\ Range(w) = Range(bar[b].waiting) \cup {t}
      BY <3>1, <3>4, AppendFacts
    <3>6. CASE UNCHANGED bar
      BY <3>3, <3>6, <1>u DEF barVars
    <3>7. ASSUME NEW z \in Seq(Thr), \A x \in Range(z) : life'[x] # "unborn",
                 bar' = [bar EXCEPT ![b].waiting = z]
          PROVE  Goal
      <4>1. bar' \in [Barrier -> [initted : BOOLEAN, size : 0 .. MaxCount, waiting : Seq(Thr)]]
        BY <1>0, <3>7
      <4>2. bar'[b].waiting = z /\ \A d \in Barrier \ {b} : bar'[d] = bar[d]
        BY <1>0, <3>7
      <4> QED BY <1>0, <1>s, <3>3, <3>7, <4>1, <4>2
    <3>8. \A x \in Range(w) : life'[x] # "unborn"
      BY <1>0, <1>s, <3>3, <3>5
    <3> QED BY <1>e, <3>2, <3>5, <3>6, <3>7, <3>8
  <2>4. ASSUME NEW t \in Thr, Arrive(t) PROVE Goal
    BY <2>4, <1>u DEF Arrive
  <2> QED BY <1>3, <2>1, <2>2, <2>3, <2>4 DEF BarrierStep, BarrierNext
<1>4. CASE ~BarrierStep
  <2>1. UNCHANGED barVars
    BY <1>4, FourKinds DEF ThreadsStep, SemStep, CondStep, vars, barVars
  <2> QED BY <2>1, <1>u
<1> QED BY <1>3, <1>4

LEMMA CondTypedStep == Typed /\ Holding /\ [Next]_vars => CondTyped'
<1> SUFFICES ASSUME Typed, Holding, [Next]_vars PROVE CondTyped'
  OBVIOUS
<1>0. CondTyped /\ pc \in [Thr -> PC]
  BY DEF Typed, PcTyped
<1>u. ASSUME UNCHANGED <<lsdLevel, condSO, condVars, recorded, sent>> PROVE CondTyped'
  BY <1>0, <1>u DEF CondTyped
<1>l. ASSUME NEW C \in SUBSET Cond, WithSOs(C), UNCHANGED <<lsdLevel, recorded, sent>>,
             condVars' \subseteq Cond
      PROVE  CondTyped'
  <2>1. PICK f \in [{c \in C : condSO[c] = NoSO} -> SO \ soLive] :
          condSO' = [c \in Cond |-> IF c \in C /\ condSO[c] = NoSO THEN f[c] ELSE condSO[c]]
    BY <1>l, WithSOsFacts
  <2>2. condSO' \in [Cond -> SO \cup {NoSO}]
    BY <1>0, <2>1 DEF CondTyped
  <2> QED BY <1>0, <1>l, <2>2 DEF CondTyped
<1>4. CASE CondStep
  <2>1. ASSUME NEW t \in Thr, NEW c \in Cond, NEW a \in BOOLEAN,
               evh__HG_PTHREAD_COND_SIGNAL_PRE(t, c, a) PROVE CondTyped'
    <3>1. PICK so \in SO, new \in SUBSET (SO \ soLive), gone \in SUBSET RecSOs(c) :
            SignalTo(t, c, so, new, gone)
      BY <2>1, SignalFacts DEF Holding
    <3>2. clk[t] \in VTS
      BY <2>1, RunningClock DEF evh__HG_PTHREAD_COND_SIGNAL_PRE, Ready, Alive
    <3>3. JoinMaybe(sent[c], clk[t]) \in VTS
      BY <1>0, <3>2, JoinLemma DEF JoinMaybe, MaybeVTS, CondTyped
    <3>4. sent' \in [Cond -> MaybeVTS] /\ UNCHANGED lsdLevel /\ condVars' \subseteq Cond
      BY <1>0, <2>1, <3>3 DEF evh__HG_PTHREAD_COND_SIGNAL_PRE, CondTyped, MaybeVTS
    <3>5. condSO' \in [Cond -> SO \cup {NoSO}]
      BY <1>0, <3>1 DEF CondTyped, SignalTo
    <3>6. recorded' \in [Cond -> Seq([writes : Seq(Var), so : SO])] /\ Len(recorded'[c]) <= RecMax
          /\ \A d \in Cond \ {c} : recorded'[d] = recorded[d]
      BY <3>1 DEF SignalTo
    <3>7. \A d \in Cond : Len(recorded'[d]) <= RecMax
      BY <1>0, <3>6 DEF CondTyped
    <3> QED BY <1>0, <3>4, <3>5, <3>6, <3>7 DEF CondTyped
  <2>2. ASSUME NEW t \in Thr, \/ evh__HG_PTHREAD_COND_WAIT_POST(t) \/ evh__HG_PTHREAD_COND_WAIT_TIMEOUT(t)
        PROVE CondTyped'
    <3>1. PICK c : c = pc[t].c
      OBVIOUS
    <3>2. c \in Cond
      BY <1>0, <2>2, <3>1, PcFields DEF evh__HG_PTHREAD_COND_WAIT_POST,
                                        evh__HG_PTHREAD_COND_WAIT_TIMEOUT, In
    <3>3. /\ WithSOs({c}) /\ UNCHANGED <<lsdLevel, recorded, sent>>
          /\ condVars' \in {condVars, condVars \cup {c}}
      BY <2>2, <3>1 DEF evh__HG_PTHREAD_COND_WAIT_POST, evh__HG_PTHREAD_COND_WAIT_TIMEOUT
    <3>4. condVars' \subseteq Cond
      BY <1>0, <3>2, <3>3 DEF CondTyped
    <3> QED BY <3>2, <3>3, <3>4, <1>l
  <2>4. ASSUME NEW t \in Thr, evh__waiting_loop_end(t) PROVE CondTyped'
    <3>1. PICK C : C = Annotated(lsd[t])
      OBVIOUS
    <3>2. C \in SUBSET Cond /\ condVars \subseteq Cond
      BY <1>0, <3>1 DEF Annotated, CondTyped
    <3>3. WithSOs(C) /\ UNCHANGED <<lsdLevel, recorded, sent, condVars>>
      BY <2>4, <3>1 DEF evh__waiting_loop_end
    <3> QED BY <3>2, <3>3, <1>l
  <2>5. ASSUME NEW t \in Thr, NEW c \in Cond, evh__HG_PTHREAD_COND_DESTROY_PRE(t, c) PROVE CondTyped'
    BY <1>0, <2>5 DEF evh__HG_PTHREAD_COND_DESTROY_PRE, CondTyped, MaybeVTS
  <2>6. ASSUME NEW t \in Thr, NEW m \in Mutex, MutexLock(t, m) \/ MutexUnlock(t, m) PROVE CondTyped'
    BY <2>6, <1>u DEF MutexLock, MutexUnlock
  <2>7. ASSUME NEW t \in Thr, NEW v \in Var, NEW w \in BOOLEAN, Access(t, v, w) PROVE CondTyped'
    BY <2>7, <1>u DEF Access
  <2>8. ASSUME NEW t \in Thr, NEW c \in Cond, NEW m \in Mutex,
               evh__HG_PTHREAD_COND_WAIT_PRE(t, c, m) \/ evh__waiting_loop(t, c, m)
        PROVE CondTyped'
    <3>1. UNCHANGED <<lsdLevel, condSO, condVars, recorded, sent>>
      BY <2>8, Zenon DEF evh__HG_PTHREAD_COND_WAIT_PRE, evh__waiting_loop
    <3> QED BY <3>1, <1>u
  <2>9. ASSUME NEW t \in Thr, \/ RealSignal(t) \/ Block(t) \/ WaitFails(t) \/ Timeout(t)
                              \/ Spurious(t) \/ Reacquire(t) \/ evh__waiting_loop_begin(t)
                              \/ StrayExit(t)
        PROVE CondTyped'
    BY <2>9, <1>u DEF RealSignal, Block, WaitFails, Timeout, Spurious, Reacquire,
                evh__waiting_loop_begin, StrayExit, condVarsAll
  <2> QED BY <1>4, <2>1, <2>2, <2>4, <2>5, <2>6, <2>7, <2>8, <2>9 DEF CondStep, CondNext
<1>5. CASE ~CondStep
  <2>1. UNCHANGED <<lsdLevel, condSO, condVars, recorded, sent>>
    BY <1>5, FourKinds DEF ThreadsStep, SemStep, BarrierStep, vars, condVarsAll
  <2> QED BY <2>1, <1>u
<1> QED BY <1>4, <1>5


\* What a thread's ThrLSD may be.
Fit(th) == th \in ThrLSD /\ Len(th.writes) <= AccMax /\ Len(th.reads) <= AccMax

LEMMA LockFacts ==
  ASSUME NEW th, Fit(th)
  PROVE  /\ Fit(hg_lsd__mutex_lock(th)) /\ Fit(hg_lsd__mutex_unlock(th))
         /\ (hg_lsd__mutex_lock(th).waiting <=> th.waiting)
         /\ (hg_lsd__mutex_unlock(th).waiting <=> th.waiting)
         /\ (hg_lsd__mutex_lock(th).in_waiting_loop <=> th.in_waiting_loop)
         /\ (hg_lsd__mutex_unlock(th).in_waiting_loop <=> th.in_waiting_loop)
         /\ hg_lsd__mutex_lock(th).cvlist = th.cvlist
         /\ hg_lsd__mutex_unlock(th).cvlist = th.cvlist
         /\ hg_lsd__mutex_lock(th).expect = th.expect
         /\ hg_lsd__mutex_unlock(th).expect = th.expect
<1>0. th \in ThrLSD /\ Len(th.writes) <= AccMax /\ Len(th.reads) <= AccMax
  BY DEF Fit
<1>e. <<>> \in Seq(Var) /\ Len(<<>>) <= AccMax
  BY CondAssumption
<1>1. PICK w, r : /\ w = IF th.waiting THEN th.writes ELSE <<>>
                  /\ r = IF th.waiting THEN th.reads ELSE <<>>
  OBVIOUS
<1>2. w \in Seq(Var) /\ r \in Seq(Var) /\ Len(w) <= AccMax /\ Len(r) <= AccMax
  BY <1>0, <1>1, <1>e DEF ThrLSD
<1>3. hg_lsd__mutex_lock(th) =
        IF lsdLevel < 2 THEN th
        ELSE [th EXCEPT !.record_writes = TRUE, !.record_reads = TRUE, !.writes = w, !.reads = r]
  BY <1>0, <1>1 DEF hg_lsd__mutex_lock, ThrLSD
<1>4. Fit(hg_lsd__mutex_lock(th))
  BY <1>0, <1>2, <1>3 DEF Fit, ThrLSD
<1>5. Fit(hg_lsd__mutex_unlock(th))
  BY <1>0 DEF Fit, ThrLSD, hg_lsd__mutex_unlock
<1>6. /\ (hg_lsd__mutex_lock(th).waiting <=> th.waiting)
      /\ (hg_lsd__mutex_lock(th).in_waiting_loop <=> th.in_waiting_loop)
      /\ hg_lsd__mutex_lock(th).cvlist = th.cvlist
      /\ hg_lsd__mutex_lock(th).expect = th.expect
  BY <1>0, <1>3 DEF ThrLSD
<1>7. /\ (hg_lsd__mutex_unlock(th).waiting <=> th.waiting)
      /\ (hg_lsd__mutex_unlock(th).in_waiting_loop <=> th.in_waiting_loop)
      /\ hg_lsd__mutex_unlock(th).cvlist = th.cvlist
      /\ hg_lsd__mutex_unlock(th).expect = th.expect
  BY <1>0 DEF ThrLSD, hg_lsd__mutex_unlock
<1> QED BY <1>4, <1>5, <1>6, <1>7

\* What the other updates of a ThrLSD leave.
LEMMA FieldFacts ==
  ASSUME NEW th, Fit(th)
  PROVE  /\ \A w \in BOOLEAN : LET n == [th EXCEPT !.waiting = w]
                               IN /\ Fit(n) /\ (n.waiting <=> w) /\ n.cvlist = th.cvlist
                                  /\ n.expect = th.expect
                                  /\ (n.in_waiting_loop <=> th.in_waiting_loop)
         /\ \A s \in Seq(Var) : Len(s) <= AccMax =>
              /\ LET n == [th EXCEPT !.writes = s]
                 IN /\ Fit(n) /\ (n.waiting <=> th.waiting) /\ n.cvlist = th.cvlist
                    /\ n.expect = th.expect /\ (n.in_waiting_loop <=> th.in_waiting_loop)
              /\ LET n == [th EXCEPT !.reads = s]
                 IN /\ Fit(n) /\ (n.waiting <=> th.waiting) /\ n.cvlist = th.cvlist
                    /\ n.expect = th.expect /\ (n.in_waiting_loop <=> th.in_waiting_loop)
         /\ \A e \in SUBSET (Cond \X Mutex) :
              LET n == [th EXCEPT !.cvlist = e]
              IN /\ Fit(n) /\ (n.waiting <=> th.waiting) /\ n.cvlist = e /\ n.expect = th.expect
                 /\ (n.in_waiting_loop <=> th.in_waiting_loop)
         /\ \A e \in Cond \X Mutex :
              LET n == [th EXCEPT !.expect = e]
              IN /\ Fit(n) /\ (n.waiting <=> th.waiting) /\ n.cvlist = th.cvlist /\ n.expect = e
                 /\ (n.in_waiting_loop <=> th.in_waiting_loop)
         /\ LET n == [th EXCEPT !.in_waiting_loop = TRUE, !.record_reads = FALSE]
            IN /\ Fit(n) /\ (n.waiting <=> th.waiting) /\ n.cvlist = th.cvlist
               /\ n.expect = th.expect /\ n.in_waiting_loop
         /\ LET n == [th EXCEPT !.in_waiting_loop = FALSE, !.cvlist = {}]
            IN /\ Fit(n) /\ (n.waiting <=> th.waiting) /\ n.cvlist = {}
               /\ n.expect = th.expect /\ ~n.in_waiting_loop
BY DEF Fit, ThrLSD

LEMMA AddFacts ==
  ASSUME NEW al \in Seq(Var), Len(al) <= AccMax, NEW v \in Var
  PROVE  alist_add(al, v) \in Seq(Var) /\ Len(alist_add(al, v)) <= AccMax
BY CondAssumption DEF alist_add


LEMMA LsdTypedStep == Typed /\ [Next]_vars => LsdTyped'
<1> SUFFICES ASSUME Typed, [Next]_vars PROVE LsdTyped'
  OBVIOUS
<1>0. /\ LsdTyped /\ pc \in [Thr -> PC] /\ lsd \in [Thr -> ThrLSD]
      /\ loop \in [Thr -> {"out", "test", "body"}] /\ owner \in [Mutex -> Thr \cup {NoThr}]
  BY DEF Typed, PcTyped, LsdTyped
<1>f. \A t \in Thr : Fit(lsd[t]) /\ (loop[t] # "out" => lsd[t].expect # <<>>)
  BY <1>0 DEF LsdTyped, Fit
<1>u. ASSUME UNCHANGED <<lsd, loop, owner>> PROVE LsdTyped'
  BY <1>0, <1>u DEF LsdTyped
<1>n. ASSUME NEW t \in Thr, NEW n, Fit(n), lsd' = [lsd EXCEPT ![t] = n],
             loop' \in [Thr -> {"out", "test", "body"}],
             \A u \in Thr \ {t} : loop'[u] = loop[u],
             loop'[t] # "out" => n.expect # <<>>,
             owner' \in [Mutex -> Thr \cup {NoThr}]
      PROVE  LsdTyped'
  <2>1. lsd' \in [Thr -> ThrLSD]
    BY <1>0, <1>n DEF Fit
  <2>2. lsd'[t] = n /\ \A u \in Thr \ {t} : lsd'[u] = lsd[u]
    BY <1>0, <1>n
  <2>3. \A u \in Thr : Len(lsd'[u].writes) <= AccMax /\ Len(lsd'[u].reads) <= AccMax
    BY <1>f, <1>n, <2>2 DEF Fit
  <2>4. \A u \in Thr : loop'[u] # "out" => lsd'[u].expect # <<>>
    BY <1>f, <1>n, <2>2
  <2> QED BY <1>n, <2>1, <2>3, <2>4 DEF LsdTyped
\* The ThrLSD of t changes, what it expects does not.
<1>m. ASSUME NEW t \in Thr, NEW n, Fit(n), n.expect = lsd[t].expect,
             lsd' = [lsd EXCEPT ![t] = n], UNCHANGED loop,
             owner' \in [Mutex -> Thr \cup {NoThr}]
      PROVE  LsdTyped'
  BY <1>0, <1>f, <1>m, <1>n
<1>4. CASE CondStep
  <2>1. ASSUME NEW t \in Thr, NEW m \in Mutex, MutexLock(t, m) PROVE LsdTyped'
    <3>1. PICK n : n = hg_lsd__mutex_lock(lsd[t])
      OBVIOUS
    <3>2. Fit(n) /\ n.expect = lsd[t].expect
      BY <1>f, <3>1, LockFacts
    <3>3. lsd' = [lsd EXCEPT ![t] = n] /\ UNCHANGED loop /\ owner' = [owner EXCEPT ![m] = t]
      BY <2>1, <3>1 DEF MutexLock
    <3> QED BY <1>0, <1>m, <3>2, <3>3
  <2>2. ASSUME NEW t \in Thr, NEW m \in Mutex, MutexUnlock(t, m) PROVE LsdTyped'
    <3>1. PICK n : n = hg_lsd__mutex_unlock(lsd[t])
      OBVIOUS
    <3>2. Fit(n) /\ n.expect = lsd[t].expect
      BY <1>f, <3>1, LockFacts
    <3>3. /\ (lsd' = [lsd EXCEPT ![t] = n] \/ lsd' = [lsd EXCEPT ![t] = lsd[t]])
          /\ UNCHANGED loop /\ owner' = [owner EXCEPT ![m] = NoThr]
      BY <1>0, <2>2, <3>1 DEF MutexUnlock
    <3>4. owner' \in [Mutex -> Thr \cup {NoThr}]
      BY <1>0, <3>3
    <3> QED BY <1>f, <1>m, <3>2, <3>3, <3>4
  <2>3. ASSUME NEW t \in Thr, NEW v \in Var, NEW w \in BOOLEAN, Access(t, v, w) PROVE LsdTyped'
    <3>1. PICK x, y : x = alist_add(lsd[t].writes, v) /\ y = alist_add(lsd[t].reads, v)
      OBVIOUS
    <3>2. lsd[t].writes \in Seq(Var) /\ lsd[t].reads \in Seq(Var)
          /\ Len(lsd[t].writes) <= AccMax /\ Len(lsd[t].reads) <= AccMax
      BY <1>f DEF Fit, ThrLSD
    <3>3. x \in Seq(Var) /\ y \in Seq(Var) /\ Len(x) <= AccMax /\ Len(y) <= AccMax
      BY <3>1, <3>2, AddFacts
    <3>4. PICK n : n = IF w THEN [lsd[t] EXCEPT !.writes = x] ELSE [lsd[t] EXCEPT !.reads = y]
      OBVIOUS
    <3>5. Fit(n) /\ n.expect = lsd[t].expect
      BY <1>f, <3>3, <3>4 DEF Fit, ThrLSD
    <3>6. lsd' = [lsd EXCEPT ![t] = n] /\ UNCHANGED <<loop, owner>>
      BY <2>3, <3>1, <3>4 DEF Access
    <3> QED BY <1>0, <1>m, <3>5, <3>6
  <2>4. ASSUME NEW t \in Thr, NEW c \in Cond, NEW a \in BOOLEAN,
               evh__HG_PTHREAD_COND_SIGNAL_PRE(t, c, a) PROVE LsdTyped'
    <3>1. PICK n : n = [lsd[t] EXCEPT !.writes = <<>>]
      OBVIOUS
    <3>2. <<>> \in Seq(Var) /\ Len(<<>>) <= AccMax
      BY CondAssumption
    <3>3. Fit(n) /\ n.expect = lsd[t].expect
      BY <1>f, <3>1, <3>2 DEF Fit, ThrLSD
    <3>4. UNCHANGED <<loop, owner>> /\ (UNCHANGED lsd \/ lsd' = [lsd EXCEPT ![t].writes = <<>>])
      BY <2>4 DEF evh__HG_PTHREAD_COND_SIGNAL_PRE
    <3>5. UNCHANGED lsd \/ lsd' = [lsd EXCEPT ![t] = n]
      BY <3>1, <3>4
    <3> QED BY <1>0, <1>m, <1>u, <3>3, <3>4, <3>5
  <2>5. ASSUME NEW t \in Thr, NEW c \in Cond, NEW m \in Mutex,
               evh__HG_PTHREAD_COND_WAIT_PRE(t, c, m) PROVE LsdTyped'
    <3>1. PICK x : x = [lsd[t] EXCEPT !.waiting = TRUE]
      OBVIOUS
    <3>2. PICK y : y = hg_lsd__mutex_unlock(x)
      OBVIOUS
    <3>3. Fit(x) /\ x.expect = lsd[t].expect
      BY <1>f, <3>1, FieldFacts
    <3>4. Fit(y) /\ y.expect = lsd[t].expect
      BY <3>2, <3>3, LockFacts
    <3>5. UNCHANGED <<loop, owner>>
      BY <2>5, Zenon DEF evh__HG_PTHREAD_COND_WAIT_PRE
    <3>6. UNCHANGED lsd \/ lsd' = [lsd EXCEPT ![t] = y] \/ lsd' = [lsd EXCEPT ![t] = x]
      BY <2>5, <3>1, <3>2 DEF evh__HG_PTHREAD_COND_WAIT_PRE
    <3> QED BY <1>0, <1>m, <1>u, <3>3, <3>4, <3>5, <3>6
  <2>6. ASSUME NEW t \in Thr, NEW c \in Cond, NEW m \in Mutex, evh__waiting_loop(t, c, m)
        PROVE LsdTyped'
    <3>1. PICK n : n = [lsd[t] EXCEPT !.expect = <<c, m>>]
      OBVIOUS
    <3>2. Fit(n) /\ n.expect = <<c, m>>
      BY <1>f, <3>1 DEF Fit, ThrLSD
    <3>3. UNCHANGED owner
      BY <2>6, Zenon DEF evh__waiting_loop
    <3>4. lsd' = [lsd EXCEPT ![t].expect = <<c, m>>] /\ loop' = [loop EXCEPT ![t] = "test"]
      BY <2>6 DEF evh__waiting_loop
    <3>5. lsd' = [lsd EXCEPT ![t] = n]
      BY <3>1, <3>4
    <3>6. <<c, m>> # <<>>
      OBVIOUS
    <3> QED BY <1>0, <1>n, <3>2, <3>3, <3>4, <3>5, <3>6
  <2>7. ASSUME NEW t \in Thr, Block(t) \/ Reacquire(t) PROVE LsdTyped'
    <3>1. pc[t].m \in Mutex
      BY <1>0, <2>7, PcFields DEF Block, Reacquire, In
    <3>2. /\ UNCHANGED <<lsd, loop>>
          /\ \/ owner' = [owner EXCEPT ![pc[t].m] = NoThr]
             \/ owner' = [owner EXCEPT ![pc[t].m] = t]
      BY <2>7 DEF Block, Reacquire
    <3>3. owner' \in [Mutex -> Thr \cup {NoThr}]
      BY <1>0, <3>1, <3>2
    <3> QED BY <1>0, <3>2, <3>3 DEF LsdTyped
  <2>8. ASSUME NEW t \in Thr, evh__HG_PTHREAD_COND_WAIT_POST(t) PROVE LsdTyped'
    <3>1. PICK k : k = hg_lsd__mutex_lock(lsd[t])
      OBVIOUS
    <3>2. PICK x : x = [k EXCEPT !.waiting = FALSE]
      OBVIOUS
    <3>3. PICK e : e = x.cvlist \cup {<<pc[t].c, pc[t].m>>}
      OBVIOUS
    <3>4. PICK y : y = [x EXCEPT !.cvlist = e]
      OBVIOUS
    <3>5. Fit(k) /\ k.expect = lsd[t].expect
      BY <1>f, <3>1, LockFacts
    <3>6. Fit(x) /\ x.expect = lsd[t].expect
      BY <3>2, <3>5, FieldFacts
    <3>7. e \in SUBSET (Cond \X Mutex)
      <4>1. pc[t].c \in Cond /\ pc[t].m \in Mutex
        BY <1>0, <2>8, PcFields DEF evh__HG_PTHREAD_COND_WAIT_POST, In
      <4>2. x.cvlist \in SUBSET (Cond \X Mutex)
        BY <3>6 DEF Fit, ThrLSD
      <4> QED BY <3>3, <4>1, <4>2
    <3>8. Fit(y) /\ y.expect = lsd[t].expect
      BY <3>4, <3>6, <3>7 DEF Fit, ThrLSD
    <3>9. /\ UNCHANGED <<loop, owner>>
          /\ lsd' = [lsd EXCEPT ![t] = y] \/ lsd' = [lsd EXCEPT ![t] = x]
      BY <2>8, <3>1, <3>2, <3>3, <3>4 DEF evh__HG_PTHREAD_COND_WAIT_POST
    <3> QED BY <1>0, <1>m, <3>6, <3>8, <3>9
  <2>9. ASSUME NEW t \in Thr, evh__HG_PTHREAD_COND_WAIT_TIMEOUT(t) PROVE LsdTyped'
    <3>1. PICK k : k = hg_lsd__mutex_lock(lsd[t])
      OBVIOUS
    <3>2. PICK x : x = [k EXCEPT !.waiting = FALSE]
      OBVIOUS
    <3>5. Fit(k) /\ k.expect = lsd[t].expect
      BY <1>f, <3>1, LockFacts
    <3>6. Fit(x) /\ x.expect = lsd[t].expect
      BY <3>2, <3>5, FieldFacts
    <3>9. UNCHANGED <<loop, owner>> /\ lsd' = [lsd EXCEPT ![t] = x]
      BY <2>9, <3>1, <3>2 DEF evh__HG_PTHREAD_COND_WAIT_TIMEOUT
    <3> QED BY <1>0, <1>m, <3>6, <3>9
  <2>10. ASSUME NEW t \in Thr, evh__waiting_loop_begin(t) PROVE LsdTyped'
    <3>1. PICK n : n = [lsd[t] EXCEPT !.in_waiting_loop = TRUE, !.record_reads = FALSE]
      OBVIOUS
    <3>2. Fit(n) /\ n.expect = lsd[t].expect
      BY <1>f, <3>1, FieldFacts
    <3>3. /\ UNCHANGED owner /\ loop' = [loop EXCEPT ![t] = "body"] /\ loop[t] = "test"
          /\ lsd' = [lsd EXCEPT ![t].in_waiting_loop = TRUE, ![t].record_reads = FALSE]
      BY <2>10 DEF evh__waiting_loop_begin
    <3>4. lsd' = [lsd EXCEPT ![t] = n]
      BY <1>0, <3>1, <3>3
    <3>5. n.expect # <<>>
      BY <1>f, <3>2, <3>3
    <3> QED BY <1>0, <1>n, <3>2, <3>3, <3>4, <3>5
  <2>11. ASSUME NEW t \in Thr, evh__waiting_loop_end(t) PROVE LsdTyped'
    <3>1. PICK n : n = [lsd[t] EXCEPT !.in_waiting_loop = FALSE, !.cvlist = {}]
      OBVIOUS
    <3>2. Fit(n)
      BY <1>f, <3>1, FieldFacts
    <3>3. /\ UNCHANGED owner /\ loop' = [loop EXCEPT ![t] = "out"]
          /\ lsd' = [lsd EXCEPT ![t].in_waiting_loop = FALSE, ![t].cvlist = {}]
      BY <2>11 DEF evh__waiting_loop_end
    <3>4. lsd' = [lsd EXCEPT ![t] = n]
      BY <1>0, <3>1, <3>3
    <3> QED BY <1>0, <1>n, <3>2, <3>3, <3>4
  <2>12. ASSUME NEW t \in Thr, StrayExit(t) PROVE LsdTyped'
    <3>1. UNCHANGED <<lsd, owner>> /\ loop' = [loop EXCEPT ![t] = "out"]
      BY <2>12 DEF StrayExit
    <3> QED BY <1>0, <3>1 DEF LsdTyped
  <2>13. ASSUME NEW t \in Thr, NEW c \in Cond, evh__HG_PTHREAD_COND_DESTROY_PRE(t, c) PROVE LsdTyped'
    BY <2>13, <1>u DEF evh__HG_PTHREAD_COND_DESTROY_PRE
  <2>14. ASSUME NEW t \in Thr, RealSignal(t) \/ WaitFails(t) \/ Timeout(t) \/ Spurious(t)
         PROVE LsdTyped'
    BY <2>14, <1>u DEF RealSignal, WaitFails, Timeout, Spurious, condVarsAll
  <2> QED BY <1>4, <2>1, <2>2, <2>3, <2>4, <2>5, <2>6, <2>7, <2>8, <2>9, <2>10, <2>11, <2>12,
             <2>13, <2>14 DEF CondStep, CondNext
<1>5. CASE ~CondStep
  <2>1. UNCHANGED <<lsd, loop, owner>>
    BY <1>5, FourKinds DEF ThreadsStep, SemStep, BarrierStep, vars, condVarsAll
  <2> QED BY <2>1, <1>u
<1> QED BY <1>4, <1>5


LEMMA HgInit == Init => Typed /\ Holding /\ Stamped
<1> SUFFICES ASSUME Init PROVE Typed /\ Holding /\ Stamped
  OBVIOUS
<1>1. ClocksTypeOK
  BY TypeInit DEF Init, ThreadsInit
<1>2. ThreadsTyped
  <2>1. (CHOOSE h \in Pth : TRUE) \in Pth
    BY ThreadsAssumption
  <2> QED BY <2>1, RootAssumption DEF Init, ThreadsInit, ThreadsTyped
<1>3. PcTyped
  BY PcMembers DEF Init, ThreadsInit, PcTyped
<1>4. LifeTyped
  <2>1. ZeroVTS \in VTS
    BY DEF ZeroVTS, VTS
  <2>2. VTS__singleton(Root, 1) # NoVTS
    BY SingletonLemma, RootAssumption, NoVTSAssumption
  <2>3. \A t \in Thr : clk[t] = NoVTS <=> life[t] = "unborn"
    BY <2>2 DEF Init, ThreadsInit, ClocksInit
  <2>4. \A t \in Thr : pc[t].op = "idle"
    BY DEF Init, ThreadsInit, Idle
  <2>5. ended \in [Thr -> VTS]
    BY <2>1 DEF Init, ThreadsInit
  <2> QED BY <2>3, <2>4, <2>5 DEF LifeTyped
<1>5. SemTyped
  BY DEF Init, SemInit, SemTyped
<1>6. BarTyped
  <2>1. NoBar \in [initted : BOOLEAN, size : 0 .. MaxCount, waiting : Seq(Thr)] /\ 0 \in 0 .. MaxCount
    BY BarrierAssumption DEF NoBar
  <2>2. BarrierTypeOK
    BY <2>1 DEF Init, BarrierInit, BarrierTypeOK
  <2>3. \A b \in Barrier : bar[b].waiting = <<>>
    BY DEF Init, BarrierInit, NoBar
  <2> QED BY <2>2, <2>3 DEF BarTyped
<1>7. CondTyped
  <2>1. condSO \in [Cond -> SO \cup {NoSO}] /\ condVars \subseteq Cond /\ lsdLevel \in 0 .. 2
        /\ sent \in [Cond -> MaybeVTS] /\ recorded \in [Cond -> Seq([writes : Seq(Var), so : SO])]
    BY CondAssumption DEF Init, CondInit, MaybeVTS
  <2>2. \A c \in Cond : recorded[c] = <<>>
    BY DEF Init, CondInit
  <2>3. Len(<<>>) <= RecMax
    BY CondAssumption
  <2> QED BY <2>1, <2>2, <2>3 DEF CondTyped
<1>8. LsdTyped
  <2>1. create_ThrLSD \in ThrLSD
    BY DEF create_ThrLSD, ThrLSD
  <2>2. Len(<<>>) <= AccMax
    BY CondAssumption
  <2>3. \A t \in Thr : lsd[t].writes = <<>> /\ lsd[t].reads = <<>> /\ loop[t] = "out"
    BY DEF Init, CondInit, create_ThrLSD
  <2>4. lsd \in [Thr -> ThrLSD] /\ loop \in [Thr -> {"out", "test", "body"}]
        /\ owner \in [Mutex -> Thr \cup {NoThr}]
    BY <2>1 DEF Init, CondInit
  <2> QED BY <2>2, <2>3, <2>4 DEF LsdTyped
<1>9. /\ \A m \in Sem : semStack[m] = <<>>
      /\ \A c \in Cond : recorded[c] = <<>> /\ condSO[c] = NoSO /\ sent[c] = NoVTS
      /\ soLive = {} /\ \A s \in SO : soClk[s] = NoVTS
  BY DEF Init, ThreadsInit, ClocksInit, SemInit, CondInit
<1>10. /\ \A m \in Sem : StackSOs(m) = {}
       /\ \A c \in Cond : RecSOs(c) = {}
  BY <1>9 DEF StackSOs, RecSOs
<1>11. HeldOnce
  BY <1>9 DEF HeldOnce, OneToOne, RecOnce
<1>12. HeldApart /\ HeldIsLive /\ LiveIsHeld
  BY <1>9, <1>10 DEF HeldApart, HeldIsLive, LiveIsHeld
<1>13. Stamped
  BY <1>9, <1>10 DEF Stamped
<1> QED BY <1>1, <1>2, <1>3, <1>4, <1>5, <1>6, <1>7, <1>8, <1>11, <1>12, <1>13
    DEF Typed, Holding

\* The part of the inductive invariant that everything else rests on.
Base == Typed /\ Holding /\ Stamped

LEMMA BaseStep == Base /\ [Next]_vars => Base' /\ Onward
<1> SUFFICES ASSUME Typed, Holding, Stamped, [Next]_vars PROVE Base' /\ Onward
  BY DEF Base
<1>1. Holding' /\ Stamped'
  BY SOInvStep
<1>2. Onward
  BY OnwardStep
<1>3. ThreadsTyped'
  BY ThreadsTypedStep
<1>4. PcTyped'
  BY PcTypedStep
<1>5. ClocksTypeOK'
  BY <1>2, ClocksTypedStep
<1>6. SemTyped'
  BY SemTypedStep
<1>7. LifeTyped'
  BY <1>2, LifeTypedStep
<1>8. BarTyped'
  BY <1>2, BarTypedStep
<1>9. CondTyped'
  BY CondTypedStep
<1>10. LsdTyped'
  BY LsdTypedStep
<1> QED BY <1>1, <1>2, <1>3, <1>4, <1>5, <1>6, <1>7, <1>8, <1>9, <1>10 DEF Base, Typed

LEMMA BaseAlways == Spec => []Base
<1>1. Init => Base
  BY HgInit DEF Base
<1>2. Base /\ [Next]_vars => Base'
  BY BaseStep
<1> QED BY <1>1, <1>2, PTL DEF Spec

\* Types: the limits of the lists of accesses and of recorded signals are kept.
THEOREM SyncIsTyped == Spec => []TypeOK
<1>1. Base => TypeOK
  <2> SUFFICES ASSUME Base PROVE TypeOK
    OBVIOUS
  <2>1. ThreadsTypeOK
    BY DEF Base, Typed, ThreadsTyped, ThreadsTypeOK
  <2>2. SemTypeOK
    BY DEF Base, Typed, SemTyped, SemTypeOK
  <2>3. BarrierTypeOK
    BY DEF Base, Typed, BarTyped
  <2>4. CondTypeOK
    <3>1. \A t \in Thr : lsd[t].writes \in Seq(Var) /\ lsd[t].reads \in Seq(Var)
      BY DEF Base, Typed, LsdTyped, ThrLSD
    <3>2. \A t \in Thr : Len(lsd[t].writes) \in Nat /\ Len(lsd[t].reads) \in Nat
      BY <3>1, SeqFacts
    <3> QED BY <3>2, CondAssumption DEF Base, Typed, CondTyped, LsdTyped, CondTypeOK
  <2> QED BY <2>1, <2>2, <2>3, <2>4 DEF TypeOK
<1> QED BY <1>1, BaseAlways, PTL

\* Every live SO has exactly one holder.
THEOREM EverySOHasOneHolder == Spec => []SOsExact
<1>1. Base => SOsExact
  <2> SUFFICES ASSUME Base PROVE SOsExact
    OBVIOUS
  <2> DEFINE conds == {<<"cond", c>> : c \in {d \in Cond : condSO[d] # NoSO}}
             posts == UNION {{<<"sem", m, i>> : i \in DOMAIN semStack[m]} : m \in Sem}
             signals == UNION {{<<"rec", c, i>> : i \in DOMAIN recorded[c]} : c \in Cond}
             so(x) == IF x[1] = "cond" THEN condSO[x[2]]
                      ELSE IF x[1] = "sem" THEN semStack[x[2]][x[3]] ELSE recorded[x[2]][x[3]].so
             users == conds \cup posts \cup signals
  <2>1. ASSUME NEW x \in conds
        PROVE  \E c \in Cond : x = <<"cond", c>> /\ condSO[c] # NoSO /\ so(x) = condSO[c]
    OBVIOUS
  <2>2. ASSUME NEW x \in posts
        PROVE  \E m \in Sem : \E i \in DOMAIN semStack[m] : x = <<"sem", m, i>> /\ so(x) = semStack[m][i]
    OBVIOUS
  <2>3. ASSUME NEW x \in signals
        PROVE  \E c \in Cond : \E i \in DOMAIN recorded[c] :
                  x = <<"rec", c, i>> /\ so(x) = recorded[c][i].so
    OBVIOUS
  <2>4. \A c \in Cond : condSO[c] # NoSO => <<"cond", c>> \in users /\ so(<<"cond", c>>) = condSO[c]
    OBVIOUS
  <2>5. \A m \in Sem : \A i \in DOMAIN semStack[m] :
          <<"sem", m, i>> \in users /\ so(<<"sem", m, i>>) = semStack[m][i]
    OBVIOUS
  <2>6. \A c \in Cond : \A i \in DOMAIN recorded[c] :
          <<"rec", c, i>> \in users /\ so(<<"rec", c, i>>) = recorded[c][i].so
    OBVIOUS
  <2>7. ASSUME NEW x \in users, NEW y \in users, so(x) = so(y) PROVE x = y
    <3> HIDE DEF conds, posts, signals, so
    <3>h. /\ \A m \in Sem : OneToOne(semStack[m])
          /\ \A c \in Cond : RecOnce(c)
          /\ HeldApart
      BY DEF Base, Holding, HeldOnce
    <3>1. CASE x \in conds /\ y \in conds
      <4>1a. PICK c \in Cond : x = <<"cond", c>> /\ condSO[c] # NoSO /\ so(x) = condSO[c]
        BY <3>1, <2>1
      <4>2a. PICK d \in Cond : y = <<"cond", d>> /\ condSO[d] # NoSO /\ so(y) = condSO[d]
        BY <3>1, <2>1
      <4> QED BY <2>7, <3>h, <4>1a, <4>2a DEF HeldApart
    <3>2. CASE x \in posts /\ y \in posts
      <4>1. PICK m \in Sem : \E i \in DOMAIN semStack[m] :
                x = <<"sem", m, i>> /\ so(x) = semStack[m][i]
        BY <3>2, <2>2
      <4>2. PICK n \in Sem : \E j \in DOMAIN semStack[n] :
                y = <<"sem", n, j>> /\ so(y) = semStack[n][j]
        BY <3>2, <2>2
      <4>1a. PICK i \in DOMAIN semStack[m] : x = <<"sem", m, i>> /\ so(x) = semStack[m][i]
        BY <4>1
      <4>2a. PICK j \in DOMAIN semStack[n] : y = <<"sem", n, j>> /\ so(y) = semStack[n][j]
        BY <4>2
      <4>3. m = n
        BY <2>7, <3>h, <4>1a, <4>2a DEF HeldApart, StackSOs
      <4>4. i = j
        BY <2>7, <3>h, <4>1a, <4>2a, <4>3 DEF OneToOne
      <4> QED BY <4>1a, <4>2a, <4>3, <4>4
    <3>3. CASE x \in signals /\ y \in signals
      <4>1. PICK c \in Cond : \E i \in DOMAIN recorded[c] :
                x = <<"rec", c, i>> /\ so(x) = recorded[c][i].so
        BY <3>3, <2>3
      <4>2. PICK d \in Cond : \E j \in DOMAIN recorded[d] :
                y = <<"rec", d, j>> /\ so(y) = recorded[d][j].so
        BY <3>3, <2>3
      <4>1a. PICK i \in DOMAIN recorded[c] : x = <<"rec", c, i>> /\ so(x) = recorded[c][i].so
        BY <4>1
      <4>2a. PICK j \in DOMAIN recorded[d] : y = <<"rec", d, j>> /\ so(y) = recorded[d][j].so
        BY <4>2
      <4>3. c = d
        BY <2>7, <3>h, <4>1a, <4>2a DEF HeldApart, RecSOs
      <4>4. i = j
        BY <2>7, <3>h, <4>1a, <4>2a, <4>3 DEF RecOnce
      <4> QED BY <4>1a, <4>2a, <4>3, <4>4
    <3>s. ASSUME NEW z \in users
          PROVE  /\ z \in conds => \E c \in Cond : so(z) = condSO[c]
                 /\ z \in posts => \E m \in Sem : so(z) \in StackSOs(m)
                 /\ z \in signals => \E c \in Cond : so(z) \in RecSOs(c)
      BY <2>1, <2>2, <2>3 DEF StackSOs, RecSOs
    <3>4. /\ ~(x \in conds /\ y \in posts) /\ ~(x \in posts /\ y \in conds)
          /\ ~(x \in conds /\ y \in signals) /\ ~(x \in signals /\ y \in conds)
          /\ ~(x \in posts /\ y \in signals) /\ ~(x \in signals /\ y \in posts)
      BY <2>7, <3>h, <3>s DEF HeldApart
    <3> QED BY <2>7, <3>1, <3>2, <3>3, <3>4
  <2>8. ASSUME NEW x \in users PROVE so(x) \in soLive
    <3> HIDE DEF conds, posts, signals, so
    <3>1. HeldIsLive
      BY DEF Base, Holding
    <3> QED BY <3>1, <2>1, <2>2, <2>3 DEF HeldIsLive, StackSOs, RecSOs
  <2>9. ASSUME NEW s \in soLive PROVE \E x \in users : s = so(x)
    <3> HIDE DEF users, so
    <3>1. LiveIsHeld
      BY DEF Base, Holding
    <3>2. s # NoSO
      BY HeldAreSOs DEF Base, Typed, ClocksTypeOK
    <3> QED BY <3>1, <3>2, <2>4, <2>5, <2>6 DEF LiveIsHeld, StackSOs, RecSOs
  <2>10. {so(x) : x \in users} = soLive
    BY <2>8, <2>9
  <2>11. \A x, y \in users : so(x) = so(y) => x = y
    BY <2>7
  <2> QED BY <2>10, <2>11 DEF SOsExact
<1> QED BY <1>1, BaseAlways, PTL


----------------------------------------------------------------------------
(* What every step has in common *)

\* The steps of each kind move between being idle and the calls of that kind.
Within(ops) == \A u \in Thr : \/ pc'[u] = pc[u]
                              \/ /\ pc[u].op \in ops \cup {"idle"}
                                 /\ pc'[u].op \in ops \cup {"idle"}
ThreadOps == {"create", "join"}
SemOps == {"sem_post", "sem_wait"}
BarOps == {"bar", "barIn"}
CondOps == {"signal", "condPre", "condIn", "condWoken", "condBack"}

LEMMA PcKinds ==
  Typed => /\ ThreadsStep => Within(ThreadOps)
           /\ SemStep => Within(SemOps)
           /\ BarrierStep => Within(BarOps)
           /\ CondStep => Within(CondOps)
<1> SUFFICES ASSUME Typed
             PROVE  /\ ThreadsStep => Within(ThreadOps)
                    /\ SemStep => Within(SemOps)
                    /\ BarrierStep => Within(BarOps)
                    /\ CondStep => Within(CondOps)
  OBVIOUS
<1>0. pc \in [Thr -> PC]
  BY DEF Typed, PcTyped
<1>i. Idle.op = "idle"
  BY DEF Idle
<1>u. ASSUME UNCHANGED pc, NEW ops PROVE Within(ops)
  BY <1>u DEF Within
<1>g. ASSUME NEW ops, NEW t \in Thr, NEW p, Goto(t, p), pc[t].op \in ops \cup {"idle"},
             p.op \in ops \cup {"idle"}
      PROVE  Within(ops)
  BY <1>0, <1>g DEF Goto, Within
<1>1. ASSUME ThreadsStep PROVE Within(ThreadOps)
  <2>1. ASSUME NEW p \in Thr, NEW c \in Thr, evh__pre_thread_ll_create(p, c) PROVE Within(ThreadOps)
    <3>1. Goto(p, [op |-> "create", child |-> c]) /\ pc[p].op = "idle"
      BY <2>1, <1>i DEF evh__pre_thread_ll_create, Ready
    <3> QED BY <3>1, <1>g DEF ThreadOps
  <2>2. ASSUME NEW t \in Thr, set_my_pthread_t(t) PROVE Within(ThreadOps)
    BY <2>2, <1>u DEF set_my_pthread_t
  <2>3. ASSUME NEW t \in Thr, CreateReturns(t) \/ evh__HG_PTHREAD_JOIN_POST(t) PROVE Within(ThreadOps)
    <3>1. Goto(t, Idle) /\ pc[t].op \in ThreadOps
      BY <2>3 DEF CreateReturns, evh__HG_PTHREAD_JOIN_POST, In, ThreadOps
    <3> QED BY <3>1, <1>g, <1>i
  <2>5. ASSUME NEW t \in Thr, NEW d \in BOOLEAN, evh__pre_thread_ll_exit(t, d) PROVE Within(ThreadOps)
    BY <2>5, <1>u DEF evh__pre_thread_ll_exit
  <2>6. ASSUME NEW s \in Thr, NEW q \in Thr, JoinReturns(s, q) PROVE Within(ThreadOps)
    <3>1. Goto(s, [op |-> "join", h |-> pth[q], q |-> q]) /\ pc[s].op = "idle"
      BY <2>6, <1>i DEF JoinReturns, Ready
    <3> QED BY <3>1, <1>g DEF ThreadOps
  <2> QED BY <1>1, <2>1, <2>2, <2>3, <2>5, <2>6 DEF ThreadsStep, ThreadsNext
<1>2. ASSUME SemStep PROVE Within(SemOps)
  <2>1. ASSUME NEW t \in Thr, NEW m \in Sem, NEW v \in 0 .. MaxInit,
               evh__HG_POSIX_SEM_INIT_POST(t, m, v) PROVE Within(SemOps)
    BY <2>1, <1>u DEF evh__HG_POSIX_SEM_INIT_POST
  <2>2. ASSUME NEW t \in Thr, NEW m \in Sem, evh__HG_POSIX_SEM_POST_PRE(t, m) \/ RealWait(t, m)
        PROVE Within(SemOps)
    <3>1. /\ Goto(t, [op |-> "sem_post", m |-> m]) \/ Goto(t, [op |-> "sem_wait", m |-> m])
          /\ pc[t].op = "idle"
      BY <2>2, <1>i DEF evh__HG_POSIX_SEM_POST_PRE, RealWait, Ready
    <3> QED BY <3>1, <1>g DEF SemOps
  <2>3. ASSUME NEW t \in Thr, NEW m \in Sem, evh__HG_POSIX_SEM_DESTROY_PRE(t, m) PROVE Within(SemOps)
    BY <2>3, <1>u DEF evh__HG_POSIX_SEM_DESTROY_PRE
  <2>4. ASSUME NEW t \in Thr, RealPost(t) \/ evh__HG_POSIX_SEM_WAIT_POST(t) PROVE Within(SemOps)
    <3>1. Goto(t, Idle) /\ pc[t].op \in SemOps
      BY <2>4 DEF RealPost, evh__HG_POSIX_SEM_WAIT_POST, In, SemOps
    <3> QED BY <3>1, <1>g, <1>i
  <2> QED BY <1>2, <2>1, <2>2, <2>3, <2>4 DEF SemStep, SemNext
<1>3. ASSUME BarrierStep PROVE Within(BarOps)
  <2>1. ASSUME NEW t \in Thr, NEW b \in Barrier, NEW n \in 0 .. MaxCount,
               evh__HG_PTHREAD_BARRIER_INIT_PRE(t, b, n) \/ evh__HG_OMP_BARRIER_REINIT_PRE(t, b, n)
        PROVE Within(BarOps)
    BY <2>1, <1>u DEF evh__HG_PTHREAD_BARRIER_INIT_PRE, evh__HG_OMP_BARRIER_REINIT_PRE
  <2>2. ASSUME NEW t \in Thr, NEW b \in Barrier, evh__HG_PTHREAD_BARRIER_DESTROY_PRE(t, b)
        PROVE Within(BarOps)
    BY <2>2, <1>u DEF evh__HG_PTHREAD_BARRIER_DESTROY_PRE
  <2>3. ASSUME NEW t \in Thr, NEW b \in Barrier, evh__HG_PTHREAD_BARRIER_WAIT_PRE(t, b)
        PROVE Within(BarOps)
    <3>1. /\ Goto(t, [op |-> "bar", b |-> b, at |-> clk[t]]) \/ Goto(t, Idle)
          /\ pc[t].op = "idle"
      BY <2>3, <1>i DEF evh__HG_PTHREAD_BARRIER_WAIT_PRE, Ready
    <3> QED BY <3>1, <1>g, <1>i DEF BarOps
  <2>4. ASSUME NEW t \in Thr, Arrive(t) PROVE Within(BarOps)
    <3>1. pc[t].op = "bar"
      BY <2>4 DEF Arrive, In
    <3>2. \A u \in Thr : pc'[u] = pc[u] \/ (pc'[u] = Idle /\ pc[u].op \in BarOps)
                         \/ (u = t /\ pc'[u] = [pc[u] EXCEPT !.op = "barIn"])
      BY <2>4, <3>1, <1>0 DEF Arrive, Arrived, BarOps
    <3>3. [pc[t] EXCEPT !.op = "barIn"].op = "barIn"
      BY <3>1, <1>0, PcMoves
    <3> QED BY <3>1, <3>2, <3>3, <1>i DEF Within, BarOps
  <2> QED BY <1>3, <2>1, <2>2, <2>3, <2>4 DEF BarrierStep, BarrierNext
<1>4. ASSUME CondStep PROVE Within(CondOps)
  <2>1. ASSUME NEW t \in Thr, NEW m \in Mutex, MutexLock(t, m) \/ MutexUnlock(t, m)
        PROVE Within(CondOps)
    BY <2>1, <1>u DEF MutexLock, MutexUnlock
  <2>2. ASSUME NEW t \in Thr, NEW v \in Var, NEW w \in BOOLEAN, Access(t, v, w) PROVE Within(CondOps)
    BY <2>2, <1>u DEF Access
  <2>3. ASSUME NEW t \in Thr, NEW c \in Cond, NEW a \in BOOLEAN,
               evh__HG_PTHREAD_COND_SIGNAL_PRE(t, c, a) PROVE Within(CondOps)
    <3>1. /\ Goto(t, [op |-> "signal", c |-> c, all |-> a, at |-> clk[t]])
          /\ pc[t].op = "idle"
      BY <2>3, <1>i DEF evh__HG_PTHREAD_COND_SIGNAL_PRE, Ready
    <3> QED BY <3>1, <1>g DEF CondOps
  <2>4. ASSUME NEW t \in Thr, NEW c \in Cond, NEW m \in Mutex,
               evh__HG_PTHREAD_COND_WAIT_PRE(t, c, m) PROVE Within(CondOps)
    <3>1. /\ UNCHANGED pc \/ Goto(t, [op |-> "condPre", c |-> c, m |-> m])
          /\ pc[t].op = "idle"
      BY <2>4, <1>i DEF evh__HG_PTHREAD_COND_WAIT_PRE, Goto, Ready
    <3> QED BY <3>1, <1>u, <1>g DEF CondOps
  <2>5. ASSUME NEW t \in Thr, NEW c \in Cond, NEW m \in Mutex, evh__waiting_loop(t, c, m)
        PROVE Within(CondOps)
    BY <2>5, <1>u DEF evh__waiting_loop
  <2>6. ASSUME NEW t \in Thr, NEW c \in Cond, evh__HG_PTHREAD_COND_DESTROY_PRE(t, c)
        PROVE Within(CondOps)
    BY <2>6, <1>u DEF evh__HG_PTHREAD_COND_DESTROY_PRE
  <2>7. ASSUME NEW t \in Thr, RealSignal(t) PROVE Within(CondOps)
    <3>1. pc[t].op = "signal"
      BY <2>7 DEF RealSignal, In
    <3>2. \A u \in Thr : \/ pc'[u] = pc[u] \/ (u = t /\ pc'[u] = Idle)
                         \/ (pc[u].op = "condIn" /\ pc'[u] = Woken(u, pc[t].at, FALSE))
      BY <2>7, <1>0 DEF RealSignal, Blocked
    <3>3. \A u \in Thr : Woken(u, pc[t].at, FALSE).op = "condWoken"
      BY DEF Woken
    <3> QED BY <3>1, <3>2, <3>3, <1>i DEF Within, CondOps
  <2>8. ASSUME NEW t \in Thr, Block(t) PROVE Within(CondOps)
    <3>1. pc[t].op = "condPre" /\ Goto(t, [pc[t] EXCEPT !.op = "condIn"])
      BY <2>8 DEF Block, In, Goto
    <3>2. [pc[t] EXCEPT !.op = "condIn"].op = "condIn"
      BY <3>1, <1>0, PcMoves
    <3> QED BY <3>1, <3>2, <1>g DEF CondOps
  <2>9. ASSUME NEW t \in Thr, Reacquire(t) PROVE Within(CondOps)
    <3>1. pc[t].op = "condWoken" /\ Goto(t, [pc[t] EXCEPT !.op = "condBack"])
      BY <2>9 DEF Reacquire, In, Goto
    <3>2. [pc[t] EXCEPT !.op = "condBack"].op = "condBack"
      BY <3>1, <1>0, PcMoves
    <3> QED BY <3>1, <3>2, <1>g DEF CondOps
  <2>10. ASSUME NEW t \in Thr, \/ Timeout(t) \/ Spurious(t) \/ WaitFails(t)
                              \/ evh__HG_PTHREAD_COND_WAIT_POST(t)
                              \/ evh__HG_PTHREAD_COND_WAIT_TIMEOUT(t) PROVE Within(CondOps)
    <3>1. /\ \/ Goto(t, Idle) \/ Goto(t, Woken(t, NoVTS, TRUE)) \/ Goto(t, Woken(t, NoVTS, FALSE))
          /\ pc[t].op \in CondOps
      BY <2>10 DEF Timeout, Spurious, WaitFails, evh__HG_PTHREAD_COND_WAIT_POST,
                   evh__HG_PTHREAD_COND_WAIT_TIMEOUT, In, CondOps
    <3>2. Woken(t, NoVTS, TRUE).op \in CondOps /\ Woken(t, NoVTS, FALSE).op \in CondOps
      BY DEF Woken, CondOps
    <3> QED BY <3>1, <3>2, <1>g, <1>i
  <2>11. ASSUME NEW t \in Thr, \/ evh__waiting_loop_begin(t) \/ evh__waiting_loop_end(t)
                               \/ StrayExit(t) PROVE Within(CondOps)
    BY <2>11, <1>u DEF evh__waiting_loop_begin, evh__waiting_loop_end, StrayExit
  <2> QED BY <1>4, <2>1, <2>2, <2>3, <2>4, <2>5, <2>6, <2>7, <2>8, <2>9, <2>10, <2>11
          DEF CondStep, CondNext
<1> QED BY <1>1, <1>2, <1>3, <1>4

\* Nothing happens after an abort, and what has happened has happened.
LEMMA HitGrows == [Next]_vars => hit \subseteq hit' /\ (aborted = "no" \/ UNCHANGED vars)
<1> SUFFICES ASSUME [Next]_vars PROVE hit \subseteq hit' /\ (aborted = "no" \/ UNCHANGED vars)
  OBVIOUS
<1> USE DEF Does, DoesAll
<1> DEFINE Goal == hit \subseteq hit' /\ aborted = "no"
<1>1. ASSUME ThreadsNext PROVE Goal
  BY <1>1 DEF ThreadsNext, evh__pre_thread_ll_create, set_my_pthread_t, CreateReturns,
      evh__HG_PTHREAD_JOIN_POST, evh__pre_thread_ll_exit, JoinReturns, Ready, In, Alive
<1>2. ASSUME SemNext PROVE Goal
  BY <1>2 DEF SemNext, evh__HG_POSIX_SEM_INIT_POST, evh__HG_POSIX_SEM_POST_PRE, RealPost,
                RealWait, evh__HG_POSIX_SEM_WAIT_POST, evh__HG_POSIX_SEM_DESTROY_PRE, Ready, In, Alive
<1>3. ASSUME BarrierNext PROVE Goal
  BY <1>3 DEF BarrierNext, evh__HG_PTHREAD_BARRIER_INIT_PRE, evh__HG_OMP_BARRIER_REINIT_PRE,
              evh__HG_PTHREAD_BARRIER_DESTROY_PRE, evh__HG_PTHREAD_BARRIER_WAIT_PRE, Arrive,
              Ready, In, Alive
<1>4. ASSUME CondNext PROVE Goal
  <2>1. ASSUME NEW t \in Thr, NEW c \in Cond, NEW m \in Mutex,
               evh__HG_PTHREAD_COND_WAIT_PRE(t, c, m) \/ evh__waiting_loop(t, c, m)
        PROVE Goal
    <3>1. \E K : DoesAll(K)
      BY <2>1, Zenon DEF evh__HG_PTHREAD_COND_WAIT_PRE, evh__waiting_loop
    <3>2. aborted = "no"
      BY <2>1, Zenon DEF evh__HG_PTHREAD_COND_WAIT_PRE, evh__waiting_loop, Ready, Alive
    <3> QED BY <3>1, <3>2
  <2>2. ASSUME NEW t \in Thr, NEW m \in Mutex, MutexLock(t, m) \/ MutexUnlock(t, m) PROVE Goal
    BY <2>2 DEF MutexLock, MutexUnlock, Ready, Alive
  <2>3. ASSUME NEW t \in Thr, NEW v \in Var, NEW w \in BOOLEAN, Access(t, v, w) PROVE Goal
    BY <2>3 DEF Access, Ready, Alive
  <2>4. ASSUME NEW t \in Thr, NEW c \in Cond, NEW a \in BOOLEAN,
               evh__HG_PTHREAD_COND_SIGNAL_PRE(t, c, a) PROVE Goal
    BY <2>4 DEF evh__HG_PTHREAD_COND_SIGNAL_PRE, Ready, Alive
  <2>5. ASSUME NEW t \in Thr, NEW c \in Cond, evh__HG_PTHREAD_COND_DESTROY_PRE(t, c) PROVE Goal
    BY <2>5 DEF evh__HG_PTHREAD_COND_DESTROY_PRE, Ready, Alive
  <2>6. ASSUME NEW t \in Thr, \/ RealSignal(t) \/ Block(t) \/ WaitFails(t) \/ Timeout(t)
                              \/ Spurious(t) \/ Reacquire(t) \/ evh__waiting_loop_begin(t)
                              \/ StrayExit(t)
                              \/ evh__waiting_loop_end(t)
        PROVE Goal
    BY <2>6 DEF RealSignal, Block, WaitFails, Timeout, Spurious, Reacquire,
                evh__waiting_loop_begin, StrayExit, evh__waiting_loop_end, Ready, In, Alive
  <2>7. ASSUME NEW t \in Thr, evh__HG_PTHREAD_COND_WAIT_POST(t) \/ evh__HG_PTHREAD_COND_WAIT_TIMEOUT(t)
        PROVE Goal
    BY <2>7 DEF evh__HG_PTHREAD_COND_WAIT_POST, evh__HG_PTHREAD_COND_WAIT_TIMEOUT, In, Alive
  <2> QED BY <1>4, <2>1, <2>2, <2>3, <2>4, <2>5, <2>6, <2>7 DEF CondNext
<1> QED BY <1>1, <1>2, <1>3, <1>4, FourKinds DEF ThreadsStep, SemStep, BarrierStep, CondStep, vars


----------------------------------------------------------------------------
(* Semaphores *)

SemCount(m) == semVal[m] + Cardinality(Inside("sem_post", m)) + Cardinality(Inside("sem_wait", m))

\* A post is still on the stack, or someone who waited is ordered after it.
Kept(m, v) == \/ \E s \in StackSOs(m) : soClk[s] = v
              \/ \E w \in semWaiters[m] : clk[w] \in VTS /\ VTS__leq(v, clk[w])

\* The stack has an SO for every unit and every thread inside a call; never
\* more, and fewer only when an initial value was capped.
SemInvOf(m) ==
  /\ semVal[m] >= -1
  /\ semVal[m] = -1 => Inside("sem_post", m) = {} /\ Inside("sem_wait", m) = {}
  /\ semVal[m] >= 0 => Len(semStack[m]) <= SemCount(m)
  /\ semVal[m] >= 0 /\ "capped" \notin hit => Len(semStack[m]) = SemCount(m)
  /\ semVal[m] >= 0 => \A v \in semPosts[m] : Kept(m, v)

SemInv == \A m \in Sem : SemInvOf(m)

LEMMA InsideFinite ==
  ASSUME NEW op, NEW m
  PROVE  IsFiniteSet(Inside(op, m)) /\ Cardinality(Inside(op, m)) \in Nat
<1>1. IsFiniteSet(Inside(op, m))
  BY FiniteAssumption, FS_Subset DEF Inside
<1> QED BY <1>1, FS_CardinalityType

LEMMA InsideSame ==
  ASSUME NEW op, NEW m, \A u \in Thr : pc'[u] = pc[u] \/ (pc[u].op # op /\ pc'[u].op # op)
  PROVE  Inside(op, m)' = Inside(op, m)
BY DEF Inside

\* A thread enters a call on m, or leaves it.
LEMMA InsideEnter ==
  ASSUME Typed, NEW t \in Thr, NEW op, op # "idle", NEW m, pc[t].op = "idle",
         Goto(t, [op |-> op, m |-> m])
  PROVE  /\ Cardinality(Inside(op, m)') = Cardinality(Inside(op, m)) + 1
         /\ \A o, n : o # "idle" /\ (o # op \/ n # m) => Inside(o, n)' = Inside(o, n)
<1>0. /\ pc'[t].op = op /\ pc'[t].m = m /\ \A u \in Thr \ {t} : pc'[u] = pc[u]
  BY DEF Typed, PcTyped, Goto
<1>1. Inside(op, m)' = Inside(op, m) \cup {t} /\ t \notin Inside(op, m)
  BY <1>0 DEF Inside
<1>2. Cardinality(Inside(op, m) \cup {t}) = Cardinality(Inside(op, m)) + 1
  BY <1>1, InsideFinite, FS_AddElement
<1>3. ASSUME NEW o, NEW n, o # "idle", o # op \/ n # m PROVE Inside(o, n)' = Inside(o, n)
  BY <1>0, <1>3 DEF Inside
<1> QED BY <1>1, <1>2, <1>3

LEMMA InsideLeave ==
  ASSUME Typed, NEW t \in Thr, NEW op, op # "idle", NEW m, pc[t].op = op, pc[t].m = m, Goto(t, Idle)
  PROVE  /\ Cardinality(Inside(op, m)') = Cardinality(Inside(op, m)) - 1
         /\ Cardinality(Inside(op, m)) >= 1
         /\ \A o, n : o # "idle" /\ (o # op \/ n # m) => Inside(o, n)' = Inside(o, n)
<1>0. /\ pc'[t].op = "idle" /\ \A u \in Thr \ {t} : pc'[u] = pc[u]
  BY DEF Typed, PcTyped, Goto, Idle
<1>1. Inside(op, m)' = Inside(op, m) \ {t} /\ t \in Inside(op, m)
  BY <1>0 DEF Inside
<1>2. Cardinality(Inside(op, m) \ {t}) = Cardinality(Inside(op, m)) - 1
  BY <1>1, InsideFinite, FS_RemoveElement
<1>2a. Cardinality(Inside(op, m) \ {t}) \in Nat
  BY InsideFinite, FS_RemoveElement, FS_CardinalityType
<1>2b. Cardinality(Inside(op, m)) >= 1
  BY <1>2, <1>2a, InsideFinite
<1>3. ASSUME NEW o, NEW n, o # "idle", o # op \/ n # m PROVE Inside(o, n)' = Inside(o, n)
  BY <1>0, <1>3 DEF Inside
<1> QED BY <1>1, <1>2, <1>2b, <1>3

LEMMA QuietInside ==
  ASSUME NEW m, Quiet(m)
  PROVE  Inside("sem_post", m) = {} /\ Inside("sem_wait", m) = {}
BY DEF Quiet, Inside

\* What a semaphore keeps when nothing is done to it.
LEMMA KeptSame ==
  ASSUME Typed, Onward, NEW m \in Sem, NEW v \in VTS, Kept(m, v), StackSOs(m)' = StackSOs(m),
         semWaiters[m] \subseteq semWaiters'[m],
         \A s \in StackSOs(m) : soClk'[s] = soClk[s]
  PROVE  Kept(m, v)'
<1>1. CASE \E s \in StackSOs(m) : soClk[s] = v
  BY <1>1 DEF Kept
<1>2. CASE \E w \in semWaiters[m] : clk[w] \in VTS /\ VTS__leq(v, clk[w])
  <2>1. PICK w \in semWaiters[m] : clk[w] \in VTS /\ VTS__leq(v, clk[w])
    BY <1>2
  <2>2. w \in Thr
    BY DEF Typed, SemTyped
  <2>3. clk'[w] \in VTS /\ VTS__leq(clk[w], clk'[w])
    BY <2>1, <2>2 DEF Onward
  <2>4. VTS__leq(v, clk'[w])
    BY <2>1, <2>3, LeqTrans
  <2> QED BY <2>3, <2>4 DEF Kept
<1> QED BY <1>1, <1>2 DEF Kept

LEMMA SemSame ==
  ASSUME Typed, Onward, hit \subseteq hit', NEW m \in Sem, SemInvOf(m),
         semVal'[m] = semVal[m], semStack'[m] = semStack[m], semPosts'[m] = semPosts[m],
         semWaiters[m] \subseteq semWaiters'[m],
         Inside("sem_post", m)' = Inside("sem_post", m), Inside("sem_wait", m)' = Inside("sem_wait", m),
         \A s \in StackSOs(m) : soClk'[s] = soClk[s]
  PROVE  SemInvOf(m)'
<1>1. StackSOs(m)' = StackSOs(m)
  BY DEF StackSOs
<1>2. semPosts[m] \subseteq VTS
  BY DEF Typed, SemTyped
<1>3. semVal[m] >= 0 => \A v \in semPosts[m] : Kept(m, v)'
  BY <1>1, <1>2, KeptSame DEF SemInvOf
<1>4. SemCount(m)' = SemCount(m)
  BY DEF SemCount
<1> QED BY <1>3, <1>4 DEF SemInvOf

\* The SOs on a stack keep what they hold when it is not the stack's turn.
LEMMA OtherSteps ==
  ASSUME Base, Onward, [Next]_vars, ~SemStep, SemInv
  PROVE  SemInv'
<1>0. Typed /\ Holding /\ hit \subseteq hit'
  BY HitGrows DEF Base
<1>1. UNCHANGED <<semVal, semStack, semPosts, semWaiters>>
  BY FourKinds DEF ThreadsStep, BarrierStep, CondStep, vars, semVars
<1>2. \A u \in Thr : pc'[u] = pc[u] \/ (pc[u].op \notin SemOps /\ pc'[u].op \notin SemOps)
  <2>1. Within(ThreadOps) \/ Within(BarOps) \/ Within(CondOps) \/ UNCHANGED pc
    BY <1>0, PcKinds, FourKinds DEF vars
  <2> QED BY <2>1 DEF Within, ThreadOps, BarOps, CondOps, SemOps
<1>3. \A m \in Sem : Inside("sem_post", m)' = Inside("sem_post", m)
                     /\ Inside("sem_wait", m)' = Inside("sem_wait", m)
  BY <1>2, InsideSame DEF SemOps
<1>4. ASSUME NEW m \in Sem, NEW s \in StackSOs(m) PROVE soClk'[s] = soClk[s]
  <2>0. s \in SO /\ s \in soLive /\ \A c \in Cond : s # condSO[c] /\ s \notin RecSOs(c)
    BY <1>0, HeldAreSOs DEF Holding, HeldIsLive, HeldApart
  <2>1. CASE ThreadsStep
    BY <2>1 DEF ThreadsStep, ThreadsNext, evh__pre_thread_ll_create, set_my_pthread_t, CreateReturns,
      evh__HG_PTHREAD_JOIN_POST, evh__pre_thread_ll_exit, JoinReturns, Create, clkVars
  <2>2. CASE BarrierStep
    BY <2>2 DEF BarrierStep, BarrierNext, evh__HG_PTHREAD_BARRIER_INIT_PRE,
      evh__HG_OMP_BARRIER_REINIT_PRE, evh__HG_PTHREAD_BARRIER_DESTROY_PRE,
      evh__HG_PTHREAD_BARRIER_WAIT_PRE, Arrive, clkVars
  <2>3. CASE CondStep
    <3> USE DEF clkVars
    <3>1. ASSUME NEW t \in Thr, NEW c \in Cond, NEW a \in BOOLEAN,
                 evh__HG_PTHREAD_COND_SIGNAL_PRE(t, c, a) PROVE soClk'[s] = soClk[s]
      <4>1. PICK so \in SO, new \in SUBSET (SO \ soLive), gone \in SUBSET RecSOs(c) :
              SignalTo(t, c, so, new, gone)
        BY <1>0, <3>1, SignalFacts DEF Holding
      <4>2. s # so /\ s \notin new /\ s \notin gone
        BY <2>0, <4>1 DEF SignalTo
      <4> QED BY <2>0, <4>1, <4>2 DEF SignalTo
    <3>2. ASSUME NEW t \in Thr, NEW c \in Cond, evh__HG_PTHREAD_COND_DESTROY_PRE(t, c)
          PROVE soClk'[s] = soClk[s]
      BY <2>0, <3>2 DEF evh__HG_PTHREAD_COND_DESTROY_PRE
    <3>3. ASSUME NEW t \in Thr, \/ evh__HG_PTHREAD_COND_WAIT_POST(t)
                                \/ evh__HG_PTHREAD_COND_WAIT_TIMEOUT(t) \/ evh__waiting_loop_end(t)
          PROVE soClk'[s] = soClk[s]
      <4>1. \E C : WithSOs(C)
        BY <3>3 DEF evh__HG_PTHREAD_COND_WAIT_POST, evh__HG_PTHREAD_COND_WAIT_TIMEOUT,
                    evh__waiting_loop_end
      <4> QED BY <4>1 DEF WithSOs
    <3>4. ASSUME NEW t \in Thr, NEW m2 \in Mutex, MutexLock(t, m2) \/ MutexUnlock(t, m2)
          PROVE soClk'[s] = soClk[s]
      BY <3>4 DEF MutexLock, MutexUnlock
    <3>5. ASSUME NEW t \in Thr, NEW v \in Var, NEW w \in BOOLEAN, Access(t, v, w)
          PROVE soClk'[s] = soClk[s]
      BY <3>5 DEF Access
    <3>6. ASSUME NEW t \in Thr, NEW c \in Cond, NEW m2 \in Mutex,
                 evh__HG_PTHREAD_COND_WAIT_PRE(t, c, m2) \/ evh__waiting_loop(t, c, m2)
          PROVE soClk'[s] = soClk[s]
      <4>1. UNCHANGED clkVars
        BY <3>6, Zenon DEF evh__HG_PTHREAD_COND_WAIT_PRE, evh__waiting_loop
      <4> QED BY <4>1
    <3>7. ASSUME NEW t \in Thr, \/ RealSignal(t) \/ Block(t) \/ WaitFails(t) \/ Timeout(t)
                              \/ Spurious(t) \/ Reacquire(t) \/ evh__waiting_loop_begin(t)
                              \/ StrayExit(t)
          PROVE soClk'[s] = soClk[s]
      BY <3>7 DEF RealSignal, Block, WaitFails, Timeout, Spurious, Reacquire,
                evh__waiting_loop_begin, StrayExit
    <3> QED BY <2>3, <3>1, <3>2, <3>3, <3>4, <3>5, <3>6, <3>7 DEF CondStep, CondNext
  <2> QED BY <2>1, <2>2, <2>3, FourKinds DEF vars
<1> SUFFICES ASSUME NEW m \in Sem PROVE SemInvOf(m)'
  BY DEF SemInv
<1> QED BY <1>0, <1>1, <1>3, <1>4, SemSame DEF SemInv


LEMMA SemInvStep == Base /\ Onward /\ SemInv /\ [Next]_vars => SemInv'
<1> SUFFICES ASSUME Base, Onward, SemInv, [Next]_vars PROVE SemInv'
  OBVIOUS
<1>0. Typed /\ Holding /\ Stamped /\ hit \subseteq hit'
  BY HitGrows DEF Base
<1>t. /\ semVal \in [Sem -> Int] /\ semStack \in [Sem -> Seq(SO)]
      /\ semPosts \in [Sem -> SUBSET VTS] /\ semWaiters \in [Sem -> SUBSET Thr]
      /\ soClk \in [SO -> MaybeVTS] /\ pc \in [Thr -> PC]
  BY <1>0 DEF Typed, SemTyped, ClocksTypeOK, PcTyped
<1>l. \A m \in Sem : Len(semStack[m]) \in Nat
  BY <1>t, SeqFacts
<1>n. \A op, m : Cardinality(Inside(op, m)) \in Nat
  BY InsideFinite
<1>i. Idle.op = "idle"
  BY DEF Idle
<1>c. ASSUME NEW m
      PROVE  /\ SemCount(m) = semVal[m] + Cardinality(Inside("sem_post", m))
                              + Cardinality(Inside("sem_wait", m))
             /\ SemCount(m)' = semVal'[m] + Cardinality(Inside("sem_post", m)')
                              + Cardinality(Inside("sem_wait", m)')
  BY DEF SemCount
\* Only m is touched.
<1>s. ASSUME NEW m \in Sem,
             \A n \in Sem \ {m} : /\ semVal'[n] = semVal[n] /\ semStack'[n] = semStack[n]
                                  /\ semPosts'[n] = semPosts[n] /\ semWaiters'[n] = semWaiters[n],
             \A n \in Sem \ {m} : \A s \in StackSOs(n) : soClk'[s] = soClk[s],
             \A n \in Sem \ {m} : /\ Inside("sem_post", n)' = Inside("sem_post", n)
                                  /\ Inside("sem_wait", n)' = Inside("sem_wait", n),
             SemInvOf(m)'
      PROVE  SemInv'
  <2>1. ASSUME NEW n \in Sem \ {m} PROVE SemInvOf(n)'
    BY <1>0, <1>s, <2>1, SemSame DEF SemInv
  <2> QED BY <1>s, <2>1 DEF SemInv
<1>o. ASSUME NEW m \in Sem, NEW n \in Sem \ {m}, NEW s \in StackSOs(n)
      PROVE  s \in SO /\ s \in soLive /\ s \notin StackSOs(m)
  BY <1>0, HeldAreSOs DEF Holding, HeldIsLive, HeldApart
<1>1. ASSUME NEW t \in Thr, NEW m \in Sem, NEW v \in 0 .. MaxInit,
             evh__HG_POSIX_SEM_INIT_POST(t, m, v) PROVE SemInv'
  <2>1. PICK stack \in Seq(SO), left \in SUBSET SO : SemInitTo(t, m, v, stack, left)
    BY <1>0, <1>1, SemInitFacts
  <2>2. /\ semVal' = [semVal EXCEPT ![m] = v]
        /\ semWaiters' = [semWaiters EXCEPT ![m] = {}]
        /\ Quiet(m) /\ UNCHANGED pc
    BY <1>1 DEF evh__HG_POSIX_SEM_INIT_POST
  <2>3. semPosts' = [semPosts EXCEPT ![m] = {Ticks(t, clk[t], k) : k \in 0 .. Len(stack) - 1}]
    <3>1. Len(stack) = IF v > SemMax THEN SemMax ELSE v
      BY <2>1 DEF SemInitTo
    <3> QED BY <1>1, <3>1 DEF evh__HG_POSIX_SEM_INIT_POST
  <2>4. semStack' = [semStack EXCEPT ![m] = stack]
    BY <2>1 DEF SemInitTo
  <2>5. v > SemMax => "capped" \in hit'
    BY <1>1 DEF evh__HG_POSIX_SEM_INIT_POST, Does, DoesAll
  <2>6. Inside("sem_post", m)' = {} /\ Inside("sem_wait", m)' = {}
        /\ \A n \in Sem : Inside("sem_post", n)' = Inside("sem_post", n)
                          /\ Inside("sem_wait", n)' = Inside("sem_wait", n)
    BY <2>2, QuietInside, InsideSame
  <2>7. SemCount(m)' = v
    <3>1. Cardinality({}) = 0
      BY FS_EmptySet
    <3>2. semVal'[m] = v /\ v \in Int
      BY <1>t, <2>2
    <3>3. Cardinality(Inside("sem_post", m)') = 0 /\ Cardinality(Inside("sem_wait", m)') = 0
      BY <2>6, <3>1
    <3> QED BY <1>c, <3>2, <3>3
  <2>8. semStack'[m] = stack /\ semVal'[m] = v /\ StackSOs(m)' = Range(stack)
    BY <1>t, <2>2, <2>4 DEF StackSOs, Range
  <2>9. ASSUME NEW w \in semPosts'[m] PROVE Kept(m, w)'
    <3>1. PICK k \in 0 .. Len(stack) - 1 : w = Ticks(t, clk[t], k)
      BY <1>t, <2>3
    <3>2. Len(stack) \in Nat /\ DOMAIN stack = 1 .. Len(stack)
      BY SeqFacts
    <3>3. k + 1 \in 1 .. Len(stack) /\ (k + 1) - 1 = k
      BY <3>2
    <3>4. soClk'[stack[k + 1]] = w
      BY <2>1, <3>1, <3>3 DEF SemInitTo
    <3>5. stack[k + 1] \in Range(stack)
      BY <3>2, <3>3 DEF Range
    <3> QED BY <2>8, <3>4, <3>5 DEF Kept
  <2>10. SemInvOf(m)'
    <3>1. Len(stack) = IF v > SemMax THEN SemMax ELSE v
      BY <2>1 DEF SemInitTo
    <3> QED BY <2>5, <2>6, <2>7, <2>8, <2>9, <3>1, SemAssumption DEF SemInvOf
  <2>11. ASSUME NEW n \in Sem \ {m}, NEW s \in StackSOs(n) PROVE soClk'[s] = soClk[s]
    <3>1. s \in left /\ s \in SO /\ s \notin Range(stack)
      BY <1>o, <2>1, <2>11 DEF SemInitTo
    <3> QED BY <2>1, <3>1 DEF SemInitTo
  <2> QED BY <1>s, <1>t, <2>2, <2>3, <2>4, <2>6, <2>10, <2>11
<1>2. ASSUME NEW t \in Thr, NEW m \in Sem, evh__HG_POSIX_SEM_POST_PRE(t, m) PROVE SemInv'
  <2>1. PICK so : so = libhb_so_alloc(0)
    OBVIOUS
  <2>2. IsFiniteSet(Spare)
    BY FiniteAssumption, FS_Subset DEF Spare
  <2>3. Cardinality(Spare) \in Nat /\ Cardinality(Spare) # 0
    BY <1>2, <2>2, FS_CardinalityType, FS_EmptySet DEF evh__HG_POSIX_SEM_POST_PRE
  <2>4. so \in SO \ soLive
    BY <2>1, <2>3, AllocFacts
  <2>5. /\ soClk' = [soClk EXCEPT ![so] = clk[t]]
        /\ semStack' = [semStack EXCEPT ![m] = Append(semStack[m], so)]
        /\ semPosts' = [semPosts EXCEPT ![m] = @ \cup {clk[t]}]
        /\ UNCHANGED <<semVal, semWaiters>>
        /\ Goto(t, [op |-> "sem_post", m |-> m]) /\ pc[t].op = "idle" /\ semVal[m] >= 0
    BY <1>2, <1>i, <2>1 DEF evh__HG_POSIX_SEM_POST_PRE, push_SO_for_sem, Ready
  <2>6. PICK st : st = Append(semStack[m], so)
    OBVIOUS
  <2>7. /\ semStack'[m] = st /\ Len(st) = Len(semStack[m]) + 1
        /\ StackSOs(m) = Range(semStack[m])
        /\ StackSOs(m)' = StackSOs(m) \cup {so}
    <3>1. Len(st) = Len(semStack[m]) + 1 /\ Range(st) = Range(semStack[m]) \cup {so}
      BY <1>t, <2>4, <2>6, AppendFacts
    <3>2. StackSOs(m) = Range(semStack[m])
      BY <1>0, HeldAreSOs
    <3>3. semStack'[m] = st
      BY <1>t, <2>5, <2>6
    <3>4. StackSOs(m)' = Range(st)
      BY <3>3 DEF StackSOs, Range
    <3> QED BY <3>1, <3>2, <3>3, <3>4
  <2>8. /\ Cardinality(Inside("sem_post", m)') = Cardinality(Inside("sem_post", m)) + 1
        /\ \A o, n : o # "idle" /\ (o # "sem_post" \/ n # m) => Inside(o, n)' = Inside(o, n)
    BY <1>0, <2>5, InsideEnter
  <2>9. SemCount(m)' = SemCount(m) + 1
    <3>1. Inside("sem_wait", m)' = Inside("sem_wait", m) /\ semVal'[m] = semVal[m] /\ semVal[m] \in Int
      BY <1>t, <2>5, <2>8
    <3> QED BY <1>c, <1>n, <2>8, <3>1
  <2>10. ASSUME NEW s \in SO, s \in soLive PROVE soClk'[s] = soClk[s]
    BY <1>t, <2>4, <2>5, <2>10
  <2>11. ASSUME NEW v \in semPosts'[m] PROVE Kept(m, v)'
    <3>1. CASE v = clk[t]
      <4>1. soClk'[so] = clk[t] /\ so \in StackSOs(m)'
        BY <1>t, <2>4, <2>5, <2>7
      <4> QED BY <3>1, <4>1 DEF Kept
    <3>2. CASE v \in semPosts[m]
      <4>1. Kept(m, v)
        BY <2>5, <3>2 DEF SemInv, SemInvOf
      <4>2. CASE \E s \in StackSOs(m) : soClk[s] = v
        <5>1. PICK s \in StackSOs(m) : soClk[s] = v
          BY <4>2
        <5>2. s \in SO /\ s \in soLive
          BY <1>0, HeldAreSOs DEF Holding, HeldIsLive
        <5> QED BY <2>7, <2>10, <5>1, <5>2 DEF Kept
      <4>3. CASE \E w \in semWaiters[m] : clk[w] \in VTS /\ VTS__leq(v, clk[w])
        <5>1. PICK w \in semWaiters[m] : clk[w] \in VTS /\ VTS__leq(v, clk[w])
          BY <4>3
        <5>2. w \in Thr /\ v \in VTS
          BY <1>t, <3>2
        <5>3. clk'[w] \in VTS /\ VTS__leq(clk[w], clk'[w])
          BY <5>1, <5>2 DEF Onward
        <5>4. VTS__leq(v, clk'[w])
          BY <5>1, <5>2, <5>3, LeqTrans
        <5> QED BY <2>5, <5>1, <5>3, <5>4 DEF Kept
      <4> QED BY <4>1, <4>2, <4>3 DEF Kept
    <3> QED BY <1>t, <2>5, <3>1, <3>2
  <2>12. SemInvOf(m)'
    <3>1. SemInvOf(m) /\ SemCount(m) \in Int
      BY <1>n, <1>t DEF SemInv, SemCount
    <3>2. Len(semStack'[m]) = Len(semStack[m]) + 1 /\ semVal'[m] = semVal[m]
      BY <2>5, <2>7
    <3> QED BY <1>0, <1>l, <1>t, <2>5, <2>9, <2>11, <3>1, <3>2 DEF SemInvOf
  <2>13. ASSUME NEW n \in Sem \ {m}, NEW s \in StackSOs(n) PROVE soClk'[s] = soClk[s]
    BY <1>o, <2>10, <2>13
  <2> QED BY <1>s, <1>t, <2>5, <2>8, <2>12, <2>13
<1>3. ASSUME NEW t \in Thr, RealPost(t) PROVE SemInv'
  <2>1. PICK m : m = pc[t].m
    OBVIOUS
  <2>2. m \in Sem /\ pc[t].op = "sem_post"
    BY <1>3, <1>t, <2>1, PcFields DEF RealPost, In
  <2>3. /\ semVal' = [semVal EXCEPT ![m] = @ + 1] /\ Goto(t, Idle)
        /\ UNCHANGED <<soClk, semStack, semPosts, semWaiters>>
    BY <1>3, <2>1 DEF RealPost, clkVars
  <2>4. /\ Cardinality(Inside("sem_post", m)') = Cardinality(Inside("sem_post", m)) - 1
        /\ Cardinality(Inside("sem_post", m)) >= 1
        /\ \A o, n : o # "idle" /\ (o # "sem_post" \/ n # m) => Inside(o, n)' = Inside(o, n)
    BY <1>0, <2>1, <2>2, <2>3, InsideLeave
  <2>5. semVal[m] >= 0
    <3>1. Inside("sem_post", m) # {}
      BY <2>1, <2>2 DEF Inside
    <3> QED BY <1>t, <2>2, <3>1 DEF SemInv, SemInvOf
  <2>6. SemCount(m)' = SemCount(m) /\ semVal'[m] = semVal[m] + 1
    <3>1. /\ Inside("sem_wait", m)' = Inside("sem_wait", m)
          /\ semVal'[m] = semVal[m] + 1 /\ semVal[m] \in Int
      BY <1>t, <2>2, <2>3, <2>4
    <3> QED BY <1>c, <1>n, <2>4, <3>1
  <2>7. StackSOs(m)' = StackSOs(m)
    BY <2>3 DEF StackSOs
  <2>8. ASSUME NEW v \in semPosts'[m] PROVE Kept(m, v)'
    <3>1. Kept(m, v) /\ v \in VTS
      BY <1>t, <2>2, <2>3, <2>5 DEF SemInv, SemInvOf
    <3> QED BY <1>0, <2>2, <2>3, <2>7, <3>1, KeptSame
  <2>9. SemInvOf(m)'
    BY <1>0, <1>t, <2>2, <2>3, <2>5, <2>6, <2>8 DEF SemInv, SemInvOf
  <2> QED BY <1>s, <1>t, <2>2, <2>3, <2>4, <2>9
<1>4. ASSUME NEW t \in Thr, NEW m \in Sem, RealWait(t, m) PROVE SemInv'
  <2>3. /\ semVal' = [semVal EXCEPT ![m] = @ - 1] /\ Goto(t, [op |-> "sem_wait", m |-> m])
        /\ UNCHANGED <<soClk, semStack, semPosts, semWaiters>>
        /\ pc[t].op = "idle" /\ semVal[m] > 0
    BY <1>4, <1>i DEF RealWait, clkVars, Ready
  <2>4. /\ Cardinality(Inside("sem_wait", m)') = Cardinality(Inside("sem_wait", m)) + 1
        /\ \A o, n : o # "idle" /\ (o # "sem_wait" \/ n # m) => Inside(o, n)' = Inside(o, n)
    BY <1>0, <2>3, InsideEnter
  <2>6. SemCount(m)' = SemCount(m) /\ semVal'[m] = semVal[m] - 1
    <3>1. /\ Inside("sem_post", m)' = Inside("sem_post", m)
          /\ semVal'[m] = semVal[m] - 1 /\ semVal[m] \in Int
      BY <1>t, <2>3, <2>4
    <3> QED BY <1>c, <1>n, <2>4, <3>1
  <2>7. StackSOs(m)' = StackSOs(m)
    BY <2>3 DEF StackSOs
  <2>8. ASSUME NEW v \in semPosts'[m] PROVE Kept(m, v)'
    <3>0. semVal[m] >= 0
      BY <1>t, <2>3
    <3>1. Kept(m, v) /\ v \in VTS
      BY <1>t, <2>3, <3>0 DEF SemInv, SemInvOf
    <3> QED BY <1>0, <2>3, <2>7, <3>1, KeptSame
  <2>9. SemInvOf(m)'
    BY <1>0, <1>t, <2>3, <2>6, <2>8 DEF SemInv, SemInvOf
  <2> QED BY <1>s, <1>t, <2>3, <2>4, <2>9
<1>5. ASSUME NEW t \in Thr, evh__HG_POSIX_SEM_WAIT_POST(t) PROVE SemInv'
  <2>1. PICK m : m = pc[t].m
    OBVIOUS
  <2>2. m \in Sem /\ pc[t].op = "sem_wait" /\ clk[t] \in VTS
    <3>1. life[t] = "running" /\ pc[t].op = "sem_wait"
      BY <1>5 DEF evh__HG_POSIX_SEM_WAIT_POST, In, Alive
    <3> QED BY <1>0, <1>t, <2>1, <3>1, PcFields, RunningClock
  <2>3. /\ semWaiters' = [semWaiters EXCEPT ![m] = @ \cup {t}] /\ Goto(t, Idle)
        /\ UNCHANGED <<semVal, semPosts>>
    BY <1>5, <2>1 DEF evh__HG_POSIX_SEM_WAIT_POST
  <2>4. /\ Cardinality(Inside("sem_wait", m)') = Cardinality(Inside("sem_wait", m)) - 1
        /\ Cardinality(Inside("sem_wait", m)) >= 1
        /\ \A o, n : o # "idle" /\ (o # "sem_wait" \/ n # m) => Inside(o, n)' = Inside(o, n)
    BY <1>0, <2>1, <2>2, <2>3, InsideLeave
  <2>5. semVal[m] >= 0
    <3>1. Inside("sem_wait", m) # {}
      BY <2>1, <2>2 DEF Inside
    <3> QED BY <1>t, <2>2, <3>1 DEF SemInv, SemInvOf
  <2>6. SemCount(m)' = SemCount(m) - 1 /\ SemCount(m) >= 1 /\ SemCount(m) \in Int
    <3>1. /\ Inside("sem_post", m)' = Inside("sem_post", m)
          /\ semVal'[m] = semVal[m] /\ semVal[m] \in Int
      BY <1>t, <2>2, <2>3, <2>4
    <3> QED BY <1>c, <1>n, <2>4, <2>5, <3>1
  <2>7. SemInvOf(m)
    BY <2>2 DEF SemInv
  <2>8. CASE semStack[m] = <<>>
    <3>1. UNCHANGED <<clk, soClk, semStack>>
      BY <1>5, <2>1, <2>8 DEF evh__HG_POSIX_SEM_WAIT_POST
    <3>2. StackSOs(m)' = StackSOs(m)
      BY <3>1 DEF StackSOs
    <3>3. ASSUME NEW v \in semPosts'[m] PROVE Kept(m, v)'
      <4>1. Kept(m, v) /\ v \in VTS
        BY <1>t, <2>2, <2>3, <2>5, <2>7 DEF SemInvOf
      <4>2. semWaiters[m] \subseteq semWaiters'[m]
        BY <1>t, <2>2, <2>3
      <4> QED BY <1>0, <2>2, <3>1, <3>2, <4>1, <4>2, KeptSame
    <3>4. Len(semStack[m]) = 0
      BY <2>8
    <3>5. SemInvOf(m)'
      BY <1>0, <1>t, <2>2, <2>3, <2>5, <2>6, <2>7, <3>1, <3>3, <3>4 DEF SemInvOf
    <3> QED BY <1>s, <1>t, <2>2, <2>3, <2>4, <3>1, <3>5
  <2>9. CASE semStack[m] # <<>>
    <3>1. PICK so : so = semStack[m][Len(semStack[m])]
      OBVIOUS
    <3>2. PICK st : st = SubSeq(semStack[m], 1, Len(semStack[m]) - 1)
      OBVIOUS
    <3>3. /\ clk' = [clk EXCEPT ![t] = VTS__join(@, soClk[so])]
          /\ soClk' = [soClk EXCEPT ![so] = NoVTS]
          /\ semStack' = [semStack EXCEPT ![m] = st]
      BY <1>5, <2>1, <2>9, <3>1, <3>2 DEF evh__HG_POSIX_SEM_WAIT_POST, mb_pop_SO_for_sem
    <3>4. IsFront(st, semStack[m]) /\ semStack[m] \in Seq(SO) /\ OneToOne(semStack[m])
      BY <1>0, <1>t, <2>2, <3>2 DEF IsFront, Holding, HeldOnce
    <3>5. /\ Len(st) = Len(semStack[m]) - 1 /\ Range(semStack[m]) = Range(st) \cup {so}
          /\ so \notin Range(st) /\ so \in Range(semStack[m])
      BY <2>9, <3>1, <3>4, FrontFacts
    <3>6. StackSOs(m) = Range(semStack[m]) /\ StackSOs(m) \subseteq SO
      BY <1>0, <2>2, HeldAreSOs
    <3>7. semStack'[m] = st /\ StackSOs(m)' = Range(st)
      BY <1>t, <2>2, <3>3 DEF StackSOs, Range
    <3>8. \A s \in SO \ {so} : soClk'[s] = soClk[s]
      BY <1>t, <3>3, <3>5, <3>6
    <3>9. soClk[so] \in VTS
      BY <1>0, <2>2, <3>5, <3>6 DEF Stamped
    <3>10. clk'[t] \in VTS /\ VTS__leq(soClk[so], clk'[t])
      <4>1. clk'[t] = VTS__join(clk[t], soClk[so])
        BY <1>0, <3>3 DEF Typed, ClocksTypeOK
      <4> QED BY <2>2, <3>9, <4>1, JoinLemma
    <3>11. ASSUME NEW v \in semPosts'[m] PROVE Kept(m, v)'
      <4>1. Kept(m, v) /\ v \in VTS
        BY <1>t, <2>2, <2>3, <2>5, <2>7 DEF SemInvOf
      <4>2. semWaiters'[m] = semWaiters[m] \cup {t}
        BY <1>t, <2>2, <2>3
      <4>3. CASE soClk[so] = v
        BY <3>10, <4>2, <4>3 DEF Kept
      <4>4. CASE \E s \in StackSOs(m) \ {so} : soClk[s] = v
        <5>1. PICK s \in StackSOs(m) \ {so} : soClk[s] = v
          BY <4>4
        <5>2. s \in StackSOs(m)' /\ soClk'[s] = v
          BY <3>5, <3>6, <3>7, <3>8, <5>1
        <5> QED BY <5>2 DEF Kept
      <4>5. CASE \E w \in semWaiters[m] : clk[w] \in VTS /\ VTS__leq(v, clk[w])
        <5>1. PICK w \in semWaiters[m] : clk[w] \in VTS /\ VTS__leq(v, clk[w])
          BY <4>5
        <5>2. w \in Thr
          BY <1>t, <2>2
        <5>3. clk'[w] \in VTS /\ VTS__leq(clk[w], clk'[w])
          BY <5>1, <5>2 DEF Onward
        <5>4. VTS__leq(v, clk'[w])
          BY <4>1, <5>1, <5>3, LeqTrans
        <5> QED BY <4>2, <5>1, <5>3, <5>4 DEF Kept
      <4> QED BY <4>1, <4>3, <4>4, <4>5 DEF Kept
    <3>12. SemInvOf(m)'
      <4>1. Len(semStack'[m]) = Len(semStack[m]) - 1 /\ semVal'[m] = semVal[m]
        BY <2>3, <3>5, <3>7
      <4> QED BY <1>0, <1>l, <1>t, <2>2, <2>5, <2>6, <2>7, <3>11, <4>1 DEF SemInvOf
    <3>13. ASSUME NEW n \in Sem \ {m}, NEW s \in StackSOs(n) PROVE soClk'[s] = soClk[s]
      <4>1. s # so /\ s \in SO
        BY <1>o, <2>2, <3>5, <3>6, <3>13
      <4> QED BY <3>8, <4>1
    <3> QED BY <1>s, <1>t, <2>2, <2>3, <2>4, <3>3, <3>12, <3>13
  <2> QED BY <2>8, <2>9
<1>6. ASSUME NEW t \in Thr, NEW m \in Sem, evh__HG_POSIX_SEM_DESTROY_PRE(t, m) PROVE SemInv'
  <2>1. /\ semVal' = [semVal EXCEPT ![m] = -1] /\ semStack' = [semStack EXCEPT ![m] = <<>>]
        /\ soClk' = [s \in SO |-> IF s \in StackSOs(m) THEN NoVTS ELSE soClk[s]]
        /\ Quiet(m) /\ UNCHANGED <<pc, semPosts, semWaiters>>
    BY <1>6 DEF evh__HG_POSIX_SEM_DESTROY_PRE
  <2>2. Inside("sem_post", m)' = {} /\ Inside("sem_wait", m)' = {}
        /\ \A n \in Sem : Inside("sem_post", n)' = Inside("sem_post", n)
                          /\ Inside("sem_wait", n)' = Inside("sem_wait", n)
    BY <2>1, QuietInside, InsideSame
  <2>3. semVal'[m] = -1
    BY <1>t, <2>1
  <2>4. SemInvOf(m)'
    BY <2>2, <2>3 DEF SemInvOf
  <2>5. ASSUME NEW n \in Sem \ {m}, NEW s \in StackSOs(n) PROVE soClk'[s] = soClk[s]
    BY <1>o, <2>1, <2>5
  <2> QED BY <1>s, <1>t, <2>1, <2>2, <2>4, <2>5
<1>7. CASE SemStep
  BY <1>1, <1>2, <1>3, <1>4, <1>5, <1>6, <1>7 DEF SemStep, SemNext
<1>8. CASE ~SemStep
  BY <1>8, OtherSteps
<1> QED BY <1>7, <1>8

LEMMA SemAlways == Spec => []SemInv
<1>1. Init => SemInv
  <2> SUFFICES ASSUME Init, NEW m \in Sem PROVE SemInvOf(m)
    BY DEF SemInv
  <2>1. semVal[m] = -1 /\ \A t \in Thr : pc[t].op = "idle"
    BY DEF Init, SemInit, ThreadsInit, Idle
  <2> QED BY <2>1 DEF SemInvOf, Inside
<1>2. Base /\ SemInv /\ [Next]_vars => SemInv'
  BY BaseStep, SemInvStep
<1> QED BY <1>1, <1>2, BaseAlways, PTL DEF Spec

\* Semaphores: the stack of SOs is exact.
THEOREM StacksAreExact == Spec => []SemStackExact
<1>1. SemInv => SemStackExact
  BY DEF SemInv, SemInvOf, SemCount, SemStackExact
<1> QED BY <1>1, SemAlways, PTL

\* A thread that has used up all the posts is ordered after all of them.
THEOREM SoleWaiterIsOrdered == Spec => []SoleWaiterSeesAllPosts
<1>1. Base /\ SemInv => SoleWaiterSeesAllPosts
  <2> SUFFICES ASSUME Base, SemInv, NEW m \in Sem, NEW t \in Thr, semVal[m] = 0, Quiet(m),
                      semWaiters[m] = {t}, NEW v \in semPosts[m]
               PROVE  VTS__leq(v, clk[t])
    BY DEF SoleWaiterSeesAllPosts
  <2>1. SemInvOf(m) /\ Kept(m, v)
    BY DEF SemInv, SemInvOf
  <2>2. SemCount(m) = 0
    <3>1. Cardinality({}) = 0
      BY FS_EmptySet
    <3> QED BY <3>1, QuietInside DEF SemCount
  <2>3. semStack[m] \in Seq(SO) /\ Len(semStack[m]) \in Nat
    BY SeqFacts DEF Base, Typed, SemTyped
  <2>4. Len(semStack[m]) = 0
    BY <2>1, <2>2, <2>3 DEF SemInvOf
  <2>5. StackSOs(m) = {}
    BY <2>3, <2>4 DEF StackSOs
  <2> QED BY <2>1, <2>5 DEF Kept
<1> QED BY <1>1, SemAlways, BaseAlways, PTL


----------------------------------------------------------------------------
(* Condition variables *)

WaitOps == {"condPre", "condIn", "condWoken", "condBack"}

\* What a signal sent is in the cond's SO until all the waiters are woken, and
\* a waiter is woken by a signal unless the wait ended for no reason.
WakeInv(t) ==
  /\ pc[t].op = "signal" => sent[pc[t].c] \in VTS /\ VTS__leq(pc[t].at, sent[pc[t].c])
  /\ pc[t].op \in {"condWoken", "condBack"} /\ pc[t].by # NoVTS /\ "earlyDestroy" \notin hit
     => sent[pc[t].c] \in VTS /\ VTS__leq(pc[t].by, sent[pc[t].c])
  /\ pc[t].op \in {"condWoken", "condBack"} /\ ~pc[t].timed /\ pc[t].by = NoVTS => "spurious" \in hit

\* The detector knows whether the thread is in a waiting loop, and the conds
\* it has noted go with one mutex each.
LoopInv(t) ==
  /\ "stray" \notin hit /\ loop[t] = "out" => ~lsd[t].in_waiting_loop
  /\ "twoMutexes" \notin hit /\ pc[t].op \in WaitOps /\ lsd[t].in_waiting_loop
     => ~OtherMutex(lsd[t].cvlist \cup {lsd[t].expect}, pc[t].c, pc[t].m)
  /\ "twoMutexes" \notin hit /\ loop[t] # "out"
     => ~OtherMutex(lsd[t].cvlist, lsd[t].expect[1], lsd[t].expect[2])

\* The detector knows which threads wait, and the tool which mutexes are held.
WaitInv(t) ==
  hit \cap {"bogusWait", "waitFails"} = {} =>
    /\ lsd[t].waiting <=> pc[t].op \in WaitOps
    /\ \A m \in Mutex : owner[m] = t =>
         m \in locksetA[t] \/ (pc[t].op \in {"condPre", "condBack"} /\ pc[t].m = m)

SentIsKnown == \A c \in Cond : sent[c] # NoVTS => c \in condVars

CondInv == SentIsKnown /\ \A t \in Thr : WakeInv(t) /\ LoopInv(t) /\ WaitInv(t)

PcCondSame(t) == pc'[t] = pc[t] \/ (pc[t].op \notin CondOps /\ pc'[t].op \notin CondOps)
SentOnward(c) == sent[c] \in VTS => sent'[c] \in VTS /\ VTS__leq(sent[c], sent'[c])

LEMMA WakeSame ==
  ASSUME Base, NEW t \in Thr, WakeInv(t), hit \subseteq hit', PcCondSame(t),
         pc[t].op \in CondOps =>
           SentOnward(pc[t].c) \/ ("earlyDestroy" \in hit' /\ pc[t].op # "signal")
                               \/ pc[t].op \notin {"signal", "condWoken", "condBack"}
  PROVE  WakeInv(t)'
<1>0. pc[t] \in PC
  BY DEF Base, Typed, PcTyped
<1>1. CASE pc'[t] = pc[t] /\ pc[t].op \in CondOps
  <2>1. ASSUME pc[t].op = "signal"
        PROVE  sent'[pc[t].c] \in VTS /\ VTS__leq(pc[t].at, sent'[pc[t].c])
    <3>1. sent[pc[t].c] \in VTS /\ VTS__leq(pc[t].at, sent[pc[t].c]) /\ pc[t].at \in VTS
      BY <1>0, <2>1, PcFields DEF WakeInv
    <3>2. sent'[pc[t].c] \in VTS /\ VTS__leq(sent[pc[t].c], sent'[pc[t].c])
      BY <1>1, <2>1, <3>1 DEF SentOnward
    <3> QED BY <3>1, <3>2, LeqTrans
  <2>2. ASSUME pc[t].op \in {"condWoken", "condBack"}, pc[t].by # NoVTS, "earlyDestroy" \notin hit'
        PROVE  sent'[pc[t].c] \in VTS /\ VTS__leq(pc[t].by, sent'[pc[t].c])
    <3>1. sent[pc[t].c] \in VTS /\ VTS__leq(pc[t].by, sent[pc[t].c]) /\ pc[t].by \in VTS
      BY <1>0, <2>2, PcFields DEF WakeInv, MaybeVTS
    <3>2. sent'[pc[t].c] \in VTS /\ VTS__leq(sent[pc[t].c], sent'[pc[t].c])
      BY <1>1, <2>2, <3>1 DEF SentOnward
    <3> QED BY <3>1, <3>2, LeqTrans
  <2> QED BY <1>1, <2>1, <2>2 DEF WakeInv
<1>2. CASE pc'[t].op \notin CondOps
  BY <1>2 DEF WakeInv, CondOps
<1> QED BY <1>1, <1>2 DEF PcCondSame

LsdSame(t) ==
  /\ (lsd'[t].waiting <=> lsd[t].waiting) /\ (lsd'[t].in_waiting_loop <=> lsd[t].in_waiting_loop)
  /\ lsd'[t].cvlist = lsd[t].cvlist /\ lsd'[t].expect = lsd[t].expect

LEMMA LoopSame ==
  ASSUME NEW t \in Thr, LoopInv(t), hit \subseteq hit', LsdSame(t), loop'[t] = loop[t],
         pc'[t].op \in WaitOps => pc[t].op \in WaitOps /\ pc'[t].c = pc[t].c /\ pc'[t].m = pc[t].m
  PROVE  LoopInv(t)'
<1>1. "stray" \notin hit' /\ loop'[t] = "out" => ~lsd'[t].in_waiting_loop
  BY DEF LoopInv, LsdSame
<1>2. "twoMutexes" \notin hit' /\ pc'[t].op \in WaitOps /\ lsd'[t].in_waiting_loop
     => ~OtherMutex(lsd'[t].cvlist \cup {lsd'[t].expect}, pc'[t].c, pc'[t].m)
  BY DEF LoopInv, LsdSame
<1>3. "twoMutexes" \notin hit' /\ loop'[t] # "out"
     => ~OtherMutex(lsd'[t].cvlist, lsd'[t].expect[1], lsd'[t].expect[2])
  BY DEF LoopInv, LsdSame
<1> QED BY <1>1, <1>2, <1>3 DEF LoopInv, OtherMutex

LEMMA WaitSame ==
  ASSUME NEW t \in Thr, WaitInv(t), hit \subseteq hit', (lsd'[t].waiting <=> lsd[t].waiting),
         (pc'[t].op \in WaitOps <=> pc[t].op \in WaitOps),
         pc[t].op \in {"condPre", "condBack"} =>
           pc'[t].op \in {"condPre", "condBack"} /\ pc'[t].m = pc[t].m,
         locksetA[t] \subseteq locksetA'[t],
         \A m \in Mutex : owner'[m] = t => owner[m] = t
  PROVE  WaitInv(t)'
<1> SUFFICES ASSUME hit' \cap {"bogusWait", "waitFails"} = {}
             PROVE  /\ (lsd'[t].waiting <=> pc'[t].op \in WaitOps)
                    /\ \A m \in Mutex : owner'[m] = t =>
                         m \in locksetA'[t] \/ (pc'[t].op \in {"condPre", "condBack"} /\ pc'[t].m = m)
  BY DEF WaitInv
<1>1. hit \cap {"bogusWait", "waitFails"} = {}
  OBVIOUS
<1>2. /\ (lsd[t].waiting <=> pc[t].op \in WaitOps)
      /\ \A m \in Mutex : owner[m] = t =>
           m \in locksetA[t] \/ (pc[t].op \in {"condPre", "condBack"} /\ pc[t].m = m)
  BY <1>1 DEF WaitInv
<1> QED BY <1>2

\* Most steps leave alone what the invariants are about.
LEMMA CondSame ==
  ASSUME Base, hit \subseteq hit', NEW t \in Thr, WakeInv(t), LoopInv(t), WaitInv(t), PcCondSame(t),
         LsdSame(t), loop'[t] = loop[t], locksetA[t] \subseteq locksetA'[t],
         \A m \in Mutex : owner'[m] = t => owner[m] = t,
         \A c \in Cond : SentOnward(c)
  PROVE  WakeInv(t)' /\ LoopInv(t)' /\ WaitInv(t)'
<1>1. pc[t] \in PC
  BY DEF Base, Typed, PcTyped
<1>2. pc[t].op \in CondOps => pc[t].c \in Cond
  BY <1>1, PcFields DEF CondOps
<1>3. WakeInv(t)'
  BY <1>2, WakeSame
<1>4. LoopInv(t)'
  BY LoopSame DEF PcCondSame, CondOps, WaitOps
<1>5. WaitInv(t)'
  BY WaitSame DEF LsdSame, PcCondSame, CondOps, WaitOps
<1> QED BY <1>3, <1>4, <1>5

LEMMA CondOtherSteps ==
  ASSUME Base, [Next]_vars, ~CondStep, CondInv
  PROVE  CondInv'
<1>0. Typed /\ hit \subseteq hit'
  BY HitGrows DEF Base
<1>1. UNCHANGED <<lsdLevel, condSO, condVars, recorded, lsd, loop, owner, sent>>
  BY FourKinds DEF ThreadsStep, SemStep, BarrierStep, vars, condVarsAll
<1>2. UNCHANGED locksetA
  <2>1. CASE ThreadsStep
    BY <2>1 DEF ThreadsStep, ThreadsNext, evh__pre_thread_ll_create, set_my_pthread_t, CreateReturns,
      evh__HG_PTHREAD_JOIN_POST, evh__pre_thread_ll_exit, JoinReturns
  <2>2. CASE SemStep
    BY <2>2 DEF SemStep, SemNext, evh__HG_POSIX_SEM_INIT_POST, evh__HG_POSIX_SEM_POST_PRE, RealPost,
                RealWait, evh__HG_POSIX_SEM_WAIT_POST, evh__HG_POSIX_SEM_DESTROY_PRE
  <2>3. CASE BarrierStep
    BY <2>3 DEF BarrierStep, BarrierNext, evh__HG_PTHREAD_BARRIER_INIT_PRE,
      evh__HG_OMP_BARRIER_REINIT_PRE, evh__HG_PTHREAD_BARRIER_DESTROY_PRE,
      evh__HG_PTHREAD_BARRIER_WAIT_PRE, Arrive
  <2> QED BY <2>1, <2>2, <2>3, FourKinds DEF vars
<1>3. \A t \in Thr : PcCondSame(t)
  <2>1. Within(ThreadOps) \/ Within(BarOps) \/ Within(SemOps) \/ UNCHANGED pc
    BY <1>0, PcKinds, FourKinds DEF vars
  <2> QED BY <2>1 DEF Within, ThreadOps, BarOps, CondOps, SemOps, PcCondSame
<1>4. \A c \in Cond : SentOnward(c)
  BY <1>1, LeqRefl DEF SentOnward
<1>5. \A t \in Thr : LsdSame(t)
  BY <1>1 DEF LsdSame
<1>6. \A t \in Thr : WakeInv(t)' /\ LoopInv(t)' /\ WaitInv(t)'
  <2> SUFFICES ASSUME NEW t \in Thr PROVE WakeInv(t)' /\ LoopInv(t)' /\ WaitInv(t)'
    OBVIOUS
  <2>1. WakeInv(t) /\ LoopInv(t) /\ WaitInv(t)
    BY DEF CondInv
  <2>2. PcCondSame(t) /\ LsdSame(t) /\ loop'[t] = loop[t] /\ locksetA[t] \subseteq locksetA'[t]
        /\ \A m \in Mutex : owner'[m] = t => owner[m] = t
    BY <1>1, <1>2, <1>3, <1>5
  <2> QED BY <1>0, <1>4, <2>1, <2>2, CondSame
<1> QED BY <1>1, <1>6 DEF CondInv, SentIsKnown

LEMMA CondInvStep == Base /\ CondInv /\ [Next]_vars => CondInv'
<1> SUFFICES ASSUME Base, CondInv, [Next]_vars PROVE CondInv'
  OBVIOUS
<1>0. Typed /\ Holding /\ Stamped /\ hit \subseteq hit'
  BY HitGrows DEF Base
<1>t. /\ pc \in [Thr -> PC] /\ lsd \in [Thr -> ThrLSD] /\ loop \in [Thr -> {"out", "test", "body"}]
      /\ locksetA \in [Thr -> SUBSET Mutex] /\ owner \in [Mutex -> Thr \cup {NoThr}]
      /\ sent \in [Cond -> MaybeVTS]
      /\ \A t \in Thr : Fit(lsd[t])
  BY <1>0 DEF Typed, PcTyped, LsdTyped, ThreadsTyped, CondTyped, Fit
<1>h. \A t \in Thr : WakeInv(t) /\ LoopInv(t) /\ WaitInv(t)
  BY DEF CondInv
<1>i. Idle.op = "idle"
  BY DEF Idle
<1>f. \A t \in Thr : NoThr # t
  BY ThreadsAssumption
<1>k. ASSUME UNCHANGED sent PROVE \A c \in Cond : SentOnward(c)
  BY <1>k, LeqRefl DEF SentOnward
\* One thread moves and the cond's SOs do not lose anything.
<1>o. ASSUME NEW t \in Thr,
             \A u \in Thr \ {t} : /\ pc'[u] = pc[u] /\ lsd'[u] = lsd[u] /\ loop'[u] = loop[u]
                                  /\ locksetA'[u] = locksetA[u],
             \A u \in Thr \ {t}, m \in Mutex : owner'[m] = u => owner[m] = u,
             \A c \in Cond : SentOnward(c), SentIsKnown',
             WakeInv(t)', LoopInv(t)', WaitInv(t)'
      PROVE  CondInv'
  <2>1. ASSUME NEW u \in Thr \ {t} PROVE WakeInv(u)' /\ LoopInv(u)' /\ WaitInv(u)'
    <3>1. PcCondSame(u) /\ LsdSame(u) /\ loop'[u] = loop[u] /\ locksetA[u] \subseteq locksetA'[u]
      BY <1>o, <2>1 DEF PcCondSame, LsdSame
    <3> QED BY <1>0, <1>h, <1>o, <2>1, <3>1, CondSame
  <2> QED BY <1>o, <2>1 DEF CondInv
\* The same, when nothing is sent and the detector sees nothing.
<1>q. ASSUME NEW t \in Thr, NEW p, Goto(t, p), UNCHANGED <<sent, condVars, lsd, loop, locksetA>>,
             \A u \in Thr \ {t}, m \in Mutex : owner'[m] = u => owner[m] = u,
             p.op \in WaitOps => pc[t].op \in WaitOps /\ p.c = pc[t].c /\ p.m = pc[t].m,
             pc'[t] = p => WakeInv(t)' /\ WaitInv(t)'
      PROVE  CondInv'
  <2>1. pc'[t] = p /\ \A u \in Thr \ {t} : pc'[u] = pc[u]
    BY <1>t, <1>q DEF Goto
  <2>2. LoopInv(t)'
    BY <1>0, <1>h, <1>q, <2>1, LoopSame DEF LsdSame
  <2>3. SentIsKnown'
    BY <1>q DEF CondInv, SentIsKnown
  <2> QED BY <1>k, <1>o, <1>q, <2>1, <2>2, <2>3
\* The same, when the thread stays where it is.
<1>r. ASSUME NEW t \in Thr, NEW n, lsd' = [lsd EXCEPT ![t] = n], UNCHANGED <<pc, sent, condVars>>,
             \A u \in Thr \ {t} : loop'[u] = loop[u] /\ locksetA'[u] = locksetA[u],
             \A u \in Thr \ {t}, m \in Mutex : owner'[m] = u => owner[m] = u,
             lsd'[t] = n => LoopInv(t)' /\ WaitInv(t)'
      PROVE  CondInv'
  <2>1. lsd'[t] = n /\ \A u \in Thr \ {t} : lsd'[u] = lsd[u]
    BY <1>t, <1>r
  <2>2. \A c \in Cond : SentOnward(c)
    BY <1>k, <1>r
  <2>3. SentIsKnown'
    BY <1>r DEF CondInv, SentIsKnown
  <2>4. WakeInv(t)'
    <3>1. pc[t].op \in CondOps => pc[t].c \in Cond
      BY <1>t, PcFields DEF CondOps
    <3> QED BY <1>0, <1>h, <1>r, <2>2, <3>1, WakeSame DEF PcCondSame
  <2> QED BY <1>o, <1>r, <2>1, <2>2, <2>3, <2>4
<1>1. ASSUME NEW t \in Thr, NEW m \in Mutex, MutexLock(t, m) PROVE CondInv'
  <2>1. PICK n : n = hg_lsd__mutex_lock(lsd[t])
    OBVIOUS
  <2>2. /\ lsd' = [lsd EXCEPT ![t] = n] /\ UNCHANGED <<pc, sent, condVars, loop, hit>>
        /\ locksetA' = [locksetA EXCEPT ![t] = @ \cup {m}] /\ owner' = [owner EXCEPT ![m] = t]
    BY <1>1, <2>1 DEF MutexLock
  <2>3. /\ (n.waiting <=> lsd[t].waiting) /\ (n.in_waiting_loop <=> lsd[t].in_waiting_loop)
        /\ n.cvlist = lsd[t].cvlist /\ n.expect = lsd[t].expect
    BY <1>t, <2>1, LockFacts
  <2>4. ASSUME lsd'[t] = n PROVE LoopInv(t)'
    BY <1>0, <1>h, <2>2, <2>3, <2>4, LoopSame DEF LsdSame
  <2>5. ASSUME lsd'[t] = n PROVE WaitInv(t)'
    <3>1. locksetA'[t] = locksetA[t] \cup {m} /\ \A k \in Mutex \ {m} : owner'[k] = owner[k]
      BY <1>t, <2>2
    <3> QED BY <1>h, <2>2, <2>3, <2>5, <3>1 DEF WaitInv
  <2>6. \A u \in Thr \ {t} : loop'[u] = loop[u] /\ locksetA'[u] = locksetA[u]
    BY <1>t, <2>2
  <2>7. \A u \in Thr \ {t}, k \in Mutex : owner'[k] = u => owner[k] = u
    BY <1>t, <2>2
  <2> QED BY <1>r, <2>2, <2>4, <2>5, <2>6, <2>7
<1>2. ASSUME NEW t \in Thr, NEW m \in Mutex, MutexUnlock(t, m) PROVE CondInv'
  <2>1. PICK n : n = IF m \in locksetA[t] THEN hg_lsd__mutex_unlock(lsd[t]) ELSE lsd[t]
    OBVIOUS
  <2>2. /\ UNCHANGED <<pc, sent, condVars, loop, hit>>
        /\ locksetA' = [locksetA EXCEPT ![t] = @ \ {m}] /\ owner' = [owner EXCEPT ![m] = NoThr]
    BY <1>2 DEF MutexUnlock
  <2>2a. lsd' = [lsd EXCEPT ![t] = n]
    BY <1>2, <1>t, <2>1 DEF MutexUnlock
  <2>3. /\ (n.waiting <=> lsd[t].waiting) /\ (n.in_waiting_loop <=> lsd[t].in_waiting_loop)
        /\ n.cvlist = lsd[t].cvlist /\ n.expect = lsd[t].expect
    BY <1>t, <2>1, LockFacts
  <2>4. ASSUME lsd'[t] = n PROVE LoopInv(t)'
    BY <1>0, <1>h, <2>2, <2>3, <2>4, LoopSame DEF LsdSame
  <2>5. ASSUME lsd'[t] = n PROVE WaitInv(t)'
    <3>1. /\ locksetA'[t] = locksetA[t] \ {m} /\ \A k \in Mutex \ {m} : owner'[k] = owner[k]
          /\ owner'[m] # t
      BY <1>f, <1>t, <2>2
    <3> QED BY <1>h, <2>2, <2>3, <2>5, <3>1 DEF WaitInv
  <2>6. \A u \in Thr \ {t} : loop'[u] = loop[u] /\ locksetA'[u] = locksetA[u]
    BY <1>t, <2>2
  <2>7. \A u \in Thr \ {t}, k \in Mutex : owner'[k] = u => owner[k] = u
    BY <1>f, <1>t, <2>2
  <2> QED BY <1>r, <2>2, <2>2a, <2>4, <2>5, <2>6, <2>7
<1>3. ASSUME NEW t \in Thr, NEW v \in Var, NEW w \in BOOLEAN, Access(t, v, w) PROVE CondInv'
  <2>1. PICK x, y : x = alist_add(lsd[t].writes, v) /\ y = alist_add(lsd[t].reads, v)
    OBVIOUS
  <2>2. PICK n : n = IF w THEN [lsd[t] EXCEPT !.writes = x] ELSE [lsd[t] EXCEPT !.reads = y]
    OBVIOUS
  <2>3. lsd' = [lsd EXCEPT ![t] = n] /\ UNCHANGED <<pc, sent, condVars, loop, hit, locksetA, owner>>
    BY <1>3, <2>1, <2>2 DEF Access
  <2>4. /\ (n.waiting <=> lsd[t].waiting) /\ (n.in_waiting_loop <=> lsd[t].in_waiting_loop)
        /\ n.cvlist = lsd[t].cvlist /\ n.expect = lsd[t].expect
    BY <1>t, <2>2 DEF ThrLSD
  <2>5. ASSUME lsd'[t] = n PROVE LoopInv(t)'
    BY <1>0, <1>h, <2>3, <2>4, <2>5, LoopSame DEF LsdSame
  <2>6. ASSUME lsd'[t] = n PROVE WaitInv(t)'
    BY <1>0, <1>h, <2>3, <2>4, <2>6, WaitSame
  <2> QED BY <1>r, <2>3, <2>5, <2>6
<1>4. ASSUME NEW t \in Thr, NEW c \in Cond, NEW a \in BOOLEAN,
             evh__HG_PTHREAD_COND_SIGNAL_PRE(t, c, a) PROVE CondInv'
  <2>1. PICK p : p = [op |-> "signal", c |-> c, all |-> a, at |-> clk[t]]
    OBVIOUS
  <2>2. /\ Goto(t, p) /\ sent' = [sent EXCEPT ![c] = JoinMaybe(@, clk[t])]
        /\ condVars' = condVars \cup {c} /\ UNCHANGED <<locksetA, hit, loop, owner>>
        /\ pc[t].op = "idle" /\ life[t] = "running"
        /\ (UNCHANGED lsd \/ lsd' = [lsd EXCEPT ![t].writes = <<>>])
    BY <1>4, <1>i, <2>1 DEF evh__HG_PTHREAD_COND_SIGNAL_PRE, Ready, Alive
  <2>3. clk[t] \in VTS
    BY <1>0, <2>2, RunningClock
  <2>4. JoinMaybe(sent[c], clk[t]) \in VTS /\ VTS__leq(clk[t], JoinMaybe(sent[c], clk[t]))
        /\ (sent[c] \in VTS => VTS__leq(sent[c], JoinMaybe(sent[c], clk[t])))
    <3>1. CASE sent[c] = NoVTS
      BY <2>3, <3>1, NoVTSAssumption, LeqRefl DEF JoinMaybe
    <3>2. CASE sent[c] \in VTS
      BY <2>3, <3>2, NoVTSAssumption, JoinLemma DEF JoinMaybe
    <3> QED BY <1>t, <3>1, <3>2 DEF MaybeVTS
  <2>5. sent'[c] = JoinMaybe(sent[c], clk[t]) /\ \A d \in Cond \ {c} : sent'[d] = sent[d]
    BY <1>t, <2>2
  <2>6. \A d \in Cond : SentOnward(d)
    BY <2>4, <2>5, LeqRefl DEF SentOnward
  <2>7. SentIsKnown'
    BY <2>2, <2>5 DEF CondInv, SentIsKnown
  <2>8. pc'[t] = p /\ \A u \in Thr \ {t} : pc'[u] = pc[u] /\ lsd'[u] = lsd[u]
    BY <1>t, <2>2 DEF Goto
  <2>9. p.op = "signal" /\ p.c = c /\ p.at = clk[t]
    BY <2>1
  <2>10. WakeInv(t)'
    BY <2>4, <2>5, <2>8, <2>9 DEF WakeInv
  <2>11. LsdSame(t)
    <3>1. CASE UNCHANGED lsd
      BY <3>1 DEF LsdSame
    <3>2. CASE lsd' = [lsd EXCEPT ![t].writes = <<>>]
      <4>1. PICK n : n = [lsd[t] EXCEPT !.writes = <<>>]
        OBVIOUS
      <4>2. lsd' = [lsd EXCEPT ![t] = n]
        BY <1>t, <3>2, <4>1
      <4>3. lsd'[t] = n
        BY <1>t, <4>2
      <4>4. /\ (n.waiting <=> lsd[t].waiting) /\ (n.in_waiting_loop <=> lsd[t].in_waiting_loop)
            /\ n.cvlist = lsd[t].cvlist /\ n.expect = lsd[t].expect
        BY <1>t, <4>1 DEF ThrLSD
      <4> QED BY <4>3, <4>4 DEF LsdSame
    <3> QED BY <2>2, <3>1, <3>2
  <2>12. LoopInv(t)' /\ WaitInv(t)'
    BY <1>0, <1>h, <2>2, <2>8, <2>9, <2>11, LoopSame, WaitSame DEF LsdSame, WaitOps
  <2> QED BY <1>o, <2>2, <2>6, <2>7, <2>8, <2>10, <2>12
<1>5. ASSUME NEW t \in Thr, RealSignal(t) PROVE CondInv'
  <2>1. PICK c, at : c = pc[t].c /\ at = pc[t].at
    OBVIOUS
  <2>2. /\ pc[t].op = "signal" /\ UNCHANGED <<lsd, loop, owner, sent, condVars, locksetA, hit>>
        /\ \A u \in Thr : \/ u = t /\ pc'[u] = Idle
                          \/ pc'[u] = pc[u]
                          \/ u \in Blocked(c) /\ pc'[u] = Woken(u, at, FALSE)
    BY <1>5, <2>1 DEF RealSignal, In, condVarsAll
  <2>3. c \in Cond /\ at \in VTS /\ sent[c] \in VTS /\ VTS__leq(at, sent[c])
    BY <1>h, <1>t, <2>1, <2>2, PcFields DEF WakeInv
  <2>4. ASSUME NEW u \in Thr, u \in Blocked(c), pc'[u] = Woken(u, at, FALSE)
        PROVE  WakeInv(u)' /\ LoopInv(u)' /\ WaitInv(u)'
    <3>1. pc[u].op = "condIn" /\ pc[u].c = c
      BY <2>4 DEF Blocked
    <3>2. /\ pc'[u].op = "condWoken" /\ pc'[u].c = c /\ pc'[u].m = pc[u].m /\ pc'[u].by = at
          /\ ~pc'[u].timed
      BY <2>4, <3>1 DEF Woken
    <3>3. WakeInv(u)'
      BY <2>2, <2>3, <3>2, NoVTSAssumption DEF WakeInv
    <3>4. LoopInv(u)'
      BY <1>0, <1>h, <2>2, <3>1, <3>2, LoopSame DEF LsdSame, WaitOps
    <3>5. WaitInv(u)'
      BY <1>0, <1>h, <2>2, <3>1, <3>2, WaitSame DEF WaitOps
    <3> QED BY <3>3, <3>4, <3>5
  <2>5. ASSUME NEW u \in Thr, pc'[u] = pc[u]
        PROVE  WakeInv(u)' /\ LoopInv(u)' /\ WaitInv(u)'
    <3>1. PcCondSame(u) /\ LsdSame(u)
      BY <2>2, <2>5 DEF PcCondSame, LsdSame
    <3> QED BY <1>0, <1>h, <1>k, <2>2, <3>1, CondSame
  <2>6. ASSUME pc'[t] = Idle PROVE WakeInv(t)' /\ LoopInv(t)' /\ WaitInv(t)'
    <3>1. WakeInv(t)'
      BY <1>i, <2>6 DEF WakeInv
    <3> QED BY <1>0, <1>h, <1>i, <2>2, <2>6, <3>1, LoopSame, WaitSame DEF LsdSame, WaitOps
  <2>7. SentIsKnown'
    BY <2>2 DEF CondInv, SentIsKnown
  <2> QED BY <2>2, <2>4, <2>5, <2>6, <2>7 DEF CondInv
<1>6. ASSUME NEW t \in Thr, Block(t) PROVE CondInv'
  <2>1. PICK p : p = [pc[t] EXCEPT !.op = "condIn"]
    OBVIOUS
  <2>2. /\ pc[t].op = "condPre" /\ Goto(t, p) /\ UNCHANGED <<sent, condVars, lsd, loop, locksetA, hit>>
        /\ owner' = [owner EXCEPT ![pc[t].m] = NoThr]
    BY <1>6, <2>1 DEF Block, In, Goto
  <2>3. p.op = "condIn" /\ p.c = pc[t].c /\ p.m = pc[t].m /\ pc[t].m \in Mutex
    <3>1. p = [op |-> "condIn", c |-> pc[t].c, m |-> pc[t].m]
      BY <1>t, <2>1, <2>2, PcMoves
    <3>2. pc[t].m \in Mutex
      BY <1>t, <2>2, PcFields
    <3> QED BY <3>1, <3>2
  <2>4. ASSUME pc'[t] = p PROVE WakeInv(t)' /\ WaitInv(t)'
    <3>1. WakeInv(t)'
      BY <2>3, <2>4 DEF WakeInv
    <3>2. owner'[pc[t].m] # t /\ \A k \in Mutex \ {pc[t].m} : owner'[k] = owner[k]
      BY <1>f, <1>t, <2>2, <2>3
    <3>3. WaitInv(t)'
      BY <1>h, <2>2, <2>3, <2>4, <3>2 DEF WaitInv, WaitOps
    <3> QED BY <3>1, <3>3
  <2>5. \A u \in Thr \ {t}, k \in Mutex : owner'[k] = u => owner[k] = u
    BY <1>f, <1>t, <2>2, <2>3
  <2> QED BY <1>q, <2>2, <2>3, <2>4, <2>5 DEF WaitOps
<1>7. ASSUME NEW t \in Thr, WaitFails(t) PROVE CondInv'
  <2>1. Goto(t, Idle) /\ UNCHANGED <<sent, condVars, lsd, loop, locksetA, owner>> /\ "waitFails" \in hit'
    BY <1>7 DEF WaitFails, condVarsAll, Does, DoesAll
  <2>2. ASSUME pc'[t] = Idle PROVE WakeInv(t)' /\ WaitInv(t)'
    BY <1>i, <2>1, <2>2 DEF WakeInv, WaitInv
  <2> QED BY <1>i, <1>q, <2>1, <2>2 DEF WaitOps
<1>8. ASSUME NEW t \in Thr, Timeout(t) \/ Spurious(t) PROVE CondInv'
  <2>1. PICK p : (p = Woken(t, NoVTS, TRUE) /\ Timeout(t)) \/ (p = Woken(t, NoVTS, FALSE) /\ Spurious(t))
    <3>1. CASE Timeout(t)
      <4> WITNESS Woken(t, NoVTS, TRUE)
      <4> QED BY <3>1
    <3>2. CASE Spurious(t)
      <4> WITNESS Woken(t, NoVTS, FALSE)
      <4> QED BY <3>2
    <3> QED BY <1>8, <3>1, <3>2
  <2>2. /\ Goto(t, p) /\ UNCHANGED <<sent, condVars, lsd, loop, locksetA, owner>>
        /\ pc[t].op = "condIn"
    BY <2>1 DEF Timeout, Spurious, condVarsAll, In
  <2>3. /\ p.op = "condWoken" /\ p.c = pc[t].c /\ p.m = pc[t].m /\ p.by = NoVTS
        /\ ~p.timed => "spurious" \in hit'
    BY <2>1 DEF Woken, Spurious, Does, DoesAll
  <2>4. ASSUME pc'[t] = p PROVE WakeInv(t)' /\ WaitInv(t)'
    <3>1. WakeInv(t)'
      BY <2>3, <2>4 DEF WakeInv
    <3>2. WaitInv(t)'
      BY <1>0, <1>h, <2>2, <2>3, <2>4, WaitSame DEF WaitOps
    <3> QED BY <3>1, <3>2
  <2> QED BY <1>q, <2>2, <2>3, <2>4 DEF WaitOps
<1>9. ASSUME NEW t \in Thr, Reacquire(t) PROVE CondInv'
  <2>1. PICK p : p = [pc[t] EXCEPT !.op = "condBack"]
    OBVIOUS
  <2>2. /\ pc[t].op = "condWoken" /\ Goto(t, p) /\ UNCHANGED <<sent, condVars, lsd, loop, locksetA, hit>>
        /\ owner' = [owner EXCEPT ![pc[t].m] = t]
    BY <1>9, <2>1 DEF Reacquire, In, Goto
  <2>3. /\ p.op = "condBack" /\ p.c = pc[t].c /\ p.m = pc[t].m /\ p.by = pc[t].by
        /\ (p.timed <=> pc[t].timed) /\ pc[t].m \in Mutex
    <3>1. p = [op |-> "condBack", c |-> pc[t].c, m |-> pc[t].m, by |-> pc[t].by, timed |-> pc[t].timed]
      BY <1>t, <2>1, <2>2, PcMoves
    <3>2. pc[t].m \in Mutex
      BY <1>t, <2>2, PcFields
    <3> QED BY <3>1, <3>2
  <2>4. ASSUME pc'[t] = p PROVE WakeInv(t)' /\ WaitInv(t)'
    <3>1. WakeInv(t)'
      BY <1>h, <2>2, <2>3, <2>4 DEF WakeInv
    <3>2. \A k \in Mutex \ {pc[t].m} : owner'[k] = owner[k]
      BY <1>t, <2>2, <2>3
    <3>3. WaitInv(t)'
      BY <1>h, <2>2, <2>3, <2>4, <3>2 DEF WaitInv, WaitOps
    <3> QED BY <3>1, <3>3
  <2>5. \A u \in Thr \ {t}, k \in Mutex : owner'[k] = u => owner[k] = u
    BY <1>t, <2>2, <2>3
  <2> QED BY <1>q, <2>2, <2>3, <2>4, <2>5 DEF WaitOps
<1>10. ASSUME NEW t \in Thr, \/ evh__HG_PTHREAD_COND_WAIT_POST(t)
                             \/ evh__HG_PTHREAD_COND_WAIT_TIMEOUT(t) PROVE CondInv'
  <2>1. PICK k, c, m : k = hg_lsd__mutex_lock(lsd[t]) /\ c = pc[t].c /\ m = pc[t].m
    OBVIOUS
  <2>2. PICK x : x = [k EXCEPT !.waiting = FALSE]
    OBVIOUS
  <2>3. PICK y : y = [x EXCEPT !.cvlist = @ \cup {<<c, m>>}]
    OBVIOUS
  <2>4. /\ pc[t].op = "condBack" /\ Goto(t, Idle)
        /\ locksetA' = [locksetA EXCEPT ![t] = @ \cup {m}]
        /\ (condVars' = condVars \/ condVars' = condVars \cup {c})
        /\ UNCHANGED <<hit, loop, owner, sent>>
    BY <1>10, <2>1 DEF evh__HG_PTHREAD_COND_WAIT_POST, evh__HG_PTHREAD_COND_WAIT_TIMEOUT, In
  <2>5. lsd' = [lsd EXCEPT ![t] = x] \/ (lsd' = [lsd EXCEPT ![t] = y] /\ x.in_waiting_loop)
    <3>1. CASE evh__HG_PTHREAD_COND_WAIT_POST(t)
      <4>1. lsd' = [lsd EXCEPT ![t] = IF NotesOnly(x) THEN [x EXCEPT !.cvlist = @ \cup {<<c, m>>}] ELSE x]
        BY <3>1, <2>1, <2>2 DEF evh__HG_PTHREAD_COND_WAIT_POST
      <4> QED BY <4>1, <2>3 DEF NotesOnly
    <3>2. CASE evh__HG_PTHREAD_COND_WAIT_TIMEOUT(t)
      BY <3>2, <2>1, <2>2 DEF evh__HG_PTHREAD_COND_WAIT_TIMEOUT
    <3> QED BY <1>10, <3>1, <3>2
  <2>6. /\ Fit(k) /\ (k.in_waiting_loop <=> lsd[t].in_waiting_loop)
        /\ k.cvlist = lsd[t].cvlist /\ k.expect = lsd[t].expect
    BY <1>t, <2>1, LockFacts
  <2>7. /\ x \in ThrLSD /\ ~x.waiting /\ (x.in_waiting_loop <=> lsd[t].in_waiting_loop)
        /\ x.cvlist = lsd[t].cvlist /\ x.expect = lsd[t].expect
    BY <2>2, <2>6 DEF Fit, ThrLSD
  <2>8. /\ ~y.waiting /\ (y.in_waiting_loop <=> lsd[t].in_waiting_loop)
        /\ y.cvlist = lsd[t].cvlist \cup {<<c, m>>} /\ y.expect = lsd[t].expect
    BY <2>3, <2>7 DEF ThrLSD
  <2>9. pc'[t] = Idle /\ \A u \in Thr \ {t} : pc'[u] = pc[u] /\ lsd'[u] = lsd[u] /\ locksetA'[u] = locksetA[u]
    BY <1>t, <2>4, <2>5 DEF Goto
  <2>10. lsd'[t] = x \/ (lsd'[t] = y /\ x.in_waiting_loop)
    BY <1>t, <2>5
  <2>11. /\ ~lsd'[t].waiting /\ (lsd'[t].in_waiting_loop <=> lsd[t].in_waiting_loop)
         /\ lsd'[t].expect = lsd[t].expect
         /\ \/ lsd'[t].cvlist = lsd[t].cvlist
            \/ lsd'[t].cvlist = lsd[t].cvlist \cup {<<c, m>>} /\ lsd[t].in_waiting_loop
    BY <2>7, <2>8, <2>10
  <2>12. WakeInv(t)'
    BY <1>i, <2>9 DEF WakeInv
  <2>13. LoopInv(t)'
    <3>1. "stray" \notin hit' /\ loop'[t] = "out" => ~lsd'[t].in_waiting_loop
      BY <1>h, <2>4, <2>11 DEF LoopInv
    <3>2. ASSUME "twoMutexes" \notin hit', loop'[t] # "out"
          PROVE  ~OtherMutex(lsd'[t].cvlist, lsd'[t].expect[1], lsd'[t].expect[2])
      <4>1. ~OtherMutex(lsd[t].cvlist, lsd[t].expect[1], lsd[t].expect[2])
        BY <1>h, <2>4, <3>2 DEF LoopInv
      <4>2. lsd[t].in_waiting_loop => ~OtherMutex(lsd[t].cvlist \cup {lsd[t].expect}, c, m)
        BY <1>h, <2>1, <2>4, <3>2 DEF LoopInv, WaitOps
      <4>3. lsd[t].in_waiting_loop => ~(lsd[t].expect[1] = c /\ lsd[t].expect[2] # m)
        BY <4>2 DEF OtherMutex
      <4>4. <<c, m>>[1] = c /\ <<c, m>>[2] = m
        OBVIOUS
      <4> QED BY <2>11, <4>1, <4>3, <4>4 DEF OtherMutex
    <3>3. pc'[t].op \notin WaitOps
      BY <1>i, <2>9 DEF WaitOps
    <3> QED BY <3>1, <3>2, <3>3 DEF LoopInv, OtherMutex
  <2>14. WaitInv(t)'
    <3>1. locksetA'[t] = locksetA[t] \cup {m}
      BY <1>t, <2>4
    <3>2. pc'[t].op = "idle"
      BY <1>i, <2>9
    <3> QED BY <1>h, <2>1, <2>4, <2>11, <3>1, <3>2 DEF WaitInv, WaitOps
  <2>15. SentIsKnown'
    BY <2>4 DEF CondInv, SentIsKnown
  <2> QED BY <1>k, <1>o, <2>4, <2>9, <2>12, <2>13, <2>14, <2>15
<1>11. ASSUME NEW t \in Thr, NEW c \in Cond, evh__HG_PTHREAD_COND_DESTROY_PRE(t, c) PROVE CondInv'
  <2>1. /\ NoneIn(c) /\ (WokenOn(c) # {} => "earlyDestroy" \in hit')
        /\ sent' = [sent EXCEPT ![c] = NoVTS]
        /\ UNCHANGED <<pc, locksetA, condVars, lsd, loop, owner>>
    BY <1>11 DEF evh__HG_PTHREAD_COND_DESTROY_PRE, Does, DoesAll
  <2>2. sent'[c] = NoVTS /\ \A d \in Cond \ {c} : sent'[d] = sent[d]
    BY <1>t, <2>1
  <2>3. \A d \in Cond \ {c} : SentOnward(d)
    BY <2>2, LeqRefl DEF SentOnward
  <2>4. SentIsKnown'
    BY <2>1, <2>2 DEF CondInv, SentIsKnown
  <2>5. ASSUME NEW u \in Thr PROVE WakeInv(u)' /\ LoopInv(u)' /\ WaitInv(u)'
    <3>1. PcCondSame(u) /\ LsdSame(u)
      BY <2>1 DEF PcCondSame, LsdSame
    <3>2. pc[u].op \in CondOps => pc[u].c \in Cond
      BY <1>t, PcFields DEF CondOps
    <3>3. pc[u].op = "signal" => pc[u].c # c
      BY <2>1 DEF NoneIn
    <3>4. pc[u].op \in {"condWoken", "condBack"} /\ pc[u].c = c => "earlyDestroy" \in hit'
      BY <2>1 DEF WokenOn
    <3>5. WakeInv(u)'
      BY <1>0, <1>h, <2>3, <3>1, <3>2, <3>3, <3>4, WakeSame
    <3>6. LoopInv(u)'
      BY <1>0, <1>h, <2>1, <3>1, LoopSame
    <3>7. WaitInv(u)'
      BY <1>0, <1>h, <2>1, <3>1, WaitSame DEF LsdSame
    <3> QED BY <3>5, <3>6, <3>7
  <2> QED BY <2>4, <2>5 DEF CondInv
<1>12. ASSUME NEW t \in Thr, NEW c \in Cond, NEW m \in Mutex, evh__waiting_loop(t, c, m) PROVE CondInv'
  <2>1. PICK n : n = [lsd[t] EXCEPT !.expect = <<c, m>>]
    OBVIOUS
  <2>2. UNCHANGED <<pc, sent, condVars, locksetA, owner>>
    BY <1>12, Zenon DEF evh__waiting_loop
  <2>3. /\ lsd' = [lsd EXCEPT ![t].expect = <<c, m>>] /\ loop' = [loop EXCEPT ![t] = "test"]
        /\ pc[t].op = "idle"
        /\ (OtherMutex(lsd[t].cvlist, c, m) => "twoMutexes" \in hit')
    BY <1>12, <1>i DEF evh__waiting_loop, Ready, Does, DoesAll
  <2>4. lsd' = [lsd EXCEPT ![t] = n]
    BY <2>1, <2>3
  <2>5. /\ (n.waiting <=> lsd[t].waiting) /\ n.cvlist = lsd[t].cvlist /\ n.expect = <<c, m>>
    BY <1>t, <2>1 DEF ThrLSD
  <2>6. loop'[t] = "test" /\ \A u \in Thr \ {t} : loop'[u] = loop[u]
    BY <1>t, <2>3
  <2>7. ASSUME lsd'[t] = n PROVE LoopInv(t)'
    <3>1. "twoMutexes" \notin hit' => ~OtherMutex(n.cvlist, n.expect[1], n.expect[2])
      <4>1. <<c, m>>[1] = c /\ <<c, m>>[2] = m
        OBVIOUS
      <4> QED BY <2>3, <2>5, <4>1
    <3>2. pc'[t].op \notin WaitOps
      BY <2>2, <2>3 DEF WaitOps
    <3> QED BY <2>6, <2>7, <3>1, <3>2 DEF LoopInv, OtherMutex
  <2>8. ASSUME lsd'[t] = n PROVE WaitInv(t)'
    BY <1>0, <1>h, <2>2, <2>5, <2>8, WaitSame
  <2> QED BY <1>r, <2>2, <2>4, <2>6, <2>7, <2>8
<1>13. ASSUME NEW t \in Thr, evh__waiting_loop_begin(t) PROVE CondInv'
  <2>1. PICK n : n = [lsd[t] EXCEPT !.in_waiting_loop = TRUE, !.record_reads = FALSE]
    OBVIOUS
  <2>2. /\ UNCHANGED <<pc, sent, condVars, locksetA, owner, hit>>
        /\ lsd' = [lsd EXCEPT ![t].in_waiting_loop = TRUE, ![t].record_reads = FALSE]
        /\ loop' = [loop EXCEPT ![t] = "body"] /\ pc[t].op = "idle" /\ loop[t] = "test"
    BY <1>13, <1>i DEF evh__waiting_loop_begin, Ready
  <2>3. lsd' = [lsd EXCEPT ![t] = n]
    BY <1>t, <2>1, <2>2
  <2>4. (n.waiting <=> lsd[t].waiting) /\ n.cvlist = lsd[t].cvlist /\ n.expect = lsd[t].expect
    BY <1>t, <2>1 DEF ThrLSD
  <2>5. loop'[t] = "body" /\ \A u \in Thr \ {t} : loop'[u] = loop[u]
    BY <1>t, <2>2
  <2>6. ASSUME lsd'[t] = n PROVE LoopInv(t)'
    <3>1. "twoMutexes" \notin hit' => ~OtherMutex(n.cvlist, n.expect[1], n.expect[2])
      BY <1>h, <2>2, <2>4 DEF LoopInv
    <3>2. pc'[t].op \notin WaitOps
      BY <2>2 DEF WaitOps
    <3> QED BY <2>5, <2>6, <3>1, <3>2 DEF LoopInv, OtherMutex
  <2>7. ASSUME lsd'[t] = n PROVE WaitInv(t)'
    BY <1>0, <1>h, <2>2, <2>4, <2>7, WaitSame
  <2> QED BY <1>r, <2>2, <2>3, <2>5, <2>6, <2>7
<1>14. ASSUME NEW t \in Thr, evh__waiting_loop_end(t) PROVE CondInv'
  <2>1. PICK n : n = [lsd[t] EXCEPT !.in_waiting_loop = FALSE, !.cvlist = {}]
    OBVIOUS
  <2>2. /\ UNCHANGED <<pc, sent, condVars, locksetA, owner, hit>>
        /\ lsd' = [lsd EXCEPT ![t].in_waiting_loop = FALSE, ![t].cvlist = {}]
        /\ loop' = [loop EXCEPT ![t] = "out"]
    BY <1>14 DEF evh__waiting_loop_end
  <2>3. lsd' = [lsd EXCEPT ![t] = n]
    BY <1>t, <2>1, <2>2
  <2>4. (n.waiting <=> lsd[t].waiting) /\ ~n.in_waiting_loop
    BY <1>t, <2>1 DEF ThrLSD
  <2>5. loop'[t] = "out" /\ \A u \in Thr \ {t} : loop'[u] = loop[u]
    BY <1>t, <2>2
  <2>6. ASSUME lsd'[t] = n PROVE LoopInv(t)'
    BY <2>4, <2>5, <2>6 DEF LoopInv
  <2>7. ASSUME lsd'[t] = n PROVE WaitInv(t)'
    BY <1>0, <1>h, <2>2, <2>4, <2>7, WaitSame
  <2> QED BY <1>r, <2>2, <2>3, <2>5, <2>6, <2>7
<1>15. ASSUME NEW t \in Thr, StrayExit(t) PROVE CondInv'
  <2>1. PICK n : n = lsd[t]
    OBVIOUS
  <2>2. /\ UNCHANGED <<pc, sent, condVars, locksetA, owner, lsd>>
        /\ loop' = [loop EXCEPT ![t] = "out"] /\ "stray" \in hit' /\ pc[t].op = "idle"
    BY <1>15, <1>i DEF StrayExit, Does, DoesAll, Ready
  <2>3. lsd' = [lsd EXCEPT ![t] = n]
    BY <1>t, <2>1, <2>2
  <2>5. loop'[t] = "out" /\ \A u \in Thr \ {t} : loop'[u] = loop[u]
    BY <1>t, <2>2
  <2>6. LoopInv(t)'
    BY <2>2, <2>5 DEF LoopInv, WaitOps
  <2>7. WaitInv(t)'
    BY <1>0, <1>h, <2>2, WaitSame
  <2> QED BY <1>r, <2>2, <2>3, <2>5, <2>6, <2>7
<1>16. ASSUME NEW t \in Thr, NEW c \in Cond, NEW m \in Mutex,
              evh__HG_PTHREAD_COND_WAIT_PRE(t, c, m) PROVE CondInv'
  <2>1. UNCHANGED <<sent, condVars, loop, owner>>
    BY <1>16, Zenon DEF evh__HG_PTHREAD_COND_WAIT_PRE
  <2>2. /\ pc[t].op = "idle"
        /\ (owner[m] # t => "bogusWait" \in hit')
        /\ (lsd[t].in_waiting_loop /\ OtherMutex(lsd[t].cvlist \cup {lsd[t].expect}, c, m)
              => "twoMutexes" \in hit')
    BY <1>16, <1>i DEF evh__HG_PTHREAD_COND_WAIT_PRE, Ready, DoesAll
  <2>3. CASE lsd[t].waiting
    <3>1. UNCHANGED <<pc, lsd, locksetA>>
      BY <1>16, <2>3 DEF evh__HG_PTHREAD_COND_WAIT_PRE
    <3>2. ASSUME NEW u \in Thr PROVE WakeInv(u)' /\ LoopInv(u)' /\ WaitInv(u)'
      <4>1. PcCondSame(u) /\ LsdSame(u)
        BY <3>1 DEF PcCondSame, LsdSame
      <4> QED BY <1>0, <1>h, <1>k, <2>1, <3>1, <4>1, CondSame
    <3> QED BY <2>1, <3>2 DEF CondInv, SentIsKnown
  <2>4. CASE ~lsd[t].waiting
    <3>1. PICK x : x = [lsd[t] EXCEPT !.waiting = TRUE]
      OBVIOUS
    <3>2. PICK y : y = hg_lsd__mutex_unlock(x)
      OBVIOUS
    <3>3. PICK n : n = IF m \in locksetA[t] THEN y ELSE x
      OBVIOUS
    <3>4. PICK p : p = IF m \in locksetA[t] THEN [op |-> "condPre", c |-> c, m |-> m] ELSE pc[t]
      OBVIOUS
    <3>5. lsd' = [lsd EXCEPT ![t] = n] /\ locksetA' = [locksetA EXCEPT ![t] = @ \ {m}]
      BY <1>16, <2>4, <3>1, <3>2, <3>3 DEF evh__HG_PTHREAD_COND_WAIT_PRE
    <3>6. pc' = [pc EXCEPT ![t] = p]
      BY <1>16, <1>t, <2>4, <3>4 DEF evh__HG_PTHREAD_COND_WAIT_PRE
    <3>7. /\ Fit(x) /\ x.waiting /\ (x.in_waiting_loop <=> lsd[t].in_waiting_loop)
          /\ x.cvlist = lsd[t].cvlist /\ x.expect = lsd[t].expect
      BY <1>t, <3>1 DEF Fit, ThrLSD
    <3>8. /\ y.waiting /\ (y.in_waiting_loop <=> lsd[t].in_waiting_loop)
          /\ y.cvlist = lsd[t].cvlist /\ y.expect = lsd[t].expect
      BY <3>2, <3>7, LockFacts
    <3>9. /\ pc'[t] = p /\ lsd'[t] = n /\ locksetA'[t] = locksetA[t] \ {m}
          /\ \A u \in Thr \ {t} : pc'[u] = pc[u] /\ lsd'[u] = lsd[u] /\ locksetA'[u] = locksetA[u]
      BY <1>t, <3>5, <3>6
    <3>10. /\ n.waiting /\ (n.in_waiting_loop <=> lsd[t].in_waiting_loop)
           /\ n.cvlist = lsd[t].cvlist /\ n.expect = lsd[t].expect
      BY <3>3, <3>7, <3>8
    <3>11. /\ m \in locksetA[t] => p.op = "condPre" /\ p.c = c /\ p.m = m
           /\ m \notin locksetA[t] => p.op = "idle"
      BY <2>2, <3>4
    <3>12. WakeInv(t)'
      BY <3>9, <3>11 DEF WakeInv
    <3>13. LoopInv(t)'
      <4>1. "stray" \notin hit' /\ loop'[t] = "out" => ~n.in_waiting_loop
        BY <1>0, <1>h, <2>1, <3>10 DEF LoopInv
      <4>2. "twoMutexes" \notin hit' /\ p.op \in WaitOps /\ n.in_waiting_loop
               => ~OtherMutex(n.cvlist \cup {n.expect}, p.c, p.m)
        BY <2>2, <3>10, <3>11 DEF WaitOps
      <4>3. "twoMutexes" \notin hit' /\ loop'[t] # "out"
               => ~OtherMutex(n.cvlist, n.expect[1], n.expect[2])
        BY <1>0, <1>h, <2>1, <3>10 DEF LoopInv
      <4> QED BY <3>9, <4>1, <4>2, <4>3 DEF LoopInv, OtherMutex
    <3>14. WaitInv(t)'
      <4> SUFFICES ASSUME hit' \cap {"bogusWait", "waitFails"} = {}
                   PROVE  /\ (n.waiting <=> p.op \in WaitOps)
                          /\ \A k \in Mutex : owner[k] = t =>
                               k \in locksetA[t] \ {m} \/ (p.op \in {"condPre", "condBack"} /\ p.m = k)
        BY <2>1, <3>9 DEF WaitInv
      <4>1. hit \cap {"bogusWait", "waitFails"} = {} /\ owner[m] = t
        BY <1>0, <2>2
      <4>2. \A k \in Mutex : owner[k] = t => k \in locksetA[t]
        BY <1>h, <2>2, <4>1 DEF WaitInv
      <4> QED BY <3>10, <3>11, <4>1, <4>2 DEF WaitOps
    <3>15. SentIsKnown'
      BY <2>1 DEF CondInv, SentIsKnown
    <3> QED BY <1>k, <1>o, <2>1, <3>9, <3>12, <3>13, <3>14, <3>15
  <2> QED BY <2>3, <2>4
<1>17. CASE CondStep
  BY <1>1, <1>2, <1>3, <1>4, <1>5, <1>6, <1>7, <1>8, <1>9, <1>10, <1>11, <1>12, <1>13, <1>14, <1>15,
     <1>16, <1>17 DEF CondStep, CondNext
<1>18. CASE ~CondStep
  BY <1>18, CondOtherSteps
<1> QED BY <1>17, <1>18

LEMMA CondAlways == Spec => []CondInv
<1>1. Init => CondInv
  <2> SUFFICES ASSUME Init PROVE CondInv
    OBVIOUS
  <2>1. /\ \A c \in Cond : sent[c] = NoVTS
        /\ \A t \in Thr : pc[t].op = "idle" /\ loop[t] = "out" /\ ~lsd[t].waiting
                          /\ ~lsd[t].in_waiting_loop
        /\ \A m \in Mutex : owner[m] = NoThr
    BY DEF Init, ThreadsInit, CondInit, Idle, create_ThrLSD
  <2>2. \A t \in Thr : NoThr # t
    BY ThreadsAssumption
  <2> QED BY <2>1, <2>2 DEF CondInv, SentIsKnown, WakeInv, LoopInv, WaitInv, WaitOps
<1>2. Base /\ CondInv /\ [Next]_vars => CondInv'
  BY CondInvStep
<1> QED BY <1>1, <1>2, BaseAlways, PTL DEF Spec



\* A call that waits on a cond is left, and a test of a waiting loop followed
\* by no iteration, in one way each.
LEMMA OnlyWayBack ==
  ASSUME Typed, [Next]_vars, NEW t \in Thr, pc[t].op = "condBack", pc'[t] = Idle
  PROVE  evh__HG_PTHREAD_COND_WAIT_POST(t) \/ evh__HG_PTHREAD_COND_WAIT_TIMEOUT(t)
<1>0. pc \in [Thr -> PC] /\ Idle.op = "idle"
  BY DEF Typed, PcTyped, Idle
<1>1. CondStep
  <2>1. ~Within(ThreadOps) /\ ~Within(SemOps) /\ ~Within(BarOps) /\ ~UNCHANGED pc
    BY <1>0 DEF Within, ThreadOps, SemOps, BarOps
  <2> QED BY <2>1, PcKinds, FourKinds DEF vars
<1>2. ASSUME NEW u \in Thr, NEW p, Goto(u, p), pc[u].op # "condBack" PROVE FALSE
  BY <1>0, <1>2 DEF Goto
<1>3. ASSUME NEW u \in Thr, NEW m \in Mutex, MutexLock(u, m) \/ MutexUnlock(u, m) PROVE FALSE
  BY <1>0, <1>3 DEF MutexLock, MutexUnlock
<1>4. ASSUME NEW u \in Thr, NEW v \in Var, NEW w \in BOOLEAN, Access(u, v, w) PROVE FALSE
  BY <1>0, <1>4 DEF Access
<1>5. ASSUME NEW u \in Thr, NEW c \in Cond, NEW a \in BOOLEAN,
             evh__HG_PTHREAD_COND_SIGNAL_PRE(u, c, a) PROVE FALSE
  <2>1. PICK p : p = [op |-> "signal", c |-> c, all |-> a, at |-> clk[u]]
    OBVIOUS
  <2>2. Goto(u, p) /\ pc[u].op = "idle"
    BY <1>0, <1>5, <2>1 DEF evh__HG_PTHREAD_COND_SIGNAL_PRE, Ready
  <2> QED BY <1>2, <2>2
<1>6. ASSUME NEW u \in Thr, NEW c \in Cond, NEW m \in Mutex,
             evh__HG_PTHREAD_COND_WAIT_PRE(u, c, m) PROVE FALSE
  <2>1. PICK p : p = [op |-> "condPre", c |-> c, m |-> m]
    OBVIOUS
  <2>2. (Goto(u, p) \/ UNCHANGED pc) /\ pc[u].op = "idle"
    BY <1>0, <1>6, <2>1 DEF evh__HG_PTHREAD_COND_WAIT_PRE, Ready, Goto
  <2> QED BY <1>0, <1>2, <2>2
<1>7. ASSUME NEW u \in Thr, NEW c \in Cond, NEW m \in Mutex, evh__waiting_loop(u, c, m) PROVE FALSE
  BY <1>0, <1>7 DEF evh__waiting_loop
<1>8. ASSUME NEW u \in Thr, NEW c \in Cond, evh__HG_PTHREAD_COND_DESTROY_PRE(u, c) PROVE FALSE
  BY <1>0, <1>8 DEF evh__HG_PTHREAD_COND_DESTROY_PRE
<1>9. ASSUME NEW u \in Thr, RealSignal(u) PROVE FALSE
  <2>1. pc[u].op = "signal" /\ pc'[t] = IF t = u THEN Idle ELSE pc'[t]
    BY <1>9 DEF RealSignal, In
  <2>2. \/ pc'[t] = pc[t] \/ t = u
        \/ t \in Blocked(pc[u].c)
    BY <1>9, <1>0 DEF RealSignal
  <2> QED BY <1>0, <2>1, <2>2 DEF Blocked
<1>10. ASSUME NEW u \in Thr, Block(u) \/ Reacquire(u) PROVE FALSE
  <2>1. PICK p : p = [pc[u] EXCEPT !.op = "condIn"] \/ p = [pc[u] EXCEPT !.op = "condBack"]
    OBVIOUS
  <2>2. pc[u].op \in {"condPre", "condWoken"} /\ \A w \in Thr \ {u} : pc'[w] = pc[w]
    BY <1>0, <1>10 DEF Block, Reacquire, In
  <2> QED BY <1>0, <2>2
<1>11. ASSUME NEW u \in Thr, WaitFails(u) \/ Timeout(u) \/ Spurious(u) PROVE FALSE
  <2>1. PICK p : Goto(u, p)
    BY <1>11 DEF WaitFails, Timeout, Spurious
  <2>2. pc[u].op \in {"condPre", "condIn"}
    BY <1>11 DEF WaitFails, Timeout, Spurious, In
  <2> QED BY <1>2, <2>1, <2>2
<1>12. ASSUME NEW u \in Thr, \/ evh__waiting_loop_begin(u) \/ evh__waiting_loop_end(u)
                             \/ StrayExit(u) PROVE FALSE
  BY <1>0, <1>12 DEF evh__waiting_loop_begin, evh__waiting_loop_end, StrayExit
<1>13. ASSUME NEW u \in Thr, \/ evh__HG_PTHREAD_COND_WAIT_POST(u)
                             \/ evh__HG_PTHREAD_COND_WAIT_TIMEOUT(u) PROVE u = t
  <2>1. Goto(u, Idle)
    BY <1>13 DEF evh__HG_PTHREAD_COND_WAIT_POST, evh__HG_PTHREAD_COND_WAIT_TIMEOUT
  <2> QED BY <1>0, <2>1 DEF Goto
<1> QED BY <1>1, <1>3, <1>4, <1>5, <1>6, <1>7, <1>8, <1>9, <1>10, <1>11, <1>12, <1>13
        DEF CondStep, CondNext

LEMMA OnlyWayOut ==
  ASSUME Typed, [Next]_vars, NEW t \in Thr, loop[t] = "test", loop'[t] = "out"
  PROVE  evh__waiting_loop_end(t)
<1>0. loop \in [Thr -> {"out", "test", "body"}]
  BY DEF Typed, LsdTyped
<1>1. CondStep
  BY FourKinds DEF ThreadsStep, SemStep, BarrierStep, vars, condVarsAll
<1>2. ASSUME NEW u \in Thr, NEW m \in Mutex, MutexLock(u, m) \/ MutexUnlock(u, m) PROVE FALSE
  BY <1>2 DEF MutexLock, MutexUnlock
<1>3. ASSUME NEW u \in Thr, NEW v \in Var, NEW w \in BOOLEAN, Access(u, v, w) PROVE FALSE
  BY <1>3 DEF Access
<1>4. ASSUME NEW u \in Thr, NEW c \in Cond, NEW a \in BOOLEAN,
             evh__HG_PTHREAD_COND_SIGNAL_PRE(u, c, a) PROVE FALSE
  BY <1>4 DEF evh__HG_PTHREAD_COND_SIGNAL_PRE
<1>5. ASSUME NEW u \in Thr, NEW c \in Cond, NEW m \in Mutex,
             evh__HG_PTHREAD_COND_WAIT_PRE(u, c, m) PROVE FALSE
  <2>1. UNCHANGED loop
    BY <1>5, Zenon DEF evh__HG_PTHREAD_COND_WAIT_PRE
  <2> QED BY <2>1
<1>6. ASSUME NEW u \in Thr, NEW c \in Cond, NEW m \in Mutex, evh__waiting_loop(u, c, m) PROVE FALSE
  BY <1>0, <1>6 DEF evh__waiting_loop
<1>7. ASSUME NEW u \in Thr, NEW c \in Cond, evh__HG_PTHREAD_COND_DESTROY_PRE(u, c) PROVE FALSE
  BY <1>7 DEF evh__HG_PTHREAD_COND_DESTROY_PRE
<1>8. ASSUME NEW u \in Thr, \/ RealSignal(u) \/ Block(u) \/ WaitFails(u) \/ Timeout(u)
                            \/ Spurious(u) \/ Reacquire(u) PROVE FALSE
  BY <1>8 DEF RealSignal, Block, WaitFails, Timeout, Spurious, Reacquire, condVarsAll
<1>9. ASSUME NEW u \in Thr, \/ evh__HG_PTHREAD_COND_WAIT_POST(u)
                            \/ evh__HG_PTHREAD_COND_WAIT_TIMEOUT(u) PROVE FALSE
  BY <1>9 DEF evh__HG_PTHREAD_COND_WAIT_POST, evh__HG_PTHREAD_COND_WAIT_TIMEOUT
<1>10. ASSUME NEW u \in Thr, evh__waiting_loop_begin(u) \/ StrayExit(u) PROVE FALSE
  BY <1>0, <1>10 DEF evh__waiting_loop_begin, StrayExit
<1>11. ASSUME NEW u \in Thr, evh__waiting_loop_end(u) PROVE u = t
  BY <1>0, <1>11 DEF evh__waiting_loop_end
<1> QED BY <1>1, <1>2, <1>3, <1>4, <1>5, <1>6, <1>7, <1>8, <1>9, <1>10, <1>11
        DEF CondStep, CondNext

\* A thread that returns from a wait outside of waiting loops is ordered after
\* the signal that woke it (evh__HG_PTHREAD_COND_WAIT_POST).
THEOREM WokenAreOrdered == Spec => WokenIsOrdered
<1>1. ASSUME Base, CondInv, [Next]_vars, NEW t \in Thr, Returns(t), loop[t] = "out", lsdLevel < 2,
             pc[t].by # NoVTS, hit \cap {"earlyDestroy", "stray"} = {}
      PROVE  VTS__leq(pc[t].by, clk'[t])
  <2>0. Typed /\ Stamped
    BY <1>1 DEF Base
  <2>1. evh__HG_PTHREAD_COND_WAIT_POST(t)
    BY <1>1, <2>0, OnlyWayBack DEF Returns, evh__HG_PTHREAD_COND_WAIT_TIMEOUT
  <2>2. PICK k, c, by : k = hg_lsd__mutex_lock(lsd[t]) /\ c = pc[t].c /\ by = pc[t].by
    OBVIOUS
  <2>3. PICK th : th = [k EXCEPT !.waiting = FALSE]
    OBVIOUS
  <2>4. PICK r : r = Received(c, th)
    OBVIOUS
  <2>5. ~th.in_waiting_loop
    <3>1. Fit(lsd[t]) /\ ~lsd[t].in_waiting_loop
      BY <1>1, <2>0 DEF Typed, LsdTyped, Fit, CondInv, LoopInv
    <3>2. Fit(k) /\ ~k.in_waiting_loop
      BY <2>2, <3>1, LockFacts
    <3> QED BY <2>3, <3>2 DEF Fit, ThrLSD
  <2>6. c \in Cond /\ by \in VTS /\ sent[c] \in VTS /\ VTS__leq(by, sent[c])
    <3>1. pc[t] \in PC /\ pc[t].op = "condBack"
      BY <1>1, <2>0 DEF Typed, PcTyped, Returns
    <3>2. WakeInv(t)
      BY <1>1 DEF CondInv
    <3> QED BY <1>1, <2>2, <3>1, <3>2, PcFields DEF WakeInv, MaybeVTS
  <2>7. r = sent[c] /\ r # NoVTS
    BY <1>1, <2>0, <2>4, <2>6, ReceivedFacts, NoVTSAssumption
  <2>8. clk' = [clk EXCEPT ![t] = VTS__join(clk[t], r)] /\ clk[t] \in VTS
    BY <2>0, <2>1, <2>2, <2>3, <2>4, <2>5, <2>7, RunningClock
       DEF evh__HG_PTHREAD_COND_WAIT_POST, NotesOnly, In, Alive
  <2>9. clk'[t] = VTS__join(clk[t], r)
    BY <2>0, <2>8 DEF Typed, ClocksTypeOK
  <2>10. VTS__leq(r, clk'[t]) /\ clk'[t] \in VTS
    BY <2>6, <2>7, <2>8, <2>9, JoinLemma
  <2> QED BY <2>2, <2>6, <2>7, <2>10, LeqTrans
<1>2. Base /\ CondInv /\ [Next]_vars =>
        [\A t \in Thr :
           /\ Returns(t) /\ loop[t] = "out" /\ lsdLevel < 2 /\ pc[t].by # NoVTS
           /\ hit \cap {"earlyDestroy", "stray"} = {}
           => VTS__leq(pc[t].by, clk'[t])]_<<pc, clk, loop>>
  BY <1>1
<1> QED BY <1>2, BaseAlways, CondAlways, PTL DEF Spec, WokenIsOrdered

\* A thread that leaves a waiting loop from its test is ordered after every
\* signal that was sent on the cond (evh__waiting_loop_end, main_annotate_wait).
THEOREM LostSignalsAreCaught == Spec => LostSignalCaught
<1>1. ASSUME Base, CondInv, [Next]_vars, NEW t \in Thr, loop[t] = "test", loop'[t] = "out",
             lsdLevel = 1, sent[lsd[t].expect[1]] # NoVTS
      PROVE  VTS__leq(sent[lsd[t].expect[1]], clk'[t])
  <2>0. Typed /\ Stamped
    BY <1>1 DEF Base
  <2>1. evh__waiting_loop_end(t)
    BY <1>1, <2>0, OnlyWayOut
  <2>2. PICK c, th : c = lsd[t].expect[1] /\ th = lsd[t]
    OBVIOUS
  <2>3. c \in Cond /\ c \in Annotated(th)
    <3>1. lsd[t] \in ThrLSD /\ lsd[t].expect # <<>>
      BY <1>1, <2>0 DEF Typed, LsdTyped
    <3>2. lsd[t].expect \in Cond \X Mutex
      BY <3>1 DEF ThrLSD
    <3>3. c \in Cond
      BY <2>2, <3>2
    <3> QED BY <1>1, <2>2, <3>3 DEF CondInv, SentIsKnown, Annotated
  <2>4. PICK got : got = {Received(d, th) : d \in Annotated(th)} \ {NoVTS}
    OBVIOUS
  <2>5. clk[t] \in VTS /\ clk' = [clk EXCEPT ![t] = JoinAll(got \cup {clk[t]})]
    BY <2>0, <2>1, <2>2, <2>4, RunningClock DEF evh__waiting_loop_end, Ready, Alive
  <2>6. Annotated(th) \subseteq Cond
    BY <2>0 DEF Annotated, Typed, CondTyped
  <2>7. IsFiniteSet(Annotated(th))
    BY <2>6, CondAssumption, FS_Subset
  <2>8. IsFiniteSet(got)
    <3>1. PICK f : f = [d \in Annotated(th) |-> Received(d, th)]
      OBVIOUS
    <3>2. PICK A : A = Annotated(th)
      OBVIOUS
    <3>3. IsFiniteSet({f[d] : d \in A})
      BY <2>7, <3>2, ImageFinite
    <3>4. got \subseteq {f[d] : d \in A}
      BY <2>4, <3>1, <3>2
    <3> QED BY <3>3, <3>4, FS_Subset
  <2>9. got \subseteq VTS
    BY <2>0, <2>4, <2>6, ReceivedFacts DEF MaybeVTS
  <2>10. sent[c] \in got
    <3>1. Received(c, th) = sent[c]
      BY <1>1, <2>0, <2>3, ReceivedFacts
    <3> QED BY <1>1, <2>2, <2>3, <2>4, <3>1
  <2>11. IsFiniteSet(got \cup {clk[t]})
    BY <2>8, FS_AddElement
  <2>12. PICK S : S = got \cup {clk[t]}
    OBVIOUS
  <2>13. S \in SUBSET VTS /\ S # {} /\ sent[c] \in S /\ IsFiniteSet(S)
    BY <2>5, <2>9, <2>10, <2>11, <2>12
  <2>14. VTS__leq(sent[c], JoinAll(S))
    BY <2>13, JoinAllLemma
  <2>15. clk'[t] = JoinAll(S)
    BY <2>0, <2>5, <2>12 DEF Typed, ClocksTypeOK
  <2> QED BY <2>2, <2>14, <2>15
<1>2. Base /\ CondInv /\ [Next]_vars =>
        [\A t \in Thr :
           /\ loop[t] = "test" /\ loop'[t] = "out" /\ lsdLevel = 1
           /\ sent[lsd[t].expect[1]] # NoVTS
           => VTS__leq(sent[lsd[t].expect[1]], clk'[t])]_<<pc, clk, loop>>
  BY <1>1
<1> QED BY <1>2, BaseAlways, CondAlways, PTL DEF Spec, LostSignalCaught


----------------------------------------------------------------------------
(* Threads that end *)

\* The Threads that the tool finds by ThreadId are the ones that run.
BoundRuns ==
  /\ life[Root] \notin {"unborn", "started"}
  /\ \A i \in Tid : map_threads[i] \in Thr => life[map_threads[i]] \in {"started", "running"}
  /\ \A t \in Thr : life[t] \in {"started", "running"} => Bound(t)

\* A thread that is not joined yet has a pthread_t of its own, and the tool
\* finds it there as soon as it has told it.
ToldInv ==
  /\ \A t \in Thr \ {Root} : life[t] \in {"running", "gone"} =>
       map_pthread_t_to_Thread[pth[t]] = t
  /\ \A t, u \in Thr \ {Root} :
       /\ t # u /\ life[t] \in {"started", "running", "gone"}
       /\ life[u] \in {"started", "running", "gone"}
       => pth[t] # pth[u]

\* It still does while the join is not reported, unless the pthread_t was
\* given away again.
LeavingInv(s) ==
  pc[s].op = "join" =>
    /\ pc[s].q # s /\ life[pc[s].q] = "joined" /\ pc[s].h = pth[pc[s].q]
    /\ pc[s].q = Root => "joinRoot" \in hit
    /\ "reuse" \notin hit /\ pc[s].q # Root =>
         ~Taken(pc[s].h) /\ map_pthread_t_to_Thread[pc[s].h] = pc[s].q

EndInv(q) ==
  /\ life[q] \in {"gone", "joined"} => VTS__leq(ended[q], clk[q])
  /\ joiner[q] # NoThr /\ hit \cap {"reuse", "joinRoot"} = {} =>
       life[q] = "joined" /\ clk[joiner[q]] \in VTS /\ VTS__leq(ended[q], clk[joiner[q]])

JoinInv == BoundRuns /\ ToldInv /\ \A t \in Thr : LeavingInv(t) /\ EndInv(t)

\* Only time goes on.
LEMMA EndSame ==
  ASSUME Base, Onward, hit \subseteq hit', NEW q \in Thr, EndInv(q), life'[q] = life[q],
         ended'[q] = ended[q], joiner'[q] = joiner[q]
  PROVE  EndInv(q)'
<1>0. /\ joiner[q] \in Thr \cup {NoThr} /\ ended[q] \in VTS
      /\ life[q] # "unborn" => clk[q] \in VTS
  BY DEF Base, Typed, ThreadsTyped, LifeTyped, ClocksTypeOK, MaybeVTS
<1>1. ASSUME life[q] \in {"gone", "joined"} PROVE VTS__leq(ended[q], clk'[q])
  <2>1. clk[q] \in VTS /\ clk'[q] \in VTS /\ VTS__leq(ended[q], clk[q]) /\ VTS__leq(clk[q], clk'[q])
    BY <1>0, <1>1 DEF EndInv, Onward
  <2> QED BY <1>0, <2>1, LeqTrans
<1>2. ASSUME joiner[q] # NoThr, hit' \cap {"reuse", "joinRoot"} = {}
      PROVE  life[q] = "joined" /\ clk'[joiner[q]] \in VTS /\ VTS__leq(ended[q], clk'[joiner[q]])
  <2>1. hit \cap {"reuse", "joinRoot"} = {}
    BY <1>2
  <2>2. life[q] = "joined" /\ clk[joiner[q]] \in VTS /\ VTS__leq(ended[q], clk[joiner[q]])
    BY <1>2, <2>1 DEF EndInv
  <2>3. clk'[joiner[q]] \in VTS /\ VTS__leq(clk[joiner[q]], clk'[joiner[q]])
    BY <1>0, <1>2, <2>2 DEF Onward
  <2> QED BY <1>0, <2>2, <2>3, LeqTrans
<1> QED BY <1>1, <1>2 DEF EndInv

PcJoinSame(s) == pc'[s] = pc[s] \/ pc'[s].op # "join"

LEMMA LeavingSame ==
  ASSUME NEW s \in Thr, LeavingInv(s), PcJoinSame(s), hit \subseteq hit',
         UNCHANGED <<life, pth, map_pthread_t_to_Thread>>
  PROVE  LeavingInv(s)'
<1>1. \A h : Taken(h)' <=> Taken(h)
  BY DEF Taken
<1> QED BY <1>1 DEF LeavingInv, PcJoinSame

LEMMA JoinSame ==
  ASSUME Base, Onward, JoinInv, hit \subseteq hit', \A s \in Thr : PcJoinSame(s), UNCHANGED thrVars
  PROVE  JoinInv'
<1>0. UNCHANGED <<life, pth, map_threads, map_pthread_t_to_Thread, ended, joiner>>
  BY DEF thrVars
<1>1. BoundRuns' /\ ToldInv'
  BY <1>0 DEF JoinInv, BoundRuns, ToldInv, Bound
<1>2. \A t \in Thr : LeavingInv(t)'
  BY <1>0, LeavingSame DEF JoinInv
<1>3. \A t \in Thr : EndInv(t)'
  BY <1>0, EndSame DEF JoinInv
<1> QED BY <1>1, <1>2, <1>3 DEF JoinInv

LEMMA JoinOtherSteps ==
  ASSUME Base, Onward, [Next]_vars, ~ThreadsStep, JoinInv
  PROVE  JoinInv'
<1>0. Typed /\ hit \subseteq hit'
  BY HitGrows DEF Base
<1>1. UNCHANGED thrVars
  <2>1. CASE SemStep
    BY <2>1 DEF SemStep, SemNext, evh__HG_POSIX_SEM_INIT_POST, evh__HG_POSIX_SEM_POST_PRE, RealPost,
                RealWait, evh__HG_POSIX_SEM_WAIT_POST, evh__HG_POSIX_SEM_DESTROY_PRE
  <2>2. CASE BarrierStep
    BY <2>2 DEF BarrierStep, BarrierNext, evh__HG_PTHREAD_BARRIER_INIT_PRE,
      evh__HG_OMP_BARRIER_REINIT_PRE, evh__HG_PTHREAD_BARRIER_DESTROY_PRE,
      evh__HG_PTHREAD_BARRIER_WAIT_PRE, Arrive
  <2>3. CASE CondStep
    <3>1. ASSUME NEW t \in Thr, NEW c \in Cond, NEW m \in Mutex,
                 evh__HG_PTHREAD_COND_WAIT_PRE(t, c, m) \/ evh__waiting_loop(t, c, m)
          PROVE  UNCHANGED thrVars
      BY <3>1, Zenon DEF evh__HG_PTHREAD_COND_WAIT_PRE, evh__waiting_loop
    <3>2. \/ \E t \in Thr, c \in Cond, m \in Mutex :
               evh__HG_PTHREAD_COND_WAIT_PRE(t, c, m) \/ evh__waiting_loop(t, c, m)
          \/ UNCHANGED thrVars
      BY <2>3 DEF CondStep, CondNext, MutexLock, MutexUnlock, Access, RealSignal, Block, WaitFails,
        evh__HG_PTHREAD_COND_SIGNAL_PRE, Timeout, Spurious, Reacquire,
        evh__HG_PTHREAD_COND_WAIT_POST, evh__HG_PTHREAD_COND_WAIT_TIMEOUT,
        evh__HG_PTHREAD_COND_DESTROY_PRE, evh__waiting_loop_begin, evh__waiting_loop_end, StrayExit
    <3> QED BY <3>1, <3>2
  <2>4. CASE UNCHANGED vars
    BY <2>4 DEF vars, thrVars
  <2> QED BY <2>1, <2>2, <2>3, <2>4, FourKinds
<1>2. \A s \in Thr : PcJoinSame(s)
  <2>1. Within(CondOps) \/ Within(BarOps) \/ Within(SemOps) \/ UNCHANGED pc
    BY <1>0, PcKinds, FourKinds DEF vars
  <2> QED BY <2>1 DEF Within, BarOps, CondOps, SemOps, PcJoinSame
<1> QED BY <1>0, <1>1, <1>2, JoinSame

LEMMA JoinInvStep == Base /\ Onward /\ JoinInv /\ [Next]_vars => JoinInv'
<1> SUFFICES ASSUME Base, Onward, JoinInv, [Next]_vars PROVE JoinInv'
  OBVIOUS
<1>0. Typed /\ hit \subseteq hit'
  BY HitGrows DEF Base
<1>t. /\ pc \in [Thr -> PC] /\ clk \in [Thr -> MaybeVTS]
      /\ life \in [Thr -> {"unborn", "started", "running", "gone", "joined"}] /\ pth \in [Thr -> Pth]
      /\ map_threads \in [Tid -> Thr \cup {NoThr}]
      /\ map_pthread_t_to_Thread \in [Pth -> Thr \cup {NoThr}]
      /\ joiner \in [Thr -> Thr \cup {NoThr}] /\ ended \in [Thr -> VTS] /\ NoThr \notin Thr
      /\ \A t \in Thr : pc[t].op # "idle" => life[t] = "running"
  BY <1>0, ThreadsAssumption DEF Typed, ThreadsTyped, PcTyped, ClocksTypeOK, LifeTyped
<1>h. BoundRuns /\ ToldInv /\ \A t \in Thr : LeavingInv(t) /\ EndInv(t)
  BY DEF JoinInv
<1>i. Idle.op = "idle"
  BY DEF Idle
<1>p. \A s \in Thr : pc[s].op = "join" => pc[s].q \in Thr /\ pc[s].h \in Pth
  BY <1>t, PcFields
<1>r. Root \in Thr
  BY RootAssumption
<1>1. ASSUME NEW p \in Thr, NEW c \in Thr, evh__pre_thread_ll_create(p, c) PROVE JoinInv'
  <2>1. PICK i \in Tid : /\ map_threads[i] = NoThr /\ map_threads' = [map_threads EXCEPT ![i] = c]
    BY <1>1 DEF evh__pre_thread_ll_create
  <2>2. PICK h \in Pth : /\ ~Taken(h) /\ (BeingJoined(h) => "reuse" \in hit')
                         /\ pth' = [pth EXCEPT ![c] = h]
    BY <1>1 DEF evh__pre_thread_ll_create, Does, DoesAll
  <2>3. /\ life[c] = "unborn" /\ life' = [life EXCEPT ![c] = "started"] /\ pc[p].op = "idle"
        /\ Goto(p, [op |-> "create", child |-> c])
        /\ UNCHANGED <<map_pthread_t_to_Thread, ended, joiner>>
    BY <1>1, <1>i DEF evh__pre_thread_ll_create, Ready
  <2>4. /\ life'[c] = "started" /\ \A u \in Thr \ {c} : life'[u] = life[u]
        /\ pth'[c] = h /\ \A u \in Thr \ {c} : pth'[u] = pth[u]
        /\ map_threads'[i] = c /\ \A j \in Tid \ {i} : map_threads'[j] = map_threads[j]
        /\ pc'[p].op = "create" /\ \A u \in Thr \ {p} : pc'[u] = pc[u]
    BY <1>t, <2>1, <2>2, <2>3 DEF Goto
  <2>5. c # Root
    BY <1>h, <2>3 DEF BoundRuns
  <2>6. BoundRuns'
    <3>1. life'[Root] \notin {"unborn", "started"}
      BY <1>h, <1>r, <2>4, <2>5 DEF BoundRuns
    <3>2. \A j \in Tid : map_threads'[j] \in Thr => life'[map_threads'[j]] \in {"started", "running"}
      BY <1>h, <2>3, <2>4 DEF BoundRuns
    <3>3. ASSUME NEW t \in Thr, life'[t] \in {"started", "running"}
          PROVE  \E j \in Tid : map_threads'[j] = t
      <4>1. CASE t = c
        BY <2>4, <4>1
      <4>2. CASE t # c
        <5>1. PICK j \in Tid : map_threads[j] = t
          BY <1>h, <2>4, <3>3, <4>2 DEF BoundRuns, Bound
        <5>2. j # i
          BY <1>t, <2>1, <5>1
        <5> QED BY <2>4, <5>1, <5>2
      <4> QED BY <4>1, <4>2
    <3> QED BY <3>1, <3>2, <3>3 DEF BoundRuns, Bound
  <2>7. ToldInv'
    <3>1. \A t \in Thr \ {Root} : life'[t] \in {"running", "gone"} =>
            map_pthread_t_to_Thread[pth'[t]] = t
      BY <1>h, <2>4 DEF ToldInv
    <3>2. \A t \in Thr \ {Root} : life[t] \in {"started", "running", "gone"} => pth[t] # h
      BY <2>2 DEF Taken
    <3>3. \A t, u \in Thr \ {Root} :
            /\ t # u /\ life'[t] \in {"started", "running", "gone"}
            /\ life'[u] \in {"started", "running", "gone"}
            => pth'[t] # pth'[u]
      <4> SUFFICES ASSUME NEW t \in Thr \ {Root}, NEW u \in Thr \ {Root}, t # u,
                          life'[t] \in {"started", "running", "gone"},
                          life'[u] \in {"started", "running", "gone"}
                   PROVE  pth'[t] # pth'[u]
        OBVIOUS
      <4>1. CASE t = c
        BY <2>4, <3>2, <4>1
      <4>2. CASE u = c
        BY <2>4, <3>2, <4>2
      <4>3. CASE t # c /\ u # c
        BY <1>h, <2>4, <4>3 DEF ToldInv
      <4> QED BY <4>1, <4>2, <4>3
    <3> QED BY <2>3, <3>1, <3>3 DEF ToldInv
  <2>8. ASSUME NEW s \in Thr PROVE LeavingInv(s)'
    <3> SUFFICES ASSUME pc'[s].op = "join"
                 PROVE  /\ pc[s].q # s /\ life'[pc[s].q] = "joined" /\ pc[s].h = pth'[pc[s].q]
                        /\ pc[s].q = Root => "joinRoot" \in hit'
                        /\ "reuse" \notin hit' /\ pc[s].q # Root =>
                             ~Taken(pc[s].h)' /\ map_pthread_t_to_Thread[pc[s].h] = pc[s].q
      BY <2>3, <2>4 DEF LeavingInv
    <3>1. pc[s].op = "join" /\ pc'[s] = pc[s]
      BY <2>4
    <3>2. /\ pc[s].q # s /\ life[pc[s].q] = "joined" /\ pc[s].h = pth[pc[s].q]
          /\ pc[s].q = Root => "joinRoot" \in hit
          /\ "reuse" \notin hit /\ pc[s].q # Root =>
               ~Taken(pc[s].h) /\ map_pthread_t_to_Thread[pc[s].h] = pc[s].q
      BY <1>h, <3>1 DEF LeavingInv
    <3>3. life'[pc[s].q] = "joined" /\ pc[s].h = pth'[pc[s].q]
      BY <1>p, <2>3, <2>4, <3>1, <3>2
    <3>4. ASSUME "reuse" \notin hit', pc[s].q # Root PROVE ~Taken(pc[s].h)'
      <4>1. pc[s].h # h
        BY <2>2, <3>1, <3>4 DEF BeingJoined
      <4>2. ~Taken(pc[s].h)
        BY <1>0, <3>2, <3>4
      <4> QED BY <2>4, <4>1, <4>2 DEF Taken
    <3> QED BY <1>0, <3>2, <3>3, <3>4
  <2>9. ASSUME NEW q \in Thr PROVE EndInv(q)'
    <3>1. CASE q # c
      BY <1>0, <1>h, <2>3, <2>4, <3>1, EndSame
    <3>2. CASE q = c
      <4>1. joiner[c] = NoThr \/ hit' \cap {"reuse", "joinRoot"} # {}
        BY <1>0, <1>h, <2>3 DEF EndInv
      <4> QED BY <2>3, <2>4, <3>2, <4>1 DEF EndInv
    <3> QED BY <3>1, <3>2
  <2> QED BY <2>6, <2>7, <2>8, <2>9 DEF JoinInv
<1>2. ASSUME NEW t \in Thr, set_my_pthread_t(t) PROVE JoinInv'
  <2>1. /\ life[t] = "started" /\ life' = [life EXCEPT ![t] = "running"]
        /\ map_pthread_t_to_Thread' = [map_pthread_t_to_Thread EXCEPT ![pth[t]] = t]
        /\ UNCHANGED <<pth, pc, map_threads, ended, joiner, hit>>
    BY <1>2 DEF set_my_pthread_t
  <2>2. /\ life'[t] = "running" /\ \A u \in Thr \ {t} : life'[u] = life[u]
        /\ pth[t] \in Pth /\ map_pthread_t_to_Thread'[pth[t]] = t
        /\ \A h \in Pth : h # pth[t] => map_pthread_t_to_Thread'[h] = map_pthread_t_to_Thread[h]
    BY <1>t, <2>1
  <2>3. t # Root
    BY <1>h, <2>1 DEF BoundRuns
  <2>4. BoundRuns'
    <3>1. life'[Root] \notin {"unborn", "started"}
      BY <1>h, <1>r, <2>2, <2>3 DEF BoundRuns
    <3>2. \A j \in Tid : map_threads[j] \in Thr => life'[map_threads[j]] \in {"started", "running"}
      BY <1>h, <2>2 DEF BoundRuns
    <3>3. \A u \in Thr : life'[u] \in {"started", "running"} => Bound(u)
      BY <1>h, <2>1, <2>2 DEF BoundRuns
    <3> QED BY <2>1, <3>1, <3>2, <3>3 DEF BoundRuns, Bound
  <2>5. \A u \in Thr \ {Root, t} : life[u] \in {"started", "running", "gone"} => pth[u] # pth[t]
    BY <1>h, <2>1, <2>3 DEF ToldInv
  <2>6. ToldInv'
    <3>1. \A u \in Thr \ {Root} : life'[u] \in {"running", "gone"} =>
            map_pthread_t_to_Thread'[pth[u]] = u
      <4> SUFFICES ASSUME NEW u \in Thr \ {Root}, life'[u] \in {"running", "gone"}
                   PROVE  map_pthread_t_to_Thread'[pth[u]] = u
        OBVIOUS
      <4>1. CASE u = t
        BY <2>2, <4>1
      <4>2. CASE u # t
        <5>1. life[u] \in {"running", "gone"} /\ pth[u] # pth[t] /\ pth[u] \in Pth
          BY <1>t, <2>2, <2>5, <4>2
        <5> QED BY <1>h, <2>2, <5>1 DEF ToldInv
      <4> QED BY <4>1, <4>2
    <3>2. \A u, w \in Thr \ {Root} :
            /\ u # w /\ life'[u] \in {"started", "running", "gone"}
            /\ life'[w] \in {"started", "running", "gone"}
            => pth[u] # pth[w]
      BY <1>h, <2>1, <2>2 DEF ToldInv
    <3> QED BY <2>1, <3>1, <3>2 DEF ToldInv
  <2>7. ASSUME NEW s \in Thr PROVE LeavingInv(s)'
    <3> SUFFICES ASSUME pc[s].op = "join"
                 PROVE  /\ pc[s].q # s /\ life'[pc[s].q] = "joined" /\ pc[s].h = pth[pc[s].q]
                        /\ pc[s].q = Root => "joinRoot" \in hit
                        /\ "reuse" \notin hit /\ pc[s].q # Root =>
                             ~Taken(pc[s].h)' /\ map_pthread_t_to_Thread'[pc[s].h] = pc[s].q
      BY <2>1 DEF LeavingInv
    <3>2. /\ pc[s].q # s /\ life[pc[s].q] = "joined" /\ pc[s].h = pth[pc[s].q]
          /\ pc[s].q = Root => "joinRoot" \in hit
          /\ "reuse" \notin hit /\ pc[s].q # Root =>
               ~Taken(pc[s].h) /\ map_pthread_t_to_Thread[pc[s].h] = pc[s].q
      BY <1>h DEF LeavingInv
    <3>3. life'[pc[s].q] = "joined"
      BY <1>p, <2>1, <2>2, <3>2
    <3>4. ASSUME "reuse" \notin hit, pc[s].q # Root
          PROVE  ~Taken(pc[s].h)' /\ map_pthread_t_to_Thread'[pc[s].h] = pc[s].q
      <4>1. ~Taken(pc[s].h)
        BY <3>2, <3>4
      <4>2. pc[s].h # pth[t]
        BY <2>1, <2>3, <4>1 DEF Taken
      <4>3. ~Taken(pc[s].h)'
        BY <2>1, <2>2, <4>1, <4>2 DEF Taken
      <4> QED BY <1>p, <2>2, <3>2, <3>4, <4>2, <4>3
    <3> QED BY <3>2, <3>3, <3>4
  <2>8. ASSUME NEW q \in Thr PROVE EndInv(q)'
    <3>1. CASE q # t
      BY <1>0, <1>h, <2>1, <2>2, <3>1, EndSame
    <3>2. CASE q = t
      BY <1>h, <2>1, <2>2, <3>2 DEF EndInv
    <3> QED BY <3>1, <3>2
  <2> QED BY <2>4, <2>6, <2>7, <2>8 DEF JoinInv
<1>3. ASSUME NEW p \in Thr, CreateReturns(p) PROVE JoinInv'
  <2>1. Goto(p, Idle) /\ UNCHANGED thrVars
    BY <1>3 DEF CreateReturns
  <2>2. \A s \in Thr : PcJoinSame(s)
    BY <1>i, <1>t, <2>1 DEF Goto, PcJoinSame
  <2> QED BY <1>0, <2>1, <2>2, JoinSame
<1>4. ASSUME NEW t \in Thr, NEW d \in BOOLEAN, evh__pre_thread_ll_exit(t, d) PROVE JoinInv'
  <2>1. PICK l : l = IF d THEN "joined" ELSE "gone"
    OBVIOUS
  <2>2. /\ life[t] = "running" /\ life' = [life EXCEPT ![t] = l] /\ pc[t].op = "idle"
        /\ map_threads' = [i \in Tid |-> IF map_threads[i] = t THEN NoThr ELSE map_threads[i]]
        /\ ended' = [ended EXCEPT ![t] = clk[t]]
        /\ UNCHANGED <<pth, pc, map_pthread_t_to_Thread, joiner, hit, clk>>
    BY <1>4, <1>i, <2>1 DEF evh__pre_thread_ll_exit, Ready, Alive, clkVars
  <2>3. /\ life'[t] = l /\ \A u \in Thr \ {t} : life'[u] = life[u]
        /\ ended'[t] = clk[t] /\ \A u \in Thr \ {t} : ended'[u] = ended[u]
        /\ l \in {"joined", "gone"}
    BY <1>t, <2>1, <2>2
  <2>4. BoundRuns'
    <3>1. life'[Root] \notin {"unborn", "started"}
      BY <1>h, <1>r, <2>3 DEF BoundRuns
    <3>2. \A j \in Tid : map_threads'[j] \in Thr => life'[map_threads'[j]] \in {"started", "running"}
      BY <1>h, <1>t, <2>2, <2>3 DEF BoundRuns
    <3>3. ASSUME NEW u \in Thr, life'[u] \in {"started", "running"}
          PROVE  \E j \in Tid : map_threads'[j] = u
      <4>1. u # t
        BY <2>3, <3>3
      <4>2. PICK j \in Tid : map_threads[j] = u
        BY <1>h, <2>3, <3>3, <4>1 DEF BoundRuns, Bound
      <4> QED BY <2>2, <4>1, <4>2
    <3> QED BY <3>1, <3>2, <3>3 DEF BoundRuns, Bound
  <2>5. ToldInv'
    <3>1. \A u \in Thr \ {Root} : life'[u] \in {"running", "gone"} => map_pthread_t_to_Thread[pth[u]] = u
      BY <1>h, <2>2, <2>3 DEF ToldInv
    <3>2. \A u, w \in Thr \ {Root} :
            /\ u # w /\ life'[u] \in {"started", "running", "gone"}
            /\ life'[w] \in {"started", "running", "gone"}
            => pth[u] # pth[w]
      BY <1>h, <2>2, <2>3 DEF ToldInv
    <3> QED BY <2>2, <3>1, <3>2 DEF ToldInv
  <2>6. ASSUME NEW s \in Thr PROVE LeavingInv(s)'
    <3>1. \A h : Taken(h)' => Taken(h)
      BY <2>2, <2>3 DEF Taken
    <3>2. pc[s].op = "join" /\ life[pc[s].q] = "joined" => life'[pc[s].q] = "joined"
      BY <1>p, <2>2, <2>3
    <3> QED BY <1>h, <2>2, <3>1, <3>2 DEF LeavingInv
  <2>7. ASSUME NEW q \in Thr PROVE EndInv(q)'
    <3>1. CASE q # t
      BY <1>0, <1>h, <2>2, <2>3, <3>1, EndSame
    <3>2. CASE q = t
      <4>1. clk[t] \in VTS
        BY <1>0, <2>2, RunningClock
      <4>2. joiner[t] = NoThr \/ hit \cap {"reuse", "joinRoot"} # {}
        BY <1>h, <2>2 DEF EndInv
      <4> QED BY <2>2, <2>3, <3>2, <4>1, <4>2, LeqRefl DEF EndInv
    <3> QED BY <3>1, <3>2
  <2> QED BY <2>4, <2>5, <2>6, <2>7 DEF JoinInv
<1>5. ASSUME NEW s \in Thr, NEW q \in Thr, JoinReturns(s, q) PROVE JoinInv'
  <2>1. PICK p : p = [op |-> "join", h |-> pth[q], q |-> q]
    OBVIOUS
  <2>2. /\ s # q /\ life[q] = "gone" /\ (q = Root => "joinRoot" \in hit')
        /\ life' = [life EXCEPT ![q] = "joined"] /\ Goto(s, p)
        /\ UNCHANGED <<pth, map_threads, map_pthread_t_to_Thread, ended, joiner>>
    BY <1>5, <2>1 DEF JoinReturns, Does, DoesAll
  <2>3. /\ life'[q] = "joined" /\ \A u \in Thr \ {q} : life'[u] = life[u]
        /\ pc'[s] = p /\ \A u \in Thr \ {s} : pc'[u] = pc[u]
        /\ p.op = "join" /\ p.h = pth[q] /\ p.q = q
    BY <1>t, <2>1, <2>2 DEF Goto
  <2>4. BoundRuns'
    <3>1. life'[Root] \notin {"unborn", "started"}
      BY <1>h, <1>r, <2>3 DEF BoundRuns
    <3>2. \A j \in Tid : map_threads[j] \in Thr => life'[map_threads[j]] \in {"started", "running"}
      BY <1>h, <2>2, <2>3 DEF BoundRuns
    <3>3. \A u \in Thr : life'[u] \in {"started", "running"} => Bound(u)
      BY <1>h, <2>3 DEF BoundRuns
    <3> QED BY <2>2, <3>1, <3>2, <3>3 DEF BoundRuns, Bound
  <2>5. ToldInv'
    <3>1. \A u \in Thr \ {Root} : life'[u] \in {"running", "gone"} => map_pthread_t_to_Thread[pth[u]] = u
      BY <1>h, <2>3 DEF ToldInv
    <3>2. \A u, w \in Thr \ {Root} :
            /\ u # w /\ life'[u] \in {"started", "running", "gone"}
            /\ life'[w] \in {"started", "running", "gone"}
            => pth[u] # pth[w]
      BY <1>h, <2>3 DEF ToldInv
    <3> QED BY <2>2, <3>1, <3>2 DEF ToldInv
  <2>6. \A h : Taken(h)' => Taken(h)
    BY <2>2, <2>3 DEF Taken
  <2>7. ASSUME NEW u \in Thr PROVE LeavingInv(u)'
    <3>1. CASE u # s
      <4>1. pc[u].op = "join" /\ life[pc[u].q] = "joined" => life'[pc[u].q] = "joined"
        BY <1>p, <2>2, <2>3
      <4> QED BY <1>0, <1>h, <2>2, <2>3, <2>6, <3>1, <4>1 DEF LeavingInv
    <3>2. CASE u = s
      <4>1. ASSUME q # Root PROVE ~Taken(pth[q])' /\ map_pthread_t_to_Thread[pth[q]] = q
        <5>1. map_pthread_t_to_Thread[pth[q]] = q
          BY <1>h, <2>2, <4>1 DEF ToldInv
        <5>2. \A w \in Thr \ {Root, q} : life[w] \in {"started", "running", "gone"} => pth[w] # pth[q]
          BY <1>h, <2>2, <4>1 DEF ToldInv
        <5> QED BY <2>2, <2>3, <5>1, <5>2 DEF Taken
      <4> QED BY <2>2, <2>3, <3>2, <4>1 DEF LeavingInv
    <3> QED BY <3>1, <3>2
  <2>8. ASSUME NEW u \in Thr PROVE EndInv(u)'
    <3>1. CASE u # q
      BY <1>0, <1>h, <2>2, <2>3, <3>1, EndSame
    <3>2. CASE u = q
      <4>1. joiner[q] = NoThr \/ hit' \cap {"reuse", "joinRoot"} # {}
        BY <1>0, <1>h, <2>2 DEF EndInv
      <4>2. VTS__leq(ended[q], clk[q]) /\ UNCHANGED clk
        BY <1>5, <1>h, <2>2 DEF EndInv, JoinReturns, clkVars
      <4> QED BY <2>2, <2>3, <3>2, <4>1, <4>2 DEF EndInv
    <3> QED BY <3>1, <3>2
  <2> QED BY <2>4, <2>5, <2>7, <2>8 DEF JoinInv
<1>6. ASSUME NEW s \in Thr, evh__HG_PTHREAD_JOIN_POST(s) PROVE JoinInv'
  <2>1. PICK q : q = pc[s].q
    OBVIOUS
  <2>2. /\ pc[s].op = "join" /\ life[s] = "running" /\ Goto(s, Idle)
        /\ joiner' = [joiner EXCEPT ![q] = s]
        /\ UNCHANGED <<life, pth, map_threads, map_pthread_t_to_Thread, ended, hit>>
    BY <1>6, <2>1 DEF evh__HG_PTHREAD_JOIN_POST, In, Alive
  <2>3. q \in Thr /\ q # s /\ life[q] = "joined"
    BY <1>h, <1>p, <2>1, <2>2 DEF LeavingInv
  <2>4. joiner'[q] = s /\ \A u \in Thr \ {q} : joiner'[u] = joiner[u]
    BY <1>t, <2>2, <2>3
  <2>5. BoundRuns' /\ ToldInv'
    BY <1>h, <2>2 DEF BoundRuns, ToldInv, Bound
  <2>6. \A u \in Thr : LeavingInv(u)'
    <3>1. \A u \in Thr : PcJoinSame(u)
      BY <1>i, <1>t, <2>2 DEF Goto, PcJoinSame
    <3> QED BY <1>0, <1>h, <2>2, <3>1, LeavingSame
  <2>7. ASSUME NEW u \in Thr PROVE EndInv(u)'
    <3>1. CASE u # q
      BY <1>0, <1>h, <2>2, <2>4, <3>1, EndSame
    <3>2. CASE u = q
      <4>0. clk[s] \in VTS /\ clk[q] \in VTS /\ ended[q] \in VTS
        BY <1>0, <1>t, <2>2, <2>3, RunningClock DEF Typed, LifeTyped, MaybeVTS
      <4>1. VTS__leq(ended[q], clk[q]) /\ clk'[q] \in VTS /\ VTS__leq(clk[q], clk'[q])
        BY <1>h, <2>3, <4>0 DEF EndInv, Onward
      <4>2. VTS__leq(ended[q], clk'[q])
        BY <4>0, <4>1, LeqTrans
      <4>3. ASSUME hit \cap {"reuse", "joinRoot"} = {}
            PROVE  clk'[s] \in VTS /\ VTS__leq(ended[q], clk'[s])
        <5>1. q # Root /\ map_pthread_t_to_Thread[pc[s].h] = q
          BY <1>h, <2>1, <2>2, <4>3 DEF LeavingInv
        <5>2. Quitter(s) = q
          BY <2>1, <5>1 DEF Quitter
        <5>3. clk' = [clk EXCEPT ![q] = VTS__tick(q, clk[q]), ![s] = VTS__join(clk[s], clk[q])]
          BY <1>6, <2>3, <5>2 DEF evh__HG_PTHREAD_JOIN_POST
        <5>4. clk'[s] = VTS__join(clk[s], clk[q])
          BY <1>t, <2>3, <5>3
        <5>5. clk'[s] \in VTS /\ VTS__leq(clk[q], clk'[s])
          BY <4>0, <5>4, JoinLemma
        <5> QED BY <4>0, <4>1, <5>5, LeqTrans
      <4> QED BY <2>2, <2>3, <2>4, <3>2, <4>2, <4>3 DEF EndInv
    <3> QED BY <3>1, <3>2
  <2> QED BY <2>5, <2>6, <2>7 DEF JoinInv
<1>7. CASE ThreadsStep
  BY <1>1, <1>2, <1>3, <1>4, <1>5, <1>6, <1>7 DEF ThreadsStep, ThreadsNext
<1>8. CASE ~ThreadsStep
  BY <1>8, JoinOtherSteps
<1> QED BY <1>7, <1>8

LEMMA JoinAlways == Spec => []JoinInv
<1>1. Init => JoinInv
  <2> SUFFICES ASSUME Init PROVE JoinInv
    OBVIOUS
  <2>1. /\ life = [t \in Thr |-> IF t = Root THEN "running" ELSE "unborn"]
        /\ map_threads = [i \in Tid |-> IF \A j \in Tid : i <= j THEN Root ELSE NoThr]
        /\ \A t \in Thr : pc[t].op = "idle" /\ joiner[t] = NoThr
    BY DEF Init, ThreadsInit, Idle
  <2>2. Root \in Thr /\ NoThr \notin Thr
    BY RootAssumption, ThreadsAssumption
  <2>3. PICK i \in Tid : \A j \in Tid : i <= j
    BY ThreadsAssumption, Least
  <2>4. BoundRuns
    <3>1. map_threads[i] = Root
      BY <2>1, <2>3
    <3>2. \A j \in Tid : map_threads[j] \in Thr => map_threads[j] = Root
      BY <2>1, <2>2
    <3> QED BY <2>1, <2>2, <3>1, <3>2 DEF BoundRuns, Bound
  <2>5. ToldInv
    BY <2>1 DEF ToldInv
  <2>6. \A t \in Thr : LeavingInv(t) /\ EndInv(t)
    BY <2>1 DEF LeavingInv, EndInv
  <2> QED BY <2>4, <2>5, <2>6 DEF JoinInv
<1>2. Base /\ JoinInv /\ [Next]_vars => JoinInv'
  BY JoinInvStep, BaseStep
<1> QED BY <1>1, <1>2, BaseAlways, PTL DEF Spec

\* A joined thread is ordered before the thread that joined it
\* (evh__HG_PTHREAD_JOIN_POST), however ThreadIds and pthread_t values are used
\* again, unless one is given away between the join and its report.
THEOREM JoinsAreOrdered == Spec => []JoinIsOrdered
<1>1. JoinInv => JoinIsOrdered
  BY DEF JoinInv, EndInv, JoinIsOrdered
<1> QED BY <1>1, JoinAlways, PTL


----------------------------------------------------------------------------
(* The tool's own assertions *)

\* The list of a barrier is never full, and only a client's mistake makes a
\* barrier for no one.
RoomLeft ==
  \A b \in Barrier : bar[b].initted =>
    IF bar[b].size = 0 THEN "zeroBarrier" \in hit ELSE Len(bar[b].waiting) < bar[b].size

LEMMA RoomSame ==
  ASSUME RoomLeft, hit \subseteq hit', UNCHANGED bar
  PROVE  RoomLeft'
BY DEF RoomLeft

LEMMA RoomLeftStep == Base /\ RoomLeft /\ [Next]_vars => RoomLeft'
<1> SUFFICES ASSUME Base, RoomLeft, [Next]_vars PROVE RoomLeft'
  OBVIOUS
<1>0. hit \subseteq hit'
  BY HitGrows
<1>t. bar \in [Barrier -> [initted : BOOLEAN, size : 0 .. MaxCount, waiting : Seq(Thr)]]
  BY DEF Base, Typed, BarTyped, BarrierTypeOK
<1>o. ASSUME NEW b \in Barrier, NEW x, bar' = [bar EXCEPT ![b] = x],
             x.initted => IF x.size = 0 THEN "zeroBarrier" \in hit' ELSE Len(x.waiting) < x.size
      PROVE  RoomLeft'
  <2>1. bar'[b] = x /\ \A a \in Barrier \ {b} : bar'[a] = bar[a]
    BY <1>o, <1>t
  <2>2. ASSUME NEW a \in Barrier, bar'[a].initted
        PROVE  IF bar'[a].size = 0 THEN "zeroBarrier" \in hit' ELSE Len(bar'[a].waiting) < bar'[a].size
    <3>1. CASE a = b
      BY <1>o, <2>1, <2>2, <3>1
    <3>2. CASE a # b
      BY <1>0, <2>1, <2>2, <3>2 DEF RoomLeft
    <3> QED BY <3>1, <3>2
  <2> QED BY <2>2 DEF RoomLeft
<1>1. ASSUME NEW t \in Thr, NEW b \in Barrier, NEW n \in 0 .. MaxCount,
             evh__HG_PTHREAD_BARRIER_INIT_PRE(t, b, n) \/ evh__HG_OMP_BARRIER_REINIT_PRE(t, b, n)
      PROVE  RoomLeft'
  <2>1. PICK x : x = [initted |-> TRUE, size |-> n, waiting |-> <<>>]
    OBVIOUS
  <2>2. bar' = [bar EXCEPT ![b] = x] /\ (n = 0 => "zeroBarrier" \in hit')
    BY <1>1, <2>1 DEF evh__HG_PTHREAD_BARRIER_INIT_PRE, evh__HG_OMP_BARRIER_REINIT_PRE, Does, DoesAll
  <2>3. n \in Nat /\ x.size = n /\ x.waiting = <<>> /\ Len(x.waiting) = 0
    BY <2>1, BarrierAssumption
  <2>4. x.initted => IF x.size = 0 THEN "zeroBarrier" \in hit' ELSE Len(x.waiting) < x.size
    BY <2>2, <2>3
  <2> QED BY <1>o, <2>2, <2>4
<1>2. ASSUME NEW t \in Thr, NEW b \in Barrier, evh__HG_PTHREAD_BARRIER_DESTROY_PRE(t, b) PROVE RoomLeft'
  <2>1. bar' = [bar EXCEPT ![b] = NoBar]
    BY <1>2 DEF evh__HG_PTHREAD_BARRIER_DESTROY_PRE
  <2>2. ~NoBar.initted
    BY DEF NoBar
  <2> QED BY <1>o, <2>1, <2>2
<1>3. ASSUME NEW t \in Thr, NEW b \in Barrier, evh__HG_PTHREAD_BARRIER_WAIT_PRE(t, b) PROVE RoomLeft'
  <2>1. PICK all : all = Append(bar[b].waiting, t)
    OBVIOUS
  <2>2. PICK w : w = IF Len(all) = bar[b].size THEN <<>> ELSE all
    OBVIOUS
  <2>3. PICK x : x = [bar[b] EXCEPT !.waiting = w]
    OBVIOUS
  <2>4. UNCHANGED bar \/ (/\ bar' = [bar EXCEPT ![b] = x]
                          /\ bar[b].size # 0 /\ ~(Len(all) > bar[b].size))
    BY <1>3, <2>1, <2>2, <2>3 DEF evh__HG_PTHREAD_BARRIER_WAIT_PRE
  <2>5. x.size = bar[b].size /\ x.waiting = w /\ bar[b].size \in Nat /\ bar[b].waiting \in Seq(Thr)
    BY <1>t, <2>3, BarrierAssumption
  <2>6. Len(all) \in Nat /\ Len(<<>>) = 0
    BY <2>1, <2>5
  <2>7. bar[b].size # 0 /\ ~(Len(all) > bar[b].size) => Len(w) < bar[b].size
    BY <2>2, <2>5, <2>6
  <2> QED BY <1>0, <1>o, <2>4, <2>5, <2>7, RoomSame
<1>4. CASE BarrierStep
  <2>1. ASSUME NEW t \in Thr, Arrive(t) PROVE RoomLeft'
    BY <1>0, <2>1, RoomSame DEF Arrive, barVars
  <2> QED BY <1>1, <1>2, <1>3, <1>4, <2>1 DEF BarrierStep, BarrierNext
<1>5. CASE ~BarrierStep
  <2>1. UNCHANGED bar
    BY <1>5, FourKinds DEF ThreadsStep, SemStep, CondStep, barVars, vars
  <2> QED BY <1>0, <2>1, RoomSame
<1> QED BY <1>4, <1>5

LEMMA RoomAlways == Spec => []RoomLeft
<1>1. Init => RoomLeft
  BY DEF Init, BarrierInit, NoBar, RoomLeft
<1>2. Base /\ RoomLeft /\ [Next]_vars => RoomLeft'
  BY RoomLeftStep
<1> QED BY <1>1, <1>2, BaseAlways, PTL DEF Spec

NoFailure == aborted' = "no" /\ "neverSent" \notin errs'

LEMMA FailuresStep ==
  Base /\ CondInv /\ JoinInv /\ RoomLeft /\ FailuresHaveCauses /\ [Next]_vars => FailuresHaveCauses'
<1> SUFFICES ASSUME Base, CondInv, JoinInv, RoomLeft, FailuresHaveCauses, [Next]_vars
             PROVE  FailuresHaveCauses'
  OBVIOUS
<1>0. Typed /\ Stamped /\ hit \subseteq hit' /\ (aborted = "no" \/ UNCHANGED vars)
  BY HitGrows DEF Base
<1>1. CASE UNCHANGED vars
  BY <1>1 DEF vars, FailuresHaveCauses
<1>2. CASE aborted = "no"
  <2>0. ASSUME NoFailure PROVE FailuresHaveCauses'
    BY <2>0 DEF NoFailure, FailuresHaveCauses
  <2>t. pc \in [Thr -> PC] /\ \A t \in Thr : Fit(lsd[t])
    BY <1>0 DEF Typed, PcTyped, LsdTyped, Fit
  <2>1. CASE ThreadsStep
    <3>1. ASSUME NEW p \in Thr, NEW c \in Thr, evh__pre_thread_ll_create(p, c) PROVE NoFailure
      BY <1>2, <3>1 DEF evh__pre_thread_ll_create, NoError, NoFailure
    <3>2. ASSUME NEW t \in Thr, set_my_pthread_t(t) \/ CreateReturns(t) PROVE NoFailure
      BY <1>2, <3>2 DEF set_my_pthread_t, CreateReturns, NoError, NoFailure
    <3>3. ASSUME NEW t \in Thr, NEW d \in BOOLEAN, evh__pre_thread_ll_exit(t, d) PROVE NoFailure
      BY <1>2, <3>3 DEF evh__pre_thread_ll_exit, Records, NoFailure
    <3>4. ASSUME NEW s \in Thr, NEW q \in Thr, JoinReturns(s, q) PROVE NoFailure
      BY <1>2, <3>4 DEF JoinReturns, NoError, NoFailure
    <3>5. ASSUME NEW s \in Thr, evh__HG_PTHREAD_JOIN_POST(s) PROVE FailuresHaveCauses'
      <4>1. /\ errs' = {} /\ pc[s].op = "join" /\ UNCHANGED hit
            /\ aborted' = "no" \/ (aborted' = "join" /\
                 (Quitter(s) \notin Thr \/ Quitter(s) = s \/ Bound(Quitter(s))))
        BY <3>5 DEF evh__HG_PTHREAD_JOIN_POST, In
      <4>2. ASSUME hit \cap {"reuse", "joinRoot"} = {} PROVE aborted' = "no"
        <5>1. LeavingInv(s) /\ BoundRuns
          BY DEF JoinInv
        <5>2. PICK q : q = pc[s].q
          OBVIOUS
        <5>3. q # Root /\ map_pthread_t_to_Thread[pc[s].h] = q /\ q # s /\ life[q] = "joined"
          BY <4>1, <4>2, <5>1, <5>2 DEF LeavingInv
        <5>4. Quitter(s) = q /\ q \in Thr
          BY <2>t, <4>1, <5>2, <5>3, PcFields DEF Quitter
        <5>5. ~Bound(q)
          BY <5>1, <5>3, <5>4 DEF BoundRuns, Bound
        <5> QED BY <4>1, <5>3, <5>4, <5>5
      <4> QED BY <4>1, <4>2 DEF FailuresHaveCauses
    <3> QED BY <2>0, <2>1, <3>1, <3>2, <3>3, <3>4, <3>5 DEF ThreadsStep, ThreadsNext
  <2>2. CASE SemStep
    <3>1. ASSUME NEW t \in Thr, NEW m \in Sem, NEW v \in 0 .. MaxInit,
                 evh__HG_POSIX_SEM_INIT_POST(t, m, v) PROVE NoFailure
      BY <1>2, <3>1 DEF evh__HG_POSIX_SEM_INIT_POST, Records, NoFailure
    <3>2. ASSUME NEW t \in Thr, NEW m \in Sem,
                 \/ evh__HG_POSIX_SEM_POST_PRE(t, m) \/ RealWait(t, m)
                 \/ evh__HG_POSIX_SEM_DESTROY_PRE(t, m) PROVE NoFailure
      BY <1>2, <3>2 DEF evh__HG_POSIX_SEM_POST_PRE, RealWait, evh__HG_POSIX_SEM_DESTROY_PRE,
                        NoError, NoFailure
    <3>3. ASSUME NEW t \in Thr, RealPost(t) \/ evh__HG_POSIX_SEM_WAIT_POST(t) PROVE NoFailure
      BY <1>2, <3>3 DEF RealPost, evh__HG_POSIX_SEM_WAIT_POST, NoError, Records, NoFailure
    <3> QED BY <2>0, <2>2, <3>1, <3>2, <3>3 DEF SemStep, SemNext
  <2>3. CASE BarrierStep
    <3>1. ASSUME NEW t \in Thr, NEW b \in Barrier, NEW n \in 0 .. MaxCount,
                 evh__HG_PTHREAD_BARRIER_INIT_PRE(t, b, n) \/ evh__HG_OMP_BARRIER_REINIT_PRE(t, b, n)
          PROVE  NoFailure
      BY <1>2, <3>1 DEF evh__HG_PTHREAD_BARRIER_INIT_PRE, evh__HG_OMP_BARRIER_REINIT_PRE, Records,
                        BarErrors, NoFailure
    <3>2. ASSUME NEW t \in Thr, NEW b \in Barrier, evh__HG_PTHREAD_BARRIER_DESTROY_PRE(t, b)
          PROVE  NoFailure
      BY <1>2, <3>2 DEF evh__HG_PTHREAD_BARRIER_DESTROY_PRE, Records, NoFailure
    <3>3. ASSUME NEW t \in Thr, NEW b \in Barrier, evh__HG_PTHREAD_BARRIER_WAIT_PRE(t, b)
          PROVE  FailuresHaveCauses'
      <4>1. PICK all : all = Append(bar[b].waiting, t)
        OBVIOUS
      <4>2. /\ errs' \subseteq {"notInit"}
            /\ aborted' = "no" \/ (/\ aborted' = "barrier" /\ bar[b].initted
                                   /\ bar[b].size = 0 \/ Len(all) > bar[b].size)
        BY <1>2, <3>3, <4>1 DEF evh__HG_PTHREAD_BARRIER_WAIT_PRE, Records, NoError
      <4>3. bar[b].size \in Nat /\ Len(all) = Len(bar[b].waiting) + 1 /\ Len(bar[b].waiting) \in Nat
        BY <1>0, <4>1, BarrierAssumption DEF Typed, BarTyped, BarrierTypeOK
      <4>4. aborted' = "barrier" => "zeroBarrier" \in hit
        BY <4>2, <4>3 DEF RoomLeft
      <4> QED BY <1>0, <4>2, <4>4 DEF FailuresHaveCauses
    <3>4. ASSUME NEW t \in Thr, Arrive(t) PROVE NoFailure
      BY <1>2, <3>4 DEF Arrive, NoError, NoFailure
    <3> QED BY <2>0, <2>3, <3>1, <3>2, <3>3, <3>4 DEF BarrierStep, BarrierNext
  <2>4. CASE CondStep
    <3>h. \A t \in Thr : WakeInv(t) /\ LoopInv(t) /\ WaitInv(t)
      BY DEF CondInv
    <3>1. ASSUME NEW t \in Thr, NEW m \in Mutex, MutexLock(t, m) \/ MutexUnlock(t, m) PROVE NoFailure
      BY <1>2, <3>1 DEF MutexLock, MutexUnlock, NoError, Records, NoFailure
    <3>2. ASSUME NEW t \in Thr, NEW v \in Var, NEW w \in BOOLEAN, Access(t, v, w) PROVE NoFailure
      BY <1>2, <3>2 DEF Access, NoError, NoFailure
    <3>3. ASSUME NEW t \in Thr, NEW c \in Cond, NEW a \in BOOLEAN,
                 evh__HG_PTHREAD_COND_SIGNAL_PRE(t, c, a) PROVE NoFailure
      BY <1>2, <3>3 DEF evh__HG_PTHREAD_COND_SIGNAL_PRE, NoError, NoFailure
    <3>4. ASSUME NEW t \in Thr, NEW c \in Cond, NEW m \in Mutex,
                 evh__HG_PTHREAD_COND_WAIT_PRE(t, c, m) PROVE FailuresHaveCauses'
      <4>1. /\ errs' \subseteq {"condWait"} /\ pc[t].op = "idle"
            /\ aborted' = "no" \/ (aborted' = "waiting" /\ lsd[t].waiting)
        BY <1>2, <3>4 DEF evh__HG_PTHREAD_COND_WAIT_PRE, Ready, Idle
      <4>2. lsd[t].waiting => hit \cap {"bogusWait", "waitFails"} # {}
        BY <3>h, <4>1 DEF WaitInv, WaitOps
      <4> QED BY <1>0, <4>1, <4>2 DEF FailuresHaveCauses
    <3>5. ASSUME NEW t \in Thr, NEW c \in Cond, NEW m \in Mutex, evh__waiting_loop(t, c, m)
          PROVE  NoFailure
      BY <1>2, <3>5 DEF evh__waiting_loop, NoError, NoFailure
    <3>6. ASSUME NEW t \in Thr, NEW c \in Cond, evh__HG_PTHREAD_COND_DESTROY_PRE(t, c) PROVE NoFailure
      BY <1>2, <3>6 DEF evh__HG_PTHREAD_COND_DESTROY_PRE, NoError, NoFailure
    <3>7. ASSUME NEW t \in Thr, \/ RealSignal(t) \/ Block(t) \/ WaitFails(t) \/ Timeout(t)
                                \/ Spurious(t) \/ Reacquire(t)
                                \/ evh__waiting_loop_begin(t) \/ StrayExit(t) PROVE NoFailure
      BY <1>2, <3>7 DEF RealSignal, Block, WaitFails, Timeout, Spurious, Reacquire,
                        evh__waiting_loop_begin, StrayExit, NoError, NoFailure
    <3>8. ASSUME NEW t \in Thr, evh__HG_PTHREAD_COND_WAIT_POST(t) PROVE FailuresHaveCauses'
      <4>1. PICK k, c, m : k = hg_lsd__mutex_lock(lsd[t]) /\ c = pc[t].c /\ m = pc[t].m
        OBVIOUS
      <4>2. PICK th : th = [k EXCEPT !.waiting = FALSE]
        OBVIOUS
      <4>3. /\ Fit(k) /\ (k.in_waiting_loop <=> lsd[t].in_waiting_loop) /\ k.cvlist = lsd[t].cvlist
        BY <2>t, <4>1, LockFacts
      <4>4. (th.in_waiting_loop <=> lsd[t].in_waiting_loop) /\ th.cvlist = lsd[t].cvlist
        BY <4>2, <4>3 DEF Fit, ThrLSD
      <4>5. /\ pc[t].op = "condBack" /\ ~pc[t].timed /\ UNCHANGED hit
            /\ errs' = IF condSO[c] = NoSO \/ soClk[condSO[c]] = NoVTS THEN {"neverSent"} ELSE {}
            /\ aborted' = IF ~lsd[t].waiting THEN "waiting"
                          ELSE IF NotesOnly(th) /\ OtherMutex(th.cvlist, c, m) THEN "mutex" ELSE "no"
        BY <3>8, <4>1, <4>2 DEF evh__HG_PTHREAD_COND_WAIT_POST, In
      <4>6. aborted' = "waiting" => hit \cap {"bogusWait", "waitFails"} # {}
        BY <3>h, <4>5 DEF WaitInv, WaitOps
      <4>7. aborted' = "mutex" => "twoMutexes" \in hit
        <5>1. ASSUME "twoMutexes" \notin hit, lsd[t].in_waiting_loop
              PROVE  ~OtherMutex(lsd[t].cvlist, c, m)
          <6>1. ~OtherMutex(lsd[t].cvlist \cup {lsd[t].expect}, c, m)
            BY <3>h, <4>1, <4>5, <5>1 DEF LoopInv, WaitOps
          <6> QED BY <6>1 DEF OtherMutex
        <5> QED BY <4>4, <4>5, <5>1 DEF NotesOnly
      <4>8. "neverSent" \in errs' => hit \cap {"spurious", "earlyDestroy"} # {}
        <5>1. c \in Cond /\ pc[t].by \in MaybeVTS
          BY <2>t, <4>1, <4>5, PcFields
        <5>2. "neverSent" \in errs' => sent[c] = NoVTS
          BY <1>0, <4>5, <5>1 DEF Stamped
        <5> QED BY <3>h, <4>1, <4>5, <5>2, NoVTSAssumption DEF WakeInv
      <4>9. aborted' \in {"waiting", "mutex", "no"}
        BY <4>5
      <4> QED BY <1>0, <4>6, <4>7, <4>8, <4>9 DEF FailuresHaveCauses
    <3>9. ASSUME NEW t \in Thr, evh__HG_PTHREAD_COND_WAIT_TIMEOUT(t) PROVE FailuresHaveCauses'
      <4>1. /\ pc[t].op = "condBack" /\ errs' = {} /\ UNCHANGED hit
            /\ aborted' = IF lsd[t].waiting THEN "no" ELSE "waiting"
        BY <3>9 DEF evh__HG_PTHREAD_COND_WAIT_TIMEOUT, In
      <4> QED BY <3>h, <4>1 DEF WaitInv, WaitOps, FailuresHaveCauses
    <3>10. ASSUME NEW t \in Thr, evh__waiting_loop_end(t) PROVE FailuresHaveCauses'
      <4>1. /\ loop[t] # "out" /\ errs' = {} /\ UNCHANGED hit
            /\ aborted' = IF OtherMutex(lsd[t].cvlist, lsd[t].expect[1], lsd[t].expect[2])
                            THEN "mutex" ELSE "no"
        BY <3>10 DEF evh__waiting_loop_end
      <4>2. aborted' = "mutex" => "twoMutexes" \in hit
        BY <3>h, <4>1 DEF LoopInv
      <4> QED BY <4>1, <4>2 DEF FailuresHaveCauses
    <3> QED BY <2>0, <2>4, <3>1, <3>2, <3>3, <3>4, <3>5, <3>6, <3>7, <3>8, <3>9, <3>10
            DEF CondStep, CondNext
  <2> QED BY <1>1, <2>1, <2>2, <2>3, <2>4, FourKinds
<1> QED BY <1>0, <1>1, <1>2

\* The assertions of the tool about threads, barriers, waits and waiting loops
\* fail, and a wait is reported that nobody signalled, only after the client or
\* the library did what FailuresHaveCauses names.
THEOREM FailuresAreCaused == Spec => []FailuresHaveCauses
<1>1. Init => FailuresHaveCauses
  BY DEF Init, ThreadsInit, FailuresHaveCauses
<1>2. Base /\ CondInv /\ JoinInv /\ RoomLeft /\ FailuresHaveCauses /\ [Next]_vars => FailuresHaveCauses'
  BY FailuresStep
<1> QED BY <1>1, <1>2, BaseAlways, CondAlways, JoinAlways, RoomAlways, PTL DEF Spec


----------------------------------------------------------------------------
(* Barriers *)

\* The threads at the barrier are the ones on the list, which have not moved on
\* since; or the list was emptied and all of them have been given the common
\* timestamp, but the real barrier has not let them go.
Gathering(b) ==
  /\ Cardinality(AtBarrier(b)) = Len(bar[b].waiting)
  /\ \A t \in Thr : Times(t, bar[b].waiting) = IF t \in AtBarrier(b) THEN 1 ELSE 0
  /\ \A t \in AtBarrier(b) : pc[t].at = clk[t]
Released(b) ==
  /\ bar[b].size > 0 /\ bar[b].waiting = <<>> /\ Cardinality(AtBarrier(b)) = bar[b].size
  /\ \A p, q \in AtBarrier(b) : VTS__leq(pc[q].at, clk[p])
  /\ \A p \in AtBarrier(b) : pc[p].at[p] < clk[p][p]

BarOK(b) ==
  /\ barReal[b] = bar[b].size
  /\ bar[b].initted <=> bar[b].size > 0
  /\ bar[b].size = 0 => bar[b].waiting = <<>>
  /\ Gathering(b) \/ Released(b)
BarInv == ~Disturbed /\ aborted = "no" => \A b \in Barrier : BarOK(b)

LEMMA TimesAppend ==
  ASSUME NEW list \in Seq(Thr), NEW t \in Thr
  PROVE  /\ Times(t, Append(list, t)) = Times(t, list) + 1
         /\ \A u \in Thr \ {t} : Times(u, Append(list, t)) = Times(u, list)
<1>1. Len(list) \in Nat /\ DOMAIN list = 1 .. Len(list)
  BY SeqFacts
<1>2. PICK all, n : all = Append(list, t) /\ n = Len(list) + 1
  OBVIOUS
<1>3. DOMAIN all = DOMAIN list \cup {n} /\ all[n] = t /\ n \notin DOMAIN list
      /\ \A i \in DOMAIN list : all[i] = list[i]
  <2>1. all \in Seq(Thr) /\ Len(all) = n /\ all[n] = t /\ \A i \in 1 .. Len(list) : all[i] = list[i]
    BY <1>1, <1>2
  <2>2. DOMAIN all = 1 .. n
    BY <2>1, SeqFacts
  <2> QED BY <1>1, <1>2, <2>1, <2>2
<1>4. {i \in DOMAIN all : all[i] = t} = {i \in DOMAIN list : list[i] = t} \cup {n}
  BY <1>3
<1>5. \A u \in Thr \ {t} : {i \in DOMAIN all : all[i] = u} = {i \in DOMAIN list : list[i] = u}
  BY <1>3
<1>6. IsFiniteSet({i \in DOMAIN list : list[i] = t})
  <2>1. IsFiniteSet(1 .. Len(list))
    BY <1>1, FS_Interval
  <2> QED BY <1>1, <2>1, FS_Subset
<1>7. n \notin {i \in DOMAIN list : list[i] = t}
  BY <1>3
<1>8. Cardinality({i \in DOMAIN all : all[i] = t}) = Cardinality({i \in DOMAIN list : list[i] = t}) + 1
  <2>1. PICK S : S = {i \in DOMAIN list : list[i] = t}
    OBVIOUS
  <2>2. Cardinality(S \cup {n}) = Cardinality(S) + 1
    BY <1>6, <1>7, <2>1, FS_AddElement
  <2> QED BY <1>4, <2>1, <2>2
<1> QED BY <1>2, <1>5, <1>8 DEF Times

LEMMA ReleaseOrders ==
  ASSUME Typed, NEW list \in Seq(Thr), list # <<>>, \A i \in DOMAIN list : clk[list[i]] \in VTS,
         NEW p \in Thr, Times(p, list) # 0
  PROVE  /\ clk[p] \in VTS /\ BarrierRelease(list)[p] \in VTS
         /\ clk[p][p] < BarrierRelease(list)[p][p]
         /\ \A q \in Thr : Times(q, list) # 0 => VTS__leq(clk[q], BarrierRelease(list)[p])
<1>1. BarrierSO(list) \in VTS /\ \A i \in DOMAIN list : VTS__leq(clk[list[i]], BarrierSO(list))
  BY BarrierSOFacts
<1>2. /\ clk[p] \in VTS /\ BarrierRelease(list)[p] \in VTS
      /\ VTS__leq(BarrierSO(list), BarrierRelease(list)[p])
  BY ReleaseFacts
<1>3. ASSUME NEW q \in Thr, Times(q, list) # 0 PROVE VTS__leq(clk[q], BarrierRelease(list)[p])
  <2>1. PICK i \in DOMAIN list : list[i] = q
    BY <1>3, TimesFacts
  <2>2. VTS__leq(clk[q], BarrierSO(list)) /\ clk[q] \in VTS
    BY <1>1, <2>1
  <2> QED BY <1>1, <1>2, <2>2, LeqTrans
<1>4. clk[p][p] < BarrierRelease(list)[p][p]
  <2>1. PICK n : n = Times(p, list)
    OBVIOUS
  <2>2. n \in Nat /\ n > 0
    BY <2>1, TimesFacts
  <2>3. PICK v : v = Ticks(p, clk[p], n)
    OBVIOUS
  <2>4. v \in VTS /\ v[p] = clk[p][p] + n
    BY <1>2, <2>2, <2>3 DEF Ticks, VTS
  <2>5. BarrierRelease(list)[p] = VTS__join(v, BarrierSO(list))
    BY <2>1, <2>3 DEF BarrierRelease
  <2>6. VTS__leq(v, BarrierRelease(list)[p])
    BY <1>1, <2>4, <2>5, JoinLemma
  <2>7. v[p] <= BarrierRelease(list)[p][p]
    BY <2>6 DEF VTS__leq
  <2>8. clk[p][p] \in Nat /\ BarrierRelease(list)[p][p] \in Nat
    BY <1>2 DEF VTS
  <2> QED BY <2>2, <2>4, <2>7, <2>8
<1> QED BY <1>2, <1>3, <1>4

\* What a step leaves alone.
BarSame(b) ==
  /\ bar'[b] = bar[b] /\ barReal'[b] = barReal[b] /\ AtBarrier(b)' = AtBarrier(b)
  /\ \A t \in AtBarrier(b) : pc'[t].at = pc[t].at /\ clk'[t] = clk[t]

LEMMA BarOKSame ==
  ASSUME NEW b \in Barrier, BarOK(b), BarSame(b)
  PROVE  BarOK(b)'
<1>1. CASE Gathering(b)
  <2>1. Gathering(b)'
    BY <1>1 DEF Gathering, BarSame
  <2> QED BY <2>1 DEF BarOK, BarSame
<1>2. CASE Released(b)
  <2>1. Released(b)'
    BY <1>2 DEF Released, BarSame
  <2> QED BY <2>1 DEF BarOK, BarSame
<1> QED BY <1>1, <1>2 DEF BarOK

AtSame(t) == pc'[t] = pc[t] \/ (pc[t].op \notin BarOps /\ pc'[t].op \notin BarOps)

\* A thread at a barrier is left alone by all the other handlers, unless the
\* tool takes it for one that has ended, and stops.
LEMMA ClockHeld ==
  ASSUME Base, JoinInv, [Next]_vars, ~BarrierStep, aborted' = "no", NEW t \in Thr, pc[t].op \in BarOps
  PROVE  clk'[t] = clk[t]
<1>0. Typed /\ clk \in [Thr -> MaybeVTS] /\ pc \in [Thr -> PC] /\ Idle.op = "idle"
      /\ life[t] = "running"
  BY DEF Base, Typed, ClocksTypeOK, PcTyped, Idle, LifeTyped, BarOps
<1>e. ASSUME NEW u \in Thr, pc[u].op \notin BarOps, NEW x, clk' = [clk EXCEPT ![u] = x]
      PROVE  clk'[t] = clk[t]
  BY <1>0, <1>e
<1>1. CASE ThreadsStep
  <2>1. ASSUME NEW p \in Thr, NEW c \in Thr, evh__pre_thread_ll_create(p, c) PROVE clk'[t] = clk[t]
    <3>1. pc[p].op = "idle" /\ life[c] = "unborn" /\ Create(p, c)
      BY <1>0, <2>1 DEF evh__pre_thread_ll_create, Ready
    <3>2. t # p /\ t # c
      BY <1>0, <3>1 DEF BarOps
    <3> QED BY <1>0, <3>1, <3>2 DEF Create
  <2>2. ASSUME NEW s \in Thr, evh__HG_PTHREAD_JOIN_POST(s) PROVE clk'[t] = clk[t]
    <3>1. PICK q : q = Quitter(s)
      OBVIOUS
    <3>2. /\ pc[s].op = "join"
          /\ \/ UNCHANGED clk
             \/ /\ clk' = [clk EXCEPT ![q] = VTS__tick(q, @), ![s] = VTS__join(@, clk[q])]
                /\ ~Bound(q)
      BY <2>2, <3>1 DEF evh__HG_PTHREAD_JOIN_POST, In
    <3>3. t # s
      BY <3>2 DEF BarOps
    <3>4. ~Bound(q) => t # q
      BY <1>0 DEF JoinInv, BoundRuns
    <3> QED BY <1>0, <3>2, <3>3, <3>4
  <2>3. ASSUME NEW u \in Thr, set_my_pthread_t(u) \/ CreateReturns(u) PROVE clk'[t] = clk[t]
    BY <2>3 DEF set_my_pthread_t, CreateReturns, clkVars
  <2>4. ASSUME NEW u \in Thr, NEW d \in BOOLEAN, evh__pre_thread_ll_exit(u, d) PROVE clk'[t] = clk[t]
    BY <2>4 DEF evh__pre_thread_ll_exit, clkVars
  <2>5. ASSUME NEW s \in Thr, NEW q \in Thr, JoinReturns(s, q) PROVE clk'[t] = clk[t]
    BY <2>5 DEF JoinReturns, clkVars
  <2> QED BY <1>1, <2>1, <2>2, <2>3, <2>4, <2>5 DEF ThreadsStep, ThreadsNext
<1>2. CASE SemStep
  <2>1. ASSUME NEW u \in Thr, NEW m \in Sem, NEW v \in 0 .. MaxInit,
               evh__HG_POSIX_SEM_INIT_POST(u, m, v) PROVE clk'[t] = clk[t]
    <3>1. PICK n : n = IF v > SemMax THEN SemMax ELSE v
      OBVIOUS
    <3>2. pc[u].op = "idle" /\ clk' = [clk EXCEPT ![u] = Ticks(u, clk[u], n)]
      BY <1>0, <2>1, <3>1 DEF evh__HG_POSIX_SEM_INIT_POST, Ready
    <3> QED BY <1>e, <3>2 DEF BarOps
  <2>2. ASSUME NEW u \in Thr, NEW m \in Sem, evh__HG_POSIX_SEM_POST_PRE(u, m) PROVE clk'[t] = clk[t]
    <3>1. pc[u].op = "idle" /\ clk' = [clk EXCEPT ![u] = VTS__tick(u, clk[u])]
      BY <1>0, <2>2 DEF evh__HG_POSIX_SEM_POST_PRE, Ready
    <3> QED BY <1>e, <3>1 DEF BarOps
  <2>3. ASSUME NEW u \in Thr, evh__HG_POSIX_SEM_WAIT_POST(u) PROVE clk'[t] = clk[t]
    <3>1. PICK x : UNCHANGED clk \/ clk' = [clk EXCEPT ![u] = x]
      BY <2>3 DEF evh__HG_POSIX_SEM_WAIT_POST
    <3>2. pc[u].op = "sem_wait"
      BY <2>3 DEF evh__HG_POSIX_SEM_WAIT_POST, In
    <3> QED BY <1>e, <3>1, <3>2 DEF BarOps
  <2>4. ASSUME NEW u \in Thr, NEW m \in Sem, RealWait(u, m) \/ evh__HG_POSIX_SEM_DESTROY_PRE(u, m)
        PROVE clk'[t] = clk[t]
    BY <2>4 DEF RealWait, evh__HG_POSIX_SEM_DESTROY_PRE, clkVars
  <2>5. ASSUME NEW u \in Thr, RealPost(u) PROVE clk'[t] = clk[t]
    BY <2>5 DEF RealPost, clkVars
  <2> QED BY <1>2, <2>1, <2>2, <2>3, <2>4, <2>5 DEF SemStep, SemNext
<1>3. CASE CondStep
  <2>1. ASSUME NEW u \in Thr, NEW c \in Cond, NEW a \in BOOLEAN,
               evh__HG_PTHREAD_COND_SIGNAL_PRE(u, c, a) PROVE clk'[t] = clk[t]
    <3>1. pc[u].op = "idle" /\ clk' = [clk EXCEPT ![u] = VTS__tick(u, clk[u])]
      BY <1>0, <2>1 DEF evh__HG_PTHREAD_COND_SIGNAL_PRE, Ready
    <3> QED BY <1>e, <3>1 DEF BarOps
  <2>2. ASSUME NEW u \in Thr, evh__HG_PTHREAD_COND_WAIT_POST(u) PROVE clk'[t] = clk[t]
    <3>1. PICK x : UNCHANGED clk \/ clk' = [clk EXCEPT ![u] = x]
      BY <2>2 DEF evh__HG_PTHREAD_COND_WAIT_POST
    <3>2. pc[u].op = "condBack"
      BY <2>2 DEF evh__HG_PTHREAD_COND_WAIT_POST, In
    <3> QED BY <1>e, <3>1, <3>2 DEF BarOps
  <2>3. ASSUME NEW u \in Thr, evh__waiting_loop_end(u) PROVE clk'[t] = clk[t]
    <3>1. PICK x : clk' = [clk EXCEPT ![u] = x]
      BY <2>3 DEF evh__waiting_loop_end
    <3>2. pc[u].op = "idle"
      BY <1>0, <2>3 DEF evh__waiting_loop_end, Ready
    <3> QED BY <1>e, <3>1, <3>2 DEF BarOps
  <2>4. ASSUME NEW u \in Thr, NEW c \in Cond, evh__HG_PTHREAD_COND_DESTROY_PRE(u, c) PROVE clk'[t] = clk[t]
    BY <2>4 DEF evh__HG_PTHREAD_COND_DESTROY_PRE
  <2>5. ASSUME NEW u \in Thr, NEW m \in Mutex, MutexLock(u, m) \/ MutexUnlock(u, m) PROVE clk'[t] = clk[t]
    BY <2>5 DEF MutexLock, MutexUnlock, clkVars
  <2>6. ASSUME NEW u \in Thr, NEW v \in Var, NEW w \in BOOLEAN, Access(u, v, w) PROVE clk'[t] = clk[t]
    BY <2>6 DEF Access, clkVars
  <2>7. ASSUME NEW u \in Thr, NEW c \in Cond, NEW m \in Mutex,
               evh__HG_PTHREAD_COND_WAIT_PRE(u, c, m) \/ evh__waiting_loop(u, c, m) PROVE clk'[t] = clk[t]
    <3>1. UNCHANGED clk
      BY <2>7, Zenon DEF evh__HG_PTHREAD_COND_WAIT_PRE, evh__waiting_loop, clkVars
    <3> QED BY <3>1
  <2>8. ASSUME NEW u \in Thr, \/ RealSignal(u) \/ Block(u) \/ WaitFails(u) \/ Timeout(u)
                              \/ Spurious(u) \/ Reacquire(u) \/ evh__HG_PTHREAD_COND_WAIT_TIMEOUT(u)
                              \/ evh__waiting_loop_begin(u) \/ StrayExit(u) PROVE clk'[t] = clk[t]
    BY <2>8 DEF RealSignal, Block, WaitFails, Timeout, Spurious, Reacquire, clkVars,
                evh__HG_PTHREAD_COND_WAIT_TIMEOUT, evh__waiting_loop_begin, StrayExit
  <2> QED BY <1>3, <2>1, <2>2, <2>3, <2>4, <2>5, <2>6, <2>7, <2>8 DEF CondStep, CondNext
<1>4. CASE UNCHANGED vars
  BY <1>4 DEF vars
<1> QED BY <1>1, <1>2, <1>3, <1>4, FourKinds

LEMMA BarOtherSteps ==
  ASSUME Base, JoinInv, BarInv, [Next]_vars, ~BarrierStep
  PROVE  BarInv'
<1> SUFFICES ASSUME ~Disturbed', aborted' = "no", NEW b \in Barrier PROVE BarOK(b)'
  BY DEF BarInv
<1>0. Typed /\ hit \subseteq hit' /\ (aborted = "no" \/ UNCHANGED vars)
  BY HitGrows DEF Base
<1>1. BarOK(b)
  <2>1. ~Disturbed /\ aborted = "no"
    BY <1>0 DEF Disturbed, vars
  <2> QED BY <2>1 DEF BarInv
<1>2. UNCHANGED <<bar, barReal>>
  BY FourKinds DEF ThreadsStep, SemStep, CondStep, barVars, vars
<1>3. \A t \in Thr : AtSame(t)
  <2>1. Within(ThreadOps) \/ Within(CondOps) \/ Within(SemOps) \/ UNCHANGED pc
    BY <1>0, PcKinds, FourKinds DEF vars
  <2> QED BY <2>1 DEF Within, ThreadOps, BarOps, CondOps, SemOps, AtSame
<1>4. \A t \in Thr : pc[t].op \in BarOps => clk'[t] = clk[t]
  BY ClockHeld
<1>5. AtBarrier(b)' = AtBarrier(b)
  BY <1>3 DEF AtSame, AtBarrier, BarOps
<1>6. BarSame(b)
  BY <1>2, <1>3, <1>4, <1>5 DEF BarSame, AtBarrier, AtSame, BarOps
<1> QED BY <1>1, <1>6, BarOKSame


LEMMA BarInvStep == Base /\ JoinInv /\ RoomLeft /\ BarInv /\ [Next]_vars => BarInv'
<1> SUFFICES ASSUME Base, JoinInv, RoomLeft, BarInv, [Next]_vars PROVE BarInv'
  OBVIOUS
<1>0. Typed /\ hit \subseteq hit' /\ (aborted = "no" \/ UNCHANGED vars)
  BY HitGrows DEF Base
<1>1. CASE ~BarrierStep
  BY <1>1, BarOtherSteps
<1>2. CASE BarrierStep
  <2> SUFFICES ASSUME ~Disturbed', aborted' = "no" PROVE \A b \in Barrier : BarOK(b)'
    BY DEF BarInv
  <2>u. \A k \in {"crowd", "reinit", "zeroBarrier"} : k \notin hit'
    BY DEF Disturbed
  <2>0. \A b \in Barrier : BarOK(b)
    <3>1. ~Disturbed /\ aborted = "no"
      BY <1>0 DEF Disturbed, vars
    <3> QED BY <3>1 DEF BarInv
  <2>t. /\ bar \in [Barrier -> [initted : BOOLEAN, size : 0 .. MaxCount, waiting : Seq(Thr)]]
        /\ barReal \in [Barrier -> 0 .. MaxCount] /\ pc \in [Thr -> PC] /\ clk \in [Thr -> MaybeVTS]
        /\ \A b \in Barrier : bar[b].size \in Nat /\ Len(bar[b].waiting) \in Nat
    BY <1>0, BarrierAssumption DEF Typed, BarTyped, BarrierTypeOK, PcTyped, ClocksTypeOK
  <2>i. Idle.op = "idle"
    BY DEF Idle
  <2>f. \A b \in Barrier : IsFiniteSet(AtBarrier(b)) /\ AtBarrier(b) \subseteq Thr
    <3>1. \A b \in Barrier : AtBarrier(b) \subseteq Thr
      BY DEF AtBarrier
    <3> QED BY <3>1, FiniteAssumption, FS_Subset
  \* A barrier that no one is at is made anew.
  <2>n. ASSUME NEW b \in Barrier, NEW x, NEW r, bar' = [bar EXCEPT ![b] = x],
               barReal' = [barReal EXCEPT ![b] = r],
               x.size = r, (x.initted <=> r > 0), x.waiting = <<>>, AtBarrier(b) = {}, UNCHANGED <<pc, clk>>
        PROVE  \A a \in Barrier : BarOK(a)'
    <3>1. /\ bar'[b] = x /\ \A a \in Barrier \ {b} : bar'[a] = bar[a]
          /\ barReal'[b] = r /\ \A a \in Barrier \ {b} : barReal'[a] = barReal[a]
      BY <2>n, <2>t
    <3>2. \A a \in Barrier : AtBarrier(a)' = AtBarrier(a)
      BY <2>n DEF AtBarrier
    <3>3. ASSUME NEW a \in Barrier \ {b} PROVE BarOK(a)'
      <4>1. BarSame(a)
        BY <2>n, <3>1, <3>2 DEF BarSame
      <4> QED BY <2>0, <4>1, BarOKSame
    <3>4. BarOK(b)'
      <4>1. Cardinality({}) = 0 /\ Len(<<>>) = 0
        BY FS_EmptySet
      <4>2. \A t \in Thr : Times(t, <<>>) = 0
        BY <4>1 DEF Times
      <4>3. Gathering(b)'
        BY <2>n, <3>1, <3>2, <4>1, <4>2 DEF Gathering
      <4> QED BY <2>n, <3>1, <4>3 DEF BarOK
    <3> QED BY <3>3, <3>4
  <2>1. ASSUME NEW t \in Thr, NEW b \in Barrier, NEW n \in 0 .. MaxCount,
               evh__HG_PTHREAD_BARRIER_INIT_PRE(t, b, n) \/ evh__HG_OMP_BARRIER_REINIT_PRE(t, b, n)
        PROVE  \A a \in Barrier : BarOK(a)'
    <3>1. PICK x : x = [initted |-> TRUE, size |-> n, waiting |-> <<>>]
      OBVIOUS
    <3>2. /\ bar' = [bar EXCEPT ![b] = x] /\ UNCHANGED <<pc, clk>>
          /\ barReal' = IF n = 0 THEN barReal ELSE [barReal EXCEPT ![b] = n]
      BY <2>1, <3>1 DEF evh__HG_PTHREAD_BARRIER_INIT_PRE, evh__HG_OMP_BARRIER_REINIT_PRE, clkVars
    <3>3. n # 0 /\ AtBarrier(b) = {}
      BY <2>1, <2>u DEF evh__HG_PTHREAD_BARRIER_INIT_PRE, evh__HG_OMP_BARRIER_REINIT_PRE, Does, DoesAll
    <3>4. n > 0 /\ barReal' = [barReal EXCEPT ![b] = n]
      BY <3>2, <3>3, BarrierAssumption
    <3>5. x.size = n /\ (x.initted <=> n > 0) /\ x.waiting = <<>>
      BY <3>1, <3>4
    <3> QED BY <2>n, <3>2, <3>3, <3>4, <3>5
  <2>2. ASSUME NEW t \in Thr, NEW b \in Barrier, evh__HG_PTHREAD_BARRIER_DESTROY_PRE(t, b)
        PROVE  \A a \in Barrier : BarOK(a)'
    <3>1. /\ bar' = [bar EXCEPT ![b] = NoBar] /\ UNCHANGED <<pc, clk>>
          /\ barReal' = IF AtBarrier(b) # {} THEN barReal ELSE [barReal EXCEPT ![b] = 0]
      BY <2>2 DEF evh__HG_PTHREAD_BARRIER_DESTROY_PRE, clkVars
    <3>2. AtBarrier(b) = {}
      BY <2>2, <2>u DEF evh__HG_PTHREAD_BARRIER_DESTROY_PRE, Does, DoesAll
    <3>3. NoBar.size = 0 /\ (NoBar.initted <=> 0 > 0) /\ NoBar.waiting = <<>>
      BY DEF NoBar
    <3> QED BY <2>n, <3>1, <3>2, <3>3
  <2>3. ASSUME NEW t \in Thr, NEW b \in Barrier, evh__HG_PTHREAD_BARRIER_WAIT_PRE(t, b)
        PROVE  \A a \in Barrier : BarOK(a)'
    <3>1. pc[t].op = "idle" /\ life[t] = "running" /\ UNCHANGED barReal
      BY <2>3, <2>i DEF evh__HG_PTHREAD_BARRIER_WAIT_PRE, Ready, Alive
    <3>2. CASE ~bar[b].initted
      <4>1. barReal[b] = 0
        BY <2>0, <2>t, <3>2 DEF BarOK
      <4>2. Goto(t, Idle) /\ UNCHANGED <<clk, bar>>
        BY <2>3, <3>2, <4>1 DEF evh__HG_PTHREAD_BARRIER_WAIT_PRE
      <4>3. pc[t] = Idle
        BY <2>t, <3>1, PcFields
      <4>4. UNCHANGED pc
        BY <2>t, <4>2, <4>3 DEF Goto
      <4>5. \A a \in Barrier : BarSame(a)
        BY <3>1, <4>2, <4>4 DEF BarSame, AtBarrier
      <4> QED BY <2>0, <4>5, BarOKSame
    <3>3. CASE bar[b].initted
      <4>1. PICK list, n, all, p : /\ list = bar[b].waiting /\ n = bar[b].size
                                   /\ all = Append(list, t)
                                   /\ p = [op |-> "bar", b |-> b, at |-> clk[t]]
        OBVIOUS
      <4>2. /\ n \in Nat /\ n > 0 /\ barReal[b] = n /\ list \in Seq(Thr) /\ Len(list) < n
            /\ Len(list) \in Nat
        BY <2>0, <2>t, <3>3, <4>1 DEF BarOK, RoomLeft
      <4>3. Goto(t, p)
        BY <2>3, <4>1, <4>2 DEF evh__HG_PTHREAD_BARRIER_WAIT_PRE
      <4>4. ~(Cardinality(AtBarrier(b)) >= n)
        BY <2>3, <2>u, <4>2 DEF evh__HG_PTHREAD_BARRIER_WAIT_PRE, Does, DoesAll
      <4>5. Gathering(b)
        <5>1. ~Released(b)
          BY <4>1, <4>2, <4>4 DEF Released
        <5> QED BY <2>0, <5>1 DEF BarOK
      <4>6. /\ Cardinality(AtBarrier(b)) = Len(list)
            /\ \A u \in Thr : Times(u, list) = IF u \in AtBarrier(b) THEN 1 ELSE 0
            /\ \A u \in AtBarrier(b) : pc[u].at = clk[u]
        BY <4>1, <4>5 DEF Gathering
      <4>7. /\ pc'[t] = p /\ \A u \in Thr \ {t} : pc'[u] = pc[u]
            /\ p.op = "bar" /\ p.b = b /\ p.at = clk[t]
        BY <2>t, <4>1, <4>3 DEF Goto
      <4>8. \A a \in Barrier : t \notin AtBarrier(a)
        BY <3>1 DEF AtBarrier
      <4>9. AtBarrier(b)' = AtBarrier(b) \cup {t} /\ \A a \in Barrier \ {b} : AtBarrier(a)' = AtBarrier(a)
        BY <3>1, <4>7 DEF AtBarrier
      <4>10. Cardinality(AtBarrier(b)') = Len(list) + 1
        <5>1. PICK A : A = AtBarrier(b)
          OBVIOUS
        <5>2. IsFiniteSet(A) /\ t \notin A
          BY <2>f, <4>8, <5>1
        <5>3. Cardinality(A \cup {t}) = Cardinality(A) + 1
          BY <5>2, FS_AddElement
        <5> QED BY <4>6, <4>9, <5>1, <5>3
      <4>11. all \in Seq(Thr) /\ Len(all) = Len(list) + 1 /\ all # <<>>
        BY <4>1, <4>2
      <4>12. \A u \in Thr : Times(u, all) = IF u \in AtBarrier(b)' THEN 1 ELSE 0
        <5>1. Times(t, all) = Times(t, list) + 1 /\ \A u \in Thr \ {t} : Times(u, all) = Times(u, list)
          BY <4>1, <4>2, TimesAppend
        <5> QED BY <4>6, <4>8, <4>9, <5>1
      <4>13. PICK w : w = IF Len(all) = n THEN <<>> ELSE all
        OBVIOUS
      <4>14. /\ clk' = IF Len(all) = n THEN BarrierRelease(all) ELSE clk
             /\ bar' = [bar EXCEPT ![b].waiting = w]
        <5>1. ~(bar[b].size = 0 \/ Len(all) > bar[b].size)
          BY <4>1, <4>2, <4>11
        <5> QED BY <2>3, <3>3, <4>1, <4>13, <5>1 DEF evh__HG_PTHREAD_BARRIER_WAIT_PRE
      <4>15. /\ bar'[b].waiting = w /\ bar'[b].size = n /\ bar'[b].initted
             /\ \A a \in Barrier \ {b} : bar'[a] = bar[a]
        <5>1. PICK x : x = [bar[b] EXCEPT !.waiting = w]
          OBVIOUS
        <5>2. bar' = [bar EXCEPT ![b] = x]
          BY <4>14, <5>1
        <5>3. x.waiting = w /\ x.size = n /\ x.initted
          BY <2>t, <3>3, <4>1, <5>1
        <5>4. bar'[b] = x /\ \A a \in Barrier \ {b} : bar'[a] = bar[a]
          BY <2>t, <5>2
        <5> QED BY <5>3, <5>4
      <4>16. \A u \in Thr : u \notin AtBarrier(b)' => clk'[u] = clk[u]
        <5>1. ASSUME Len(all) = n, NEW u \in Thr, Times(u, all) = 0 PROVE clk'[u] = clk[u]
          BY <4>14, <5>1 DEF BarrierRelease
        <5> QED BY <4>12, <4>14, <5>1
      <4>17. ASSUME NEW a \in Barrier \ {b} PROVE BarOK(a)'
        <5>1. \A u \in AtBarrier(a) : u \in Thr /\ u \notin AtBarrier(b)' /\ u # t
          <6>1. \A u \in AtBarrier(a) : u \in Thr /\ u \notin AtBarrier(b)
            BY DEF AtBarrier
          <6> QED BY <4>8, <4>9, <6>1
        <5>2. BarSame(a)
          BY <3>1, <4>7, <4>9, <4>15, <4>16, <5>1 DEF BarSame
        <5> QED BY <2>0, <5>2, BarOKSame
      <4>18. CASE Len(all) # n
        <5>1. \A u \in AtBarrier(b)' : pc'[u].at = clk'[u]
          BY <2>f, <4>6, <4>7, <4>8, <4>9, <4>14, <4>18
        <5>2. Gathering(b)'
          BY <4>10, <4>11, <4>12, <4>13, <4>15, <4>18, <5>1 DEF Gathering
        <5>3. BarOK(b)'
          BY <3>1, <4>2, <4>15, <5>2 DEF BarOK
        <5> QED BY <4>17, <5>3
      <4>19. CASE Len(all) = n
        <5>1. clk' = BarrierRelease(all)
          BY <4>14, <4>19
        <5>2. \A u \in Thr : u \in AtBarrier(b)' => clk[u] \in VTS
          <6>1. \A u \in AtBarrier(b) : life[u] = "running"
            BY <1>0 DEF AtBarrier, Typed, LifeTyped
          <6> QED BY <1>0, <2>f, <3>1, <4>9, <6>1, RunningClock
        <5>3. \A i \in DOMAIN all : clk[all[i]] \in VTS
          <6>1. ASSUME NEW i \in DOMAIN all PROVE clk[all[i]] \in VTS
            <7>1. all[i] \in Thr
              BY <4>11, SeqFacts
            <7>2. Times(all[i], all) # 0
              BY <4>11, <7>1, TimesFacts
            <7> QED BY <4>12, <5>2, <7>1, <7>2
          <6> QED BY <6>1
        <5>4. \A u \in AtBarrier(b)' : u \in Thr /\ Times(u, all) # 0 /\ pc'[u].at = clk[u]
          BY <2>f, <4>6, <4>7, <4>8, <4>9, <4>12
        <5>5. \A u \in AtBarrier(b)', v \in AtBarrier(b)' : VTS__leq(pc'[v].at, clk'[u])
          <6> SUFFICES ASSUME NEW u \in AtBarrier(b)', NEW v \in AtBarrier(b)'
                       PROVE  VTS__leq(pc'[v].at, clk'[u])
            OBVIOUS
          <6>1. VTS__leq(clk[v], BarrierRelease(all)[u])
            BY <1>0, <4>11, <5>3, <5>4, ReleaseOrders
          <6> QED BY <5>1, <5>4, <6>1
        <5>6. \A u \in AtBarrier(b)' : pc'[u].at[u] < clk'[u][u]
          <6> SUFFICES ASSUME NEW u \in AtBarrier(b)' PROVE pc'[u].at[u] < clk'[u][u]
            OBVIOUS
          <6>1. clk[u][u] < BarrierRelease(all)[u][u]
            BY <1>0, <4>11, <5>3, <5>4, ReleaseOrders
          <6> QED BY <5>1, <5>4, <6>1
        <5>7. Released(b)'
          BY <4>2, <4>10, <4>11, <4>13, <4>15, <4>19, <5>5, <5>6 DEF Released
        <5>8. BarOK(b)'
          BY <3>1, <4>2, <4>15, <5>7 DEF BarOK
        <5> QED BY <4>17, <5>8
      <4> QED BY <4>18, <4>19
    <3> QED BY <3>2, <3>3
  <2>4. ASSUME NEW t \in Thr, Arrive(t) PROVE \A a \in Barrier : BarOK(a)'
    <3>1. PICK b, in : b = pc[t].b /\ in = Arrived(b) \cup {t}
      OBVIOUS
    <3>2. /\ pc[t].op = "bar" /\ UNCHANGED <<clk, bar, barReal>>
          /\ pc' = IF Cardinality(in) >= barReal[b]
                     THEN [u \in Thr |-> IF u \in in THEN Idle ELSE pc[u]]
                     ELSE [pc EXCEPT ![t].op = "barIn"]
      BY <2>4, <3>1 DEF Arrive, In, clkVars, barVars
    <3>3. b \in Barrier /\ in \subseteq AtBarrier(b) /\ t \in AtBarrier(b)
      BY <2>t, <3>1, <3>2, PcFields DEF Arrived, AtBarrier
    <3>4. CASE ~(Cardinality(in) >= barReal[b])
      <4>1. PICK p : p = [pc[t] EXCEPT !.op = "barIn"]
        OBVIOUS
      <4>2. p = [op |-> "barIn", b |-> pc[t].b, at |-> pc[t].at]
        BY <2>t, <3>2, <4>1, PcMoves
      <4>3. pc' = [pc EXCEPT ![t] = p]
        BY <2>t, <3>2, <3>4, <4>1
      <4>4. /\ pc'[t] = p /\ \A u \in Thr \ {t} : pc'[u] = pc[u]
            /\ p.op = "barIn" /\ p.b = pc[t].b /\ p.at = pc[t].at
        BY <2>t, <4>2, <4>3
      <4>5. \A a \in Barrier : AtBarrier(a)' = AtBarrier(a)
        BY <3>2, <4>4 DEF AtBarrier
      <4>6. \A u \in Thr : pc'[u].at = pc[u].at \/ pc'[u] = pc[u]
        BY <4>4
      <4>7. \A a \in Barrier : BarSame(a)
        BY <2>f, <3>2, <4>5, <4>6 DEF BarSame
      <4> QED BY <2>0, <4>7, BarOKSame
    <3>5. CASE Cardinality(in) >= barReal[b]
      <4>1. /\ IsFiniteSet(in) /\ Cardinality(in) \in Nat /\ Cardinality(AtBarrier(b)) \in Nat
            /\ Cardinality(in) <= Cardinality(AtBarrier(b))
            /\ (Cardinality(in) = Cardinality(AtBarrier(b)) => in = AtBarrier(b))
        <5>1. PICK A : A = AtBarrier(b)
          OBVIOUS
        <5>2. IsFiniteSet(A) /\ in \subseteq A
          BY <2>f, <3>3, <5>1
        <5>3. IsFiniteSet(in) /\ Cardinality(in) <= Cardinality(A)
              /\ (Cardinality(in) = Cardinality(A) => in = A)
          BY <5>2, FS_Subset
        <5>4. Cardinality(in) \in Nat /\ Cardinality(A) \in Nat
          BY <5>2, <5>3, FS_CardinalityType
        <5> QED BY <5>1, <5>3, <5>4
      <4>2. barReal[b] = bar[b].size /\ bar[b].size \in Nat
        BY <2>0, <2>t, <3>3 DEF BarOK
      <4>3. Released(b)
        <5>1. ASSUME Gathering(b) PROVE FALSE
          <6>1. bar[b].initted
            <7>1. Cardinality(AtBarrier(b)) # 0
              BY <2>f, <3>3, FS_EmptySet
            <7>2. bar[b].size = 0 => Cardinality(AtBarrier(b)) = 0
              BY <2>0, <3>3, <5>1 DEF BarOK, Gathering
            <7> QED BY <2>0, <3>3, <4>2, <7>1, <7>2 DEF BarOK
          <6>2. Len(bar[b].waiting) < bar[b].size
            BY <2>0, <3>3, <6>1, <4>2 DEF RoomLeft, BarOK
          <6> QED BY <2>t, <3>3, <3>5, <4>1, <4>2, <5>1, <6>2 DEF Gathering
        <5> QED BY <2>0, <3>3, <5>1 DEF BarOK
      <4>4. in = AtBarrier(b)
        BY <3>5, <4>1, <4>2, <4>3 DEF Released
      <4>5. \A u \in Thr : pc'[u] = IF u \in in THEN Idle ELSE pc[u]
        BY <3>2, <3>5
      <4>6. AtBarrier(b)' = {}
        BY <2>i, <4>4, <4>5 DEF AtBarrier
      <4>7. ASSUME NEW a \in Barrier \ {b} PROVE BarOK(a)'
        <5>1. \A u \in Thr : u \in AtBarrier(a) => u \notin in
          BY <4>4 DEF AtBarrier
        <5>2. \A u \in Thr : u \in in => Idle.op \notin {"bar", "barIn"} /\ u \notin AtBarrier(a)
          BY <2>i, <5>1
        <5>3. AtBarrier(a)' = AtBarrier(a)
          BY <4>5, <5>2 DEF AtBarrier
        <5>4. BarSame(a)
          BY <2>f, <3>2, <4>5, <5>1, <5>3 DEF BarSame
        <5> QED BY <2>0, <5>4, BarOKSame
      <4>8. BarOK(b)'
        <5>1. bar[b].waiting = <<>>
          BY <4>3 DEF Released
        <5>2. Cardinality({}) = 0 /\ Len(<<>>) = 0
          BY FS_EmptySet
        <5>3. \A u \in Thr : Times(u, <<>>) = 0
          BY <5>2 DEF Times
        <5>4. Gathering(b)'
          BY <3>2, <4>6, <5>1, <5>2, <5>3 DEF Gathering
        <5> QED BY <2>0, <3>2, <3>3, <5>4 DEF BarOK
      <4> QED BY <4>7, <4>8
    <3> QED BY <3>4, <3>5
  <2> QED BY <1>2, <2>1, <2>2, <2>3, <2>4 DEF BarrierStep, BarrierNext
<1> QED BY <1>1, <1>2

LEMMA BarAlways == Spec => []BarInv
<1>1. Init => BarInv
  <2> SUFFICES ASSUME Init, NEW b \in Barrier PROVE BarOK(b)
    BY DEF BarInv
  <2>1. bar[b] = NoBar /\ barReal[b] = 0 /\ \A t \in Thr : pc[t].op = "idle"
    BY DEF Init, BarrierInit, ThreadsInit, Idle
  <2>2. NoBar.size = 0 /\ ~NoBar.initted /\ NoBar.waiting = <<>>
    BY DEF NoBar
  <2>3. Cardinality({}) = 0 /\ Len(<<>>) = 0 /\ AtBarrier(b) = {}
    BY <2>1, FS_EmptySet DEF AtBarrier
  <2>4. \A t \in Thr : Times(t, <<>>) = 0
    BY <2>3 DEF Times
  <2>5. Gathering(b)
    BY <2>1, <2>2, <2>3, <2>4 DEF Gathering
  <2> QED BY <2>1, <2>2, <2>5 DEF BarOK
<1>2. Base /\ JoinInv /\ RoomLeft /\ BarInv /\ [Next]_vars => BarInv'
  BY BarInvStep
<1> QED BY <1>1, <1>2, BaseAlways, JoinAlways, RoomAlways, PTL DEF Spec

\* The tool's list of a barrier has, once each, exactly the threads that are at
\* the real barrier and were not given the common timestamp
\* (do_barrier_cross_sync_and_empty, evh__HG_PTHREAD_BARRIER_WAIT_PRE).
THEOREM WaitersArePresent == Spec => []WaitingIsPresent
<1>1. ASSUME Base, RoomLeft, BarInv PROVE WaitingIsPresent
  <2> SUFFICES ASSUME ~Disturbed, aborted = "no", NEW b \in Barrier
               PROVE  /\ Len(bar[b].waiting) < bar[b].size \/ ~bar[b].initted
                      /\ \A t \in Thr : Times(t, bar[b].waiting) <= 1
                      /\ {t \in Thr : Times(t, bar[b].waiting) = 1} =
                           {t \in AtBarrier(b) : pc[t].at = clk[t]}
    BY DEF WaitingIsPresent
  <2>0. BarOK(b) /\ AtBarrier(b) \subseteq Thr
    BY <1>1 DEF BarInv, AtBarrier
  <2>1. Len(bar[b].waiting) < bar[b].size \/ ~bar[b].initted
    <3>1. bar[b].size = 0 => ~bar[b].initted
      BY <2>0 DEF BarOK
    <3> QED BY <1>1, <3>1 DEF RoomLeft
  <2>2. CASE Gathering(b)
    BY <2>0, <2>1, <2>2 DEF Gathering
  <2>3. CASE Released(b)
    <3>1. \A t \in Thr : Times(t, bar[b].waiting) = 0
      <4>1. Cardinality({}) = 0
        BY FS_EmptySet
      <4> QED BY <2>3, <4>1 DEF Released, Times
    <3>2. \A t \in AtBarrier(b) : pc[t].at # clk[t]
      <4> SUFFICES ASSUME NEW t \in AtBarrier(b), pc[t].at = clk[t] PROVE FALSE
        OBVIOUS
      <4>1. pc[t].at[t] < clk[t][t]
        BY <2>3 DEF Released
      <4>2. t \in Thr /\ pc[t] \in PC /\ pc[t].op \in {"bar", "barIn"}
        BY <1>1 DEF AtBarrier, Base, Typed, PcTyped
      <4>3. pc[t].at \in VTS
        BY <4>2, PcFields
      <4>4. pc[t].at[t] \in Nat
        BY <4>2, <4>3 DEF VTS
      <4> QED BY <4>1, <4>4
    <3> QED BY <2>1, <3>1, <3>2
  <2> QED BY <2>0, <2>2, <2>3 DEF BarOK
<1>2. Base /\ RoomLeft /\ BarInv => WaitingIsPresent
  BY <1>1
<1> QED BY <1>2, BaseAlways, RoomAlways, BarAlways, PTL

\* Whom the real barrier lets go together are all ordered after each other's
\* arrival.
THEOREM BarriersSynchronise == Spec => BarrierSynchronises
<1>1. ASSUME Base, RoomLeft, BarInv, [Next]_vars, NEW b \in Barrier, ~Disturbed,
             NEW p \in {t \in AtBarrier(b) : pc'[t] = Idle},
             NEW q \in {t \in AtBarrier(b) : pc'[t] = Idle}
      PROVE  VTS__leq(pc[q].at, clk[p])
  <2>0. Typed /\ pc \in [Thr -> PC] /\ Idle.op = "idle"
        /\ bar \in [Barrier -> [initted : BOOLEAN, size : 0 .. MaxCount, waiting : Seq(Thr)]]
    BY <1>1 DEF Base, Typed, PcTyped, Idle, BarTyped, BarrierTypeOK
  <2>1. p \in Thr /\ pc[p].op \in {"bar", "barIn"} /\ pc[p].b = b
    BY DEF AtBarrier
  <2>2. BarrierStep
    <3>1. ~Within(ThreadOps) /\ ~Within(SemOps) /\ ~Within(CondOps) /\ ~UNCHANGED pc
      BY <2>0, <2>1 DEF Within, ThreadOps, SemOps, CondOps
    <3> QED BY <1>1, <2>0, <3>1, PcKinds, FourKinds DEF vars
  <2>3. PICK t \in Thr : Arrive(t)
    <3>1. ASSUME NEW t \in Thr, NEW a \in Barrier, NEW n \in 0 .. MaxCount,
                 evh__HG_PTHREAD_BARRIER_INIT_PRE(t, a, n) \/ evh__HG_OMP_BARRIER_REINIT_PRE(t, a, n)
          PROVE  FALSE
      BY <2>0, <2>1, <3>1 DEF evh__HG_PTHREAD_BARRIER_INIT_PRE, evh__HG_OMP_BARRIER_REINIT_PRE
    <3>2. ASSUME NEW t \in Thr, NEW a \in Barrier, evh__HG_PTHREAD_BARRIER_DESTROY_PRE(t, a) PROVE FALSE
      BY <2>0, <2>1, <3>2 DEF evh__HG_PTHREAD_BARRIER_DESTROY_PRE
    <3>3. ASSUME NEW t \in Thr, NEW a \in Barrier, evh__HG_PTHREAD_BARRIER_WAIT_PRE(t, a) PROVE FALSE
      <4>1. PICK x : Goto(t, x)
        BY <3>3 DEF evh__HG_PTHREAD_BARRIER_WAIT_PRE
      <4>2. pc[t].op = "idle"
        BY <2>0, <3>3 DEF evh__HG_PTHREAD_BARRIER_WAIT_PRE, Ready
      <4> QED BY <2>0, <2>1, <4>1, <4>2 DEF Goto
    <3> QED BY <2>2, <3>1, <3>2, <3>3 DEF BarrierStep, BarrierNext
  <2>4. PICK a, in : a = pc[t].b /\ in = Arrived(a) \cup {t}
    OBVIOUS
  <2>5. /\ pc[t].op = "bar" /\ aborted = "no"
        /\ pc' = IF Cardinality(in) >= barReal[a]
                   THEN [u \in Thr |-> IF u \in in THEN Idle ELSE pc[u]]
                   ELSE [pc EXCEPT ![t].op = "barIn"]
    BY <2>3, <2>4 DEF Arrive, In, Alive
  <2>6. p \in in /\ Cardinality(in) >= barReal[a]
    <3>1. CASE Cardinality(in) >= barReal[a]
      BY <2>0, <2>1, <2>5, <3>1
    <3>2. CASE ~(Cardinality(in) >= barReal[a])
      <4>1. [pc[t] EXCEPT !.op = "barIn"] = [op |-> "barIn", b |-> pc[t].b, at |-> pc[t].at]
        BY <2>0, <2>5, PcMoves
      <4>2. pc'[p] = pc[p] \/ pc'[p] = [op |-> "barIn", b |-> pc[t].b, at |-> pc[t].at]
        BY <2>0, <2>1, <2>5, <3>2, <4>1
      <4> QED BY <2>0, <2>1, <4>2
    <3> QED BY <3>1, <3>2
  <2>7. a = b /\ in \subseteq AtBarrier(b)
    BY <2>1, <2>4, <2>5, <2>6 DEF Arrived, AtBarrier
  <2>8. BarOK(b)
    BY <1>1, <2>5 DEF BarInv
  <2>9. Released(b)
    <3>1. PICK A : A = AtBarrier(b)
      OBVIOUS
    <3>2. A \subseteq Thr /\ in \subseteq A /\ p \in A
      BY <2>6, <2>7, <3>1 DEF AtBarrier
    <3>3. IsFiniteSet(A)
      BY <3>2, FiniteAssumption, FS_Subset
    <3>4. Cardinality(in) <= Cardinality(A) /\ IsFiniteSet(in) /\ Cardinality(A) \in Nat
          /\ Cardinality(A) # 0
      BY <3>2, <3>3, FS_Subset, FS_CardinalityType, FS_EmptySet
    <3>5. Cardinality(in) \in Nat
      BY <3>4, FS_CardinalityType
    <3>6. bar[b].size \in Nat /\ Len(bar[b].waiting) \in Nat /\ barReal[b] = bar[b].size
      BY <2>0, <2>8, BarrierAssumption DEF BarOK
    <3>7. ASSUME Gathering(b) PROVE FALSE
      <4>1. Cardinality(A) = Len(bar[b].waiting)
        BY <3>1, <3>7 DEF Gathering
      <4>2. bar[b].size # 0
        BY <2>8, <3>4, <4>1 DEF BarOK
      <4>3. bar[b].initted
        BY <2>8, <3>6, <4>2 DEF BarOK
      <4>4. Len(bar[b].waiting) < bar[b].size
        BY <1>1, <4>2, <4>3 DEF RoomLeft
      <4> QED BY <2>6, <2>7, <3>4, <3>5, <3>6, <4>1, <4>4
    <3> QED BY <2>8, <3>7 DEF BarOK
  <2> QED BY <2>9 DEF Released
<1>2. Base /\ RoomLeft /\ BarInv /\ [Next]_vars =>
        [\A b \in Barrier :
           LET out == {t \in AtBarrier(b) : pc'[t] = Idle}
           IN ~Disturbed => \A p, q \in out : VTS__leq(pc[q].at, clk[p])]_<<pc, clk>>
  BY <1>1
<1> QED BY <1>2, BaseAlways, RoomAlways, BarAlways, PTL DEF Spec, BarrierSynchronises

==============================================================================
