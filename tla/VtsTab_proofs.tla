---------------------------- MODULE VtsTab_proofs ----------------------------
(***************************************************************************)
(* Proofs for VtsTab, for any sets of threads, SOs and cells, any size of  *)
(* the table, of the result caches and of the shadow memory cache, and any *)
(* threshold of the first collection.                                      *)
(***************************************************************************)
EXTENDS VtsTab, FiniteSetTheorems, WellFoundedInduction, TLAPS

----------------------------------------------------------------------------
(* Numbers, counts and timestamps *)

LEMMA HashInSlot == ASSUME NEW i \in Nat, NEW j \in Nat PROVE hash_VtsIDs(i, j) \in Slot
BY NatAssumption DEF hash_VtsIDs, Slot

LEMMA WayInWay == ASSUME NEW c \in Cell PROVE WayOf(c) \in Way
BY NatAssumption, LineNoAssumption DEF WayOf, Way

\* A bounded set of numbers that is not empty has a greatest element.
LEMMA Greatest ==
  ASSUME NEW S \in SUBSET Nat, NEW n \in Nat, S # {}, \A s \in S : s < n
  PROVE  \E x \in S : \A y \in S : y <= x
<1> DEFINE T == {k \in Nat : \E s \in S : k = n - s}
<1>1. T \subseteq Nat /\ T # {}
  <2>1. PICK s \in S : TRUE
    OBVIOUS
  <2>2. n - s \in T
    OBVIOUS
  <2> QED BY <2>2
<1>2. PICK x \in T : \A y \in T : ~(<<y, x>> \in OpToRel(<, Nat))
  <2> HIDE DEF T
  <2> QED BY <1>1, WFMin, NatLessThanWellFounded, Zenon
<1>3. \A y \in T : ~(y < x)
  BY <1>2 DEF OpToRel
<1> QED BY <1>3

Is(a, b) == IF a = b THEN 1 ELSE 0

\* How many elements of S hold i.
Count(S, f, i) == Cardinality({x \in S : f[x] = i})

LEMMA CountType ==
  ASSUME NEW S, IsFiniteSet(S), NEW f, NEW i
  PROVE  Count(S, f, i) \in Nat /\ (Count(S, f, i) = 0 <=> \A x \in S : f[x] # i)
<1> DEFINE F == {y \in S : f[y] = i}
<1>1. IsFiniteSet(F)
  BY FS_Subset
<1>2. Cardinality(F) \in Nat /\ (Cardinality(F) = 0 <=> F = {})
  BY <1>1, FS_CardinalityType, FS_EmptySet
<1> QED BY <1>2 DEF Count

\* The count of i when x gives up what it holds in f for what it holds in g.
Shifted(S, f, g, x, i) == Count(S, g, i) = Count(S, f, i) - Is(f[x], i) + Is(g[x], i)

LEMMA CountUpdate ==
  ASSUME NEW S, IsFiniteSet(S), NEW f, NEW g, NEW x \in S,
         \A y \in S : y # x => g[y] = f[y], NEW i
  PROVE  Shifted(S, f, g, x, i)
<1> DEFINE F == {y \in S : f[y] = i}
           G == {y \in S : g[y] = i}
<1>1. IsFiniteSet(F) /\ IsFiniteSet(G)
  BY FS_Subset
<1>2. G \ {x} = F \ {x}
  OBVIOUS
<1>3. (x \in F <=> f[x] = i) /\ (x \in G <=> g[x] = i)
  OBVIOUS
<1> HIDE DEF F, G
<1>4. /\ Cardinality(F) \in Nat /\ Cardinality(G) \in Nat
  BY <1>1, FS_CardinalityType
<1>5. Cardinality(F \ {x}) = IF x \in F THEN Cardinality(F) - 1 ELSE Cardinality(F)
  BY <1>1, FS_RemoveElement
<1>6. Cardinality(G \ {x}) = IF x \in G THEN Cardinality(G) - 1 ELSE Cardinality(G)
  BY <1>1, FS_RemoveElement
<1>7. Cardinality(G \ {x}) = Cardinality(F \ {x})
  BY <1>2
<1>8. Cardinality(G) = Cardinality(F) - Is(f[x], i) + Is(g[x], i)
  <2>1. /\ Is(f[x], i) = IF x \in F THEN 1 ELSE 0
        /\ Is(g[x], i) = IF x \in G THEN 1 ELSE 0
    BY <1>3 DEF Is
  <2> QED BY <2>1, <1>4, <1>5, <1>6, <1>7
<1> QED BY <1>8 DEF Shifted, Count, F, G

LEMMA CountSame ==
  ASSUME NEW S, NEW f, NEW g, \A x \in S : g[x] = f[x], NEW i
  PROVE  Count(S, g, i) = Count(S, f, i)
<1>1. {x \in S : g[x] = i} = {x \in S : f[x] = i}
  OBVIOUS
<1> QED BY <1>1 DEF Count

LEMMA Timestamps ==
  /\ \A a, b \in V!VTS : V!VTS__join(a, b) \in V!VTS
  /\ \A a \in V!VTS, t \in Thr : V!VTS__tick(t, a) \in V!VTS
  /\ V!VTS__singleton(Root, 1) \in V!VTS
BY DEF V!VTS, V!VTS__join, V!VTS__tick, V!VTS__singleton

\* Joining a timestamp with itself, and comparing it with itself.
LEMMA SameTimestamp ==
  ASSUME NEW a \in V!VTS
  PROVE  V!VTS__join(a, a) = a /\ V!VTS__cmp(a, a) = "EQ"
BY DEF V!VTS, V!VTS__join, V!VTS__cmp, V!VTS__leq

----------------------------------------------------------------------------
(* Tables *)

InUseIn(v, i) == i \in VtsID(v) /\ v.vts[i] # NoVTS
FreeIn(v) == {i \in VtsID(v) : v.vts[i] = NoVTS}

\* j is the greatest element of F below i, VtsID_INVALID if there is none.
Below(F, i, j) ==
  IF j = VtsID_INVALID THEN \A k \in F : k >= i
  ELSE j \in F /\ j < i /\ \A k \in F : k < i => k <= j

IsRecord(v) ==
  v = [n |-> v.n, vts |-> v.vts, rc |-> v.rc, link |-> v.link, free |-> v.free,
       set |-> v.set, jc |-> v.jc, oc |-> v.oc]
HasSlots(f) == f = [h \in Slot |-> f[h]]

Shape(v) ==
  /\ IsRecord(v)
  /\ v.n \in Nat
  /\ v.vts \in [VtsID(v) -> V!VTS \cup {NoVTS}]
  /\ v.rc \in [VtsID(v) -> Int]
  /\ v.link \in [VtsID(v) -> VtsID(v) \cup {VtsID_INVALID}]
  /\ v.free \in VtsID(v) \cup {VtsID_INVALID}
  /\ DOMAIN v.set \subseteq V!VTS
  /\ HasSlots(v.jc) /\ HasSlots(v.oc)

Consed(v) ==
  /\ \A i \in VtsID(v) : v.vts[i] # NoVTS => v.vts[i] \in DOMAIN v.set /\ v.set[v.vts[i]] = i
  /\ \A x \in DOMAIN v.set : v.set[x] \in VtsID(v) /\ v.vts[v.set[x]] = x

FreeList(v) ==
  /\ Below(FreeIn(v), v.n, v.free)
  /\ \A i \in FreeIn(v) : Below(FreeIn(v), i, v.link[i]) /\ v.rc[i] = 0

JoinEntryOK(v, e) ==
  /\ InUseIn(v, e.vi1) /\ InUseIn(v, e.vi2) /\ InUseIn(v, e.res)
  /\ v.vts[e.res] = V!VTS__join(v.vts[e.vi1], v.vts[e.vi2])
OrdEntryOK(v, e) ==
  /\ InUseIn(v, e.vi1) /\ InUseIn(v, e.vi2)
  /\ e.ord = V!VTS__cmp(v.vts[e.vi1], v.vts[e.vi2])

Coherent(v) ==
  \A h \in Slot : /\ v.jc[h] # NoJoin => JoinEntryOK(v, v.jc[h])
                  /\ v.oc[h] # NoOrd => OrdEntryOK(v, v.oc[h])

\* A table that satisfies the invariants of module VtsTab, except that the
\* reference counts may be any numbers where an entry is in use: within an
\* operation they are in motion.
TabOK(v) == Shape(v) /\ Consed(v) /\ FreeList(v) /\ Coherent(v)

\* What is in use in v is in use, with the same VTS, in w.
Keeps(v, w) ==
  /\ v.n <= w.n
  /\ \A i : InUseIn(v, i) => InUseIn(w, i) /\ w.vts[i] = v.vts[i]

\* The reference count; what is not in the table has no reference.
Rc(v, i) == IF i \in VtsID(v) THEN v.rc[i] ELSE 0

LEMMA InUseVTS ==
  ASSUME NEW v, Shape(v), NEW i, InUseIn(v, i)
  PROVE  v.vts[i] \in V!VTS /\ i \in Nat
BY DEF Shape, InUseIn, VtsID

LEMMA KeepsTrans ==
  ASSUME NEW u, NEW v, NEW w, u.n \in Nat, v.n \in Nat, w.n \in Nat, Keeps(u, v), Keeps(v, w)
  PROVE  Keeps(u, w)
BY DEF Keeps

LEMMA KeepsRefl == ASSUME NEW v, v.n \in Nat PROVE Keeps(v, v)
BY DEF Keeps

\* A table with the same entries and other counts.
LEMMA Recounted ==
  ASSUME NEW v, TabOK(v), NEW w, Shape(w),
         w.n = v.n, w.vts = v.vts, w.link = v.link, w.free = v.free, w.set = v.set,
         w.jc = v.jc, w.oc = v.oc, \A i \in FreeIn(v) : w.rc[i] = v.rc[i]
  PROVE  TabOK(w) /\ Keeps(v, w)
<1>1. VtsID(w) = VtsID(v) /\ FreeIn(w) = FreeIn(v) /\ \A i : InUseIn(w, i) <=> InUseIn(v, i)
  BY DEF VtsID, FreeIn, InUseIn
<1>2. Consed(w)
  BY <1>1 DEF TabOK, Consed
<1>3. FreeList(w)
  BY <1>1 DEF TabOK, FreeList
<1>4. Coherent(w)
  BY <1>1 DEF TabOK, Coherent, JoinEntryOK, OrdEntryOK
<1>5. Keeps(v, w)
  BY <1>1 DEF Keeps, TabOK, Shape
<1> QED BY <1>2, <1>3, <1>4, <1>5 DEF TabOK

LEMMA CountChange ==
  ASSUME NEW v, TabOK(v), NEW k, InUseIn(v, k), NEW d \in Int, NEW rc \in [VtsID(v) -> Int],
         \A i \in VtsID(v) : rc[i] = IF i = k THEN v.rc[i] + d ELSE v.rc[i],
         NEW w, w = [v EXCEPT !.rc = rc]
  PROVE  /\ TabOK(w) /\ Keeps(v, w)
         /\ \A i \in Nat : Rc(w, i) = IF i = k THEN Rc(v, i) + d ELSE Rc(v, i)
<1>1. k \in VtsID(v) /\ v.rc \in [VtsID(v) -> Int] /\ k \notin FreeIn(v)
  BY DEF TabOK, Shape, InUseIn, FreeIn
<1>2. w = [n |-> v.n, vts |-> v.vts, rc |-> rc, link |-> v.link, free |-> v.free,
           set |-> v.set, jc |-> v.jc, oc |-> v.oc]
  BY DEF TabOK, Shape, IsRecord
<1>4. /\ w.n = v.n /\ w.vts = v.vts /\ w.rc = rc /\ w.link = v.link /\ w.free = v.free
      /\ w.set = v.set /\ w.jc = v.jc /\ w.oc = v.oc /\ VtsID(w) = VtsID(v)
  BY <1>2 DEF VtsID
<1>5. Shape(w)
  <2>1. IsRecord(w)
    BY <1>2 DEF IsRecord
  <2> QED BY <1>4, <2>1 DEF TabOK, Shape
<1>6. \A i \in FreeIn(v) : w.rc[i] = v.rc[i]
  BY <1>1, <1>4 DEF FreeIn
<1>7. TabOK(w) /\ Keeps(v, w)
  BY <1>4, <1>5, <1>6, Recounted
<1>8. \A i \in Nat : Rc(w, i) = IF i = k THEN Rc(v, i) + d ELSE Rc(v, i)
  BY <1>1, <1>4 DEF Rc
<1> QED BY <1>7, <1>8

LEMMA RcInc ==
  ASSUME NEW v, TabOK(v), NEW k, InUseIn(v, k), NEW w, w = VtsID__rcinc(v, k)
  PROVE  TabOK(w) /\ Keeps(v, w) /\ \A i \in Nat : Rc(w, i) = Rc(v, i) + Is(k, i)
<1>1. v.rc \in [VtsID(v) -> Int] /\ k \in VtsID(v) /\ \A i \in Nat : Rc(v, i) \in Int
  BY DEF Rc, TabOK, Shape, InUseIn
<1>2. PICK rc : rc = [v.rc EXCEPT ![k] = @ + 1]
  OBVIOUS
<1>3. w = [v EXCEPT !.rc = rc]
  BY <1>2 DEF VtsID__rcinc
<1>4. /\ rc \in [VtsID(v) -> Int]
      /\ \A i \in VtsID(v) : rc[i] = IF i = k THEN v.rc[i] + 1 ELSE v.rc[i]
  BY <1>1, <1>2
<1>5. 1 \in Int
  OBVIOUS
<1>6. /\ TabOK(w) /\ Keeps(v, w)
      /\ \A i \in Nat : Rc(w, i) = IF i = k THEN Rc(v, i) + 1 ELSE Rc(v, i)
  BY <1>3, <1>4, <1>5, CountChange
<1> QED BY <1>1, <1>6 DEF Is

LEMMA RcDec ==
  ASSUME NEW v, TabOK(v), NEW k, InUseIn(v, k), NEW w, w = VtsID__rcdec(v, k)
  PROVE  TabOK(w) /\ Keeps(v, w) /\ \A i \in Nat : Rc(w, i) = Rc(v, i) - Is(k, i)
<1>1. v.rc \in [VtsID(v) -> Int] /\ k \in VtsID(v) /\ \A i \in Nat : Rc(v, i) \in Int
  BY DEF Rc, TabOK, Shape, InUseIn
<1>2. PICK rc : rc = [v.rc EXCEPT ![k] = @ - 1]
  OBVIOUS
<1>3. w = [v EXCEPT !.rc = rc]
  BY <1>2 DEF VtsID__rcdec
<1>4. /\ rc \in [VtsID(v) -> Int]
      /\ \A i \in VtsID(v) : rc[i] = IF i = k THEN v.rc[i] + (-1) ELSE v.rc[i]
  BY <1>1, <1>2
<1>5. -1 \in Int
  OBVIOUS
<1>6. /\ TabOK(w) /\ Keeps(v, w)
      /\ \A i \in Nat : Rc(w, i) = IF i = k THEN Rc(v, i) + (-1) ELSE Rc(v, i)
  BY <1>3, <1>4, <1>5, CountChange
<1> QED BY <1>1, <1>6 DEF Is

\* What a thread, an SO or a cell may hold.
Holdable(v, i) == i = VtsID_INVALID \/ InUseIn(v, i)

LEMMA HoldableKept ==
  ASSUME NEW v, NEW w, Keeps(v, w), NEW i, Holdable(v, i)
  PROVE  Holdable(w, i)
BY DEF Keeps, Holdable

LEMMA RcIncMaybeOK ==
  ASSUME NEW v, TabOK(v), NEW k, Holdable(v, k), NEW w, w = RcIncMaybe(v, k)
  PROVE  TabOK(w) /\ Keeps(v, w) /\ \A i \in Nat : Rc(w, i) = Rc(v, i) + Is(k, i)
<1>1. CASE k = VtsID_INVALID
  <2>1. w = v /\ v.n \in Nat /\ \A i \in Nat : Rc(v, i) \in Int /\ Is(k, i) = 0
    BY <1>1, IDAssumption DEF RcIncMaybe, Is, TabOK, Shape, Rc
  <2> QED BY <2>1, KeepsRefl
<1>2. CASE k # VtsID_INVALID
  BY <1>2, RcInc DEF RcIncMaybe, Holdable
<1> QED BY <1>1, <1>2

LEMMA RcDecMaybeOK ==
  ASSUME NEW v, TabOK(v), NEW k, Holdable(v, k), NEW w, w = RcDecMaybe(v, k)
  PROVE  TabOK(w) /\ Keeps(v, w) /\ \A i \in Nat : Rc(w, i) = Rc(v, i) - Is(k, i)
<1>1. CASE k = VtsID_INVALID
  <2>1. w = v /\ v.n \in Nat /\ \A i \in Nat : Rc(v, i) \in Int /\ Is(k, i) = 0
    BY <1>1, IDAssumption DEF RcDecMaybe, Is, TabOK, Shape, Rc
  <2> QED BY <2>1, KeepsRefl
<1>2. CASE k # VtsID_INVALID
  BY <1>2, RcDec DEF RcDecMaybe, Holdable
<1> QED BY <1>1, <1>2

\* A cached result stays right.
LEMMA EntriesKept ==
  ASSUME NEW v, NEW w, Keeps(v, w), NEW e
  PROVE  /\ JoinEntryOK(v, e) => JoinEntryOK(w, e)
         /\ OrdEntryOK(v, e) => OrdEntryOK(w, e)
<1>1. ASSUME JoinEntryOK(v, e) PROVE JoinEntryOK(w, e)
  <2>1. InUseIn(v, e.vi1) /\ InUseIn(v, e.vi2) /\ InUseIn(v, e.res)
    BY <1>1 DEF JoinEntryOK
  <2>2. /\ InUseIn(w, e.vi1) /\ InUseIn(w, e.vi2) /\ InUseIn(w, e.res)
        /\ w.vts[e.vi1] = v.vts[e.vi1] /\ w.vts[e.vi2] = v.vts[e.vi2]
        /\ w.vts[e.res] = v.vts[e.res]
    BY <2>1 DEF Keeps
  <2> QED BY <1>1, <2>2 DEF JoinEntryOK
<1>2. ASSUME OrdEntryOK(v, e) PROVE OrdEntryOK(w, e)
  <2>1. InUseIn(v, e.vi1) /\ InUseIn(v, e.vi2)
    BY <1>2 DEF OrdEntryOK
  <2>2. /\ InUseIn(w, e.vi1) /\ InUseIn(w, e.vi2)
        /\ w.vts[e.vi1] = v.vts[e.vi1] /\ w.vts[e.vi2] = v.vts[e.vi2]
    BY <2>1 DEF Keeps
  <2> QED BY <1>2, <2>2 DEF OrdEntryOK
<1> QED BY <1>1, <1>2

\* A timestamp is entered, or found: its entry is in use afterwards, nothing
\* that was in use has changed and no reference count has.
LEMMA Added ==
  ASSUME NEW v, TabOK(v), NEW cand \in V!VTS, NEW w, NEW ii, ii = IdOf(v, cand),
         w = vts_tab__find_and_dealloc__or_add(v, cand)
  PROVE  /\ TabOK(w) /\ Keeps(v, w) /\ InUseIn(w, ii) /\ w.vts[ii] = cand
         /\ \A i \in Nat : Rc(w, i) = Rc(v, i)
<1> USE DEF TabOK
<1>1. cand # NoVTS /\ v.n \in Nat
  BY ClockAssumption DEF Shape
<1>2. CASE cand \in DOMAIN v.set
  <2>1. w = v /\ ii = v.set[cand]
    BY <1>2 DEF vts_tab__find_and_dealloc__or_add, IdOf
  <2>2. InUseIn(v, ii) /\ v.vts[ii] = cand
    BY <1>1, <1>2, <2>1 DEF Consed, InUseIn
  <2> QED BY <1>1, <2>1, <2>2, KeepsRefl
<1>3. CASE cand \notin DOMAIN v.set
  <2>1. ii = IF v.free # VtsID_INVALID THEN v.free ELSE v.n
    BY <1>3 DEF IdOf, get_new_VtsID
  <2>2. /\ w.n = IF v.free # VtsID_INVALID THEN v.n ELSE v.n + 1
        /\ w.free = IF v.free # VtsID_INVALID THEN v.link[v.free] ELSE v.free
        /\ w.vts = [i \in DOMAIN v.vts \cup {ii} |-> IF i = ii THEN cand ELSE v.vts[i]]
        /\ w.rc = [i \in DOMAIN v.rc \cup {ii} |-> IF i = ii THEN 0 ELSE v.rc[i]]
        /\ w.link = [i \in DOMAIN v.link \cup {ii} |-> IF i = ii THEN VtsID_INVALID
                                                                  ELSE v.link[i]]
        /\ w.set = [x \in DOMAIN v.set \cup {cand} |-> IF x = cand THEN ii ELSE v.set[x]]
        /\ w.jc = v.jc /\ w.oc = v.oc
        /\ IsRecord(w)
    BY <1>3, <2>1 DEF vts_tab__find_and_dealloc__or_add, get_new_VtsID, IdOf, Shape, IsRecord
  <2>3. v.free # VtsID_INVALID => v.free \in FreeIn(v) /\ v.free < v.n
    BY DEF FreeList, Below
  <2>4. v.free = VtsID_INVALID => FreeIn(v) = {}
    BY <1>1 DEF FreeList, Below, FreeIn, VtsID
  <2>5. VtsID(w) = VtsID(v) \cup {ii} /\ ii \in Nat /\ w.n \in Nat /\ v.n <= w.n
    BY <1>1, <2>1, <2>2, <2>3 DEF VtsID, FreeIn
  <2>6. ~InUseIn(v, ii)
    BY <1>1, <2>1, <2>3 DEF InUseIn, FreeIn, VtsID
  <2>7. /\ DOMAIN v.vts = VtsID(v) /\ DOMAIN v.rc = VtsID(v) /\ DOMAIN v.link = VtsID(v)
    BY DEF Shape
  <2>8. /\ w.vts[ii] = cand /\ w.rc[ii] = 0
        /\ \A i \in VtsID(v) : i # ii => /\ w.vts[i] = v.vts[i] /\ w.rc[i] = v.rc[i]
                                         /\ w.link[i] = v.link[i]
    BY <2>2, <2>7
  <2>9. InUseIn(w, ii) /\ \A i : i # ii => (InUseIn(w, i) <=> InUseIn(v, i))
    BY <1>1, <2>5, <2>8 DEF InUseIn
  <2>10. Keeps(v, w)
    BY <2>5, <2>6, <2>8, <2>9 DEF Keeps, InUseIn
  <2>11. Shape(w)
    <3>1. w.vts \in [VtsID(w) -> V!VTS \cup {NoVTS}] /\ w.rc \in [VtsID(w) -> Int]
      BY <2>2, <2>5, <2>7 DEF Shape
    <3>2. w.link \in [VtsID(w) -> VtsID(w) \cup {VtsID_INVALID}]
      BY <2>2, <2>5, <2>7 DEF Shape
    <3>3. w.free \in VtsID(w) \cup {VtsID_INVALID}
      BY <2>2, <2>3, <2>5 DEF Shape, FreeIn
    <3>4. DOMAIN w.set \subseteq V!VTS
      BY <2>2 DEF Shape
    <3>5. HasSlots(w.jc) /\ HasSlots(w.oc)
      BY <2>2 DEF Shape
    <3> QED BY <2>2, <2>5, <3>1, <3>2, <3>3, <3>4, <3>5 DEF Shape
  <2>12. Consed(w)
    <3>1. DOMAIN w.set = DOMAIN v.set \cup {cand} /\ w.set[cand] = ii
          /\ \A x \in DOMAIN v.set : w.set[x] = v.set[x]
      BY <1>3, <2>2
    <3>2. \A x \in DOMAIN v.set : v.set[x] \in VtsID(v) /\ v.set[x] # ii
      BY <2>6, ClockAssumption DEF Consed, InUseIn, Shape
    <3>3. \A x \in DOMAIN w.set : w.set[x] \in VtsID(w) /\ w.vts[w.set[x]] = x
      BY <2>5, <2>8, <3>1, <3>2 DEF Consed
    <3>4. ASSUME NEW i \in VtsID(w), w.vts[i] # NoVTS
          PROVE  w.vts[i] \in DOMAIN w.set /\ w.set[w.vts[i]] = i
      <4>1. CASE i = ii
        BY <4>1, <2>8, <3>1
      <4>2. CASE i # ii
        BY <4>2, <2>5, <2>8, <3>1, <3>4 DEF Consed
      <4> QED BY <4>1, <4>2
    <3> QED BY <3>3, <3>4 DEF Consed
  <2>13. FreeIn(w) = FreeIn(v) \ {ii}
    BY <1>1, <2>5, <2>8 DEF FreeIn
  <2>14. FreeList(w)
    <3>1. CASE v.free = VtsID_INVALID
      BY <3>1, <2>2, <2>4, <2>13 DEF FreeList, Below
    <3>2. CASE v.free # VtsID_INVALID
      <4>1. ii = v.free /\ ii \in FreeIn(v) /\ w.n = v.n /\ w.free = v.link[ii]
        BY <3>2, <2>1, <2>2, <2>3
      <4>2. \A k \in FreeIn(v) : k \in Nat /\ k < v.n /\ k <= ii
        BY <3>2, <4>1, <1>1 DEF FreeList, Below, FreeIn, VtsID
      <4>3. Below(FreeIn(v), ii, v.link[ii])
        BY <4>1 DEF FreeList
      <4>4. Below(FreeIn(w), w.n, w.free)
        BY <4>1, <4>2, <4>3, <1>1, <2>13 DEF Below
      <4>5. ASSUME NEW i \in FreeIn(w) PROVE Below(FreeIn(w), i, w.link[i]) /\ w.rc[i] = 0
        <5>1. i \in FreeIn(v) /\ i # ii /\ w.link[i] = v.link[i] /\ w.rc[i] = v.rc[i]
          BY <2>8, <2>13 DEF FreeIn
        <5>2. Below(FreeIn(v), i, v.link[i]) /\ v.rc[i] = 0
          BY <5>1 DEF FreeList
        <5>3. i < ii
          BY <5>1, <4>1, <4>2
        <5> QED BY <5>1, <5>2, <5>3, <4>2, <2>13 DEF Below
      <4> QED BY <4>4, <4>5 DEF FreeList
    <3> QED BY <3>1, <3>2
  <2>15. Coherent(w)
    BY <2>2, <2>10, EntriesKept DEF Coherent
  <2>16. ASSUME NEW i \in Nat PROVE Rc(w, i) = Rc(v, i)
    <3>1. CASE i = ii
      <4>1. ii \in VtsID(v) => v.rc[ii] = 0
        BY <2>6 DEF FreeList, FreeIn, InUseIn
      <4> QED BY <3>1, <4>1, <2>5, <2>8 DEF Rc
    <3>2. CASE i # ii
      BY <3>2, <2>5, <2>8 DEF Rc
    <3> QED BY <3>1, <3>2
  <2> QED BY <2>8, <2>9, <2>10, <2>11, <2>12, <2>14, <2>15, <2>16
<1> QED BY <1>2, <1>3

\* A table that differs in its result caches only.
LEMMA Recached ==
  ASSUME NEW v, TabOK(v), NEW w, IsRecord(w), w.n = v.n, w.vts = v.vts, w.rc = v.rc,
         w.link = v.link, w.free = v.free, w.set = v.set, HasSlots(w.jc), HasSlots(w.oc),
         \A h \in Slot : /\ w.jc[h] # NoJoin => JoinEntryOK(v, w.jc[h])
                         /\ w.oc[h] # NoOrd => OrdEntryOK(v, w.oc[h])
  PROVE  TabOK(w) /\ Keeps(v, w) /\ \A i \in Nat : Rc(w, i) = Rc(v, i)
<1>1. VtsID(w) = VtsID(v) /\ v.n \in Nat
  BY DEF TabOK, Shape, VtsID
<1>2. Shape(w)
  BY <1>1 DEF TabOK, Shape
<1>3. FreeIn(w) = FreeIn(v) /\ \A i : InUseIn(w, i) <=> InUseIn(v, i)
  BY <1>1 DEF FreeIn, InUseIn
<1>4. Consed(w) /\ FreeList(w)
  BY <1>1, <1>3 DEF TabOK, Consed, FreeList
<1>5. Keeps(v, w)
  BY <1>1, <1>3 DEF Keeps
<1>6. Coherent(w)
  BY <1>5, EntriesKept DEF Coherent
<1>7. \A i \in Nat : Rc(w, i) = Rc(v, i)
  BY <1>1 DEF Rc
<1> QED BY <1>2, <1>4, <1>5, <1>6, <1>7 DEF TabOK

\* VtsID__join2 answers with the VtsID of the join, from the cache or not.
LEMMA Join2OK ==
  ASSUME NEW v, TabOK(v), NEW i, InUseIn(v, i), NEW j, InUseIn(v, j),
         NEW w, w = VtsID__join2(v, i, j), NEW r, r = Join2Id(v, i, j)
  PROVE  /\ TabOK(w) /\ Keeps(v, w) /\ InUseIn(w, r)
         /\ w.vts[r] = V!VTS__join(v.vts[i], v.vts[j])
         /\ \A k \in Nat : Rc(w, k) = Rc(v, k)
<1> DEFINE h == hash_VtsIDs(i, j)
<1>1. /\ v.vts[i] \in V!VTS /\ v.vts[j] \in V!VTS /\ i \in Nat /\ j \in Nat /\ v.n \in Nat
      /\ Joined(v, i, j) \in V!VTS /\ Joined(v, i, j) = V!VTS__join(v.vts[i], v.vts[j])
  BY InUseVTS, Timestamps DEF TabOK, Shape, Joined
<1>2. h \in Slot
  BY <1>1, HashInSlot
<1>3. CASE i = j
  BY <1>1, <1>3, KeepsRefl, SameTimestamp DEF VtsID__join2, Join2Id
<1>4. CASE i # j /\ JoinHit(v, i, j)
  <2>1. w = v /\ r = v.jc[h].res /\ v.jc[h].vi1 = i /\ v.jc[h].vi2 = j
    BY <1>4 DEF VtsID__join2, Join2Id, JoinHit
  <2>2. v.jc[h] # NoJoin
    BY <1>1, <2>1, IDAssumption DEF NoJoin
  <2>3. JoinEntryOK(v, v.jc[h])
    BY <1>2, <2>2 DEF TabOK, Coherent
  <2> QED BY <1>1, <2>1, <2>3, KeepsRefl DEF JoinEntryOK
<1>5. CASE i # j /\ ~JoinHit(v, i, j)
  <2>0. PICK cand \in V!VTS : cand = Joined(v, i, j)
    BY <1>1
  <2>1. PICK u : u = vts_tab__find_and_dealloc__or_add(v, cand)
    OBVIOUS
  <2>2. r = IdOf(v, cand)
    BY <1>5, <2>0 DEF Join2Id
  <2>3. /\ TabOK(u) /\ Keeps(v, u) /\ InUseIn(u, r) /\ u.vts[r] = cand
        /\ \A k \in Nat : Rc(u, k) = Rc(v, k)
    BY <2>1, <2>2, Added
  <2>4. PICK e : e = [vi1 |-> i, vi2 |-> j, res |-> r]
    OBVIOUS
  <2>5. w = [u EXCEPT !.jc = [u.jc EXCEPT ![h] = e]]
    BY <1>5, <2>0, <2>1, <2>2, <2>4 DEF VtsID__join2
  <2>6. JoinEntryOK(u, e)
    BY <1>1, <2>0, <2>3, <2>4 DEF JoinEntryOK, Keeps
  <2>7. /\ w.jc = [u.jc EXCEPT ![h] = e] /\ w.oc = u.oc /\ IsRecord(w)
        /\ w.n = u.n /\ w.vts = u.vts /\ w.rc = u.rc /\ w.link = u.link /\ w.free = u.free
        /\ w.set = u.set
    BY <2>3, <2>5 DEF TabOK, Shape, IsRecord
  <2>8. HasSlots(w.jc) /\ \A g \in Slot : w.jc[g] = IF g = h THEN e ELSE u.jc[g]
    BY <2>3, <2>7, <1>2 DEF TabOK, Shape, HasSlots
  <2>9. HasSlots(w.oc)
    BY <2>3, <2>7 DEF TabOK, Shape
  <2>10. \A g \in Slot : /\ w.jc[g] # NoJoin => JoinEntryOK(u, w.jc[g])
                         /\ w.oc[g] # NoOrd => OrdEntryOK(u, w.oc[g])
    BY <2>3, <2>6, <2>7, <2>8 DEF TabOK, Coherent
  <2>11. TabOK(w) /\ Keeps(u, w) /\ \A k \in Nat : Rc(w, k) = Rc(u, k)
    BY <2>3, <2>7, <2>8, <2>9, <2>10, Recached
  <2>12. Keeps(v, w)
    BY <1>1, <2>3, <2>11, KeepsTrans DEF TabOK, Shape
  <2>13. InUseIn(w, r) /\ w.vts[r] = u.vts[r]
    BY <2>3, <2>11 DEF Keeps
  <2> QED BY <1>1, <2>0, <2>3, <2>11, <2>12, <2>13
<1> QED BY <1>3, <1>4, <1>5

\* VtsID__getOrdering answers with the order of the timestamps.
LEMMA OrderingOK ==
  ASSUME NEW v, TabOK(v), NEW i, InUseIn(v, i), NEW j, InUseIn(v, j),
         NEW w, w = VtsID__getOrdering(v, i, j)
  PROVE  /\ TabOK(w) /\ Keeps(v, w) /\ \A k \in Nat : Rc(w, k) = Rc(v, k)
         /\ OrdOf(v, i, j) = V!VTS__cmp(v.vts[i], v.vts[j])
<1> DEFINE h == hash_VtsIDs(i, j)
<1>1. v.vts[i] \in V!VTS /\ v.vts[j] \in V!VTS /\ i \in Nat /\ j \in Nat /\ v.n \in Nat
  BY InUseVTS DEF TabOK, Shape
<1>2. h \in Slot
  BY <1>1, HashInSlot
<1>3. CASE i = j
  BY <1>1, <1>3, KeepsRefl, SameTimestamp DEF VtsID__getOrdering, OrdOf
<1>4. CASE i # j /\ OrdHit(v, i, j)
  <2>1. /\ w = v /\ OrdOf(v, i, j) = v.oc[h].ord
        /\ v.oc[h].vi1 = i /\ v.oc[h].vi2 = j
    BY <1>4 DEF VtsID__getOrdering, OrdOf, OrdHit
  <2>2. v.oc[h] # NoOrd
    BY <1>1, <2>1, IDAssumption DEF NoOrd
  <2>3. OrdEntryOK(v, v.oc[h])
    BY <1>2, <2>2 DEF TabOK, Coherent
  <2> QED BY <1>1, <2>1, <2>3, KeepsRefl DEF OrdEntryOK
<1>5. CASE i # j /\ ~OrdHit(v, i, j)
  <2>1. PICK e : e = [vi1 |-> i, vi2 |-> j, ord |-> V!VTS__cmp(v.vts[i], v.vts[j])]
    OBVIOUS
  <2>2. w = [v EXCEPT !.oc = [v.oc EXCEPT ![h] = e]]
    BY <1>5, <2>1 DEF VtsID__getOrdering
  <2>3. OrdEntryOK(v, e)
    BY <2>1 DEF OrdEntryOK
  <2>4. /\ w.oc = [v.oc EXCEPT ![h] = e] /\ w.jc = v.jc /\ IsRecord(w)
        /\ w.n = v.n /\ w.vts = v.vts /\ w.rc = v.rc /\ w.link = v.link /\ w.free = v.free
        /\ w.set = v.set
    BY <2>2 DEF TabOK, Shape, IsRecord
  <2>5. HasSlots(w.oc) /\ \A g \in Slot : w.oc[g] = IF g = h THEN e ELSE v.oc[g]
    BY <2>4, <1>2 DEF TabOK, Shape, HasSlots
  <2>6. HasSlots(w.jc)
    BY <2>4 DEF TabOK, Shape
  <2>7. \A g \in Slot : /\ w.jc[g] # NoJoin => JoinEntryOK(v, w.jc[g])
                        /\ w.oc[g] # NoOrd => OrdEntryOK(v, w.oc[g])
    BY <2>3, <2>4, <2>5 DEF TabOK, Coherent
  <2>8. TabOK(w) /\ Keeps(v, w) /\ \A k \in Nat : Rc(w, k) = Rc(v, k)
    BY <2>4, <2>5, <2>6, <2>7, Recached
  <2>9. OrdOf(v, i, j) = V!VTS__cmp(v.vts[i], v.vts[j])
    BY <1>5 DEF OrdOf
  <2> QED BY <2>8, <2>9
<1> QED BY <1>3, <1>4, <1>5

LEMMA TickOK ==
  ASSUME NEW v, TabOK(v), NEW i, InUseIn(v, i), NEW t \in Thr,
         NEW w, w = VtsID__tick(v, i, t), NEW r, r = TickId(v, i, t)
  PROVE  /\ TabOK(w) /\ Keeps(v, w) /\ InUseIn(w, r)
         /\ w.vts[r] = V!VTS__tick(t, v.vts[i])
         /\ \A k \in Nat : Rc(w, k) = Rc(v, k)
<1>1. V!VTS__tick(t, v.vts[i]) \in V!VTS
  BY InUseVTS, Timestamps DEF TabOK
<1>2. PICK cand \in V!VTS : cand = V!VTS__tick(t, v.vts[i])
  BY <1>1
<1>3. w = vts_tab__find_and_dealloc__or_add(v, cand) /\ r = IdOf(v, cand)
  BY <1>2 DEF VtsID__tick, TickId
<1> QED BY <1>2, <1>3, Added

----------------------------------------------------------------------------
(* Shadow memory and its cache *)

LEMMA IsType == \A a, b : Is(a, b) \in {0, 1}
BY DEF Is

LEMMA RcType == ASSUME NEW v, TabOK(v), NEW i PROVE Rc(v, i) \in Int
BY DEF TabOK, Shape, Rc

MaybeID(v) == VtsID(v) \cup {VtsID_INVALID}

MemOK(m) ==
  /\ m = [vt |-> m.vt, line |-> m.line, tags |-> m.tags, lyns |-> m.lyns]
  /\ TabOK(m.vt)
  /\ m.line \in [Cell -> MaybeID(m.vt)] /\ \A c \in Cell : Holdable(m.vt, m.line[c])
  /\ m.tags \in [Way -> Cell \cup {NoCell}]
  /\ m.lyns \in [Way -> MaybeID(m.vt)]
  /\ \A w \in Way : m.tags[w] # NoCell => /\ WayOf(m.tags[w]) = w
                                          /\ Holdable(m.vt, m.lyns[w])

\* The value of a cell, wherever it is; the references that are not cells'.
Value(m, c) == IF m.tags[WayOf(c)] = c THEN m.lyns[WayOf(c)] ELSE m.line[c]
Others(m, i) == Rc(m.vt, i) - Count(Cell, m.line, i)

LEMMA HoldableType == ASSUME NEW v, NEW i, Holdable(v, i) PROVE i \in MaybeID(v)
BY DEF Holdable, InUseIn, MaybeID

LEMMA MaybeIDGrows ==
  ASSUME NEW v, NEW w, TabOK(v), TabOK(w), Keeps(v, w)
  PROVE  MaybeID(v) \subseteq MaybeID(w)
BY DEF TabOK, Shape, Keeps, MaybeID, VtsID

\* The memory with another table that keeps what is in use.
LEMMA MemKept ==
  ASSUME NEW m, MemOK(m), NEW v, TabOK(v), Keeps(m.vt, v), NEW mm,
         mm = [vt |-> v, line |-> m.line, tags |-> m.tags, lyns |-> m.lyns]
  PROVE  MemOK(mm) /\ \A c : Value(mm, c) = Value(m, c)
<1>1. MaybeID(m.vt) \subseteq MaybeID(v)
  BY MaybeIDGrows DEF MemOK
<1>2. mm.vt = v /\ mm.line = m.line /\ mm.tags = m.tags /\ mm.lyns = m.lyns
  OBVIOUS
<1>3. mm.line \in [Cell -> MaybeID(mm.vt)] /\ mm.lyns \in [Way -> MaybeID(mm.vt)]
  BY <1>1, <1>2 DEF MemOK
<1>4. \A i : Holdable(m.vt, i) => Holdable(mm.vt, i)
  BY <1>2, HoldableKept
<1>5. mm = [vt |-> mm.vt, line |-> mm.line, tags |-> mm.tags, lyns |-> mm.lyns]
  OBVIOUS
<1> QED BY <1>2, <1>3, <1>4, <1>5 DEF MemOK, Value

\* A line is written back: no cell changes its value, and the counts follow
\* the backing store.
LEMMA WbackOK ==
  ASSUME NEW m, MemOK(m), NEW w \in Way, m.tags[w] # NoCell, NEW mm, mm = cacheline_wback(m, w)
  PROVE  /\ MemOK(mm) /\ Keeps(m.vt, mm.vt) /\ mm.tags = m.tags /\ mm.lyns = m.lyns
         /\ \A c \in Cell : c # m.tags[w] => mm.line[c] = m.line[c]
         /\ mm.line[m.tags[w]] = m.lyns[w]
         /\ \A i \in Nat : Others(mm, i) = Others(m, i)
<1>1. PICK c \in Cell : c = m.tags[w]
  BY DEF MemOK
<1>2. PICK v1, v2 : v1 = RcDecMaybe(m.vt, m.line[c]) /\ v2 = RcIncMaybe(v1, m.lyns[w])
  OBVIOUS
<1>3. TabOK(v1) /\ Keeps(m.vt, v1) /\ \A i \in Nat : Rc(v1, i) = Rc(m.vt, i) - Is(m.line[c], i)
  <2>1. TabOK(m.vt) /\ Holdable(m.vt, m.line[c])
    BY DEF MemOK
  <2> QED BY <1>2, <2>1, RcDecMaybeOK
<1>4. TabOK(v2) /\ Keeps(v1, v2) /\ \A i \in Nat : Rc(v2, i) = Rc(v1, i) + Is(m.lyns[w], i)
  <2>1. Holdable(v1, m.lyns[w])
    BY <1>3, HoldableKept DEF MemOK
  <2> QED BY <1>2, <1>3, <2>1, RcIncMaybeOK
<1>5. Keeps(m.vt, v2)
  BY <1>3, <1>4, KeepsTrans DEF MemOK, TabOK, Shape
<1>6. PICK line2 : line2 = [m.line EXCEPT ![c] = m.lyns[w]]
  OBVIOUS
<1>7. mm = [vt |-> v2, line |-> line2, tags |-> m.tags, lyns |-> m.lyns]
  BY <1>1, <1>2, <1>6 DEF cacheline_wback, MemOK
<1>8. line2[c] = m.lyns[w] /\ \A d \in Cell : d # c => line2[d] = m.line[d]
  BY <1>6 DEF MemOK
<1>9. PICK m2 : m2 = [vt |-> v2, line |-> m.line, tags |-> m.tags, lyns |-> m.lyns]
  OBVIOUS
<1>10. MemOK(m2)
  BY <1>4, <1>5, <1>9, MemKept
<1>11. MemOK(mm)
  <2>1. mm.vt = v2 /\ mm.line = line2 /\ mm.tags = m.tags /\ mm.lyns = m.lyns
    BY <1>7
  <2>2. mm = [vt |-> mm.vt, line |-> mm.line, tags |-> mm.tags, lyns |-> mm.lyns]
    BY <1>7
  <2>3. /\ m.lyns[w] \in MaybeID(v2) /\ Holdable(v2, m.lyns[w])
        /\ m.line \in [Cell -> MaybeID(v2)] /\ \A d \in Cell : Holdable(v2, m.line[d])
    BY <1>1, <1>9, <1>10 DEF MemOK
  <2>4. line2 \in [Cell -> MaybeID(v2)] /\ \A d \in Cell : Holdable(v2, line2[d])
    BY <1>6, <1>8, <2>3
  <2> QED BY <1>4, <1>9, <1>10, <2>1, <2>2, <2>4 DEF MemOK
<1>12. ASSUME NEW i \in Nat PROVE Others(mm, i) = Others(m, i)
  <2>1. Count(Cell, line2, i) = Count(Cell, m.line, i) - Is(m.line[c], i) + Is(line2[c], i)
    <3>1. IsFiniteSet(Cell) /\ \A y \in Cell : y # c => line2[y] = m.line[y]
      BY <1>8, FiniteAssumption
    <3>2. Shifted(Cell, m.line, line2, c, i)
      BY <3>1, CountUpdate
    <3> QED BY <3>2 DEF Shifted
  <2>2. Count(Cell, m.line, i) \in Int /\ Rc(m.vt, i) \in Int
    BY CountType, RcType, FiniteAssumption DEF MemOK
  <2>3. Is(m.line[c], i) \in Int /\ Is(m.lyns[w], i) \in Int
    BY IsType
  <2>4. Rc(v2, i) = Rc(m.vt, i) - Is(m.line[c], i) + Is(m.lyns[w], i)
    BY <1>3, <1>4
  <2>5. mm.vt = v2 /\ mm.line = line2
    BY <1>7
  <2> QED BY <1>8, <2>1, <2>2, <2>3, <2>4, <2>5 DEF Others
<1> QED BY <1>1, <1>5, <1>7, <1>8, <1>11, <1>12

\* A line comes into the cache, perhaps in place of another: every cell keeps
\* its value.
LEMMA GetLineOK ==
  ASSUME NEW m, MemOK(m), NEW c \in Cell, NEW mm, mm = get_cacheline(m, c)
  PROVE  /\ MemOK(mm) /\ Keeps(m.vt, mm.vt)
         /\ mm.tags[WayOf(c)] = c /\ mm.lyns[WayOf(c)] = Value(m, c)
         /\ \A d \in Cell : Value(mm, d) = Value(m, d)
         /\ \A i \in Nat : Others(mm, i) = Others(m, i)
<1>1. PICK w \in Way : w = WayOf(c)
  BY WayInWay
<1>2. c # NoCell /\ m.vt.n \in Nat
  BY NoCellAssumption DEF MemOK, TabOK, Shape
<1>3. CASE m.tags[w] = c
  BY <1>1, <1>2, <1>3, KeepsRefl DEF get_cacheline, Value
<1>4. CASE m.tags[w] # c
  <2>1. PICK m1 : m1 = IF m.tags[w] = NoCell THEN m ELSE cacheline_wback(m, w)
    OBVIOUS
  <2>2. mm = [m1 EXCEPT !.tags[w] = c, !.lyns[w] = m1.line[c]]
    BY <1>1, <1>4, <2>1 DEF get_cacheline
  <2>3. /\ MemOK(m1) /\ Keeps(m.vt, m1.vt) /\ m1.tags = m.tags /\ m1.lyns = m.lyns
        /\ \A d \in Cell : d # m.tags[w] => m1.line[d] = m.line[d]
        /\ m.tags[w] # NoCell => m1.line[m.tags[w]] = m.lyns[w]
        /\ \A i \in Nat : Others(m1, i) = Others(m, i)
    <3>1. CASE m.tags[w] = NoCell
      BY <3>1, <1>2, <2>1, KeepsRefl
    <3>2. CASE m.tags[w] # NoCell
      BY <3>2, <2>1, WbackOK
    <3> QED BY <3>1, <3>2
  <2>4. /\ mm.vt = m1.vt /\ mm.line = m1.line
        /\ mm.tags = [m.tags EXCEPT ![w] = c] /\ mm.lyns = [m.lyns EXCEPT ![w] = m1.line[c]]
        /\ mm = [vt |-> mm.vt, line |-> mm.line, tags |-> mm.tags, lyns |-> mm.lyns]
    BY <2>2, <2>3 DEF MemOK
  <2>5. /\ mm.tags \in [Way -> Cell \cup {NoCell}] /\ mm.tags[w] = c
        /\ \A u \in Way : u # w => mm.tags[u] = m.tags[u] /\ mm.lyns[u] = m.lyns[u]
        /\ mm.lyns \in [Way -> MaybeID(mm.vt)] /\ mm.lyns[w] = m1.line[c]
    BY <2>3, <2>4 DEF MemOK
  <2>6. MemOK(mm)
    BY <1>1, <2>3, <2>4, <2>5 DEF MemOK
  <2>7. m1.line[c] = m.line[c] /\ Value(m, c) = m.line[c]
    BY <1>1, <1>4, <2>3 DEF Value
  <2>8. ASSUME NEW d \in Cell PROVE Value(mm, d) = Value(m, d)
    <3>1. WayOf(d) \in Way
      BY WayInWay
    <3>2. CASE WayOf(d) = w
      <4>1. CASE d = c
        BY <4>1, <1>1, <2>5, <2>7 DEF Value
      <4>2. CASE d # c /\ d = m.tags[w]
        <5>1. d # NoCell
          BY NoCellAssumption
        <5> QED BY <3>2, <4>2, <5>1, <2>3, <2>4, <2>5 DEF Value
      <4>3. CASE d # c /\ d # m.tags[w]
        BY <3>2, <4>3, <2>3, <2>4, <2>5 DEF Value
      <4> QED BY <4>1, <4>2, <4>3
    <3>3. CASE WayOf(d) # w
      <4>1. mm.tags[WayOf(d)] = m.tags[WayOf(d)] /\ mm.lyns[WayOf(d)] = m.lyns[WayOf(d)]
        BY <3>1, <3>3, <2>5
      <4>2. m.tags[w] # d
        BY <3>3, NoCellAssumption DEF MemOK
      <4> QED BY <4>1, <4>2, <2>3, <2>4 DEF Value
    <3> QED BY <3>2, <3>3
  <2>9. \A i \in Nat : Others(mm, i) = Others(m, i)
    BY <2>3, <2>4 DEF Others
  <2> QED BY <1>1, <2>3, <2>4, <2>5, <2>6, <2>7, <2>8, <2>9
<1> QED BY <1>3, <1>4

----------------------------------------------------------------------------
(* The inductive invariant *)

AnyID == Nat \cup {VtsID_INVALID}

\* The threads and the SOs hold VtsIDs that are in use; an SO that is not
\* allocated holds none.
HoldersOK ==
  /\ thrVid \in [Thr -> AnyID] /\ \A t \in Thr : Holdable(vt, thrVid[t])
  /\ soVid \in [SO -> AnyID] /\ \A s \in SO : Holdable(vt, soVid[s])
  /\ soLive \subseteq SO /\ \A s \in SO \ soLive : soVid[s] = VtsID_INVALID

Counted ==
  \A i \in Nat : Others(Mem(vt), i) = Count(Thr, thrVid, i) + Count(SO, soVid, i)

Inv == MemOK(Mem(vt)) /\ HoldersOK /\ Counted /\ vts_next_GC_at \in Nat

LEMMA MemFields ==
  /\ Mem(vt).vt = vt /\ Mem(vt).line = line /\ Mem(vt).tags = tags0 /\ Mem(vt).lyns = lyns0
  /\ \A c : Value(Mem(vt), c) = CellVid(c)
BY DEF Mem, Value, CellVid

LEMMA CountInt == \A f, i : /\ Count(Thr, f, i) \in Nat /\ Count(SO, f, i) \in Nat
                            /\ Count(Cell, f, i) \in Nat
BY CountType, FiniteAssumption

LEMMA InvImplies ==
  ASSUME Inv
  PROVE  TypeOK /\ HashConsed /\ FreeListExact /\ CachesCoherent /\ RefsExact
<1>1. TabOK(vt) /\ Shape(vt) /\ MemOK(Mem(vt))
  BY MemFields DEF Inv, MemOK, TabOK
<1>2. HashConsed
  BY <1>1 DEF TabOK, Consed, HashConsed
<1>3. FreeListExact
  BY <1>1 DEF TabOK, FreeList, Below, FreeIn, FreeListExact
<1>4. CachesCoherent
  BY <1>1 DEF TabOK, Coherent, JoinEntryOK, OrdEntryOK, InUseIn, InUse, CachesCoherent
<1>5. ASSUME NEW i \in VtsID(vt)
      PROVE  vt.rc[i] = Count(Thr, thrVid, i) + Count(SO, soVid, i) + Count(Cell, line, i)
  <2>1. i \in Nat /\ Rc(vt, i) = vt.rc[i] /\ vt.rc[i] \in Int
    BY <1>1 DEF VtsID, Rc, Shape
  <2>2. Rc(vt, i) - Count(Cell, line, i) = Count(Thr, thrVid, i) + Count(SO, soVid, i)
    BY <2>1, MemFields DEF Inv, Counted, Others
  <2> QED BY <2>1, <2>2, CountInt
<1>6. RefsExact
  BY <1>5 DEF RefsExact, Count
<1>7. vt.rc \in [VtsID(vt) -> Nat]
  BY <1>1, <1>5, CountInt DEF Shape
<1>8. /\ thrVid \in [Thr -> VtsID(vt) \cup {VtsID_INVALID}]
      /\ soVid \in [SO -> VtsID(vt) \cup {VtsID_INVALID}]
  BY HoldableType DEF Inv, HoldersOK, MaybeID
<1>9. /\ line \in [Cell -> VtsID(vt) \cup {VtsID_INVALID}]
      /\ tags0 \in [Way -> Cell \cup {NoCell}]
      /\ lyns0 \in [Way -> VtsID(vt) \cup {VtsID_INVALID}]
  BY <1>1, MemFields DEF MemOK, MaybeID
<1>10. \A x \in DOMAIN vt.set : vt.set[x] \in VtsID(vt)
  BY <1>1 DEF TabOK, Consed
<1>11. TypeOK
  BY <1>1, <1>7, <1>8, <1>9, <1>10 DEF Shape, Inv, HoldersOK, TypeOK
<1> QED BY <1>2, <1>3, <1>4, <1>6, <1>11

LEMMA EmptyTabOK == TabOK(EmptyTab) /\ EmptyTab.n = 0
<1>1. /\ EmptyTab.n = 0 /\ EmptyTab.free = VtsID_INVALID
      /\ EmptyTab.vts = [i \in {} |-> NoVTS] /\ EmptyTab.rc = [i \in {} |-> 0]
      /\ EmptyTab.link = [i \in {} |-> VtsID_INVALID] /\ EmptyTab.set = [x \in {} |-> 0]
      /\ EmptyTab.jc = [h \in Slot |-> NoJoin] /\ EmptyTab.oc = [h \in Slot |-> NoOrd]
      /\ IsRecord(EmptyTab)
  BY DEF EmptyTab, IsRecord
<1>2. VtsID(EmptyTab) = {} /\ FreeIn(EmptyTab) = {}
  BY <1>1 DEF VtsID, FreeIn
<1>3. HasSlots(EmptyTab.jc) /\ HasSlots(EmptyTab.oc)
  BY <1>1 DEF HasSlots
<1>4. Shape(EmptyTab)
  BY <1>1, <1>2, <1>3 DEF Shape
<1>5. Consed(EmptyTab) /\ FreeList(EmptyTab)
  BY <1>1, <1>2 DEF Consed, FreeList, Below
<1>6. Coherent(EmptyTab)
  BY <1>1 DEF Coherent
<1> QED BY <1>1, <1>4, <1>5, <1>6 DEF TabOK

LEMMA InitInv == Init => Inv
<1> SUFFICES ASSUME Init PROVE Inv
  OBVIOUS
<1>1. PICK cand \in V!VTS : cand = V!VTS__singleton(Root, 1)
  BY Timestamps
<1>2. PICK v1 : v1 = vts_tab__find_and_dealloc__or_add(EmptyTab, cand)
  OBVIOUS
<1>3. IdOf(EmptyTab, cand) = 0
  BY DEF IdOf, EmptyTab, get_new_VtsID
<1>4. TabOK(v1) /\ InUseIn(v1, 0) /\ \A i \in Nat : Rc(v1, i) = Rc(EmptyTab, i)
  BY <1>2, <1>3, EmptyTabOK, Added
<1>5. vt = VtsID__rcinc(v1, 0)
  BY <1>1, <1>2 DEF Init
<1>6. TabOK(vt) /\ Keeps(v1, vt) /\ \A i \in Nat : Rc(vt, i) = Rc(v1, i) + Is(0, i)
  BY <1>4, <1>5, RcInc
<1>7. InUseIn(vt, 0)
  BY <1>4, <1>6 DEF Keeps
<1>8. /\ thrVid = [t \in Thr |-> IF t = Root THEN 0 ELSE VtsID_INVALID]
      /\ soLive = {} /\ soVid = [s \in SO |-> VtsID_INVALID]
      /\ line = [c \in Cell |-> VtsID_INVALID] /\ tags0 = [w \in Way |-> NoCell]
      /\ lyns0 = [w \in Way |-> VtsID_INVALID] /\ vts_next_GC_at \in Nat
  BY NatAssumption DEF Init
<1>9. HoldersOK
  BY <1>7, <1>8 DEF HoldersOK, Holdable, AnyID
<1>10. MemOK(Mem(vt))
  <2>1. Mem(vt) = [vt |-> Mem(vt).vt, line |-> Mem(vt).line, tags |-> Mem(vt).tags,
                   lyns |-> Mem(vt).lyns]
    BY DEF Mem
  <2> QED BY <1>6, <1>8, <2>1, MemFields DEF MemOK, Holdable, MaybeID
<1>11. ASSUME NEW i \in Nat PROVE Others(Mem(vt), i) = Count(Thr, thrVid, i) + Count(SO, soVid, i)
  <2>1. i # VtsID_INVALID
    BY IDAssumption
  <2>2. Count(Cell, line, i) = 0 /\ Count(SO, soVid, i) = 0
    BY <1>8, <2>1, CountType, FiniteAssumption
  <2>3. PICK f : f = [t \in Thr |-> VtsID_INVALID]
    OBVIOUS
  <2>4. Count(Thr, f, i) = 0
    BY <2>1, <2>3, CountType, FiniteAssumption
  <2>5. Shifted(Thr, f, thrVid, Root, i)
    <3>1. IsFiniteSet(Thr) /\ Root \in Thr /\ \A t \in Thr : t # Root => thrVid[t] = f[t]
      BY <1>8, <2>3, FiniteAssumption, ClockAssumption
    <3> QED BY <3>1, CountUpdate
  <2>6. Count(Thr, thrVid, i) = Is(0, i)
    BY <1>8, <2>1, <2>3, <2>4, <2>5, ClockAssumption DEF Shifted, Is
  <2>7. Rc(vt, i) = Is(0, i)
    BY <1>4, <1>6, EmptyTabOK DEF Rc, VtsID, Is
  <2> QED BY <2>2, <2>6, <2>7, MemFields, IsType DEF Others
<1> QED BY <1>8, <1>9, <1>10, <1>11 DEF Inv, Counted

----------------------------------------------------------------------------
(* What the steps have in common *)

Stamp(v, i) == IF i = VtsID_INVALID THEN NoVTS ELSE v.vts[i]

\* The abstract state.
clkBar == [t \in Thr |-> StampOf(thrVid[t])]
soBar == [s \in SO |-> StampOf(soVid[s])]
cellBar == [c \in Cell |-> StampOf(CellVid(c))]

LEMMA Bars ==
  /\ clkBar = [t \in Thr |-> clkBar[t]] /\ soBar = [s \in SO |-> soBar[s]]
  /\ cellBar = [c \in Cell |-> cellBar[c]]
  /\ clkBar' = [t \in Thr |-> clkBar'[t]] /\ soBar' = [s \in SO |-> soBar'[s]]
  /\ cellBar' = [c \in Cell |-> cellBar'[c]]
  /\ \A t \in Thr : clkBar[t] = Stamp(vt, thrVid[t]) /\ clkBar'[t] = Stamp(vt', thrVid'[t])
  /\ \A s \in SO : soBar[s] = Stamp(vt, soVid[s]) /\ soBar'[s] = Stamp(vt', soVid'[s])
  /\ \A c \in Cell : cellBar[c] = Stamp(vt, CellVid(c)) /\ cellBar'[c] = Stamp(vt', CellVid(c)')
BY DEF clkBar, soBar, cellBar, StampOf, Stamp

LEMMA SameMap ==
  ASSUME NEW S, NEW f, NEW g, f = [x \in S |-> f[x]], g = [x \in S |-> g[x]],
         \A x \in S : g[x] = f[x]
  PROVE  g = f
OBVIOUS

LEMMA ChangedMap ==
  ASSUME NEW S, NEW f, NEW g, f = [x \in S |-> f[x]], g = [x \in S |-> g[x]],
         NEW a \in S, \A x \in S : x # a => g[x] = f[x]
  PROVE  g = [f EXCEPT ![a] = g[a]]
OBVIOUS

LEMMA StampKept ==
  ASSUME NEW v, NEW w, Keeps(v, w), NEW i, Holdable(v, i)
  PROVE  Stamp(w, i) = Stamp(v, i)
BY DEF Keeps, Holdable, Stamp

LEMMA StampType ==
  ASSUME NEW v, TabOK(v), NEW i, Holdable(v, i)
  PROVE  /\ Stamp(v, i) = NoVTS <=> i = VtsID_INVALID
         /\ i # VtsID_INVALID => /\ InUseIn(v, i) /\ Stamp(v, i) = v.vts[i]
                                 /\ Stamp(v, i) \in V!VTS /\ i \in Nat
<1>1. CASE i = VtsID_INVALID
  BY <1>1 DEF Stamp
<1>2. CASE i # VtsID_INVALID
  BY <1>2, InUseVTS, ClockAssumption DEF Stamp, Holdable, TabOK
<1> QED BY <1>1, <1>2

LEMMA NewInv ==
  ASSUME NEW m, m = [vt |-> vt', line |-> line', tags |-> tags0', lyns |-> lyns0'],
         MemOK(m), HoldersOK', vts_next_GC_at' \in Nat,
         \A i \in Nat : Others(m, i) = Count(Thr, thrVid', i) + Count(SO, soVid', i)
  PROVE  Inv'
<1>1. Mem(vt)' = m
  BY DEF Mem
<1> QED BY <1>1 DEF Inv, Counted

\* The references of an entry that neither threads nor SOs account for.
Balance(v, f, g, i) == Rc(v, i) - Count(Thr, f, i) - Count(SO, g, i)

LEMMA BalanceKept ==
  ASSUME NEW v, TabOK(v), NEW w, TabOK(w), NEW f, NEW g, NEW f2, NEW g2, NEW l, NEW i \in Nat,
         Balance(w, f2, g2, i) = Balance(v, f, g, i),
         Rc(v, i) - Count(Cell, l, i) = Count(Thr, f, i) + Count(SO, g, i)
  PROVE  Rc(w, i) - Count(Cell, l, i) = Count(Thr, f2, i) + Count(SO, g2, i)
<1>1. Rc(v, i) \in Int /\ Rc(w, i) \in Int
  BY RcType
<1>2. /\ Count(Thr, f, i) \in Int /\ Count(SO, g, i) \in Int /\ Count(Cell, l, i) \in Int
      /\ Count(Thr, f2, i) \in Int /\ Count(SO, g2, i) \in Int
  BY CountInt
<1> QED BY <1>1, <1>2 DEF Balance

\* A map of threads or SOs whose values may be held in table v.
HoldMap(S, v, f) == f \in [S -> AnyID] /\ \A x \in S : Holdable(v, f[x])

LEMMA HoldMapKept ==
  ASSUME NEW S, NEW v, NEW w, Keeps(v, w), NEW f, HoldMap(S, v, f)
  PROVE  HoldMap(S, w, f)
BY HoldableKept DEF HoldMap

Assigned(f, a, r, g) == g = [f EXCEPT ![a] = r]

LEMMA HoldMapUpdate ==
  ASSUME NEW S, NEW v, NEW w, TabOK(w), Keeps(v, w), NEW f, HoldMap(S, v, f), NEW a \in S,
         NEW r, Holdable(w, r), NEW g, Assigned(f, a, r, g)
  PROVE  HoldMap(S, w, g) /\ g[a] = r /\ \A x \in S : x # a => g[x] = f[x]
<1>1. r \in AnyID
  BY DEF Holdable, AnyID, InUseIn, VtsID, TabOK, Shape
<1>2. /\ g \in [S -> AnyID] /\ g[a] = r /\ \A x \in S : x # a => g[x] = f[x]
  BY <1>1 DEF HoldMap, Assigned
<1>3. \A x \in S : Holdable(w, f[x])
  BY HoldableKept DEF HoldMap
<1> QED BY <1>2, <1>3 DEF HoldMap

\* Memory m holds the values and the counts of the present state.
SameMem(m) ==
  /\ MemOK(m) /\ Keeps(vt, m.vt)
  /\ \A d \in Cell : Value(m, d) = CellVid(d)
  /\ \A i \in Nat : Others(m, i) = Count(Thr, thrVid, i) + Count(SO, soVid, i)

LEMMA PresentMem == ASSUME Inv PROVE SameMem(Mem(vt))
<1>1. vt.n \in Nat
  BY MemFields DEF Inv, MemOK, TabOK, Shape
<1> QED BY <1>1, MemFields, KeepsRefl DEF Inv, SameMem, Counted

LEMMA LineMem ==
  ASSUME NEW m, SameMem(m), NEW c \in Cell, NEW mm, mm = get_cacheline(m, c), vt.n \in Nat
  PROVE  SameMem(mm) /\ mm.tags[WayOf(c)] = c /\ mm.lyns[WayOf(c)] = CellVid(c)
<1>1. /\ MemOK(mm) /\ Keeps(m.vt, mm.vt)
      /\ mm.tags[WayOf(c)] = c /\ mm.lyns[WayOf(c)] = Value(m, c)
      /\ \A d \in Cell : Value(mm, d) = Value(m, d)
      /\ \A i \in Nat : Others(mm, i) = Others(m, i)
  BY GetLineOK DEF SameMem
<1>2. Keeps(vt, mm.vt)
  BY <1>1, KeepsTrans DEF SameMem, MemOK, TabOK, Shape
<1> QED BY <1>1, <1>2 DEF SameMem

\* The holders after a step.
NewHolders ==
  /\ HoldMap(Thr, vt', thrVid') /\ HoldMap(SO, vt', soVid')
  /\ soLive' \subseteq SO /\ \A s \in SO \ soLive' : soVid'[s] = VtsID_INVALID

\* What a step has to keep: the table and what is in use, and the balance of
\* the counts with what threads and SOs give up and take.
GoodStep(m) ==
  /\ TabOK(vt') /\ Keeps(m.vt, vt') /\ NewHolders
  /\ \A i \in Nat : Balance(vt', thrVid', soVid', i) = Balance(m.vt, thrVid, soVid, i)

LEMMA StepCounts ==
  ASSUME NEW m, SameMem(m), GoodStep(m), NEW i \in Nat
  PROVE  Rc(vt', i) - Count(Cell, m.line, i) = Count(Thr, thrVid', i) + Count(SO, soVid', i)
<1>1. PICK v, f, g, f2, g2, l, w : /\ v = m.vt /\ f = thrVid /\ g = soVid /\ w = vt'
                                   /\ f2 = thrVid' /\ g2 = soVid' /\ l = m.line
  OBVIOUS
<1>2. Balance(w, f2, g2, i) = Balance(v, f, g, i)
  BY <1>1 DEF GoodStep
<1>3. Rc(v, i) - Count(Cell, l, i) = Count(Thr, f, i) + Count(SO, g, i)
  BY <1>1 DEF SameMem, Others
<1>4. TabOK(v) /\ TabOK(w)
  BY <1>1 DEF SameMem, GoodStep, MemOK
<1>5. Rc(w, i) - Count(Cell, l, i) = Count(Thr, f2, i) + Count(SO, g2, i)
  BY <1>2, <1>3, <1>4, BalanceKept
<1> QED BY <1>1, <1>5

LEMMA StepHolders ==
  ASSUME Inv, NEW m, SameMem(m), GoodStep(m)
  PROVE  /\ HoldersOK' /\ Keeps(vt, vt')
         /\ \A t \in Thr : thrVid'[t] = thrVid[t] => clkBar'[t] = clkBar[t]
         /\ \A s \in SO : soVid'[s] = soVid[s] => soBar'[s] = soBar[s]
<1>1. HoldersOK'
  BY DEF GoodStep, NewHolders, HoldMap, HoldersOK
<1>2. Keeps(vt, vt')
  <2>1. vt.n \in Nat /\ m.vt.n \in Nat /\ vt'.n \in Nat
    BY MemFields DEF Inv, SameMem, GoodStep, MemOK, TabOK, Shape
  <2> QED BY <2>1, KeepsTrans DEF SameMem, GoodStep
<1>3. /\ \A t \in Thr : Holdable(vt, thrVid[t])
      /\ \A s \in SO : Holdable(vt, soVid[s])
  BY DEF Inv, HoldersOK
<1> QED BY <1>1, <1>2, <1>3, StampKept, Bars

\* References that threads and SOs give up and take, with memory left alone.
LEMMA SyncStep ==
  ASSUME Inv, GoodStep(Mem(vt)), UNCHANGED <<line, tags0, lyns0, vts_next_GC_at>>
  PROVE  /\ Inv' /\ cellBar' = cellBar
         /\ \A t \in Thr : thrVid'[t] = thrVid[t] => clkBar'[t] = clkBar[t]
         /\ \A s \in SO : soVid'[s] = soVid[s] => soBar'[s] = soBar[s]
<1>1. PICK m, m2 : /\ m = Mem(vt)
                   /\ m2 = [vt |-> vt', line |-> m.line, tags |-> m.tags, lyns |-> m.lyns]
  OBVIOUS
<1>2. /\ m.vt = vt /\ m.line = line /\ m.tags = tags0 /\ m.lyns = lyns0 /\ MemOK(m)
      /\ SameMem(m) /\ GoodStep(m)
  BY <1>1, MemFields, PresentMem DEF Inv
<1>3. MemOK(m2)
  BY <1>1, <1>2, MemKept DEF GoodStep
<1>4. m2 = [vt |-> vt', line |-> line', tags |-> tags0', lyns |-> lyns0']
  BY <1>1, <1>2
<1>5. ASSUME NEW i \in Nat PROVE Others(m2, i) = Count(Thr, thrVid', i) + Count(SO, soVid', i)
  <2>1. m2.vt = vt' /\ m2.line = m.line
    BY <1>1
  <2> QED BY <2>1, <1>2, StepCounts DEF Others
<1>6. /\ HoldersOK' /\ Keeps(vt, vt')
      /\ \A t \in Thr : thrVid'[t] = thrVid[t] => clkBar'[t] = clkBar[t]
      /\ \A s \in SO : soVid'[s] = soVid[s] => soBar'[s] = soBar[s]
  BY <1>2, StepHolders
<1>7. Inv'
  BY <1>3, <1>4, <1>5, <1>6, NewInv DEF Inv
<1>8. ASSUME NEW c \in Cell PROVE cellBar'[c] = cellBar[c]
  <2>1. CellVid(c)' = CellVid(c)
    BY DEF CellVid
  <2>2. Holdable(vt, CellVid(c))
    BY <1>2, WayInWay, NoCellAssumption DEF MemOK, CellVid
  <2> QED BY <2>1, <2>2, <1>6, StampKept, Bars
<1>9. cellBar' = cellBar
  BY <1>8, Bars, SameMap
<1> QED BY <1>6, <1>7, <1>9

LEMMA HoldableValue ==
  ASSUME NEW m, MemOK(m), NEW c \in Cell PROVE Holdable(m.vt, Value(m, c))
BY WayInWay, NoCellAssumption DEF MemOK, Value

\* The value of cached cell c is replaced by i.
LEMMA StoreStep ==
  ASSUME Inv, NEW m, SameMem(m), GoodStep(m), vts_next_GC_at' = vts_next_GC_at,
         NEW c \in Cell, m.tags[WayOf(c)] = c, NEW i, Holdable(vt', i),
         line' = m.line, tags0' = m.tags, lyns0' = [m.lyns EXCEPT ![WayOf(c)] = i]
  PROVE  /\ Inv' /\ cellBar' = [cellBar EXCEPT ![c] = Stamp(vt', i)]
         /\ \A t \in Thr : thrVid'[t] = thrVid[t] => clkBar'[t] = clkBar[t]
         /\ \A s \in SO : soVid'[s] = soVid[s] => soBar'[s] = soBar[s]
<1>1. PICK v, w, m1, lyns2, m2 :
        /\ v = vt' /\ w = WayOf(c) /\ lyns2 = [m.lyns EXCEPT ![w] = i]
        /\ m1 = [vt |-> v, line |-> m.line, tags |-> m.tags, lyns |-> m.lyns]
        /\ m2 = [vt |-> v, line |-> m.line, tags |-> m.tags, lyns |-> lyns2]
  OBVIOUS
<1>2. w \in Way /\ MemOK(m) /\ TabOK(v) /\ Keeps(m.vt, v)
  BY <1>1, WayInWay DEF SameMem, GoodStep
<1>3. MemOK(m1)
  BY <1>1, <1>2, MemKept
<1>4. /\ m1.vt = v /\ m1.line = m.line /\ m1.tags = m.tags /\ m1.lyns = m.lyns
      /\ m2.vt = v /\ m2.line = m.line /\ m2.tags = m.tags /\ m2.lyns = lyns2
      /\ m2 = [vt |-> m2.vt, line |-> m2.line, tags |-> m2.tags, lyns |-> m2.lyns]
  BY <1>1
<1>5. /\ lyns2 \in [Way -> MaybeID(v)] /\ lyns2[w] = i
      /\ \A u \in Way : u # w => lyns2[u] = m.lyns[u]
  <2>1. i \in MaybeID(v)
    BY <1>1, HoldableType
  <2>2. m.lyns \in [Way -> MaybeID(v)]
    BY <1>3, <1>4 DEF MemOK
  <2> QED BY <2>1, <2>2, <1>1, <1>2
<1>6. MemOK(m2)
  <2>1. \A u \in Way : m.tags[u] # NoCell => WayOf(m.tags[u]) = u /\ Holdable(v, lyns2[u])
    BY <1>1, <1>3, <1>4, <1>5 DEF MemOK
  <2> QED BY <2>1, <1>3, <1>4, <1>5 DEF MemOK
<1>7. m2 = [vt |-> vt', line |-> line', tags |-> tags0', lyns |-> lyns0']
  BY <1>1
<1>8. ASSUME NEW k \in Nat PROVE Others(m2, k) = Count(Thr, thrVid', k) + Count(SO, soVid', k)
  BY <1>1, <1>4, StepCounts DEF Others
<1>9. /\ HoldersOK' /\ Keeps(vt, vt')
      /\ \A t \in Thr : thrVid'[t] = thrVid[t] => clkBar'[t] = clkBar[t]
      /\ \A s \in SO : soVid'[s] = soVid[s] => soBar'[s] = soBar[s]
  BY StepHolders
<1>10. Inv'
  BY <1>6, <1>7, <1>8, <1>9, NewInv DEF Inv
<1>11. \A d : CellVid(d)' = Value(m2, d)
  <2>1. m2.line = line' /\ m2.tags = tags0' /\ m2.lyns = lyns0'
    BY <1>1, <1>4
  <2> QED BY <2>1 DEF CellVid, Value
<1>12. Value(m2, c) = i
  BY <1>1, <1>4, <1>5 DEF Value
<1>13. ASSUME NEW d \in Cell, d # c PROVE cellBar'[d] = cellBar[d]
  <2>1. WayOf(d) \in Way
    BY WayInWay
  <2>2. Value(m2, d) = Value(m, d)
    <3>1. CASE WayOf(d) = w
      BY <3>1, <1>1, <1>4, <1>13 DEF Value
    <3>2. CASE WayOf(d) # w
      BY <3>2, <2>1, <1>4, <1>5 DEF Value
    <3> QED BY <3>1, <3>2
  <2>3. CellVid(d)' = CellVid(d)
    BY <2>2, <1>11 DEF SameMem
  <2>4. Holdable(vt, CellVid(d))
    BY HoldableValue, MemFields DEF Inv
  <2> QED BY <2>3, <2>4, <1>9, StampKept, Bars
<1>14. cellBar'[c] = Stamp(vt', i)
  BY <1>11, <1>12, Bars
<1>15. cellBar' = [cellBar EXCEPT ![c] = cellBar'[c]]
  BY <1>13, Bars, ChangedMap
<1> QED BY <1>9, <1>10, <1>14, <1>15

----------------------------------------------------------------------------
(* Threads and synchronisation objects *)

LEMMA InvTab ==
  ASSUME Inv
  PROVE  /\ TabOK(vt) /\ vt.n \in Nat /\ HoldMap(Thr, vt, thrVid) /\ HoldMap(SO, vt, soVid)
         /\ soLive \subseteq SO /\ \A s \in SO \ soLive : soVid[s] = VtsID_INVALID
         /\ Mem(vt).vt = vt
BY MemFields DEF Inv, MemOK, HoldersOK, HoldMap, TabOK, Shape

LEMMA BalanceType ==
  ASSUME NEW v, TabOK(v), NEW f, NEW g, NEW i
  PROVE  /\ Rc(v, i) \in Int /\ Count(Thr, f, i) \in Int /\ Count(SO, g, i) \in Int
BY RcType, CountInt

LEMMA IsInt == ASSUME NEW a, NEW b PROVE Is(a, b) \in Int
BY DEF Is

LEMMA AllocStep ==
  ASSUME Inv, NEW s \in SO, libhb_so_alloc(s)
  PROVE  Inv' /\ Clocks!SoAlloc(s)
<1> USE DEF libhb_so_alloc, NoMemChange
<1>1. /\ vt' = vt /\ thrVid' = thrVid /\ soVid' = soVid /\ soLive' = soLive \cup {s}
      /\ UNCHANGED <<line, tags0, lyns0, vts_next_GC_at>>
  <2>1. soVid[s] = VtsID_INVALID
    BY InvTab
  <2> QED BY <2>1, InvTab DEF HoldMap
<1>2. GoodStep(Mem(vt))
  <2>1. NewHolders
    BY <1>1, InvTab DEF NewHolders
  <2> QED BY <2>1, <1>1, InvTab, KeepsRefl DEF GoodStep
<1>3. /\ Inv' /\ cellBar' = cellBar
      /\ \A t \in Thr : clkBar'[t] = clkBar[t]
      /\ \A x \in SO : soBar'[x] = soBar[x]
  BY <1>1, <1>2, SyncStep
<1>4. clkBar' = clkBar /\ soBar' = soBar
  BY <1>3, Bars, SameMap
<1>5. soBar = [soBar EXCEPT ![s] = NoVTS]
  <2>1. soBar[s] = NoVTS
    BY InvTab, Bars DEF Stamp
  <2> QED BY <2>1, Bars
<1> QED BY <1>3, <1>4, <1>5 DEF Clocks!SoAlloc, clkBar, soBar, cellBar

\* A reference to a is exchanged for one to b.
Transfer(v, w, a, b) == \A i \in Nat : Rc(w, i) = Rc(v, i) - Is(a, i) + Is(b, i)

Balanced(v, f, g, w, f2, g2) == \A i \in Nat : Balance(w, f2, g2, i) = Balance(v, f, g, i)

LEMMA BalancedTrans ==
  ASSUME NEW u, NEW v, NEW w, NEW f, NEW f2, NEW f3, NEW g, NEW g2, NEW g3,
         Balanced(u, f, g, v, f2, g2), Balanced(v, f2, g2, w, f3, g3)
  PROVE  Balanced(u, f, g, w, f3, g3)
BY DEF Balanced

\* Thread t exchanges the VtsID that it holds for r.
LEMMA ThrMoves ==
  ASSUME NEW v, TabOK(v), NEW w, TabOK(w), Keeps(v, w), NEW f, HoldMap(Thr, v, f), NEW g,
         NEW t \in Thr, NEW r, Holdable(w, r), Transfer(v, w, f[t], r),
         NEW f2, Assigned(f, t, r, f2)
  PROVE  /\ HoldMap(Thr, w, f2) /\ f2[t] = r /\ \A x \in Thr : x # t => f2[x] = f[x]
         /\ Balanced(v, f, g, w, f2, g)
<1>1. HoldMap(Thr, w, f2) /\ f2[t] = r /\ \A x \in Thr : x # t => f2[x] = f[x]
  BY HoldMapUpdate
<1>2. ASSUME NEW i \in Nat PROVE Balance(w, f2, g, i) = Balance(v, f, g, i)
  <2>1. IsFiniteSet(Thr)
    BY FiniteAssumption
  <2>2. Shifted(Thr, f, f2, t, i)
    BY <1>1, <2>1, CountUpdate
  <2>3. /\ Rc(v, i) \in Int /\ Rc(w, i) \in Int /\ Count(Thr, f, i) \in Int
        /\ Count(Thr, f2, i) \in Int /\ Count(SO, g, i) \in Int
    BY BalanceType
  <2>4. Is(f[t], i) \in Int /\ Is(r, i) \in Int
    BY IsInt
  <2>5. Rc(w, i) = Rc(v, i) - Is(f[t], i) + Is(r, i)
    BY DEF Transfer
  <2>6. Count(Thr, f2, i) = Count(Thr, f, i) - Is(f[t], i) + Is(r, i)
    BY <1>1, <2>2 DEF Shifted
  <2> QED BY <2>3, <2>4, <2>5, <2>6 DEF Balance
<1> QED BY <1>1, <1>2 DEF Balanced

\* SO s exchanges the VtsID that it holds for r.
LEMMA SoMoves ==
  ASSUME NEW v, TabOK(v), NEW w, TabOK(w), Keeps(v, w), NEW g, HoldMap(SO, v, g), NEW f,
         NEW s \in SO, NEW r, Holdable(w, r), Transfer(v, w, g[s], r),
         NEW g2, Assigned(g, s, r, g2)
  PROVE  /\ HoldMap(SO, w, g2) /\ g2[s] = r /\ \A x \in SO : x # s => g2[x] = g[x]
         /\ Balanced(v, f, g, w, f, g2)
<1>1. HoldMap(SO, w, g2) /\ g2[s] = r /\ \A x \in SO : x # s => g2[x] = g[x]
  BY HoldMapUpdate
<1>2. ASSUME NEW i \in Nat PROVE Balance(w, f, g2, i) = Balance(v, f, g, i)
  <2>1. IsFiniteSet(SO)
    BY FiniteAssumption
  <2>2. Shifted(SO, g, g2, s, i)
    BY <1>1, <2>1, CountUpdate
  <2>3. /\ Rc(v, i) \in Int /\ Rc(w, i) \in Int /\ Count(Thr, f, i) \in Int
        /\ Count(SO, g2, i) \in Int /\ Count(SO, g, i) \in Int
    BY BalanceType
  <2>4. Is(g[s], i) \in Int /\ Is(r, i) \in Int
    BY IsInt
  <2>5. Rc(w, i) = Rc(v, i) - Is(g[s], i) + Is(r, i)
    BY DEF Transfer
  <2>6. Count(SO, g2, i) = Count(SO, g, i) - Is(g[s], i) + Is(r, i)
    BY <1>1, <2>2 DEF Shifted
  <2> QED BY <2>3, <2>4, <2>5, <2>6 DEF Balance
<1> QED BY <1>1, <1>2 DEF Balanced

\* A holder gives a up, enters the timestamp that a tick of i yields, and
\* takes it: the pattern of every operation that advances a thread.
LEMMA TickMove ==
  ASSUME NEW v, TabOK(v), NEW a, Holdable(v, a), NEW i, InUseIn(v, i), NEW t \in Thr,
         NEW v0, v0 = RcDecMaybe(v, a), NEW r, r = TickId(v0, i, t),
         NEW w, w = VtsID__rcinc(VtsID__tick(v0, i, t), r)
  PROVE  /\ TabOK(w) /\ Keeps(v, w) /\ InUseIn(w, r) /\ Transfer(v, w, a, r)
         /\ w.vts[r] = V!VTS__tick(t, v.vts[i])
<1>1. TabOK(v0) /\ Keeps(v, v0) /\ \A k \in Nat : Rc(v0, k) = Rc(v, k) - Is(a, k)
  BY RcDecMaybeOK
<1>2. InUseIn(v0, i) /\ v0.vts[i] = v.vts[i]
  BY <1>1 DEF Keeps
<1>3. PICK u : u = VtsID__tick(v0, i, t)
  OBVIOUS
<1>4. /\ TabOK(u) /\ Keeps(v0, u) /\ InUseIn(u, r) /\ u.vts[r] = V!VTS__tick(t, v0.vts[i])
      /\ \A k \in Nat : Rc(u, k) = Rc(v0, k)
  BY <1>1, <1>2, <1>3, TickOK
<1>5. TabOK(w) /\ Keeps(u, w) /\ \A k \in Nat : Rc(w, k) = Rc(u, k) + Is(r, k)
  BY <1>3, <1>4, RcInc
<1>6. Keeps(v, u) /\ Keeps(v, w)
  BY <1>1, <1>4, <1>5, KeepsTrans DEF TabOK, Shape
<1>7. InUseIn(w, r) /\ w.vts[r] = u.vts[r]
  BY <1>4, <1>5 DEF Keeps
<1>8. Transfer(v, w, a, r)
  BY <1>1, <1>4, <1>5 DEF Transfer
<1> QED BY <1>2, <1>4, <1>5, <1>6, <1>7, <1>8

\* The same with a join.
LEMMA JoinMove ==
  ASSUME NEW v, TabOK(v), NEW a, Holdable(v, a), NEW i, InUseIn(v, i), NEW j, InUseIn(v, j),
         NEW v0, v0 = RcDecMaybe(v, a), NEW r, r = Join2Id(v0, i, j),
         NEW w, w = VtsID__rcinc(VtsID__join2(v0, i, j), r)
  PROVE  /\ TabOK(w) /\ Keeps(v, w) /\ InUseIn(w, r) /\ Transfer(v, w, a, r)
         /\ w.vts[r] = V!VTS__join(v.vts[i], v.vts[j])
<1>1. TabOK(v0) /\ Keeps(v, v0) /\ \A k \in Nat : Rc(v0, k) = Rc(v, k) - Is(a, k)
  BY RcDecMaybeOK
<1>2. InUseIn(v0, i) /\ v0.vts[i] = v.vts[i] /\ InUseIn(v0, j) /\ v0.vts[j] = v.vts[j]
  BY <1>1 DEF Keeps
<1>3. PICK u : u = VtsID__join2(v0, i, j)
  OBVIOUS
<1>4. /\ TabOK(u) /\ Keeps(v0, u) /\ InUseIn(u, r)
      /\ u.vts[r] = V!VTS__join(v0.vts[i], v0.vts[j])
      /\ \A k \in Nat : Rc(u, k) = Rc(v0, k)
  BY <1>1, <1>2, <1>3, Join2OK
<1>5. TabOK(w) /\ Keeps(u, w) /\ \A k \in Nat : Rc(w, k) = Rc(u, k) + Is(r, k)
  BY <1>3, <1>4, RcInc
<1>6. Keeps(v, u) /\ Keeps(v, w)
  BY <1>1, <1>4, <1>5, KeepsTrans DEF TabOK, Shape
<1>7. InUseIn(w, r) /\ w.vts[r] = u.vts[r]
  BY <1>4, <1>5 DEF Keeps
<1>8. Transfer(v, w, a, r)
  BY <1>1, <1>4, <1>5 DEF Transfer
<1> QED BY <1>2, <1>4, <1>5, <1>6, <1>7, <1>8

\* The same with an entry that is there already.
LEMMA CopyMove ==
  ASSUME NEW v, TabOK(v), NEW a, Holdable(v, a), NEW r, InUseIn(v, r),
         NEW w, w = VtsID__rcinc(RcDecMaybe(v, a), r)
  PROVE  /\ TabOK(w) /\ Keeps(v, w) /\ InUseIn(w, r) /\ Transfer(v, w, a, r)
         /\ w.vts[r] = v.vts[r]
<1>1. PICK v0 : v0 = RcDecMaybe(v, a)
  OBVIOUS
<1>2. TabOK(v0) /\ Keeps(v, v0) /\ \A k \in Nat : Rc(v0, k) = Rc(v, k) - Is(a, k)
  BY <1>1, RcDecMaybeOK
<1>3. InUseIn(v0, r) /\ v0.vts[r] = v.vts[r]
  BY <1>2 DEF Keeps
<1>4. TabOK(w) /\ Keeps(v0, w) /\ \A k \in Nat : Rc(w, k) = Rc(v0, k) + Is(r, k)
  BY <1>1, <1>2, <1>3, RcInc
<1>5. Keeps(v, w) /\ InUseIn(w, r) /\ w.vts[r] = v.vts[r]
  BY <1>2, <1>3, <1>4, KeepsTrans DEF TabOK, Shape, Keeps
<1>6. Transfer(v, w, a, r)
  BY <1>2, <1>4 DEF Transfer
<1> QED BY <1>4, <1>5, <1>6

LEMMA ThrStamp ==
  ASSUME Inv, NEW t \in Thr
  PROVE  /\ Created(t) <=> clkBar[t] # NoVTS
         /\ Created(t) => /\ InUseIn(vt, thrVid[t]) /\ clkBar[t] = vt.vts[thrVid[t]]
                          /\ thrVid[t] # VtsID_INVALID
<1>1. TabOK(vt) /\ Holdable(vt, thrVid[t]) /\ clkBar[t] = Stamp(vt, thrVid[t])
  BY InvTab, Bars DEF HoldMap
<1> QED BY <1>1, StampType DEF Created

LEMMA SoStamp ==
  ASSUME Inv, NEW s \in SO
  PROVE  /\ soVid[s] # VtsID_INVALID <=> soBar[s] # NoVTS
         /\ soVid[s] # VtsID_INVALID => InUseIn(vt, soVid[s]) /\ soBar[s] = vt.vts[soVid[s]]
         /\ Holdable(vt, soVid[s])
<1>1. TabOK(vt) /\ Holdable(vt, soVid[s]) /\ soBar[s] = Stamp(vt, soVid[s])
  BY InvTab, Bars DEF HoldMap
<1> QED BY <1>1, StampType

\* The timestamp of a holder after a step.
LEMMA NewStamp ==
  ASSUME TabOK(vt'), NEW r, InUseIn(vt', r)
  PROVE  Stamp(vt', r) = vt'.vts[r] /\ Holdable(vt', r) /\ r # VtsID_INVALID
<1>1. r # VtsID_INVALID
  BY IDAssumption DEF InUseIn, VtsID, TabOK, Shape
<1> QED BY <1>1 DEF Stamp, Holdable

LEMMA RecvStep ==
  ASSUME Inv, NEW t \in Thr, NEW s \in SO, libhb_so_recv(t, s)
  PROVE  Inv' /\ Clocks!SoRecv(t, s)
<1>1. /\ Created(t) /\ s \in soLive /\ soVid' = soVid /\ soLive' = soLive
      /\ UNCHANGED <<line, tags0, lyns0, vts_next_GC_at>>
  BY DEF libhb_so_recv, NoMemChange
<1>2. CASE soVid[s] = VtsID_INVALID
  <2>1. vt' = vt /\ thrVid' = thrVid
    BY <1>2 DEF libhb_so_recv
  <2>2. GoodStep(Mem(vt))
    <3>1. NewHolders
      BY <1>1, <2>1, InvTab DEF NewHolders
    <3> QED BY <3>1, <1>1, <2>1, InvTab, KeepsRefl DEF GoodStep
  <2>3. /\ Inv' /\ cellBar' = cellBar /\ \A x \in Thr : clkBar'[x] = clkBar[x]
        /\ \A x \in SO : soBar'[x] = soBar[x]
    BY <1>1, <2>1, <2>2, SyncStep
  <2>4. clkBar' = clkBar /\ soBar' = soBar
    BY <2>3, Bars, SameMap
  <2>5. soBar[s] = NoVTS /\ clkBar[t] # NoVTS
    BY <1>1, <1>2, SoStamp, ThrStamp
  <2> QED BY <1>1, <2>3, <2>4, <2>5 DEF Clocks!SoRecv, Clocks!Created, clkBar, soBar, cellBar
<1>3. CASE soVid[s] # VtsID_INVALID
  <2>1. PICK i, o, v0, ji, w : /\ i = thrVid[t] /\ o = soVid[s] /\ v0 = VtsID__rcdec(vt, i)
                               /\ ji = Join2Id(v0, i, o)
                               /\ w = VtsID__rcinc(VtsID__join2(v0, i, o), ji)
    OBVIOUS
  <2>2. vt' = w /\ thrVid' = [thrVid EXCEPT ![t] = ji]
    BY <1>3, <2>1 DEF libhb_so_recv
  <2>3. /\ InUseIn(vt, i) /\ clkBar[t] = vt.vts[i] /\ i # VtsID_INVALID /\ clkBar[t] # NoVTS
        /\ InUseIn(vt, o) /\ soBar[s] = vt.vts[o] /\ soBar[s] # NoVTS
    BY <1>1, <1>3, <2>1, ThrStamp, SoStamp
  <2>4. v0 = RcDecMaybe(vt, i) /\ Holdable(vt, i)
    BY <2>1, <2>3 DEF RcDecMaybe, Holdable
  <2>5. /\ TabOK(w) /\ Keeps(vt, w) /\ InUseIn(w, ji) /\ Transfer(vt, w, i, ji)
        /\ w.vts[ji] = V!VTS__join(vt.vts[i], vt.vts[o])
    BY <2>1, <2>3, <2>4, InvTab, JoinMove
  <2>6. /\ HoldMap(Thr, w, thrVid') /\ thrVid'[t] = ji
        /\ \A x \in Thr : x # t => thrVid'[x] = thrVid[x]
        /\ Balanced(vt, thrVid, soVid, w, thrVid', soVid)
    <3>1. Assigned(thrVid, t, ji, thrVid') /\ Holdable(w, ji) /\ Transfer(vt, w, thrVid[t], ji)
      BY <2>1, <2>2, <2>5 DEF Assigned, Holdable
    <3> QED BY <3>1, <2>5, InvTab, ThrMoves
  <2>7. GoodStep(Mem(vt))
    <3>1. NewHolders
      BY <1>1, <2>2, <2>5, <2>6, InvTab, HoldMapKept DEF NewHolders
    <3> QED BY <3>1, <1>1, <2>2, <2>5, <2>6, InvTab DEF GoodStep, Balanced
  <2>8. /\ Inv' /\ cellBar' = cellBar /\ \A x \in Thr : x # t => clkBar'[x] = clkBar[x]
        /\ \A x \in SO : soBar'[x] = soBar[x]
    BY <1>1, <2>6, <2>7, SyncStep
  <2>9. clkBar'[t] = V!VTS__join(clkBar[t], soBar[s])
    BY <2>2, <2>3, <2>5, <2>6, NewStamp, Bars
  <2>10. clkBar' = [clkBar EXCEPT ![t] = clkBar'[t]] /\ soBar' = soBar
    BY <2>8, Bars, SameMap, ChangedMap
  <2> QED BY <1>1, <2>3, <2>8, <2>9, <2>10
          DEF Clocks!SoRecv, Clocks!Created, clkBar, soBar, cellBar, V!VTS__join, Clocks!VTS__join
<1> QED BY <1>2, <1>3

LEMMA DeallocStep ==
  ASSUME Inv, NEW s \in SO, libhb_so_dealloc(s)
  PROVE  Inv' /\ Clocks!SoDealloc(s)
<1>1. PICK o, w : o = soVid[s] /\ w = RcDecMaybe(vt, o)
  OBVIOUS
<1>2. /\ s \in soLive /\ vt' = w /\ soLive' = soLive \ {s} /\ thrVid' = thrVid
      /\ soVid' = [soVid EXCEPT ![s] = VtsID_INVALID]
      /\ UNCHANGED <<line, tags0, lyns0, vts_next_GC_at>>
  BY <1>1 DEF libhb_so_dealloc, NoMemChange
<1>3. TabOK(w) /\ Keeps(vt, w) /\ \A i \in Nat : Rc(w, i) = Rc(vt, i) - Is(o, i)
  <2>1. TabOK(vt) /\ Holdable(vt, o)
    BY <1>1, InvTab, SoStamp
  <2> QED BY <1>1, <2>1, RcDecMaybeOK
<1>4. /\ HoldMap(SO, w, soVid') /\ soVid'[s] = VtsID_INVALID
      /\ \A x \in SO : x # s => soVid'[x] = soVid[x]
      /\ Balanced(vt, thrVid, soVid, w, thrVid, soVid')
  <2>1. Assigned(soVid, s, VtsID_INVALID, soVid') /\ Holdable(w, VtsID_INVALID)
    BY <1>2 DEF Assigned, Holdable
  <2>2. Transfer(vt, w, soVid[s], VtsID_INVALID)
    <3>1. ASSUME NEW i \in Nat PROVE Rc(w, i) = Rc(vt, i) - Is(o, i) + Is(VtsID_INVALID, i)
      <4>1. Is(VtsID_INVALID, i) = 0
        BY IDAssumption DEF Is
      <4>2. Rc(vt, i) \in Int /\ Is(o, i) \in Int
        BY InvTab, RcType, IsInt
      <4> QED BY <4>1, <4>2, <1>3
    <3> QED BY <3>1, <1>1 DEF Transfer
  <2> QED BY <2>1, <2>2, <1>3, InvTab, SoMoves
<1>5. GoodStep(Mem(vt))
  <2>1. NewHolders
    BY <1>2, <1>3, <1>4, InvTab, HoldMapKept DEF NewHolders
  <2> QED BY <2>1, <1>2, <1>3, <1>4, InvTab DEF GoodStep, Balanced
<1>6. /\ Inv' /\ cellBar' = cellBar /\ \A x \in Thr : clkBar'[x] = clkBar[x]
      /\ \A x \in SO : x # s => soBar'[x] = soBar[x]
  BY <1>2, <1>4, <1>5, SyncStep
<1>7. soBar'[s] = NoVTS
  BY <1>4, Bars DEF Stamp
<1>8. soBar' = [soBar EXCEPT ![s] = soBar'[s]] /\ clkBar' = clkBar
  BY <1>6, Bars, SameMap, ChangedMap
<1> QED BY <1>2, <1>6, <1>7, <1>8 DEF Clocks!SoDealloc, clkBar, soBar, cellBar

LEMMA ExtractStep ==
  ASSUME Inv, NEW t \in Thr, NEW s \in SO, libhb_so_extract(t, s)
  PROVE  Inv' /\ Clocks!SoExtract(t, s)
<1>1. PICK i, w : i = thrVid[t] /\ w = VtsID__rcinc(vt, i)
  OBVIOUS
<1>2. /\ Created(t) /\ s \notin soLive /\ vt' = w /\ soLive' = soLive \cup {s} /\ thrVid' = thrVid
      /\ soVid' = [soVid EXCEPT ![s] = i]
      /\ UNCHANGED <<line, tags0, lyns0, vts_next_GC_at>>
  BY <1>1 DEF libhb_so_extract, NoMemChange
<1>3. /\ InUseIn(vt, i) /\ clkBar[t] = vt.vts[i] /\ clkBar[t] # NoVTS
      /\ soVid[s] = VtsID_INVALID /\ Holdable(vt, soVid[s]) /\ vt = RcDecMaybe(vt, soVid[s])
  BY <1>1, <1>2, ThrStamp, InvTab DEF Holdable, RcDecMaybe
<1>4. /\ TabOK(w) /\ Keeps(vt, w) /\ InUseIn(w, i) /\ Transfer(vt, w, soVid[s], i)
      /\ w.vts[i] = vt.vts[i]
  BY <1>1, <1>3, InvTab, CopyMove
<1>5. /\ HoldMap(SO, w, soVid') /\ soVid'[s] = i
      /\ \A x \in SO : x # s => soVid'[x] = soVid[x]
      /\ Balanced(vt, thrVid, soVid, w, thrVid, soVid')
  <2>1. Assigned(soVid, s, i, soVid') /\ Holdable(w, i)
    BY <1>2, <1>4 DEF Assigned, Holdable
  <2> QED BY <2>1, <1>4, InvTab, SoMoves
<1>6. GoodStep(Mem(vt))
  <2>1. NewHolders
    BY <1>2, <1>4, <1>5, InvTab, HoldMapKept DEF NewHolders
  <2> QED BY <2>1, <1>2, <1>4, <1>5, InvTab DEF GoodStep, Balanced
<1>7. /\ Inv' /\ cellBar' = cellBar /\ \A x \in Thr : clkBar'[x] = clkBar[x]
      /\ \A x \in SO : x # s => soBar'[x] = soBar[x]
  BY <1>2, <1>5, <1>6, SyncStep
<1>8. soBar'[s] = clkBar[t]
  BY <1>2, <1>3, <1>4, <1>5, NewStamp, Bars
<1>9. soBar' = [soBar EXCEPT ![s] = soBar'[s]] /\ clkBar' = clkBar
  BY <1>7, Bars, SameMap, ChangedMap
<1> QED BY <1>2, <1>3, <1>7, <1>8, <1>9
        DEF Clocks!SoExtract, Clocks!Created, clkBar, soBar, cellBar

LEMMA SoJoinStep ==
  ASSUME Inv, NEW s \in SO, NEW other \in SO, libhb_so_join(s, other)
  PROVE  Inv' /\ Clocks!SoJoin(s, other)
<1>1. PICK o, p, v0, ji, w :
        /\ o = soVid[s] /\ p = soVid[other] /\ v0 = RcDecMaybe(vt, o)
        /\ ji = IF o = VtsID_INVALID THEN p ELSE Join2Id(v0, o, p)
        /\ w = VtsID__rcinc(IF o = VtsID_INVALID THEN v0 ELSE VtsID__join2(v0, o, p), ji)
  OBVIOUS
<1>2. /\ s \in soLive /\ other \in soLive /\ p # VtsID_INVALID /\ vt' = w /\ soLive' = soLive
      /\ thrVid' = thrVid /\ soVid' = [soVid EXCEPT ![s] = ji]
      /\ UNCHANGED <<line, tags0, lyns0, vts_next_GC_at>>
  BY <1>1 DEF libhb_so_join, NoMemChange
<1>3. /\ InUseIn(vt, p) /\ soBar[other] = vt.vts[p] /\ soBar[other] # NoVTS
      /\ Holdable(vt, o) /\ (o # VtsID_INVALID <=> soBar[s] # NoVTS)
      /\ o # VtsID_INVALID => InUseIn(vt, o) /\ soBar[s] = vt.vts[o]
  BY <1>1, <1>2, SoStamp
<1>4. /\ TabOK(w) /\ Keeps(vt, w) /\ InUseIn(w, ji) /\ Transfer(vt, w, soVid[s], ji)
      /\ w.vts[ji] = IF o = VtsID_INVALID THEN soBar[other]
                     ELSE V!VTS__join(soBar[s], soBar[other])
  <2>1. CASE o = VtsID_INVALID
    <3>1. w = VtsID__rcinc(RcDecMaybe(vt, o), p) /\ ji = p
      BY <2>1, <1>1
    <3> QED BY <2>1, <3>1, <1>1, <1>3, InvTab, CopyMove
  <2>2. CASE o # VtsID_INVALID
    <3>1. w = VtsID__rcinc(VtsID__join2(v0, o, p), ji) /\ ji = Join2Id(v0, o, p)
      BY <2>2, <1>1
    <3>2. InUseIn(vt, o) /\ InUseIn(vt, p) /\ TabOK(vt)
      BY <2>2, <1>3, InvTab
    <3>3. /\ TabOK(w) /\ Keeps(vt, w) /\ InUseIn(w, ji) /\ Transfer(vt, w, o, ji)
          /\ w.vts[ji] = V!VTS__join(vt.vts[o], vt.vts[p])
      BY <3>1, <3>2, <1>1, <1>3, JoinMove
    <3> QED BY <2>2, <3>3, <1>1, <1>3
  <2> QED BY <2>1, <2>2
<1>5. /\ HoldMap(SO, w, soVid') /\ soVid'[s] = ji
      /\ \A x \in SO : x # s => soVid'[x] = soVid[x]
      /\ Balanced(vt, thrVid, soVid, w, thrVid, soVid')
  <2>1. Assigned(soVid, s, ji, soVid') /\ Holdable(w, ji)
    BY <1>2, <1>4 DEF Assigned, Holdable
  <2> QED BY <2>1, <1>4, InvTab, SoMoves
<1>6. GoodStep(Mem(vt))
  <2>1. NewHolders
    BY <1>2, <1>4, <1>5, InvTab, HoldMapKept DEF NewHolders
  <2> QED BY <2>1, <1>2, <1>4, <1>5, InvTab DEF GoodStep, Balanced
<1>7. /\ Inv' /\ cellBar' = cellBar /\ \A x \in Thr : clkBar'[x] = clkBar[x]
      /\ \A x \in SO : x # s => soBar'[x] = soBar[x]
  BY <1>2, <1>5, <1>6, SyncStep
<1>8. soBar'[s] = IF soBar[s] = NoVTS THEN soBar[other] ELSE V!VTS__join(soBar[s], soBar[other])
  BY <1>2, <1>3, <1>4, <1>5, NewStamp, Bars
<1>9. soBar' = [soBar EXCEPT ![s] = soBar'[s]] /\ clkBar' = clkBar
  BY <1>7, Bars, SameMap, ChangedMap
<1> QED BY <1>2, <1>3, <1>7, <1>8, <1>9
        DEF Clocks!SoJoin, clkBar, soBar, cellBar, V!VTS__join, Clocks!VTS__join

LEMMA MayTickBar ==
  ASSUME Inv, NEW t \in Thr, MayTick(t)
  PROVE  Clocks!MayTick(t)
<1>1. clkBar[t] # NoVTS /\ clkBar[t][t] < MaxTick
  BY ThrStamp DEF MayTick
<1> QED BY <1>1 DEF Clocks!MayTick, Clocks!Created, clkBar

LEMMA SendStep ==
  ASSUME Inv, NEW t \in Thr, NEW s \in SO, NEW strong \in BOOLEAN, libhb_so_send(t, s, strong)
  PROVE  Inv' /\ Clocks!SoSend(t, s, strong)
<1>1. PICK i, o, v0, ni, v1, v2, ti, w :
        /\ i = thrVid[t] /\ o = soVid[s] /\ v0 = RcDecMaybe(vt, o)
        /\ ni = IF strong \/ o = VtsID_INVALID THEN i ELSE Join2Id(v0, o, i)
        /\ v1 = VtsID__rcinc(IF strong \/ o = VtsID_INVALID THEN v0
                             ELSE VtsID__join2(v0, o, i), ni)
        /\ v2 = VtsID__rcdec(v1, i) /\ ti = TickId(v2, i, t)
        /\ w = VtsID__rcinc(VtsID__tick(v2, i, t), ti)
  OBVIOUS
<1>2. /\ MayTick(t) /\ s \in soLive /\ vt' = w /\ soVid' = [soVid EXCEPT ![s] = ni]
      /\ thrVid' = [thrVid EXCEPT ![t] = ti] /\ soLive' = soLive
      /\ UNCHANGED <<line, tags0, lyns0, vts_next_GC_at>>
  BY <1>1 DEF libhb_so_send, NoMemChange
<1>3. /\ InUseIn(vt, i) /\ i # VtsID_INVALID /\ clkBar[t] = vt.vts[i] /\ Holdable(vt, o)
      /\ (o # VtsID_INVALID <=> soBar[s] # NoVTS)
      /\ o # VtsID_INVALID => InUseIn(vt, o) /\ soBar[s] = vt.vts[o]
  BY <1>1, <1>2, ThrStamp, SoStamp DEF MayTick
<1>4. /\ TabOK(v1) /\ Keeps(vt, v1) /\ InUseIn(v1, ni) /\ Transfer(vt, v1, soVid[s], ni)
      /\ v1.vts[ni] = IF strong \/ soBar[s] = NoVTS THEN clkBar[t]
                      ELSE V!VTS__join(soBar[s], clkBar[t])
  <2>1. CASE strong \/ o = VtsID_INVALID
    <3>1. v1 = VtsID__rcinc(RcDecMaybe(vt, o), i) /\ ni = i
      BY <2>1, <1>1
    <3>2. /\ TabOK(v1) /\ Keeps(vt, v1) /\ InUseIn(v1, i) /\ Transfer(vt, v1, o, i)
          /\ v1.vts[i] = vt.vts[i]
      BY <3>1, <1>3, InvTab, CopyMove
    <3> QED BY <2>1, <3>1, <3>2, <1>1, <1>3
  <2>2. CASE ~(strong \/ o = VtsID_INVALID)
    <3>1. v1 = VtsID__rcinc(VtsID__join2(v0, o, i), ni) /\ ni = Join2Id(v0, o, i)
      BY <2>2, <1>1
    <3>2. InUseIn(vt, o) /\ TabOK(vt)
      BY <2>2, <1>3, InvTab
    <3>3. /\ TabOK(v1) /\ Keeps(vt, v1) /\ InUseIn(v1, ni) /\ Transfer(vt, v1, o, ni)
          /\ v1.vts[ni] = V!VTS__join(vt.vts[o], vt.vts[i])
      BY <3>1, <3>2, <1>1, <1>3, JoinMove
    <3> QED BY <2>2, <3>3, <1>1, <1>3
  <2> QED BY <2>1, <2>2
<1>5. InUseIn(v1, i) /\ v1.vts[i] = clkBar[t] /\ v2 = RcDecMaybe(v1, i) /\ Holdable(v1, i)
  BY <1>1, <1>3, <1>4 DEF Keeps, RcDecMaybe, Holdable
<1>6. /\ TabOK(w) /\ Keeps(v1, w) /\ InUseIn(w, ti) /\ Transfer(v1, w, i, ti)
      /\ w.vts[ti] = V!VTS__tick(t, clkBar[t])
  BY <1>1, <1>4, <1>5, TickMove
<1>7. /\ HoldMap(SO, v1, soVid') /\ soVid'[s] = ni
      /\ \A x \in SO : x # s => soVid'[x] = soVid[x]
      /\ Balanced(vt, thrVid, soVid, v1, thrVid, soVid')
  <2>1. Assigned(soVid, s, ni, soVid') /\ Holdable(v1, ni)
    BY <1>2, <1>4 DEF Assigned, Holdable
  <2> QED BY <2>1, <1>4, InvTab, SoMoves
<1>8. /\ HoldMap(Thr, w, thrVid') /\ thrVid'[t] = ti
      /\ \A x \in Thr : x # t => thrVid'[x] = thrVid[x]
      /\ Balanced(v1, thrVid, soVid', w, thrVid', soVid')
  <2>1. Assigned(thrVid, t, ti, thrVid') /\ Holdable(w, ti) /\ Transfer(v1, w, thrVid[t], ti)
    BY <1>1, <1>2, <1>6 DEF Assigned, Holdable
  <2>2. HoldMap(Thr, v1, thrVid)
    BY <1>4, InvTab, HoldMapKept
  <2> QED BY <2>1, <2>2, <1>4, <1>6, ThrMoves
<1>9. Keeps(vt, w) /\ w.vts[ni] = v1.vts[ni] /\ InUseIn(w, ni)
  <2>1. Keeps(vt, w)
    BY <1>4, <1>6, InvTab, KeepsTrans DEF TabOK, Shape
  <2> QED BY <2>1, <1>4, <1>6 DEF Keeps
<1>10. GoodStep(Mem(vt))
  <2>1. NewHolders
    <3>1. HoldMap(SO, w, soVid')
      BY <1>6, <1>7, HoldMapKept
    <3> QED BY <3>1, <1>2, <1>7, <1>8, InvTab DEF NewHolders
  <2>2. Balanced(vt, thrVid, soVid, w, thrVid', soVid')
    BY <1>7, <1>8, BalancedTrans
  <2> QED BY <2>1, <2>2, <1>2, <1>6, <1>9, InvTab DEF GoodStep, Balanced
<1>11. /\ Inv' /\ cellBar' = cellBar /\ \A x \in Thr : x # t => clkBar'[x] = clkBar[x]
       /\ \A x \in SO : x # s => soBar'[x] = soBar[x]
  BY <1>2, <1>7, <1>8, <1>10, SyncStep
<1>12. /\ soBar'[s] = IF strong \/ soBar[s] = NoVTS THEN clkBar[t]
                      ELSE V!VTS__join(soBar[s], clkBar[t])
       /\ clkBar'[t] = V!VTS__tick(t, clkBar[t])
  BY <1>2, <1>4, <1>6, <1>7, <1>8, <1>9, NewStamp, Bars
<1>13. soBar' = [soBar EXCEPT ![s] = soBar'[s]] /\ clkBar' = [clkBar EXCEPT ![t] = clkBar'[t]]
  BY <1>11, Bars, ChangedMap
<1>14. Clocks!MayTick(t)
  BY <1>2, MayTickBar
<1> QED BY <1>2, <1>11, <1>12, <1>13, <1>14
        DEF Clocks!SoSend, clkBar, soBar, cellBar, V!VTS__join, Clocks!VTS__join,
            V!VTS__tick, Clocks!VTS__tick

LEMMA CreateStep ==
  ASSUME Inv, NEW parent \in Thr, NEW child \in Thr, libhb_create(parent, child)
  PROVE  Inv' /\ Clocks!Create(parent, child)
<1>1. PICK p, ci, va, v1, pi, w :
        /\ p = thrVid[parent] /\ ci = TickId(vt, p, child)
        /\ va = VtsID__rcinc(VtsID__tick(vt, p, child), ci) /\ v1 = VtsID__rcdec(va, p)
        /\ pi = TickId(v1, p, parent) /\ w = VtsID__rcinc(VtsID__tick(v1, p, parent), pi)
  OBVIOUS
<1>2. /\ MayTick(parent) /\ ~Created(child) /\ vt' = w
      /\ thrVid' = [thrVid EXCEPT ![child] = ci, ![parent] = pi]
      /\ soLive' = soLive /\ soVid' = soVid
      /\ UNCHANGED <<line, tags0, lyns0, vts_next_GC_at>>
  BY <1>1 DEF libhb_create, NoMemChange
<1>3. /\ InUseIn(vt, p) /\ p # VtsID_INVALID /\ clkBar[parent] = vt.vts[p]
      /\ thrVid[child] = VtsID_INVALID /\ clkBar[child] = NoVTS /\ parent # child
  <2>1. Created(parent)
    BY <1>2 DEF MayTick
  <2>2. InUseIn(vt, p) /\ p # VtsID_INVALID /\ clkBar[parent] = vt.vts[p]
    BY <1>1, <2>1, ThrStamp
  <2>3. thrVid[child] = VtsID_INVALID /\ clkBar[child] = NoVTS
    BY <1>2, ThrStamp DEF Created
  <2> QED BY <1>1, <2>2, <2>3
<1>4. /\ TabOK(va) /\ Keeps(vt, va) /\ InUseIn(va, ci) /\ Transfer(vt, va, thrVid[child], ci)
      /\ va.vts[ci] = V!VTS__tick(child, clkBar[parent])
  <2>1. vt = RcDecMaybe(vt, thrVid[child]) /\ Holdable(vt, thrVid[child])
    BY <1>3 DEF RcDecMaybe, Holdable
  <2> QED BY <2>1, <1>1, <1>3, InvTab, TickMove
<1>5. InUseIn(va, p) /\ va.vts[p] = clkBar[parent] /\ v1 = RcDecMaybe(va, p) /\ Holdable(va, p)
  BY <1>1, <1>3, <1>4 DEF Keeps, RcDecMaybe, Holdable
<1>6. /\ TabOK(w) /\ Keeps(va, w) /\ InUseIn(w, pi) /\ Transfer(va, w, p, pi)
      /\ w.vts[pi] = V!VTS__tick(parent, clkBar[parent])
  BY <1>1, <1>4, <1>5, TickMove
<1>7. PICK f : f = [thrVid EXCEPT ![child] = ci]
  OBVIOUS
<1>8. /\ HoldMap(Thr, va, f) /\ f[child] = ci
      /\ \A x \in Thr : x # child => f[x] = thrVid[x]
      /\ Balanced(vt, thrVid, soVid, va, f, soVid)
  <2>1. Assigned(thrVid, child, ci, f) /\ Holdable(va, ci)
    BY <1>4, <1>7 DEF Assigned, Holdable
  <2>2. TabOK(vt) /\ HoldMap(Thr, vt, thrVid) /\ TabOK(va) /\ Keeps(vt, va)
    BY <1>4, InvTab
  <2>3. Transfer(vt, va, thrVid[child], ci)
    BY <1>4
  <2> QED BY <2>1, <2>2, <2>3, ThrMoves
<1>9. /\ HoldMap(Thr, w, thrVid') /\ thrVid'[parent] = pi
      /\ \A x \in Thr : x # parent => thrVid'[x] = f[x]
      /\ Balanced(va, f, soVid, w, thrVid', soVid)
  <2>1. Assigned(f, parent, pi, thrVid') /\ Holdable(w, pi) /\ f[parent] = p
    BY <1>1, <1>2, <1>3, <1>6, <1>7, <1>8 DEF Assigned, Holdable
  <2> QED BY <2>1, <1>4, <1>6, <1>8, ThrMoves
<1>10. Keeps(vt, w) /\ w.vts[ci] = va.vts[ci] /\ InUseIn(w, ci)
  <2>1. Keeps(vt, w)
    BY <1>4, <1>6, InvTab, KeepsTrans DEF TabOK, Shape
  <2> QED BY <2>1, <1>4, <1>6 DEF Keeps
<1>11. thrVid'[child] = ci /\ \A x \in Thr : x # parent /\ x # child => thrVid'[x] = thrVid[x]
  BY <1>3, <1>8, <1>9
<1>12. GoodStep(Mem(vt))
  <2>1. NewHolders
    BY <1>2, <1>9, <1>10, InvTab, HoldMapKept DEF NewHolders
  <2>2. Balanced(vt, thrVid, soVid, w, thrVid', soVid)
    BY <1>8, <1>9, BalancedTrans
  <2> QED BY <2>1, <2>2, <1>2, <1>6, <1>10, InvTab DEF GoodStep, Balanced
<1>13. /\ Inv' /\ cellBar' = cellBar
       /\ \A x \in Thr : x # parent /\ x # child => clkBar'[x] = clkBar[x]
       /\ \A x \in SO : soBar'[x] = soBar[x]
  BY <1>2, <1>11, <1>12, SyncStep
<1>14. /\ clkBar'[child] = V!VTS__tick(child, clkBar[parent])
       /\ clkBar'[parent] = V!VTS__tick(parent, clkBar[parent])
  <2>1. Stamp(vt', ci) = w.vts[ci] /\ Stamp(vt', pi) = w.vts[pi]
    BY <1>2, <1>6, <1>10, NewStamp
  <2>2. clkBar'[child] = Stamp(vt', ci) /\ clkBar'[parent] = Stamp(vt', pi)
    BY <1>9, <1>11, Bars
  <2> QED BY <2>1, <2>2, <1>4, <1>6, <1>10
<1>15. soBar' = soBar
  BY <1>13, Bars, SameMap
<1>16. clkBar' = [clkBar EXCEPT ![child] = clkBar'[child], ![parent] = clkBar'[parent]]
  BY <1>3, <1>13, Bars
<1>17. Clocks!MayTick(parent) /\ ~Clocks!Created(child)
  BY <1>2, <1>3, MayTickBar DEF Clocks!Created, clkBar
<1>18. clkBar' = [clkBar EXCEPT ![child] = V!VTS__tick(child, clkBar[parent]),
                                ![parent] = V!VTS__tick(parent, clkBar[parent])]
  BY <1>14, <1>16
<1> QED BY <1>2, <1>13, <1>15, <1>17, <1>18
        DEF Clocks!Create, clkBar, soBar, cellBar, V!VTS__tick, Clocks!VTS__tick

----------------------------------------------------------------------------
(* Shadow memory *)

LEMMA CellStamp ==
  ASSUME Inv, NEW c \in Cell
  PROVE  /\ Holdable(vt, CellVid(c)) /\ cellBar[c] = Stamp(vt, CellVid(c))
         /\ (CellVid(c) = VtsID_INVALID <=> cellBar[c] = NoVTS)
         /\ CellVid(c) # VtsID_INVALID => /\ InUseIn(vt, CellVid(c))
                                          /\ cellBar[c] = vt.vts[CellVid(c)]
<1>1. Holdable(vt, CellVid(c))
  BY HoldableValue, MemFields DEF Inv
<1>2. TabOK(vt) /\ cellBar[c] = Stamp(vt, CellVid(c))
  BY InvTab, Bars
<1> QED BY <1>1, <1>2, StampType

LEMMA Fetched ==
  ASSUME Inv, NEW c \in Cell, NEW m, m = get_cacheline(Mem(vt), c)
  PROVE  /\ SameMem(m) /\ m.tags[WayOf(c)] = c /\ m.lyns[WayOf(c)] = CellVid(c)
         /\ TabOK(m.vt) /\ Keeps(vt, m.vt)
<1>1. SameMem(m) /\ m.tags[WayOf(c)] = c /\ m.lyns[WayOf(c)] = CellVid(c)
  BY PresentMem, InvTab, LineMem
<1> QED BY <1>1 DEF SameMem, MemOK

\* A cached value is replaced, with nothing else to account for.
LEMMA QuietStore ==
  ASSUME Inv, NEW c \in Cell, NEW m, SameMem(m), m.tags[WayOf(c)] = c,
         NEW v, TabOK(v), Keeps(m.vt, v), \A k \in Nat : Rc(v, k) = Rc(m.vt, k),
         NEW i, Holdable(v, i), StoreCell(m, v, c, i), SyncUnchanged, thrVid' = thrVid
  PROVE  /\ Inv' /\ clkBar' = clkBar /\ soBar' = soBar /\ soLive' = soLive
         /\ cellBar' = [cellBar EXCEPT ![c] = Stamp(v, i)]
<1>1. /\ vt' = v /\ line' = m.line /\ tags0' = m.tags
      /\ lyns0' = [m.lyns EXCEPT ![WayOf(c)] = i]
      /\ soLive' = soLive /\ soVid' = soVid /\ vts_next_GC_at' = vts_next_GC_at
  BY DEF StoreCell, SyncUnchanged
<1>2. Keeps(vt, v)
  BY InvTab, KeepsTrans DEF SameMem, MemOK, TabOK, Shape
<1>3. GoodStep(m)
  <2>1. NewHolders
    BY <1>1, <1>2, InvTab, HoldMapKept DEF NewHolders
  <2>2. \A k \in Nat : Balance(v, thrVid, soVid, k) = Balance(m.vt, thrVid, soVid, k)
    BY DEF Balance
  <2> QED BY <2>1, <2>2, <1>1 DEF GoodStep
<1>4. /\ Inv' /\ cellBar' = [cellBar EXCEPT ![c] = Stamp(v, i)]
      /\ \A t \in Thr : clkBar'[t] = clkBar[t]
      /\ \A s \in SO : soBar'[s] = soBar[s]
  BY <1>1, <1>3, StoreStep
<1> QED BY <1>1, <1>4, Bars, SameMap

\* Storing what the cell holds.
LEMMA SameStore ==
  ASSUME Inv, NEW c \in Cell, NEW v, Keeps(vt, v)
  PROVE  [cellBar EXCEPT ![c] = Stamp(v, CellVid(c))] = cellBar
<1>1. Stamp(v, CellVid(c)) = cellBar[c]
  BY CellStamp, StampKept
<1> QED BY <1>1, Bars

LEMMA AccessKeepStep ==
  ASSUME Inv, NEW c \in Cell, AccessKeep(c)
  PROVE  Inv' /\ UNCHANGED Clocks!cvars
<1>1. PICK m : m = get_cacheline(Mem(vt), c)
  OBVIOUS
<1>2. /\ SameMem(m) /\ m.tags[WayOf(c)] = c /\ m.lyns[WayOf(c)] = CellVid(c)
      /\ TabOK(m.vt) /\ Keeps(vt, m.vt) /\ m.vt.n \in Nat
  BY <1>1, Fetched DEF TabOK, Shape
<1>3. StoreCell(m, m.vt, c, CellVid(c)) /\ SyncUnchanged /\ thrVid' = thrVid
  BY <1>1, <1>2 DEF AccessKeep
<1>4. Holdable(m.vt, CellVid(c)) /\ Keeps(m.vt, m.vt)
  BY <1>2, CellStamp, HoldableKept, KeepsRefl
<1>5. /\ Inv' /\ clkBar' = clkBar /\ soBar' = soBar /\ soLive' = soLive
      /\ cellBar' = [cellBar EXCEPT ![c] = Stamp(m.vt, CellVid(c))]
  BY <1>2, <1>3, <1>4, QuietStore
<1>6. cellBar' = cellBar
  BY <1>2, <1>5, SameStore
<1> QED BY <1>5, <1>6 DEF Clocks!cvars, clkBar, soBar, cellBar

LEMMA RangeResetStep ==
  ASSUME Inv, NEW c \in Cell, RangeReset(c)
  PROVE  Inv' /\ Clocks!RangeReset(c)
<1>1. PICK m : m = get_cacheline(Mem(vt), c)
  OBVIOUS
<1>2. /\ SameMem(m) /\ m.tags[WayOf(c)] = c /\ TabOK(m.vt) /\ m.vt.n \in Nat
  BY <1>1, Fetched DEF TabOK, Shape
<1>3. StoreCell(m, m.vt, c, VtsID_INVALID) /\ SyncUnchanged /\ thrVid' = thrVid
  BY <1>1 DEF RangeReset
<1>4. Holdable(m.vt, VtsID_INVALID) /\ Keeps(m.vt, m.vt) /\ Stamp(m.vt, VtsID_INVALID) = NoVTS
  BY <1>2, KeepsRefl DEF Holdable, Stamp
<1>5. /\ Inv' /\ clkBar' = clkBar /\ soBar' = soBar /\ soLive' = soLive
      /\ cellBar' = [cellBar EXCEPT ![c] = Stamp(m.vt, VtsID_INVALID)]
  BY <1>2, <1>3, <1>4, QuietStore
<1> QED BY <1>4, <1>5 DEF Clocks!RangeReset, clkBar, soBar, cellBar

LEMMA CopyShadowStep ==
  ASSUME Inv, NEW src \in Cell, NEW dst \in Cell, CopyShadow(src, dst)
  PROVE  Inv' /\ Clocks!CopyShadow(src, dst)
<1>1. PICK m1, m2 : m1 = get_cacheline(Mem(vt), src) /\ m2 = get_cacheline(m1, dst)
  OBVIOUS
<1>2. SameMem(m1) /\ m1.lyns[WayOf(src)] = CellVid(src)
  BY <1>1, Fetched
<1>3. SameMem(m2) /\ m2.tags[WayOf(dst)] = dst
  BY <1>1, <1>2, InvTab, LineMem
<1>4. TabOK(m2.vt) /\ Keeps(vt, m2.vt) /\ m2.vt.n \in Nat
  BY <1>3 DEF SameMem, MemOK, TabOK, Shape
<1>5. StoreCell(m2, m2.vt, dst, CellVid(src)) /\ SyncUnchanged /\ thrVid' = thrVid
  BY <1>1, <1>2 DEF CopyShadow
<1>6. /\ Holdable(m2.vt, CellVid(src)) /\ Keeps(m2.vt, m2.vt)
      /\ Stamp(m2.vt, CellVid(src)) = cellBar[src]
  BY <1>4, CellStamp, HoldableKept, StampKept, KeepsRefl
<1>7. /\ Inv' /\ clkBar' = clkBar /\ soBar' = soBar /\ soLive' = soLive
      /\ cellBar' = [cellBar EXCEPT ![dst] = Stamp(m2.vt, CellVid(src))]
  BY <1>3, <1>4, <1>5, <1>6, QuietStore
<1> QED BY <1>6, <1>7 DEF Clocks!CopyShadow, clkBar, soBar, cellBar

LEMMA AccessSharedStep ==
  ASSUME Inv, NEW t \in Thr, NEW c \in Cell, AccessShared(t, c)
  PROVE  Inv' /\ Clocks!AccessShared(t, c)
<1>1. PICK m, i : m = get_cacheline(Mem(vt), c) /\ i = thrVid[t]
  OBVIOUS
<1>2. /\ SameMem(m) /\ m.tags[WayOf(c)] = c /\ TabOK(m.vt) /\ Keeps(vt, m.vt) /\ m.vt.n \in Nat
  BY <1>1, Fetched DEF TabOK, Shape
<1>3. /\ StoreCell(m, m.vt, c, i) /\ SyncUnchanged /\ thrVid' = thrVid /\ Created(t)
      /\ CellVid(c) # VtsID_INVALID
  BY <1>1 DEF AccessShared
<1>4. /\ Holdable(vt, i) /\ clkBar[t] = Stamp(vt, i) /\ clkBar[t] # NoVTS /\ cellBar[c] # NoVTS
  BY <1>1, <1>3, InvTab, Bars, ThrStamp, CellStamp DEF HoldMap
<1>5. Holdable(m.vt, i) /\ Keeps(m.vt, m.vt) /\ Stamp(m.vt, i) = clkBar[t]
  BY <1>2, <1>4, HoldableKept, StampKept, KeepsRefl
<1>6. /\ Inv' /\ clkBar' = clkBar /\ soBar' = soBar /\ soLive' = soLive
      /\ cellBar' = [cellBar EXCEPT ![c] = Stamp(m.vt, i)]
  BY <1>2, <1>3, <1>5, QuietStore
<1> QED BY <1>4, <1>5, <1>6 DEF Clocks!AccessShared, Clocks!Created, clkBar, soBar, cellBar

LEMMA AccessByOrderStep ==
  ASSUME Inv, NEW t \in Thr, NEW c \in Cell, AccessByOrder(t, c)
  PROVE  Inv' /\ Clocks!AccessByOrder(t, c)
<1>1. PICK m, i, o, v : /\ m = get_cacheline(Mem(vt), c) /\ i = thrVid[t]
                        /\ o = m.lyns[WayOf(c)]
                        /\ v = IF o = VtsID_INVALID THEN m.vt ELSE VtsID__getOrdering(m.vt, o, i)
  OBVIOUS
<1>2. /\ SameMem(m) /\ m.tags[WayOf(c)] = c /\ TabOK(m.vt) /\ Keeps(vt, m.vt) /\ m.vt.n \in Nat
      /\ o = CellVid(c)
  BY <1>1, Fetched DEF TabOK, Shape
<1>3. /\ Created(t) /\ SyncUnchanged /\ thrVid' = thrVid
      /\ IF o = VtsID_INVALID \/ OrdOf(m.vt, o, i) \in {"EQ", "LT"}
           THEN StoreCell(m, v, c, i)
           ELSE \E new \in {o, VtsID_INVALID} : StoreCell(m, v, c, new)
  BY <1>1 DEF AccessByOrder
<1>4. /\ InUseIn(vt, i) /\ clkBar[t] = vt.vts[i] /\ clkBar[t] # NoVTS
      /\ Holdable(vt, o) /\ (o = VtsID_INVALID <=> cellBar[c] = NoVTS)
      /\ o # VtsID_INVALID => InUseIn(vt, o) /\ cellBar[c] = vt.vts[o]
  BY <1>1, <1>2, <1>3, ThrStamp, CellStamp
<1>5. InUseIn(m.vt, i) /\ m.vt.vts[i] = clkBar[t]
  BY <1>2, <1>4 DEF Keeps
<1>6. o # VtsID_INVALID => InUseIn(m.vt, o) /\ m.vt.vts[o] = cellBar[c]
  BY <1>2, <1>4 DEF Keeps
<1>7. /\ TabOK(v) /\ Keeps(m.vt, v) /\ \A k \in Nat : Rc(v, k) = Rc(m.vt, k)
      /\ o # VtsID_INVALID => OrdOf(m.vt, o, i) = V!VTS__cmp(cellBar[c], clkBar[t])
  <2>1. CASE o = VtsID_INVALID
    BY <2>1, <1>1, <1>2, KeepsRefl
  <2>2. CASE o # VtsID_INVALID
    <3>1. v = VtsID__getOrdering(m.vt, o, i)
      BY <2>2, <1>1
    <3> QED BY <2>2, <3>1, <1>2, <1>5, <1>6, OrderingOK
  <2> QED BY <2>1, <2>2
<1>8. /\ Keeps(vt, v) /\ Holdable(v, i) /\ Stamp(v, i) = clkBar[t] /\ Holdable(v, o)
  <2>1. Keeps(vt, v)
    BY <1>2, <1>7, InvTab, KeepsTrans DEF TabOK, Shape
  <2>2. Holdable(vt, i) /\ Stamp(vt, i) = clkBar[t]
    BY <1>1, <1>4, Bars DEF Holdable
  <2> QED BY <2>1, <2>2, <1>4, HoldableKept, StampKept
<1>9. CASE o = VtsID_INVALID \/ OrdOf(m.vt, o, i) \in {"EQ", "LT"}
  <2>1. StoreCell(m, v, c, i)
    BY <1>3, <1>9
  <2>2. /\ Inv' /\ clkBar' = clkBar /\ soBar' = soBar /\ soLive' = soLive
        /\ cellBar' = [cellBar EXCEPT ![c] = clkBar[t]]
    BY <2>1, <1>2, <1>3, <1>7, <1>8, QuietStore
  <2>3. cellBar[c] = NoVTS \/ V!VTS__cmp(cellBar[c], clkBar[t]) \in {"EQ", "LT"}
    BY <1>4, <1>7, <1>9
  <2> QED BY <2>2, <2>3, <1>4
          DEF Clocks!AccessByOrder, Clocks!Created, clkBar, soBar, cellBar,
              V!VTS__cmp, V!VTS__leq, Clocks!VTS__cmp, Clocks!VTS__leq
<1>10. CASE ~(o = VtsID_INVALID \/ OrdOf(m.vt, o, i) \in {"EQ", "LT"})
  <2>1. PICK new \in {o, VtsID_INVALID} : StoreCell(m, v, c, new)
    BY <1>3, <1>10
  <2>2. Holdable(v, new)
    BY <1>8 DEF Holdable
  <2>3. /\ Inv' /\ clkBar' = clkBar /\ soBar' = soBar /\ soLive' = soLive
        /\ cellBar' = [cellBar EXCEPT ![c] = Stamp(v, new)]
    BY <2>1, <2>2, <1>2, <1>3, <1>7, QuietStore
  <2>4. cellBar' = cellBar \/ cellBar' = [cellBar EXCEPT ![c] = NoVTS]
    <3>1. CASE new = o
      BY <3>1, <2>3, <1>2, <1>8, SameStore
    <3>2. CASE new = VtsID_INVALID
      BY <3>2, <2>3 DEF Stamp
    <3> QED BY <3>1, <3>2
  <2>5. ~(cellBar[c] = NoVTS \/ V!VTS__cmp(cellBar[c], clkBar[t]) \in {"EQ", "LT"})
    BY <1>4, <1>7, <1>10
  <2> QED BY <2>3, <2>4, <2>5, <1>4
          DEF Clocks!AccessByOrder, Clocks!Created, clkBar, soBar, cellBar,
              V!VTS__cmp, V!VTS__leq, Clocks!VTS__cmp, Clocks!VTS__leq
<1> QED BY <1>9, <1>10

\* A cell is stored while thread t exchanges its VtsID for r.
LEMMA MovingStore ==
  ASSUME Inv, NEW c \in Cell, NEW t \in Thr, NEW m, SameMem(m), m.tags[WayOf(c)] = c,
         NEW v, TabOK(v), Keeps(m.vt, v), NEW r, Holdable(v, r), Transfer(m.vt, v, thrVid[t], r),
         NEW i, Holdable(v, i), StoreCell(m, v, c, i), SyncUnchanged,
         Assigned(thrVid, t, r, thrVid')
  PROVE  /\ Inv' /\ soBar' = soBar /\ soLive' = soLive
         /\ clkBar' = [clkBar EXCEPT ![t] = Stamp(v, r)]
         /\ cellBar' = [cellBar EXCEPT ![c] = Stamp(v, i)]
<1>1. /\ vt' = v /\ line' = m.line /\ tags0' = m.tags
      /\ lyns0' = [m.lyns EXCEPT ![WayOf(c)] = i]
      /\ soLive' = soLive /\ soVid' = soVid /\ vts_next_GC_at' = vts_next_GC_at
  BY DEF StoreCell, SyncUnchanged
<1>2. TabOK(m.vt) /\ Keeps(vt, m.vt)
  BY DEF SameMem, MemOK
<1>3. Keeps(vt, v)
  BY <1>2, InvTab, KeepsTrans DEF TabOK, Shape
<1>4. HoldMap(Thr, m.vt, thrVid)
  BY <1>2, InvTab, HoldMapKept
<1>5. /\ HoldMap(Thr, v, thrVid') /\ thrVid'[t] = r
      /\ \A x \in Thr : x # t => thrVid'[x] = thrVid[x]
      /\ Balanced(m.vt, thrVid, soVid, v, thrVid', soVid)
  BY <1>2, <1>4, ThrMoves
<1>6. GoodStep(m)
  <2>1. NewHolders
    BY <1>1, <1>3, <1>5, InvTab, HoldMapKept DEF NewHolders
  <2> QED BY <2>1, <1>1, <1>5 DEF GoodStep, Balanced
<1>7. /\ Inv' /\ cellBar' = [cellBar EXCEPT ![c] = Stamp(v, i)]
      /\ \A x \in Thr : x # t => clkBar'[x] = clkBar[x]
      /\ \A s \in SO : soBar'[s] = soBar[s]
  BY <1>1, <1>5, <1>6, StoreStep
<1>8. clkBar'[t] = Stamp(v, r)
  BY <1>1, <1>5, Bars
<1>9. clkBar' = [clkBar EXCEPT ![t] = clkBar'[t]] /\ soBar' = soBar
  BY <1>7, Bars, ChangedMap, SameMap
<1> QED BY <1>1, <1>7, <1>8, <1>9

LEMMA SpinReadStep ==
  ASSUME Inv, NEW t \in Thr, NEW c \in Cell, SpinRead(t, c)
  PROVE  Inv' /\ Clocks!SpinRead(t, c)
<1>1. PICK m, i, o, v0, ji, w :
        /\ m = get_cacheline(Mem(vt), c) /\ i = thrVid[t] /\ o = m.lyns[WayOf(c)]
        /\ v0 = VtsID__rcdec(m.vt, i) /\ ji = Join2Id(v0, i, o)
        /\ w = VtsID__rcinc(VtsID__join2(v0, i, o), ji)
  OBVIOUS
<1>2. /\ SameMem(m) /\ m.tags[WayOf(c)] = c /\ TabOK(m.vt) /\ Keeps(vt, m.vt) /\ m.vt.n \in Nat
      /\ o = CellVid(c)
  BY <1>1, Fetched DEF TabOK, Shape
<1>3. /\ Created(t) /\ SyncUnchanged
      /\ IF o = VtsID_INVALID
           THEN StoreCell(m, m.vt, c, i) /\ UNCHANGED thrVid
           ELSE StoreCell(m, w, c, o) /\ thrVid' = [thrVid EXCEPT ![t] = ji]
  BY <1>1 DEF SpinRead
<1>4. /\ InUseIn(vt, i) /\ i # VtsID_INVALID /\ clkBar[t] = vt.vts[i] /\ clkBar[t] # NoVTS
      /\ (o = VtsID_INVALID <=> cellBar[c] = NoVTS)
      /\ o # VtsID_INVALID => InUseIn(vt, o) /\ cellBar[c] = vt.vts[o]
  BY <1>1, <1>2, <1>3, ThrStamp, CellStamp
<1>5. InUseIn(m.vt, i) /\ m.vt.vts[i] = clkBar[t] /\ Holdable(m.vt, i)
  BY <1>2, <1>4 DEF Keeps, Holdable
<1>6. CASE o = VtsID_INVALID
  <2>1. StoreCell(m, m.vt, c, i) /\ thrVid' = thrVid
    BY <1>3, <1>6
  <2>2. Keeps(m.vt, m.vt) /\ Stamp(m.vt, i) = clkBar[t]
    BY <1>2, <1>4, <1>5, KeepsRefl DEF Stamp
  <2>3. /\ Inv' /\ clkBar' = clkBar /\ soBar' = soBar /\ soLive' = soLive
        /\ cellBar' = [cellBar EXCEPT ![c] = clkBar[t]]
    BY <2>1, <2>2, <1>2, <1>3, <1>5, QuietStore
  <2> QED BY <2>3, <1>4, <1>6 DEF Clocks!SpinRead, Clocks!Created, clkBar, soBar, cellBar
<1>7. CASE o # VtsID_INVALID
  <2>1. StoreCell(m, w, c, o) /\ Assigned(thrVid, t, ji, thrVid')
    BY <1>3, <1>7 DEF Assigned
  <2>2. InUseIn(m.vt, o) /\ m.vt.vts[o] = cellBar[c] /\ v0 = RcDecMaybe(m.vt, i)
    BY <1>1, <1>2, <1>4, <1>7 DEF Keeps, RcDecMaybe
  <2>3. /\ TabOK(w) /\ Keeps(m.vt, w) /\ InUseIn(w, ji) /\ Transfer(m.vt, w, i, ji)
        /\ w.vts[ji] = V!VTS__join(m.vt.vts[i], m.vt.vts[o])
    BY <2>2, <1>1, <1>2, <1>5, JoinMove
  <2>4. /\ Keeps(vt, w) /\ Holdable(w, ji) /\ ji # VtsID_INVALID
        /\ Stamp(w, ji) = V!VTS__join(clkBar[t], cellBar[c])
    <3>1. Keeps(vt, w)
      BY <2>3, <1>2, InvTab, KeepsTrans DEF TabOK, Shape
    <3>2. ji # VtsID_INVALID
      BY <2>3, IDAssumption DEF InUseIn, VtsID, TabOK, Shape
    <3> QED BY <3>1, <3>2, <2>2, <2>3, <1>5 DEF Stamp, Holdable
  <2>5. Holdable(w, o)
    BY <2>4, <1>4, <1>7, HoldableKept DEF Holdable
  <2>6. Transfer(m.vt, w, thrVid[t], ji)
    BY <2>3, <1>1
  <2>7. /\ Inv' /\ soBar' = soBar /\ soLive' = soLive
        /\ clkBar' = [clkBar EXCEPT ![t] = Stamp(w, ji)]
        /\ cellBar' = [cellBar EXCEPT ![c] = Stamp(w, o)]
    BY <2>1, <2>3, <2>4, <2>5, <2>6, <1>2, <1>3, MovingStore
  <2>8. cellBar' = cellBar
    BY <2>4, <2>7, <1>2, SameStore
  <2> QED BY <2>4, <2>7, <2>8, <1>4, <1>7
          DEF Clocks!SpinRead, Clocks!Created, clkBar, soBar, cellBar,
              V!VTS__join, Clocks!VTS__join
<1> QED BY <1>6, <1>7

LEMMA SpinWriteStep ==
  ASSUME Inv, NEW t \in Thr, NEW c \in Cell, SpinWrite(t, c)
  PROVE  Inv' /\ Clocks!SpinWrite(t, c)
<1>1. PICK m, i, v0, ti, w :
        /\ m = get_cacheline(Mem(vt), c) /\ i = thrVid[t]
        /\ v0 = VtsID__rcdec(m.vt, i) /\ ti = TickId(v0, i, t)
        /\ w = VtsID__rcinc(VtsID__tick(v0, i, t), ti)
  OBVIOUS
<1>2. /\ SameMem(m) /\ m.tags[WayOf(c)] = c /\ TabOK(m.vt) /\ Keeps(vt, m.vt) /\ m.vt.n \in Nat
  BY <1>1, Fetched DEF TabOK, Shape
<1>3. /\ MayTick(t) /\ Created(t) /\ SyncUnchanged /\ CellVid(c) # VtsID_INVALID
      /\ StoreCell(m, w, c, i) /\ Assigned(thrVid, t, ti, thrVid')
  BY <1>1 DEF SpinWrite, MayTick, Assigned
<1>4. /\ InUseIn(vt, i) /\ i # VtsID_INVALID /\ clkBar[t] = vt.vts[i] /\ cellBar[c] # NoVTS
  BY <1>1, <1>3, ThrStamp, CellStamp
<1>5. /\ InUseIn(m.vt, i) /\ m.vt.vts[i] = clkBar[t] /\ Holdable(m.vt, i)
      /\ v0 = RcDecMaybe(m.vt, i)
  BY <1>1, <1>2, <1>4 DEF Keeps, Holdable, RcDecMaybe
<1>6. /\ TabOK(w) /\ Keeps(m.vt, w) /\ InUseIn(w, ti) /\ Transfer(m.vt, w, i, ti)
      /\ w.vts[ti] = V!VTS__tick(t, m.vt.vts[i])
  BY <1>1, <1>2, <1>5, TickMove
<1>7. /\ Holdable(w, ti) /\ Stamp(w, ti) = V!VTS__tick(t, clkBar[t])
      /\ Holdable(w, i) /\ Stamp(w, i) = clkBar[t]
  <2>1. ti # VtsID_INVALID
    BY <1>6, IDAssumption DEF InUseIn, VtsID, TabOK, Shape
  <2>2. InUseIn(w, i) /\ w.vts[i] = clkBar[t]
    BY <1>5, <1>6 DEF Keeps
  <2> QED BY <2>1, <2>2, <1>4, <1>5, <1>6 DEF Stamp, Holdable
<1>8. Transfer(m.vt, w, thrVid[t], ti)
  BY <1>1, <1>6
<1>9. /\ Inv' /\ soBar' = soBar /\ soLive' = soLive
      /\ clkBar' = [clkBar EXCEPT ![t] = V!VTS__tick(t, clkBar[t])]
      /\ cellBar' = [cellBar EXCEPT ![c] = clkBar[t]]
  BY <1>2, <1>3, <1>6, <1>7, <1>8, MovingStore
<1>10. Clocks!MayTick(t)
  BY <1>3, MayTickBar
<1> QED BY <1>4, <1>9, <1>10
        DEF Clocks!SpinWrite, clkBar, soBar, cellBar, V!VTS__tick, Clocks!VTS__tick

----------------------------------------------------------------------------
(* Garbage collection *)

LEMMA NextBelowOK ==
  ASSUME NEW S \in SUBSET Nat, NEW i \in Nat
  PROVE  Below(S, i, NextBelow(S, i)) /\ NextBelow(S, i) \in S \cup {VtsID_INVALID}
<1>1. CASE \E j \in S : j < i
  <2>1. PICK T : T = {j \in S : j < i}
    OBVIOUS
  <2>2. T \in SUBSET Nat /\ T # {} /\ \A j \in T : j < i
    BY <1>1, <2>1
  <2>3. \E x \in T : \A y \in T : y <= x
    BY <2>2, Greatest
  <2>4. \E j \in S : j < i /\ \A k \in S : k < i => k <= j
    BY <2>1, <2>3
  <2>5. PICK x : x = NextBelow(S, i)
    OBVIOUS
  <2>6. x \in S /\ x < i /\ \A k \in S : k < i => k <= x
    BY <1>1, <2>4, <2>5 DEF NextBelow
  <2>7. x # VtsID_INVALID
    BY <2>6, IDAssumption
  <2> QED BY <2>5, <2>6, <2>7 DEF Below
<1>2. CASE ~ \E j \in S : j < i
  <2>1. NextBelow(S, i) = VtsID_INVALID /\ \A k \in S : k >= i
    BY <1>2 DEF NextBelow
  <2> QED BY <2>1 DEF Below
<1> QED BY <1>1, <1>2

\* The cells that hold i, those of C counted apart.
CountIn(f, C, i) == Cardinality({c \in Cell : c \in C /\ f[c] = i})
CountOut(f, C, i) == Cardinality({c \in Cell : c \notin C /\ f[c] = i})

LEMMA CountParts ==
  ASSUME NEW f, NEW C, NEW i
  PROVE  /\ Count(Cell, f, i) = CountIn(f, C, i) + CountOut(f, C, i)
         /\ CountIn(f, C, i) \in Nat /\ CountOut(f, C, i) \in Nat
<1> DEFINE A == {c \in Cell : c \in C /\ f[c] = i}
           B == {c \in Cell : c \notin C /\ f[c] = i}
<1>1. IsFiniteSet(A) /\ IsFiniteSet(B)
  BY FiniteAssumption, FS_Subset
<1>2. A \cap B = {} /\ A \cup B = {c \in Cell : f[c] = i}
  OBVIOUS
<1> HIDE DEF A, B
<1>3. Cardinality(A) \in Nat /\ Cardinality(B) \in Nat
  BY <1>1, FS_CardinalityType
<1>4. Cardinality(A \cup B) = Cardinality(A) + Cardinality(B) - Cardinality(A \cap B)
  BY <1>1, FS_Union
<1>5. Cardinality(A \cap B) = 0
  <2>1. Cardinality({}) = 0
    BY FS_EmptySet
  <2> QED BY <2>1, <1>2
<1>6. Count(Cell, f, i) = Cardinality(A \cup B)
  BY <1>2 DEF Count
<1>7. Count(Cell, f, i) = Cardinality(A) + Cardinality(B)
  BY <1>3, <1>4, <1>5, <1>6
<1> QED BY <1>3, <1>7 DEF A, B, CountIn, CountOut

\* After the flush every entry has exactly the references that it should
\* have, cells now counted by the value that they really hold.
LEMMA FlushedCounts ==
  ASSUME Inv, NEW i \in VtsID(vt)
  PROVE  /\ FlushedRc[i] = Count(Thr, thrVid, i) + Count(SO, soVid, i) + Count(Cell, Flushed, i)
         /\ FlushedRc[i] \in Nat
<1>1. TabOK(vt) /\ i \in Nat /\ Rc(vt, i) = vt.rc[i] /\ vt.rc[i] \in Int
  BY InvTab DEF TabOK, Shape, VtsID, Rc
<1>2. Rc(vt, i) - Count(Cell, line, i) = Count(Thr, thrVid, i) + Count(SO, soVid, i)
  BY <1>1, MemFields DEF Inv, Counted, Others
<1>3. \A c \in Cell : c \notin Cached => Flushed[c] = line[c]
  BY WayInWay, NoCellAssumption DEF Flushed, Cached, CellVid
<1>4. PICK f, K : f = Flushed /\ K = Cached
  OBVIOUS
<1>5. /\ Count(Cell, line, i) = CountIn(line, K, i) + CountOut(line, K, i)
      /\ CountIn(line, K, i) \in Nat /\ CountOut(line, K, i) \in Nat
      /\ Count(Cell, f, i) = CountIn(f, K, i) + CountOut(f, K, i)
      /\ CountIn(f, K, i) \in Nat /\ CountOut(f, K, i) \in Nat
  BY CountParts
<1>6. CountOut(f, K, i) = CountOut(line, K, i)
  <2>1. {c \in Cell : c \notin K /\ line[c] = i} = {c \in Cell : c \notin K /\ f[c] = i}
    BY <1>3, <1>4
  <2> QED BY <2>1 DEF CountOut
<1>7. FlushedRc[i] = vt.rc[i] - CountIn(line, K, i) + CountIn(f, K, i)
  <2>1. {c \in Cell : Moves(c, i)} = {c \in Cell : c \in K /\ line[c] = i}
    BY <1>4 DEF Moves
  <2>2. {c \in Cell : Arrives(c, i)} = {c \in Cell : c \in K /\ f[c] = i}
    BY <1>4 DEF Arrives, Flushed
  <2> QED BY <2>1, <2>2 DEF FlushedRc, CountIn
<1>8. Count(Thr, thrVid, i) \in Nat /\ Count(SO, soVid, i) \in Nat
  BY CountInt
<1>9. FlushedRc[i] = Count(Thr, thrVid, i) + Count(SO, soVid, i) + Count(Cell, f, i)
  BY <1>1, <1>2, <1>5, <1>6, <1>7, <1>8
<1>10. FlushedRc[i] \in Nat
  BY <1>5, <1>8, <1>9
<1> QED BY <1>4, <1>9, <1>10

\* Nobody holds an entry that is collected.
LEMMA GarbageUnheld ==
  ASSUME Inv, NEW i \in Garbage
  PROVE  /\ \A t \in Thr : thrVid[t] # i
         /\ \A s \in SO : soVid[s] # i
         /\ \A c \in Cell : CellVid(c) # i
<1>1. i \in VtsID(vt) /\ FlushedRc[i] = 0
  BY DEF Garbage
<1>2. PICK f : f = Flushed
  OBVIOUS
<1>3. /\ Count(Thr, thrVid, i) + Count(SO, soVid, i) + Count(Cell, f, i) = 0
      /\ Count(Thr, thrVid, i) \in Nat /\ Count(SO, soVid, i) \in Nat /\ Count(Cell, f, i) \in Nat
  BY <1>1, <1>2, FlushedCounts, CountInt
<1>4. Count(Thr, thrVid, i) = 0 /\ Count(SO, soVid, i) = 0 /\ Count(Cell, f, i) = 0
  BY <1>3
<1>5. IsFiniteSet(Thr) /\ IsFiniteSet(SO) /\ IsFiniteSet(Cell)
  BY FiniteAssumption
<1>6. /\ \A t \in Thr : thrVid[t] # i
      /\ \A s \in SO : soVid[s] # i
      /\ \A c \in Cell : f[c] # i
  BY <1>4, <1>5, CountType
<1> QED BY <1>2, <1>6 DEF Flushed

\* The table that a collection leaves when G is collected.
Collected(v, G, rc) ==
  [VtsID__invalidate_caches(v) EXCEPT
     !.rc   = rc,
     !.vts  = [i \in VtsID(v) |-> IF i \in G THEN NoVTS ELSE v.vts[i]],
     !.link = [i \in VtsID(v) |-> IF i \in G THEN NextBelow(G, i) ELSE v.link[i]],
     !.free = NextBelow(G, v.n),
     !.set  = [x \in {y \in DOMAIN v.set : v.set[y] \notin G} |-> v.set[x]]]

\* The free list is empty, and rc are counts that are zero on G.
MayCollect(v, G, rc) ==
  /\ v.free = VtsID_INVALID /\ G \in SUBSET VtsID(v) /\ rc \in [VtsID(v) -> Int]
  /\ \A i \in G : rc[i] = 0

\* The collection starts from an empty free list: afterwards the list holds
\* exactly what was collected, and the rest of the table is as it was.
LEMMA CollectedOK ==
  ASSUME NEW v, TabOK(v), NEW G, NEW rc, MayCollect(v, G, rc), NEW w, w = Collected(v, G, rc)
  PROVE  /\ TabOK(w) /\ w.n = v.n /\ w.rc = rc
         /\ \A i : InUseIn(v, i) /\ i \notin G => InUseIn(w, i) /\ w.vts[i] = v.vts[i]
<1> USE DEF TabOK, MayCollect
<1>1. v.n \in Nat /\ G \in SUBSET Nat
  BY DEF Shape, VtsID
<1>2. /\ w.n = v.n /\ w.rc = rc /\ w.free = NextBelow(G, v.n)
      /\ w.vts = [i \in VtsID(v) |-> IF i \in G THEN NoVTS ELSE v.vts[i]]
      /\ w.link = [i \in VtsID(v) |-> IF i \in G THEN NextBelow(G, i) ELSE v.link[i]]
      /\ w.set = [x \in {y \in DOMAIN v.set : v.set[y] \notin G} |-> v.set[x]]
      /\ w.jc = [h \in Slot |-> NoJoin] /\ w.oc = [h \in Slot |-> NoOrd]
      /\ IsRecord(w)
  BY DEF Collected, VtsID__invalidate_caches, Shape, IsRecord
<1>3. VtsID(w) = VtsID(v)
  BY <1>2 DEF VtsID
<1>4. FreeIn(v) = {}
  BY <1>1 DEF FreeList, Below, FreeIn, VtsID
<1>5. FreeIn(w) = G
  BY <1>2, <1>3, <1>4 DEF FreeIn
<1>6. \A i \in Nat : Below(G, i, NextBelow(G, i)) /\ NextBelow(G, i) \in G \cup {VtsID_INVALID}
  BY <1>1, NextBelowOK
<1>7. Shape(w)
  <2>1. w.vts \in [VtsID(w) -> V!VTS \cup {NoVTS}]
    BY <1>2, <1>3 DEF Shape
  <2>2. w.link \in [VtsID(w) -> VtsID(w) \cup {VtsID_INVALID}]
    <3>1. \A i \in G : NextBelow(G, i) \in VtsID(v) \cup {VtsID_INVALID}
      BY <1>1, <1>6
    <3>2. \A i \in VtsID(v) : v.link[i] \in VtsID(v) \cup {VtsID_INVALID}
      BY DEF Shape
    <3> QED BY <1>2, <1>3, <3>1, <3>2
  <2>3. w.free \in VtsID(w) \cup {VtsID_INVALID}
    BY <1>1, <1>2, <1>3, <1>6
  <2>4. DOMAIN w.set \subseteq V!VTS
    BY <1>2 DEF Shape
  <2>5. HasSlots(w.jc) /\ HasSlots(w.oc)
    BY <1>2 DEF HasSlots
  <2> QED BY <1>1, <1>2, <1>3, <2>1, <2>2, <2>3, <2>4, <2>5 DEF Shape
<1>8. Consed(w)
  <2>1. ASSUME NEW i \in VtsID(w), w.vts[i] # NoVTS
        PROVE  w.vts[i] \in DOMAIN w.set /\ w.set[w.vts[i]] = i
    <3>1. i \notin G /\ w.vts[i] = v.vts[i] /\ v.vts[i] \in DOMAIN v.set /\ v.set[v.vts[i]] = i
      BY <2>1, <1>2, <1>3 DEF Consed
    <3> QED BY <3>1, <1>2
  <2>2. ASSUME NEW x \in DOMAIN w.set
        PROVE  w.set[x] \in VtsID(w) /\ w.vts[w.set[x]] = x
    <3>1. x \in DOMAIN v.set /\ v.set[x] \notin G /\ w.set[x] = v.set[x]
      BY <1>2
    <3>2. v.set[x] \in VtsID(v) /\ v.vts[v.set[x]] = x
      BY <3>1 DEF Consed
    <3> QED BY <3>1, <3>2, <1>2, <1>3
  <2> QED BY <2>1, <2>2 DEF Consed
<1>9. FreeList(w)
  <2>1. Below(G, w.n, w.free)
    BY <1>1, <1>2, <1>6
  <2>2. \A i \in G : Below(G, i, w.link[i]) /\ w.rc[i] = 0
    BY <1>1, <1>2, <1>6
  <2> QED BY <2>1, <2>2, <1>5 DEF FreeList
<1>10. Coherent(w)
  BY <1>2 DEF Coherent
<1>11. \A i : InUseIn(v, i) /\ i \notin G => InUseIn(w, i) /\ w.vts[i] = v.vts[i]
  BY <1>2, <1>3 DEF InUseIn
<1> QED BY <1>2, <1>7, <1>8, <1>9, <1>10, <1>11

LEMMA GCStep ==
  ASSUME Inv, libhb_maybe_GC
  PROVE  Inv' /\ UNCHANGED Clocks!cvars
<1>1. PICK G, rc, f, n : G = Garbage /\ rc = FlushedRc /\ f = Flushed /\ n = vt.n
  OBVIOUS
<1>2. /\ vt.free = VtsID_INVALID /\ vt' = Collected(vt, G, rc) /\ line' = f
      /\ tags0' = [w \in Way |-> NoCell] /\ lyns0' = lyns0
      /\ thrVid' = thrVid /\ soLive' = soLive /\ soVid' = soVid
      /\ vts_next_GC_at' = IF 2 * (n - Cardinality(G)) < n THEN n ELSE 2 * (n - Cardinality(G))
  BY <1>1 DEF libhb_maybe_GC, vts_tab__do_GC, Collected
<1>3. /\ TabOK(vt) /\ n \in Nat /\ G \in SUBSET VtsID(vt) /\ rc \in [VtsID(vt) -> Int]
      /\ \A i \in G : rc[i] = 0
  <2>1. \A i \in VtsID(vt) : FlushedRc[i] \in Int
    BY FlushedCounts
  <2>2. FlushedRc = [i \in VtsID(vt) |-> FlushedRc[i]]
    BY DEF FlushedRc
  <2>3. rc \in [VtsID(vt) -> Int]
    BY <1>1, <2>1, <2>2
  <2> QED BY <1>1, <2>3, InvTab DEF Garbage
<1>4. /\ TabOK(vt') /\ vt'.n = n /\ vt'.rc = rc
      /\ \A i : InUseIn(vt, i) /\ i \notin G => InUseIn(vt', i) /\ vt'.vts[i] = vt.vts[i]
  <2>1. PICK v, w : v = vt /\ w = vt'
    OBVIOUS
  <2>2. TabOK(v) /\ MayCollect(v, G, rc) /\ w = Collected(v, G, rc)
    BY <2>1, <1>2, <1>3 DEF MayCollect
  <2>3. /\ TabOK(w) /\ w.n = v.n /\ w.rc = rc
        /\ \A i : InUseIn(v, i) /\ i \notin G => InUseIn(w, i) /\ w.vts[i] = v.vts[i]
    BY <2>2, CollectedOK
  <2> QED BY <2>1, <2>3, <1>1
<1>5. ASSUME NEW i, Holdable(vt, i), i \notin G
      PROVE  Holdable(vt', i) /\ Stamp(vt', i) = Stamp(vt, i)
  BY <1>4, <1>5 DEF Holdable, Stamp
<1>6. /\ \A t \in Thr : thrVid[t] \notin G /\ Holdable(vt, thrVid[t])
      /\ \A s \in SO : soVid[s] \notin G /\ Holdable(vt, soVid[s])
      /\ \A c \in Cell : CellVid(c) \notin G /\ Holdable(vt, CellVid(c))
  BY <1>1, GarbageUnheld, InvTab, CellStamp DEF HoldMap
<1>7. HoldersOK'
  BY <1>2, <1>5, <1>6 DEF Inv, HoldersOK
<1>8. \A c \in Cell : CellVid(c)' = CellVid(c) /\ f[c] = CellVid(c)
  BY <1>1, <1>2, WayInWay, NoCellAssumption DEF CellVid, Flushed
<1>9. PICK m : m = [vt |-> vt', line |-> line', tags |-> tags0', lyns |-> lyns0']
  OBVIOUS
<1>10. m.vt = vt' /\ m.line = f /\ m.tags = [w \in Way |-> NoCell] /\ m.lyns = lyns0
  BY <1>2, <1>9
<1>11. MemOK(m)
  <2>1. \A c \in Cell : Holdable(vt', f[c]) /\ f[c] \in MaybeID(vt')
    BY <1>5, <1>6, <1>8, HoldableType
  <2>2. f \in [Cell -> MaybeID(vt')]
    BY <2>1, <1>1 DEF Flushed
  <2>3. lyns0 \in [Way -> MaybeID(vt')]
    BY <1>1, <1>4, MemFields DEF Inv, MemOK, MaybeID, VtsID
  <2>4. m = [vt |-> m.vt, line |-> m.line, tags |-> m.tags, lyns |-> m.lyns]
    BY <1>9
  <2> QED BY <2>1, <2>2, <2>3, <2>4, <1>4, <1>10 DEF MemOK
<1>12. ASSUME NEW i \in Nat PROVE Others(m, i) = Count(Thr, thrVid', i) + Count(SO, soVid', i)
  <2>1. /\ Count(Thr, thrVid, i) \in Nat /\ Count(SO, soVid, i) \in Nat
        /\ Count(Cell, f, i) \in Nat
    BY CountInt
  <2>2. Rc(vt', i) = Count(Thr, thrVid, i) + Count(SO, soVid, i) + Count(Cell, f, i)
    <3>0. VtsID(vt') = VtsID(vt)
      BY <1>1, <1>4 DEF VtsID
    <3>1. CASE i \in VtsID(vt)
      BY <3>0, <3>1, <1>1, <1>4, FlushedCounts DEF Rc
    <3>2. CASE i \notin VtsID(vt)
      <4>1. i # VtsID_INVALID /\ ~InUseIn(vt, i)
        BY <3>2, IDAssumption DEF InUseIn
      <4>2. /\ \A t \in Thr : thrVid[t] # i
            /\ \A s \in SO : soVid[s] # i
            /\ \A c \in Cell : f[c] # i
        BY <4>1, <1>6, <1>8 DEF Holdable
      <4>3. IsFiniteSet(Thr) /\ IsFiniteSet(SO) /\ IsFiniteSet(Cell)
        BY FiniteAssumption
      <4>4. Count(Thr, thrVid, i) = 0 /\ Count(SO, soVid, i) = 0 /\ Count(Cell, f, i) = 0
        BY <4>2, <4>3, CountType
      <4>5. Rc(vt', i) = 0
        BY <3>0, <3>2 DEF Rc
      <4> QED BY <4>4, <4>5
    <3> QED BY <3>1, <3>2
  <2>3. Others(m, i) = Rc(vt', i) - Count(Cell, f, i)
    BY <1>10 DEF Others
  <2>4. Others(m, i) = Count(Thr, thrVid, i) + Count(SO, soVid, i)
    BY <2>1, <2>2, <2>3
  <2> QED BY <2>4, <1>2
<1>13. vts_next_GC_at' \in Nat
  <2>1. 0 \in Int /\ n - 1 \in Int
    BY <1>3
  <2>2. IsFiniteSet(0 .. n - 1)
    BY <2>1, FS_Interval
  <2>3. G \in SUBSET (0 .. n - 1)
    BY <1>1, <1>3 DEF VtsID
  <2>4. Cardinality(G) \in Nat
    BY <2>2, <2>3, FS_Subset, FS_CardinalityType
  <2> QED BY <2>4, <1>2, <1>3
<1>14. Inv'
  BY <1>7, <1>9, <1>11, <1>12, <1>13, NewInv
<1>15. /\ \A t \in Thr : clkBar'[t] = clkBar[t]
       /\ \A s \in SO : soBar'[s] = soBar[s]
       /\ \A c \in Cell : cellBar'[c] = cellBar[c]
  BY <1>2, <1>5, <1>6, <1>8, Bars
<1>16. clkBar' = clkBar /\ soBar' = soBar /\ cellBar' = cellBar
  BY <1>15, Bars, SameMap
<1> QED BY <1>2, <1>14, <1>16 DEF Clocks!cvars, clkBar, soBar, cellBar

----------------------------------------------------------------------------
(* The theorems *)

LEMMA StutterStep == ASSUME Inv, UNCHANGED vars PROVE Inv' /\ UNCHANGED Clocks!cvars
<1>1. /\ vt' = vt /\ vts_next_GC_at' = vts_next_GC_at /\ thrVid' = thrVid /\ soLive' = soLive
      /\ soVid' = soVid /\ line' = line /\ tags0' = tags0 /\ lyns0' = lyns0
  BY DEF vars
<1>2. Inv'
  BY <1>1 DEF Inv, HoldersOK, Counted, Mem
<1>3. /\ \A t \in Thr : clkBar'[t] = clkBar[t]
      /\ \A s \in SO : soBar'[s] = soBar[s]
      /\ \A c \in Cell : cellBar'[c] = cellBar[c]
  BY <1>1, Bars DEF CellVid
<1>4. clkBar' = clkBar /\ soBar' = soBar /\ cellBar' = cellBar
  BY <1>3, Bars, SameMap
<1> QED BY <1>1, <1>2, <1>4 DEF Clocks!cvars, clkBar, soBar, cellBar

\* Every step keeps the invariant and is a step of the abstract clocks, or
\* one that they do not see.
LEMMA EveryStep ==
  ASSUME Inv, [Next]_vars
  PROVE  Inv' /\ [Clocks!ClocksNext]_(Clocks!cvars)
<1> USE DEF Clocks!ClocksNext
<1>1. CASE UNCHANGED vars
  BY <1>1, StutterStep
<1>2. ASSUME NEW p \in Thr, NEW t \in Thr, libhb_create(p, t)
      PROVE  Inv' /\ [Clocks!ClocksNext]_(Clocks!cvars)
  BY <1>2, CreateStep
<1>3. ASSUME NEW s \in SO, libhb_so_alloc(s) \/ libhb_so_dealloc(s)
      PROVE  Inv' /\ [Clocks!ClocksNext]_(Clocks!cvars)
  BY <1>3, AllocStep, DeallocStep
<1>4. ASSUME NEW t \in Thr, NEW s \in SO, NEW strong \in BOOLEAN, libhb_so_send(t, s, strong)
      PROVE  Inv' /\ [Clocks!ClocksNext]_(Clocks!cvars)
  BY <1>4, SendStep
<1>5. ASSUME NEW t \in Thr, NEW s \in SO, libhb_so_recv(t, s) \/ libhb_so_extract(t, s)
      PROVE  Inv' /\ [Clocks!ClocksNext]_(Clocks!cvars)
  BY <1>5, RecvStep, ExtractStep
<1>6. ASSUME NEW s \in SO, NEW other \in SO, libhb_so_join(s, other)
      PROVE  Inv' /\ [Clocks!ClocksNext]_(Clocks!cvars)
  BY <1>6, SoJoinStep
<1>7. ASSUME NEW t \in Thr, NEW c \in Cell,
             \/ AccessByOrder(t, c) \/ AccessShared(t, c)
             \/ SpinRead(t, c) \/ SpinWrite(t, c)
      PROVE  Inv' /\ [Clocks!ClocksNext]_(Clocks!cvars)
  BY <1>7, AccessByOrderStep, AccessSharedStep, SpinReadStep, SpinWriteStep
<1>8. ASSUME NEW c \in Cell, RangeReset(c) \/ AccessKeep(c)
      PROVE  Inv' /\ [Clocks!ClocksNext]_(Clocks!cvars)
  BY <1>8, RangeResetStep, AccessKeepStep
<1>9. ASSUME NEW c \in Cell, NEW d \in Cell, CopyShadow(c, d)
      PROVE  Inv' /\ [Clocks!ClocksNext]_(Clocks!cvars)
  BY <1>9, CopyShadowStep
<1>10. CASE libhb_maybe_GC
  BY <1>10, GCStep
<1> HIDE DEF Clocks!ClocksNext
<1> QED BY <1>1, <1>2, <1>3, <1>4, <1>5, <1>6, <1>7, <1>8, <1>9, <1>10 DEF Next, Step

LEMMA InitBar == Init => Clocks!ClocksInit
<1> SUFFICES ASSUME Init PROVE Clocks!ClocksInit
  OBVIOUS
<1>1. PICK cand \in V!VTS : cand = V!VTS__singleton(Root, 1)
  BY Timestamps
<1>2. PICK v1 : v1 = vts_tab__find_and_dealloc__or_add(EmptyTab, cand)
  OBVIOUS
<1>3. IdOf(EmptyTab, cand) = 0
  BY DEF IdOf, EmptyTab, get_new_VtsID
<1>4. TabOK(v1) /\ InUseIn(v1, 0) /\ v1.vts[0] = cand
  BY <1>2, <1>3, EmptyTabOK, Added
<1>5. vt = VtsID__rcinc(v1, 0)
  BY <1>1, <1>2 DEF Init
<1>6. vt.vts[0] = cand
  BY <1>4, <1>5, RcInc DEF Keeps
<1>7. /\ thrVid = [t \in Thr |-> IF t = Root THEN 0 ELSE VtsID_INVALID]
      /\ soLive = {} /\ soVid = [s \in SO |-> VtsID_INVALID]
      /\ line = [c \in Cell |-> VtsID_INVALID] /\ tags0 = [w \in Way |-> NoCell]
  BY DEF Init
<1>8. \A c \in Cell : CellVid(c) = VtsID_INVALID
  BY <1>7, WayInWay, NoCellAssumption DEF CellVid
<1>9. 0 # VtsID_INVALID
  BY IDAssumption
<1>10. \A t \in Thr : StampOf(thrVid[t]) = IF t = Root THEN cand ELSE NoVTS
  BY <1>6, <1>7, <1>9 DEF StampOf
<1>11. cand = Clocks!VTS__singleton(Root, 1)
  BY <1>1 DEF V!VTS__singleton, Clocks!VTS__singleton
<1> QED BY <1>7, <1>8, <1>10, <1>11 DEF Clocks!ClocksInit, StampOf

\* The invariant of the table, its caches, its counts and its free list, under
\* every sequence of operations.
LEMMA Invariant == Spec => []Inv
<1>1. Inv /\ [Next]_vars => Inv'
  BY EveryStep
<1> QED BY <1>1, InitInv, PTL DEF Spec

\* Type correctness of the table and of everything that holds a VtsID; in
\* particular no reference count goes below zero (the assertion of
\* VtsID__rcdec).
THEOREM TableIsTyped == Spec => []TypeOK
BY Invariant, InvImplies, PTL

\* vts_set and vts_tab agree: equal timestamps have equal VtsIDs, so that the
\* comparisons of VtsIDs in VtsID__join2 and VtsID__getOrdering are sound.
THEOREM TableIsHashConsed == Spec => []HashConsed
BY Invariant, InvImplies, PTL

\* The free list that vts_tab__do_GC builds and get_from_free_list consumes
\* holds exactly the free entries, each once, and none with a reference.
THEOREM FreeListIsExact == Spec => []FreeListExact
BY Invariant, InvImplies, PTL

\* join2_cache and getOrdering_cache answer what would be computed now, in
\* spite of the reuse of VtsIDs after a collection.
THEOREM ResultCachesAreCoherent == Spec => []CachesCoherent
BY Invariant, InvImplies, PTL

\* Reference counts are those of the threads, the SOs and the backing store
\* of shadow memory, whatever is in the write-back cache.
THEOREM ReferencesAreExact == Spec => []RefsExact
BY Invariant, InvImplies, PTL

\* Hash-consing, counting, caching, the write-back cache and garbage
\* collection are invisible: what callers of libhb see are the clocks of
\* LibhbClocks.
THEOREM TableImplementsClocks == Spec => ImplementsClocks
<1>1. Inv /\ [Next]_vars => [Clocks!ClocksNext]_(Clocks!cvars)
  BY EveryStep
<1> QED BY <1>1, Invariant, InitBar, PTL DEF Spec, ImplementsClocks, Clocks!ClocksSpec

==============================================================================
