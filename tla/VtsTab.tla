------------------------------- MODULE VtsTab -------------------------------
(***************************************************************************)
(* libhb's VTS table: timestamps are hash-consed, named by small VtsIDs,   *)
(* reference counted and garbage collected, and the results of joins and   *)
(* comparisons are cached by VtsID (libhb_core.c, "VTS set", "VTS table",  *)
(* "Vts IDs"; libhb_uka_so_api.h for the operations on threads and SOs).   *)
(*                                                                         *)
(* Shadow memory sits behind a write-back cache and only the backing store *)
(* is reference counted (libhb_core.c:265), so between two flushes the     *)
(* counts are wrong on purpose.  VtsIDs freed by a GC are reused.          *)
(*                                                                         *)
(* The table is one record, vt, so that an operation that makes several    *)
(* calls on it is the composition of the calls:                            *)
(*   n     number of entries (the XArray's size); VtsIDs are 0..n-1        *)
(*   vts   the VTS of each entry, NoVTS when the entry is free             *)
(*   rc    the reference count of each entry                               *)
(*   link  the free list link of each entry                                *)
(*   free  the head of the free list                                       *)
(*   set   vts_set: a partial function from VTSs to the id field of the    *)
(*         VTS object                                                      *)
(*   jc, oc   join2_cache and getOrdering_cache                            *)
(***************************************************************************)
EXTENDS Integers, FiniteSets

CONSTANTS
  Thr, Root, SO, Cell, NoVTS, MaxTick,   \* as in LibhbClocks
  VtsID_INVALID,      \* the VtsID that names nothing (0xFFFFFFFF)
  MaxTab,             \* bound on the table size (2^30 in a shadow value)
  FirstGCAt,          \* the first GC threshold (1000 in the code)
  NCache,             \* slots of the two result caches (1023 in the code)
  NWay,               \* lines in the shadow memory cache (N_WAY_NENT)
  LineNo(_),          \* the line number of a cell, a >> N_LINE_BITS
  NoCell              \* the tag of an empty way

ASSUME NatAssumption ==
  /\ FirstGCAt \in Nat /\ NCache \in Nat \ {0} /\ NWay \in Nat \ {0}
ASSUME IDAssumption == VtsID_INVALID \notin Nat
ASSUME FiniteAssumption == IsFiniteSet(Thr) /\ IsFiniteSet(SO) /\ IsFiniteSet(Cell)
ASSUME NoCellAssumption == NoCell \notin Cell
ASSUME LineNoAssumption == \A c \in Cell : LineNo(c) \in Nat

VARIABLES
  vt,           \* the VTS table with its caches
  vts_next_GC_at,
  thrVid,       \* thrVid[t]: thr->vid, VtsID_INVALID before t's creation
  soLive,       \* allocated SOs (so->magic == SO_MAGIC)
  soVid,        \* soVid[s]: so->vid
  line,         \* line[c]: the VtsID in c's shadow value in the backing store
  tags0,        \* tags0[w]: the cell whose line is in way w, NoCell if none
  lyns0         \* lyns0[w]: the VtsID in the cached shadow value of way w

vars == <<vt, vts_next_GC_at, thrVid, soLive, soVid, line, tags0, lyns0>>

V == INSTANCE VectorTS

ASSUME ClockAssumption == Root \in Thr /\ NoVTS \notin V!VTS

Way == 0 .. NWay - 1
VtsID(v) == 0 .. v.n - 1
Slot == 0 .. NCache - 1

----------------------------------------------------------------------------
(* Free list, reference counts, hash-consing. *)

\* The entry that the next new VTS gets: the head of the free list or, when
\* that is empty, one past the end of the table.
get_new_VtsID(v) == IF v.free # VtsID_INVALID THEN v.free ELSE v.n

VtsID__rcinc(v, i) == [v EXCEPT !.rc[i] = @ + 1]
VtsID__rcdec(v, i) == [v EXCEPT !.rc[i] = @ - 1]

\* The counting calls that the code makes only for valid VtsIDs.
RcIncMaybe(v, i) == IF i = VtsID_INVALID THEN v ELSE VtsID__rcinc(v, i)
RcDecMaybe(v, i) == IF i = VtsID_INVALID THEN v ELSE VtsID__rcdec(v, i)

\* The VtsID of cand in the table that results from entering it.
IdOf(v, cand) == IF cand \in DOMAIN v.set THEN v.set[cand] ELSE get_new_VtsID(v)

\* Mutant: the entry taken from the free list stays on it.
find_or_add_keepFree(v, cand) ==
  IF cand \in DOMAIN v.set THEN v
  ELSE LET ii == get_new_VtsID(v) IN
    [v EXCEPT
       !.n    = IF v.free # VtsID_INVALID THEN @ ELSE @ + 1,
       !.vts  = [i \in DOMAIN v.vts  \cup {ii} |-> IF i = ii THEN cand ELSE v.vts[i]],
       !.rc   = [i \in DOMAIN v.rc   \cup {ii} |-> IF i = ii THEN 0 ELSE v.rc[i]],
       !.link = [i \in DOMAIN v.link \cup {ii} |-> IF i = ii THEN VtsID_INVALID
                                                            ELSE v.link[i]],
       !.set  = [x \in DOMAIN v.set \cup {cand} |-> IF x = cand THEN ii
                                                              ELSE v.set[x]]]

\* Enter cand in vts_set and vts_tab, unless an equal VTS is there.
vts_tab__find_and_dealloc__or_add(v, cand) ==
  IF cand \in DOMAIN v.set THEN v
  ELSE LET ii == get_new_VtsID(v) IN
    [v EXCEPT
       !.n    = IF v.free # VtsID_INVALID THEN @ ELSE @ + 1,
       !.free = IF v.free # VtsID_INVALID THEN v.link[v.free] ELSE @,
       !.vts  = [i \in DOMAIN v.vts  \cup {ii} |-> IF i = ii THEN cand ELSE v.vts[i]],
       !.rc   = [i \in DOMAIN v.rc   \cup {ii} |-> IF i = ii THEN 0 ELSE v.rc[i]],
       !.link = [i \in DOMAIN v.link \cup {ii} |-> IF i = ii THEN VtsID_INVALID
                                                            ELSE v.link[i]],
       !.set  = [x \in DOMAIN v.set \cup {cand} |-> IF x = cand THEN ii
                                                              ELSE v.set[x]]]

----------------------------------------------------------------------------
(* Joins and comparisons by VtsID, with their caches. *)

\* The XOR of the two rotated VtsIDs; below 64 the rotated values share no
\* bit, so that XOR is addition there.
hash_VtsIDs(i, j) == ((i * 524288) + (j * 8192)) % NCache

NoJoin == [vi1 |-> VtsID_INVALID, vi2 |-> VtsID_INVALID, res |-> VtsID_INVALID]
NoOrd  == [vi1 |-> VtsID_INVALID, vi2 |-> VtsID_INVALID, ord |-> "none"]

\* Mutant: the caches survive a collection.
invalidate_nothing(v) == v

VtsID__invalidate_caches(v) ==
  [v EXCEPT !.jc = [h \in Slot |-> NoJoin], !.oc = [h \in Slot |-> NoOrd]]

\* Mutant: a hit is decided by the first key alone.
JoinHit_oneKey(v, i, j) == v.jc[hash_VtsIDs(i, j)].vi1 = i

JoinHit(v, i, j) ==
  LET e == v.jc[hash_VtsIDs(i, j)] IN e.vi1 = i /\ e.vi2 = j
OrdHit(v, i, j) ==
  LET e == v.oc[hash_VtsIDs(i, j)] IN e.vi1 = i /\ e.vi2 = j

Joined(v, i, j) == V!VTS__join(v.vts[i], v.vts[j])

\* The VtsID that VtsID__join2 returns, and the table it leaves.
Join2Id(v, i, j) ==
  IF i = j THEN i
  ELSE IF JoinHit(v, i, j) THEN v.jc[hash_VtsIDs(i, j)].res
  ELSE IdOf(v, Joined(v, i, j))

VtsID__join2(v, i, j) ==
  IF i = j \/ JoinHit(v, i, j) THEN v
  ELSE [vts_tab__find_and_dealloc__or_add(v, Joined(v, i, j)) EXCEPT
          !.jc[hash_VtsIDs(i, j)] =
             [vi1 |-> i, vi2 |-> j, res |-> IdOf(v, Joined(v, i, j))]]

\* The order that VtsID__getOrdering returns, and the table it leaves.
OrdOf(v, i, j) ==
  IF i = j THEN "EQ"
  ELSE IF OrdHit(v, i, j) THEN v.oc[hash_VtsIDs(i, j)].ord
  ELSE V!VTS__cmp(v.vts[i], v.vts[j])

VtsID__getOrdering(v, i, j) ==
  IF i = j \/ OrdHit(v, i, j) THEN v
  ELSE [v EXCEPT !.oc[hash_VtsIDs(i, j)] =
          [vi1 |-> i, vi2 |-> j, ord |-> V!VTS__cmp(v.vts[i], v.vts[j])]]

TickId(v, i, t) == IdOf(v, V!VTS__tick(t, v.vts[i]))
VtsID__tick(v, i, t) ==
  vts_tab__find_and_dealloc__or_add(v, V!VTS__tick(t, v.vts[i]))

----------------------------------------------------------------------------
(* The shadow memory cache, one cell per line. *)

WayOf(c) == LineNo(c) % NWay

\* A table together with the backing store and the cache contents.
Mem(v) == [vt |-> v, line |-> line, tags |-> tags0, lyns |-> lyns0]

\* Mutant: the overwritten value keeps its reference.
cacheline_wback_noDec(m, w) ==
  [m EXCEPT !.vt = RcIncMaybe(m.vt, m.lyns[w]), !.line[m.tags[w]] = m.lyns[w]]

\* The cached line of way w goes to the backing store: the counts of the
\* old stored value go down, those of the new one go up.
cacheline_wback(m, w) ==
  [m EXCEPT !.vt = RcIncMaybe(RcDecMaybe(m.vt, m.line[m.tags[w]]), m.lyns[w]),
            !.line[m.tags[w]] = m.lyns[w]]

\* The line of c is brought into its way, the previous one written back.
get_cacheline(m, c) ==
  LET w == WayOf(c)
      mm == IF m.tags[w] = NoCell THEN m ELSE cacheline_wback(m, w)
  IN IF m.tags[w] = c THEN m
     ELSE [mm EXCEPT !.tags[w] = c, !.lyns[w] = mm.line[c]]

\* The value of c, wherever it is now.
CellVid(c) == IF tags0[WayOf(c)] = c THEN lyns0[WayOf(c)] ELSE line[c]

\* The machine goes to memory m, with value i for the cached cell c and with
\* table v in place of m's.
StoreCell(m, v, c, i) ==
  /\ vt' = v
  /\ line' = m.line
  /\ tags0' = m.tags
  /\ lyns0' = [m.lyns EXCEPT ![WayOf(c)] = i]

NoMemChange == UNCHANGED <<line, tags0, lyns0>>

----------------------------------------------------------------------------
(* libhb_init *)

EmptyTab ==
  [n |-> 0, vts |-> [i \in {} |-> NoVTS], rc |-> [i \in {} |-> 0],
   link |-> [i \in {} |-> VtsID_INVALID], free |-> VtsID_INVALID,
   set |-> [x \in {} |-> 0],
   jc |-> [h \in Slot |-> NoJoin], oc |-> [h \in Slot |-> NoOrd]]

Init ==
  /\ vt = VtsID__rcinc(
            vts_tab__find_and_dealloc__or_add(EmptyTab, V!VTS__singleton(Root, 1)),
            0)
  /\ vts_next_GC_at = FirstGCAt
  /\ thrVid = [t \in Thr |-> IF t = Root THEN 0 ELSE VtsID_INVALID]
  /\ soLive = {}
  /\ soVid = [s \in SO |-> VtsID_INVALID]
  /\ line = [c \in Cell |-> VtsID_INVALID]
  /\ tags0 = [w \in Way |-> NoCell]
  /\ lyns0 = [w \in Way |-> VtsID_INVALID]

Created(t) == thrVid[t] # VtsID_INVALID
MayTick(t) == Created(t) /\ vt.vts[thrVid[t]][t] < MaxTick

----------------------------------------------------------------------------
(* Threads and synchronisation objects *)

libhb_create(parent, child) ==
  LET p  == thrVid[parent]
      ci == TickId(vt, p, child)
      v1 == VtsID__rcdec(VtsID__rcinc(VtsID__tick(vt, p, child), ci), p)
      pi == TickId(v1, p, parent)
  IN /\ MayTick(parent) /\ ~Created(child)
     /\ vt' = VtsID__rcinc(VtsID__tick(v1, p, parent), pi)
     /\ thrVid' = [thrVid EXCEPT ![child] = ci, ![parent] = pi]
     /\ NoMemChange /\ UNCHANGED <<vts_next_GC_at, soLive, soVid>>

libhb_so_alloc(s) ==
  /\ s \notin soLive
  /\ soLive' = soLive \cup {s}
  /\ soVid' = [soVid EXCEPT ![s] = VtsID_INVALID]
  /\ NoMemChange /\ UNCHANGED <<vt, vts_next_GC_at, thrVid>>

libhb_so_dealloc(s) ==
  /\ s \in soLive
  /\ vt' = RcDecMaybe(vt, soVid[s])
  /\ soLive' = soLive \ {s}
  /\ soVid' = [soVid EXCEPT ![s] = VtsID_INVALID]
  /\ NoMemChange /\ UNCHANGED <<vts_next_GC_at, thrVid>>

libhb_so_send(t, s, strong) ==
  LET i  == thrVid[t]
      o  == soVid[s]
      copy == strong \/ o = VtsID_INVALID
      v0 == RcDecMaybe(vt, o)
      ni == IF copy THEN i ELSE Join2Id(v0, o, i)
      v1 == VtsID__rcinc(IF copy THEN v0 ELSE VtsID__join2(v0, o, i), ni)
      v2 == VtsID__rcdec(v1, i)
      ti == TickId(v2, i, t)
  IN /\ MayTick(t) /\ s \in soLive
     /\ vt' = VtsID__rcinc(VtsID__tick(v2, i, t), ti)
     /\ soVid' = [soVid EXCEPT ![s] = ni]
     /\ thrVid' = [thrVid EXCEPT ![t] = ti]
     /\ NoMemChange /\ UNCHANGED <<vts_next_GC_at, soLive>>

libhb_so_recv(t, s) ==
  LET i  == thrVid[t]
      o  == soVid[s]
      v0 == VtsID__rcdec(vt, i)
      ji == Join2Id(v0, i, o)
  IN /\ Created(t) /\ s \in soLive
     /\ IF o = VtsID_INVALID THEN UNCHANGED <<vt, thrVid>>
        ELSE /\ vt' = VtsID__rcinc(VtsID__join2(v0, i, o), ji)
             /\ thrVid' = [thrVid EXCEPT ![t] = ji]
     /\ NoMemChange /\ UNCHANGED <<vts_next_GC_at, soLive, soVid>>

libhb_so_join(s, other) ==
  LET o  == soVid[s]
      p  == soVid[other]
      v0 == RcDecMaybe(vt, o)
      ji == IF o = VtsID_INVALID THEN p ELSE Join2Id(v0, o, p)
      v1 == IF o = VtsID_INVALID THEN v0 ELSE VtsID__join2(v0, o, p)
  IN /\ s \in soLive /\ other \in soLive /\ p # VtsID_INVALID
     /\ vt' = VtsID__rcinc(v1, ji)
     /\ soVid' = [soVid EXCEPT ![s] = ji]
     /\ NoMemChange /\ UNCHANGED <<vts_next_GC_at, thrVid, soLive>>

libhb_so_extract(t, s) ==
  /\ Created(t) /\ s \notin soLive
  /\ vt' = VtsID__rcinc(vt, thrVid[t])
  /\ soLive' = soLive \cup {s}
  /\ soVid' = [soVid EXCEPT ![s] = thrVid[t]]
  /\ NoMemChange /\ UNCHANGED <<vts_next_GC_at, thrVid>>

----------------------------------------------------------------------------
(* Shadow memory: what msm_read and msm_write do with VtsIDs *)

SyncUnchanged == UNCHANGED <<vts_next_GC_at, soLive, soVid>>

AccessByOrder(t, c) ==
  LET m == get_cacheline(Mem(vt), c)
      i == thrVid[t]
      o == m.lyns[WayOf(c)]
      v == IF o = VtsID_INVALID THEN m.vt ELSE VtsID__getOrdering(m.vt, o, i)
  IN /\ Created(t)
     /\ IF o = VtsID_INVALID \/ OrdOf(m.vt, o, i) \in {"EQ", "LT"}
          THEN StoreCell(m, v, c, i)
          ELSE \E new \in {o, VtsID_INVALID} : StoreCell(m, v, c, new)
     /\ SyncUnchanged /\ UNCHANGED thrVid

\* An access that leaves the shadow value alone (atomic accesses, states Race,
\* NoAccess, ShR) still brings its line into the cache.
AccessKeep(c) ==
  LET m == get_cacheline(Mem(vt), c)
  IN /\ StoreCell(m, m.vt, c, m.lyns[WayOf(c)])
     /\ SyncUnchanged /\ UNCHANGED thrVid

AccessShared(t, c) ==
  LET m == get_cacheline(Mem(vt), c)
  IN /\ Created(t)
     /\ CellVid(c) # VtsID_INVALID
     /\ StoreCell(m, m.vt, c, thrVid[t])
     /\ SyncUnchanged /\ UNCHANGED thrVid

SpinRead(t, c) ==
  LET m  == get_cacheline(Mem(vt), c)
      i  == thrVid[t]
      o  == m.lyns[WayOf(c)]
      v0 == VtsID__rcdec(m.vt, i)
      ji == Join2Id(v0, i, o)
  IN /\ Created(t)
     /\ IF o = VtsID_INVALID
          THEN StoreCell(m, m.vt, c, i) /\ UNCHANGED thrVid
          ELSE /\ StoreCell(m, VtsID__rcinc(VtsID__join2(v0, i, o), ji), c, o)
               /\ thrVid' = [thrVid EXCEPT ![t] = ji]
     /\ SyncUnchanged

SpinWrite(t, c) ==
  LET m  == get_cacheline(Mem(vt), c)
      i  == thrVid[t]
      v0 == VtsID__rcdec(m.vt, i)
      ti == TickId(v0, i, t)
  IN /\ MayTick(t)
     /\ CellVid(c) # VtsID_INVALID
     /\ StoreCell(m, VtsID__rcinc(VtsID__tick(v0, i, t), ti), c, i)
     /\ thrVid' = [thrVid EXCEPT ![t] = ti]
     /\ SyncUnchanged

\* libhb_range_new and libhb_range_noaccess
RangeReset(c) ==
  LET m == get_cacheline(Mem(vt), c)
  IN /\ StoreCell(m, m.vt, c, VtsID_INVALID)
     /\ SyncUnchanged /\ UNCHANGED thrVid

\* zsm_copy8: read the source through the cache, then write the target.
CopyShadow(src, dst) ==
  LET m1 == get_cacheline(Mem(vt), src)
      i  == m1.lyns[WayOf(src)]
      m2 == get_cacheline(m1, dst)
  IN /\ StoreCell(m2, m2.vt, dst, i)
     /\ SyncUnchanged /\ UNCHANGED thrVid

----------------------------------------------------------------------------
(* Garbage collection *)

\* The greatest element of set S below i, VtsID_INVALID if there is none.
NextBelow(S, i) ==
  IF \E j \in S : j < i
    THEN CHOOSE j \in S : j < i /\ \A k \in S : k < i => k <= j
    ELSE VtsID_INVALID

\* The cells with a cached copy, and the value each has after a flush.
Cached == {tags0[w] : w \in Way} \ {NoCell}
Flushed == [c \in Cell |-> CellVid(c)]

Moves(c, i) == c \in Cached /\ line[c] = i
Arrives(c, i) == c \in Cached /\ CellVid(c) = i

\* The reference counts after every cached line is written back.
FlushedRc ==
  [i \in VtsID(vt) |-> vt.rc[i] - Cardinality({c \in Cell : Moves(c, i)})
                                + Cardinality({c \in Cell : Arrives(c, i)})]

\* The loop of vts_tab__do_GC goes up the table and pushes every entry with
\* no reference on the free list, which is empty when the loop starts.
Garbage == {i \in VtsID(vt) : vt.vts[i] # NoVTS /\ FlushedRc[i] = 0}

\* Mutant: the freed VTSs stay in vts_set.
do_GC_keepSet ==
  LET nLive == vt.n - Cardinality(Garbage)
  IN /\ vt' = [VtsID__invalidate_caches(vt) EXCEPT
                 !.rc   = FlushedRc,
                 !.vts  = [i \in VtsID(vt) |-> IF i \in Garbage THEN NoVTS
                                                                ELSE vt.vts[i]],
                 !.link = [i \in VtsID(vt) |-> IF i \in Garbage THEN NextBelow(Garbage, i)
                                                                ELSE vt.link[i]],
                 !.free = NextBelow(Garbage, vt.n)]
     /\ line' = Flushed
     /\ tags0' = [w \in Way |-> NoCell]
     /\ UNCHANGED lyns0
     /\ vts_next_GC_at' = IF 2 * nLive < vt.n THEN vt.n ELSE 2 * nLive

vts_tab__do_GC ==
  LET nLive == vt.n - Cardinality(Garbage)
  IN /\ vt' = [VtsID__invalidate_caches(vt) EXCEPT
                 !.rc   = FlushedRc,
                 !.vts  = [i \in VtsID(vt) |-> IF i \in Garbage THEN NoVTS
                                                                ELSE vt.vts[i]],
                 !.link = [i \in VtsID(vt) |-> IF i \in Garbage THEN NextBelow(Garbage, i)
                                                                ELSE vt.link[i]],
                 !.free = NextBelow(Garbage, vt.n),
                 !.set  = [x \in {y \in DOMAIN vt.set : vt.set[y] \notin Garbage}
                              |-> vt.set[x]]]
     /\ line' = Flushed
     /\ tags0' = [w \in Way |-> NoCell]
     /\ UNCHANGED lyns0
     /\ vts_next_GC_at' = IF 2 * nLive < vt.n THEN vt.n ELSE 2 * nLive

\* Called whenever the tool stops running client code.
libhb_maybe_GC ==
  /\ vt.free = VtsID_INVALID
  /\ vt.n >= vts_next_GC_at
  /\ vts_tab__do_GC
  /\ UNCHANGED <<thrVid, soLive, soVid>>

Step ==
  \/ \E p, t \in Thr : libhb_create(p, t)
  \/ \E s \in SO : libhb_so_alloc(s) \/ libhb_so_dealloc(s)
  \/ \E t \in Thr, s \in SO, strong \in BOOLEAN : libhb_so_send(t, s, strong)
  \/ \E t \in Thr, s \in SO : libhb_so_recv(t, s) \/ libhb_so_extract(t, s)
  \/ \E s, other \in SO : libhb_so_join(s, other)
  \/ \E t \in Thr, c \in Cell :
       \/ AccessByOrder(t, c) \/ AccessShared(t, c)
       \/ SpinRead(t, c) \/ SpinWrite(t, c)
  \/ \E c \in Cell : RangeReset(c) \/ AccessKeep(c)
  \/ \E c, d \in Cell : CopyShadow(c, d)
  \/ libhb_maybe_GC

\* Every operation, within the bound on the table.
Next == Step /\ vt'.n <= MaxTab

Spec == Init /\ [][Next]_vars

----------------------------------------------------------------------------
(* Properties *)

InUse(i) == i \in VtsID(vt) /\ vt.vts[i] # NoVTS
CacheValid(w) == tags0[w] # NoCell

\* Type invariant.
TypeOK ==
  /\ vt.n \in Nat
  /\ vt.vts \in [VtsID(vt) -> V!VTS \cup {NoVTS}]
  /\ vt.rc \in [VtsID(vt) -> Nat]
  /\ vt.link \in [VtsID(vt) -> VtsID(vt) \cup {VtsID_INVALID}]
  /\ vt.free \in VtsID(vt) \cup {VtsID_INVALID}
  /\ DOMAIN vt.set \subseteq V!VTS
  /\ \A x \in DOMAIN vt.set : vt.set[x] \in VtsID(vt)
  /\ vts_next_GC_at \in Nat
  /\ soLive \subseteq SO
  /\ thrVid \in [Thr -> VtsID(vt) \cup {VtsID_INVALID}]
  /\ soVid \in [SO -> VtsID(vt) \cup {VtsID_INVALID}]
  /\ line \in [Cell -> VtsID(vt) \cup {VtsID_INVALID}]
  /\ tags0 \in [Way -> Cell \cup {NoCell}]
  /\ lyns0 \in [Way -> VtsID(vt) \cup {VtsID_INVALID}]

\* The invariant written at type VtsTE and the assertions of the GC: an entry
\* is in use exactly when its VTS is in vts_set under its own number, so equal
\* VTSs have equal VtsIDs (VtsID__getOrdering and VtsID__join2 compare ids
\* before anything else).
HashConsed ==
  /\ \A i \in VtsID(vt) : vt.vts[i] # NoVTS =>
        vt.vts[i] \in DOMAIN vt.set /\ vt.set[vt.vts[i]] = i
  /\ \A x \in DOMAIN vt.set :
        vt.set[x] \in VtsID(vt) /\ vt.vts[vt.set[x]] = x

\* The free list holds exactly the free entries: it starts at the greatest
\* one and every link goes to the next lower one (the GC pushes upwards and
\* starts from an empty list), so it has no cycle and loses no entry.
\* Free entries have no reference left, as get_from_free_list asserts.
FreeListExact ==
  LET Free == {i \in VtsID(vt) : vt.vts[i] = NoVTS}
      Next1(i, j) == IF j = VtsID_INVALID THEN \A k \in Free : k >= i
                     ELSE j \in Free /\ j < i /\ \A k \in Free : k < i => k <= j
  IN /\ Next1(vt.n, vt.free)
     /\ \A i \in Free : Next1(i, vt.link[i]) /\ vt.rc[i] = 0

\* The reference count of an entry is the number of threads, SOs and cells of
\* the backing store that hold it; cached lines are not counted.  No rcdec
\* ever finds a zero.
RefsExact ==
  \A i \in VtsID(vt) :
    vt.rc[i] = Cardinality({t \in Thr : thrVid[t] = i})
             + Cardinality({s \in SO : soVid[s] = i})
             + Cardinality({c \in Cell : line[c] = i})

\* A result cache never answers for a VtsID that a GC has given to another
\* VTS since: each filled slot is what would be computed now.
CachesCoherent ==
  \A h \in Slot :
    /\ vt.jc[h] # NoJoin =>
         LET e == vt.jc[h] IN
         /\ InUse(e.vi1) /\ InUse(e.vi2) /\ InUse(e.res)
         /\ vt.vts[e.res] = V!VTS__join(vt.vts[e.vi1], vt.vts[e.vi2])
    /\ vt.oc[h] # NoOrd =>
         LET e == vt.oc[h] IN
         /\ InUse(e.vi1) /\ InUse(e.vi2)
         /\ e.ord = V!VTS__cmp(vt.vts[e.vi1], vt.vts[e.vi2])

\* The timestamps that the VtsIDs stand for.
StampOf(i) == IF i = VtsID_INVALID THEN NoVTS ELSE vt.vts[i]

\* The table implements the abstract clocks: hash-consing, counting, caching
\* and collecting are invisible to the callers of libhb.
Clocks == INSTANCE LibhbClocks WITH
  clk   <- [t \in Thr |-> StampOf(thrVid[t])],
  soClk <- [s \in SO |-> StampOf(soVid[s])],
  cell  <- [c \in Cell |-> StampOf(CellVid(c))]

ImplementsClocks == Clocks!ClocksSpec


=============================================================================
