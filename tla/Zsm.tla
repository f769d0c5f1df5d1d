--------------------------------- MODULE Zsm ---------------------------------
(***************************************************************************)
(* The shadow memory of libhb (libhb_core.c, "zsm"): a write-back cache of *)
(* lines over a compressed backing store.                                  *)
(*                                                                         *)
(* In the cache a line is a tree: a value that holds for 2, 4 or 8 aligned *)
(* bytes is stored once, at the first of them, and descr says which nodes  *)
(* of the tree carry a value.  In the backing store a line has a           *)
(* dictionary of at most DictSize values and one index per byte (Z), or,   *)
(* when there are more values, an entry of the array linesF (F), which     *)
(* grows.  Of a Z line the model keeps what the indices stand for; its     *)
(* dictionary has each value once.                                         *)
(*                                                                         *)
(* The sizes are parameters: a line has 2^Depth bytes (the code: 64, of    *)
(* eight trees of depth 3) and is one tree, whose nodes stand for 1, 2, 4  *)
(* and 8 bytes as far as Depth goes; there is one SecMap, allocated        *)
(* from the start.  The contents of free LineFs and of invalid cache lines *)
(* are never read and are left out.  A value other than NoAccess carries a *)
(* timestamp, which the store's rcinc and rcdec calls count.               *)
(***************************************************************************)
EXTENDS Integers, Sequences, FiniteSets

CONSTANTS
  Depth, NLine, NWay, DictSize,
  SVal, NoAccess, Invalid,
  Msm,        \* what an access may do to a value: functions on SVal
  Lens        \* bound: the lengths of ranges

W == 2^Depth
Line == 0 .. NLine - 1
Way == 0 .. NWay - 1
Off == 0 .. W - 1
ShmemAddr == 0 .. NLine * W - 1
Level == 0 .. Depth

ASSUME ZsmAssumption ==
  /\ Depth \in 1 .. 3 /\ {NLine, NWay, DictSize} \subseteq Nat \ {0}
  /\ NoAccess \in SVal /\ Invalid \notin SVal \cup [Off -> SVal]
  /\ Msm \subseteq [SVal -> SVal] /\ Lens \subseteq Nat \ {0}

VARIABLES
  tags, lyns,          \* cache_shmem
  linesZ, linesF,      \* the SecMap
  rc,                  \* how often rcinc was called for a value, less rcdec
  flat                 \* ghost: the memory of the abstract specification

zsmVars == <<tags, lyns, linesZ, linesF, rc, flat>>

Flat == INSTANCE FlatShadow WITH mem <- flat, Addr <- ShmemAddr

NoTag == -1
FreeF == Invalid

\* <<k, o>>: the node for the 2^k bytes from offset o.
Node == UNION {{<<k, o>> : o \in {b \in Off : b % 2^k = 0}} : k \in Level}
Bytes(n) == n[2] .. n[2] + 2^n[1] - 1
Above(k, o) == <<k, (o \div 2^k) * 2^k>>        \* the node of level k over o

NoTree == [descr |-> {}, svals |-> [o \in Off |-> Invalid]]
LineZ(vals) == [rep |-> "Z", vals |-> vals]
LineF(fix) == [rep |-> "F", fix |-> fix]
AllSame(v) == LineZ([o \in Off |-> v])

ZsmInit ==
  /\ tags = [w \in Way |-> NoTag]
  /\ lyns = [w \in Way |-> NoTree]
  /\ linesZ = [l \in Line |-> AllSame(NoAccess)]
  /\ linesF = <<>>
  /\ rc = [v \in SVal |-> 0]
  /\ Flat!Init

ZsmState == [tags |-> tags, lyns |-> lyns, linesZ |-> linesZ, linesF |-> linesF, rc |-> rc]
Become(s) ==
  \E t \in {s} : /\ tags' = t.tags /\ lyns' = t.lyns /\ linesZ' = t.linesZ
                 /\ linesF' = t.linesF /\ rc' = t.rc

----------------------------------------------------------------------------
(* The backing store *)

\* The contents of a line in the store (find_ZF_for_reading).
Stored(s, l) == IF s.linesZ[l].rep = "F" THEN s.linesF[s.linesZ[l].fix] ELSE s.linesZ[l].vals

\* rcinc_LineZ and rcinc_LineF (d = 1), rcdec_LineZ and rcdec_LineF (d = -1):
\* once for each value in a dictionary, once for each byte of an F line.
References(s, l, v) ==
  LET places == {o \in Off : Stored(s, l)[o] = v}
  IN IF v = NoAccess \/ places = {} THEN 0
     ELSE IF s.linesZ[l].rep = "F" THEN Cardinality(places) ELSE 1
Counted(s, l, d) == [s EXCEPT !.rc = [v \in SVal |-> s.rc[v] + d * References(s, l, v)]]

\* Mutant: the F line that the old contents had stays in use.
find_Z_for_writing_keepF(s, l) == Counted(s, l, -1)

\* The line is about to be overwritten: its references go, and its F line.
find_Z_for_writing(s, l) ==
  [Counted(s, l, -1) EXCEPT
     !.linesF = IF s.linesZ[l].rep = "F" THEN [@ EXCEPT ![s.linesZ[l].fix] = FreeF] ELSE @]

\* The first F line that is free; when there is none, the array doubles.
alloc_F_for_writing(s) ==
  LET free == {i \in DOMAIN s.linesF : s.linesF[i] = FreeF}
      size == Len(s.linesF)
      new_size == IF size = 0 THEN 1 ELSE 2 * size
  IN IF free # {}
       THEN [fix |-> CHOOSE i \in free : \A j \in free : i <= j, linesF |-> s.linesF]
       ELSE [fix |-> size + 1,
             linesF |-> [i \in 1 .. new_size |-> IF i <= size THEN s.linesF[i] ELSE FreeF]]

\* Byte o of a tree: the value of the node over it that carries one.
InTree(tree, o) == tree.svals[(CHOOSE n \in tree.descr : o \in Bytes(n))[2]]

\* The values of the line, run by run, laid end to end.
sequentialise_CacheLine(tree) == [o \in Off |-> InTree(tree, o)]

\* The line l gets new values, in a dictionary if they fit into one.
StoreF(s, l, vals, f) ==
  [s EXCEPT !.linesZ[l] = LineF(f.fix), !.linesF = [f.linesF EXCEPT ![f.fix] = vals]]
Store(s, l, vals) ==
  Counted(IF Cardinality({vals[o] : o \in Off}) <= DictSize THEN [s EXCEPT !.linesZ[l] = LineZ(vals)]
          ELSE StoreF(s, l, vals, alloc_F_for_writing(s)),
          l, 1)

cacheline_wback(s, w) ==
  IF s.tags[w] = NoTag THEN s
  ELSE Store(find_Z_for_writing(s, s.tags[w]), s.tags[w], sequentialise_CacheLine(s.lyns[w]))

\* normalise_tree: equal neighbours are merged as far up as possible.
normalise(val) ==
  LET same(n) == \A o \in Bytes(n) : val[o] = val[n[2]]
      descr == {n \in Node : same(n) /\ \A k \in n[1] + 1 .. Depth : ~same(Above(k, n[2]))}
  IN [descr |-> descr,
      svals |-> [o \in Off |-> IF \E n \in descr : o = n[2] THEN val[o] ELSE Invalid]]

WayOf(a) == (a \div W) % NWay

cacheline_fetch(s, w, l) ==
  [s EXCEPT !.tags[w] = l, !.lyns[w] = normalise(Stored(s, l))]

\* get_cacheline and get_cacheline_MISS
get_cacheline(s, a) ==
  IF s.tags[WayOf(a)] = a \div W THEN s
  ELSE cacheline_fetch(cacheline_wback(s, WayOf(a)), WayOf(a), a \div W)

----------------------------------------------------------------------------
(* Trees *)

\* The levels above k at which a node over o carries a value.
AboveMe(tree, k, o) == {j \in k + 1 .. Depth : Above(j, o) \in tree.descr}

\* Mutant: the value is not copied to the second half.
HandDown_short(tree, k, o) ==
  LET n == Above(k, o)
  IN [tree EXCEPT !.descr = (@ \ {n}) \cup {<<k - 1, n[2]>>, <<k - 1, n[2] + 2^(k - 1)>>}]

\* The value of the node of level k over o is handed down to its two halves.
HandDown(tree, k, o) ==
  LET n == Above(k, o)
  IN [descr |-> (tree.descr \ {n}) \cup {<<k - 1, n[2]>>, <<k - 1, n[2] + 2^(k - 1)>>},
      svals |-> [tree.svals EXCEPT ![n[2] + 2^(k - 1)] = tree.svals[n[2]]]]

pulldown_to_32(tree, o) == HandDown(tree, 3, o)
pulldown_to_16(tree, o) ==
  HandDown(IF Above(2, o) \in tree.descr THEN tree ELSE pulldown_to_32(tree, o), 2, o)
pulldown_to_8(tree, o) ==
  HandDown(IF Above(1, o) \in tree.descr THEN tree ELSE pulldown_to_16(tree, o), 1, o)

\* A value above the node <<k, o>> comes down until the node has its own.
pulldown(tree, k, o) ==
  CASE k = 0 -> pulldown_to_8(tree, o) [] k = 1 -> pulldown_to_16(tree, o)
    [] k = 2 -> pulldown_to_32(tree, o)

\* pullup_descr_to_16 and pullup_descr_to_32
pullup_descr(descr, k, o) ==
  {n \in descr : Bytes(n) \cap Bytes(<<k, o>>) = {}} \cup {<<k, o>>}

\* The node <<k, o>> of a tree with its own value; not for one whose values
\* are below it.
AtLevel(tree, k, o) ==
  IF <<k, o>> \in tree.descr THEN tree ELSE pulldown(tree, k, o)
AtOrAbove(tree, k, o) == <<k, o>> \in tree.descr \/ AboveMe(tree, k, o) # {}

\* Apply msm to the node <<k, o>>, which has a value or is below one.
ApplyAt(tree, k, o, msm) == [AtLevel(tree, k, o) EXCEPT !.svals[o] = msm[@]]

\* The slow case of an access: misaligned, or to a node with several values
\* below it.  The line of the first byte is fetched either way.
Slow(s, k, a) ==
  a % 2^k # 0 \/ ~AtOrAbove(get_cacheline(s, a).lyns[WayOf(a)], k, a % W)
ApplyInLine(s, k, a, msm) == [s EXCEPT !.lyns[WayOf(a)] = ApplyAt(@, k, a % W, msm)]

zsm_apply8(s, a, msm) == ApplyInLine(get_cacheline(s, a), 0, a, msm)
zsm_apply16(s, a, msm) ==
  IF Slow(s, 1, a) THEN zsm_apply8(zsm_apply8(s, a, msm), a + 1, msm)
  ELSE ApplyInLine(get_cacheline(s, a), 1, a, msm)
zsm_apply32(s, a, msm) ==
  IF Slow(s, 2, a) THEN zsm_apply16(zsm_apply16(s, a, msm), a + 2, msm)
  ELSE ApplyInLine(get_cacheline(s, a), 2, a, msm)
zsm_apply64(s, a, msm) ==
  IF Slow(s, 3, a) THEN zsm_apply32(zsm_apply32(s, a, msm), a + 4, msm)
  ELSE ApplyInLine(get_cacheline(s, a), 3, a, msm)

\* The function for 2^k bytes.
zsm_apply(s, k, a, msm) ==
  CASE k = 0 -> zsm_apply8(s, a, msm)  [] k = 1 -> zsm_apply16(s, a, msm)
    [] k = 2 -> zsm_apply32(s, a, msm) [] k = 3 -> zsm_apply64(s, a, msm)

\* Values below the node are overwritten.
WriteAt(tree, k, o, v) ==
  LET here == IF AtOrAbove(tree, k, o) THEN AtLevel(tree, k, o)
              ELSE [tree EXCEPT !.descr = pullup_descr(@, k, o)]
  IN [here EXCEPT !.svals = [b \in Off |-> IF b = o THEN v
                                           ELSE IF b \in Bytes(<<k, o>>) THEN Invalid
                                           ELSE here.svals[b]]]
WriteInLine(s, k, a, v) == [s EXCEPT !.lyns[WayOf(a)] = WriteAt(@, k, a % W, v)]

zsm_write8(s, a, v) == WriteInLine(get_cacheline(s, a), 0, a, v)
zsm_write16(s, a, v) ==
  IF a % 2 # 0 THEN zsm_write8(zsm_write8(s, a, v), a + 1, v)
  ELSE WriteInLine(get_cacheline(s, a), 1, a, v)
zsm_write32(s, a, v) ==
  IF a % 4 # 0 THEN zsm_write16(zsm_write16(s, a, v), a + 2, v)
  ELSE WriteInLine(get_cacheline(s, a), 2, a, v)
zsm_write64(s, a, v) ==
  IF a % 8 # 0 THEN zsm_write32(zsm_write32(s, a, v), a + 4, v)
  ELSE WriteInLine(get_cacheline(s, a), 3, a, v)

zsm_write(s, k, a, v) ==
  CASE k = 0 -> zsm_write8(s, a, v)  [] k = 1 -> zsm_write16(s, a, v)
    [] k = 2 -> zsm_write32(s, a, v) [] k = 3 -> zsm_write64(s, a, v)

\* zsm_read8, which may change the tree: the part that does, and the value
zsm_read8(s, a) ==
  [get_cacheline(s, a) EXCEPT !.lyns[WayOf(a)] = AtLevel(@, 0, a % W)]
Value8(s, a) == s.lyns[WayOf(a)].svals[a % W]

----------------------------------------------------------------------------
(* Ranges *)

\* How a range is cut up: the largest aligned piece first.
PieceLevel(a, len) ==
  CHOOSE k \in Level : /\ a % 2^k = 0 /\ 2^k <= len
                       /\ \A j \in k + 1 .. Depth : a % 2^j # 0 \/ 2^j > len

\* Where a range operation is: the state, and the first byte not yet done.
At(s, a) == [s |-> s, a |-> a]
ApplyPiece(p, end, msm) ==
  LET k == PieceLevel(p.a, end - p.a)
  IN IF p.a = end THEN p ELSE At(zsm_apply(p.s, k, p.a, msm), p.a + 2^k)
zsm_apply_range(s, a, len, msm) ==
  LET upTo[n \in 0 .. len] == IF n = 0 THEN At(s, a) ELSE ApplyPiece(upTo[n - 1], a + len, msm)
  IN upTo[len].s

SetPiece(p, end, v) ==
  LET k == PieceLevel(p.a, end - p.a)
  IN IF p.a = end THEN p ELSE At(zsm_write(p.s, k, p.a, v), p.a + 2^k)
zsm_set_range_SMALL(s, a, len, v) ==
  LET upTo[n \in 0 .. len] == IF n = 0 THEN At(s, a) ELSE SetPiece(upTo[n - 1], a + len, v)
  IN upTo[len].s

\* Mutant: the store is written even if the line is in the cache.
SetLine_store(s, l, v) ==
  Counted([find_Z_for_writing(s, l) EXCEPT !.linesZ[l] = AllSame(v)], l, 1)

\* One whole line: in the cache if it is there, else in the store.
SetLine(s, l, v) ==
  IF s.tags[l % NWay] = l THEN zsm_write(s, Depth, l * W, v)
  ELSE Counted([find_Z_for_writing(s, l) EXCEPT !.linesZ[l] = AllSame(v)], l, 1)

\* The whole lines from the first up to the one after the last.
SetLines(s, first, after, v) ==
  LET upTo[n \in 0 .. NLine] ==
        IF n = 0 THEN s
        ELSE IF n - 1 \in first .. after - 1 THEN SetLine(upTo[n - 1], n - 1, v) ELSE upTo[n - 1]
  IN upTo[NLine]

\* Only ranges of two lines or more take the way past the cache.
zsm_set_range(s, a, len, v) ==
  LET start == ((a + W - 1) \div W) * W
      after == ((a + len) \div W) * W
      SetEnds == zsm_set_range_SMALL(zsm_set_range_SMALL(s, a, start - a, v),
                                     after, a + len - after, v)
  IN IF len < 2 * W THEN zsm_set_range_SMALL(s, a, len, v)
     ELSE SetLines(SetEnds, start \div W, after \div W, v)

\* Byte by byte; the normalisation that the comment promises is not done.
WriteRead(s, src, dst) == zsm_write(s, 0, dst, Value8(s, src))
zsm_copy8(s, src, dst) == WriteRead(zsm_read8(s, src), src, dst)

zsm_copy_range(s, src, dst, len) ==
  LET upTo[n \in 0 .. len] ==
        IF n = 0 THEN s ELSE zsm_copy8(upTo[n - 1], src + n - 1, dst + n - 1)
  IN upTo[len]

----------------------------------------------------------------------------
(* Operations *)

Fits(a, len) == a + len - 1 \in ShmemAddr

\* LIBHB_READ_1 to _8 and LIBHB_WRITE_1 to _8
Access(k, a, msm) ==
  /\ Fits(a, 2^k)
  /\ Become(zsm_apply(ZsmState, k, a, msm))
  /\ Flat!Access(a .. a + 2^k - 1, msm)

\* LIBHB_READ_N; LIBHB_WRITE_N is defined as the same function (libhb.h:114)
AccessRange(a, len, msm) ==
  /\ Fits(a, len)
  /\ Become(zsm_apply_range(ZsmState, a, len, msm))
  /\ Flat!Access(a .. a + len - 1, msm)

\* libhb_range_new, libhb_range_noaccess
SetRange(a, len, v) ==
  /\ Fits(a, len)
  /\ Become(zsm_set_range(ZsmState, a, len, v))
  /\ Flat!SetAll(a .. a + len - 1, v)

\* libhb_copy_shadow_state
CopyRange(src, dst, len) ==
  /\ Fits(src, len) /\ Fits(dst, len)
  /\ src + len <= dst \/ dst + len <= src
  /\ Become(zsm_copy_range(ZsmState, src, dst, len))
  /\ Flat!Copy(src, dst, len)

\* zsm_flush_cache
WriteBack(s) ==
  LET upTo[n \in 0 .. NWay] == IF n = 0 THEN s ELSE cacheline_wback(upTo[n - 1], n - 1)
  IN upTo[NWay]

Flush ==
  /\ Become([WriteBack(ZsmState) EXCEPT !.tags = [w \in Way |-> NoTag],
                                         !.lyns = [w \in Way |-> NoTree]])
  /\ UNCHANGED flat

\* Accesses <<k, a>> of 2^k bytes from a are those in A; ranges <<a, len>> are
\* accessed if in R and set if in S; copies are those in C.
ZsmSteps(A, R, S, C) ==
  \/ \E n \in A, msm \in Msm : Access(n[1], n[2], msm)
  \/ \E r \in R, msm \in Msm : AccessRange(r[1], r[2], msm)
  \/ \E r \in S, v \in SVal : SetRange(r[1], r[2], v)
  \/ \E c \in C : CopyRange(c[1], c[2], c[3])
  \/ Flush

ZsmNext == ZsmSteps(Level \X ShmemAddr, ShmemAddr \X Lens, ShmemAddr \X Lens,
                    ShmemAddr \X ShmemAddr \X Lens)

ZsmSpec == ZsmInit /\ [][ZsmNext]_zsmVars

----------------------------------------------------------------------------
(* Properties *)

\* What the next access to a byte will find.
mem == [a \in ShmemAddr |-> IF tags[WayOf(a)] = a \div W THEN InTree(lyns[WayOf(a)], a % W)
                       ELSE Stored(ZsmState, a \div W)[a % W]]

\* is_sane_CacheLine, which the code evaluates only when CHECK_ZSM is set:
\* the nodes with values cut the line up, and other slots are invalid.
TreesSane ==
  \A w \in Way : tags[w] # NoTag =>
    LET tree == lyns[w]
    IN /\ \A o \in Off : Cardinality({n \in tree.descr : o \in Bytes(n)}) = 1
       /\ \A o \in Off : tree.svals[o] # Invalid <=> \E k \in Level : <<k, o>> \in tree.descr

\* The obligations in the comment above SecMap: every F line in use belongs
\* to exactly one Z line, and the calls of rcinc and rcdec add up to the
\* values that the store holds at this moment.
StoreExact ==
  LET inF == {l \in Line : linesZ[l].rep = "F"}
      \* a byte that refers to v: each in an F line, the first in a Z line
      refers(v, l, o) == /\ Stored(ZsmState, l)[o] = v
                         /\ l \in inF \/ \A q \in 0 .. o - 1 : Stored(ZsmState, l)[q] # v
  IN /\ {linesZ[l].fix : l \in inF} = {i \in DOMAIN linesF : linesF[i] # FreeF}
     /\ \A l, m \in inF : linesZ[l].fix = linesZ[m].fix => l = m
     /\ \A v \in SVal \ {NoAccess} :
          rc[v] = Cardinality({p \in Line \X Off : refers(v, p[1], p[2])})

\* Trees, dictionaries, full lines, write-backs and the ways past the cache
\* cannot be told from one value per byte.
ImplementsFlat == mem = flat
===============================================================================
