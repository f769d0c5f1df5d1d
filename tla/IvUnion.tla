------------------------------- MODULE IvUnion -------------------------------
(***************************************************************************)
(* Unions of intervals (hg_interval.c), in which the loop detector keeps   *)
(* the code of a loop.  A union is one map, collect, that has every        *)
(* interval twice: under its start and under its end.  Iteration is by     *)
(* key, from some key upward, and so meets the end of an interval whose    *)
(* start lies before that key.                                             *)
(*                                                                         *)
(* HG_(ivUnionCompare), ...Intersect and ...Hash are left out.             *)
(***************************************************************************)
EXTENDS Integers, FiniteSetsExt

CONSTANTS
  Union,        \* names of unions
  MaxAddr       \* bound: the greatest address

ASSUME IvAssumption == MaxAddr \in Nat \ {0}

IvAddr == 1 .. MaxAddr

VARIABLES
  collect,      \* the maps, from keys to intervals
  ret,          \* what the last HG_(ivUnionAddInterval) returned
  cover,        \* ghost: the addresses added to each union
  grew          \* ghost: whether the last call added any

ivVars == <<collect, ret, cover, grew>>

NoInterval == [start |-> 0, end |-> 0]
EmptyMap == [k \in {} |-> NoInterval]

IvInit ==
  /\ collect = [u \in Union |-> EmptyMap] /\ cover = [u \in Union |-> {}]
  /\ ret = FALSE /\ grew = FALSE

KeysFrom(c, k) == {n \in DOMAIN c : n >= k}

\* Mutant: an interval that only touches the new one does not count.
Intersects_inner(iv, ivc) ==
  \/ iv.start <= ivc.start /\ ivc.start < iv.end
  \/ iv.start < ivc.end /\ ivc.end <= iv.end

Intersects(iv, ivc) ==
  \/ iv.start <= ivc.start /\ ivc.start <= iv.end
  \/ iv.start <= ivc.end /\ ivc.end <= iv.end

\* The first loop of HG_(ivUnionAddInterval), which ends at an interval that
\* has iv in it or lies beyond it: which of the two, and the intervals met
\* before that iv is to be joined with.  An interval may be met twice; the
\* second loop then looks at it again after it was freed, and finds no key to
\* delete.
Scan(c, iv) ==
  LET keys     == KeysFrom(c, iv.start)
      included == {n \in keys : iv.end <= c[n].end /\ iv.start >= c[n].start}
      beyond   == {n \in keys : iv.end < c[n].start}
      passed   == {n \in keys : \A m \in included \cup beyond : n < m}
  IN [isIncluded |-> included # {} /\ \A m \in beyond : Min(included) < m,
      met |-> {c[n] : n \in {m \in passed : Intersects(iv, c[m])}}]

\* The second loop and joinInterval: iv takes over what it was joined with.
Joined(iv, met) == [start |-> Min({i.start : i \in met \cup {iv}}),
                    end   |-> Max({i.end : i \in met \cup {iv}})]

AddTo(c, iv) ==
  LET s == Scan(c, iv)
      new == Joined(iv, s.met)
      gone == {i.start : i \in s.met} \cup {i.end : i \in s.met}
  IN IF s.isIncluded THEN c
     ELSE [k \in (DOMAIN c \ gone) \cup {new.start, new.end} |->
             IF k \in {new.start, new.end} THEN new ELSE c[k]]

\* The loop begins at the first key from v on, and ends at an interval that has
\* v in it or lies beyond it.
ivUnionContains(c, v) ==
  LET hits == {n \in KeysFrom(c, v) : c[n].start > v \/ c[n].end > v}
  IN IF hits = {} THEN NoInterval
     ELSE IF c[Min(hits)].start > v THEN NoInterval ELSE c[Min(hits)]

newIvUnion(u) ==
  /\ collect' = [collect EXCEPT ![u] = EmptyMap]
  /\ cover' = [cover EXCEPT ![u] = {}]
  /\ UNCHANGED <<ret, grew>>

ivUnionAddInterval(u, start, end) ==
  LET iv == [start |-> start, end |-> end]
  IN /\ start < end
     /\ collect' = [collect EXCEPT ![u] = AddTo(@, iv)]
     /\ ret' = ~Scan(collect[u], iv).isIncluded
     /\ cover' = [cover EXCEPT ![u] = @ \cup start .. end - 1]
     /\ grew' = (cover' # cover)

\* The intervals of another union are added in the order of their starts.
AddOne(c, src, n) == IF n \in DOMAIN src /\ n = src[n].start THEN AddTo(c, src[n]) ELSE c
AddAll(c, src) ==
  LET upTo[n \in 0 .. MaxAddr] == IF n = 0 THEN c ELSE AddOne(upTo[n - 1], src, n)
  IN upTo[MaxAddr]

ivUnionAddIvUnion(dest, src) ==
  /\ dest # src
  /\ collect' = [collect EXCEPT ![dest] = AddAll(@, collect[src])]
  /\ cover' = [cover EXCEPT ![dest] = @ \cup cover[src]]
  /\ UNCHANGED <<ret, grew>>

IvNext ==
  \/ \E u \in Union : newIvUnion(u)
  \/ \E u \in Union, start, end \in IvAddr : ivUnionAddInterval(u, start, end)
  \/ \E dest, src \in Union : ivUnionAddIvUnion(dest, src)

IvSpec == IvInit /\ [][IvNext]_ivVars

----------------------------------------------------------------------------
\* After any sequence of additions a union holds exactly the addresses that
\* were added, an interval never meets another one (ivUnion_isSane, asserted
\* after every addition), a search finds what is there although it begins in
\* the middle, and an addition says that it changed something exactly when it
\* did; addSBtoLoop repeats its passes for as long as one says so.
IvUnionExact ==
  /\ \A u \in Union :
       LET c == collect[u]
           ivs == {c[k] : k \in DOMAIN c}
       IN /\ DOMAIN c = {i.start : i \in ivs} \cup {i.end : i \in ivs}
          /\ \A i, j \in ivs : i.start < i.end /\ (i = j \/ i.end < j.start \/ j.end < i.start)
          /\ \A v \in IvAddr : v \in cover[u] <=> ivUnionContains(c, v) # NoInterval
  /\ ret = grew
==============================================================================
