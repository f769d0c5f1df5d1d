------------------------------ MODULE VtsArray ------------------------------
(***************************************************************************)
(* The algorithms on vector timestamps of libhb_core.c ("vts primitives"), *)
(* on the representation the code has: an array of (thread, time) pairs,   *)
(* sorted by thread, in which a thread that is absent has time 0.  Each    *)
(* step is one round of a loop; the results are compared with module       *)
(* VectorTS, which the other modules compute with.                         *)
(***************************************************************************)
EXTENDS VectorTS, Sequences

CONSTANT Arr      \* the arrays the calls are made with

\* A thread is named by its address.
ASSUME ThrAssumption == Thr \subseteq Nat

VARIABLES
  op,             \* the function that runs: "join", "cmp" or "tick"
  a, b, me,       \* its arguments (tick has a and me)
  ia, ib,         \* the positions in a and b
  res,            \* the array under construction
  all_leq, all_geq,
  pc              \* "loop"; "tail", the second loop of tick; "done"

args == <<op, a, b, me>>
vars == <<op, a, b, me, ia, ib, res, all_leq, all_geq, pc>>

ScalarTS == [thr : Thr, tym : Nat]
TS(thr, tym) == [thr |-> thr, tym |-> tym]

is_sane_VTS(s) ==
  \A i \in 1 .. Len(s) : s[i].tym # 0 /\ \A j \in 1 .. i - 1 : s[j].thr < s[i].thr

ASSUME ArrAssumption == \A s \in Arr : s \in Seq(ScalarTS) /\ is_sane_VTS(s)

\* vts[t], so to speak.
VTS__indexAt(s, t) ==
  IF \E i \in 1 .. Len(s) : s[i].thr = t
    THEN s[CHOOSE i \in 1 .. Len(s) : s[i].thr = t].tym ELSE 0

\* The timestamp that an array stands for.
Denotes(s) == [t \in Thr |-> VTS__indexAt(s, t)]

Init ==
  /\ op \in {"join", "cmp", "tick"} /\ a \in Arr /\ b \in Arr /\ me \in Thr
  /\ ia = 1 /\ ib = 1 /\ res = <<>>
  /\ all_leq = TRUE /\ all_geq = TRUE /\ pc = "loop"

----------------------------------------------------------------------------
(* The merge loop of VTS__join and VTS__cmp: the lowest thread that is next *)
(* in either array, with its time in both.                                  *)

MoreA == ia <= Len(a)
MoreB == ib <= Len(b)
TakeA == MoreA /\ (MoreB => a[ia].thr <= b[ib].thr)
TakeB == MoreB /\ (MoreA => b[ib].thr <= a[ia].thr)

lowest == IF TakeA THEN a[ia].thr ELSE b[ib].thr
tyma == IF TakeA THEN a[ia].tym ELSE 0
tymb == IF TakeB THEN b[ib].tym ELSE 0

Advance ==
  /\ ia' = IF TakeA THEN ia + 1 ELSE ia
  /\ ib' = IF TakeB THEN ib + 1 ELSE ib

VTS__join_step ==
  /\ op = "join" /\ pc = "loop" /\ (MoreA \/ MoreB)
  /\ LET tymMax == IF tyma > tymb THEN tyma ELSE tymb
     IN res' = IF tymMax > 0 THEN Append(res, TS(lowest, tymMax)) ELSE res
  /\ Advance
  /\ UNCHANGED <<args, all_leq, all_geq, pc>>

\* Mutant: the rest of b is never used up.
VTS__cmp_step_stuck ==
  /\ op = "cmp" /\ pc = "loop" /\ (MoreA \/ MoreB)
  /\ all_geq' = (all_geq /\ ~(tyma < tymb))
  /\ all_leq' = (all_leq /\ ~(tyma > tymb))
  /\ ia' = (IF TakeA THEN ia + 1 ELSE ia) /\ ib' = (IF TakeA /\ TakeB THEN ib + 1 ELSE ib)
  /\ UNCHANGED <<args, res, pc>>

VTS__cmp_step ==
  /\ op = "cmp" /\ pc = "loop" /\ (MoreA \/ MoreB)
  /\ all_geq' = (all_geq /\ ~(tyma < tymb))
  /\ all_leq' = (all_leq /\ ~(tyma > tymb))
  /\ Advance
  /\ UNCHANGED <<args, res, pc>>

MergeEnds ==
  /\ op \in {"join", "cmp"} /\ pc = "loop" /\ ~MoreA /\ ~MoreB
  /\ pc' = "done"
  /\ UNCHANGED <<args, ia, ib, res, all_leq, all_geq>>

\* What VTS__cmp returns.
POrdOf ==
  CASE all_leq /\ all_geq -> "EQ" [] all_leq /\ ~all_geq -> "LT"
    [] ~all_leq /\ all_geq -> "GT" [] OTHER -> "UN"

----------------------------------------------------------------------------
(* VTS__tick *)

TickUnchanged == UNCHANGED <<args, ib, all_leq, all_geq>>

\* Copy an entry, before the place of me (first loop) or after it (second).
VTS__tick_copy ==
  /\ op = "tick" /\ MoreA
  /\ pc = "loop" => a[ia].thr < me
  /\ pc \in {"loop", "tail"}
  /\ res' = Append(res, a[ia]) /\ ia' = ia + 1
  /\ UNCHANGED pc /\ TickUnchanged

\* me is there, or the loop went past its place without seeing it.
VTS__tick_place ==
  /\ op = "tick" /\ pc = "loop" /\ MoreA /\ me <= a[ia].thr
  /\ res' = IF me = a[ia].thr
              THEN Append(res, TS(me, a[ia].tym + 1))
              ELSE Append(Append(res, TS(me, 1)), a[ia])
  /\ ia' = ia + 1 /\ pc' = "tail"
  /\ TickUnchanged

\* Mutant: a thread above all others is not added.
VTS__tick_end_noAppend ==
  /\ op = "tick" /\ pc \in {"loop", "tail"} /\ ~MoreA
  /\ pc' = "done"
  /\ UNCHANGED <<ia, res>> /\ TickUnchanged

\* The end: me is appended if every entry was below it (or there was none).
VTS__tick_end ==
  /\ op = "tick" /\ pc \in {"loop", "tail"} /\ ~MoreA
  /\ res' = IF pc = "loop" THEN Append(res, TS(me, 1)) ELSE res
  /\ pc' = "done"
  /\ UNCHANGED ia /\ TickUnchanged

----------------------------------------------------------------------------
(* The order that vts_set is sorted by. *)

SameUpTo(x, y, i) == \A j \in 1 .. i - 1 : x[j] = y[j]

\* Mutant: the threads are not compared.
cmp_structural_noThr(x, y) ==
  IF Len(x) # Len(y) THEN IF Len(x) < Len(y) THEN -1 ELSE 1
  ELSE IF \E i \in 1 .. Len(x) : x[i].tym # y[i].tym
    THEN LET i == CHOOSE k \in 1 .. Len(x) :
                    x[k].tym # y[k].tym /\ \A j \in 1 .. k - 1 : x[j].tym = y[j].tym
         IN IF x[i].tym < y[i].tym THEN -1 ELSE 1
    ELSE 0

VTS__cmp_structural(x, y) ==
  IF Len(x) # Len(y) THEN IF Len(x) < Len(y) THEN -1 ELSE 1
  ELSE IF \E i \in 1 .. Len(x) : x[i] # y[i]
    THEN LET i == CHOOSE k \in 1 .. Len(x) : x[k] # y[k] /\ SameUpTo(x, y, k)
         IN IF \/ x[i].tym < y[i].tym
               \/ x[i].tym = y[i].tym /\ x[i].thr < y[i].thr THEN -1 ELSE 1
    ELSE 0

Next ==
  \/ VTS__join_step \/ VTS__cmp_step \/ MergeEnds
  \/ VTS__tick_copy \/ VTS__tick_place \/ VTS__tick_end

\* The functions run to their end once they are called.
Spec == Init /\ [][Next]_vars /\ WF_vars(Next)

----------------------------------------------------------------------------
(* Properties *)

\* Type invariant.
TypeOK ==
  /\ op \in {"join", "cmp", "tick"} /\ me \in Thr
  /\ a \in Seq(ScalarTS) /\ b \in Seq(ScalarTS) /\ res \in Seq(ScalarTS)
  /\ ia \in 1 .. Len(a) + 1 /\ ib \in 1 .. Len(b) + 1
  /\ all_leq \in BOOLEAN /\ all_geq \in BOOLEAN /\ pc \in {"loop", "tail", "done"}

\* The merge loops and the insertion compute the join, the order and the tick
\* of the timestamps that the arrays stand for, in every overlap of threads,
\* and their result is always sorted by thread, without a thread twice or a
\* time 0, as they assert.
ResultDenotes ==
  /\ is_sane_VTS(res)
  /\ pc = "done" =>
    /\ op = "join" => Denotes(res) = VTS__join(Denotes(a), Denotes(b))
    /\ op = "tick" => Denotes(res) = VTS__tick(me, Denotes(a))
    /\ op = "cmp"  => POrdOf = VTS__cmp(Denotes(a), Denotes(b))

\* The search tree of vts_set can find a timestamp again: the structural order
\* is total, and only equal timestamps are equal in it.
StructuralIsTotal ==
  /\ VTS__cmp_structural(a, b) = 0 <=> Denotes(a) = Denotes(b)
  /\ VTS__cmp_structural(b, a) = -VTS__cmp_structural(a, b)
  /\ \A c \in Arr : VTS__cmp_structural(a, b) = -1 /\ VTS__cmp_structural(b, c) = -1
                      => VTS__cmp_structural(a, c) = -1

\* Every call returns.
Terminates == <>(pc = "done")

=============================================================================
