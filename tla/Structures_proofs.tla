-------------------------- MODULE Structures_proofs --------------------------
(***************************************************************************)
(* Proofs for four modules that are used by the others or stand alone.     *)
(*                                                                         *)
(* VtsArray, for any set of threads and any arrays of any length: the      *)
(* loops of libhb_core.c compute the join, the order and the tick of the   *)
(* timestamps that the arrays stand for, and the structural order is a     *)
(* total order of timestamps.                                              *)
(*                                                                         *)
(* IvUnion, for any number of addresses and unions: a union of intervals   *)
(* holds what was added to it.                                             *)
(*                                                                         *)
(* SpinLock, for any numbers of threads, addresses and loops: what the     *)
(* tool knows of the locks in spin loops agrees with itself and with the   *)
(* client.                                                                 *)
(*                                                                         *)
(* Zsm, for any numbers of lines and ways, any dictionary, any values and  *)
(* any lengths of ranges: cache and store hold what one value per byte     *)
(* would, the trees are sane and the references are counted.               *)
(***************************************************************************)
EXTENDS VtsArray, IvUnion, SpinLock, Zsm, FiniteSetTheorems, WellFoundedInduction, TLAPS

----------------------------------------------------------------------------
(* Numbers and sequences *)

\* A set of numbers that is not empty has a least element.
LEMMA Least ==
  ASSUME NEW S \in SUBSET Nat, S # {}
  PROVE  \E x \in S : \A y \in S : x <= y
<1>1. PICK x \in S : \A y \in S : ~(<<y, x>> \in OpToRel(<, Nat))
  BY WFMin, NatLessThanWellFounded, Zenon
<1>2. \A y \in S : ~(y < x)
  BY <1>1 DEF OpToRel
<1> QED BY <1>2

LEMMA Induct ==
  ASSUME NEW N \in Nat, NEW P, 0 \in P, \A k \in 1 .. N : k - 1 \in P => k \in P
  PROVE  \A k \in 0 .. N : k \in P
<1> DEFINE B == {k \in 0 .. N : k \notin P}
<1>1. SUFFICES ASSUME B # {} PROVE FALSE
  OBVIOUS
<1>2. B \in SUBSET Nat
  OBVIOUS
<1>3. PICK k \in B : \A j \in B : k <= j
  BY <1>1, <1>2, Least
<1>4. k \in 1 .. N /\ k \notin P
  BY <1>3
<1>5. k - 1 \in 0 .. N /\ ~(k <= k - 1)
  BY <1>4
<1>6. k - 1 \in P
  BY <1>3, <1>5
<1> QED BY <1>4, <1>6

\* f is the sequence of the states that F leads through.
IsChain(f, F, N, S, s0) ==
  f \in [0 .. N -> S] /\ f[0] = s0 /\ \A k \in 1 .. N : f[k] = F[<<f[k - 1], k>>]

\* A function of steps can be iterated.
LEMMA ChainOf ==
  ASSUME NEW N \in Nat, NEW S, NEW F \in [S \X (1 .. N) -> S], NEW s0 \in S
  PROVE  \E f : IsChain(f, F, N, S, s0)
<1> DEFINE Good(n) == \E f \in [0 .. n -> S] :
                        f[0] = s0 /\ \A k \in 1 .. n : f[k] = F[<<f[k - 1], k>>]
           P == {n \in 0 .. N : Good(n)}
<1>1. 0 \in P
  <2>1. [k \in 0 .. 0 |-> s0] \in [0 .. 0 -> S] /\ [k \in 0 .. 0 |-> s0][0] = s0
    OBVIOUS
  <2>2. \A k \in 1 .. 0 : FALSE
    OBVIOUS
  <2>3. Good(0)
    BY <2>1, <2>2
  <2> QED BY <2>3
<1>2. ASSUME NEW n \in 1 .. N, n - 1 \in P PROVE n \in P
  <2>1. PICK g \in [0 .. n - 1 -> S] :
          g[0] = s0 /\ \A k \in 1 .. n - 1 : g[k] = F[<<g[k - 1], k>>]
    BY <1>2
  <2>2. PICK e \in S : e = F[<<g[n - 1], n>>]
    <3>1. g[n - 1] \in S
      BY <2>1
    <3> QED BY <3>1
  <2>3. PICK f : f = [k \in 0 .. n |-> IF k = n THEN e ELSE g[k]]
    OBVIOUS
  <2>4. /\ f \in [0 .. n -> S] /\ f[n] = e /\ \A k \in 0 .. n - 1 : f[k] = g[k]
    <3>1. \A k \in 0 .. n : k # n => k \in 0 .. n - 1
      OBVIOUS
    <3>2. \A k \in 0 .. n : (IF k = n THEN e ELSE g[k]) \in S
      BY <2>1, <2>2, <3>1
    <3>3. \A k \in 0 .. n - 1 : k \in 0 .. n /\ k # n
      OBVIOUS
    <3> QED BY <2>3, <3>2, <3>3
  <2>5. f[0] = s0
    BY <2>1, <2>4
  <2>6. ASSUME NEW k \in 1 .. n PROVE f[k] = F[<<f[k - 1], k>>]
    <3>1. CASE k = n
      <4>1. n - 1 \in 0 .. n - 1
        OBVIOUS
      <4>2. f[n - 1] = g[n - 1] /\ f[n] = e
        BY <4>1, <2>4
      <4>3. f[n] = F[<<f[n - 1], n>>]
        BY <4>2, <2>2
      <4> QED BY <3>1, <4>3
    <3>2. CASE k # n
      <4>1. k \in 1 .. n - 1 /\ k \in 0 .. n - 1 /\ k - 1 \in 0 .. n - 1
        BY <3>2
      <4> QED BY <4>1, <2>1, <2>4
    <3> QED BY <3>1, <3>2
  <2>7. Good(n)
    BY <2>4, <2>5, <2>6
  <2> QED BY <2>7
<1>3. \A k \in 0 .. N : k \in P
  <2> HIDE DEF P
  <2> QED BY <1>1, <1>2, Induct
<1>4. Good(N)
  BY <1>3
<1> QED BY <1>4 DEF IsChain

LEMMA AppendLemma ==
  ASSUME NEW S, NEW s \in Seq(S), NEW e \in S
  PROVE  /\ Append(s, e) \in Seq(S) /\ Len(Append(s, e)) = Len(s) + 1
         /\ \A i \in 1 .. Len(s) : Append(s, e)[i] = s[i]
         /\ Append(s, e)[Len(s) + 1] = e
OBVIOUS

----------------------------------------------------------------------------
(* Arrays *)

LEMMA ArrayLemma ==
  ASSUME NEW s \in Seq(ScalarTS)
  PROVE  /\ Len(s) \in Nat
         /\ \A i \in 1 .. Len(s) :
              /\ s[i] \in ScalarTS /\ s[i].thr \in Thr /\ s[i].thr \in Nat /\ s[i].tym \in Nat
<1>1. \A i \in 1 .. Len(s) : s[i] \in ScalarTS
  OBVIOUS
<1>2. \A e \in ScalarTS : e.thr \in Thr /\ e.thr \in Nat /\ e.tym \in Nat
  BY ThrAssumption DEF ScalarTS
<1> QED BY <1>1, <1>2

\* An array that is sane has a thread at most once, with the time it stands for.
LEMMA IndexLemma ==
  ASSUME NEW s \in Seq(ScalarTS), is_sane_VTS(s)
  PROVE  /\ \A i \in 1 .. Len(s) : VTS__indexAt(s, s[i].thr) = s[i].tym
         /\ \A t : (\A i \in 1 .. Len(s) : s[i].thr # t) => VTS__indexAt(s, t) = 0
         /\ \A t : VTS__indexAt(s, t) \in Nat
<1>1. ASSUME NEW i \in 1 .. Len(s), NEW j \in 1 .. Len(s), s[i].thr = s[j].thr PROVE i = j
  <2>1. i \in Nat /\ j \in Nat /\ s[i].thr \in Nat /\ s[j].thr \in Nat
    BY ArrayLemma
  <2>2. ~(i < j)
    BY <2>1, <1>1 DEF is_sane_VTS
  <2>3. ~(j < i)
    BY <2>1, <1>1 DEF is_sane_VTS
  <2> QED BY <2>1, <2>2, <2>3
<1>2. ASSUME NEW i \in 1 .. Len(s) PROVE VTS__indexAt(s, s[i].thr) = s[i].tym
  <2>1. PICK k \in 1 .. Len(s) : s[k].thr = s[i].thr /\ VTS__indexAt(s, s[i].thr) = s[k].tym
    BY Zenon DEF VTS__indexAt
  <2> QED BY <2>1, <1>1
<1>3. ASSUME NEW t, \A i \in 1 .. Len(s) : s[i].thr # t PROVE VTS__indexAt(s, t) = 0
  BY <1>3, Zenon DEF VTS__indexAt
<1>4. ASSUME NEW t PROVE VTS__indexAt(s, t) \in Nat
  <2>1. CASE \E i \in 1 .. Len(s) : s[i].thr = t
    BY <2>1, <1>2, ArrayLemma
  <2>2. CASE ~\E i \in 1 .. Len(s) : s[i].thr = t
    <3>1. VTS__indexAt(s, t) = 0
      BY <2>2, <1>3
    <3> QED BY <3>1
  <2> QED BY <2>1, <2>2
<1> QED BY <1>2, <1>3, <1>4

\* An entry above all others is put at the end.
LEMMA PushLemma ==
  ASSUME NEW s \in Seq(ScalarTS), is_sane_VTS(s), NEW e \in ScalarTS, e.tym # 0,
         \A i \in 1 .. Len(s) : s[i].thr < e.thr
  PROVE  /\ Append(s, e) \in Seq(ScalarTS) /\ is_sane_VTS(Append(s, e))
<1>1. Len(s) \in Nat /\ Append(s, e) \in Seq(ScalarTS) /\ Len(Append(s, e)) = Len(s) + 1
      /\ (\A i \in 1 .. Len(s) : Append(s, e)[i] = s[i]) /\ Append(s, e)[Len(s) + 1] = e
  BY AppendLemma, ArrayLemma
<1>2. ASSUME NEW i \in 1 .. Len(s) + 1
      PROVE  /\ Append(s, e)[i].tym # 0
             /\ \A j \in 1 .. i - 1 : Append(s, e)[j].thr < Append(s, e)[i].thr
  <2>1. CASE i = Len(s) + 1
    BY <1>1, <2>1
  <2>2. CASE i \in 1 .. Len(s)
    <3>1. Append(s, e)[i] = s[i] /\ \A j \in 1 .. i - 1 : Append(s, e)[j] = s[j]
      BY <1>1, <2>2
    <3> QED BY <3>1, <2>2 DEF is_sane_VTS
  <2> QED BY <1>1, <2>1, <2>2
<1> QED BY <1>1, <1>2 DEF is_sane_VTS

----------------------------------------------------------------------------
(* The loops *)

Args == /\ op \in {"join", "cmp", "tick"} /\ me \in Thr
        /\ a \in Seq(ScalarTS) /\ b \in Seq(ScalarTS) /\ is_sane_VTS(a) /\ is_sane_VTS(b)

\* What has been taken from one array is below what comes next in the other.
MergeFront ==
  /\ MoreB => \A i \in 1 .. ia - 1 : a[i].thr < b[ib].thr
  /\ MoreA => \A i \in 1 .. ib - 1 : b[i].thr < a[ia].thr

MaxOf(m, n) == IF m < n THEN n ELSE m

\* The result has the threads taken so far, with their greatest times.
JoinInv ==
  /\ \A k \in 1 .. Len(res) :
       /\ MoreA => res[k].thr < a[ia].thr
       /\ MoreB => res[k].thr < b[ib].thr
       /\ res[k].tym = MaxOf(VTS__indexAt(a, res[k].thr), VTS__indexAt(b, res[k].thr))
  /\ \A i \in 1 .. ia - 1 : \E k \in 1 .. Len(res) : res[k].thr = a[i].thr
  /\ \A i \in 1 .. ib - 1 : \E k \in 1 .. Len(res) : res[k].thr = b[i].thr

\* The flags speak of the threads taken so far.
CmpInv ==
  /\ res = <<>>
  /\ all_leq <=> /\ \A i \in 1 .. ia - 1 : a[i].tym <= VTS__indexAt(b, a[i].thr)
                 /\ \A i \in 1 .. ib - 1 : VTS__indexAt(a, b[i].thr) <= b[i].tym
  /\ all_geq <=> /\ \A i \in 1 .. ia - 1 : VTS__indexAt(b, a[i].thr) <= a[i].tym
                 /\ \A i \in 1 .. ib - 1 : b[i].tym <= VTS__indexAt(a, b[i].thr)

\* The first loop copies what is below me; after it the result has me, one
\* later than before, and the other threads taken so far.
TickInv ==
  /\ pc = "loop" => /\ Len(res) = ia - 1
                    /\ \A i \in 1 .. ia - 1 : res[i] = a[i] /\ a[i].thr < me
  /\ pc # "loop" =>
       /\ \A k \in 1 .. Len(res) :
            IF res[k].thr = me THEN res[k].tym = VTS__indexAt(a, me) + 1
                               ELSE \E i \in 1 .. ia - 1 : res[k] = a[i]
       /\ \A i \in 1 .. ia - 1 : a[i].thr # me => \E k \in 1 .. Len(res) : res[k] = a[i]
       /\ \E k \in 1 .. Len(res) : res[k].thr = me
       /\ MoreA => \A k \in 1 .. Len(res) : res[k].thr < a[ia].thr

ArrInv ==
  /\ Args /\ TypeOK /\ is_sane_VTS(res)
  /\ op # "tick" => MergeFront /\ pc # "tail"
  /\ op = "join" => JoinInv
  /\ op = "cmp" => CmpInv
  /\ op = "tick" => TickInv
  /\ pc = "done" => ~MoreA /\ (op # "tick" => ~MoreB)

\* One round of the merge loop: the thread it takes, with its time in both
\* arrays, is below all that is left.
LEMMA RoundLemma ==
  ASSUME Args, TypeOK, MergeFront, MoreA \/ MoreB
  PROVE  /\ TakeA \/ TakeB
         /\ lowest \in Thr /\ lowest \in Nat
         /\ tyma = VTS__indexAt(a, lowest) /\ tymb = VTS__indexAt(b, lowest)
         /\ tyma \in Nat /\ tymb \in Nat /\ (tyma # 0 \/ tymb # 0)
         /\ TakeA => ia \in 1 .. Len(a) /\ a[ia].thr = lowest /\ a[ia].tym = tyma
         /\ TakeB => ib \in 1 .. Len(b) /\ b[ib].thr = lowest /\ b[ib].tym = tymb
         /\ \A i \in 1 .. Len(a) : i >= ia /\ (TakeA => i > ia) => lowest < a[i].thr
         /\ \A i \in 1 .. Len(b) : i >= ib /\ (TakeB => i > ib) => lowest < b[i].thr
<1>1. /\ ia \in Nat /\ ib \in Nat /\ Len(a) \in Nat /\ Len(b) \in Nat /\ ia >= 1 /\ ib >= 1
      /\ MoreA => ia \in 1 .. Len(a)
      /\ MoreB => ib \in 1 .. Len(b)
  BY ArrayLemma DEF Args, TypeOK, MoreA, MoreB
<1>2. /\ \A i \in 1 .. Len(a) : a[i].thr \in Thr /\ a[i].thr \in Nat /\ a[i].tym \in Nat
      /\ \A i \in 1 .. Len(b) : b[i].thr \in Thr /\ b[i].thr \in Nat /\ b[i].tym \in Nat
  BY ArrayLemma DEF Args
<1>3. TakeA \/ TakeB
  BY <1>1, <1>2 DEF TakeA, TakeB
<1>4. /\ TakeA => MoreA /\ a[ia].thr = lowest /\ a[ia].tym = tyma
      /\ TakeB => MoreB /\ b[ib].thr = lowest /\ b[ib].tym = tymb
  BY <1>1, <1>2, <1>3 DEF TakeA, TakeB, lowest, tyma, tymb
<1>5. lowest \in Thr /\ lowest \in Nat
  BY <1>1, <1>2, <1>3, <1>4
<1>6. \A i \in 1 .. Len(a) : i >= ia /\ (TakeA => i > ia) => lowest < a[i].thr
  <2> SUFFICES ASSUME NEW i \in 1 .. Len(a), i >= ia, TakeA => i > ia PROVE lowest < a[i].thr
    OBVIOUS
  <2>1. MoreA /\ (i > ia => a[ia].thr < a[i].thr)
    BY <1>1 DEF MoreA, Args, is_sane_VTS
  <2>2. CASE TakeA
    BY <2>1, <2>2, <1>4
  <2>3. CASE ~TakeA
    <3>1. TakeB /\ MoreB /\ ~(a[ia].thr <= b[ib].thr)
      BY <2>1, <2>3, <1>3, <1>4 DEF TakeA
    <3>2. lowest < a[ia].thr
      BY <3>1, <2>1, <1>1, <1>2, <1>4
    <3>3. CASE i = ia
      BY <3>2, <3>3
    <3>4. CASE i > ia
      BY <3>2, <3>4, <2>1, <1>1, <1>2, <1>5
    <3> QED BY <3>3, <3>4, <1>1
  <2> QED BY <2>2, <2>3
<1>7. \A i \in 1 .. Len(b) : i >= ib /\ (TakeB => i > ib) => lowest < b[i].thr
  <2> SUFFICES ASSUME NEW i \in 1 .. Len(b), i >= ib, TakeB => i > ib PROVE lowest < b[i].thr
    OBVIOUS
  <2>1. MoreB /\ (i > ib => b[ib].thr < b[i].thr)
    BY <1>1 DEF MoreB, Args, is_sane_VTS
  <2>2. CASE TakeB
    BY <2>1, <2>2, <1>4
  <2>3. CASE ~TakeB
    <3>1. TakeA /\ MoreA /\ ~(b[ib].thr <= a[ia].thr)
      BY <2>1, <2>3, <1>3, <1>4 DEF TakeB
    <3>2. lowest < b[ib].thr
      BY <3>1, <2>1, <1>1, <1>2, <1>4
    <3>3. CASE i = ib
      BY <3>2, <3>3
    <3>4. CASE i > ib
      BY <3>2, <3>4, <2>1, <1>1, <1>2, <1>5
    <3> QED BY <3>3, <3>4, <1>1
  <2> QED BY <2>2, <2>3
<1>8. tyma = VTS__indexAt(a, lowest)
  <2>1. CASE TakeA
    BY <2>1, <1>1, <1>4, IndexLemma DEF Args
  <2>2. CASE ~TakeA
    <3>1. MoreB /\ b[ib].thr = lowest
      BY <2>2, <1>3, <1>4
    <3>2. \A i \in 1 .. Len(a) : a[i].thr # lowest
      <4> SUFFICES ASSUME NEW i \in 1 .. Len(a) PROVE a[i].thr # lowest
        OBVIOUS
      <4>1. CASE i < ia
        BY <4>1, <3>1, <1>1, <1>2, <1>5 DEF MergeFront
      <4>2. CASE i >= ia
        BY <4>2, <2>2, <1>6, <1>2, <1>5
      <4> QED BY <4>1, <4>2, <1>1
    <3> QED BY <3>2, <2>2, IndexLemma DEF Args, tyma
  <2> QED BY <2>1, <2>2
<1>9. tymb = VTS__indexAt(b, lowest)
  <2>1. CASE TakeB
    BY <2>1, <1>1, <1>4, IndexLemma DEF Args
  <2>2. CASE ~TakeB
    <3>1. MoreA /\ a[ia].thr = lowest
      BY <2>2, <1>3, <1>4
    <3>2. \A i \in 1 .. Len(b) : b[i].thr # lowest
      <4> SUFFICES ASSUME NEW i \in 1 .. Len(b) PROVE b[i].thr # lowest
        OBVIOUS
      <4>1. CASE i < ib
        BY <4>1, <3>1, <1>1, <1>2, <1>5 DEF MergeFront
      <4>2. CASE i >= ib
        BY <4>2, <2>2, <1>7, <1>2, <1>5
      <4> QED BY <4>1, <4>2, <1>1
    <3> QED BY <3>2, <2>2, IndexLemma DEF Args, tymb
  <2> QED BY <2>1, <2>2
<1>10. tyma \in Nat /\ tymb \in Nat
  BY <1>8, <1>9, IndexLemma DEF Args
<1>11. tyma # 0 \/ tymb # 0
  BY <1>1, <1>3, <1>4 DEF Args, is_sane_VTS
<1> QED BY <1>1, <1>3, <1>4, <1>5, <1>6, <1>7, <1>8, <1>9, <1>10, <1>11

\* The positions after a round.
LEMMA AdvanceLemma ==
  ASSUME Args, TypeOK, MergeFront, MoreA \/ MoreB, Advance, UNCHANGED args
  PROVE  /\ Args' /\ ia' \in 1 .. Len(a) + 1 /\ ib' \in 1 .. Len(b) + 1 /\ MergeFront'
         /\ \A i \in 1 .. ia' - 1 : i \in 1 .. ia - 1 \/ (TakeA /\ i = ia)
         /\ \A i \in 1 .. ib' - 1 : i \in 1 .. ib - 1 \/ (TakeB /\ i = ib)
         /\ \A i \in 1 .. ia - 1 : i \in 1 .. ia' - 1
         /\ \A i \in 1 .. ib - 1 : i \in 1 .. ib' - 1
         /\ TakeA => ia \in 1 .. ia' - 1
         /\ TakeB => ib \in 1 .. ib' - 1
         /\ MoreA' => ia' \in 1 .. Len(a) /\ lowest < a[ia'].thr /\ MoreA /\ a[ia].thr <= a[ia'].thr
         /\ MoreB' => ib' \in 1 .. Len(b) /\ lowest < b[ib'].thr /\ MoreB /\ b[ib].thr <= b[ib'].thr
<1>1. /\ ia \in Nat /\ ib \in Nat /\ Len(a) \in Nat /\ Len(b) \in Nat /\ ia >= 1 /\ ib >= 1
      /\ a' = a /\ b' = b /\ op' = op /\ me' = me
      /\ ia \in 1 .. Len(a) + 1 /\ ib \in 1 .. Len(b) + 1
  BY ArrayLemma DEF Args, TypeOK, args
<1>2. /\ \A i \in 1 .. Len(a) : a[i].thr \in Nat
      /\ \A i \in 1 .. Len(b) : b[i].thr \in Nat
  BY ArrayLemma DEF Args
<1>3. /\ TakeA => ia \in 1 .. Len(a) /\ a[ia].thr = lowest
      /\ TakeB => ib \in 1 .. Len(b) /\ b[ib].thr = lowest
      /\ lowest \in Nat
      /\ \A i \in 1 .. Len(a) : i >= ia /\ (TakeA => i > ia) => lowest < a[i].thr
      /\ \A i \in 1 .. Len(b) : i >= ib /\ (TakeB => i > ib) => lowest < b[i].thr
  BY RoundLemma
<1>4. /\ ia' = IF TakeA THEN ia + 1 ELSE ia
      /\ ib' = IF TakeB THEN ib + 1 ELSE ib
  BY DEF Advance
<1>5. /\ ia' \in 1 .. Len(a) + 1 /\ ib' \in 1 .. Len(b) + 1
      /\ \A i \in 1 .. ia' - 1 : i \in 1 .. ia - 1 \/ (TakeA /\ i = ia)
      /\ \A i \in 1 .. ib' - 1 : i \in 1 .. ib - 1 \/ (TakeB /\ i = ib)
      /\ \A i \in 1 .. ia - 1 : i \in 1 .. ia' - 1
      /\ \A i \in 1 .. ib - 1 : i \in 1 .. ib' - 1
      /\ TakeA => ia \in 1 .. ia' - 1
      /\ TakeB => ib \in 1 .. ib' - 1
  BY <1>1, <1>3, <1>4
<1>5a. /\ \A i \in 1 .. ia' - 1 : i \in 1 .. Len(a)
       /\ \A i \in 1 .. ib' - 1 : i \in 1 .. Len(b)
  BY <1>1, <1>3, <1>4
<1>6. MoreA' => ia' \in 1 .. Len(a) /\ lowest < a[ia'].thr /\ MoreA /\ a[ia].thr <= a[ia'].thr
  <2> SUFFICES ASSUME MoreA'
               PROVE  ia' \in 1 .. Len(a) /\ lowest < a[ia'].thr /\ MoreA /\ a[ia].thr <= a[ia'].thr
    OBVIOUS
  <2>1. ia' \in 1 .. Len(a) /\ ia \in 1 .. Len(a) /\ MoreA
    BY <1>1, <1>4, <1>5 DEF MoreA
  <2>2. lowest < a[ia'].thr
    BY <2>1, <1>1, <1>3, <1>4
  <2>3. a[ia].thr <= a[ia'].thr
    <3>1. CASE TakeA
      BY <3>1, <2>1, <2>2, <1>2, <1>3
    <3>2. CASE ~TakeA
      BY <3>2, <2>1, <1>2, <1>4
    <3> QED BY <3>1, <3>2
  <2> QED BY <2>1, <2>2, <2>3
<1>7. MoreB' => ib' \in 1 .. Len(b) /\ lowest < b[ib'].thr /\ MoreB /\ b[ib].thr <= b[ib'].thr
  <2> SUFFICES ASSUME MoreB'
               PROVE  ib' \in 1 .. Len(b) /\ lowest < b[ib'].thr /\ MoreB /\ b[ib].thr <= b[ib'].thr
    OBVIOUS
  <2>1. ib' \in 1 .. Len(b) /\ ib \in 1 .. Len(b) /\ MoreB
    BY <1>1, <1>4, <1>5 DEF MoreB
  <2>2. lowest < b[ib'].thr
    BY <2>1, <1>1, <1>3, <1>4
  <2>3. b[ib].thr <= b[ib'].thr
    <3>1. CASE TakeB
      BY <3>1, <2>1, <2>2, <1>2, <1>3
    <3>2. CASE ~TakeB
      BY <3>2, <2>1, <1>2, <1>4
    <3> QED BY <3>1, <3>2
  <2> QED BY <2>1, <2>2, <2>3
<1>8. ASSUME MoreB', NEW i \in 1 .. ia' - 1 PROVE a[i].thr < b[ib'].thr
  <2>a. MoreB /\ ib' \in 1 .. Len(b)
    BY <1>7, <1>8
  <2>b. ib \in 1 .. Len(b)
    BY <2>a, <1>1 DEF MoreB
  <2>c. i \in 1 .. Len(a)
    BY <1>8, <1>5a
  <2>0. ib \in 1 .. Len(b) /\ ib' \in 1 .. Len(b) /\ i \in 1 .. Len(a)
    BY <2>a, <2>b, <2>c
  <2>1. CASE i \in 1 .. ia - 1
    <3>1. a[i].thr < b[ib].thr
      BY <2>1, <1>7, <1>8 DEF MergeFront
    <3> QED BY <3>1, <2>0, <1>2, <1>7, <1>8
  <2>2. CASE TakeA /\ i = ia
    BY <2>2, <1>3, <1>7, <1>8
  <2> QED BY <2>1, <2>2, <1>5
<1>9. ASSUME MoreA', NEW i \in 1 .. ib' - 1 PROVE b[i].thr < a[ia'].thr
  <2>a. MoreA /\ ia' \in 1 .. Len(a)
    BY <1>6, <1>9
  <2>b. ia \in 1 .. Len(a)
    BY <2>a, <1>1 DEF MoreA
  <2>c. i \in 1 .. Len(b)
    BY <1>9, <1>5a
  <2>0. ia \in 1 .. Len(a) /\ ia' \in 1 .. Len(a) /\ i \in 1 .. Len(b)
    BY <2>a, <2>b, <2>c
  <2>1. CASE i \in 1 .. ib - 1
    <3>1. b[i].thr < a[ia].thr
      BY <2>1, <1>6, <1>9 DEF MergeFront
    <3> QED BY <3>1, <2>0, <1>2, <1>6, <1>9
  <2>2. CASE TakeB /\ i = ib
    BY <2>2, <1>3, <1>6, <1>9
  <2> QED BY <2>1, <2>2, <1>5
<1>10. MergeFront'
  BY <1>1, <1>8, <1>9 DEF MergeFront
<1>11. Args'
  BY <1>1 DEF Args
<1> QED BY <1>5, <1>6, <1>7, <1>10, <1>11

LEMMA JoinStep ==
  ASSUME ArrInv, VTS__join_step
  PROVE  ArrInv'
<1>1. /\ op = "join" /\ pc = "loop" /\ (MoreA \/ MoreB) /\ Advance /\ UNCHANGED args
      /\ all_leq' = all_leq /\ all_geq' = all_geq /\ pc' = pc
      /\ Args /\ TypeOK /\ MergeFront /\ JoinInv /\ is_sane_VTS(res)
      /\ op' = op /\ a' = a /\ b' = b /\ me' = me
  BY DEF ArrInv, VTS__join_step, args
<1>2. /\ lowest \in Thr /\ lowest \in Nat
      /\ tyma = VTS__indexAt(a, lowest) /\ tymb = VTS__indexAt(b, lowest)
      /\ tyma \in Nat /\ tymb \in Nat /\ (tyma # 0 \/ tymb # 0)
      /\ TakeA => a[ia].thr = lowest
      /\ TakeB => b[ib].thr = lowest
  BY <1>1, RoundLemma
<1>3. /\ Args' /\ ia' \in 1 .. Len(a) + 1 /\ ib' \in 1 .. Len(b) + 1 /\ MergeFront'
      /\ \A i \in 1 .. ia' - 1 : i \in 1 .. ia - 1 \/ (TakeA /\ i = ia)
      /\ \A i \in 1 .. ib' - 1 : i \in 1 .. ib - 1 \/ (TakeB /\ i = ib)
      /\ MoreA' => ia' \in 1 .. Len(a) /\ lowest < a[ia'].thr /\ MoreA /\ a[ia].thr <= a[ia'].thr
      /\ MoreB' => ib' \in 1 .. Len(b) /\ lowest < b[ib'].thr /\ MoreB /\ b[ib].thr <= b[ib'].thr
  BY <1>1, AdvanceLemma
<1>4. PICK e : e = TS(lowest, MaxOf(tyma, tymb))
  OBVIOUS
<1>5. e \in ScalarTS /\ e.thr = lowest /\ e.tym = MaxOf(tyma, tymb) /\ e.tym # 0
  BY <1>2, <1>4 DEF TS, ScalarTS, MaxOf
<1>6. res' = Append(res, e)
  BY <1>1, <1>2, <1>4 DEF VTS__join_step, MaxOf
<1>7. /\ res \in Seq(ScalarTS) /\ Len(res) \in Nat
      /\ \A k \in 1 .. Len(res) : res[k].thr \in Nat /\ res[k].tym \in Nat
  BY <1>1, ArrayLemma DEF TypeOK
<1>8. \A k \in 1 .. Len(res) : res[k].thr < lowest
  BY <1>1, <1>2, RoundLemma DEF JoinInv, TakeA, TakeB
<1>9. /\ res' \in Seq(ScalarTS) /\ is_sane_VTS(res') /\ Len(res') = Len(res) + 1
      /\ \A k \in 1 .. Len(res) : res'[k] = res[k]
      /\ res'[Len(res) + 1] = e
  BY <1>1, <1>5, <1>6, <1>7, <1>8, PushLemma, AppendLemma
<1>10. TypeOK'
  BY <1>1, <1>3, <1>9 DEF TypeOK
<1>11. ASSUME NEW k \in 1 .. Len(res')
       PROVE  /\ MoreA' => res'[k].thr < a[ia'].thr
              /\ MoreB' => res'[k].thr < b[ib'].thr
              /\ res'[k].tym = MaxOf(VTS__indexAt(a, res'[k].thr), VTS__indexAt(b, res'[k].thr))
  <2>1. CASE k = Len(res) + 1
    BY <2>1, <1>2, <1>3, <1>5, <1>9
  <2>2. CASE k \in 1 .. Len(res)
    <3>1. res'[k] = res[k] /\ res[k].thr \in Nat /\ res[k].thr < lowest
          /\ res[k].tym = MaxOf(VTS__indexAt(a, res[k].thr), VTS__indexAt(b, res[k].thr))
      BY <2>2, <1>1, <1>7, <1>8, <1>9 DEF JoinInv
    <3>2. MoreA' => lowest < a[ia'].thr /\ a[ia'].thr \in Nat
      BY <1>1, <1>3, ArrayLemma DEF Args
    <3>3. MoreB' => lowest < b[ib'].thr /\ b[ib'].thr \in Nat
      BY <1>1, <1>3, ArrayLemma DEF Args
    <3> QED BY <3>1, <3>2, <3>3, <1>2
  <2> QED BY <2>1, <2>2, <1>7, <1>9
<1>12. ASSUME NEW i \in 1 .. ia' - 1 PROVE \E k \in 1 .. Len(res') : res'[k].thr = a[i].thr
  <2>1. CASE i \in 1 .. ia - 1
    <3>1. PICK k \in 1 .. Len(res) : res[k].thr = a[i].thr
      BY <2>1, <1>1 DEF JoinInv
    <3> QED BY <3>1, <1>7, <1>9
  <2>2. CASE TakeA /\ i = ia
    BY <2>2, <1>2, <1>5, <1>7, <1>9
  <2> QED BY <2>1, <2>2, <1>3
<1>13. ASSUME NEW i \in 1 .. ib' - 1 PROVE \E k \in 1 .. Len(res') : res'[k].thr = b[i].thr
  <2>1. CASE i \in 1 .. ib - 1
    <3>1. PICK k \in 1 .. Len(res) : res[k].thr = b[i].thr
      BY <2>1, <1>1 DEF JoinInv
    <3> QED BY <3>1, <1>7, <1>9
  <2>2. CASE TakeB /\ i = ib
    BY <2>2, <1>2, <1>5, <1>7, <1>9
  <2> QED BY <2>1, <2>2, <1>3
<1>14. JoinInv'
  BY <1>1, <1>11, <1>12, <1>13 DEF JoinInv
<1> QED BY <1>1, <1>3, <1>9, <1>10, <1>14 DEF ArrInv

LEMMA CmpStep ==
  ASSUME ArrInv, VTS__cmp_step
  PROVE  ArrInv'
<1>1. /\ op = "cmp" /\ pc = "loop" /\ (MoreA \/ MoreB) /\ Advance /\ UNCHANGED args
      /\ all_geq' = (all_geq /\ ~(tyma < tymb)) /\ all_leq' = (all_leq /\ ~(tyma > tymb))
      /\ res' = res /\ pc' = pc
      /\ Args /\ TypeOK /\ MergeFront /\ CmpInv /\ is_sane_VTS(res)
      /\ op' = op /\ a' = a /\ b' = b /\ me' = me
  BY DEF ArrInv, VTS__cmp_step, args
<1>2. /\ TakeA \/ TakeB
      /\ tyma = VTS__indexAt(a, lowest) /\ tymb = VTS__indexAt(b, lowest)
      /\ tyma \in Nat /\ tymb \in Nat
      /\ TakeA => ia \in 1 .. Len(a) /\ a[ia].thr = lowest /\ a[ia].tym = tyma
      /\ TakeB => ib \in 1 .. Len(b) /\ b[ib].thr = lowest /\ b[ib].tym = tymb
  BY <1>1, RoundLemma
<1>3. /\ Args' /\ ia' \in 1 .. Len(a) + 1 /\ ib' \in 1 .. Len(b) + 1 /\ MergeFront'
      /\ \A i \in 1 .. ia' - 1 : i \in 1 .. ia - 1 \/ (TakeA /\ i = ia)
      /\ \A i \in 1 .. ib' - 1 : i \in 1 .. ib - 1 \/ (TakeB /\ i = ib)
      /\ \A i \in 1 .. ia - 1 : i \in 1 .. ia' - 1
      /\ \A i \in 1 .. ib - 1 : i \in 1 .. ib' - 1
      /\ TakeA => ia \in 1 .. ia' - 1
      /\ TakeB => ib \in 1 .. ib' - 1
  BY <1>1, AdvanceLemma
<1>4. TypeOK'
  BY <1>1, <1>3 DEF TypeOK
<1>5. all_leq' <=> /\ \A i \in 1 .. ia' - 1 : a[i].tym <= VTS__indexAt(b, a[i].thr)
                   /\ \A i \in 1 .. ib' - 1 : VTS__indexAt(a, b[i].thr) <= b[i].tym
  <2>1. /\ (TakeA => (a[ia].tym <= VTS__indexAt(b, a[ia].thr) <=> ~(tyma > tymb)))
        /\ (TakeB => (VTS__indexAt(a, b[ib].thr) <= b[ib].tym <=> ~(tyma > tymb)))
    BY <1>2
  <2>2. all_leq' => /\ \A i \in 1 .. ia' - 1 : a[i].tym <= VTS__indexAt(b, a[i].thr)
                    /\ \A i \in 1 .. ib' - 1 : VTS__indexAt(a, b[i].thr) <= b[i].tym
    BY <2>1, <1>1, <1>3 DEF CmpInv
  <2>3. ASSUME /\ \A i \in 1 .. ia' - 1 : a[i].tym <= VTS__indexAt(b, a[i].thr)
               /\ \A i \in 1 .. ib' - 1 : VTS__indexAt(a, b[i].thr) <= b[i].tym
        PROVE  all_leq'
    <3>1. all_leq
      BY <2>3, <1>1, <1>3 DEF CmpInv
    <3>2. ~(tyma > tymb)
      BY <2>1, <2>3, <1>2, <1>3
    <3> QED BY <3>1, <3>2, <1>1
  <2> QED BY <2>2, <2>3, <1>1, <1>4 DEF TypeOK
<1>6. all_geq' <=> /\ \A i \in 1 .. ia' - 1 : VTS__indexAt(b, a[i].thr) <= a[i].tym
                   /\ \A i \in 1 .. ib' - 1 : b[i].tym <= VTS__indexAt(a, b[i].thr)
  <2>1. /\ (TakeA => (VTS__indexAt(b, a[ia].thr) <= a[ia].tym <=> ~(tyma < tymb)))
        /\ (TakeB => (b[ib].tym <= VTS__indexAt(a, b[ib].thr) <=> ~(tyma < tymb)))
    BY <1>2
  <2>2. all_geq' => /\ \A i \in 1 .. ia' - 1 : VTS__indexAt(b, a[i].thr) <= a[i].tym
                    /\ \A i \in 1 .. ib' - 1 : b[i].tym <= VTS__indexAt(a, b[i].thr)
    BY <2>1, <1>1, <1>3 DEF CmpInv
  <2>3. ASSUME /\ \A i \in 1 .. ia' - 1 : VTS__indexAt(b, a[i].thr) <= a[i].tym
               /\ \A i \in 1 .. ib' - 1 : b[i].tym <= VTS__indexAt(a, b[i].thr)
        PROVE  all_geq'
    <3>1. all_geq
      BY <2>3, <1>1, <1>3 DEF CmpInv
    <3>2. ~(tyma < tymb)
      BY <2>1, <2>3, <1>2, <1>3
    <3> QED BY <3>1, <3>2, <1>1
  <2> QED BY <2>2, <2>3, <1>1, <1>4 DEF TypeOK
<1>7. CmpInv'
  BY <1>1, <1>5, <1>6 DEF CmpInv
<1> QED BY <1>1, <1>3, <1>4, <1>7 DEF ArrInv

\* The thread of me is not in the array when the loop passes its place.
LEMMA AbsentLemma ==
  ASSUME Args, TypeOK, \A i \in 1 .. ia - 1 : a[i].thr < me, MoreA => me < a[ia].thr
  PROVE  VTS__indexAt(a, me) = 0
<1>1. /\ ia \in Nat /\ Len(a) \in Nat /\ ia >= 1 /\ me \in Nat
      /\ \A i \in 1 .. Len(a) : a[i].thr \in Nat
  BY ArrayLemma, ThrAssumption DEF Args, TypeOK
<1>2. ASSUME NEW i \in 1 .. Len(a) PROVE a[i].thr # me
  <2>1. CASE i < ia
    BY <2>1, <1>1
  <2>2. CASE i >= ia
    <3>1. MoreA /\ ia \in 1 .. Len(a) /\ me < a[ia].thr
      BY <2>2, <1>1 DEF MoreA
    <3>2. i > ia => a[ia].thr < a[i].thr
      BY <3>1, <1>1 DEF Args, is_sane_VTS
    <3> QED BY <3>1, <3>2, <2>2, <1>1
  <2> QED BY <2>1, <2>2, <1>1
<1> QED BY <1>2, IndexLemma DEF Args

LEMMA TickCopyStep ==
  ASSUME ArrInv, VTS__tick_copy
  PROVE  ArrInv'
<1>1. /\ op = "tick" /\ MoreA /\ (pc = "loop" => a[ia].thr < me) /\ pc \in {"loop", "tail"}
      /\ res' = Append(res, a[ia]) /\ ia' = ia + 1 /\ pc' = pc
      /\ op' = op /\ a' = a /\ b' = b /\ me' = me /\ ib' = ib
      /\ all_leq' = all_leq /\ all_geq' = all_geq
      /\ Args /\ TypeOK /\ TickInv /\ is_sane_VTS(res)
  BY DEF ArrInv, VTS__tick_copy, TickUnchanged, args
<1>2. /\ ia \in 1 .. Len(a) /\ Len(a) \in Nat /\ a[ia] \in ScalarTS /\ me \in Nat
      /\ \A i \in 1 .. Len(a) : a[i].thr \in Nat
      /\ a[ia].tym # 0 /\ \A i \in 1 .. ia - 1 : a[i].thr < a[ia].thr
      /\ ia + 1 \in 1 .. Len(a) => a[ia].thr < a[ia + 1].thr
  <2>1. ia \in 1 .. Len(a) /\ Len(a) \in Nat
    BY <1>1, ArrayLemma DEF Args, TypeOK, MoreA
  <2> QED BY <2>1, <1>1, ArrayLemma, ThrAssumption DEF Args, is_sane_VTS
<1>3. /\ res \in Seq(ScalarTS) /\ Len(res) \in Nat
      /\ \A k \in 1 .. Len(res) : res[k].thr \in Nat
  BY <1>1, ArrayLemma DEF TypeOK
<1>4. \A k \in 1 .. Len(res) : res[k].thr < a[ia].thr
  <2>1. CASE pc = "loop"
    BY <2>1, <1>1, <1>2 DEF TickInv
  <2>2. CASE pc = "tail"
    BY <2>2, <1>1 DEF TickInv
  <2> QED BY <2>1, <2>2, <1>1
<1>5. /\ res' \in Seq(ScalarTS) /\ is_sane_VTS(res') /\ Len(res') = Len(res) + 1
      /\ \A k \in 1 .. Len(res) : res'[k] = res[k]
      /\ res'[Len(res) + 1] = a[ia]
  BY <1>1, <1>2, <1>3, <1>4, PushLemma, AppendLemma
<1>6. TypeOK' /\ Args'
  BY <1>1, <1>2, <1>5 DEF TypeOK, Args
<1>7. CASE pc = "loop"
  <2>1. Len(res) = ia - 1 /\ \A i \in 1 .. ia - 1 : res[i] = a[i] /\ a[i].thr < me
    BY <1>1, <1>7 DEF TickInv
  <2>2. \A i \in 1 .. ia' - 1 : i \in 1 .. ia - 1 \/ i = ia
    BY <1>1, <1>2
  <2>3. TickInv'
    BY <2>1, <2>2, <1>1, <1>2, <1>5, <1>7 DEF TickInv
  <2> QED BY <2>3, <1>1, <1>5, <1>6, <1>7 DEF ArrInv
<1>8. CASE pc = "tail"
  <2>0. /\ \A k \in 1 .. Len(res) :
             IF res[k].thr = me THEN res[k].tym = VTS__indexAt(a, me) + 1
                                ELSE \E i \in 1 .. ia - 1 : res[k] = a[i]
        /\ \A i \in 1 .. ia - 1 : a[i].thr # me => \E k \in 1 .. Len(res) : res[k] = a[i]
        /\ \E k \in 1 .. Len(res) : res[k].thr = me
    BY <1>1, <1>8 DEF TickInv
  <2>1. ASSUME NEW k \in 1 .. Len(res')
        PROVE  IF res'[k].thr = me THEN res'[k].tym = VTS__indexAt(a, me) + 1
                                   ELSE \E i \in 1 .. ia' - 1 : res'[k] = a[i]
    <3>1. CASE k = Len(res) + 1
      <4>1. res'[k] = a[ia] /\ a[ia].thr # me /\ ia \in 1 .. ia' - 1
        BY <3>1, <2>0, <1>1, <1>2, <1>3, <1>4, <1>5
      <4> QED BY <4>1
    <3>2. CASE k \in 1 .. Len(res)
      <4>1. res'[k] = res[k] /\ \A i \in 1 .. ia - 1 : i \in 1 .. ia' - 1
        BY <3>2, <1>1, <1>2, <1>5
      <4> QED BY <4>1, <3>2, <2>0
    <3> QED BY <3>1, <3>2, <1>3, <1>5
  <2>2. ASSUME NEW i \in 1 .. ia' - 1, a[i].thr # me
        PROVE  \E k \in 1 .. Len(res') : res'[k] = a[i]
    <3>1. CASE i = ia
      BY <3>1, <1>3, <1>5
    <3>2. CASE i \in 1 .. ia - 1
      <4>1. PICK k \in 1 .. Len(res) : res[k] = a[i]
        BY <3>2, <2>0, <2>2
      <4> QED BY <4>1, <1>3, <1>5
    <3> QED BY <3>1, <3>2, <1>1, <1>2
  <2>3. \E k \in 1 .. Len(res') : res'[k].thr = me
    <3>1. PICK k \in 1 .. Len(res) : res[k].thr = me
      BY <2>0
    <3> QED BY <3>1, <1>3, <1>5
  <2>4. ASSUME MoreA', NEW k \in 1 .. Len(res') PROVE res'[k].thr < a[ia'].thr
    <3>1. ia + 1 \in 1 .. Len(a) /\ a[ia].thr < a[ia + 1].thr
      BY <2>4, <1>1, <1>2 DEF MoreA
    <3>2. CASE k = Len(res) + 1
      BY <3>1, <3>2, <1>1, <1>5
    <3>3. CASE k \in 1 .. Len(res)
      BY <3>1, <3>3, <1>1, <1>2, <1>3, <1>4, <1>5
    <3> QED BY <3>2, <3>3, <1>3, <1>5
  <2>5. TickInv'
    BY <2>1, <2>2, <2>3, <2>4, <1>1, <1>8 DEF TickInv
  <2> QED BY <2>5, <1>1, <1>5, <1>6, <1>8 DEF ArrInv
<1> QED BY <1>1, <1>7, <1>8

LEMMA TickPlaceStep ==
  ASSUME ArrInv, VTS__tick_place
  PROVE  ArrInv'
<1>1. /\ op = "tick" /\ pc = "loop" /\ MoreA /\ me <= a[ia].thr
      /\ res' = (IF me = a[ia].thr THEN Append(res, TS(me, a[ia].tym + 1))
                                   ELSE Append(Append(res, TS(me, 1)), a[ia]))
      /\ ia' = ia + 1 /\ pc' = "tail"
      /\ op' = op /\ a' = a /\ b' = b /\ me' = me /\ ib' = ib
      /\ all_leq' = all_leq /\ all_geq' = all_geq
      /\ Args /\ TypeOK /\ TickInv /\ is_sane_VTS(res)
  BY DEF ArrInv, VTS__tick_place, TickUnchanged, args
<1>2. /\ ia \in 1 .. Len(a) /\ Len(a) \in Nat /\ a[ia] \in ScalarTS /\ me \in Nat
      /\ \A i \in 1 .. Len(a) : a[i].thr \in Nat /\ a[i].tym \in Nat
      /\ a[ia].tym # 0 /\ \A i \in 1 .. ia - 1 : a[i].thr < a[ia].thr
      /\ ia + 1 \in 1 .. Len(a) => a[ia].thr < a[ia + 1].thr
  <2>1. ia \in 1 .. Len(a) /\ Len(a) \in Nat
    BY <1>1, ArrayLemma DEF Args, TypeOK, MoreA
  <2> QED BY <2>1, <1>1, ArrayLemma, ThrAssumption DEF Args, is_sane_VTS
<1>3. /\ res \in Seq(ScalarTS) /\ Len(res) \in Nat /\ Len(res) = ia - 1
      /\ \A i \in 1 .. ia - 1 : res[i] = a[i] /\ a[i].thr < me
  BY <1>1, ArrayLemma DEF TypeOK, TickInv
<1>4. \A t \in Nat : TS(me, t) \in ScalarTS /\ TS(me, t).thr = me /\ TS(me, t).tym = t
  BY <1>1 DEF TS, ScalarTS, Args
<1>5. \A i \in 1 .. ia' - 1 : i \in 1 .. ia - 1 \/ i = ia
  BY <1>1, <1>2
<1>6. CASE me = a[ia].thr
  <2>1. PICK e \in ScalarTS : /\ e = TS(me, a[ia].tym + 1) /\ e.thr = me
                              /\ e.tym = a[ia].tym + 1 /\ e.tym # 0
    BY <1>2, <1>4
  <2>2. /\ res' = Append(res, e)
        /\ res' \in Seq(ScalarTS) /\ is_sane_VTS(res') /\ Len(res') = ia
        /\ \A k \in 1 .. ia - 1 : res'[k] = a[k]
        /\ res'[ia] = e
    <3>1. \A k \in 1 .. Len(res) : res[k] = a[k] /\ res[k].thr < e.thr
      BY <2>1, <1>3
    <3>2. /\ Append(res, e) \in Seq(ScalarTS) /\ is_sane_VTS(Append(res, e))
          /\ Len(Append(res, e)) = Len(res) + 1
          /\ \A k \in 1 .. Len(res) : Append(res, e)[k] = res[k]
          /\ Append(res, e)[Len(res) + 1] = e
      BY <3>1, <2>1, <1>1, <1>3, PushLemma, AppendLemma
    <3>3. res' = Append(res, e)
      BY <2>1, <1>1, <1>6
    <3>4. Len(res) + 1 = ia /\ \A k \in 1 .. ia - 1 : k \in 1 .. Len(res)
      BY <1>2, <1>3
    <3> QED BY <3>1, <3>2, <3>3, <3>4
  <2>3. e.tym = VTS__indexAt(a, me) + 1
    BY <2>1, <1>1, <1>2, <1>6, IndexLemma DEF Args
  <2>4. \A k \in 1 .. Len(res') : k \in 1 .. ia - 1 \/ k = ia
    BY <2>2, <1>2
  <2>5. \A i \in 1 .. ia - 1 : a[i].thr # me /\ i \in 1 .. ia' - 1
    BY <1>1, <1>2, <1>3
  <2>6. TypeOK' /\ Args'
    BY <2>2, <1>1, <1>2 DEF TypeOK, Args
  <2>7. ia \in 1 .. Len(res') /\ \A k \in 1 .. ia - 1 : k \in 1 .. Len(res')
    BY <2>2, <1>2
  <2>8. ASSUME NEW k \in 1 .. Len(res')
        PROVE  IF res'[k].thr = me THEN res'[k].tym = VTS__indexAt(a, me) + 1
                                   ELSE \E i \in 1 .. ia' - 1 : res'[k] = a[i]
    BY <2>1, <2>2, <2>3, <2>4, <2>5
  <2>9. ASSUME NEW i \in 1 .. ia' - 1, a[i].thr # me
        PROVE  \E k \in 1 .. Len(res') : res'[k] = a[i]
    BY <2>2, <2>7, <2>9, <1>5, <1>6
  <2>10. ASSUME MoreA', NEW k \in 1 .. Len(res') PROVE res'[k].thr < a[ia'].thr
    <3>1. ia + 1 \in 1 .. Len(a) /\ a[ia].thr < a[ia + 1].thr
      BY <2>10, <1>1, <1>2 DEF MoreA
    <3>2. CASE k = ia
      BY <3>1, <3>2, <2>1, <2>2, <1>1, <1>6
    <3>3. CASE k \in 1 .. ia - 1
      <4>1. res'[k] = a[k] /\ a[k].thr \in Nat /\ a[k].thr < a[ia].thr
        BY <3>3, <2>2, <1>2
      <4> QED BY <4>1, <3>1, <1>1, <1>2
    <3> QED BY <3>2, <3>3, <2>4
  <2>11. TickInv'
    BY <2>1, <2>2, <2>7, <2>8, <2>9, <2>10, <1>1 DEF TickInv
  <2> QED BY <2>11, <2>2, <2>6, <1>1 DEF ArrInv
<1>7. CASE me # a[ia].thr
  <2>0. me < a[ia].thr
    BY <1>1, <1>2, <1>7
  <2>1. PICK e \in ScalarTS : e = TS(me, 1) /\ e.thr = me /\ e.tym = 1
    BY <1>4
  <2>2. PICK s : s = Append(res, e)
    OBVIOUS
  <2>3. /\ s \in Seq(ScalarTS) /\ is_sane_VTS(s) /\ Len(s) = ia
        /\ \A k \in 1 .. ia - 1 : s[k] = a[k]
        /\ s[ia] = e
    <3>1. (\A k \in 1 .. Len(res) : res[k] = a[k] /\ res[k].thr < e.thr) /\ e.tym # 0
      BY <2>1, <1>3
    <3>2. /\ Append(res, e) \in Seq(ScalarTS) /\ is_sane_VTS(Append(res, e))
          /\ Len(Append(res, e)) = Len(res) + 1
          /\ \A k \in 1 .. Len(res) : Append(res, e)[k] = res[k]
          /\ Append(res, e)[Len(res) + 1] = e
      BY <3>1, <2>1, <1>1, <1>3, PushLemma, AppendLemma
    <3>4. Len(res) + 1 = ia /\ \A k \in 1 .. ia - 1 : k \in 1 .. Len(res)
      BY <1>2, <1>3
    <3> QED BY <3>1, <3>2, <2>2, <3>4
  <2>4. \A k \in 1 .. Len(s) : s[k].thr < a[ia].thr
    <3>1. \A k \in 1 .. Len(s) : k \in 1 .. ia - 1 \/ k = ia
      BY <2>3, <1>2
    <3> QED BY <3>1, <2>0, <2>1, <2>3, <1>2
  <2>5. /\ res' = Append(s, a[ia])
        /\ res' \in Seq(ScalarTS) /\ is_sane_VTS(res') /\ Len(res') = ia + 1
        /\ \A k \in 1 .. ia : res'[k] = s[k]
        /\ res'[ia + 1] = a[ia]
    <3>1. /\ Append(s, a[ia]) \in Seq(ScalarTS) /\ is_sane_VTS(Append(s, a[ia]))
          /\ Len(Append(s, a[ia])) = Len(s) + 1
          /\ \A k \in 1 .. Len(s) : Append(s, a[ia])[k] = s[k]
          /\ Append(s, a[ia])[Len(s) + 1] = a[ia]
      BY <2>3, <2>4, <1>2, PushLemma, AppendLemma
    <3>2. res' = Append(s, a[ia])
      BY <2>1, <2>2, <1>1, <1>7
    <3> QED BY <3>1, <3>2, <2>3
  <2>6. VTS__indexAt(a, me) = 0
    BY <2>0, <1>1, <1>3, AbsentLemma
  <2>7. /\ \A k \in 1 .. Len(res') : k \in 1 .. ia - 1 \/ k = ia \/ k = ia + 1
        /\ \A k \in 1 .. ia + 1 : k \in 1 .. Len(res')
        /\ ia \in 1 .. ia' - 1 /\ ia \in 1 .. Len(res') /\ ia + 1 \in 1 .. Len(res')
        /\ \A i \in 1 .. ia - 1 : i \in 1 .. ia' - 1 /\ i \in 1 .. ia /\ i \in 1 .. Len(res')
    BY <2>5, <1>1, <1>2
  <2>8. TypeOK' /\ Args'
    BY <2>5, <1>1, <1>2 DEF TypeOK, Args
  <2>9. res'[ia] = e /\ \A k \in 1 .. ia - 1 : res'[k] = a[k]
    BY <2>3, <2>5, <2>7, <1>2
  <2>10. ASSUME NEW k \in 1 .. Len(res')
        PROVE  IF res'[k].thr = me THEN res'[k].tym = VTS__indexAt(a, me) + 1
                                   ELSE \E i \in 1 .. ia' - 1 : res'[k] = a[i]
    <3>1. CASE k = ia
      BY <3>1, <2>1, <2>6, <2>9
    <3>2. CASE k = ia + 1
      BY <3>2, <2>5, <2>7, <1>7
    <3>3. CASE k \in 1 .. ia - 1
      <4>1. a[k].thr \in Nat /\ a[k].thr < me
        BY <3>3, <1>2, <1>3
      <4>2. res'[k].thr # me
        BY <3>3, <4>1, <2>9, <1>2
      <4> QED BY <3>3, <4>2, <2>7, <2>9
    <3> QED BY <3>1, <3>2, <3>3, <2>7
  <2>11. ASSUME NEW i \in 1 .. ia' - 1, a[i].thr # me
        PROVE  \E k \in 1 .. Len(res') : res'[k] = a[i]
    BY <2>5, <2>7, <2>9, <1>5
  <2>12. ASSUME MoreA', NEW k \in 1 .. Len(res') PROVE res'[k].thr < a[ia'].thr
    <3>1. ia + 1 \in 1 .. Len(a) /\ a[ia].thr < a[ia + 1].thr
      BY <2>12, <1>1, <1>2 DEF MoreA
    <3>2. me < a[ia + 1].thr
      BY <3>1, <2>0, <1>2
    <3>3. CASE k \in 1 .. ia - 1
      <4>1. a[k].thr \in Nat /\ a[k].thr < me
        BY <3>3, <1>2, <1>3
      <4> QED BY <4>1, <3>1, <3>2, <3>3, <2>9, <1>1, <1>2
    <3> QED BY <3>1, <3>2, <3>3, <2>1, <2>5, <2>7, <2>9, <1>1
  <2>13. TickInv'
    BY <2>1, <2>7, <2>9, <2>10, <2>11, <2>12, <1>1 DEF TickInv
  <2> QED BY <2>13, <2>5, <2>8, <1>1 DEF ArrInv
<1> QED BY <1>6, <1>7

LEMMA TickEndStep ==
  ASSUME ArrInv, VTS__tick_end
  PROVE  ArrInv'
<1>1. /\ op = "tick" /\ pc \in {"loop", "tail"} /\ ~MoreA /\ pc' = "done" /\ ia' = ia
      /\ res' = (IF pc = "loop" THEN Append(res, TS(me, 1)) ELSE res)
      /\ op' = op /\ a' = a /\ b' = b /\ me' = me /\ ib' = ib
      /\ all_leq' = all_leq /\ all_geq' = all_geq
      /\ Args /\ TypeOK /\ TickInv /\ is_sane_VTS(res)
  BY DEF ArrInv, VTS__tick_end, TickUnchanged, args
<1>2. ~MoreA' /\ Args'
  BY <1>1 DEF MoreA, Args
<1>3. CASE pc = "tail"
  <2>1. TickInv' /\ TypeOK'
    BY <1>1, <1>2, <1>3 DEF TickInv, TypeOK
  <2> QED BY <2>1, <1>1, <1>2, <1>3 DEF ArrInv
<1>4. CASE pc = "loop"
  <2>1. /\ res \in Seq(ScalarTS) /\ Len(res) \in Nat /\ Len(res) = ia - 1
        /\ \A i \in 1 .. ia - 1 : res[i] = a[i] /\ a[i].thr < me
        /\ me \in Nat /\ ia \in Nat /\ Len(a) \in Nat /\ ia = Len(a) + 1
        /\ \A i \in 1 .. Len(a) : a[i].thr \in Nat
    BY <1>1, <1>4, ArrayLemma, ThrAssumption DEF TypeOK, TickInv, Args, MoreA
  <2>21. \A t \in Nat : TS(me, t) \in ScalarTS /\ TS(me, t).thr = me /\ TS(me, t).tym = t
    BY <1>1 DEF TS, ScalarTS, Args
  <2>2. PICK e \in ScalarTS : e = TS(me, 1) /\ e.thr = me /\ e.tym = 1
    BY <2>21
  <2>3. (\A k \in 1 .. Len(res) : res[k] = a[k] /\ res[k].thr < e.thr) /\ e.tym # 0
    BY <2>1, <2>2
  <2>4. /\ Append(res, e) \in Seq(ScalarTS) /\ is_sane_VTS(Append(res, e))
        /\ Len(Append(res, e)) = Len(res) + 1
        /\ \A k \in 1 .. Len(res) : Append(res, e)[k] = res[k]
        /\ Append(res, e)[Len(res) + 1] = e
    BY <2>1, <2>2, <2>3, <1>1, PushLemma, AppendLemma
  <2>5. res' = Append(res, e)
    BY <1>1, <1>4, <2>2
  <2>6. VTS__indexAt(a, me) = 0
    BY <1>1, <2>1, AbsentLemma
  <2>7. \A k \in 1 .. Len(res') : k \in 1 .. ia - 1 \/ k = ia
    BY <2>1, <2>4, <2>5
  <2>8. ia \in 1 .. Len(res') /\ res'[ia] = e
        /\ \A k \in 1 .. ia - 1 : k \in 1 .. Len(res') /\ res'[k] = a[k]
    BY <2>1, <2>3, <2>4, <2>5
  <2>9. ASSUME NEW k \in 1 .. Len(res')
        PROVE  IF res'[k].thr = me THEN res'[k].tym = VTS__indexAt(a, me) + 1
                                   ELSE \E i \in 1 .. ia' - 1 : res'[k] = a[i]
    <3>1. CASE k = ia
      BY <3>1, <2>2, <2>6, <2>8
    <3>2. CASE k \in 1 .. ia - 1
      <4>1. a[k].thr # me
        BY <3>2, <2>1
      <4> QED BY <3>2, <4>1, <2>8, <1>1
    <3> QED BY <3>1, <3>2, <2>7
  <2>10. TickInv'
    <3>1. \A i \in 1 .. ia - 1 : \E k \in 1 .. Len(res') : res'[k] = a[i]
      BY <2>8
    <3>2. \E k \in 1 .. Len(res') : res'[k].thr = me
      BY <2>2, <2>8
    <3>3. pc' # "loop" /\ ~MoreA' /\ ia' = ia /\ a' = a /\ me' = me
      BY <1>1, <1>2
    <3>4. VTS__indexAt(a, me)' = VTS__indexAt(a, me)
      BY <3>3 DEF VTS__indexAt
    <3> QED BY <2>9, <3>1, <3>2, <3>3, <3>4 DEF TickInv
  <2>11. TypeOK'
    BY <2>4, <2>5, <1>1 DEF TypeOK
  <2> QED BY <2>4, <2>5, <2>10, <2>11, <1>1, <1>2 DEF ArrInv
<1> QED BY <1>1, <1>3, <1>4

LEMMA ArrSame ==
  ASSUME ArrInv, UNCHANGED <<args, ia, ib, res, all_leq, all_geq>>,
         pc' = pc \/ (op # "tick" /\ pc' = "done" /\ ~MoreA /\ ~MoreB)
  PROVE  ArrInv'
<1>1. /\ op' = op /\ a' = a /\ b' = b /\ me' = me /\ ia' = ia /\ ib' = ib /\ res' = res
      /\ all_leq' = all_leq /\ all_geq' = all_geq
  BY DEF args
<1>2. Args' /\ TypeOK' /\ (MoreA' <=> MoreA) /\ (MoreB' <=> MoreB)
  BY <1>1 DEF ArrInv, Args, TypeOK, MoreA, MoreB
<1>3. (op # "tick" => MergeFront') /\ (op = "join" => JoinInv') /\ (op = "cmp" => CmpInv')
  BY <1>1, <1>2 DEF ArrInv, MergeFront, JoinInv, CmpInv
<1>4. op = "tick" => TickInv'
  BY <1>1, <1>2 DEF ArrInv, TickInv
<1> QED BY <1>1, <1>2, <1>3, <1>4 DEF ArrInv

LEMMA ArrInit == Init => ArrInv
<1> SUFFICES ASSUME Init PROVE ArrInv
  OBVIOUS
<1>1. /\ Args /\ ia = 1 /\ ib = 1 /\ res = <<>> /\ pc = "loop"
      /\ all_leq = TRUE /\ all_geq = TRUE
  BY ArrAssumption DEF Init, Args
<1>2. /\ Len(a) \in Nat /\ Len(b) \in Nat /\ Len(res) = 0 /\ res \in Seq(ScalarTS)
      /\ ia - 1 = 0 /\ ib - 1 = 0
  BY <1>1, ArrayLemma DEF Args
<1>3. TypeOK
  BY <1>1, <1>2 DEF TypeOK, Args
<1>4. is_sane_VTS(res)
  BY <1>2 DEF is_sane_VTS
<1>5. MergeFront /\ JoinInv
  BY <1>1, <1>2 DEF MergeFront, JoinInv
<1>6. CmpInv
  BY <1>1, <1>2 DEF CmpInv
<1>7. TickInv
  BY <1>1, <1>2 DEF TickInv
<1> QED BY <1>1, <1>3, <1>4, <1>5, <1>6, <1>7 DEF ArrInv

LEMMA ArrStep == ArrInv /\ [Next]_vars => ArrInv'
<1> SUFFICES ASSUME ArrInv, [Next]_vars PROVE ArrInv'
  OBVIOUS
<1>1. CASE MergeEnds
  <2>1. /\ op # "tick" /\ pc' = "done" /\ ~MoreA /\ ~MoreB
        /\ UNCHANGED <<args, ia, ib, res, all_leq, all_geq>>
    BY <1>1 DEF MergeEnds
  <2> QED BY <2>1, ArrSame
<1>2. CASE UNCHANGED vars
  <2>1. UNCHANGED <<args, ia, ib, res, all_leq, all_geq>> /\ pc' = pc
    BY <1>2 DEF vars, args
  <2> QED BY <2>1, ArrSame
<1> QED BY <1>1, <1>2, JoinStep, CmpStep, TickCopyStep, TickPlaceStep, TickEndStep DEF Next

LEMMA ArrAlways == Spec => []ArrInv
<1> QED BY ArrInit, ArrStep, PTL DEF Spec

\* What the loops have computed when they are done.
LEMMA DoneDenotes ==
  ASSUME ArrInv, pc = "done"
  PROVE  ResultDenotes
<1>1. /\ Args /\ TypeOK /\ is_sane_VTS(res) /\ ~MoreA
      /\ res \in Seq(ScalarTS) /\ Len(res) \in Nat /\ Len(a) \in Nat /\ Len(b) \in Nat
  BY ArrayLemma DEF ArrInv, Args, TypeOK
<1>2. \A i \in 1 .. Len(a) : i \in 1 .. ia - 1
  BY <1>1 DEF MoreA, TypeOK
<1>3. ASSUME op # "tick" PROVE \A i \in 1 .. Len(b) : i \in 1 .. ib - 1
  BY <1>1, <1>3 DEF ArrInv, MoreB, TypeOK
<1>4. \A t : VTS__indexAt(a, t) \in Nat /\ VTS__indexAt(b, t) \in Nat
  BY <1>1, IndexLemma DEF Args
<1>5. ASSUME op = "join" PROVE Denotes(res) = VTS__join(Denotes(a), Denotes(b))
  <2>1. ASSUME NEW t \in Thr
        PROVE  VTS__indexAt(res, t) = MaxOf(VTS__indexAt(a, t), VTS__indexAt(b, t))
    <3>1. CASE \E k \in 1 .. Len(res) : res[k].thr = t
      <4>1. PICK k \in 1 .. Len(res) : res[k].thr = t
        BY <3>1
      <4>2. VTS__indexAt(res, t) = res[k].tym
        BY <4>1, <1>1, IndexLemma
      <4>3. res[k].tym = MaxOf(VTS__indexAt(a, t), VTS__indexAt(b, t))
        BY <4>1, <1>5 DEF ArrInv, JoinInv
      <4> QED BY <4>2, <4>3
    <3>2. CASE ~\E k \in 1 .. Len(res) : res[k].thr = t
      <4>1. VTS__indexAt(res, t) = 0
        BY <3>2, <1>1, IndexLemma
      <4>2. VTS__indexAt(a, t) = 0
        <5>1. \A i \in 1 .. Len(a) : a[i].thr # t
          BY <3>2, <1>2, <1>5 DEF ArrInv, JoinInv
        <5> QED BY <5>1, <1>1, IndexLemma DEF Args
      <4>3. VTS__indexAt(b, t) = 0
        <5>1. \A i \in 1 .. Len(b) : b[i].thr # t
          BY <3>2, <1>3, <1>5 DEF ArrInv, JoinInv
        <5> QED BY <5>1, <1>1, IndexLemma DEF Args
      <4> QED BY <4>1, <4>2, <4>3 DEF MaxOf
    <3> QED BY <3>1, <3>2
  <2> QED BY <2>1 DEF Denotes, VTS__join, MaxOf
<1>6. ASSUME op = "tick" PROVE Denotes(res) = VTS__tick(me, Denotes(a))
  <2>0. me \in Thr /\ TickInv
    BY <1>1, <1>6 DEF Args, ArrInv
  <2>1. ASSUME NEW t \in Thr
        PROVE  VTS__indexAt(res, t) = IF t = me THEN VTS__indexAt(a, me) + 1 ELSE VTS__indexAt(a, t)
    <3>1. CASE t = me
      <4>1. PICK k \in 1 .. Len(res) : res[k].thr = me
        BY <2>0 DEF TickInv
      <4>2. res[k].tym = VTS__indexAt(a, me) + 1
        BY <4>1, <2>0 DEF TickInv
      <4>3. VTS__indexAt(res, me) = res[k].tym
        BY <4>1, <1>1, IndexLemma
      <4> QED BY <3>1, <4>2, <4>3
    <3>2. CASE t # me /\ \E k \in 1 .. Len(res) : res[k].thr = t
      <4>1. PICK k \in 1 .. Len(res) : res[k].thr = t
        BY <3>2
      <4>2. PICK i \in 1 .. ia - 1 : res[k] = a[i]
        BY <3>2, <4>1, <2>0 DEF TickInv
      <4>3. i \in 1 .. Len(a)
        BY <1>1 DEF TypeOK
      <4>4. VTS__indexAt(res, t) = res[k].tym
        BY <4>1, <1>1, IndexLemma
      <4>5. VTS__indexAt(a, t) = a[i].tym
        BY <4>1, <4>2, <4>3, <1>1, IndexLemma DEF Args
      <4> QED BY <3>2, <4>2, <4>4, <4>5
    <3>3. CASE t # me /\ ~\E k \in 1 .. Len(res) : res[k].thr = t
      <4>1. \A i \in 1 .. Len(a) : a[i].thr # t
        BY <3>3, <2>0, <1>2 DEF TickInv
      <4>2. VTS__indexAt(res, t) = 0
        BY <3>3, <1>1, IndexLemma
      <4>3. VTS__indexAt(a, t) = 0
        BY <4>1, <1>1, IndexLemma DEF Args
      <4> QED BY <3>3, <4>2, <4>3
    <3> QED BY <3>1, <3>2, <3>3
  <2> QED BY <2>0, <2>1 DEF Denotes, VTS__tick
<1>7. ASSUME op = "cmp" PROVE POrdOf = VTS__cmp(Denotes(a), Denotes(b))
  <2>0. CmpInv /\ all_leq \in BOOLEAN /\ all_geq \in BOOLEAN
    BY <1>1, <1>7 DEF ArrInv, TypeOK
  <2>1. ASSUME all_leq, NEW t \in Thr PROVE VTS__indexAt(a, t) <= VTS__indexAt(b, t)
    <3>1. CASE \E i \in 1 .. Len(a) : a[i].thr = t
      BY <3>1, <2>0, <2>1, <1>1, <1>2, IndexLemma DEF CmpInv, Args
    <3>2. CASE ~\E i \in 1 .. Len(a) : a[i].thr = t
      <4>1. VTS__indexAt(a, t) = 0
        BY <3>2, <1>1, IndexLemma DEF Args
      <4> QED BY <4>1, <1>4
    <3> QED BY <3>1, <3>2
  <2>2. ASSUME all_geq, NEW t \in Thr PROVE VTS__indexAt(b, t) <= VTS__indexAt(a, t)
    <3>1. CASE \E i \in 1 .. Len(b) : b[i].thr = t
      BY <3>1, <2>0, <2>2, <1>1, <1>3, <1>7, IndexLemma DEF CmpInv, Args
    <3>2. CASE ~\E i \in 1 .. Len(b) : b[i].thr = t
      <4>1. VTS__indexAt(b, t) = 0
        BY <3>2, <1>1, IndexLemma DEF Args
      <4> QED BY <4>1, <1>4
    <3> QED BY <3>1, <3>2
  <2>3. /\ \A i \in 1 .. ia - 1 : /\ i \in 1 .. Len(a) /\ a[i].thr \in Thr
                                  /\ VTS__indexAt(a, a[i].thr) = a[i].tym
        /\ \A i \in 1 .. ib - 1 : /\ i \in 1 .. Len(b) /\ b[i].thr \in Thr
                                  /\ VTS__indexAt(b, b[i].thr) = b[i].tym
    <3>1. /\ \A i \in 1 .. ia - 1 : i \in 1 .. Len(a)
          /\ \A i \in 1 .. ib - 1 : i \in 1 .. Len(b)
      BY <1>1 DEF TypeOK
    <3> QED BY <3>1, <1>1, ArrayLemma, IndexLemma DEF Args
  <2>4. ASSUME \A t \in Thr : VTS__indexAt(a, t) <= VTS__indexAt(b, t) PROVE all_leq
    BY <2>0, <2>3, <2>4 DEF CmpInv
  <2>5. ASSUME \A t \in Thr : VTS__indexAt(b, t) <= VTS__indexAt(a, t) PROVE all_geq
    BY <2>0, <2>3, <2>5 DEF CmpInv
  <2>6. (all_leq <=> VTS__leq(Denotes(a), Denotes(b))) /\ (all_geq <=> VTS__leq(Denotes(b), Denotes(a)))
    BY <2>0, <2>1, <2>2, <2>4, <2>5 DEF VTS__leq, Denotes
  <2>7. CASE all_leq
    BY <2>0, <2>6, <2>7 DEF POrdOf, VTS__cmp
  <2>8. CASE ~all_leq
    BY <2>0, <2>6, <2>8 DEF POrdOf, VTS__cmp
  <2> QED BY <2>7, <2>8
<1> QED BY <1>1, <1>5, <1>6, <1>7 DEF ResultDenotes

\* The loops of VTS__join, VTS__cmp and VTS__tick compute, for arrays of any
\* length, what VectorTS says, and their result is sorted, has no thread twice
\* and no time 0.
THEOREM LoopsComputeTimestamps == Spec => []ResultDenotes
<1>1. ArrInv => ResultDenotes
  BY DoneDenotes DEF ArrInv, ResultDenotes
<1> QED BY <1>1, ArrAlways, PTL

----------------------------------------------------------------------------
(* The structural order *)

\* The order of two elements that differ.
ScalarBelow(x, y) == x.tym < y.tym \/ (x.tym = y.tym /\ x.thr < y.thr)

\* x comes before y: it is shorter, or lower at the first difference.
Before(x, y) ==
  \/ Len(x) < Len(y)
  \/ /\ Len(x) = Len(y)
     /\ \E i \in 1 .. Len(x) : SameUpTo(x, y, i) /\ ScalarBelow(x[i], y[i])

LEMMA ScalarOrder ==
  ASSUME NEW x \in ScalarTS, NEW y \in ScalarTS
  PROVE  /\ x # y => ScalarBelow(x, y) \/ ScalarBelow(y, x)
         /\ ~(ScalarBelow(x, y) /\ ScalarBelow(y, x))
         /\ ScalarBelow(x, y) => x # y
         /\ \A z \in ScalarTS : ScalarBelow(x, y) /\ ScalarBelow(y, z) => ScalarBelow(x, z)
<1>1. \A e \in ScalarTS : e.thr \in Nat /\ e.tym \in Nat
  BY ThrAssumption DEF ScalarTS
<1>2. x.thr = y.thr /\ x.tym = y.tym => x = y
  BY DEF ScalarTS
<1> QED BY <1>1, <1>2 DEF ScalarBelow

\* Two arrays of one length that are not equal have a first difference.
LEMMA FirstDifference ==
  ASSUME NEW x \in Seq(ScalarTS), NEW y \in Seq(ScalarTS), Len(x) = Len(y), x # y
  PROVE  \E i \in 1 .. Len(x) : x[i] # y[i] /\ SameUpTo(x, y, i)
<1> DEFINE D == {i \in 1 .. Len(x) : x[i] # y[i]}
<1>0. Len(x) \in Nat
  BY ArrayLemma
<1>1. D # {}
  OBVIOUS
<1>2. D \in SUBSET Nat
  BY <1>0
<1>3. PICK i \in D : \A j \in D : i <= j
  BY <1>1, <1>2, Least
<1>4. i \in 1 .. Len(x) /\ x[i] # y[i]
  BY <1>3
<1>5. \A j \in 1 .. i - 1 : j \in 1 .. Len(x) /\ j \notin D
  BY <1>0, <1>3, <1>4
<1>6. SameUpTo(x, y, i)
  BY <1>5 DEF SameUpTo
<1> QED BY <1>4, <1>6

LEMMA BeforeTotal ==
  ASSUME NEW x \in Seq(ScalarTS), NEW y \in Seq(ScalarTS)
  PROVE  /\ x = y \/ Before(x, y) \/ Before(y, x)
         /\ ~(Before(x, y) /\ Before(y, x))
         /\ ~Before(x, x)
<1>0. Len(x) \in Nat /\ Len(y) \in Nat
      /\ (\A i \in 1 .. Len(x) : x[i] \in ScalarTS) /\ (\A i \in 1 .. Len(y) : y[i] \in ScalarTS)
  BY ArrayLemma
<1>1. x = y \/ Before(x, y) \/ Before(y, x)
  <2>1. CASE Len(x) = Len(y) /\ x # y
    <3>1. PICK i \in 1 .. Len(x) : x[i] # y[i] /\ SameUpTo(x, y, i)
      BY <2>1, FirstDifference
    <3>2. SameUpTo(y, x, i)
      BY <3>1 DEF SameUpTo
    <3>3. ScalarBelow(x[i], y[i]) \/ ScalarBelow(y[i], x[i])
      BY <3>1, <2>1, <1>0, ScalarOrder
    <3> QED BY <3>1, <3>2, <3>3, <2>1 DEF Before
  <2> QED BY <2>1, <1>0 DEF Before
<1>2. ASSUME Before(x, y), Before(y, x) PROVE FALSE
  <2>1. /\ Len(x) = Len(y)
        /\ \E i \in 1 .. Len(x) : SameUpTo(x, y, i) /\ ScalarBelow(x[i], y[i])
        /\ \E i \in 1 .. Len(x) : SameUpTo(y, x, i) /\ ScalarBelow(y[i], x[i])
    BY <1>0, <1>2 DEF Before
  <2>2. PICK i \in 1 .. Len(x) : SameUpTo(x, y, i) /\ ScalarBelow(x[i], y[i])
    BY <2>1
  <2>3. PICK k \in 1 .. Len(x) : SameUpTo(y, x, k) /\ ScalarBelow(y[k], x[k])
    BY <2>1
  <2>4. x[i] # y[i] /\ x[k] # y[k]
    BY <2>1, <2>2, <2>3, <1>0, ScalarOrder
  <2>5. i = k
    BY <2>2, <2>3, <2>4, <1>0 DEF SameUpTo
  <2> QED BY <2>1, <2>2, <2>3, <2>5, <1>0, ScalarOrder
<1>3. ~Before(x, x)
  BY <1>0, ScalarOrder DEF Before
<1> QED BY <1>1, <1>2, <1>3

LEMMA BeforeTransitive ==
  ASSUME NEW x \in Seq(ScalarTS), NEW y \in Seq(ScalarTS), NEW z \in Seq(ScalarTS),
         Before(x, y), Before(y, z)
  PROVE  Before(x, z)
<1>0. Len(x) \in Nat /\ Len(y) \in Nat /\ Len(z) \in Nat
      /\ (\A i \in 1 .. Len(x) : x[i] \in ScalarTS) /\ (\A i \in 1 .. Len(y) : y[i] \in ScalarTS)
      /\ (\A i \in 1 .. Len(z) : z[i] \in ScalarTS)
  BY ArrayLemma
<1>1. CASE Len(x) = Len(y) /\ Len(y) = Len(z)
  <2>2. PICK i \in 1 .. Len(x) : SameUpTo(x, y, i) /\ ScalarBelow(x[i], y[i])
    BY <1>0, <1>1 DEF Before
  <2>3. PICK k \in 1 .. Len(x) : SameUpTo(y, z, k) /\ ScalarBelow(y[k], z[k])
    BY <1>0, <1>1 DEF Before
  <2>4. x[i] \in ScalarTS /\ y[i] \in ScalarTS /\ z[i] \in ScalarTS
        /\ x[k] \in ScalarTS /\ y[k] \in ScalarTS /\ z[k] \in ScalarTS
    BY <1>0, <1>1
  <2>5. CASE i = k
    <3>1. SameUpTo(x, z, i)
      BY <2>2, <2>3, <2>5 DEF SameUpTo
    <3>2. ScalarBelow(x[i], z[i])
      BY <2>2, <2>3, <2>4, <2>5, ScalarOrder
    <3> QED BY <3>1, <3>2, <1>1 DEF Before
  <2>6. CASE i < k
    <3>1. y[i] = z[i] /\ \A j \in 1 .. i - 1 : y[j] = z[j]
      BY <2>3, <2>6 DEF SameUpTo
    <3>2. SameUpTo(x, z, i)
      BY <2>2, <3>1 DEF SameUpTo
    <3> QED BY <2>2, <3>1, <3>2, <1>1 DEF Before
  <2>7. CASE k < i
    <3>1. x[k] = y[k] /\ \A j \in 1 .. k - 1 : x[j] = y[j]
      BY <2>2, <2>7 DEF SameUpTo
    <3>2. SameUpTo(x, z, k)
      BY <2>3, <3>1 DEF SameUpTo
    <3> QED BY <2>3, <3>1, <3>2, <1>1 DEF Before
  <2> QED BY <2>5, <2>6, <2>7
<1>2. CASE ~(Len(x) = Len(y) /\ Len(y) = Len(z))
  BY <1>0, <1>2 DEF Before
<1> QED BY <1>1, <1>2

\* What the comparison returns.
LEMMA StructuralOrder ==
  ASSUME NEW x \in Seq(ScalarTS), NEW y \in Seq(ScalarTS)
  PROVE  /\ Before(x, y) => VTS__cmp_structural(x, y) = -1
         /\ Before(y, x) => VTS__cmp_structural(x, y) = 1
         /\ x = y => VTS__cmp_structural(x, y) = 0
<1>0. Len(x) \in Nat /\ Len(y) \in Nat
      /\ (\A i \in 1 .. Len(x) : x[i] \in ScalarTS) /\ (\A i \in 1 .. Len(y) : y[i] \in ScalarTS)
  BY ArrayLemma
<1>1. CASE Len(x) # Len(y)
  BY <1>0, <1>1 DEF Before, VTS__cmp_structural
<1>2. CASE Len(x) = Len(y) /\ x # y
  <2>1. \E i \in 1 .. Len(x) : x[i] # y[i] /\ SameUpTo(x, y, i)
    BY <1>2, FirstDifference
  <2>2. PICK i \in 1 .. Len(x) :
          /\ x[i] # y[i] /\ SameUpTo(x, y, i)
          /\ VTS__cmp_structural(x, y) =
               IF x[i].tym < y[i].tym \/ (x[i].tym = y[i].tym /\ x[i].thr < y[i].thr)
                 THEN -1 ELSE 1
    BY <1>2, <2>1, Zenon DEF VTS__cmp_structural
  <2>3. SameUpTo(y, x, i)
    BY <2>2 DEF SameUpTo
  <2>4. VTS__cmp_structural(x, y) = IF ScalarBelow(x[i], y[i]) THEN -1 ELSE 1
    BY <2>2 DEF ScalarBelow
  <2>5. CASE ScalarBelow(x[i], y[i])
    <3>1. Before(x, y)
      BY <2>2, <2>5, <1>2 DEF Before
    <3> QED BY <3>1, <2>4, <2>5, <1>2, BeforeTotal
  <2>6. CASE ~ScalarBelow(x[i], y[i])
    <3>0. ScalarBelow(y[i], x[i])
      BY <2>2, <2>6, <1>0, <1>2, ScalarOrder
    <3>1. Before(y, x)
      BY <3>0, <2>3, <1>2 DEF Before
    <3> QED BY <3>1, <2>4, <2>6, <1>2, BeforeTotal
  <2> QED BY <2>5, <2>6
<1>3. CASE x = y
  <2>1. VTS__cmp_structural(x, y) = 0
    BY <1>3 DEF VTS__cmp_structural
  <2> QED BY <2>1, <1>3, BeforeTotal
<1> QED BY <1>1, <1>2, <1>3

Within(x, y) == \A i \in 1 .. Len(x) : \E j \in 1 .. Len(y) : y[j] = x[i]

\* Two arrays that are sane and have the same entries are equal.
LEMMA SameNext ==
  ASSUME NEW x \in Seq(ScalarTS), NEW y \in Seq(ScalarTS), is_sane_VTS(x), is_sane_VTS(y),
         Within(x, y), Within(y, x),
         NEW i \in 1 .. Len(x),
         \A j \in 1 .. i - 1 : j \in 1 .. Len(y) /\ x[j] = y[j]
  PROVE  i \in 1 .. Len(y) /\ x[i] = y[i]
<1>0. Len(x) \in Nat /\ Len(y) \in Nat /\ i \in Nat
      /\ (\A n \in 1 .. Len(x) : x[n].thr \in Nat) /\ (\A n \in 1 .. Len(y) : y[n].thr \in Nat)
  BY ArrayLemma
<1>01. \A m, n \in 1 .. Len(x) : m < n => x[m].thr < x[n].thr
  BY <1>0 DEF is_sane_VTS
<1>02. \A m, n \in 1 .. Len(y) : m < n => y[m].thr < y[n].thr
  BY <1>0 DEF is_sane_VTS
<1>03. \A n \in Nat : n < i /\ n # 0 => n \in 1 .. Len(x) /\ n \in 1 .. Len(y) /\ x[n] = y[n]
  BY <1>0
<1>1. PICK j \in 1 .. Len(y) : y[j] = x[i]
  BY DEF Within
<1>2. j \in Nat /\ j # 0 /\ x[i].thr \in Nat
  BY <1>0
<1>3. ~(j < i)
  <2>1. ASSUME j < i PROVE FALSE
    <3>1. j \in 1 .. Len(x) /\ x[j] = y[j]
      BY <2>1, <1>2, <1>03
    <3>2. x[j].thr < x[i].thr
      BY <2>1, <3>1, <1>01
    <3> QED BY <3>1, <3>2, <1>1, <1>2
  <2> QED BY <2>1
<1>4. ~(i < j)
  <2>1. ASSUME i < j PROVE FALSE
    <3>1. i \in 1 .. Len(y)
      BY <2>1, <1>0
    <3>2. y[i].thr < x[i].thr
      BY <2>1, <3>1, <1>1, <1>02
    <3>3. PICK k \in 1 .. Len(x) : x[k] = y[i]
      BY <3>1 DEF Within
    <3>4. k \in Nat /\ k # 0 /\ x[k].thr < x[i].thr /\ x[k].thr \in Nat
      BY <3>2, <3>3, <1>0
    <3>5. ~(i < k) /\ k # i
      BY <3>4, <1>01, <1>2
    <3>6. k < i
      BY <3>4, <3>5, <1>0
    <3>7. k \in 1 .. Len(y) /\ y[k] = y[i]
      BY <3>3, <3>4, <3>6, <1>03
    <3>8. y[k].thr < y[i].thr /\ y[i].thr \in Nat
      BY <3>1, <3>6, <3>7, <1>0, <1>02
    <3> QED BY <3>7, <3>8
  <2> QED BY <2>1
<1>5. i = j
  BY <1>0, <1>2, <1>3, <1>4
<1> QED BY <1>1, <1>5

LEMMA SamePrefix ==
  ASSUME NEW x \in Seq(ScalarTS), NEW y \in Seq(ScalarTS), is_sane_VTS(x), is_sane_VTS(y),
         Within(x, y), Within(y, x)
  PROVE  \A i \in 1 .. Len(x) : i \in 1 .. Len(y) /\ x[i] = y[i]
<1> DEFINE D == {i \in 1 .. Len(x) : ~(i \in 1 .. Len(y) /\ x[i] = y[i])}
<1>0. Len(x) \in Nat
  BY ArrayLemma
<1>1. SUFFICES ASSUME D # {} PROVE FALSE
  OBVIOUS
<1>2. D \in SUBSET Nat
  BY <1>0
<1>3. PICK i \in D : \A j \in D : i <= j
  BY <1>1, <1>2, Least
<1>4. i \in 1 .. Len(x) /\ ~(i \in 1 .. Len(y) /\ x[i] = y[i])
  BY <1>3
<1>5. \A j \in 1 .. i - 1 : j \in 1 .. Len(y) /\ x[j] = y[j]
  BY <1>0, <1>3, <1>4
<1> QED BY <1>4, <1>5, SameNext

LEMMA EntryOf ==
  ASSUME NEW x \in Seq(ScalarTS), NEW y \in Seq(ScalarTS), is_sane_VTS(x), is_sane_VTS(y),
         Denotes(x) = Denotes(y), NEW i \in 1 .. Len(x)
  PROVE  \E j \in 1 .. Len(y) : y[j] = x[i]
<1>1. x[i] \in ScalarTS /\ x[i].thr \in Thr /\ x[i].tym \in Nat
  BY ArrayLemma
<1>2. VTS__indexAt(x, x[i].thr) = x[i].tym /\ x[i].tym # 0
  BY IndexLemma DEF is_sane_VTS
<1>3. VTS__indexAt(y, x[i].thr) = x[i].tym
  BY <1>1, <1>2 DEF Denotes
<1>4. \E j \in 1 .. Len(y) : y[j].thr = x[i].thr
  BY <1>2, <1>3, IndexLemma
<1>5. PICK j \in 1 .. Len(y) : y[j].thr = x[i].thr
  BY <1>4
<1>6. y[j].tym = x[i].tym
  BY <1>3, <1>5, IndexLemma
<1>7. y[j] \in ScalarTS
  BY ArrayLemma
<1>8. \A m, n \in ScalarTS : m.thr = n.thr /\ m.tym = n.tym => m = n
  BY DEF ScalarTS
<1> QED BY <1>1, <1>5, <1>6, <1>7, <1>8

\* An array that is sane is the only one for its timestamp.
LEMMA Canonical ==
  ASSUME NEW x \in Seq(ScalarTS), NEW y \in Seq(ScalarTS), is_sane_VTS(x), is_sane_VTS(y),
         Denotes(x) = Denotes(y)
  PROVE  x = y
<1>1. Within(x, y)
  BY EntryOf DEF Within
<1>2. Within(y, x)
  BY EntryOf DEF Within
<1>3. \A i \in 1 .. Len(x) : i \in 1 .. Len(y) /\ x[i] = y[i]
  BY <1>1, <1>2, SamePrefix
<1>4. \A i \in 1 .. Len(y) : i \in 1 .. Len(x) /\ y[i] = x[i]
  BY <1>1, <1>2, SamePrefix
<1>5. Len(x) \in Nat /\ Len(y) \in Nat
  BY ArrayLemma
<1>6. Len(x) = Len(y)
  <2>1. ~(Len(x) < Len(y))
    <3>1. ASSUME Len(x) < Len(y) PROVE FALSE
      <4>1. Len(y) \in 1 .. Len(y)
        BY <3>1, <1>5
      <4> QED BY <4>1, <3>1, <1>4, <1>5
    <3> QED BY <3>1
  <2>2. ~(Len(y) < Len(x))
    <3>1. ASSUME Len(y) < Len(x) PROVE FALSE
      <4>1. Len(x) \in 1 .. Len(x)
        BY <3>1, <1>5
      <4> QED BY <4>1, <3>1, <1>3, <1>5
    <3> QED BY <3>1
  <2> QED BY <2>1, <2>2, <1>5
<1> QED BY <1>3, <1>6

\* The arguments of the calls never change.
LEMMA ArgsAlways == Spec => [](a \in Arr /\ b \in Arr)
<1>1. Init => a \in Arr /\ b \in Arr
  BY DEF Init
<1>2. a \in Arr /\ b \in Arr /\ [Next]_vars => (a \in Arr /\ b \in Arr)'
  BY DEF Next, vars, args, VTS__join_step, VTS__cmp_step, MergeEnds, VTS__tick_copy,
         VTS__tick_place, VTS__tick_end, TickUnchanged
<1> QED BY <1>1, <1>2, PTL DEF Spec

\* For arrays of any length, the order that vts_set is sorted by is total, and
\* it takes two arrays for equal just when they stand for one timestamp.
THEOREM TreeOrderIsTotal == Spec => []StructuralIsTotal
<1>1. ASSUME a \in Arr, b \in Arr PROVE StructuralIsTotal
  <2>1. \A x \in Arr : x \in Seq(ScalarTS) /\ is_sane_VTS(x)
    BY ArrAssumption
  <2>2. ASSUME NEW x \in Arr, NEW y \in Arr
        PROVE  /\ (VTS__cmp_structural(x, y) = -1) <=> Before(x, y)
               /\ (VTS__cmp_structural(x, y) = 0) <=> (x = y)
               /\ VTS__cmp_structural(y, x) = -VTS__cmp_structural(x, y)
    <3>1. /\ x = y \/ Before(x, y) \/ Before(y, x)
          /\ ~(Before(x, y) /\ Before(y, x)) /\ ~Before(x, x)
      BY <2>1, BeforeTotal
    <3>2. /\ Before(x, y) => VTS__cmp_structural(x, y) = -1
          /\ Before(y, x) => VTS__cmp_structural(x, y) = 1
          /\ x = y => VTS__cmp_structural(x, y) = 0
      BY <2>1, StructuralOrder
    <3>3. /\ Before(y, x) => VTS__cmp_structural(y, x) = -1
          /\ Before(x, y) => VTS__cmp_structural(y, x) = 1
          /\ y = x => VTS__cmp_structural(y, x) = 0
      BY <2>1, StructuralOrder
    <3> QED BY <3>1, <3>2, <3>3
  <2>3. (VTS__cmp_structural(a, b) = 0) <=> (Denotes(a) = Denotes(b))
    <3>1. Denotes(a) = Denotes(b) => a = b
      BY <1>1, <2>1, Canonical
    <3> QED BY <3>1, <2>2, <1>1
  <2>4. ASSUME NEW c \in Arr, VTS__cmp_structural(a, b) = -1, VTS__cmp_structural(b, c) = -1
        PROVE  VTS__cmp_structural(a, c) = -1
    <3>1. Before(a, b) /\ Before(b, c)
      BY <2>2, <2>4, <1>1
    <3>2. Before(a, c)
      BY <3>1, <2>1, <1>1, BeforeTransitive
    <3> QED BY <3>2, <2>2, <1>1
  <2> QED BY <2>2, <2>3, <2>4, <1>1 DEF StructuralIsTotal
<1> QED BY <1>1, ArgsAlways, PTL

----------------------------------------------------------------------------
(* Unions of intervals *)

Interval == [start : IvAddr, end : IvAddr]

\* Every interval is there under its start and under its end and under no
\* other key, and no interval meets another.
IsUnion(c) ==
  /\ DOMAIN c \subseteq IvAddr /\ c \in [DOMAIN c -> Interval]
  /\ \A k \in DOMAIN c :
       /\ c[k].start < c[k].end /\ k \in {c[k].start, c[k].end}
       /\ c[k].start \in DOMAIN c /\ c[c[k].start] = c[k]
       /\ c[k].end \in DOMAIN c /\ c[c[k].end] = c[k]
  /\ \A k, m \in DOMAIN c : c[k] = c[m] \/ c[k].end < c[m].start \/ c[m].end < c[k].start

Covers(c) == {v \in IvAddr : \E k \in DOMAIN c : c[k].start <= v /\ v < c[k].end}

\* A least and a greatest element.
LEMMA MinLemma ==
  ASSUME NEW S \in SUBSET IvAddr, S # {}
  PROVE  Min(S) \in S /\ \A n \in S : Min(S) <= n
<1>1. S \in SUBSET Nat
  BY IvAssumption DEF IvAddr
<1>2. \E x \in S : \A y \in S : x =< y
  BY <1>1, Least
<1>3. Min(S) \in S /\ \A n \in S : Min(S) =< n
  BY <1>2, Zenon DEF Min
<1> QED BY <1>3

LEMMA MaxLemma ==
  ASSUME NEW S \in SUBSET IvAddr, S # {}
  PROVE  Max(S) \in S /\ \A n \in S : n <= Max(S)
<1>0. MaxAddr \in Nat /\ IvAddr = 1 .. MaxAddr
  BY IvAssumption DEF IvAddr
<1> DEFINE D == {d \in 0 .. MaxAddr : MaxAddr - d \in S}
<1>1. D \in SUBSET Nat
  OBVIOUS
<1>2. \A n \in S : n \in Nat /\ n \in Int /\ MaxAddr - n \in 0 .. MaxAddr /\ MaxAddr - (MaxAddr - n) = n
  BY <1>0
<1>3. \A n \in S : MaxAddr - n \in D
  BY <1>2
<1>4. D # {}
  BY <1>3
<1>5. PICK d \in D : \A k \in D : d <= k
  <2> HIDE DEF D
  <2> QED BY <1>1, <1>4, Least
<1>6. MaxAddr - d \in S
  OBVIOUS
<1>7. ASSUME NEW n \in S PROVE MaxAddr - d >= n
  <2>1. d <= MaxAddr - n
    BY <1>3, <1>5
  <2>2. d \in Nat /\ n \in Nat
    BY <1>0, <1>1, <1>2
  <2> QED BY <1>0, <2>1, <2>2
<1>8. \E x \in S : \A y \in S : x >= y
  BY <1>6, <1>7
<1>9. Max(S) \in S /\ \A n \in S : Max(S) >= n
  BY <1>8, Zenon DEF Max
<1> QED BY <1>0, <1>9

LEMMA IntervalFacts ==
  ASSUME NEW i \in Interval
  PROVE  i.start \in IvAddr /\ i.end \in IvAddr /\ i.start \in Int /\ i.end \in Int
BY IvAssumption DEF Interval, IvAddr

LEMMA UnionFacts ==
  ASSUME NEW c, IsUnion(c), NEW k \in DOMAIN c
  PROVE  /\ k \in IvAddr /\ k \in Int /\ c[k] \in Interval
         /\ c[k].start \in Int /\ c[k].end \in Int /\ c[k].start < c[k].end
         /\ k = c[k].start \/ k = c[k].end
         /\ c[k].start \in DOMAIN c /\ c[c[k].start] = c[k]
         /\ c[k].end \in DOMAIN c /\ c[c[k].end] = c[k]
<1>1. c[k] \in Interval /\ k \in IvAddr /\ k \in Int
  BY IvAssumption DEF IsUnion, IvAddr
<1> QED BY <1>1, IntervalFacts DEF IsUnion

LEMMA Apart ==
  ASSUME NEW c, IsUnion(c), NEW k \in DOMAIN c, NEW m \in DOMAIN c
  PROVE  c[k] = c[m] \/ c[k].end < c[m].start \/ c[m].end < c[k].start
BY DEF IsUnion

\* What the first loop of an addition finds.
Includes(c, iv) == {k \in DOMAIN c : iv.end <= c[k].end /\ iv.start >= c[k].start}
Meets(c, iv) == {c[k] : k \in {m \in DOMAIN c : Intersects(iv, c[m])}}

Scanned(c, iv, s) ==
  /\ s.isIncluded <=> Includes(c, iv) # {}
  /\ ~s.isIncluded => s.met = Meets(c, iv)

LEMMA ScanLemma ==
  ASSUME NEW c, IsUnion(c), NEW iv \in Interval, iv.start < iv.end
  PROVE  Scanned(c, iv, Scan(c, iv))
<1> DEFINE keys     == KeysFrom(c, iv.start)
           included == {n \in keys : iv.end <= c[n].end /\ iv.start >= c[n].start}
           beyond   == {n \in keys : iv.end < c[n].start}
           passed   == {n \in keys : \A m \in included \cup beyond : n < m}
<1>0. iv.start \in Int /\ iv.end \in Int
  BY IntervalFacts
<1>1. /\ Scan(c, iv).isIncluded = (included # {} /\ \A m \in beyond : Min(included) < m)
      /\ Scan(c, iv).met = {c[n] : n \in {m \in passed : Intersects(iv, c[m])}}
  BY DEF Scan
<1>2. keys \subseteq DOMAIN c /\ keys \subseteq IvAddr /\ \A n \in DOMAIN c : n \in keys <=> n >= iv.start
  BY DEF KeysFrom, IsUnion
<1>3. Includes(c, iv) # {} <=> included # {}
  <2>1. included \subseteq Includes(c, iv)
    BY <1>2 DEF Includes
  <2>2. ASSUME NEW k \in Includes(c, iv) PROVE included # {}
    <3>1. k \in DOMAIN c /\ iv.end <= c[k].end /\ iv.start >= c[k].start
      BY DEF Includes
    <3>2. c[k].end \in DOMAIN c /\ c[c[k].end] = c[k] /\ c[k].end \in Int
      BY <3>1, UnionFacts
    <3>3. c[k].end \in included
      BY <1>0, <1>2, <3>1, <3>2
    <3> QED BY <3>3
  <2> QED BY <2>1, <2>2
<1>4. ASSUME NEW k \in included, NEW m \in beyond PROVE k < m
  <2>1. k \in DOMAIN c /\ m \in DOMAIN c /\ iv.end <= c[k].end /\ iv.start >= c[k].start
        /\ iv.end < c[m].start
    BY <1>2
  <2>2. c[k] = c[m] \/ c[k].end < c[m].start \/ c[m].end < c[k].start
    BY <2>1, Apart
  <2>3. /\ c[k].start \in Int /\ c[k].end \in Int /\ (k = c[k].start \/ k = c[k].end)
        /\ c[k].start < c[k].end
    BY <2>1, UnionFacts
  <2>4. /\ c[m].start \in Int /\ c[m].end \in Int /\ (m = c[m].start \/ m = c[m].end)
        /\ c[m].start < c[m].end
    BY <2>1, UnionFacts
  <2> QED BY <1>0, <2>1, <2>2, <2>3, <2>4
<1>5. Scan(c, iv).isIncluded <=> Includes(c, iv) # {}
  <2>1. included # {} => Min(included) \in included
    BY <1>2, MinLemma
  <2> HIDE DEF included, beyond
  <2> QED BY <1>1, <1>3, <1>4, <2>1
<1>6. ASSUME included = {} PROVE {c[n] : n \in {m \in passed : Intersects(iv, c[m])}} = Meets(c, iv)
  <2>1. ASSUME NEW n \in passed, Intersects(iv, c[n]) PROVE n \in DOMAIN c
    BY <1>2
  <2>2. ASSUME NEW k \in DOMAIN c, Intersects(iv, c[k])
        PROVE  \E n \in passed : c[n] = c[k]
    <3>1. /\ c[k].start \in Int /\ c[k].end \in Int /\ c[k].start < c[k].end
          /\ c[k].start \in DOMAIN c /\ c[c[k].start] = c[k]
          /\ c[k].end \in DOMAIN c /\ c[c[k].end] = c[k]
      BY UnionFacts
    <3>2. PICK n \in DOMAIN c : c[n] = c[k] /\ n \in Int /\ n >= iv.start /\ n <= iv.end
      BY <2>2, <3>1 DEF Intersects
    <3>3. ASSUME NEW m \in beyond PROVE n < m
      <4>1. m \in DOMAIN c /\ iv.end < c[m].start
        BY <1>2
      <4>2. c[m].start \in Int /\ c[m].end \in Int /\ (m = c[m].start \/ m = c[m].end)
            /\ c[m].start < c[m].end
        BY <4>1, UnionFacts
      <4> QED BY <1>0, <3>2, <4>1, <4>2
    <3>4. n \in passed
      BY <1>2, <1>6, <3>2, <3>3
    <3> QED BY <3>2, <3>4
  <2> HIDE DEF passed
  <2> QED BY <2>1, <2>2 DEF Meets
<1>7. ~Scan(c, iv).isIncluded => Scan(c, iv).met = Meets(c, iv)
  BY <1>1, <1>3, <1>5, <1>6
<1> QED BY <1>5, <1>7 DEF Scanned

\* The interval that the new one is joined into.
Spans(c, iv, new) ==
  /\ new \in Interval /\ new.start <= iv.start /\ iv.end <= new.end
  /\ new.start = iv.start \/ \E k \in DOMAIN c : Intersects(iv, c[k]) /\ new.start = c[k].start
  /\ new.end = iv.end \/ \E k \in DOMAIN c : Intersects(iv, c[k]) /\ new.end = c[k].end
  /\ \A k \in DOMAIN c : Intersects(iv, c[k]) => new.start <= c[k].start /\ c[k].end <= new.end

LEMMA JoinedLemma ==
  ASSUME NEW c, IsUnion(c), NEW iv \in Interval
  PROVE  Spans(c, iv, Joined(iv, Meets(c, iv)))
<1> DEFINE M == Meets(c, iv) \cup {iv}
           starts == {i.start : i \in M}
           ends == {i.end : i \in M}
<1>1. \A i \in M : i = iv \/ \E k \in DOMAIN c : Intersects(iv, c[k]) /\ i = c[k]
  BY DEF Meets
<1>2. M \subseteq Interval
  BY <1>1, UnionFacts
<1>3. starts \in SUBSET IvAddr /\ ends \in SUBSET IvAddr /\ iv.start \in starts /\ iv.end \in ends
  BY <1>2, IntervalFacts
<1>4. \A k \in DOMAIN c : Intersects(iv, c[k]) => c[k].start \in starts /\ c[k].end \in ends
  BY DEF Meets
<1>5. PICK lo \in starts : lo = Min(starts) /\ \A n \in starts : lo <= n
  <2> HIDE DEF starts
  <2> QED BY <1>3, MinLemma
<1>6. PICK hi \in ends : hi = Max(ends) /\ \A n \in ends : n <= hi
  <2> HIDE DEF ends
  <2> QED BY <1>3, MaxLemma
<1>7. Joined(iv, Meets(c, iv)) = [start |-> lo, end |-> hi]
  BY <1>5, <1>6 DEF Joined
<1>8. PICK new : new = [start |-> lo, end |-> hi]
  OBVIOUS
<1>9. lo \in IvAddr /\ hi \in IvAddr
  BY <1>3
<1>10. new \in Interval /\ new.start = lo /\ new.end = hi
  BY <1>8, <1>9 DEF Interval
<1>11. lo = iv.start \/ \E k \in DOMAIN c : Intersects(iv, c[k]) /\ lo = c[k].start
  BY <1>1, <1>5
<1>12. hi = iv.end \/ \E k \in DOMAIN c : Intersects(iv, c[k]) /\ hi = c[k].end
  BY <1>1, <1>6
<1>13. lo <= iv.start /\ iv.end <= hi
  BY <1>3, <1>5, <1>6
<1>14. \A k \in DOMAIN c : Intersects(iv, c[k]) => lo <= c[k].start /\ c[k].end <= hi
  BY <1>4, <1>5, <1>6
<1>15. Spans(c, iv, new)
  BY <1>10, <1>11, <1>12, <1>13, <1>14 DEF Spans
<1> QED BY <1>7, <1>8, <1>15

\* The intervals that stay are apart from it.
LEMMA StayApart ==
  ASSUME NEW c, IsUnion(c), NEW iv \in Interval, iv.start < iv.end, Includes(c, iv) = {},
         NEW new, Spans(c, iv, new), NEW k \in DOMAIN c, ~Intersects(iv, c[k])
  PROVE  c[k].end < new.start \/ new.end < c[k].start
<1>0. iv.start \in Int /\ iv.end \in Int /\ new.start \in Int /\ new.end \in Int
  BY IntervalFacts DEF Spans
<1>1. c[k].start \in Int /\ c[k].end \in Int /\ c[k].start < c[k].end
  BY UnionFacts
<1>2. c[k].end < iv.start \/ iv.end < c[k].start
  BY <1>0, <1>1 DEF Includes, Intersects
<1>3. CASE c[k].end < iv.start
  <2>1. CASE new.start = iv.start
    BY <1>3, <2>1
  <2>2. CASE new.start # iv.start
    <3>1. PICK m \in DOMAIN c : Intersects(iv, c[m]) /\ new.start = c[m].start
      BY <2>2 DEF Spans
    <3>2. c[m].start \in Int /\ c[m].end \in Int /\ c[m].start < c[m].end
      BY UnionFacts
    <3>3. c[k] = c[m] \/ c[k].end < c[m].start \/ c[m].end < c[k].start
      BY Apart
    <3> QED BY <1>0, <1>1, <1>3, <3>1, <3>2, <3>3 DEF Intersects
  <2> QED BY <2>1, <2>2
<1>4. CASE iv.end < c[k].start
  <2>1. CASE new.end = iv.end
    BY <1>4, <2>1
  <2>2. CASE new.end # iv.end
    <3>1. PICK m \in DOMAIN c : Intersects(iv, c[m]) /\ new.end = c[m].end
      BY <2>2 DEF Spans
    <3>2. c[m].start \in Int /\ c[m].end \in Int /\ c[m].start < c[m].end
      BY UnionFacts
    <3>3. c[k] = c[m] \/ c[k].end < c[m].start \/ c[m].end < c[k].start
      BY Apart
    <3> QED BY <1>0, <1>1, <1>4, <3>1, <3>2, <3>3 DEF Intersects
  <2> QED BY <2>1, <2>2
<1> QED BY <1>2, <1>3, <1>4

\* The map after an addition: the intervals that were met are replaced.
Replaced(c, iv, new, r) ==
  /\ DOMAIN r = {k \in DOMAIN c : ~Intersects(iv, c[k])} \cup {new.start, new.end}
  /\ r = [k \in DOMAIN r |-> r[k]]
  /\ r[new.start] = new /\ r[new.end] = new
  /\ \A k \in DOMAIN c : ~Intersects(iv, c[k]) => r[k] = c[k]

LEMMA ReplaceLemma ==
  ASSUME NEW c, IsUnion(c), NEW iv \in Interval, iv.start < iv.end, Includes(c, iv) = {},
         NEW new, Spans(c, iv, new), new = Joined(iv, Meets(c, iv))
  PROVE  Replaced(c, iv, new, AddTo(c, iv))
<1> DEFINE s == Scan(c, iv)
           gone == {i.start : i \in Meets(c, iv)} \cup {i.end : i \in Meets(c, iv)}
           keys == (DOMAIN c \ gone) \cup {new.start, new.end}
           r == [k \in keys |-> IF k \in {new.start, new.end} THEN new ELSE c[k]]
<1>1. ~s.isIncluded /\ s.met = Meets(c, iv)
  BY ScanLemma DEF Scanned
<1>2. AddTo(c, iv) = r
  BY <1>1 DEF AddTo
<1>3. ASSUME NEW k \in DOMAIN c PROVE k \in gone <=> Intersects(iv, c[k])
  <2>1. ASSUME k \in gone PROVE Intersects(iv, c[k])
    <3>1. PICK m \in DOMAIN c : Intersects(iv, c[m]) /\ (k = c[m].start \/ k = c[m].end)
      BY <2>1 DEF Meets
    <3>2. c[k] = c[m]
      BY <3>1, UnionFacts
    <3> QED BY <3>1, <3>2
  <2>2. ASSUME Intersects(iv, c[k]) PROVE k \in gone
    <3>1. c[k] \in Meets(c, iv)
      BY <2>2 DEF Meets
    <3>2. k = c[k].start \/ k = c[k].end
      BY UnionFacts
    <3> QED BY <3>1, <3>2
  <2> QED BY <2>1, <2>2
<1>4. keys = {k \in DOMAIN c : ~Intersects(iv, c[k])} \cup {new.start, new.end}
  <2> HIDE DEF gone
  <2> QED BY <1>3
<1>5. ASSUME NEW k \in DOMAIN c, ~Intersects(iv, c[k]) PROVE k # new.start /\ k # new.end
  <2>1. c[k].end < new.start \/ new.end < c[k].start
    BY <1>5, StayApart
  <2>2. c[k].start \in Int /\ c[k].end \in Int /\ c[k].start < c[k].end
        /\ (k = c[k].start \/ k = c[k].end)
    BY UnionFacts
  <2>3. new.start \in Int /\ new.end \in Int /\ new.start < new.end
    BY IntervalFacts DEF Spans
  <2> QED BY <2>1, <2>2, <2>3
<1>6. DOMAIN r = keys /\ r = [k \in DOMAIN r |-> r[k]]
  OBVIOUS
<1>7. r[new.start] = new /\ r[new.end] = new
  OBVIOUS
<1>8. \A k \in DOMAIN c : ~Intersects(iv, c[k]) => r[k] = c[k]
  <2> HIDE DEF keys
  <2>1. \A k \in DOMAIN c : ~Intersects(iv, c[k]) => k \in keys
    BY <1>4
  <2> QED BY <1>5, <2>1
<1>9. Replaced(c, iv, new, r)
  <2> HIDE DEF r, keys
  <2> QED BY <1>4, <1>6, <1>7, <1>8 DEF Replaced
<1> QED BY <1>2, <1>9

LEMMA ReplacedIsUnion ==
  ASSUME NEW c, IsUnion(c), NEW iv \in Interval, iv.start < iv.end, Includes(c, iv) = {},
         NEW new, Spans(c, iv, new), NEW r, Replaced(c, iv, new, r)
  PROVE  IsUnion(r) /\ Covers(r) = Covers(c) \cup (iv.start .. iv.end - 1)
<1>0. /\ iv.start \in Int /\ iv.end \in Int /\ new.start \in Int /\ new.end \in Int
      /\ new.start \in IvAddr /\ new.end \in IvAddr /\ new \in Interval
  BY IntervalFacts DEF Spans
<1>1. new.start < new.end
  BY <1>0 DEF Spans
<1>2. ASSUME NEW k \in DOMAIN r
      PROVE  \/ (k = new.start \/ k = new.end) /\ r[k] = new
             \/ k \in DOMAIN c /\ ~Intersects(iv, c[k]) /\ r[k] = c[k]
  BY <1>2 DEF Replaced
<1>3. ASSUME NEW k \in DOMAIN c, ~Intersects(iv, c[k]) PROVE k \in DOMAIN r /\ r[k] = c[k]
  BY <1>3 DEF Replaced
<1>4. new.start \in DOMAIN r /\ new.end \in DOMAIN r /\ r[new.start] = new /\ r[new.end] = new
  BY DEF Replaced
<1>5. DOMAIN r \subseteq IvAddr /\ r \in [DOMAIN r -> Interval]
  <2>1. \A k \in DOMAIN r : k \in IvAddr /\ r[k] \in Interval
    BY <1>0, <1>2, UnionFacts
  <2> QED BY <2>1 DEF Replaced
<1>6. ASSUME NEW k \in DOMAIN r
      PROVE  /\ r[k].start < r[k].end /\ k \in {r[k].start, r[k].end}
             /\ r[k].start \in DOMAIN r /\ r[r[k].start] = r[k]
             /\ r[k].end \in DOMAIN r /\ r[r[k].end] = r[k]
  <2>1. CASE (k = new.start \/ k = new.end) /\ r[k] = new
    BY <1>1, <1>4, <2>1
  <2>2. CASE k \in DOMAIN c /\ ~Intersects(iv, c[k]) /\ r[k] = c[k]
    <3>1. /\ c[k].start < c[k].end /\ (k = c[k].start \/ k = c[k].end)
          /\ c[k].start \in DOMAIN c /\ c[c[k].start] = c[k]
          /\ c[k].end \in DOMAIN c /\ c[c[k].end] = c[k]
      BY <2>2, UnionFacts
    <3> QED BY <1>3, <2>2, <3>1
  <2> QED BY <1>2, <2>1, <2>2
<1>7. ASSUME NEW k \in DOMAIN r, NEW m \in DOMAIN r
      PROVE  r[k] = r[m] \/ r[k].end < r[m].start \/ r[m].end < r[k].start
  <2>1. CASE r[k] = new /\ r[m] = new
    BY <2>1
  <2>2. CASE r[k] = new /\ m \in DOMAIN c /\ ~Intersects(iv, c[m]) /\ r[m] = c[m]
    BY <2>2, StayApart
  <2>3. CASE r[m] = new /\ k \in DOMAIN c /\ ~Intersects(iv, c[k]) /\ r[k] = c[k]
    BY <2>3, StayApart
  <2>4. CASE /\ k \in DOMAIN c /\ r[k] = c[k]
             /\ m \in DOMAIN c /\ r[m] = c[m]
    BY <2>4, Apart
  <2> QED BY <1>2, <2>1, <2>2, <2>3, <2>4
<1>8. IsUnion(r)
  BY <1>5, <1>6, <1>7 DEF IsUnion
<1>9. ASSUME NEW v \in Covers(r) PROVE v \in Covers(c) \cup (iv.start .. iv.end - 1)
  <2>0. v \in IvAddr /\ v \in Int
    BY IvAssumption DEF Covers, IvAddr
  <2>1. PICK k \in DOMAIN r : r[k].start <= v /\ v < r[k].end
    BY DEF Covers
  <2>2. CASE k \in DOMAIN c /\ r[k] = c[k]
    BY <2>0, <2>1, <2>2 DEF Covers
  <2>3. CASE r[k] = new
    <3>1. CASE iv.start <= v /\ v < iv.end
      BY <1>0, <2>0, <3>1
    <3>2. CASE v < iv.start
      <4>1. PICK m \in DOMAIN c : Intersects(iv, c[m]) /\ new.start = c[m].start
        BY <1>0, <2>0, <2>1, <2>3, <3>2 DEF Spans
      <4>2. c[m].start \in Int /\ c[m].end \in Int
        BY UnionFacts
      <4>3. c[m].start <= v /\ v < c[m].end
        BY <1>0, <2>0, <2>1, <2>3, <3>2, <4>1, <4>2 DEF Intersects
      <4> QED BY <2>0, <4>3 DEF Covers
    <3>3. CASE iv.end <= v
      <4>1. PICK m \in DOMAIN c : Intersects(iv, c[m]) /\ new.end = c[m].end
        BY <1>0, <2>0, <2>1, <2>3, <3>3 DEF Spans
      <4>2. c[m].start \in Int /\ c[m].end \in Int
        BY UnionFacts
      <4>3. c[m].start <= v /\ v < c[m].end
        BY <1>0, <2>0, <2>1, <2>3, <3>3, <4>1, <4>2 DEF Intersects
      <4> QED BY <2>0, <4>3 DEF Covers
    <3> QED BY <1>0, <2>0, <3>1, <3>2, <3>3
  <2> QED BY <1>2, <2>2, <2>3
<1>10. ASSUME NEW v \in Covers(c) PROVE v \in Covers(r)
  <2>0. v \in IvAddr /\ v \in Int
    BY IvAssumption DEF Covers, IvAddr
  <2>1. PICK k \in DOMAIN c : c[k].start <= v /\ v < c[k].end
    BY DEF Covers
  <2>2. CASE Intersects(iv, c[k])
    <3>1. new.start <= c[k].start /\ c[k].end <= new.end
      BY <2>2 DEF Spans
    <3>2. c[k].start \in Int /\ c[k].end \in Int
      BY UnionFacts
    <3>3. new.start <= v /\ v < new.end
      BY <1>0, <2>0, <2>1, <3>1, <3>2
    <3> QED BY <1>4, <2>0, <3>3 DEF Covers
  <2>3. CASE ~Intersects(iv, c[k])
    BY <1>3, <2>0, <2>1, <2>3 DEF Covers
  <2> QED BY <2>2, <2>3
<1>11. ASSUME NEW v \in iv.start .. iv.end - 1 PROVE v \in Covers(r)
  <2>1. new.start <= v /\ v < new.end
    BY <1>0, <1>11 DEF Spans
  <2>2. v \in IvAddr
    <3>1. 1 <= iv.start /\ iv.end <= MaxAddr /\ MaxAddr \in Int
      BY IvAssumption DEF Interval, IvAddr
    <3> QED BY <1>0, <3>1 DEF IvAddr
  <2> QED BY <1>4, <2>1, <2>2 DEF Covers
<1> QED BY <1>8, <1>9, <1>10, <1>11


\* An addition to a union.
Added(c, iv, r) ==
  /\ IsUnion(r) /\ Covers(r) = Covers(c) \cup (iv.start .. iv.end - 1)
  /\ Scan(c, iv).isIncluded <=> iv.start .. iv.end - 1 \subseteq Covers(c)

LEMMA AddLemma ==
  ASSUME NEW c, IsUnion(c), NEW iv \in Interval, iv.start < iv.end
  PROVE  Added(c, iv, AddTo(c, iv))
<1> DEFINE A == iv.start .. iv.end - 1
<1>0. /\ iv.start \in Int /\ iv.end \in Int /\ iv.start \in IvAddr /\ iv.end \in IvAddr
      /\ A \subseteq IvAddr /\ A \subseteq Int /\ iv.start \in A
  <2>1. iv.start \in Int /\ iv.end \in Int /\ iv.start \in IvAddr /\ iv.end \in IvAddr
    BY IntervalFacts
  <2> QED BY <2>1, IvAssumption DEF IvAddr
<1>1. Scan(c, iv).isIncluded <=> Includes(c, iv) # {}
  BY ScanLemma DEF Scanned
<1>2. ASSUME NEW k \in Includes(c, iv) PROVE A \subseteq Covers(c)
  <2>1. k \in DOMAIN c /\ iv.end <= c[k].end /\ iv.start >= c[k].start
    BY DEF Includes
  <2>2. c[k].start \in Int /\ c[k].end \in Int
    BY <2>1, UnionFacts
  <2>3. ASSUME NEW v \in A PROVE c[k].start <= v /\ v < c[k].end
    BY <1>0, <2>1, <2>2, <2>3
  <2> HIDE DEF A
  <2> QED BY <1>0, <2>1, <2>3 DEF Covers
<1>3. ASSUME A \subseteq Covers(c) PROVE Includes(c, iv) # {}
  <2>1. PICK k \in DOMAIN c : c[k].start <= iv.start /\ iv.start < c[k].end
    BY <1>0, <1>3 DEF Covers
  <2>2. c[k].start \in Int /\ c[k].end \in Int
    BY UnionFacts
  <2>3. ASSUME c[k].end < iv.end PROVE FALSE
    <3>1. c[k].end \in A
      BY <1>0, <2>1, <2>2, <2>3
    <3>2. PICK m \in DOMAIN c : c[m].start <= c[k].end /\ c[k].end < c[m].end
      <4> HIDE DEF A
      <4> QED BY <1>3, <3>1 DEF Covers
    <3>3. c[m].start \in Int /\ c[m].end \in Int
      BY UnionFacts
    <3>4. c[k] = c[m] \/ c[k].end < c[m].start \/ c[m].end < c[k].start
      BY Apart
    <3>5. c[k].start < c[k].end
      BY UnionFacts
    <3> QED BY <2>2, <3>2, <3>3, <3>4, <3>5
  <2> QED BY <1>0, <2>1, <2>2, <2>3 DEF Includes
<1>4. Scan(c, iv).isIncluded <=> A \subseteq Covers(c)
  BY <1>1, <1>2, <1>3
<1>5. CASE Scan(c, iv).isIncluded
  <2>1. AddTo(c, iv) = c
    BY <1>5 DEF AddTo
  <2> HIDE DEF A
  <2>2. Covers(c) = Covers(c) \cup A
    BY <1>4, <1>5
  <2> QED BY <1>4, <2>1, <2>2 DEF Added, A
<1>6. CASE ~Scan(c, iv).isIncluded
  <2>1. PICK new : new = Joined(iv, Meets(c, iv))
    OBVIOUS
  <2>2. Includes(c, iv) = {}
    BY <1>1, <1>6
  <2>3. Spans(c, iv, new)
    BY <2>1, JoinedLemma
  <2>4. Replaced(c, iv, new, AddTo(c, iv))
    BY <2>1, <2>2, <2>3, ReplaceLemma
  <2>5. IsUnion(AddTo(c, iv)) /\ Covers(AddTo(c, iv)) = Covers(c) \cup A
    BY <2>2, <2>3, <2>4, ReplacedIsUnion
  <2> HIDE DEF A
  <2> QED BY <1>4, <2>5 DEF Added, A
<1> QED BY <1>5, <1>6

\* A search finds exactly what is there.
LEMMA ContainsLemma ==
  ASSUME NEW c, IsUnion(c), NEW v \in IvAddr
  PROVE  v \in Covers(c) <=> ivUnionContains(c, v) # NoInterval
<1> DEFINE hits == {n \in KeysFrom(c, v) : c[n].start > v \/ c[n].end > v}
<1>0. v \in Int
  BY IvAssumption DEF IvAddr
<1>1. hits \in SUBSET IvAddr /\ hits \subseteq DOMAIN c
  BY DEF KeysFrom, IsUnion
<1>2. ASSUME NEW n \in hits PROVE n >= v /\ (c[n].start > v \/ c[n].end > v)
  BY DEF KeysFrom
<1>3. ASSUME NEW k \in DOMAIN c, c[k].end > v PROVE c[k].end \in hits
  <2>1. c[k].end \in DOMAIN c /\ c[c[k].end] = c[k] /\ c[k].end \in Int
    BY UnionFacts
  <2> QED BY <1>0, <1>3, <2>1 DEF KeysFrom
<1>4. ASSUME NEW k \in DOMAIN c PROVE c[k] # NoInterval
  <2>1. c[k].start \in IvAddr
    BY UnionFacts, IntervalFacts
  <2> QED BY <2>1, IvAssumption DEF IvAddr, NoInterval
<1>5. CASE hits = {}
  <2>1. ivUnionContains(c, v) = NoInterval
    BY <1>5 DEF ivUnionContains
  <2>2. v \notin Covers(c)
    <3> HIDE DEF hits
    <3>1. ASSUME NEW k \in DOMAIN c, c[k].start <= v, v < c[k].end PROVE FALSE
      BY <1>0, <1>3, <1>5, <3>1, UnionFacts
    <3> QED BY <3>1 DEF Covers
  <2> QED BY <2>1, <2>2
<1>6. CASE hits # {}
  <2>1. PICK n \in hits : n = Min(hits) /\ \A k \in hits : n <= k
    <3> HIDE DEF hits
    <3> QED BY <1>1, <1>6, MinLemma
  <2>2. ivUnionContains(c, v) = IF c[n].start > v THEN NoInterval ELSE c[n]
    BY <1>6, <2>1 DEF ivUnionContains
  <2> HIDE DEF hits
  <2>3. n \in DOMAIN c /\ n >= v /\ (c[n].start > v \/ c[n].end > v)
    BY <1>1, <1>2
  <2>4. /\ c[n].start \in Int /\ c[n].end \in Int /\ c[n].start < c[n].end
        /\ (n = c[n].start \/ n = c[n].end)
    BY <2>3, UnionFacts
  <2>5. CASE c[n].start > v
    <3>1. ASSUME NEW k \in DOMAIN c, c[k].start <= v, v < c[k].end PROVE FALSE
      <4>1. c[k].end \in hits
        BY <1>3, <3>1
      <4>2. n <= c[k].end
        BY <2>1, <4>1
      <4>3. c[k].start \in Int /\ c[k].end \in Int
        BY UnionFacts
      <4>4. c[k] = c[n] \/ c[k].end < c[n].start \/ c[n].end < c[k].start
        BY <2>3, Apart
      <4> QED BY <1>0, <2>4, <2>5, <3>1, <4>2, <4>3, <4>4
    <3>2. v \notin Covers(c)
      BY <3>1 DEF Covers
    <3> QED BY <2>2, <2>5, <3>2
  <2>6. CASE ~(c[n].start > v)
    <3>1. c[n].start <= v /\ v < c[n].end
      BY <1>0, <2>3, <2>4, <2>6
    <3>2. v \in Covers(c)
      BY <2>3, <3>1 DEF Covers
    <3>3. ivUnionContains(c, v) # NoInterval
      BY <1>4, <2>2, <2>3, <2>6
    <3> QED BY <3>2, <3>3
  <2> QED BY <2>5, <2>6
<1> QED BY <1>5, <1>6


\* The addition of another union, interval by interval.
Unions == {c \in UNION {[D -> Interval] : D \in SUBSET IvAddr} : IsUnion(c)}

LEMMA UnionsLemma ==
  ASSUME NEW c
  PROVE  c \in Unions <=> IsUnion(c)
<1>1. ASSUME IsUnion(c) PROVE c \in UNION {[D -> Interval] : D \in SUBSET IvAddr}
  BY <1>1 DEF IsUnion
<1> QED BY <1>1 DEF Unions

\* The addresses of the intervals of src whose starts are at most k.
Below(src, k) == {v \in IvAddr : \E m \in DOMAIN src : /\ m <= k /\ m = src[m].start
                                                      /\ src[m].start <= v /\ v < src[m].end}

AddedOne(c, src, n, r) ==
  IsUnion(r) /\ Covers(r) = Covers(c) \cup
    {v \in IvAddr : n \in DOMAIN src /\ n = src[n].start /\ n <= v /\ v < src[n].end}

LEMMA AddOneLemma ==
  ASSUME NEW c, IsUnion(c), NEW src, IsUnion(src), NEW n \in IvAddr
  PROVE  AddedOne(c, src, n, AddOne(c, src, n))
<1> DEFINE A == {v \in IvAddr : n \in DOMAIN src /\ n = src[n].start /\ n <= v /\ v < src[n].end}
<1>1. CASE n \in DOMAIN src /\ n = src[n].start
  <2>1. PICK iv : iv = src[n]
    OBVIOUS
  <2>2. iv \in Interval /\ iv.start < iv.end /\ iv.start = n
    BY <1>1, <2>1, UnionFacts
  <2>3. iv.start \in IvAddr /\ iv.end \in IvAddr
    BY <2>2, IntervalFacts
  <2>4. A = iv.start .. iv.end - 1
    BY <1>1, <2>1, <2>2, <2>3, IvAssumption DEF IvAddr
  <2>5. AddOne(c, src, n) = AddTo(c, iv)
    BY <1>1, <2>1 DEF AddOne
  <2>6. Added(c, iv, AddTo(c, iv))
    BY <2>2, AddLemma
  <2>7. IsUnion(AddOne(c, src, n)) /\ Covers(AddOne(c, src, n)) = Covers(c) \cup A
    <3> HIDE DEF A
    <3> QED BY <2>4, <2>5, <2>6 DEF Added
  <2> QED BY <2>7 DEF AddedOne
<1>2. CASE ~(n \in DOMAIN src /\ n = src[n].start)
  <2>1. AddOne(c, src, n) = c
    BY <1>2 DEF AddOne
  <2>2. A = {}
    BY <1>2
  <2>3. IsUnion(AddOne(c, src, n)) /\ Covers(AddOne(c, src, n)) = Covers(c) \cup A
    <3> HIDE DEF A
    <3> QED BY <2>1, <2>2
  <2> QED BY <2>3 DEF AddedOne
<1> QED BY <1>1, <1>2

LEMMA AddAllLemma ==
  ASSUME NEW c, IsUnion(c), NEW src, IsUnion(src)
  PROVE  IsUnion(AddAll(c, src)) /\ Covers(AddAll(c, src)) = Covers(c) \cup Covers(src)
<1> DEFINE One(w, k) == AddOne(w, src, k)
<1>0. MaxAddr \in Nat /\ IvAddr = 1 .. MaxAddr
  BY IvAssumption DEF IvAddr
<1>1. \A w \in Unions, k \in IvAddr : AddedOne(w, src, k, One(w, k))
  BY AddOneLemma, UnionsLemma
<1>2. \A w \in Unions, k \in IvAddr : One(w, k) \in Unions
  BY <1>1, UnionsLemma DEF AddedOne
<1> HIDE DEF One
<1>3. PICK F : F = [p \in Unions \X (1 .. MaxAddr) |-> One(p[1], p[2])]
  OBVIOUS
<1>4. F \in [Unions \X (1 .. MaxAddr) -> Unions]
      /\ \A w \in Unions, k \in 1 .. MaxAddr : F[<<w, k>>] = One(w, k)
  BY <1>0, <1>2, <1>3
<1>5. PICK g : IsChain(g, F, MaxAddr, Unions, c)
  <2>1. c \in Unions
    BY UnionsLemma
  <2> QED BY <1>0, <1>4, <2>1, ChainOf, Zenon
<1>6. ASSUME NEW k \in 1 .. MaxAddr PROVE g[k] = One(g[k - 1], k)
  <2>1. k - 1 \in 0 .. MaxAddr
    BY <1>0, <1>6
  <2>2. g[k - 1] \in Unions /\ g[k] = F[<<g[k - 1], k>>]
    BY <1>5, <2>1 DEF IsChain
  <2> QED BY <1>4, <2>2
<1>7. g = [n \in 0 .. MaxAddr |-> IF n = 0 THEN c ELSE One(g[n - 1], n)]
  <2>1. ASSUME NEW n \in 0 .. MaxAddr PROVE g[n] = IF n = 0 THEN c ELSE One(g[n - 1], n)
    <3>1. CASE n = 0
      BY <1>5, <3>1 DEF IsChain
    <3>2. CASE n # 0
      <4>1. n \in 1 .. MaxAddr
        BY <1>0, <3>2
      <4> QED BY <1>6, <3>2, <4>1
    <3> QED BY <3>1, <3>2
  <2> QED BY <1>5, <2>1 DEF IsChain
<1>8. PICK f : /\ f = [n \in 0 .. MaxAddr |-> IF n = 0 THEN c ELSE One(f[n - 1], n)]
               /\ AddAll(c, src) = f[MaxAddr]
  BY <1>7, Zenon DEF AddAll, One
<1>9. f[0] = c /\ \A k \in 1 .. MaxAddr : f[k] = One(f[k - 1], k)
  BY <1>0, <1>8
<1> DEFINE P == {k \in 0 .. MaxAddr :
                   f[k] \in Unions /\ Covers(f[k]) = Covers(c) \cup Below(src, k)}
<1>10. 0 \in P
  <2>1. Below(src, 0) = {}
    BY UnionFacts, <1>0 DEF Below
  <2>2. c \in Unions
    BY UnionsLemma
  <2> QED BY <1>0, <1>9, <2>1, <2>2
<1>11. ASSUME NEW k \in 1 .. MaxAddr, k - 1 \in P PROVE k \in P
  <2> DEFINE A == {v \in IvAddr : k \in DOMAIN src /\ k = src[k].start /\ k <= v /\ v < src[k].end}
  <2>1. f[k - 1] \in Unions /\ Covers(f[k - 1]) = Covers(c) \cup Below(src, k - 1)
    BY <1>11
  <2>2. f[k] \in Unions /\ Covers(f[k]) = Covers(f[k - 1]) \cup A
    <3>1. AddedOne(f[k - 1], src, k, f[k])
      BY <1>0, <1>1, <1>9, <2>1
    <3> QED BY <3>1, UnionsLemma DEF AddedOne
  <2>3. Below(src, k) = Below(src, k - 1) \cup A
    <3>1. \A m \in DOMAIN src : m \in Int
      BY UnionFacts
    <3>2. \A m \in DOMAIN src : m <= k <=> (m <= k - 1 \/ m = k)
      BY <1>0, <3>1
    <3> QED BY <3>2 DEF Below
  <2> HIDE DEF A
  <2> QED BY <2>1, <2>2, <2>3
<1>12. MaxAddr \in P
  <2> HIDE DEF P
  <2>1. \A k \in 0 .. MaxAddr : k \in P
    BY <1>0, <1>10, <1>11, Induct
  <2> QED BY <1>0, <2>1
<1>13. Below(src, MaxAddr) = Covers(src)
  <2>1. ASSUME NEW v \in Covers(src) PROVE v \in Below(src, MaxAddr)
    <3>1. PICK k \in DOMAIN src : src[k].start <= v /\ v < src[k].end
      BY DEF Covers
    <3>2. PICK m \in DOMAIN src : m = src[k].start /\ src[m] = src[k]
      BY UnionFacts
    <3>3. m <= MaxAddr
      BY <1>0, UnionFacts
    <3>4. v \in IvAddr
      BY DEF Covers
    <3> QED BY <3>1, <3>2, <3>3, <3>4 DEF Below
  <2> QED BY <2>1 DEF Below, Covers
<1> QED BY <1>8, <1>12, <1>13, UnionsLemma

\* Every map is a union of the addresses that were added to it.
IvInv ==
  /\ collect = [u \in Union |-> collect[u]] /\ cover = [u \in Union |-> cover[u]]
  /\ \A u \in Union : IsUnion(collect[u]) /\ cover[u] = Covers(collect[u])
  /\ ret = grew

LEMMA EmptyUnion == IsUnion(EmptyMap) /\ Covers(EmptyMap) = {}
<1>1. DOMAIN EmptyMap = {} /\ EmptyMap \in [{} -> Interval]
  BY DEF EmptyMap
<1> QED BY <1>1 DEF IsUnion, Covers

LEMMA IvInitInv == IvInit => IvInv
BY EmptyUnion DEF IvInit, IvInv

LEMMA IvSetOne ==
  ASSUME IvInv, NEW u \in Union, NEW c, IsUnion(c), NEW A, A = Covers(c),
         collect' = [collect EXCEPT ![u] = c], cover' = [cover EXCEPT ![u] = A],
         ret' = grew'
  PROVE  IvInv'
<1>1. /\ collect' = [w \in Union |-> IF w = u THEN c ELSE collect[w]]
      /\ cover' = [w \in Union |-> IF w = u THEN A ELSE cover[w]]
  BY DEF IvInv
<1>2. collect' = [w \in Union |-> collect'[w]] /\ cover' = [w \in Union |-> cover'[w]]
  BY <1>1
<1>3. \A w \in Union : IsUnion(collect'[w]) /\ cover'[w] = Covers(collect'[w])
  BY <1>1 DEF IvInv
<1> QED BY <1>2, <1>3 DEF IvInv

LEMMA IvStepInv == IvInv /\ [IvNext]_ivVars => IvInv'
<1> SUFFICES ASSUME IvInv, [IvNext]_ivVars PROVE IvInv'
  OBVIOUS
<1>1. ASSUME NEW u \in Union, newIvUnion(u) PROVE IvInv'
  <2>1. ret' = grew'
    BY <1>1 DEF newIvUnion, IvInv
  <2> QED BY <1>1, <2>1, EmptyUnion, IvSetOne DEF newIvUnion
<1>2. ASSUME NEW u \in Union, NEW start \in IvAddr, NEW end \in IvAddr,
             ivUnionAddInterval(u, start, end)
      PROVE  IvInv'
  <2>1. PICK iv : iv = [start |-> start, end |-> end]
    OBVIOUS
  <2>2. iv \in Interval /\ iv.start = start /\ iv.end = end /\ iv.start < iv.end
    BY <1>2, <2>1 DEF Interval, ivUnionAddInterval
  <2>3. PICK A : A = start .. end - 1
    OBVIOUS
  <2>4. PICK c : c = AddTo(collect[u], iv)
    OBVIOUS
  <2>5. IsUnion(collect[u]) /\ cover[u] = Covers(collect[u])
    BY DEF IvInv
  <2>6. Added(collect[u], iv, c)
    BY <2>2, <2>4, <2>5, AddLemma
  <2>7. /\ collect' = [collect EXCEPT ![u] = c]
        /\ cover' = [cover EXCEPT ![u] = cover[u] \cup A]
        /\ ret' = ~Scan(collect[u], iv).isIncluded
        /\ grew' = (cover' # cover)
    BY <1>2, <2>1, <2>3, <2>4 DEF ivUnionAddInterval
  <2>8. IsUnion(c) /\ cover[u] \cup A = Covers(c)
        /\ (Scan(collect[u], iv).isIncluded <=> A \subseteq cover[u])
    BY <2>2, <2>3, <2>5, <2>6 DEF Added
  <2>9. cover' = cover <=> A \subseteq cover[u]
    <3>1. cover = [w \in Union |-> cover[w]]
      BY DEF IvInv
    <3>2. cover'[u] = cover[u] \cup A /\ \A w \in Union : w # u => cover'[w] = cover[w]
      BY <2>7, <3>1
    <3>3. cover' = [w \in Union |-> cover'[w]]
      BY <2>7, <3>1
    <3>4. ASSUME A \subseteq cover[u] PROVE cover' = cover
      <4>1. cover[u] \cup A = cover[u]
        BY <3>4
      <4> QED BY <2>7, <3>1, <4>1
    <3>5. ASSUME cover' = cover PROVE A \subseteq cover[u]
      BY <3>2, <3>5
    <3> QED BY <3>4, <3>5
  <2>10. ret' = grew'
    <3>1. ret' \in BOOLEAN /\ grew' \in BOOLEAN
      BY <2>7
    <3>2. ret' <=> grew'
      BY <2>7, <2>8, <2>9
    <3> QED BY <3>1, <3>2
  <2> QED BY <2>7, <2>8, <2>10, IvSetOne
<1>3. ASSUME NEW dest \in Union, NEW src \in Union, ivUnionAddIvUnion(dest, src) PROVE IvInv'
  <2>1. PICK c : c = AddAll(collect[dest], collect[src])
    OBVIOUS
  <2>2. /\ IsUnion(collect[dest]) /\ cover[dest] = Covers(collect[dest])
        /\ IsUnion(collect[src]) /\ cover[src] = Covers(collect[src])
    BY DEF IvInv
  <2>3. IsUnion(c) /\ Covers(c) = cover[dest] \cup cover[src]
    BY <2>1, <2>2, AddAllLemma
  <2>4. /\ collect' = [collect EXCEPT ![dest] = c]
        /\ cover' = [cover EXCEPT ![dest] = cover[dest] \cup cover[src]]
    BY <1>3, <2>1 DEF ivUnionAddIvUnion
  <2>5. ret' = grew'
    BY <1>3 DEF ivUnionAddIvUnion, IvInv
  <2> QED BY <2>3, <2>4, <2>5, IvSetOne
<1>4. CASE UNCHANGED ivVars
  BY <1>4 DEF ivVars, IvInv
<1> QED BY <1>1, <1>2, <1>3, <1>4 DEF IvNext

LEMMA IvInvExact == IvInv => IvUnionExact
<1> SUFFICES ASSUME IvInv PROVE IvUnionExact
  OBVIOUS
<1>1. ASSUME NEW u \in Union
      PROVE  LET c == collect[u]
                 ivs == {c[k] : k \in DOMAIN c}
             IN /\ DOMAIN c = {i.start : i \in ivs} \cup {i.end : i \in ivs}
                /\ \A i, j \in ivs : i.start < i.end /\ (i = j \/ i.end < j.start \/ j.end < i.start)
                /\ \A v \in IvAddr : v \in cover[u] <=> ivUnionContains(c, v) # NoInterval
  <2>1. PICK c : c = collect[u]
    OBVIOUS
  <2>2. IsUnion(c) /\ cover[u] = Covers(c)
    BY <2>1 DEF IvInv
  <2> DEFINE ivs == {c[k] : k \in DOMAIN c}
  <2>3. DOMAIN c = {i.start : i \in ivs} \cup {i.end : i \in ivs}
    <3>1. ASSUME NEW k \in DOMAIN c
          PROVE  c[k] \in ivs /\ (k = c[k].start \/ k = c[k].end)
      BY <2>2, UnionFacts
    <3>2. ASSUME NEW i \in ivs PROVE i.start \in DOMAIN c /\ i.end \in DOMAIN c
      <4>1. PICK k \in DOMAIN c : i = c[k]
        OBVIOUS
      <4> QED BY <2>2, <4>1, UnionFacts
    <3> HIDE DEF ivs
    <3> QED BY <3>1, <3>2
  <2>4. ASSUME NEW i \in ivs, NEW j \in ivs
        PROVE  i.start < i.end /\ (i = j \/ i.end < j.start \/ j.end < i.start)
    <3>1. PICK k \in DOMAIN c : i = c[k]
      OBVIOUS
    <3>2. PICK m \in DOMAIN c : j = c[m]
      OBVIOUS
    <3> QED BY <2>2, <3>1, <3>2, UnionFacts, Apart
  <2>5. \A v \in IvAddr : v \in cover[u] <=> ivUnionContains(c, v) # NoInterval
    BY <2>2, ContainsLemma
  <2> QED BY <2>1, <2>3, <2>4, <2>5
<1>2. ret = grew
  BY DEF IvInv
<1> QED BY <1>1, <1>2 DEF IvUnionExact

\* Whatever intervals and unions are added in whatever order, a union holds
\* exactly the addresses that were added, its intervals stay apart, a search
\* that begins in the middle finds what is there, and HG_(ivUnionAddInterval)
\* says that it changed something exactly when it did.
THEOREM UnionsAreExact == IvSpec => []IvUnionExact
<1>1. IvSpec => []IvInv
  BY IvInitInv, IvStepInv, PTL DEF IvSpec
<1> QED BY <1>1, IvInvExact, PTL

----------------------------------------------------------------------------
(* SpinLock: the records of the tool *)

ShadowValue == [st : {"New", "ExclW", "SpinVar"}, v : SUBSET Addr]

ToolState ==
  [spin : [Addr -> Maybe(SpinRecord)], locks : [Addr -> Maybe(LockRecord)],
   ls : [Thr -> SUBSET (Addr \cup {Mutex})], sv : [Addr -> ShadowValue],
   vid : [Thr -> SUBSET Addr]]

LEMMA ToolFields ==
  ASSUME NEW s \in ToolState
  PROVE  /\ s.spin \in [Addr -> Maybe(SpinRecord)] /\ s.locks \in [Addr -> Maybe(LockRecord)]
         /\ s.ls \in [Thr -> SUBSET (Addr \cup {Mutex})] /\ s.sv \in [Addr -> ShadowValue]
         /\ s.vid \in [Thr -> SUBSET Addr]
BY DEF ToolState

\* The updates that the calls are made of.
SpinSet(s, r, x, lk) ==
  /\ r \in ToolState /\ r.spin[x] = lk /\ \A y \in Addr : y # x => r.spin[y] = s.spin[y]
  /\ r.locks = s.locks /\ r.ls = s.ls /\ r.sv = s.sv /\ r.vid = s.vid
SvSet(s, r, x, w) ==
  /\ r \in ToolState /\ r.sv = [s.sv EXCEPT ![x] = w] /\ r.sv[x] = w
  /\ r.locks = s.locks /\ r.ls = s.ls /\ r.spin = s.spin /\ r.vid = s.vid
LocksLsSet(s, r, x, t, lk, H) ==
  /\ r \in ToolState /\ r.locks = [s.locks EXCEPT ![x] = lk] /\ r.ls = [s.ls EXCEPT ![t] = H]
  /\ r.sv = s.sv /\ r.spin = s.spin /\ r.vid = s.vid

LEMMA SetSpin ==
  ASSUME NEW s \in ToolState, NEW x \in Addr, NEW lk \in Maybe(SpinRecord),
         NEW r, r = [s EXCEPT !.spin[x] = lk]
  PROVE  SpinSet(s, r, x, lk)
BY DEF ToolState, SpinSet

LEMMA SetSv ==
  ASSUME NEW s \in ToolState, NEW x \in Addr, NEW w \in ShadowValue,
         NEW r, r = [s EXCEPT !.sv[x] = w]
  PROVE  SvSet(s, r, x, w)
BY DEF ToolState, SvSet

LEMMA SetLocksLs ==
  ASSUME NEW s \in ToolState, NEW x \in Addr, NEW t \in Thr, NEW lk \in Maybe(LockRecord),
         NEW H \in SUBSET (Addr \cup {Mutex}),
         NEW r, r = [s EXCEPT !.locks[x] = lk, !.ls[t] = H]
  PROVE  LocksLsSet(s, r, x, t, lk, H)
BY DEF ToolState, LocksLsSet

LEMMA FreshLock ==
  /\ mk_LockN("mbRec") \in LockRecord /\ mk_LockN("mbRec").heldBy = NULL /\ NULL \in Bag
BY DEF mk_LockN, LockRecord, AllKinds, NULL, Bag

LEMMA LockAcquire ==
  ASSUME NEW lk \in LockRecord, NEW t \in Thr
  PROVE  /\ lockN_acquire_writer(lk, t) \in LockRecord
         /\ lockN_acquire_writer(lk, t).heldBy = [lk.heldBy EXCEPT ![t] = @ + 1]
<1>1. lk.heldBy \in [Thr -> Nat]
  BY DEF LockRecord, Bag
<1>2. [lk.heldBy EXCEPT ![t] = @ + 1] \in [Thr -> Nat]
  BY <1>1
<1>3. \A by \in [Thr -> Nat], w \in BOOLEAN :
        [lk EXCEPT !.heldW = w, !.heldBy = by] \in LockRecord
        /\ [lk EXCEPT !.heldW = w, !.heldBy = by].heldBy = by
  BY DEF LockRecord, Bag
<1>4. lockN_acquire_writer(lk, t)
        = [lk EXCEPT !.heldW = TRUE, !.heldBy = [lk.heldBy EXCEPT ![t] = @ + 1]]
  BY DEF lockN_acquire_writer, LockRecord
<1> QED BY <1>2, <1>3, <1>4

LEMMA LockRelease ==
  ASSUME NEW lk \in LockRecord, NEW t \in Thr, lk.heldBy[t] > 0
  PROVE  /\ lockN_release(lk, t) \in LockRecord
         /\ lockN_release(lk, t).heldBy = [lk.heldBy EXCEPT ![t] = @ - 1]
<1>1. lk.heldBy \in [Thr -> Nat] /\ lk.heldW \in BOOLEAN /\ lk.kind \in AllKinds
  BY DEF LockRecord, Bag
<1>2. [lk.heldBy EXCEPT ![t] = @ - 1] \in [Thr -> Nat]
  BY <1>1
<1>3. \A by \in [Thr -> Nat], w \in BOOLEAN :
        [lk EXCEPT !.heldBy = by, !.heldW = w] \in LockRecord
        /\ [lk EXCEPT !.heldBy = by, !.heldW = w].heldBy = by
  BY DEF LockRecord, Bag
<1>4. (lk.heldW /\ [lk.heldBy EXCEPT ![t] = @ - 1] # NULL) \in BOOLEAN
  BY <1>1
<1> QED BY <1>2, <1>3, <1>4 DEF lockN_release

LEMMA SpinFields ==
  ASSUME NEW lk \in SpinRecord
  PROVE  /\ lk # None /\ lk.sLk \in LockRecord /\ lk.sLk.heldBy \in [Thr -> Nat]
         /\ lk.lastSpinWriter \in Maybe(Thr) /\ lk.lastReleaseWriter \in Maybe(Thr)
         /\ lk.wasReleasedBefore \in BOOLEAN /\ lk.wasALock \in BOOLEAN /\ lk.sp \in Maybe(Loop)
BY RecordAssumption DEF SpinRecord, LockRecord, Bag

LEMMA FreshSpin ==
  /\ mk_SpinLock \in SpinRecord /\ mk_SpinLock.sLk.heldBy = NULL
  /\ mk_SpinLock.lastSpinWriter = None /\ mk_SpinLock.lastReleaseWriter = None
  /\ mk_SpinLock.wasReleasedBefore = FALSE /\ mk_SpinLock.wasALock = FALSE
BY FreshLock DEF mk_SpinLock, SpinRecord, Maybe

\* What one lock says about its holders, wherever it is kept.
SpinHeld(s, x, t) == IF s.spin[x] = None THEN 0 ELSE s.spin[x].sLk.heldBy[t]
LockHeld(s, x, t) == IF s.locks[x] = None THEN 0 ELSE s.locks[x].heldBy[t]

\* The records of one address agree, there is one holder at most, and none
\* of an address that is known to be no lock.
Coherent(s, x) ==
  /\ \A t \in Thr : /\ SpinHeld(s, x, t) \in {0, 1}
                    /\ LockHeld(s, x, t) = SpinHeld(s, x, t)
                    /\ x \in s.ls[t] <=> SpinHeld(s, x, t) = 1
  /\ \A t, u \in Thr : x \in s.ls[t] /\ x \in s.ls[u] => t = u
  /\ Invalidated(s.spin[x]) => \A t \in Thr : x \notin s.ls[t]

\* Two states differ at one address at most.
SameBut(s, r, x) ==
  /\ r.vid = s.vid
  /\ \A y \in Addr \ {x} :
       /\ r.spin[y] = s.spin[y] /\ r.locks[y] = s.locks[y] /\ r.sv[y] = s.sv[y]
       /\ \A t \in Thr : y \in r.ls[t] <=> y \in s.ls[t]

ToolInv == {s \in ToolState : \A x \in Addr : Coherent(s, x)}

\* What a call may do to a state at the address x.
Keeps(s, r, x) ==
  /\ r \in ToolState /\ Coherent(r, x) /\ SameBut(s, r, x)
  /\ Invalidated(s.spin[x]) => Invalidated(r.spin[x])

LEMMA KeepsInv ==
  ASSUME NEW s \in ToolInv, NEW r, NEW x \in Addr, Keeps(s, r, x)
  PROVE  r \in ToolInv
<1>1. ASSUME NEW y \in Addr \ {x} PROVE Coherent(r, y)
  <2>1. Coherent(s, y)
    BY DEF ToolInv
  <2> QED BY <2>1 DEF Keeps, SameBut, Coherent, SpinHeld, LockHeld
<1> QED BY <1>1 DEF Keeps, ToolInv

LEMMA NotHeld ==
  ASSUME NEW s \in ToolState, NEW x \in Addr, Coherent(s, x), s.spin[x] # None
  PROVE  /\ s.spin[x] \in SpinRecord
         /\ (s.spin[x].sLk.heldBy = NULL) <=> (\A t \in Thr : x \notin s.ls[t])
         /\ \A t \in Thr : s.spin[x].sLk.heldBy[t] \in {0, 1}
                           /\ (s.spin[x].sLk.heldBy[t] = 1 <=> x \in s.ls[t])
<1>1. s.spin[x] \in SpinRecord
  BY ToolFields DEF Maybe
<1>2. s.spin[x].sLk.heldBy \in [Thr -> Nat]
  BY <1>1, SpinFields
<1>3. \A t \in Thr : s.spin[x].sLk.heldBy[t] \in {0, 1}
                     /\ (s.spin[x].sLk.heldBy[t] = 1 <=> x \in s.ls[t])
  BY DEF Coherent, SpinHeld
<1>4. (s.spin[x].sLk.heldBy = NULL) <=> \A t \in Thr : s.spin[x].sLk.heldBy[t] = 0
  BY <1>2 DEF NULL
<1> QED BY <1>1, <1>3, <1>4

----------------------------------------------------------------------------
(* Acquiring and releasing *)

\* Who holds it, after t has been added or taken away.
AddedTo(s, r, t, x) ==
  r.ls[t] = s.ls[t] \cup {x} /\ \A u \in Thr : u # t => r.ls[u] = s.ls[u]
TakenFrom(s, r, t, x) ==
  r.ls[t] = s.ls[t] \ {x} /\ \A u \in Thr : u # t => r.ls[u] = s.ls[u]
OnlyHeldBy(by, t) == by[t] = 1 /\ \A u \in Thr : u # t => by[u] = 0
HeldWithout(old, by, t) == by[t] = 0 /\ \A u \in Thr : u # t => by[u] = old[u]

LEMMA FirstHolder ==
  ASSUME NEW lk \in LockRecord, NEW t \in Thr, lk.heldBy = NULL
  PROVE  /\ lockN_acquire_writer(lk, t) \in LockRecord
         /\ OnlyHeldBy(lockN_acquire_writer(lk, t).heldBy, t)
<1>1. PICK by : by = lk.heldBy
  OBVIOUS
<1>2. by \in [Thr -> Nat] /\ \A u \in Thr : by[u] = 0
  BY <1>1 DEF NULL
<1>3. /\ lockN_acquire_writer(lk, t) \in LockRecord
      /\ lockN_acquire_writer(lk, t).heldBy = [by EXCEPT ![t] = @ + 1]
  BY <1>1, LockAcquire
<1>4. /\ [by EXCEPT ![t] = @ + 1][t] = 1
      /\ \A u \in Thr : u # t => [by EXCEPT ![t] = @ + 1][u] = 0
  BY <1>2
<1> QED BY <1>3, <1>4 DEF OnlyHeldBy

LEMMA OneLess ==
  ASSUME NEW lk \in LockRecord, NEW t \in Thr, lk.heldBy[t] = 1
  PROVE  /\ lockN_release(lk, t) \in LockRecord
         /\ HeldWithout(lk.heldBy, lockN_release(lk, t).heldBy, t)
<1>1. lk.heldBy \in [Thr -> Nat]
  BY DEF LockRecord, Bag
<1>2. /\ lockN_release(lk, t) \in LockRecord
      /\ lockN_release(lk, t).heldBy = [lk.heldBy EXCEPT ![t] = @ - 1]
  BY LockRelease
<1>3. /\ [lk.heldBy EXCEPT ![t] = @ - 1][t] = 0
      /\ \A u \in Thr : u # t => [lk.heldBy EXCEPT ![t] = @ - 1][u] = lk.heldBy[u]
  BY <1>1
<1> QED BY <1>2, <1>3 DEF HeldWithout

Acquired(s, r, t, x) ==
  /\ r \in ToolState /\ r.spin = s.spin /\ r.sv = s.sv /\ r.vid = s.vid
  /\ r.locks[x] \in LockRecord /\ OnlyHeldBy(r.locks[x].heldBy, t)
  /\ \A y \in Addr : y # x => r.locks[y] = s.locks[y]
  /\ AddedTo(s, r, t, x)

LEMMA AcquireLemma ==
  ASSUME NEW s \in ToolState, NEW x \in Addr, NEW t \in Thr,
         \A u \in Thr : LockHeld(s, x, u) = 0,
         NEW r, r = w_acquires(s, t, x)
  PROVE  Acquired(s, r, t, x)
<1>1. PICK lk \in LockRecord :
        /\ lk.heldBy = NULL
        /\ lk = IF s.locks[x] = None THEN mk_LockN("mbRec") ELSE s.locks[x]
  <2>1. CASE s.locks[x] = None
    BY <2>1, FreshLock
  <2>2. CASE s.locks[x] # None
    <3>1. s.locks[x] \in LockRecord
      BY <2>2, ToolFields DEF Maybe
    <3>2. s.locks[x].heldBy \in [Thr -> Nat] /\ \A u \in Thr : s.locks[x].heldBy[u] = 0
      BY <2>2, <3>1 DEF LockHeld, LockRecord, Bag
    <3>3. s.locks[x].heldBy = NULL
      BY <3>2 DEF NULL
    <3> QED BY <2>2, <3>1, <3>3
  <2> QED BY <2>1, <2>2
<1>2. PICK new \in LockRecord : new = lockN_acquire_writer(lk, t) /\ OnlyHeldBy(new.heldBy, t)
  <2>1. lk.heldBy = NULL
    BY <1>1
  <2> QED BY <2>1, FirstHolder
<1>3. r = [s EXCEPT !.locks[x] = new, !.ls[t] = s.ls[t] \cup {x}]
  BY <1>1, <1>2 DEF w_acquires, ToolState
<1>4. PICK H \in SUBSET (Addr \cup {Mutex}) : H = s.ls[t] \cup {x}
  BY ToolFields
<1>5. new \in Maybe(LockRecord)
  BY DEF Maybe
<1>6. r = [s EXCEPT !.locks[x] = new, !.ls[t] = H]
  BY <1>3, <1>4
<1>7. LocksLsSet(s, r, x, t, new, H)
  BY <1>5, <1>6, SetLocksLs, Zenon
<1> QED BY <1>2, <1>4, <1>7, ToolFields DEF LocksLsSet, Acquired, AddedTo

Released(s, r, t, x) ==
  /\ r \in ToolState /\ r.spin = s.spin /\ r.sv = s.sv /\ r.vid = s.vid
  /\ r.locks[x] \in LockRecord /\ HeldWithout(s.locks[x].heldBy, r.locks[x].heldBy, t)
  /\ \A y \in Addr : y # x => r.locks[y] = s.locks[y]
  /\ TakenFrom(s, r, t, x)

LEMMA ReleaseLemma ==
  ASSUME NEW s \in ToolState, NEW x \in Addr, NEW t \in Thr, LockHeld(s, x, t) = 1,
         NEW r, r = releases(s, t, x)
  PROVE  Released(s, r, t, x)
<1>1. s.locks[x] # None /\ s.locks[x] \in LockRecord /\ s.locks[x].heldBy[t] = 1
  BY ToolFields DEF Maybe, LockHeld
<1>2. PICK rel \in LockRecord : /\ rel = lockN_release(s.locks[x], t)
                                /\ HeldWithout(s.locks[x].heldBy, rel.heldBy, t)
  BY <1>1, OneLess
<1>3. rel.heldBy[t] = 0
  BY <1>2 DEF HeldWithout
<1>4. r = [s EXCEPT !.locks[x] = rel,
                    !.ls[t] = IF rel.heldBy[t] = 0 THEN @ \ {x} ELSE @]
  BY <1>1, <1>2 DEF releases
<1>5. PICK H \in SUBSET (Addr \cup {Mutex}) : H = s.ls[t] \ {x}
  BY ToolFields
<1>6. rel \in Maybe(LockRecord)
  BY DEF Maybe
<1>7. r = [s EXCEPT !.locks[x] = rel, !.ls[t] = H]
  BY <1>3, <1>4, <1>5
<1>8. LocksLsSet(s, r, x, t, rel, H)
  BY <1>6, <1>7, SetLocksLs, Zenon
<1> QED BY <1>2, <1>5, <1>8, ToolFields DEF LocksLsSet, Released, TakenFrom

\* Two records of one spin variable that differ in their holders only.
SameButHeld(lk, new) ==
  /\ new \in SpinRecord
  /\ new.lastSpinWriter = lk.lastSpinWriter /\ new.lastReleaseWriter = lk.lastReleaseWriter
  /\ new.wasReleasedBefore = lk.wasReleasedBefore /\ new.wasALock = lk.wasALock
  /\ new.sp = lk.sp

LEMMA SetHeld ==
  ASSUME NEW lk \in SpinRecord, NEW k \in LockRecord,
         NEW new, new = [lk EXCEPT !.sLk = k]
  PROVE  SameButHeld(lk, new) /\ new.sLk = k
BY DEF SpinRecord, SameButHeld

Dropped(s, r, t, x) ==
  /\ r \in ToolState /\ r.sv = s.sv /\ r.vid = s.vid
  /\ SameButHeld(s.spin[x], r.spin[x])
  /\ HeldWithout(s.spin[x].sLk.heldBy, r.spin[x].sLk.heldBy, t)
  /\ r.locks[x] \in LockRecord /\ HeldWithout(s.locks[x].heldBy, r.locks[x].heldBy, t)
  /\ \A y \in Addr : y # x => r.locks[y] = s.locks[y] /\ r.spin[y] = s.spin[y]
  /\ TakenFrom(s, r, t, x)

LEMMA DropLemma ==
  ASSUME NEW s \in ToolState, NEW x \in Addr, NEW t \in Thr,
         s.spin[x] # None, SpinHeld(s, x, t) = 1, LockHeld(s, x, t) = 1,
         NEW r, r = DropSpinLock(s, t, x)
  PROVE  Dropped(s, r, t, x)
<1>1. s.spin[x] \in SpinRecord /\ s.spin[x].sLk \in LockRecord /\ s.spin[x].sLk.heldBy[t] = 1
  BY ToolFields, SpinFields DEF Maybe, SpinHeld
<1>2. PICK k \in LockRecord : /\ k = lockN_release(s.spin[x].sLk, t)
                              /\ HeldWithout(s.spin[x].sLk.heldBy, k.heldBy, t)
  BY <1>1, OneLess
<1>3. PICK new : new = [s.spin[x] EXCEPT !.sLk = k]
  OBVIOUS
<1>4. SameButHeld(s.spin[x], new) /\ new.sLk = k
  BY <1>1, <1>3, SetHeld, Zenon
<1>5. new \in Maybe(SpinRecord)
  BY <1>4 DEF Maybe, SameButHeld
<1>6. PICK s1 : s1 = [s EXCEPT !.spin[x] = new]
  OBVIOUS
<1>7. SpinSet(s, s1, x, new)
  BY <1>5, <1>6, SetSpin, Zenon
<1>8. r = releases(s1, t, x)
  BY <1>2, <1>3, <1>6 DEF DropSpinLock
<1>9. LockHeld(s1, x, t) = 1 /\ s1 \in ToolState
  BY <1>7 DEF LockHeld, SpinSet
<1>10. \A y \in Addr : y # x => s1.spin[y] = s.spin[y]
  BY <1>7, ToolFields DEF SpinSet
<1>11. Released(s1, r, t, x)
  BY <1>8, <1>9, ReleaseLemma, Zenon
<1> QED BY <1>2, <1>4, <1>7, <1>10, <1>11 DEF TakenFrom, SpinSet, Released, Dropped

----------------------------------------------------------------------------
(* Writes outside spin loops *)

\* The record after a write by t, who holds the lock or not.
Noted(s, lk, t, x) ==
  /\ lk \in SpinRecord
  /\ lk.lastSpinWriter = s.spin[x].lastSpinWriter /\ lk.sp = s.spin[x].sp
  /\ lk.lastReleaseWriter = t
  /\ IF s.spin[x].lastReleaseWriter = t
       THEN lk.wasReleasedBefore = s.spin[x].wasReleasedBefore
       ELSE lk.wasReleasedBefore <=> x \in s.ls[t]
  /\ lk.wasALock => s.spin[x].wasALock

JustNoted(s, lk, t, x) == Noted(s, lk, t, x) /\ lk.sLk = s.spin[x].sLk

\* The two updates of the record.
AfterWrite(lk1) == [lk1 EXCEPT !.wasALock = lk1.wasALock /\ lk1.wasReleasedBefore]

LEMMA ReleaseWriter ==
  ASSUME NEW s \in ToolState, NEW x \in Addr, NEW t \in Thr, s.spin[x] \in SpinRecord,
         NEW lk1, lk1 = set_lastReleaseWriter(s, t, x),
         NEW lk, lk = AfterWrite(lk1)
  PROVE  JustNoted(s, lk, t, x)
<1>1. PICK old \in SpinRecord : old = s.spin[x]
  OBVIOUS
<1>2. PICK h \in BOOLEAN : h = (x \in s.ls[t])
  <2>1. (x \in s.ls[t]) \in BOOLEAN
    OBVIOUS
  <2> QED BY <2>1, Zenon
<1>3. CASE old.lastReleaseWriter = t
  <2>1. lk1 = old
    BY <1>1, <1>3 DEF set_lastReleaseWriter
  <2>2. lk = [old EXCEPT !.wasALock = @ /\ old.wasReleasedBefore]
    BY <2>1 DEF AfterWrite
  <2>3. PICK w \in BOOLEAN : w = (old.wasALock /\ old.wasReleasedBefore)
    OBVIOUS
  <2>4. lk = [old EXCEPT !.wasALock = w]
    BY <2>2, <2>3
  <2>5. (w => old.wasALock) /\ t \in Maybe(Thr)
    BY <2>3 DEF Maybe
  <2>6. /\ lk \in SpinRecord /\ lk.sLk = old.sLk
        /\ lk.lastSpinWriter = old.lastSpinWriter /\ lk.sp = old.sp
        /\ lk.lastReleaseWriter = old.lastReleaseWriter
        /\ lk.wasReleasedBefore = old.wasReleasedBefore /\ lk.wasALock = w
    BY <2>4 DEF SpinRecord
  <2> QED BY <2>5, <2>6, <1>1, <1>3 DEF Noted, JustNoted
<1>4. CASE old.lastReleaseWriter # t
  <2>1. lk1 = [old EXCEPT !.lastReleaseWriter = t, !.wasReleasedBefore = h]
    BY <1>1, <1>2, <1>4 DEF set_lastReleaseWriter
  <2>2. t \in Maybe(Thr)
    BY DEF Maybe
  <2>3. /\ lk1 \in SpinRecord /\ lk1.sLk = old.sLk
        /\ lk1.lastSpinWriter = old.lastSpinWriter /\ lk1.sp = old.sp
        /\ lk1.lastReleaseWriter = t
        /\ lk1.wasReleasedBefore = h /\ lk1.wasALock = old.wasALock
    BY <2>1, <2>2 DEF SpinRecord
  <2>4. PICK w \in BOOLEAN : w = (lk1.wasALock /\ lk1.wasReleasedBefore)
    OBVIOUS
  <2>5. lk = [lk1 EXCEPT !.wasALock = w] /\ (w => old.wasALock)
    BY <2>3, <2>4 DEF AfterWrite
  <2>6. /\ lk \in SpinRecord /\ lk.sLk = lk1.sLk
        /\ lk.lastSpinWriter = lk1.lastSpinWriter /\ lk.sp = lk1.sp
        /\ lk.lastReleaseWriter = lk1.lastReleaseWriter
        /\ lk.wasReleasedBefore = lk1.wasReleasedBefore /\ lk.wasALock = w
    BY <2>3, <2>5 DEF SpinRecord
  <2> QED BY <2>3, <2>5, <2>6, <1>1, <1>2, <1>4 DEF Noted, JustNoted
<1> QED BY <1>3, <1>4

Outside(s, q, t, x) ==
  /\ Keeps(s, q.s, x) /\ q.s.sv = s.sv /\ q.isALock \in BOOLEAN
  /\ \A u \in Thr : x \notin q.s.ls[u]
  /\ s.spin[x] = None => q.s = s /\ ~q.isALock
  /\ s.spin[x] # None =>
       /\ q.s.spin[x] # None
       /\ Noted(s, q.s.spin[x], t, x)
       /\ q.isALock => s.spin[x].wasALock \/ \E u \in Thr : x \in s.ls[u]

\* After the holder is gone, nobody holds the lock.
LEMMA DroppedKeeps ==
  ASSUME NEW s \in ToolInv, NEW x \in Addr, NEW t \in Thr, NEW u \in Thr, x \in s.ls[u],
         s.spin[x] # None, NEW s1 \in ToolState, NEW lk,
         SpinSet(s, s1, x, lk), Noted(s, lk, t, x),
         lk.sLk = s.spin[x].sLk, NEW r, Dropped(s1, r, u, x)
  PROVE  /\ Keeps(s, r, x) /\ r.sv = s.sv /\ \A v \in Thr : x \notin r.ls[v]
         /\ r.spin[x] # None /\ Noted(s, r.spin[x], t, x)
<1>1. s \in ToolState /\ Coherent(s, x)
  BY DEF ToolInv
<1>2. \A v \in Thr : x \in s.ls[v] => v = u
  BY <1>1 DEF Coherent
<1>3. \A v \in Thr : x \notin r.ls[v]
  BY <1>2 DEF Dropped, TakenFrom, SpinSet
<1>4. SameBut(s, r, x)
  <2>1. r.vid = s.vid
    BY DEF Dropped, SpinSet
  <2>2. ASSUME NEW y \in Addr \ {x}
        PROVE  r.spin[y] = s.spin[y] /\ r.locks[y] = s.locks[y] /\ r.sv[y] = s.sv[y]
    BY <1>1, <2>2, ToolFields DEF Dropped, SpinSet
  <2>3. ASSUME NEW y \in Addr \ {x}, NEW v \in Thr PROVE y \in r.ls[v] <=> y \in s.ls[v]
    BY <2>3 DEF Dropped, SpinSet, TakenFrom
  <2> QED BY <2>1, <2>2, <2>3 DEF SameBut
<1>5. \A v \in Thr : SpinHeld(s, x, v) = s.spin[x].sLk.heldBy[v] /\ (v # u => SpinHeld(s, x, v) = 0)
                     /\ (v # u => LockHeld(s, x, v) = 0)
  BY <1>1, <1>2 DEF Coherent, SpinHeld
<1>6. s.locks[x] # None
  BY <1>1 DEF Coherent, LockHeld
<1>7. r.spin[x] \in SpinRecord /\ r.spin[x] # None /\ r.locks[x] # None
  BY SpinFields, RecordAssumption DEF Dropped, SameButHeld
<1>8. \A v \in Thr : SpinHeld(r, x, v) = 0 /\ LockHeld(r, x, v) = 0
  <2>1. /\ r.spin[x].sLk.heldBy[u] = 0 /\ r.locks[x].heldBy[u] = 0
        /\ \A v \in Thr : v # u => /\ r.spin[x].sLk.heldBy[v] = s.spin[x].sLk.heldBy[v]
                                   /\ r.locks[x].heldBy[v] = s.locks[x].heldBy[v]
    BY DEF Dropped, HeldWithout, SpinSet
  <2>2. \A v \in Thr : LockHeld(s, x, v) = s.locks[x].heldBy[v]
    BY <1>6 DEF LockHeld
  <2>3. \A v \in Thr : r.spin[x].sLk.heldBy[v] = 0 /\ r.locks[x].heldBy[v] = 0
    BY <1>5, <2>1, <2>2
  <2> QED BY <2>3, <1>7 DEF SpinHeld, LockHeld
<1>9. Coherent(r, x)
  BY <1>3, <1>8 DEF Coherent
<1>10. Noted(s, r.spin[x], t, x)
  BY <1>7 DEF Noted, Dropped, SameButHeld, SpinSet
<1>11. Invalidated(s.spin[x]) => Invalidated(r.spin[x])
  <2>1. Invalidated(s.spin[x]) => x \notin s.ls[t]
    BY <1>1 DEF Coherent
  <2> QED BY <2>1, <1>7, <1>10, SpinAssumption DEF Noted, Invalidated
<1>12. r \in ToolState /\ r.sv = s.sv
  BY DEF Dropped, SpinSet
<1> QED BY <1>3, <1>4, <1>7, <1>9, <1>10, <1>11, <1>12 DEF Keeps

LEMMA SpinSetTwice ==
  ASSUME NEW s \in ToolState, NEW x \in Addr, NEW s1, NEW lk1, SpinSet(s, s1, x, lk1),
         NEW s2, NEW lk2, SpinSet(s1, s2, x, lk2)
  PROVE  SpinSet(s, s2, x, lk2)
BY ToolFields DEF SpinSet

LEMMA OutsideLemma ==
  ASSUME NEW s \in ToolInv, NEW x \in Addr, NEW t \in Thr, NEW q, q = OutsideWrite(s, t, x)
  PROVE  Outside(s, q, t, x)
<1>1. s \in ToolState /\ Coherent(s, x)
  BY DEF ToolInv
<1>2. CASE s.spin[x] = None
  <2>1. q = Is(FALSE, s)
    BY <1>2 DEF OutsideWrite
  <2>2. q.s = s /\ q.isALock = FALSE
    BY <2>1 DEF Is
  <2>3. \A u \in Thr : x \notin s.ls[u]
    BY <1>1, <1>2 DEF Coherent, SpinHeld
  <2> QED BY <2>2, <2>3, <1>1, <1>2 DEF Outside, Keeps, SameBut
<1>3. CASE s.spin[x] # None
  <2>1. s.spin[x] \in SpinRecord
    BY <1>1, <1>3, ToolFields DEF Maybe
  <2>2. PICK lk1 : lk1 = set_lastReleaseWriter(s, t, x)
    OBVIOUS
  <2>3. PICK lk : lk = AfterWrite(lk1)
    OBVIOUS
  <2>4. PICK s1 : s1 = [s EXCEPT !.spin[x] = lk]
    OBVIOUS
  <2>51. JustNoted(s, lk, t, x)
    BY <1>1, <2>1, <2>2, <2>3, ReleaseWriter, Zenon
  <2>5. Noted(s, lk, t, x) /\ lk.sLk = s.spin[x].sLk
    BY <2>51 DEF JustNoted
  <2>6. lk \in SpinRecord /\ lk \in Maybe(SpinRecord)
    BY <2>5 DEF Noted, Maybe
  <2>71. SpinSet(s, s1, x, lk)
    BY <1>1, <2>4, <2>6, SetSpin, Zenon
  <2>7. SpinSet(s, s1, x, lk) /\ s1 \in ToolState
    BY <2>71 DEF SpinSet
  <2>8. PICK ro : ro = CHOOSE u \in Thr : lk.sLk.heldBy[u] > 0
    OBVIOUS
  <2>9. PICK s2 : s2 = [s1 EXCEPT !.spin[x].wasALock = FALSE]
    OBVIOUS
  <2>10. q = IF lk.sLk.heldBy = NULL THEN Is(lk.wasALock, s1)
             ELSE IF lk.sLk.heldBy[t] = 0 THEN Is(FALSE, DropSpinLock(s2, ro, x))
             ELSE Is(TRUE, DropSpinLock(s1, t, x))
    BY <1>3, <2>2, <2>3, <2>4, <2>8, <2>9 DEF OutsideWrite, AfterWrite
  <2>11. /\ (lk.sLk.heldBy = NULL) <=> (\A u \in Thr : x \notin s.ls[u])
         /\ \A u \in Thr : lk.sLk.heldBy[u] \in {0, 1} /\ (lk.sLk.heldBy[u] = 1 <=> x \in s.ls[u])
    BY <1>1, <1>3, <2>5, NotHeld
  <2>12. \A u \in Thr : x \in s.ls[u] => SpinHeld(s1, x, u) = 1 /\ LockHeld(s1, x, u) = 1
    <3>1. \A u \in Thr : x \in s.ls[u] => LockHeld(s, x, u) = 1
      BY <1>1 DEF Coherent
    <3>2. lk # None
      BY <2>6, SpinFields
    <3> QED BY <3>1, <3>2, <2>7, <2>11 DEF SpinSet, SpinHeld, LockHeld
  <2>13. s1.spin[x] # None /\ lk # None
    BY <2>6, <2>7, SpinFields DEF SpinSet
  <2>14. CASE lk.sLk.heldBy = NULL
    <3>1. q.s = s1 /\ q.isALock = lk.wasALock
      BY <2>10, <2>14 DEF Is
    <3>2. \A u \in Thr : x \notin s.ls[u]
      BY <2>11, <2>14
    <3>3. SameBut(s, s1, x)
      BY <2>7, <1>1, ToolFields DEF SpinSet, SameBut
    <3>4. \A u \in Thr : LockHeld(s, x, u) = 0
      BY <3>2, <1>1 DEF Coherent
    <3>5. \A u \in Thr : LockHeld(s1, x, u) = 0 /\ SpinHeld(s1, x, u) = 0 /\ x \notin s1.ls[u]
      BY <3>2, <3>4, <2>7, <2>11, <2>13 DEF LockHeld, SpinHeld, SpinSet
    <3>6. Coherent(s1, x)
      BY <3>5 DEF Coherent
    <3>7. Invalidated(s.spin[x]) => Invalidated(s1.spin[x])
      BY <2>5, <2>7, <2>13, <3>2, SpinAssumption DEF Invalidated, Noted, SpinSet
    <3>8. s1.sv = s.sv /\ s1.spin[x] = lk
      BY <2>7 DEF SpinSet
    <3>9. lk.wasALock \in BOOLEAN /\ (lk.wasALock => s.spin[x].wasALock)
      BY <2>5, <2>6, SpinFields DEF Noted
    <3> QED BY <3>1, <3>3, <3>5, <3>6, <3>7, <3>8, <3>9, <2>5, <2>7, <2>13, <1>3 DEF Outside, Keeps
  <2>15. CASE lk.sLk.heldBy # NULL /\ lk.sLk.heldBy[t] # 0
    <3>1. PICK r : r = DropSpinLock(s1, t, x)
      OBVIOUS
    <3>2. q.s = r /\ q.isALock = TRUE
      BY <2>10, <2>15, <3>1 DEF Is
    <3>3. x \in s.ls[t]
      BY <2>11, <2>15
    <3>4. Dropped(s1, r, t, x)
      BY <2>7, <2>12, <2>13, <3>1, <3>3, DropLemma, Zenon
    <3>5. /\ Keeps(s, r, x) /\ r.sv = s.sv /\ \A v \in Thr : x \notin r.ls[v]
          /\ r.spin[x] # None /\ Noted(s, r.spin[x], t, x)
      BY <1>3, <2>5, <2>7, <3>3, <3>4, DroppedKeeps, Zenon
    <3> QED BY <3>2, <3>3, <3>5, <1>3 DEF Outside
  <2>16. CASE lk.sLk.heldBy # NULL /\ lk.sLk.heldBy[t] = 0
    <3>1. PICK r : r = DropSpinLock(s2, ro, x)
      OBVIOUS
    <3>2. q.s = r /\ q.isALock = FALSE
      BY <2>10, <2>16, <3>1 DEF Is
    <3>3. ro \in Thr /\ x \in s.ls[ro]
      <4>1. PICK u \in Thr : x \in s.ls[u]
        BY <2>11, <2>16
      <4>2. lk.sLk.heldBy[u] > 0
        BY <4>1, <2>11
      <4>3. ro \in Thr /\ lk.sLk.heldBy[ro] > 0
        BY <4>2, <2>8, Zenon
      <4> QED BY <4>3, <2>11
    <3>4. PICK lk2 : lk2 = [lk EXCEPT !.wasALock = FALSE]
      OBVIOUS
    <3>5. /\ lk2 \in SpinRecord /\ lk2.sLk = lk.sLk
          /\ lk2.lastSpinWriter = lk.lastSpinWriter /\ lk2.sp = lk.sp
          /\ lk2.lastReleaseWriter = lk.lastReleaseWriter
          /\ lk2.wasReleasedBefore = lk.wasReleasedBefore /\ lk2.wasALock = FALSE
      BY <3>4, <2>6 DEF SpinRecord
    <3>6. Noted(s, lk2, t, x) /\ lk2.sLk = s.spin[x].sLk
      BY <3>5, <2>5 DEF Noted
    <3>7. s2 = [s1 EXCEPT !.spin[x] = lk2]
      BY <2>7, <2>9, <3>4 DEF SpinSet
    <3>8. lk2 \in Maybe(SpinRecord) /\ lk2 # None
      BY <3>5, SpinFields DEF Maybe
    <3>9. SpinSet(s1, s2, x, lk2)
      BY <2>7, <3>7, <3>8, SetSpin, Zenon
    <3>10. SpinSet(s, s2, x, lk2) /\ s2 \in ToolState
      BY <1>1, <2>7, <3>9, SpinSetTwice, Zenon DEF SpinSet
    <3>11. s2.spin[x] # None /\ SpinHeld(s2, x, ro) = 1 /\ LockHeld(s2, x, ro) = 1
      <4>1. SpinHeld(s1, x, ro) = 1 /\ LockHeld(s1, x, ro) = 1
        BY <2>12, <3>3
      <4> QED BY <4>1, <3>5, <3>8, <3>9, <2>7, <2>13 DEF SpinSet, SpinHeld, LockHeld
    <3>12. Dropped(s2, r, ro, x)
      BY <3>1, <3>3, <3>10, <3>11, DropLemma, Zenon
    <3>13. /\ Keeps(s, r, x) /\ r.sv = s.sv /\ \A v \in Thr : x \notin r.ls[v]
           /\ r.spin[x] # None /\ Noted(s, r.spin[x], t, x)
      BY <1>3, <3>6, <3>3, <3>10, <3>12, DroppedKeeps, Zenon
    <3> QED BY <3>2, <3>13, <1>3 DEF Outside
  <2> QED BY <2>14, <2>15, <2>16
<1> QED BY <1>2, <1>3

----------------------------------------------------------------------------
(* Writes in spin loops *)

LEMMA LookupLemma ==
  ASSUME NEW s \in ToolState, NEW x \in Addr, NEW lk, lk = lookup_or_create(s, x)
  PROVE  /\ lk \in SpinRecord /\ (Invalidated(lk) <=> Invalidated(s.spin[x]))
         /\ s.spin[x] # None => lk = s.spin[x]
         /\ s.spin[x] = None => lk.lastSpinWriter = None /\ lk.wasALock = FALSE
                                /\ lk.sLk.heldBy = NULL
<1>1. CASE s.spin[x] = None
  BY <1>1, FreshSpin, SpinFields DEF lookup_or_create, Invalidated
<1>2. CASE s.spin[x] # None
  BY <1>2, ToolFields DEF lookup_or_create, Maybe
<1> QED BY <1>1, <1>2

\* A record that is replaced by one with the same holders and the same verdict.
LEMMA SetKeeps ==
  ASSUME NEW s \in ToolInv, NEW x \in Addr, NEW old, old = lookup_or_create(s, x),
         NEW new \in SpinRecord, new.sLk = old.sLk, Invalidated(new) <=> Invalidated(old),
         NEW r, SpinSet(s, r, x, new)
  PROVE  Keeps(s, r, x)
<1>1. s \in ToolState /\ Coherent(s, x)
  BY DEF ToolInv
<1>2. /\ old \in SpinRecord /\ (Invalidated(old) <=> Invalidated(s.spin[x]))
      /\ s.spin[x] # None => old = s.spin[x]
      /\ s.spin[x] = None => old.sLk.heldBy = NULL
  BY <1>1, LookupLemma
<1>3. new # None /\ r.spin[x] = new /\ r.ls = s.ls /\ r.locks = s.locks
  BY SpinFields DEF SpinSet
<1>4. \A u \in Thr : SpinHeld(r, x, u) = SpinHeld(s, x, u)
  BY <1>2, <1>3 DEF SpinHeld, NULL
<1>5. \A u \in Thr : LockHeld(r, x, u) = LockHeld(s, x, u)
  BY <1>3 DEF LockHeld
<1>6. Invalidated(r.spin[x]) <=> Invalidated(s.spin[x])
  BY <1>2, <1>3
<1>7. Coherent(r, x)
  BY <1>1, <1>3, <1>4, <1>5, <1>6 DEF Coherent
<1>8. SameBut(s, r, x)
  BY <1>1, ToolFields DEF SpinSet, SameBut
<1> QED BY <1>6, <1>7, <1>8 DEF Keeps, SpinSet

Inside(s, q, t, x, L) ==
  /\ Keeps(s, q.s, x) /\ q.s.sv = s.sv /\ q.s.ls = s.ls /\ q.isALock \in BOOLEAN
  /\ q.s.spin[x] # None
  /\ q.isALock <=> ~Invalidated(s.spin[x])
  /\ Invalidated(q.s.spin[x]) <=> Invalidated(s.spin[x])
  /\ q.s.spin[x].lastSpinWriter = IF q.isALock THEN t ELSE None
  /\ q.isALock => q.s.spin[x].sp = L
  /\ ~q.isALock => q.s.spin[x].sp = s.spin[x].sp

LEMMA InsideLemma ==
  ASSUME NEW s \in ToolInv, NEW x \in Addr, NEW t \in Thr, NEW L \in Loop,
         NEW q, q = InsideWrite(s, t, x, L)
  PROVE  Inside(s, q, t, x, L)
<1>1. s \in ToolState
  BY DEF ToolInv
<1>2. PICK lk : lk = lookup_or_create(s, x)
  OBVIOUS
<1>3. /\ lk \in SpinRecord /\ (Invalidated(lk) <=> Invalidated(s.spin[x]))
      /\ s.spin[x] # None => lk = s.spin[x]
  BY <1>1, <1>2, LookupLemma
<1>4. t \in Maybe(Thr) /\ None \in Maybe(Thr) /\ L \in Maybe(Loop)
  BY DEF Maybe
<1>5. CASE Invalidated(lk)
  <2>1. PICK new : new = [lk EXCEPT !.lastSpinWriter = None, !.wasALock = FALSE]
    OBVIOUS
  <2>2. /\ new \in SpinRecord /\ new.sLk = lk.sLk /\ new.sp = lk.sp
        /\ new.lastSpinWriter = None /\ new.lastReleaseWriter = lk.lastReleaseWriter
        /\ new.wasReleasedBefore = lk.wasReleasedBefore
    BY <1>3, <1>4, <2>1 DEF SpinRecord
  <2>3. PICK r : r = [s EXCEPT !.spin[x] = new]
    OBVIOUS
  <2>4. new \in Maybe(SpinRecord)
    BY <2>2 DEF Maybe
  <2>5. SpinSet(s, r, x, new)
    BY <1>1, <2>3, <2>4, SetSpin, Zenon
  <2>6. Invalidated(new) <=> Invalidated(lk)
    BY <2>2, <1>3, SpinFields DEF Invalidated
  <2>7. Keeps(s, r, x)
    BY <1>2, <2>2, <2>5, <2>6, SetKeeps, Zenon
  <2>8. q.s = r /\ q.isALock = FALSE
    BY <1>2, <1>5, <2>1, <2>3 DEF InsideWrite, Is
  <2>9. r.sv = s.sv /\ r.ls = s.ls /\ r.spin[x] = new /\ new # None /\ s.spin[x] # None
    BY <1>3, <1>5, <2>2, <2>5, SpinFields DEF SpinSet, Invalidated
  <2> QED BY <1>3, <1>5, <2>2, <2>6, <2>7, <2>8, <2>9 DEF Inside
<1>6. CASE ~Invalidated(lk)
  <2>1. PICK new : new = [lk EXCEPT !.lastSpinWriter = t, !.sp = L, !.wasALock = TRUE]
    OBVIOUS
  <2>2. /\ new \in SpinRecord /\ new.sLk = lk.sLk /\ new.sp = L
        /\ new.lastSpinWriter = t /\ new.lastReleaseWriter = lk.lastReleaseWriter
        /\ new.wasReleasedBefore = lk.wasReleasedBefore
    BY <1>3, <1>4, <2>1 DEF SpinRecord
  <2>3. PICK r : r = [s EXCEPT !.spin[x] = new]
    OBVIOUS
  <2>4. new \in Maybe(SpinRecord)
    BY <2>2 DEF Maybe
  <2>5. SpinSet(s, r, x, new)
    BY <1>1, <2>3, <2>4, SetSpin, Zenon
  <2>6. Invalidated(new) <=> Invalidated(lk)
    BY <2>2, <1>3, SpinFields DEF Invalidated
  <2>7. Keeps(s, r, x)
    BY <1>2, <2>2, <2>5, <2>6, SetKeeps, Zenon
  <2>8. q.s = r /\ q.isALock = TRUE
    BY <1>2, <1>6, <2>1, <2>3 DEF InsideWrite, Is
  <2>9. r.sv = s.sv /\ r.ls = s.ls /\ r.spin[x] = new /\ new # None
    BY <2>2, <2>5, SpinFields DEF SpinSet
  <2> QED BY <1>3, <1>6, <2>2, <2>6, <2>7, <2>8, <2>9 DEF Inside
<1> QED BY <1>5, <1>6

----------------------------------------------------------------------------
(* The shadow value behind a write; the exit of a loop for one record *)

LEMMA KeepsTrans ==
  ASSUME NEW s, NEW r, NEW w, NEW x \in Addr, Keeps(s, r, x), Keeps(r, w, x)
  PROVE  Keeps(s, w, x)
BY DEF Keeps, SameBut

\* The part of msm_write behind HG_(onSpinWrite).
Rewritten(s, q, r, t, x) ==
  /\ r \in ToolState /\ r.spin = q.s.spin /\ r.locks = q.s.locks /\ r.ls = q.s.ls
  /\ r.vid = q.s.vid /\ \A y \in Addr : y # x => r.sv[y] = q.s.sv[y]
  /\ q.isALock => r.sv[x] = s.sv[x]
  /\ ~q.isALock => r.sv[x].st = "SpinVar" /\ r.sv[x].v = s.vid[t]

LEMMA WriteLemma ==
  ASSUME NEW s \in ToolState, NEW x \in Addr, NEW t \in Thr, NEW q, q.s \in ToolState,
         q.isALock \in BOOLEAN, NEW r, r = WriteSpinVar(s, t, x, q)
  PROVE  Rewritten(s, q, r, t, x)
<1>1. PICK w : w = IF q.isALock THEN s.sv[x] ELSE mk_SpinVar(s.vid[t])
  OBVIOUS
<1>2. w \in ShadowValue /\ (~q.isALock => w.st = "SpinVar" /\ w.v = s.vid[t])
  <2>1. CASE q.isALock
    BY <1>1, <2>1, ToolFields
  <2>2. CASE ~q.isALock
    <3>1. w = [st |-> "SpinVar", v |-> s.vid[t]] /\ s.vid[t] \in SUBSET Addr
      BY <1>1, <2>2, ToolFields DEF mk_SpinVar
    <3> QED BY <3>1, <2>2 DEF ShadowValue
  <2> QED BY <2>1, <2>2
<1>3. r = [q.s EXCEPT !.sv[x] = w]
  BY <1>1 DEF WriteSpinVar
<1>4. SvSet(q.s, r, x, w)
  BY <1>2, <1>3, SetSv, Zenon
<1>5. \A y \in Addr : y # x => r.sv[y] = q.s.sv[y]
  BY <1>4, ToolFields DEF SvSet
<1> QED BY <1>1, <1>2, <1>4, <1>5 DEF SvSet, Rewritten

LEMMA RewrittenKeeps ==
  ASSUME NEW s, NEW s0, NEW x \in Addr, NEW t \in Thr, NEW q, NEW r, Keeps(s, q.s, x),
         Rewritten(s0, q, r, t, x)
  PROVE  Keeps(s, r, x)
<1>1. Coherent(r, x)
  BY DEF Keeps, Rewritten, Coherent, SpinHeld, LockHeld
<1>2. SameBut(s, r, x)
  BY DEF Keeps, Rewritten, SameBut
<1> QED BY <1>1, <1>2 DEF Keeps, Rewritten

LEMMA ClassifyLemma ==
  ASSUME NEW s \in ToolInv, NEW x \in Addr, NEW t \in Thr, NEW L \in Maybe(Loop),
         NEW atomic \in BOOLEAN, NEW spinning \in BOOLEAN,
         L = None => ~(atomic /\ spinning), NEW q, q = Classify(s, t, x, L, atomic, spinning)
  PROVE  /\ NotInSpin(s, t, L, atomic, spinning) => Outside(s, q, t, x)
         /\ ~NotInSpin(s, t, L, atomic, spinning) => Inside(s, q, t, x, L)
<1>1. CASE NotInSpin(s, t, L, atomic, spinning)
  <2>1. q = OutsideWrite(s, t, x)
    BY <1>1 DEF Classify
  <2>2. Outside(s, q, t, x)
    BY <2>1, OutsideLemma, Zenon
  <2> QED BY <1>1, <2>2
<1>2. CASE ~NotInSpin(s, t, L, atomic, spinning)
  <2>1. q = InsideWrite(s, t, x, L)
    BY <1>2 DEF Classify
  <2>2. L \in Loop
    BY <1>2 DEF NotInSpin, Maybe
  <2>3. Inside(s, q, t, x, L)
    BY <2>1, <2>2, InsideLemma, Zenon
  <2> QED BY <1>2, <2>3
<1> QED BY <1>1, <1>2

\* The record names t as the writer in this loop.
Pending(s, t, L, x) ==
  /\ s.spin[x] # None /\ ~Invalidated(s.spin[x])
  /\ s.spin[x].lastSpinWriter = t /\ s.spin[x].sp = L

Exited(s, r, t, L, x) ==
  /\ Keeps(s, r, x)
  /\ ~Pending(s, t, L, x) => r = s
  /\ \A u \in Thr : u # t /\ x \in r.ls[u] => x \in s.ls[u]
  /\ s.sv[x].st = "SpinVar" => r.sv[x].st = "SpinVar"
  /\ Pending(s, t, L, x) =>
       /\ r.spin[x] # None /\ r.spin[x].sp = L /\ r.spin[x].lastSpinWriter \in {None, t}
       /\ \/ /\ r.sv = s.sv /\ x \in r.ls[t] /\ r.spin[x].lastSpinWriter = None
             /\ ~Invalidated(r.spin[x])
          \/ \E u \in Thr : u # t /\ x \in s.ls[u]

\* Two records of one address that differ in lastSpinWriter and wasALock only.
Cleared(old, new) ==
  /\ new \in SpinRecord /\ new.sLk = old.sLk /\ new.sp = old.sp /\ new.lastSpinWriter = None
  /\ new.lastReleaseWriter = old.lastReleaseWriter
  /\ new.wasReleasedBefore = old.wasReleasedBefore

LEMMA ClearLemma ==
  ASSUME NEW s \in ToolInv, NEW x \in Addr, s.spin[x] # None,
         NEW new, Cleared(s.spin[x], new), NEW r, r = [s EXCEPT !.spin[x] = new]
  PROVE  Keeps(s, r, x) /\ SpinSet(s, r, x, new) /\ (Invalidated(new) <=> Invalidated(s.spin[x]))
<1>1. s \in ToolState /\ new \in SpinRecord /\ new \in Maybe(SpinRecord)
  BY DEF ToolInv, Cleared, Maybe
<1>2. PICK old : old = lookup_or_create(s, x)
  OBVIOUS
<1>3. old = s.spin[x]
  BY <1>1, <1>2 DEF lookup_or_create
<1>4. SpinSet(s, r, x, new)
  BY <1>1, SetSpin, Zenon
<1>5. (Invalidated(new) <=> Invalidated(old)) /\ new.sLk = old.sLk
  BY <1>1, <1>3, SpinFields DEF Invalidated, Cleared
<1>6. Keeps(s, r, x)
  BY <1>1, <1>2, <1>4, <1>5, SetKeeps, Zenon
<1> QED BY <1>3, <1>4, <1>5, <1>6

\* The lock is taken, in both maps and in the lockset.
LEMMA TakeLemma ==
  ASSUME NEW s \in ToolInv, NEW x \in Addr, NEW t \in Thr, NEW L, Pending(s, t, L, x),
         s.spin[x].sLk.heldBy = NULL, NEW d, Cleared(s.spin[x], d),
         NEW done, done = [s EXCEPT !.spin[x] = d],
         NEW r, r = [w_acquires(done, t, x) EXCEPT
                       !.spin[x].sLk = lockN_acquire_writer(s.spin[x].sLk, t)]
  PROVE  Exited(s, r, t, L, x)
<1>1. s \in ToolState /\ Coherent(s, x) /\ s.spin[x] # None /\ s.spin[x] \in SpinRecord
  BY ToolFields DEF ToolInv, Pending, Maybe
<1>2. SpinSet(s, done, x, d) /\ (Invalidated(d) <=> Invalidated(s.spin[x]))
  BY <1>1, ClearLemma, Zenon
<1>3. \A u \in Thr : x \notin s.ls[u] /\ LockHeld(s, x, u) = 0
  BY <1>1, NotHeld DEF Coherent
<1>4. done \in ToolState /\ \A u \in Thr : LockHeld(done, x, u) = 0
  BY <1>2, <1>3 DEF SpinSet, LockHeld
<1>5. PICK g : g = w_acquires(done, t, x)
  OBVIOUS
<1>6. Acquired(done, g, t, x)
  BY <1>4, <1>5, AcquireLemma, Zenon
<1>7. PICK k \in LockRecord : /\ k = lockN_acquire_writer(s.spin[x].sLk, t)
                              /\ OnlyHeldBy(k.heldBy, t)
  BY <1>1, SpinFields, FirstHolder
<1>8. PICK new : new = [d EXCEPT !.sLk = k]
  OBVIOUS
<1>9. d \in SpinRecord
  BY DEF Cleared
<1>10. SameButHeld(d, new) /\ new.sLk = k
  BY <1>8, <1>9, SetHeld, Zenon
<1>11. g \in ToolState /\ g.spin[x] = d
  BY <1>2, <1>6 DEF Acquired, SpinSet
<1>12. r = [g EXCEPT !.spin[x] = new]
  BY <1>5, <1>7, <1>8, <1>11
<1>13. new \in Maybe(SpinRecord) /\ new # None
  BY <1>10, SpinFields DEF SameButHeld, Maybe
<1>14. SpinSet(g, r, x, new)
  BY <1>11, <1>12, <1>13, SetSpin, Zenon
<1>15. /\ r.spin[x] = new /\ r.sv = s.sv /\ r.vid = s.vid /\ r.ls = g.ls /\ r.locks = g.locks
       /\ g.spin = done.spin /\ done.ls = s.ls /\ done.locks = s.locks /\ r \in ToolState
  BY <1>2, <1>6, <1>14 DEF SpinSet, Acquired
<1>16. x \in r.ls[t] /\ \A u \in Thr : u # t => x \notin r.ls[u]
  BY <1>3, <1>6, <1>15 DEF Acquired, AddedTo
<1>17. SameBut(s, r, x)
  <2>1. ASSUME NEW y \in Addr \ {x}
        PROVE  r.spin[y] = s.spin[y] /\ r.locks[y] = s.locks[y] /\ r.sv[y] = s.sv[y]
    <3>1. r.spin[y] = g.spin[y] /\ done.spin[y] = s.spin[y]
      BY <1>1, <1>2, <1>11, <1>14, <2>1, ToolFields DEF SpinSet
    <3>2. g.locks[y] = done.locks[y]
      BY <1>6, <2>1 DEF Acquired
    <3> QED BY <3>1, <3>2, <1>15
  <2>2. ASSUME NEW y \in Addr \ {x}, NEW u \in Thr PROVE y \in r.ls[u] <=> y \in s.ls[u]
    BY <1>6, <1>15, <2>2 DEF Acquired, AddedTo
  <2> QED BY <2>1, <2>2, <1>15 DEF SameBut
<1>18. OnlyHeldBy(r.spin[x].sLk.heldBy, t) /\ r.spin[x] # None
  BY <1>7, <1>10, <1>13, <1>15
<1>19. OnlyHeldBy(r.locks[x].heldBy, t) /\ r.locks[x] # None
  BY <1>6, <1>15, RecordAssumption DEF Acquired
<1>20. \A u \in Thr : /\ SpinHeld(r, x, u) \in {0, 1} /\ LockHeld(r, x, u) = SpinHeld(r, x, u)
                      /\ (SpinHeld(r, x, u) = 1) <=> (u = t)
  <2>1. \A u \in Thr : /\ SpinHeld(r, x, u) = r.spin[x].sLk.heldBy[u]
                       /\ LockHeld(r, x, u) = r.locks[x].heldBy[u]
    BY <1>18, <1>19 DEF SpinHeld, LockHeld
  <2>2. SpinHeld(r, x, t) = 1 /\ LockHeld(r, x, t) = 1
        /\ \A u \in Thr : u # t => SpinHeld(r, x, u) = 0 /\ LockHeld(r, x, u) = 0
    BY <2>1, <1>18, <1>19 DEF OnlyHeldBy
  <2>3. ASSUME NEW u \in Thr
        PROVE  /\ SpinHeld(r, x, u) \in {0, 1} /\ LockHeld(r, x, u) = SpinHeld(r, x, u)
               /\ (SpinHeld(r, x, u) = 1) <=> (u = t)
    <3>1. CASE u = t
      BY <2>2, <3>1
    <3>2. CASE u # t
      BY <2>2, <3>2
    <3> QED BY <3>1, <3>2
  <2> QED BY <2>3
<1>21. ~Invalidated(r.spin[x])
  BY <1>2, <1>9, <1>10, <1>13, <1>15, SpinFields DEF Invalidated, SameButHeld, Pending
<1>22. Coherent(r, x)
  BY <1>16, <1>20, <1>21 DEF Coherent
<1>23. r.spin[x].lastSpinWriter = None /\ r.spin[x].sp = L
  BY <1>10, <1>15 DEF SameButHeld, Cleared, Pending
<1> QED BY <1>15, <1>16, <1>17, <1>18, <1>21, <1>22, <1>23 DEF Exited, Keeps, Pending

LEMMA ExitOneLemma ==
  ASSUME NEW s \in ToolInv, NEW x \in Addr, NEW t \in Thr, NEW L \in Loop,
         NEW spinning \in BOOLEAN, NEW r, r = ExitOne(s, t, L, spinning, x)
  PROVE  Exited(s, r, t, L, x)
<1>1. s \in ToolState /\ Coherent(s, x)
  BY DEF ToolInv
<1>2. CASE ~Pending(s, t, L, x)
  <2>1. r = s
    BY <1>2 DEF ExitOne, Pending
  <2>2. Keeps(s, s, x)
    BY <1>1 DEF Keeps, SameBut
  <2> QED BY <1>2, <2>1, <2>2 DEF Exited
<1>3. CASE Pending(s, t, L, x)
  <2>1. s.spin[x] # None /\ s.spin[x] \in SpinRecord /\ None \in Maybe(Thr)
    BY <1>1, <1>3, ToolFields DEF Pending, Maybe
  <2>2. PICK d : d = [s.spin[x] EXCEPT !.lastSpinWriter = None]
    OBVIOUS
  <2>3. Cleared(s.spin[x], d)
    BY <2>1, <2>2 DEF Cleared, SpinRecord
  <2>4. PICK done : done = [s EXCEPT !.spin[x] = d]
    OBVIOUS
  <2>5. Keeps(s, done, x) /\ SpinSet(s, done, x, d) /\ (Invalidated(d) <=> Invalidated(s.spin[x]))
    BY <2>1, <2>3, <2>4, ClearLemma, Zenon
  <2>6. done = [s EXCEPT !.spin[x].lastSpinWriter = None]
    BY <2>2, <2>4
  <2>7. PICK n : n = [d EXCEPT !.wasALock = FALSE]
    OBVIOUS
  <2>8. PICK not : not = [done EXCEPT !.spin[x].wasALock = FALSE]
    OBVIOUS
  <2>9. r = IF s.spin[x].sLk.heldBy = NULL
              THEN [w_acquires(done, t, x) EXCEPT
                      !.spin[x].sLk = lockN_acquire_writer(s.spin[x].sLk, t)]
            ELSE IF s.spin[x].sLk.heldBy[t] > 0 THEN done
            ELSE plain_write(not, t, x, L, spinning)
    <3>1. ~(s.spin[x] = None \/ Invalidated(s.spin[x]))
          /\ ~(s.spin[x].lastSpinWriter # t \/ s.spin[x].sp # L)
      BY <1>3 DEF Pending
    <3>2. not = [[s EXCEPT !.spin[x].lastSpinWriter = None] EXCEPT !.spin[x].wasALock = FALSE]
      BY <2>6, <2>8
    <3>3. r = IF s.spin[x].sLk.heldBy = NULL
                THEN [w_acquires([s EXCEPT !.spin[x].lastSpinWriter = None], t, x) EXCEPT
                        !.spin[x].sLk = lockN_acquire_writer(s.spin[x].sLk, t)]
              ELSE IF s.spin[x].sLk.heldBy[t] > 0 THEN [s EXCEPT !.spin[x].lastSpinWriter = None]
              ELSE LET n1 == [[s EXCEPT !.spin[x].lastSpinWriter = None]
                                EXCEPT !.spin[x].wasALock = FALSE]
                   IN  plain_write(n1, t, x, L, spinning)
      BY <3>1, Zenon DEF ExitOne
    <3> QED BY <2>6, <3>2, <3>3
  <2>10. /\ (s.spin[x].sLk.heldBy = NULL) <=> (\A u \in Thr : x \notin s.ls[u])
         /\ \A u \in Thr : s.spin[x].sLk.heldBy[u] \in {0, 1}
                           /\ (s.spin[x].sLk.heldBy[u] = 1 <=> x \in s.ls[u])
    BY <1>1, <2>1, NotHeld
  <2>11. CASE s.spin[x].sLk.heldBy = NULL
    <3>1. r = [w_acquires(done, t, x) EXCEPT
                 !.spin[x].sLk = lockN_acquire_writer(s.spin[x].sLk, t)]
      BY <2>9, <2>11, Zenon
    <3> QED BY <1>3, <2>3, <2>4, <2>11, <3>1, TakeLemma, Zenon
  <2>12. CASE s.spin[x].sLk.heldBy # NULL /\ s.spin[x].sLk.heldBy[t] > 0
    <3>1. r = done
      BY <2>9, <2>12
    <3>2. done.sv = s.sv /\ done.ls = s.ls /\ done.spin[x] = d /\ d # None
      BY <2>3, <2>5, SpinFields DEF SpinSet, Cleared
    <3>3. x \in s.ls[t]
      BY <2>10, <2>12
    <3>4. d.lastSpinWriter = None /\ d.sp = L /\ ~Invalidated(d)
      BY <1>3, <2>3, <2>5 DEF Cleared, Pending
    <3> QED BY <1>3, <2>5, <3>1, <3>2, <3>3, <3>4 DEF Exited
  <2>13. CASE s.spin[x].sLk.heldBy # NULL /\ ~(s.spin[x].sLk.heldBy[t] > 0)
    <3>1. PICK u \in Thr : u # t /\ x \in s.ls[u]
      BY <2>10, <2>13
    <3>2. Cleared(s.spin[x], n)
      BY <2>3, <2>7 DEF Cleared, SpinRecord
    <3>3. not = [done EXCEPT !.spin[x] = n] /\ done.spin[x] = d /\ d # None
      BY <2>3, <2>5, <2>7, <2>8, SpinFields DEF SpinSet, Cleared
    <3>4. Cleared(d, n)
      BY <2>3, <3>2 DEF Cleared
    <3>5. done \in ToolInv
      BY <2>5, KeepsInv
    <3>6. Keeps(done, not, x) /\ SpinSet(done, not, x, n)
      BY <3>3, <3>4, <3>5, ClearLemma, Zenon
    <3>7. not \in ToolInv /\ Keeps(s, not, x)
      BY <2>5, <3>5, <3>6, KeepsInv, KeepsTrans
    <3>8. PICK q : q = Classify(not, t, x, L, FALSE, spinning)
      OBVIOUS
    <3>9. L \in Maybe(Loop) /\ L # None
      BY SpinAssumption DEF Maybe
    <3>10. /\ NotInSpin(not, t, L, FALSE, spinning) => Outside(not, q, t, x)
           /\ ~NotInSpin(not, t, L, FALSE, spinning) => Inside(not, q, t, x, L)
      BY <3>7, <3>8, <3>9, ClassifyLemma, Zenon
    <3>11. not.spin[x] # None /\ not.spin[x].sp = L /\ not \in ToolState
      BY <1>3, <3>2, <3>6, SpinFields DEF SpinSet, Cleared, Pending
    <3>12. Keeps(not, q.s, x) /\ q.isALock \in BOOLEAN /\ q.s.spin[x] # None /\ q.s.spin[x].sp = L
      BY <3>10, <3>11 DEF Outside, Inside, Noted
    <3>19. not.spin[x].lastSpinWriter = None /\ not.ls = s.ls /\ not.sv = s.sv
      BY <2>5, <3>2, <3>6 DEF SpinSet, Cleared
    <3>20. /\ q.s.spin[x].lastSpinWriter \in {None, t} /\ q.s.sv = s.sv
           /\ \A v \in Thr : x \in q.s.ls[v] => x \in s.ls[v]
      BY <3>10, <3>11, <3>19 DEF Outside, Inside, Noted
    <3>21. r = plain_write(not, t, x, L, spinning)
      BY <2>9, <2>13
    <3>22. CASE not.sv[x].st = "SpinVar"
      <4>1. r = WriteSpinVar(not, t, x, q)
        BY <3>8, <3>21, <3>22 DEF plain_write
      <4>2. q.s \in ToolState
        BY <3>12 DEF Keeps
      <4>3. Rewritten(not, q, r, t, x)
        BY <3>11, <3>12, <4>1, <4>2, WriteLemma, Zenon
      <4>4. Keeps(s, q.s, x)
        BY <3>7, <3>12, KeepsTrans
      <4>5. Keeps(s, r, x)
        BY <4>3, <4>4, RewrittenKeeps
      <4>6. r.spin[x] # None /\ r.spin[x].sp = L /\ r.spin[x].lastSpinWriter \in {None, t}
        BY <3>12, <4>3, <3>20 DEF Rewritten
      <4>7. \A v \in Thr : x \in r.ls[v] => x \in s.ls[v]
        BY <4>3, <3>20 DEF Rewritten
      <4>8. s.sv[x].st = "SpinVar" => r.sv[x].st = "SpinVar"
        BY <3>12, <4>3, <3>19 DEF Rewritten
      <4> QED BY <1>3, <3>1, <4>5, <4>6, <4>7, <4>8 DEF Exited
    <3>23. CASE not.sv[x].st # "SpinVar"
      <4>1. PICK w : w = mk_ExclW(not.vid[t])
        OBVIOUS
      <4>2. r = [not EXCEPT !.sv[x] = w]
        BY <3>21, <3>23, <4>1 DEF plain_write
      <4>3. w \in ShadowValue
        <5>1. not.vid[t] \in SUBSET Addr
          BY <3>11, ToolFields
        <5> QED BY <4>1, <5>1 DEF mk_ExclW, ShadowValue
      <4>4. SvSet(not, r, x, w)
        BY <3>11, <4>2, <4>3, SetSv, Zenon
      <4>5. /\ r \in ToolState /\ r.spin = not.spin /\ r.locks = not.locks /\ r.ls = not.ls
            /\ r.vid = not.vid /\ \A y \in Addr : y # x => r.sv[y] = not.sv[y]
        BY <3>11, <4>4, ToolFields DEF SvSet
      <4>6. Coherent(r, x)
        BY <3>7, <4>5 DEF Keeps, Coherent, SpinHeld, LockHeld
      <4>7. Keeps(s, r, x)
        BY <3>7, <4>5, <4>6 DEF Keeps, SameBut
      <4>8. /\ r.spin[x] # None /\ r.spin[x].sp = L /\ r.spin[x].lastSpinWriter \in {None, t}
            /\ \A v \in Thr : x \in r.ls[v] => x \in s.ls[v]
        BY <3>11, <3>19, <4>5
      <4>9. s.sv[x].st # "SpinVar"
        BY <3>19, <3>23
      <4> QED BY <1>3, <3>1, <4>7, <4>8, <4>9 DEF Exited
    <3> QED BY <3>22, <3>23
  <2> QED BY <2>11, <2>12, <2>13
<1> QED BY <1>2, <1>3

\* Two states agree on one address.
SameAt(s, r, x) ==
  /\ r.spin[x] = s.spin[x] /\ r.locks[x] = s.locks[x] /\ r.sv[x] = s.sv[x]
  /\ \A u \in Thr : x \in r.ls[u] <=> x \in s.ls[u]

\* What became of a pending write: the lock is taken, or was another thread's.
Taken(s, r, t, x) ==
  /\ r.sv[x] = s.sv[x] /\ x \in r.ls[t] /\ r.spin[x].lastSpinWriter = None
  /\ ~Invalidated(r.spin[x])
Foreign(s, t, x) == \E u \in Thr : u # t /\ x \in s.ls[u]
NoOther(s, r, t, x) == \A u \in Thr : u # t /\ x \in r.ls[u] => x \in s.ls[u]

ExitedAt(s, r, t, L, x) ==
  /\ Invalidated(s.spin[x]) => Invalidated(r.spin[x])
  /\ ~Pending(s, t, L, x) => SameAt(s, r, x)
  /\ NoOther(s, r, t, x)
  /\ s.sv[x].st = "SpinVar" => r.sv[x].st = "SpinVar"
  /\ Pending(s, t, L, x) =>
       /\ r.spin[x] # None /\ r.spin[x].sp = L /\ r.spin[x].lastSpinWriter \in {None, t}
       /\ Taken(s, r, t, x) \/ Foreign(s, t, x)

LEMMA SameExit ==
  ASSUME NEW s, NEW s1, NEW r, NEW t \in Thr, NEW L, NEW x \in Addr,
         SameAt(s, s1, x), Exited(s1, r, t, L, x)
  PROVE  ExitedAt(s, r, t, L, x)
<1>1. Pending(s1, t, L, x) <=> Pending(s, t, L, x)
  BY DEF SameAt, Pending
<1>2. Invalidated(s.spin[x]) => Invalidated(r.spin[x])
  BY DEF SameAt, Exited, Keeps
<1>3. NoOther(s, r, t, x) /\ (s.sv[x].st = "SpinVar" => r.sv[x].st = "SpinVar")
  BY DEF SameAt, Exited, NoOther
<1>4. CASE ~Pending(s, t, L, x)
  BY <1>1, <1>2, <1>3, <1>4 DEF SameAt, Exited, ExitedAt
<1>5. CASE Pending(s, t, L, x)
  <2>1. Taken(s, r, t, x) \/ Foreign(s, t, x)
    BY <1>1, <1>5 DEF SameAt, Exited, Taken, Foreign
  <2>2. r.spin[x] # None /\ r.spin[x].sp = L /\ r.spin[x].lastSpinWriter \in {None, t}
    BY <1>1, <1>5 DEF Exited
  <2> QED BY <1>2, <1>3, <1>5, <2>1, <2>2 DEF ExitedAt
<1> QED BY <1>4, <1>5

LEMMA SameAtTrans ==
  ASSUME NEW s, NEW r, NEW w, NEW x, SameAt(s, r, x), SameAt(r, w, x)
  PROVE  SameAt(s, w, x)
BY DEF SameAt

LEMMA SameAtExited ==
  ASSUME NEW s, NEW r, NEW w, NEW t \in Thr, NEW L, NEW x,
         ExitedAt(s, r, t, L, x), SameAt(r, w, x)
  PROVE  ExitedAt(s, w, t, L, x)
<1>1. /\ w.spin[x] = r.spin[x] /\ w.sv[x] = r.sv[x]
      /\ \A u \in Thr : x \in w.ls[u] <=> x \in r.ls[u]
  BY DEF SameAt
<1>2. /\ Invalidated(s.spin[x]) => Invalidated(w.spin[x])
      /\ NoOther(s, w, t, x) /\ (s.sv[x].st = "SpinVar" => w.sv[x].st = "SpinVar")
  BY <1>1 DEF ExitedAt, NoOther
<1>3. CASE Pending(s, t, L, x)
  <2>1. /\ w.spin[x] # None /\ w.spin[x].sp = L /\ w.spin[x].lastSpinWriter \in {None, t}
        /\ Taken(s, r, t, x) \/ Foreign(s, t, x)
    BY <1>1, <1>3 DEF ExitedAt
  <2>2. Taken(s, r, t, x) => Taken(s, w, t, x)
    BY <1>1 DEF Taken
  <2> QED BY <1>2, <1>3, <2>1, <2>2 DEF ExitedAt
<1>4. CASE ~Pending(s, t, L, x)
  <2>1. SameAt(s, w, x)
    BY <1>4, SameAtTrans DEF ExitedAt
  <2> QED BY <1>2, <1>4, <2>1 DEF ExitedAt
<1> QED BY <1>3, <1>4

\* What the exit of a loop does to every record.
ExitedAll(s, r, t, L) ==
  /\ r \in ToolInv /\ r.vid = s.vid /\ \A x \in Addr : ExitedAt(s, r, t, L, x)

LEMMA ExitLoopLemma ==
  ASSUME NEW s \in ToolInv, NEW t \in Thr, NEW L \in Loop, NEW spinning \in BOOLEAN,
         NEW r, r = onExitSpinLoop(s, t, L, spinning)
  PROVE  ExitedAll(s, r, t, L)
<1> DEFINE One(w, k) == ExitOne(w, t, L, spinning, k)
<1>0. NAddr \in Nat /\ Addr = 1 .. NAddr
  BY SpinAssumption DEF Addr
<1>1. \A w \in ToolInv, k \in Addr : Exited(w, One(w, k), t, L, k)
  BY ExitOneLemma
<1>2. \A w \in ToolInv, k \in Addr : One(w, k) \in ToolInv
  BY <1>1, KeepsInv DEF Exited
<1> HIDE DEF One
<1>3. PICK F : F = [p \in ToolInv \X (1 .. NAddr) |-> One(p[1], p[2])]
  OBVIOUS
<1>4. F \in [ToolInv \X (1 .. NAddr) -> ToolInv]
      /\ \A w \in ToolInv, k \in 1 .. NAddr : F[<<w, k>>] = One(w, k)
  BY <1>0, <1>2, <1>3
<1>5. PICK g : IsChain(g, F, NAddr, ToolInv, s)
  BY <1>0, <1>4, ChainOf, Zenon
<1>6. ASSUME NEW k \in 1 .. NAddr PROVE g[k] = One(g[k - 1], k)
  <2>1. k - 1 \in 0 .. NAddr
    BY <1>0, <1>6
  <2>2. g[k - 1] \in ToolInv /\ g[k] = F[<<g[k - 1], k>>]
    BY <1>5, <2>1 DEF IsChain
  <2> QED BY <1>4, <2>2
<1>7. g = [n \in 0 .. NAddr |-> IF n = 0 THEN s ELSE One(g[n - 1], n)]
  <2>1. ASSUME NEW n \in 0 .. NAddr PROVE g[n] = IF n = 0 THEN s ELSE One(g[n - 1], n)
    <3>1. CASE n = 0
      BY <1>5, <3>1 DEF IsChain
    <3>2. CASE n # 0
      <4>1. n \in 1 .. NAddr
        BY <1>0, <3>2
      <4> QED BY <1>6, <3>2, <4>1
    <3> QED BY <3>1, <3>2
  <2> QED BY <1>5, <2>1 DEF IsChain
<1>8. PICK f : /\ f = [n \in 0 .. NAddr |-> IF n = 0 THEN s ELSE One(f[n - 1], n)]
               /\ r = f[NAddr]
  BY <1>7, Zenon DEF onExitSpinLoop, One
<1>9. f[0] = s /\ \A k \in 1 .. NAddr : f[k] = One(f[k - 1], k)
  BY <1>0, <1>8
<1> DEFINE P == {k \in 0 .. NAddr :
                   /\ f[k] \in ToolInv /\ f[k].vid = s.vid
                   /\ \A x \in Addr : IF x <= k THEN ExitedAt(s, f[k], t, L, x)
                                                ELSE SameAt(s, f[k], x)}
<1>10. 0 \in P
  BY <1>0, <1>9 DEF SameAt
<1>11. ASSUME NEW k \in 1 .. NAddr, k - 1 \in P PROVE k \in P
  <2>1. f[k - 1] \in ToolInv /\ f[k - 1].vid = s.vid /\ k \in Addr
    BY <1>0, <1>11
  <2>2. Exited(f[k - 1], f[k], t, L, k) /\ f[k] \in ToolInv
    BY <1>1, <1>2, <1>9, <2>1
  <2>3. f[k].vid = s.vid
    BY <2>1, <2>2 DEF Exited, Keeps, SameBut
  <2>4. ASSUME NEW x \in Addr, x # k PROVE SameAt(f[k - 1], f[k], x)
    BY <2>2, <2>4 DEF Exited, Keeps, SameBut, SameAt
  <2>5. ASSUME NEW x \in Addr
        PROVE  IF x <= k THEN ExitedAt(s, f[k], t, L, x) ELSE SameAt(s, f[k], x)
    <3>0. IF x <= k - 1 THEN ExitedAt(s, f[k - 1], t, L, x) ELSE SameAt(s, f[k - 1], x)
      BY <1>11
    <3>1. CASE x = k
      <4>1. SameAt(s, f[k - 1], k)
        BY <3>0, <3>1
      <4>3. ExitedAt(s, f[k], t, L, k)
        BY <2>1, <2>2, <4>1, SameExit
      <4> QED BY <3>1, <4>3
    <3>2. CASE x # k
      <4>1. x <= k <=> x <= k - 1
        BY <1>0, <3>2
      <4> QED BY <3>0, <3>2, <4>1, <2>4, SameAtTrans, SameAtExited
    <3> QED BY <3>1, <3>2
  <2> QED BY <2>2, <2>3, <2>5
<1>12. NAddr \in P
  <2> HIDE DEF P
  <2>1. \A k \in 0 .. NAddr : k \in P
    BY <1>0, <1>10, <1>11, Induct
  <2> QED BY <1>0, <2>1
<1>13. \A x \in Addr : x <= NAddr
  BY <1>0
<1> QED BY <1>8, <1>12, <1>13 DEF ExitedAll

----------------------------------------------------------------------------
(* The exit of a thread *)

\* What the exit of t does to the record of x.
Left(s, r, t, x) ==
  /\ r.sv[x] = s.sv[x] /\ (x \notin s.ls[t] => SameAt(s, r, x))
  /\ x \notin r.ls[t] /\ \A u \in Thr : u # t => (x \in r.ls[u] <=> x \in s.ls[u])
  /\ Invalidated(s.spin[x]) => Invalidated(r.spin[x])
  /\ s.spin[x] = None => r.spin[x] = None
  /\ s.spin[x] # None => r.spin[x] # None /\ SameButHeld(s.spin[x], r.spin[x])

LEMMA HeldIsRecorded ==
  ASSUME NEW s \in ToolInv, NEW x \in Addr, NEW t \in Thr
  PROVE  (s.spin[x] # None /\ s.spin[x].sLk.heldBy[t] > 0) <=> x \in s.ls[t]
<1>1. s \in ToolState /\ Coherent(s, x)
  BY DEF ToolInv
<1>2. CASE s.spin[x] = None
  BY <1>1, <1>2 DEF Coherent, SpinHeld
<1>3. CASE s.spin[x] # None
  BY <1>1, <1>3, NotHeld
<1> QED BY <1>2, <1>3

LEMMA DropHeldLemma ==
  ASSUME NEW s \in ToolInv, NEW x \in Addr, NEW t \in Thr, NEW r, r = DropHeld(s, t, x)
  PROVE  Keeps(s, r, x) /\ Left(s, r, t, x)
<1>1. s \in ToolState /\ Coherent(s, x)
  BY DEF ToolInv
<1>2. (s.spin[x] # None /\ s.spin[x].sLk.heldBy[t] > 0) <=> x \in s.ls[t]
  BY HeldIsRecorded
<1>3. s.spin[x] # None => s.spin[x] \in SpinRecord
  BY <1>1, ToolFields DEF Maybe
<1>4. CASE x \notin s.ls[t]
  <2>1. r = s
    BY <1>2, <1>4 DEF DropHeld
  <2> QED BY <1>1, <1>3, <1>4, <2>1 DEF Keeps, SameBut, Left, SameAt, SameButHeld
<1>5. CASE x \in s.ls[t]
  <2>1. r = DropSpinLock(s, t, x) /\ s.spin[x] # None
    BY <1>2, <1>5 DEF DropHeld
  <2>2. SpinHeld(s, x, t) = 1 /\ LockHeld(s, x, t) = 1 /\ \A u \in Thr : x \in s.ls[u] => u = t
    BY <1>1, <1>5 DEF Coherent
  <2>3. Dropped(s, r, t, x)
    BY <1>1, <2>1, <2>2, DropLemma, Zenon
  <2>4. s.locks[x] # None
    BY <2>2 DEF LockHeld
  <2>5. r.spin[x] \in SpinRecord /\ r.spin[x] # None /\ r.locks[x] # None
    BY <2>3, SpinFields, RecordAssumption DEF Dropped, SameButHeld
  <2>6. \A u \in Thr : x \notin r.ls[u]
    BY <2>2, <2>3 DEF Dropped, TakenFrom
  <2>7. \A u \in Thr : SpinHeld(r, x, u) = 0 /\ LockHeld(r, x, u) = 0
    <3>1. /\ r.spin[x].sLk.heldBy[t] = 0 /\ r.locks[x].heldBy[t] = 0
          /\ \A v \in Thr : v # t => /\ r.spin[x].sLk.heldBy[v] = s.spin[x].sLk.heldBy[v]
                                     /\ r.locks[x].heldBy[v] = s.locks[x].heldBy[v]
      BY <2>3 DEF Dropped, HeldWithout
    <3>2. \A v \in Thr : v # t => SpinHeld(s, x, v) = 0 /\ LockHeld(s, x, v) = 0
      BY <1>1, <2>2 DEF Coherent
    <3>3. \A v \in Thr : SpinHeld(s, x, v) = s.spin[x].sLk.heldBy[v]
                         /\ LockHeld(s, x, v) = s.locks[x].heldBy[v]
      BY <2>1, <2>4 DEF SpinHeld, LockHeld
    <3>4. \A v \in Thr : r.spin[x].sLk.heldBy[v] = 0 /\ r.locks[x].heldBy[v] = 0
      BY <3>1, <3>2, <3>3
    <3> QED BY <3>4, <2>5 DEF SpinHeld, LockHeld
  <2>8. Coherent(r, x)
    BY <2>6, <2>7 DEF Coherent
  <2>9. SameBut(s, r, x)
    <3>1. r.vid = s.vid /\ r.sv = s.sv
      BY <2>3 DEF Dropped
    <3>2. ASSUME NEW y \in Addr \ {x} PROVE r.spin[y] = s.spin[y] /\ r.locks[y] = s.locks[y]
      BY <2>3, <3>2 DEF Dropped
    <3>3. ASSUME NEW y \in Addr \ {x}, NEW v \in Thr PROVE y \in r.ls[v] <=> y \in s.ls[v]
      BY <2>3, <3>3 DEF Dropped, TakenFrom
    <3> QED BY <3>1, <3>2, <3>3 DEF SameBut
  <2>10. Invalidated(s.spin[x]) => Invalidated(r.spin[x])
    BY <2>1, <2>3, <2>5 DEF Invalidated, Dropped, SameButHeld
  <2>11. Left(s, r, t, x)
    <3>1. \A u \in Thr : u # t => (x \in r.ls[u] <=> x \in s.ls[u])
      BY <2>2, <2>6
    <3>2. r.sv = s.sv /\ SameButHeld(s.spin[x], r.spin[x])
      BY <2>3 DEF Dropped
    <3> QED BY <3>1, <3>2, <1>5, <2>1, <2>5, <2>6, <2>10 DEF Left
  <2>12. r \in ToolState
    BY <2>3 DEF Dropped
  <2> QED BY <2>8, <2>9, <2>10, <2>11, <2>12 DEF Keeps
<1> QED BY <1>4, <1>5

LEMMA LeftTrans ==
  ASSUME NEW s, NEW r, NEW w, NEW t \in Thr, NEW x,
         \/ SameAt(s, r, x) /\ Left(r, w, t, x)
         \/ Left(s, r, t, x) /\ SameAt(r, w, x)
  PROVE  Left(s, w, t, x)
<1>1. CASE SameAt(s, r, x) /\ Left(r, w, t, x)
  <2>1. x \notin s.ls[t] => SameAt(s, w, x)
    BY <1>1 DEF SameAt, Left
  <2> QED BY <1>1, <2>1 DEF SameAt, Left
<1>2. CASE Left(s, r, t, x) /\ SameAt(r, w, x)
  <2>1. x \notin s.ls[t] => SameAt(s, w, x)
    BY <1>2 DEF SameAt, Left
  <2>2. x \notin w.ls[t] /\ \A u \in Thr : u # t => (x \in w.ls[u] <=> x \in s.ls[u])
    BY <1>2 DEF SameAt, Left
  <2>3. /\ w.sv[x] = s.sv[x]
        /\ Invalidated(s.spin[x]) => Invalidated(w.spin[x])
        /\ s.spin[x] = None => w.spin[x] = None
        /\ s.spin[x] # None => w.spin[x] # None /\ SameButHeld(s.spin[x], w.spin[x])
    BY <1>2 DEF SameAt, Left
  <2> QED BY <2>1, <2>2, <2>3 DEF Left
<1> QED BY <1>1, <1>2

LeftAll(s, r, t) == r \in ToolInv /\ r.vid = s.vid /\ \A x \in Addr : Left(s, r, t, x)

LEMMA ExitThreadLemma ==
  ASSUME NEW s \in ToolInv, NEW t \in Thr, NEW r, r = mutex_detect_exitThread(s, t)
  PROVE  LeftAll(s, r, t)
<1> DEFINE One(w, k) == DropHeld(w, t, k)
<1>0. NAddr \in Nat /\ Addr = 1 .. NAddr
  BY SpinAssumption DEF Addr
<1>1. \A w \in ToolInv, k \in Addr : Keeps(w, One(w, k), k) /\ Left(w, One(w, k), t, k)
  BY DropHeldLemma
<1>2. \A w \in ToolInv, k \in Addr : One(w, k) \in ToolInv
  BY <1>1, KeepsInv
<1> HIDE DEF One
<1>3. PICK F : F = [p \in ToolInv \X (1 .. NAddr) |-> One(p[1], p[2])]
  OBVIOUS
<1>4. F \in [ToolInv \X (1 .. NAddr) -> ToolInv]
      /\ \A w \in ToolInv, k \in 1 .. NAddr : F[<<w, k>>] = One(w, k)
  BY <1>0, <1>2, <1>3
<1>5. PICK g : IsChain(g, F, NAddr, ToolInv, s)
  BY <1>0, <1>4, ChainOf, Zenon
<1>6. ASSUME NEW k \in 1 .. NAddr PROVE g[k] = One(g[k - 1], k)
  <2>1. k - 1 \in 0 .. NAddr
    BY <1>0, <1>6
  <2>2. g[k - 1] \in ToolInv /\ g[k] = F[<<g[k - 1], k>>]
    BY <1>5, <2>1 DEF IsChain
  <2> QED BY <1>4, <2>2
<1>7. g = [n \in 0 .. NAddr |-> IF n = 0 THEN s ELSE One(g[n - 1], n)]
  <2>1. ASSUME NEW n \in 0 .. NAddr PROVE g[n] = IF n = 0 THEN s ELSE One(g[n - 1], n)
    <3>1. CASE n = 0
      BY <1>5, <3>1 DEF IsChain
    <3>2. CASE n # 0
      <4>1. n \in 1 .. NAddr
        BY <1>0, <3>2
      <4> QED BY <1>6, <3>2, <4>1
    <3> QED BY <3>1, <3>2
  <2> QED BY <1>5, <2>1 DEF IsChain
<1>8. PICK f : /\ f = [n \in 0 .. NAddr |-> IF n = 0 THEN s ELSE One(f[n - 1], n)]
               /\ r = f[NAddr]
  BY <1>7, Zenon DEF mutex_detect_exitThread, One
<1>9. f[0] = s /\ \A k \in 1 .. NAddr : f[k] = One(f[k - 1], k)
  BY <1>0, <1>8
<1> DEFINE P == {k \in 0 .. NAddr :
                   /\ f[k] \in ToolInv /\ f[k].vid = s.vid
                   /\ \A x \in Addr : IF x <= k THEN Left(s, f[k], t, x)
                                                ELSE SameAt(s, f[k], x)}
<1>10. 0 \in P
  BY <1>0, <1>9 DEF SameAt
<1>11. ASSUME NEW k \in 1 .. NAddr, k - 1 \in P PROVE k \in P
  <2>1. f[k - 1] \in ToolInv /\ f[k - 1].vid = s.vid /\ k \in Addr
    BY <1>0, <1>11
  <2>2. Keeps(f[k - 1], f[k], k) /\ Left(f[k - 1], f[k], t, k) /\ f[k] \in ToolInv
    BY <1>1, <1>2, <1>9, <2>1
  <2>3. f[k].vid = s.vid
    BY <2>1, <2>2 DEF Keeps, SameBut
  <2>4. ASSUME NEW x \in Addr, x # k PROVE SameAt(f[k - 1], f[k], x)
    BY <2>2, <2>4 DEF Keeps, SameBut, SameAt
  <2>5. ASSUME NEW x \in Addr
        PROVE  IF x <= k THEN Left(s, f[k], t, x) ELSE SameAt(s, f[k], x)
    <3>0. IF x <= k - 1 THEN Left(s, f[k - 1], t, x) ELSE SameAt(s, f[k - 1], x)
      BY <1>11
    <3>1. CASE x = k
      <4>1. SameAt(s, f[k - 1], k)
        BY <3>0, <3>1
      <4>3. Left(s, f[k], t, k)
        BY <2>2, <4>1, LeftTrans
      <4> QED BY <3>1, <4>3
    <3>2. CASE x # k
      <4>1. x <= k <=> x <= k - 1
        BY <1>0, <3>2
      <4> QED BY <3>0, <3>2, <4>1, <2>4, SameAtTrans, LeftTrans
    <3> QED BY <3>1, <3>2
  <2> QED BY <2>2, <2>3, <2>5
<1>12. NAddr \in P
  <2> HIDE DEF P
  <2>1. \A k \in 0 .. NAddr : k \in P
    BY <1>0, <1>10, <1>11, Induct
  <2> QED BY <1>0, <2>1
<1>13. \A x \in Addr : x <= NAddr
  BY <1>0
<1> QED BY <1>8, <1>12, <1>13 DEF LeftAll

----------------------------------------------------------------------------
(* Reads in spin loops *)

\* What a step of t may change besides the records.
SvVidSet(s, r, x, t, w, V) ==
  /\ r \in ToolState /\ r.spin = s.spin /\ r.locks = s.locks /\ r.ls = s.ls
  /\ r.sv[x] = w /\ \A y \in Addr : y # x => r.sv[y] = s.sv[y]
  /\ r.vid[t] = V /\ \A u \in Thr : u # t => r.vid[u] = s.vid[u]

LEMMA SetSvVid ==
  ASSUME NEW s \in ToolState, NEW x \in Addr, NEW t \in Thr, NEW w \in ShadowValue,
         NEW V \in SUBSET Addr, NEW r, r = [s EXCEPT !.sv[x] = w, !.vid[t] = V]
  PROVE  SvVidSet(s, r, x, t, w, V)
<1>1. r.sv = [s.sv EXCEPT ![x] = w] /\ r.vid = [s.vid EXCEPT ![t] = V]
  BY DEF ToolState
<1>2. r \in ToolState /\ r.spin = s.spin /\ r.locks = s.locks /\ r.ls = s.ls
  BY DEF ToolState
<1>3. r.sv[x] = w /\ \A y \in Addr : y # x => r.sv[y] = s.sv[y]
  BY <1>1, ToolFields
<1>4. r.vid[t] = V /\ \A u \in Thr : u # t => r.vid[u] = s.vid[u]
  BY <1>1, ToolFields
<1> QED BY <1>2, <1>3, <1>4 DEF SvVidSet

\* The records do not depend on the shadow values and the timestamps.
LEMMA SameRecords ==
  ASSUME NEW s \in ToolInv, NEW r \in ToolState,
         r.spin = s.spin, r.locks = s.locks, r.ls = s.ls
  PROVE  r \in ToolInv
<1>1. ASSUME NEW x \in Addr PROVE Coherent(r, x)
  <2>1. Coherent(s, x)
    BY DEF ToolInv
  <2> QED BY <2>1 DEF Coherent, SpinHeld, LockHeld
<1> QED BY <1>1 DEF ToolInv

SameRole(s, r, x) ==
  /\ Invalidated(r.spin[x]) <=> Invalidated(s.spin[x])
  /\ s.spin[x] = None => r.spin[x].lastSpinWriter = None /\ r.spin[x].wasALock = FALSE
  /\ s.spin[x] # None => /\ r.spin[x].lastSpinWriter = s.spin[x].lastSpinWriter
                         /\ r.spin[x].wasALock = s.spin[x].wasALock

ReadOf(s, r, t, x, L) ==
  /\ r \in ToolInv /\ r.ls = s.ls
  /\ r.spin[x] # None /\ r.spin[x].sp = L /\ SameRole(s, r, x)
  /\ \A y \in Addr : y # x => SameAt(s, r, y)
  /\ r.sv[x].st = "SpinVar" /\ (s.sv[x] # New => r.sv[x].v = s.sv[x].v)
  /\ \A u \in Thr : s.vid[u] \subseteq r.vid[u]
  /\ s.sv[x] # New /\ r.spin[x].wasALock = FALSE => s.sv[x].v \subseteq r.vid[t]

LEMMA SpinReadLemma ==
  ASSUME NEW s \in ToolInv, NEW x \in Addr, NEW t \in Thr, NEW L \in Loop,
         NEW r, r = spin_read(s, t, x, L)
  PROVE  ReadOf(s, r, t, x, L)
<1>1. s \in ToolState
  BY DEF ToolInv
<1>2. PICK lk : lk = lookup_or_create(s, x)
  OBVIOUS
<1>3. /\ lk \in SpinRecord /\ (Invalidated(lk) <=> Invalidated(s.spin[x]))
      /\ s.spin[x] # None => lk = s.spin[x]
      /\ s.spin[x] = None => lk.lastSpinWriter = None /\ lk.wasALock = FALSE
  BY <1>1, <1>2, LookupLemma
<1>4. PICK new : new = [lk EXCEPT !.sp = L]
  OBVIOUS
<1>5. /\ new \in SpinRecord /\ new.sLk = lk.sLk /\ new.sp = L /\ new.wasALock = lk.wasALock
      /\ new.lastSpinWriter = lk.lastSpinWriter /\ new.lastReleaseWriter = lk.lastReleaseWriter
      /\ new.wasReleasedBefore = lk.wasReleasedBefore
  BY <1>3, <1>4 DEF SpinRecord, Maybe
<1>6. PICK w : w = mk_SpinVar(IF s.sv[x] # New THEN s.sv[x].v ELSE s.vid[t])
  OBVIOUS
<1>7. PICK V : V = IF ~lk.wasALock /\ s.sv[x] # New THEN s.vid[t] \cup s.sv[x].v ELSE s.vid[t]
  OBVIOUS
<1>8. s.sv[x] \in ShadowValue /\ s.sv[x].v \in SUBSET Addr /\ s.vid[t] \in SUBSET Addr
  BY <1>1, ToolFields DEF ShadowValue
<1>9. /\ w \in ShadowValue /\ w.st = "SpinVar" /\ (s.sv[x] # New => w.v = s.sv[x].v)
      /\ V \in SUBSET Addr /\ s.vid[t] \subseteq V
      /\ s.sv[x] # New /\ lk.wasALock = FALSE => s.sv[x].v \subseteq V
  <2>1. CASE s.sv[x] # New
    <3>1. w = [st |-> "SpinVar", v |-> s.sv[x].v]
      BY <1>6, <2>1 DEF mk_SpinVar
    <3>2. w \in ShadowValue /\ w.st = "SpinVar" /\ w.v = s.sv[x].v
      BY <1>8, <3>1 DEF ShadowValue
    <3> QED BY <1>7, <1>8, <3>2
  <2>2. CASE s.sv[x] = New
    <3>1. w = [st |-> "SpinVar", v |-> s.vid[t]]
      BY <1>6, <2>2 DEF mk_SpinVar
    <3>2. w \in ShadowValue /\ w.st = "SpinVar"
      BY <1>8, <3>1 DEF ShadowValue
    <3> QED BY <1>7, <1>8, <2>2, <3>2
  <2> QED BY <2>1, <2>2
<1>10. PICK s1 : s1 = [s EXCEPT !.spin[x] = new]
  OBVIOUS
<1>11. new \in Maybe(SpinRecord) /\ new # None
  BY <1>5, SpinFields DEF Maybe
<1>12. SpinSet(s, s1, x, new)
  BY <1>1, <1>10, <1>11, SetSpin, Zenon
<1>13. Invalidated(new) <=> Invalidated(lk)
  BY <1>3, <1>5, <1>11, SpinFields DEF Invalidated
<1>14. Keeps(s, s1, x)
  BY <1>2, <1>5, <1>12, <1>13, SetKeeps, Zenon
<1>15. s1 \in ToolInv /\ s1 \in ToolState
  BY <1>14, KeepsInv DEF Keeps
<1>16. r = [s1 EXCEPT !.sv[x] = w, !.vid[t] = V]
  BY <1>2, <1>4, <1>6, <1>7, <1>10 DEF spin_read
<1>17. SvVidSet(s1, r, x, t, w, V)
  BY <1>9, <1>15, <1>16, SetSvVid, Zenon
<1>18. r \in ToolInv
  BY <1>15, <1>17, SameRecords DEF SvVidSet
<1>19. \A y \in Addr : y # x => SameAt(s, r, y)
  BY <1>12, <1>17 DEF SpinSet, SvVidSet, SameAt
<1>20. r.spin[x] = new /\ r.ls = s.ls /\ r.sv[x] = w
  BY <1>12, <1>17 DEF SpinSet, SvVidSet
<1>21. SameRole(s, r, x)
  BY <1>3, <1>5, <1>13, <1>20 DEF SameRole
<1>22. \A u \in Thr : s.vid[u] \subseteq r.vid[u]
  BY <1>9, <1>12, <1>17 DEF SpinSet, SvVidSet
<1>23. s.sv[x] # New /\ r.spin[x].wasALock = FALSE => s.sv[x].v \subseteq r.vid[t]
  BY <1>5, <1>9, <1>17, <1>20 DEF SvVidSet
<1> QED BY <1>5, <1>9, <1>11, <1>18, <1>19, <1>20, <1>21, <1>22, <1>23 DEF ReadOf

----------------------------------------------------------------------------
(* Writes *)

\* A write outside spin loops.
WrittenOutside(s, r, t, x) ==
  /\ r \in ToolInv /\ r.vid = s.vid
  /\ \A y \in Addr : y # x => SameAt(s, r, y)
  /\ \A u \in Thr : x \in r.ls[u] => x \in s.ls[u]
  /\ Invalidated(s.spin[x]) => Invalidated(r.spin[x])
  /\ s.sv[x].st # "SpinVar" => r.spin[x] = s.spin[x]
                                /\ \A u \in Thr : x \in r.ls[u] <=> x \in s.ls[u]
  /\ s.sv[x].st = "SpinVar" =>
       /\ \A u \in Thr : x \notin r.ls[u]
       /\ r.sv[x].st = "SpinVar"
       /\ s.spin[x] = None => r.spin[x] = None
       /\ s.spin[x] # None => r.spin[x] # None /\ Noted(s, r.spin[x], t, x)

\* What a write that is no lock operation leaves behind for the readers.
Published(s, r, t, x, atomic) ==
  ~atomic /\ (s.spin[x] = None \/ s.spin[x].wasALock = FALSE) /\ (\A u \in Thr : x \notin s.ls[u])
    => r.sv[x].v = s.vid[t]

LEMMA OutsideWriteLemma ==
  ASSUME NEW s \in ToolInv, NEW x \in Addr, NEW t \in Thr, NEW L \in Maybe(Loop),
         NEW atomic \in BOOLEAN, NotInSpin(s, t, L, atomic, FALSE),
         NEW r, r = msm_write(s, t, x, L, atomic, FALSE)
  PROVE  WrittenOutside(s, r, t, x) /\ Published(s, r, t, x, atomic)
<1>1. s \in ToolState /\ Coherent(s, x)
  BY DEF ToolInv
<1>2. CASE s.sv[x].st = "SpinVar"
  <2>1. PICK q : q = Classify(s, t, x, L, atomic, FALSE)
    OBVIOUS
  <2>2. onSpinWrite(s, t, x, L, atomic, FALSE) = q
    BY <2>1 DEF onSpinWrite
  <2>3. r = WriteSpinVar(s, t, x, q)
    BY <1>2, <2>2 DEF msm_write
  <2>4. Outside(s, q, t, x)
    BY <2>1, ClassifyLemma
  <2>5. Keeps(s, q.s, x) /\ q.isALock \in BOOLEAN /\ q.s \in ToolState /\ q.s.sv = s.sv
    BY <2>4 DEF Outside, Keeps
  <2>6. Rewritten(s, q, r, t, x)
    BY <1>1, <2>3, <2>5, WriteLemma, Zenon
  <2>7. Keeps(s, r, x)
    BY <2>5, <2>6, RewrittenKeeps
  <2>8. r \in ToolInv
    BY <2>7, KeepsInv
  <2>9. r.vid = s.vid /\ \A y \in Addr : y # x => SameAt(s, r, y)
    BY <2>7 DEF Keeps, SameBut, SameAt
  <2>10. r.spin = q.s.spin /\ r.ls = q.s.ls
    BY <2>6 DEF Rewritten
  <2>11. /\ \A u \in Thr : x \notin r.ls[u]
         /\ s.spin[x] = None => r.spin[x] = None /\ ~q.isALock
         /\ s.spin[x] # None => r.spin[x] # None /\ Noted(s, r.spin[x], t, x)
    BY <2>4, <2>10 DEF Outside
  <2>12. r.sv[x].st = "SpinVar" /\ (~q.isALock => r.sv[x].v = s.vid[t])
    BY <1>2, <2>5, <2>6 DEF Rewritten
  <2>13. WrittenOutside(s, r, t, x)
    BY <1>2, <2>7, <2>8, <2>9, <2>11, <2>12 DEF WrittenOutside, Keeps
  <2>14. (s.spin[x] = None \/ s.spin[x].wasALock = FALSE) /\ (\A u \in Thr : x \notin s.ls[u])
           => ~q.isALock
    BY <2>4 DEF Outside
  <2> QED BY <2>12, <2>13, <2>14 DEF Published
<1>3. CASE s.sv[x].st # "SpinVar" /\ atomic
  <2>1. r = s
    BY <1>3 DEF msm_write
  <2> QED BY <1>3, <2>1 DEF WrittenOutside, Published, SameAt
<1>4. CASE s.sv[x].st # "SpinVar" /\ ~atomic
  <2>1. PICK w : w = mk_ExclW(s.vid[t])
    OBVIOUS
  <2>2. w \in ShadowValue /\ w.v = s.vid[t]
    <3>1. s.vid[t] \in SUBSET Addr
      BY <1>1, ToolFields
    <3> QED BY <2>1, <3>1 DEF mk_ExclW, ShadowValue
  <2>3. r = [s EXCEPT !.sv[x] = w]
    BY <1>4, <2>1 DEF msm_write
  <2>4. SvSet(s, r, x, w)
    BY <1>1, <2>2, <2>3, SetSv, Zenon
  <2>5. /\ r \in ToolState /\ r.spin = s.spin /\ r.locks = s.locks /\ r.ls = s.ls
        /\ r.vid = s.vid /\ r.sv[x] = w
    BY <2>4 DEF SvSet
  <2>6. r \in ToolInv
    BY <2>5, SameRecords
  <2>7. \A y \in Addr : y # x => SameAt(s, r, y)
    BY <1>1, <2>4, ToolFields DEF SvSet, SameAt
  <2> QED BY <1>4, <2>2, <2>5, <2>6, <2>7 DEF WrittenOutside, Published
<1> QED BY <1>2, <1>3, <1>4

\* Any write by an instruction that does not spin.
Written(s, r, x) ==
  /\ r \in ToolInv /\ r.vid = s.vid
  /\ \A y \in Addr : y # x => SameAt(s, r, y)
  /\ Invalidated(s.spin[x]) => Invalidated(r.spin[x])
  /\ s.spin[x] # None => r.spin[x] # None
  /\ s.sv[x].st = "SpinVar" => r.sv[x].st = "SpinVar"

LEMMA AnyWriteLemma ==
  ASSUME NEW s \in ToolInv, NEW x \in Addr, NEW t \in Thr, NEW L \in Maybe(Loop),
         NEW atomic \in BOOLEAN, NEW r, r = msm_write(s, t, x, L, atomic, FALSE)
  PROVE  Written(s, r, x)
<1>1. CASE NotInSpin(s, t, L, atomic, FALSE)
  <2>1. WrittenOutside(s, r, t, x)
    BY <1>1, OutsideWriteLemma, Zenon
  <2> QED BY <2>1 DEF WrittenOutside, Written
<1>2. CASE ~NotInSpin(s, t, L, atomic, FALSE) /\ s.sv[x].st = "SpinVar"
  <2>0. s \in ToolState
    BY DEF ToolInv
  <2>1. L # None /\ L # EmptyLoop /\ L \in Loop
    BY <1>2 DEF NotInSpin, Maybe
  <2>2. PICK q : q = InsideWrite(s, t, x, L)
    OBVIOUS
  <2>3. r = WriteSpinVar(s, t, x, q)
    BY <1>2, <2>1, <2>2 DEF msm_write, onSpinWrite, Classify
  <2>4. Inside(s, q, t, x, L)
    BY <2>1, <2>2, InsideLemma, Zenon
  <2>5. Keeps(s, q.s, x) /\ q.isALock \in BOOLEAN /\ q.s \in ToolState /\ q.s.spin[x] # None
    BY <2>4 DEF Inside, Keeps
  <2>6. Rewritten(s, q, r, t, x)
    BY <2>0, <2>3, <2>5, WriteLemma, Zenon
  <2>7. Keeps(s, r, x)
    BY <2>5, <2>6, RewrittenKeeps
  <2>8. r \in ToolInv
    BY <2>7, KeepsInv
  <2>9. r.vid = s.vid /\ \A y \in Addr : y # x => SameAt(s, r, y)
    BY <2>7 DEF Keeps, SameBut, SameAt
  <2>10. r.sv[x].st = "SpinVar" /\ r.spin[x] # None
    BY <1>2, <2>5, <2>6 DEF Rewritten
  <2> QED BY <2>7, <2>8, <2>9, <2>10 DEF Written, Keeps
<1>3. CASE ~NotInSpin(s, t, L, atomic, FALSE) /\ s.sv[x].st # "SpinVar"
  <2>1. msm_write(s, t, x, L, atomic, FALSE) = msm_write(s, t, x, None, atomic, FALSE)
    BY <1>3 DEF msm_write
  <2>2. NotInSpin(s, t, None, atomic, FALSE) /\ None \in Maybe(Loop)
    BY DEF NotInSpin, Maybe
  <2>3. WrittenOutside(s, r, t, x)
    BY <2>1, <2>2, OutsideWriteLemma, Zenon
  <2> QED BY <2>3 DEF WrittenOutside, Written
<1> QED BY <1>1, <1>2, <1>3

\* The write of a test-and-set in the loop L, seen at its own address.
Tried(s, r, t, L, x) ==
  /\ r.spin[x] # None /\ r.spin[x].sp = L /\ r.sv[x].st = "SpinVar"
  /\ Invalidated(s.spin[x]) => Invalidated(r.spin[x])
  /\ NoOther(s, r, t, x)
  /\ Invalidated(s.spin[x]) \/ L # EmptyLoop => (x \in r.ls[t] <=> x \in s.ls[t])
  /\ Invalidated(s.spin[x]) => r.spin[x].lastSpinWriter = None
  /\ ~Invalidated(s.spin[x]) =>
       /\ r.spin[x].lastSpinWriter \in {None, t}
       /\ L # EmptyLoop => /\ r.spin[x].lastSpinWriter = t /\ ~Invalidated(r.spin[x])
                           /\ \A u \in Thr : x \in r.ls[u] <=> x \in s.ls[u]
       /\ L = EmptyLoop => \/ /\ x \in r.ls[t] /\ r.spin[x].lastSpinWriter = None
                              /\ ~Invalidated(r.spin[x])
                           \/ Foreign(s, t, x)

TriedAll(s, r, t, L, x) ==
  /\ r \in ToolInv /\ r.vid = s.vid /\ Tried(s, r, t, L, x)
  /\ L # EmptyLoop => \A y \in Addr : y # x => SameAt(s, r, y)
  /\ L = EmptyLoop => \A y \in Addr : y # x => ExitedAt(s, r, t, L, y)

LEMMA ExitedFrom ==
  ASSUME NEW s, NEW s1, NEW r, NEW t \in Thr, NEW L, NEW x, SameAt(s, s1, x),
         ExitedAt(s1, r, t, L, x)
  PROVE  ExitedAt(s, r, t, L, x)
<1>1. s1.spin[x] = s.spin[x] /\ s1.sv[x] = s.sv[x] /\ \A u \in Thr : x \in s1.ls[u] <=> x \in s.ls[u]
  BY DEF SameAt
<1>2. Pending(s1, t, L, x) <=> Pending(s, t, L, x)
  BY <1>1 DEF Pending
<1>3. /\ Invalidated(s.spin[x]) => Invalidated(r.spin[x])
      /\ NoOther(s, r, t, x) /\ (s.sv[x].st = "SpinVar" => r.sv[x].st = "SpinVar")
  BY <1>1 DEF ExitedAt, NoOther
<1>4. CASE Pending(s, t, L, x)
  <2>1. /\ r.spin[x] # None /\ r.spin[x].sp = L /\ r.spin[x].lastSpinWriter \in {None, t}
        /\ Taken(s1, r, t, x) \/ Foreign(s1, t, x)
    BY <1>2, <1>4 DEF ExitedAt
  <2>2. Taken(s1, r, t, x) => Taken(s, r, t, x)
    BY <1>1 DEF Taken
  <2>3. Foreign(s1, t, x) => Foreign(s, t, x)
    BY <1>1 DEF Foreign
  <2> QED BY <1>3, <1>4, <2>1, <2>2, <2>3 DEF ExitedAt
<1>5. CASE ~Pending(s, t, L, x)
  <2>1. SameAt(s, r, x)
    BY <1>2, <1>5, SameAtTrans DEF ExitedAt
  <2> QED BY <1>3, <1>5, <2>1 DEF ExitedAt
<1> QED BY <1>4, <1>5

LEMMA TestAndSetLemma ==
  ASSUME NEW s \in ToolInv, NEW x \in Addr, NEW t \in Thr, NEW L \in Loop,
         s.sv[x].st = "SpinVar", s.spin[x] # None, s.spin[x].sp = L,
         NEW r, r = msm_write(s, t, x, L, TRUE, TRUE)
  PROVE  TriedAll(s, r, t, L, x)
<1>1. s \in ToolState /\ t # None
  BY SpinAssumption DEF ToolInv
<1>2. PICK q : q = InsideWrite(s, t, x, L)
  OBVIOUS
<1>3. Inside(s, q, t, x, L)
  BY <1>2, InsideLemma, Zenon
<1>4. /\ Keeps(s, q.s, x) /\ q.isALock \in BOOLEAN /\ q.s \in ToolState /\ q.s.spin[x] # None
      /\ q.s.ls = s.ls /\ q.s.sv = s.sv
      /\ q.isALock <=> ~Invalidated(s.spin[x])
      /\ Invalidated(q.s.spin[x]) <=> Invalidated(s.spin[x])
      /\ q.s.spin[x].lastSpinWriter = IF q.isALock THEN t ELSE None
      /\ q.s.spin[x].sp = L
  BY <1>3 DEF Inside, Keeps
<1>5. q.s \in ToolInv
  BY <1>4, KeepsInv
<1>6. \A y \in Addr : y # x => SameAt(s, q.s, y)
  BY <1>4 DEF Keeps, SameBut, SameAt
<1>7. ~NotInSpin(s, t, L, TRUE, TRUE) /\ Classify(s, t, x, L, TRUE, TRUE) = q
  BY <1>2 DEF NotInSpin, Classify
<1>8. q.s.vid = s.vid
  BY <1>4 DEF Keeps, SameBut
<1>9. CASE L # EmptyLoop
  <2>1. r = WriteSpinVar(s, t, x, q)
    BY <1>7, <1>9 DEF msm_write, onSpinWrite
  <2>2. Rewritten(s, q, r, t, x)
    BY <1>1, <1>4, <2>1, WriteLemma, Zenon
  <2>3. Keeps(s, r, x)
    BY <1>4, <2>2, RewrittenKeeps
  <2>4. r \in ToolInv
    BY <2>3, KeepsInv
  <2>5. r.vid = s.vid /\ \A y \in Addr : y # x => SameAt(s, r, y)
    BY <2>3 DEF Keeps, SameBut, SameAt
  <2>6. r.spin = q.s.spin /\ r.ls = s.ls /\ r.sv[x].st = "SpinVar"
    BY <1>4, <2>2 DEF Rewritten
  <2>7. Tried(s, r, t, L, x)
    BY <1>4, <1>9, <2>6 DEF Tried, NoOther
  <2> QED BY <1>9, <2>4, <2>5, <2>7 DEF TriedAll
<1>10. CASE L = EmptyLoop
  <2>1. PICK e : e = onExitSpinLoop(q.s, t, L, TRUE)
    OBVIOUS
  <2>2. ExitedAll(q.s, e, t, L)
    BY <1>5, <2>1, ExitLoopLemma
  <2>3. e \in ToolInv /\ e \in ToolState /\ e.vid = s.vid
        /\ \A y \in Addr : ExitedAt(q.s, e, t, L, y)
    BY <1>8, <2>2 DEF ExitedAll, ToolInv
  <2>4. PICK p : p = Is(q.isALock, e)
    OBVIOUS
  <2>5. p.s = e /\ p.isALock = q.isALock
    BY <2>4 DEF Is
  <2>6. r = WriteSpinVar(s, t, x, p)
    BY <1>4, <1>7, <1>10, <2>1, <2>4 DEF msm_write, onSpinWrite
  <2>7. p.s \in ToolState /\ p.isALock \in BOOLEAN
    BY <1>4, <2>3, <2>5
  <2>8. Rewritten(s, p, r, t, x)
    BY <1>1, <2>6, <2>7, WriteLemma, Zenon
  <2>9. /\ r \in ToolState /\ r.spin = e.spin /\ r.locks = e.locks /\ r.ls = e.ls
        /\ r.vid = e.vid /\ \A y \in Addr : y # x => r.sv[y] = e.sv[y]
        /\ r.sv[x].st = "SpinVar"
    BY <2>5, <2>7, <2>8 DEF Rewritten
  <2>10. r \in ToolInv
    BY <2>3, <2>9, SameRecords
  <2>11. ASSUME NEW y \in Addr, y # x PROVE ExitedAt(s, r, t, L, y)
    <3>1. ExitedAt(s, e, t, L, y)
      BY <1>6, <2>3, <2>11, ExitedFrom
    <3>2. SameAt(e, r, y)
      BY <2>9, <2>11 DEF SameAt
    <3> QED BY <3>1, <3>2, SameAtExited
  <2>12. ExitedAt(q.s, e, t, L, x)
    BY <2>3
  <2>13. NoOther(s, r, t, x) /\ (Invalidated(s.spin[x]) => Invalidated(r.spin[x]))
    BY <1>4, <2>9, <2>12 DEF ExitedAt, NoOther
  <2>14. CASE Invalidated(s.spin[x])
    <3>1. ~Pending(q.s, t, L, x) /\ q.s.spin[x].lastSpinWriter = None
      BY <1>1, <1>4, <2>14 DEF Pending
    <3>2. e.spin[x] = q.s.spin[x] /\ \A u \in Thr : x \in e.ls[u] <=> x \in q.s.ls[u]
      BY <2>12, <3>1 DEF ExitedAt, SameAt
    <3>3. Tried(s, r, t, L, x)
      BY <1>4, <2>9, <2>13, <2>14, <3>1, <3>2 DEF Tried
    <3> QED BY <1>10, <2>3, <2>9, <2>10, <2>11, <3>3 DEF TriedAll
  <2>15. CASE ~Invalidated(s.spin[x])
    <3>1. Pending(q.s, t, L, x)
      BY <1>4, <2>15 DEF Pending
    <3>2. /\ e.spin[x] # None /\ e.spin[x].sp = L /\ e.spin[x].lastSpinWriter \in {None, t}
          /\ Taken(q.s, e, t, x) \/ Foreign(q.s, t, x)
      BY <2>12, <3>1 DEF ExitedAt
    <3>3. Foreign(q.s, t, x) => Foreign(s, t, x)
      BY <1>4 DEF Foreign
    <3>4. Taken(q.s, e, t, x) => /\ x \in r.ls[t] /\ r.spin[x].lastSpinWriter = None
                                 /\ ~Invalidated(r.spin[x])
      BY <2>9 DEF Taken
    <3>5. Tried(s, r, t, L, x)
      BY <1>10, <2>9, <2>13, <2>15, <3>2, <3>3, <3>4 DEF Tried
    <3> QED BY <1>10, <2>3, <2>9, <2>10, <2>11, <3>5 DEF TriedAll
  <2> QED BY <2>14, <2>15
<1> QED BY <1>9, <1>10

----------------------------------------------------------------------------
(* The steps, as steps of the tool's records *)

\* A thread that is in a loop waits for some address.
LoopKnown == \A t \in Thr : at[t] # Idle => at[t].a \in Addr

BaseInv == SpinTypeOK /\ LoopKnown /\ Tool \in ToolInv

LEMMA ToolType ==
  ASSUME SpinTypeOK
  PROVE  Tool \in ToolState
BY DEF SpinTypeOK, Tool, ToolState, ShadowValue

LEMMA ToolParts ==
  /\ Tool.spin = map_spin_locks /\ Tool.locks = map_locks /\ Tool.ls = locksetA
  /\ Tool.sv = sv /\ Tool.vid = vid
BY DEF Tool

LEMMA NextTool ==
  ASSUME NEW r \in ToolState, SetTool(r)
  PROVE  Tool' = r
<1>1. Tool' = [spin |-> r.spin, locks |-> r.locks, ls |-> r.ls, sv |-> r.sv, vid |-> r.vid]
  BY DEF Tool, SetTool
<1> QED BY <1>1 DEF ToolState

VidSet(s, r, t, V) ==
  /\ r \in ToolState /\ r.spin = s.spin /\ r.locks = s.locks /\ r.ls = s.ls /\ r.sv = s.sv
  /\ r.vid[t] = V /\ \A u \in Thr : u # t => r.vid[u] = s.vid[u]

LEMMA SetVid ==
  ASSUME NEW s \in ToolState, NEW t \in Thr, NEW V \in SUBSET Addr,
         NEW r, r = [s EXCEPT !.vid[t] = V]
  PROVE  VidSet(s, r, t, V)
<1>1. r.vid = [s.vid EXCEPT ![t] = V]
  BY DEF ToolState
<1>2. r \in ToolState /\ r.spin = s.spin /\ r.locks = s.locks /\ r.ls = s.ls /\ r.sv = s.sv
  BY DEF ToolState
<1>3. r.vid[t] = V /\ \A u \in Thr : u # t => r.vid[u] = s.vid[u]
  BY <1>1, ToolFields
<1> QED BY <1>2, <1>3 DEF VidSet

LEMMA TestAndSetStep ==
  ASSUME BaseInv, NEW t \in Thr, NEW x \in Addr, TestAndSet(t, x)
  PROVE  \E s1 \in ToolInv : /\ ReadOf(Tool, s1, t, x, loopOf[x])
                             /\ TriedAll(s1, Tool', t, loopOf[x], x)
<1>1. PICK s \in ToolInv : s = Tool
  BY DEF BaseInv
<1>2. PICK L \in Loop : L = loopOf[x]
  BY DEF BaseInv, SpinTypeOK
<1>3. PICK s1 : s1 = spin_read(s, t, x, L)
  OBVIOUS
<1>4. ReadOf(s, s1, t, x, L)
  BY <1>3, SpinReadLemma, Zenon
<1>5. s1 \in ToolInv /\ s1.sv[x].st = "SpinVar" /\ s1.spin[x] # None /\ s1.spin[x].sp = L
  BY <1>4 DEF ReadOf
<1>6. PICK r : r = msm_write(s1, t, x, L, TRUE, TRUE)
  OBVIOUS
<1>7. TriedAll(s1, r, t, L, x)
  BY <1>5, <1>6, TestAndSetLemma, Zenon
<1>8. SetTool(r)
  BY <1>1, <1>2, <1>3, <1>6 DEF TestAndSet
<1>9. r \in ToolState
  BY <1>7 DEF TriedAll, ToolInv
<1>10. Tool' = r
  BY <1>8, <1>9, NextTool
<1> QED BY <1>1, <1>2, <1>4, <1>5, <1>7, <1>10

LEMMA SpinTestStep ==
  ASSUME BaseInv, NEW t \in Thr, NEW x \in Addr, SpinTest(t, x)
  PROVE  ReadOf(Tool, Tool', t, x, loopOf[x])
<1>1. PICK s \in ToolInv : s = Tool
  BY DEF BaseInv
<1>2. PICK L \in Loop : L = loopOf[x]
  BY DEF BaseInv, SpinTypeOK
<1>3. PICK r : r = spin_read(s, t, x, L)
  OBVIOUS
<1>4. ReadOf(s, r, t, x, L)
  BY <1>3, SpinReadLemma, Zenon
<1>5. r \in ToolState /\ SetTool(r)
  BY <1>1, <1>2, <1>3, <1>4 DEF ReadOf, ToolInv, SpinTest
<1>6. Tool' = r
  BY <1>5, NextTool
<1> QED BY <1>1, <1>2, <1>4, <1>6

LEMMA ExitLoopStep ==
  ASSUME BaseInv, NEW t \in Thr, ExitLoop(t)
  PROVE  /\ at[t] # Idle /\ at[t].a \in Addr /\ loopOf[at[t].a] \in Loop
         /\ loopOf[at[t].a] = EmptyLoop => Tool' = Tool
         /\ loopOf[at[t].a] # EmptyLoop => ExitedAll(Tool, Tool', t, loopOf[at[t].a])
<1>1. PICK s \in ToolInv : s = Tool
  BY DEF BaseInv
<1>2. at[t] # Idle /\ at[t].a \in Addr
  BY DEF BaseInv, LoopKnown, ExitLoop
<1>3. PICK L \in Loop : L = loopOf[at[t].a]
  BY <1>2 DEF BaseInv, SpinTypeOK
<1>4. CASE L = EmptyLoop
  <2>1. SetTool(s) /\ s \in ToolState
    BY <1>1, <1>3, <1>4 DEF ExitLoop, ToolInv
  <2>2. Tool' = s
    BY <2>1, NextTool
  <2> QED BY <1>1, <1>2, <1>3, <1>4, <2>2
<1>5. CASE L # EmptyLoop
  <2>1. PICK r : r = onExitSpinLoop(s, t, L, FALSE)
    OBVIOUS
  <2>2. ExitedAll(s, r, t, L)
    BY <2>1, ExitLoopLemma
  <2>3. r \in ToolState /\ SetTool(r)
    BY <1>1, <1>3, <1>5, <2>1, <2>2 DEF ExitedAll, ToolInv, ExitLoop
  <2>4. Tool' = r
    BY <2>3, NextTool
  <2> QED BY <1>1, <1>2, <1>3, <1>5, <2>2, <2>4
<1> QED BY <1>4, <1>5

LEMMA UnlockStep ==
  ASSUME BaseInv, NEW t \in Thr, NEW x \in Addr, NEW atomic \in BOOLEAN, Unlock(t, x, atomic)
  PROVE  /\ Written(Tool, Tool', x)
         /\ lastSpin[t] \in {None, EmptyLoop} => WrittenOutside(Tool, Tool', t, x)
<1>1. PICK s \in ToolInv : s = Tool
  BY DEF BaseInv
<1>2. PICK L \in Maybe(Loop) : L = lastSpin[t]
  BY DEF BaseInv, SpinTypeOK
<1>3. PICK r : r = msm_write(s, t, x, L, atomic, FALSE)
  OBVIOUS
<1>4. Written(s, r, x)
  BY <1>3, AnyWriteLemma, Zenon
<1>5. r \in ToolState /\ SetTool(r)
  BY <1>1, <1>2, <1>3, <1>4 DEF Written, ToolInv, Unlock
<1>6. Tool' = r
  BY <1>5, NextTool
<1>7. CASE L \in {None, EmptyLoop}
  <2>1. NotInSpin(s, t, L, atomic, FALSE)
    BY <1>7 DEF NotInSpin
  <2>2. WrittenOutside(s, r, t, x)
    BY <1>3, <2>1, OutsideWriteLemma, Zenon
  <2> QED BY <1>1, <1>2, <1>4, <1>6, <2>2
<1> QED BY <1>1, <1>2, <1>4, <1>6, <1>7

LEMMA SetFlagStep ==
  ASSUME BaseInv, NEW t \in Thr, NEW x \in Addr, SetFlag(t, x)
  PROVE  \E s1 \in ToolInv :
           /\ VidSet(Tool, s1, t, vid[t] \cup {x}) /\ Written(s1, Tool', x)
           /\ lastSpin[t] \in {None, EmptyLoop}
                => WrittenOutside(s1, Tool', t, x) /\ Published(s1, Tool', t, x, FALSE)
<1>1. PICK s \in ToolInv : s = Tool
  BY DEF BaseInv
<1>2. PICK L \in Maybe(Loop) : L = lastSpin[t]
  BY DEF BaseInv, SpinTypeOK
<1>3. s \in ToolState /\ s.vid = vid /\ s.vid[t] \in SUBSET Addr
  BY <1>1, ToolParts, ToolFields DEF ToolInv
<1>4. PICK V \in SUBSET Addr : V = s.vid[t] \cup {x}
  BY <1>3
<1>5. PICK s1 : s1 = [s EXCEPT !.vid[t] = V]
  OBVIOUS
<1>6. VidSet(s, s1, t, V)
  BY <1>3, <1>5, SetVid, Zenon
<1>7. s1 \in ToolInv
  BY <1>6, SameRecords DEF VidSet
<1>8. PICK r : r = msm_write(s1, t, x, L, FALSE, FALSE)
  OBVIOUS
<1>9. Written(s1, r, x)
  BY <1>7, <1>8, AnyWriteLemma, Zenon
<1>10. SetTool(r)
  BY <1>1, <1>2, <1>4, <1>5, <1>8 DEF SetFlag
<1>11. r \in ToolState
  BY <1>9 DEF Written, ToolInv
<1>12. Tool' = r
  BY <1>10, <1>11, NextTool
<1>13. L \in {None, EmptyLoop} =>
         WrittenOutside(s1, r, t, x) /\ Published(s1, r, t, x, FALSE)
  <2>1. SUFFICES ASSUME L \in {None, EmptyLoop}
                 PROVE  WrittenOutside(s1, r, t, x) /\ Published(s1, r, t, x, FALSE)
    OBVIOUS
  <2>2. NotInSpin(s1, t, L, FALSE, FALSE) /\ FALSE \in BOOLEAN
    BY <2>1 DEF NotInSpin
  <2> QED BY <1>7, <1>8, <2>2, OutsideWriteLemma, Zenon
<1> QED BY <1>1, <1>2, <1>3, <1>4, <1>6, <1>7, <1>9, <1>12, <1>13

LEMMA ExitThreadStep ==
  ASSUME BaseInv, NEW t \in Thr, ExitThread(t)
  PROVE  \E s1 \in ToolInv : LeftAll(Tool, s1, t) /\ VidSet(s1, Tool', t, {}) /\ Tool' \in ToolInv
<1>1. PICK s \in ToolInv : s = Tool
  BY DEF BaseInv
<1>2. PICK s1 : s1 = mutex_detect_exitThread(s, t)
  OBVIOUS
<1>3. LeftAll(s, s1, t)
  BY <1>2, ExitThreadLemma
<1>4. s1 \in ToolInv /\ s1 \in ToolState
  BY <1>3 DEF LeftAll, ToolInv
<1>5. PICK r : r = [s1 EXCEPT !.vid[t] = {}]
  OBVIOUS
<1>6. {} \in SUBSET Addr
  OBVIOUS
<1>7. VidSet(s1, r, t, {})
  BY <1>4, <1>5, <1>6, SetVid, Zenon
<1>8. r \in ToolInv
  BY <1>4, <1>7, SameRecords DEF VidSet
<1>9. SetTool(r)
  BY <1>1, <1>2, <1>5 DEF ExitThread
<1>10. Tool' = r
  BY <1>8, <1>9, NextTool DEF ToolInv
<1> QED BY <1>1, <1>3, <1>4, <1>7, <1>8, <1>10

\* The mutex is none of the spin variables.
MutexSet(s, r) ==
  /\ r \in ToolInv /\ r.spin = s.spin /\ r.sv = s.sv /\ r.vid = s.vid
  /\ \A x \in Addr : SameAt(s, r, x)

LEMMA MutexStep ==
  ASSUME BaseInv, NEW t \in Thr, LockMutex(t) \/ UnlockMutex(t)
  PROVE  MutexSet(Tool, Tool')
<1>0. SpinTypeOK
  BY DEF BaseInv
<1>1. PICK H \in SUBSET (Addr \cup {Mutex}) :
        /\ locksetA' = [locksetA EXCEPT ![t] = H]
        /\ \A x \in Addr : x \in H <=> x \in locksetA[t]
  <2>1. locksetA[t] \in SUBSET (Addr \cup {Mutex}) /\ Mutex \notin Addr
    BY <1>0, SpinAssumption DEF SpinTypeOK
  <2>2. CASE LockMutex(t)
    <3>1. locksetA' = [locksetA EXCEPT ![t] = locksetA[t] \cup {Mutex}]
      BY <2>2 DEF LockMutex
    <3>2. locksetA[t] \cup {Mutex} \in SUBSET (Addr \cup {Mutex})
          /\ \A x \in Addr : x \in locksetA[t] \cup {Mutex} <=> x \in locksetA[t]
      BY <2>1
    <3> QED BY <3>1, <3>2
  <2>3. CASE UnlockMutex(t)
    <3>1. locksetA' = [locksetA EXCEPT ![t] = locksetA[t] \ {Mutex}]
      BY <2>3 DEF UnlockMutex
    <3>2. locksetA[t] \ {Mutex} \in SUBSET (Addr \cup {Mutex})
          /\ \A x \in Addr : x \in locksetA[t] \ {Mutex} <=> x \in locksetA[t]
      BY <2>1
    <3> QED BY <3>1, <3>2
  <2> QED BY <2>2, <2>3
<1>2. /\ map_spin_locks' = map_spin_locks /\ map_locks' = map_locks /\ sv' = sv /\ vid' = vid
  BY DEF LockMutex, UnlockMutex
<1>3. PICK s \in ToolInv : s = Tool
  BY DEF BaseInv
<1>4. PICK r : r = Tool'
  OBVIOUS
<1>5. s.spin = map_spin_locks /\ s.locks = map_locks /\ s.ls = locksetA /\ s.sv = sv /\ s.vid = vid
  BY <1>3, ToolParts
<1>6. /\ r.spin = s.spin /\ r.locks = s.locks /\ r.sv = s.sv /\ r.vid = s.vid
      /\ r.ls = [locksetA EXCEPT ![t] = H]
      /\ r = [spin |-> map_spin_locks, locks |-> map_locks, ls |-> [locksetA EXCEPT ![t] = H],
              sv |-> sv, vid |-> vid]
  BY <1>1, <1>2, <1>4, <1>5 DEF Tool
<1>7. \A u \in Thr, x \in Addr : x \in r.ls[u] <=> x \in s.ls[u]
  BY <1>0, <1>1, <1>5, <1>6 DEF SpinTypeOK
<1>8. \A x \in Addr : SameAt(s, r, x)
  BY <1>6, <1>7 DEF SameAt
<1>9. r \in ToolState
  <2>1. [locksetA EXCEPT ![t] = H] \in [Thr -> SUBSET (Addr \cup {Mutex})]
    BY <1>0 DEF SpinTypeOK
  <2> QED BY <1>0, <1>6, <2>1 DEF SpinTypeOK, ToolState, ShadowValue
<1>10. ASSUME NEW x \in Addr PROVE Coherent(r, x)
  <2>1. Coherent(s, x)
    BY DEF ToolInv
  <2> QED BY <2>1, <1>6, <1>7 DEF Coherent, SpinHeld, LockHeld
<1>11. r \in ToolInv
  BY <1>9, <1>10 DEF ToolInv
<1> QED BY <1>3, <1>4, <1>6, <1>8, <1>11 DEF MutexSet

\* Memory that is used again.
Renewed(s, r, x) ==
  /\ r \in ToolInv /\ r.spin = s.spin /\ r.locks = s.locks /\ r.ls = s.ls
  /\ \A y \in Addr : y # x => r.sv[y] = s.sv[y]
  /\ \A u \in Thr : r.vid[u] = s.vid[u] \ {x}

LEMMA ReuseStep ==
  ASSUME BaseInv, NEW x \in Addr, NEW how \in {"lock", "flag"}, ReuseMemory(x, how)
  PROVE  Renewed(Tool, Tool', x)
<1>0. SpinTypeOK
  BY DEF BaseInv
<1>3. PICK s \in ToolInv : s = Tool
  BY DEF BaseInv
<1>4. PICK r : r = Tool'
  OBVIOUS
<1>5. s.spin = map_spin_locks /\ s.locks = map_locks /\ s.ls = locksetA /\ s.sv = sv /\ s.vid = vid
  BY <1>3, ToolParts
<1>6. r = [spin |-> map_spin_locks, locks |-> map_locks, ls |-> locksetA,
           sv |-> [sv EXCEPT ![x] = New], vid |-> [t \in Thr |-> vid[t] \ {x}]]
  BY <1>4 DEF ReuseMemory, Tool
<1>7. New \in ShadowValue
  BY DEF New, ShadowValue
<1>8. [sv EXCEPT ![x] = New] \in [Addr -> ShadowValue]
      /\ \A y \in Addr : y # x => [sv EXCEPT ![x] = New][y] = sv[y]
  BY <1>0, <1>7 DEF SpinTypeOK, ShadowValue
<1>9. [t \in Thr |-> vid[t] \ {x}] \in [Thr -> SUBSET Addr]
  BY <1>0 DEF SpinTypeOK
<1>10. r \in ToolState
  BY <1>0, <1>6, <1>8, <1>9 DEF SpinTypeOK, ToolState
<1>11. /\ r.spin = s.spin /\ r.locks = s.locks /\ r.ls = s.ls
       /\ r.sv = [sv EXCEPT ![x] = New] /\ r.vid = [t \in Thr |-> vid[t] \ {x}]
  BY <1>5, <1>6
<1>12. r \in ToolInv
  BY <1>10, <1>11, SameRecords
<1> QED BY <1>3, <1>4, <1>5, <1>8, <1>11, <1>12 DEF Renewed

LEMMA ReturnStep ==
  ASSUME NEW t \in Thr, ReturnFromLoop(t)
  PROVE  Tool' = Tool
BY DEF ReturnFromLoop, Tool

----------------------------------------------------------------------------
(* The records agree; a verdict is final *)

\* What every step does to the records.
Onward(s, r) ==
  r \in ToolInv /\ \A x \in Addr : Invalidated(s.spin[x]) => Invalidated(r.spin[x])

LEMMA StepOnward ==
  ASSUME BaseInv, SpinNext
  PROVE  Onward(Tool, Tool')
<1>0. PICK s \in ToolInv : s = Tool
  BY DEF BaseInv
<1>1. ASSUME NEW t \in Thr, NEW x \in Addr, TestAndSet(t, x) PROVE Onward(Tool, Tool')
  <2>1. PICK s1 \in ToolInv : /\ ReadOf(Tool, s1, t, x, loopOf[x])
                              /\ TriedAll(s1, Tool', t, loopOf[x], x)
    BY <1>1, TestAndSetStep
  <2>2. PICK r : r = Tool'
    OBVIOUS
  <2>3. PICK L : L = loopOf[x]
    OBVIOUS
  <2>4. ReadOf(s, s1, t, x, L) /\ TriedAll(s1, r, t, L, x)
    BY <1>0, <2>1, <2>2, <2>3
  <2>5. \A y \in Addr : Invalidated(s.spin[y]) => Invalidated(s1.spin[y])
    BY <2>4 DEF ReadOf, SameRole, SameAt
  <2>6. \A y \in Addr : Invalidated(s1.spin[y]) => Invalidated(r.spin[y])
    <3>1. ASSUME NEW y \in Addr, y # x PROVE Invalidated(s1.spin[y]) => Invalidated(r.spin[y])
      <4>1. SameAt(s1, r, y) \/ ExitedAt(s1, r, t, L, y)
        BY <2>4, <3>1 DEF TriedAll
      <4> QED BY <4>1 DEF SameAt, ExitedAt
    <3>2. Invalidated(s1.spin[x]) => Invalidated(r.spin[x])
      BY <2>4 DEF TriedAll, Tried
    <3> QED BY <3>1, <3>2
  <2> QED BY <1>0, <2>2, <2>4, <2>5, <2>6 DEF Onward, TriedAll
<1>2. ASSUME NEW t \in Thr, NEW x \in Addr, SpinTest(t, x) PROVE Onward(Tool, Tool')
  <2>1. ReadOf(Tool, Tool', t, x, loopOf[x])
    BY <1>2, SpinTestStep
  <2>2. PICK r : r = Tool'
    OBVIOUS
  <2>3. PICK L : ReadOf(s, r, t, x, L)
    BY <1>0, <2>1, <2>2
  <2>4. Onward(s, r)
    BY <2>3 DEF ReadOf, SameRole, SameAt, Onward
  <2> QED BY <1>0, <2>2, <2>4
<1>3. ASSUME NEW t \in Thr, ExitLoop(t) PROVE Onward(Tool, Tool')
  <2>1. Tool' = Tool \/ ExitedAll(Tool, Tool', t, loopOf[at[t].a])
    BY <1>3, ExitLoopStep
  <2>2. PICK r : r = Tool'
    OBVIOUS
  <2>3. PICK L : r = s \/ ExitedAll(s, r, t, L)
    BY <1>0, <2>1, <2>2
  <2>4. Onward(s, r)
    BY <2>3 DEF ExitedAll, ExitedAt, Onward
  <2> QED BY <1>0, <2>2, <2>4
<1>4. ASSUME NEW t \in Thr, ReturnFromLoop(t) PROVE Onward(Tool, Tool')
  <2>1. Tool' = Tool
    BY <1>4, ReturnStep
  <2>2. Onward(s, s)
    BY DEF Onward
  <2> QED BY <1>0, <2>1, <2>2
<1>5. ASSUME NEW t \in Thr, NEW x \in Addr, NEW atomic \in BOOLEAN, Unlock(t, x, atomic)
      PROVE  Onward(Tool, Tool')
  <2>1. PICK r : r = Tool'
    OBVIOUS
  <2>2. Written(s, r, x)
    BY <1>0, <1>5, <2>1, UnlockStep
  <2>3. Onward(s, r)
    BY <2>2 DEF Written, SameAt, Onward
  <2> QED BY <1>0, <2>1, <2>3
<1>6. ASSUME NEW t \in Thr, NEW x \in Addr, SetFlag(t, x) PROVE Onward(Tool, Tool')
  <2>1. PICK s1 \in ToolInv : /\ VidSet(Tool, s1, t, vid[t] \cup {x}) /\ Written(s1, Tool', x)
    BY <1>6, SetFlagStep
  <2>2. PICK r : r = Tool'
    OBVIOUS
  <2>3. PICK V : VidSet(s, s1, t, V) /\ Written(s1, r, x)
    BY <1>0, <2>1, <2>2
  <2>4. Onward(s, r)
    BY <2>3 DEF VidSet, Written, SameAt, Onward
  <2> QED BY <1>0, <2>2, <2>4
<1>7. ASSUME NEW t \in Thr, ExitThread(t) PROVE Onward(Tool, Tool')
  <2>1. PICK r : r = Tool'
    OBVIOUS
  <2>2. PICK s1 \in ToolInv : LeftAll(s, s1, t) /\ VidSet(s1, r, t, {}) /\ r \in ToolInv
    BY <1>0, <1>7, <2>1, ExitThreadStep
  <2>3. Onward(s, r)
    BY <2>2 DEF LeftAll, Left, VidSet, Onward
  <2> QED BY <1>0, <2>1, <2>3
<1>8. ASSUME NEW t \in Thr, LockMutex(t) \/ UnlockMutex(t) PROVE Onward(Tool, Tool')
  <2>1. PICK r : r = Tool'
    OBVIOUS
  <2>2. MutexSet(s, r)
    BY <1>0, <1>8, <2>1, MutexStep
  <2>3. Onward(s, r)
    BY <2>2 DEF MutexSet, Onward
  <2> QED BY <1>0, <2>1, <2>3
<1>9. ASSUME NEW x \in Addr, NEW how \in {"lock", "flag"}, ReuseMemory(x, how)
      PROVE  Onward(Tool, Tool')
  <2>1. PICK r : r = Tool'
    OBVIOUS
  <2>2. Renewed(s, r, x)
    BY <1>0, <1>9, <2>1, ReuseStep
  <2>3. Onward(s, r)
    BY <2>2 DEF Renewed, Onward
  <2> QED BY <1>0, <2>1, <2>3
<1> QED BY <1>1, <1>2, <1>3, <1>4, <1>5, <1>6, <1>7, <1>8, <1>9 DEF SpinNext, Steps

\* The state of the client, which the records do not depend on.
ClientOK ==
  /\ role \in [Addr -> {"lock", "flag"}] /\ val \in [Addr -> Maybe(Thr)]
  /\ at \in [Thr -> [a : Addr \cup {0}, got : BOOLEAN]]
  /\ loopOf \in [Addr -> Loop] /\ lastSpin \in [Thr -> Maybe(Loop)]
  /\ blame \in [Addr -> SUBSET {"overlap", "empty", "gaveUp", "return", "reused"}]
  /\ LoopKnown

LEMMA TypeParts == (SpinTypeOK /\ LoopKnown) <=> (ClientOK /\ Tool \in ToolState)
<1>1. SpinTypeOK /\ LoopKnown => ClientOK /\ Tool \in ToolState
  BY ToolType DEF SpinTypeOK, ClientOK
<1>2. ASSUME ClientOK, Tool \in ToolState PROVE SpinTypeOK /\ LoopKnown
  <2>1. /\ map_spin_locks \in [Addr -> Maybe(SpinRecord)]
        /\ map_locks \in [Addr -> Maybe(LockRecord)]
        /\ locksetA \in [Thr -> SUBSET (Addr \cup {Mutex})]
        /\ sv \in [Addr -> ShadowValue] /\ vid \in [Thr -> SUBSET Addr]
    BY <1>2, ToolFields, ToolParts
  <2> QED BY <1>2, <2>1 DEF SpinTypeOK, ClientOK, ShadowValue
<1> QED BY <1>1, <1>2

LEMMA IdleType ==
  /\ Idle \in [a : Addr \cup {0}, got : BOOLEAN] /\ Idle.a = 0 /\ 0 \notin Addr
  /\ \A x \in Addr, g \in BOOLEAN : /\ [a |-> x, got |-> g] \in [a : Addr \cup {0}, got : BOOLEAN]
                                    /\ [a |-> x, got |-> g] # Idle
BY SpinAssumption DEF Idle, Addr

\* The values that a step of t gives its own entries are of their types.
LEMMA LoopEntry ==
  ASSUME ClientOK, NEW t \in Thr, NEW e,
         e = Idle \/ \E x \in Addr, g \in BOOLEAN : e = [a |-> x, got |-> g],
         at' = [at EXCEPT ![t] = e]
  PROVE  at' \in [Thr -> [a : Addr \cup {0}, got : BOOLEAN]] /\ LoopKnown'
<1>1. e \in [a : Addr \cup {0}, got : BOOLEAN] /\ (e # Idle => e.a \in Addr)
  BY IdleType
<1>2. at' \in [Thr -> [a : Addr \cup {0}, got : BOOLEAN]]
  BY <1>1 DEF ClientOK
<1>3. ASSUME NEW u \in Thr, at'[u] # Idle PROVE at'[u].a \in Addr
  <2>1. CASE u = t
    BY <1>1, <1>3, <2>1 DEF ClientOK
  <2>2. CASE u # t
    <3>1. at'[u] = at[u]
      BY <2>2 DEF ClientOK
    <3> QED BY <1>3, <3>1 DEF ClientOK, LoopKnown
  <2> QED BY <2>1, <2>2
<1>4. LoopKnown'
  BY <1>3 DEF LoopKnown, Idle
<1> QED BY <1>2, <1>4

Blames == {"overlap", "empty", "gaveUp", "return", "reused"}

LEMMA ClientStep ==
  ASSUME ClientOK, SpinNext
  PROVE  ClientOK'
<1>0. /\ role \in [Addr -> {"lock", "flag"}] /\ val \in [Addr -> Maybe(Thr)]
      /\ at \in [Thr -> [a : Addr \cup {0}, got : BOOLEAN]]
      /\ loopOf \in [Addr -> Loop] /\ lastSpin \in [Thr -> Maybe(Loop)]
      /\ blame \in [Addr -> SUBSET Blames] /\ LoopKnown
  BY DEF ClientOK, Blames
<1>1. ASSUME NEW t \in Thr, NEW x \in Addr, TestAndSet(t, x) PROVE ClientOK'
  <2>1. PICK g \in BOOLEAN : g = (val[x] = None)
    <3>1. (val[x] = None) \in BOOLEAN
      OBVIOUS
    <3> QED BY <3>1, Zenon
  <2>2. at' = [at EXCEPT ![t] = [a |-> x, got |-> g]]
    BY <1>1, <2>1 DEF TestAndSet
  <2>3. at' \in [Thr -> [a : Addr \cup {0}, got : BOOLEAN]] /\ LoopKnown'
    BY <2>2, LoopEntry
  <2>4. val' \in [Addr -> Maybe(Thr)]
    BY <1>0, <1>1 DEF TestAndSet, Maybe
  <2>5. lastSpin' \in [Thr -> Maybe(Loop)]
    BY <1>0, <1>1 DEF TestAndSet, Maybe
  <2>6. PICK B \in SUBSET Blames : blame' = [blame EXCEPT ![x] = blame[x] \cup B]
    <3>1. PICK B : B = (IF Overlaps(x) THEN {"overlap"} ELSE {})
                        \cup (IF loopOf[x] = EmptyLoop /\ val[x] # None THEN {"empty"} ELSE {})
      OBVIOUS
    <3>2. B \in SUBSET Blames
      BY <3>1 DEF Blames
    <3>3. blame[x] \cup (IF Overlaps(x) THEN {"overlap"} ELSE {})
            \cup (IF loopOf[x] = EmptyLoop /\ val[x] # None THEN {"empty"} ELSE {})
            = blame[x] \cup B
      BY <3>1
    <3>4. blame' = [blame EXCEPT ![x] = blame[x] \cup B]
      BY <1>1, <3>3 DEF TestAndSet
    <3> QED BY <3>2, <3>4
  <2>7. blame' \in [Addr -> SUBSET Blames]
    BY <1>0, <2>6
  <2>8. role' = role /\ loopOf' = loopOf
    BY <1>1 DEF TestAndSet
  <2> QED BY <1>0, <2>3, <2>4, <2>5, <2>7, <2>8 DEF ClientOK, Blames
<1>2. ASSUME NEW t \in Thr, NEW x \in Addr, SpinTest(t, x) PROVE ClientOK'
  <2>1. PICK g \in BOOLEAN : g = (role[x] = "flag" /\ val[x] # None)
    <3>1. (role[x] = "flag" /\ val[x] # None) \in BOOLEAN
      OBVIOUS
    <3> QED BY <3>1, Zenon
  <2>2. at' = [at EXCEPT ![t] = [a |-> x, got |-> g]]
    BY <1>2, <2>1 DEF SpinTest
  <2>3. at' \in [Thr -> [a : Addr \cup {0}, got : BOOLEAN]] /\ LoopKnown'
    BY <2>2, LoopEntry
  <2>4. lastSpin' \in [Thr -> Maybe(Loop)]
    BY <1>0, <1>2 DEF SpinTest, Maybe
  <2>5. role' = role /\ loopOf' = loopOf /\ val' = val /\ blame' = blame
    BY <1>2 DEF SpinTest
  <2> QED BY <1>0, <2>3, <2>4, <2>5 DEF ClientOK, Blames
<1>3. ASSUME NEW t \in Thr, ExitLoop(t) PROVE ClientOK'
  <2>1. at' \in [Thr -> [a : Addr \cup {0}, got : BOOLEAN]] /\ LoopKnown'
    BY <1>3, LoopEntry DEF ExitLoop
  <2>2. lastSpin' \in [Thr -> Maybe(Loop)]
    BY <1>0, <1>3 DEF ExitLoop, Maybe
  <2>3. at[t].a \in Addr
    BY <1>0, <1>3 DEF ExitLoop, LoopKnown
  <2>4. blame' \in [Addr -> SUBSET Blames]
    <3>1. [blame EXCEPT ![at[t].a] = blame[at[t].a] \cup {"gaveUp"}] \in [Addr -> SUBSET Blames]
      BY <1>0, <2>3 DEF Blames
    <3> QED BY <1>0, <1>3, <3>1 DEF ExitLoop
  <2>5. role' = role /\ loopOf' = loopOf /\ val' = val
    BY <1>3 DEF ExitLoop
  <2> QED BY <1>0, <2>1, <2>2, <2>4, <2>5 DEF ClientOK, Blames
<1>4. ASSUME NEW t \in Thr, ReturnFromLoop(t) PROVE ClientOK'
  <2>1. at' \in [Thr -> [a : Addr \cup {0}, got : BOOLEAN]] /\ LoopKnown'
    BY <1>4, LoopEntry DEF ReturnFromLoop
  <2>2. blame' \in [Addr -> SUBSET Blames]
    BY <1>0, <1>4 DEF ReturnFromLoop, Blames
  <2>3. role' = role /\ loopOf' = loopOf /\ val' = val /\ lastSpin' = lastSpin
    BY <1>4 DEF ReturnFromLoop
  <2> QED BY <1>0, <2>1, <2>2, <2>3 DEF ClientOK, Blames
<1>5. ASSUME NEW t \in Thr, NEW x \in Addr, NEW atomic \in BOOLEAN, Unlock(t, x, atomic)
      PROVE  ClientOK'
  <2>1. val' \in [Addr -> Maybe(Thr)]
    BY <1>0, <1>5 DEF Unlock, Maybe
  <2>2. role' = role /\ loopOf' = loopOf /\ at' = at /\ lastSpin' = lastSpin /\ blame' = blame
    BY <1>5 DEF Unlock
  <2> QED BY <1>0, <2>1, <2>2 DEF ClientOK, Blames, LoopKnown, Idle
<1>6. ASSUME NEW t \in Thr, NEW x \in Addr, SetFlag(t, x) PROVE ClientOK'
  <2>1. val' \in [Addr -> Maybe(Thr)]
    BY <1>0, <1>6 DEF SetFlag, Maybe
  <2>2. role' = role /\ loopOf' = loopOf /\ at' = at /\ lastSpin' = lastSpin /\ blame' = blame
    BY <1>6 DEF SetFlag
  <2> QED BY <1>0, <2>1, <2>2 DEF ClientOK, Blames, LoopKnown, Idle
<1>7. ASSUME NEW t \in Thr, ExitThread(t) \/ LockMutex(t) \/ UnlockMutex(t) PROVE ClientOK'
  <2>1. /\ role' = role /\ loopOf' = loopOf /\ at' = at /\ lastSpin' = lastSpin /\ blame' = blame
        /\ val' = val
    BY <1>7 DEF ExitThread, LockMutex, UnlockMutex
  <2> QED BY <1>0, <2>1 DEF ClientOK, Blames, LoopKnown, Idle
<1>8. ASSUME NEW x \in Addr, NEW how \in {"lock", "flag"}, ReuseMemory(x, how) PROVE ClientOK'
  <2>1. val' \in [Addr -> Maybe(Thr)] /\ role' \in [Addr -> {"lock", "flag"}]
    BY <1>0, <1>8 DEF ReuseMemory, Maybe
  <2>2. blame' \in [Addr -> SUBSET Blames]
    <3>1. blame' = [blame EXCEPT ![x] = blame[x] \cup {"reused"}]
      BY <1>8 DEF ReuseMemory
    <3> QED BY <1>0, <3>1 DEF Blames
  <2>3. loopOf' = loopOf /\ at' = at /\ lastSpin' = lastSpin
    BY <1>8 DEF ReuseMemory
  <2> QED BY <1>0, <2>1, <2>2, <2>3 DEF ClientOK, Blames, LoopKnown, Idle
<1> QED BY <1>1, <1>2, <1>3, <1>4, <1>5, <1>6, <1>7, <1>8 DEF SpinNext, Steps

LEMMA BaseInit ==
  ASSUME SpinInit
  PROVE  BaseInv
<1>1. SpinTypeOK /\ LoopKnown
  <2>1. ClientOK
    BY IdleType DEF SpinInit, ClientOK, LoopKnown, Maybe
  <2>2. Tool \in ToolState
    <3>1. New \in ShadowValue
      BY DEF New, ShadowValue
    <3> QED BY <3>1 DEF SpinInit, Tool, ToolState, Maybe
  <2> QED BY <2>1, <2>2, TypeParts
<1>2. ASSUME NEW x \in Addr PROVE Coherent(Tool, x)
  <2>1. Tool.spin[x] = None /\ Tool.locks[x] = None /\ \A t \in Thr : x \notin Tool.ls[t]
    BY ToolParts DEF SpinInit
  <2> QED BY <2>1 DEF Coherent, SpinHeld, LockHeld
<1> QED BY <1>1, <1>2, ToolType DEF BaseInv, ToolInv

LEMMA BaseStep ==
  ASSUME BaseInv, [SpinNext]_spinVars
  PROVE  BaseInv' /\ \A x \in Addr : Invalidated(map_spin_locks[x]) => Invalidated(map_spin_locks'[x])
<1>1. CASE SpinNext
  <2>1. Onward(Tool, Tool')
    BY <1>1, StepOnward
  <2>2. ClientOK'
    BY <1>1, ClientStep, TypeParts DEF BaseInv
  <2>3. Tool' \in ToolInv /\ Tool' \in ToolState
        /\ \A x \in Addr : Invalidated(Tool.spin[x]) => Invalidated((Tool').spin[x])
    BY <2>1 DEF Onward, ToolInv
  <2>4. (SpinTypeOK /\ LoopKnown)' <=> (ClientOK /\ Tool \in ToolState)'
    BY TypeParts, PTL
  <2>5. SpinTypeOK' /\ LoopKnown'
    BY <2>2, <2>3, <2>4
  <2>6. (Tool').spin = map_spin_locks' /\ Tool.spin = map_spin_locks
    BY DEF Tool
  <2> QED BY <2>3, <2>5, <2>6 DEF BaseInv
<1>2. CASE UNCHANGED spinVars
  <2>1. Tool' = Tool /\ map_spin_locks' = map_spin_locks
    BY <1>2 DEF spinVars, Tool
  <2>2. SpinTypeOK' /\ LoopKnown'
    BY <1>2 DEF spinVars, BaseInv, SpinTypeOK, LoopKnown, Idle
  <2> QED BY <2>1, <2>2 DEF BaseInv
<1> QED BY <1>1, <1>2

\* Whatever the client does, the records of the tool stay within their types.
THEOREM SpinType == SpinSpec => []SpinTypeOK
<1>1. SpinInit => BaseInv
  BY BaseInit
<1>2. BaseInv /\ [SpinNext]_spinVars => BaseInv'
  BY BaseStep
<1>3. BaseInv => SpinTypeOK
  BY DEF BaseInv
<1> QED BY <1>1, <1>2, <1>3, PTL DEF SpinSpec

\* For any number of threads, addresses and loops, the spin record, the lock
\* in map_locks and the locksets never disagree about who holds a spin lock:
\* every path that takes or drops a lock (the exit of a loop, a write outside,
\* the exit of a thread) changes the three of them together.
THEOREM SpinRecordsAgree == SpinSpec => []RecordsAgree
<1>1. SpinInit => BaseInv
  BY BaseInit
<1>2. BaseInv /\ [SpinNext]_spinVars => BaseInv'
  BY BaseStep
<1>3. ASSUME BaseInv PROVE RecordsAgree
  <2>1. ASSUME NEW x \in Addr, NEW t \in Thr
        PROVE  LET inSpin == IF map_spin_locks[x] = None THEN 0 ELSE map_spin_locks[x].sLk.heldBy[t]
                   inLock == IF map_locks[x] = None THEN 0 ELSE map_locks[x].heldBy[t]
               IN inSpin = inLock /\ (x \in locksetA[t] <=> inLock > 0)
    <3>1. Coherent(Tool, x)
      BY <1>3 DEF BaseInv, ToolInv
    <3>2. /\ SpinHeld(Tool, x, t) \in {0, 1} /\ LockHeld(Tool, x, t) = SpinHeld(Tool, x, t)
          /\ x \in Tool.ls[t] <=> SpinHeld(Tool, x, t) = 1
      BY <3>1 DEF Coherent
    <3>3. /\ SpinHeld(Tool, x, t)
               = IF map_spin_locks[x] = None THEN 0 ELSE map_spin_locks[x].sLk.heldBy[t]
          /\ LockHeld(Tool, x, t) = IF map_locks[x] = None THEN 0 ELSE map_locks[x].heldBy[t]
      BY ToolParts DEF SpinHeld, LockHeld
    <3> QED BY <3>2, <3>3, ToolParts
  <2> QED BY <2>1 DEF RecordsAgree
<1> QED BY <1>1, <1>2, <1>3, PTL DEF SpinSpec

\* The verdict "not a lock" is never withdrawn, by any step of any thread: the
\* writes that could rewrite wasReleasedBefore only do so for the holder of
\* the lock, and an address with that verdict has no holder.
THEOREM VerdictIsFinal == SpinSpec => NotALockIsFinal
<1>1. SpinInit => BaseInv
  BY BaseInit
<1>2. BaseInv /\ [SpinNext]_spinVars => BaseInv'
  BY BaseStep
<1>3. BaseInv /\ [SpinNext]_spinVars
        => [VerdictStays]_spinVars
  BY BaseStep DEF VerdictStays
<1> QED BY <1>1, <1>2, <1>3, PTL DEF SpinSpec, NotALockIsFinal

----------------------------------------------------------------------------
(* Locks are held for real *)

\* The tool has been led astray for good at x.
Spoilt(x) == blame[x] \cap {"gaveUp", "return", "empty"} # {}

\* In a loop, the tool knows which; outside, it knows that there is none,
\* unless a return has led it astray.
ThreadInv(t) ==
  /\ at[t] # Idle => lastSpin[t] = loopOf[at[t].a]
  /\ at[t] = Idle => lastSpin[t] \in {None, EmptyLoop} \/ \A x \in Addr : "return" \in blame[x]

\* A thread that got what it waited for has it, and what it waits for is a
\* spin variable.
GotInv(t) ==
  /\ at[t].got => val[at[t].a] # None /\ (role[at[t].a] = "lock" => val[at[t].a] = t)
  /\ at[t] # Idle => sv[at[t].a].st = "SpinVar" /\ map_spin_locks[at[t].a] # None

\* The loop of a record is the loop that waits for its address.
SpInv(x) ==
  map_spin_locks[x] # None => map_spin_locks[x].sp = loopOf[x] \/ "return" \in blame[x]

\* Who is said to hold x holds it.
HeldInv(x) ==
  \A t \in Thr : x \in locksetA[t] =>
    Spoilt(x) \/ (role[x] = "lock" /\ val[x] = t /\ sv[x].st = "SpinVar")

\* Who is said to be trying to take x is in a loop for it.
WriterInv(x) ==
  \A t \in Thr :
    map_spin_locks[x] # None /\ map_spin_locks[x].lastSpinWriter = t =>
      \/ Invalidated(map_spin_locks[x]) \/ Spoilt(x)
      \/ role[x] = "lock" /\ at[t].a = x /\ loopOf[x] # EmptyLoop

AddrInv(x) == SpInv(x) /\ HeldInv(x) /\ WriterInv(x)

HoldInv ==
  /\ BaseInv
  /\ \A t \in Thr : ThreadInv(t) /\ GotInv(t)
  /\ \A x \in Addr : AddrInv(x)

LEMMA HoldInit ==
  ASSUME SpinInit
  PROVE  HoldInv
<1>1. BaseInv
  BY BaseInit
<1>2. \A t \in Thr : ThreadInv(t) /\ GotInv(t)
  BY DEF SpinInit, ThreadInv, GotInv, Idle
<1>3. \A x \in Addr : AddrInv(x)
  BY DEF SpinInit, AddrInv, SpInv, HeldInv, WriterInv
<1> QED BY <1>1, <1>2, <1>3 DEF HoldInv

LEMMA HoldIsRealLemma ==
  ASSUME HoldInv
  PROVE  HoldIsReal
BY DEF HoldInv, AddrInv, HeldInv, Spoilt, HoldIsReal

\* What is held against the detection is never forgotten.
LEMMA BlameGrows ==
  ASSUME ClientOK, SpinNext
  PROVE  loopOf' = loopOf /\ \A x \in Addr : blame[x] \subseteq blame'[x]
<1>0. blame \in [Addr -> SUBSET Blames] /\ LoopKnown
  BY DEF ClientOK, Blames
<1>1. ASSUME NEW t \in Thr, NEW x \in Addr, TestAndSet(t, x)
      PROVE  loopOf' = loopOf /\ \A y \in Addr : blame[y] \subseteq blame'[y]
  <2>1. PICK B : blame' = [blame EXCEPT ![x] = blame[x] \cup B]
    <3>1. PICK B : B = (IF Overlaps(x) THEN {"overlap"} ELSE {})
                        \cup (IF loopOf[x] = EmptyLoop /\ val[x] # None THEN {"empty"} ELSE {})
      OBVIOUS
    <3>3. blame[x] \cup (IF Overlaps(x) THEN {"overlap"} ELSE {})
            \cup (IF loopOf[x] = EmptyLoop /\ val[x] # None THEN {"empty"} ELSE {})
            = blame[x] \cup B
      BY <3>1
    <3>4. blame' = [blame EXCEPT ![x] = blame[x] \cup B]
      BY <1>1, <3>3 DEF TestAndSet
    <3> QED BY <3>4
  <2>2. loopOf' = loopOf
    BY <1>1 DEF TestAndSet
  <2> QED BY <1>0, <2>1, <2>2
<1>2. ASSUME NEW t \in Thr, NEW x \in Addr, SpinTest(t, x)
      PROVE  loopOf' = loopOf /\ \A y \in Addr : blame[y] \subseteq blame'[y]
  BY <1>2 DEF SpinTest
<1>3. ASSUME NEW t \in Thr, ExitLoop(t)
      PROVE  loopOf' = loopOf /\ \A y \in Addr : blame[y] \subseteq blame'[y]
  <2>1. at[t].a \in Addr
    BY <1>0, <1>3 DEF ExitLoop, LoopKnown
  <2>2. loopOf' = loopOf
    BY <1>3 DEF ExitLoop
  <2>3. blame' = blame \/ blame' = [blame EXCEPT ![at[t].a] = blame[at[t].a] \cup {"gaveUp"}]
    BY <1>3 DEF ExitLoop
  <2> QED BY <1>0, <2>1, <2>2, <2>3
<1>4. ASSUME NEW t \in Thr, ReturnFromLoop(t)
      PROVE  loopOf' = loopOf /\ \A y \in Addr : blame[y] \subseteq blame'[y]
  BY <1>0, <1>4 DEF ReturnFromLoop
<1>5. ASSUME NEW t \in Thr, NEW x \in Addr, NEW atomic \in BOOLEAN, Unlock(t, x, atomic)
      PROVE  loopOf' = loopOf /\ \A y \in Addr : blame[y] \subseteq blame'[y]
  BY <1>5 DEF Unlock
<1>6. ASSUME NEW t \in Thr, NEW x \in Addr, SetFlag(t, x)
      PROVE  loopOf' = loopOf /\ \A y \in Addr : blame[y] \subseteq blame'[y]
  BY <1>6 DEF SetFlag
<1>7. ASSUME NEW t \in Thr, ExitThread(t) \/ LockMutex(t) \/ UnlockMutex(t)
      PROVE  loopOf' = loopOf /\ \A y \in Addr : blame[y] \subseteq blame'[y]
  BY <1>7 DEF ExitThread, LockMutex, UnlockMutex
<1>8. ASSUME NEW x \in Addr, NEW how \in {"lock", "flag"}, ReuseMemory(x, how)
      PROVE  loopOf' = loopOf /\ \A y \in Addr : blame[y] \subseteq blame'[y]
  <2>1. blame' = [blame EXCEPT ![x] = blame[x] \cup {"reused"}] /\ loopOf' = loopOf
    BY <1>8 DEF ReuseMemory
  <2> QED BY <1>0, <2>1
<1> QED BY <1>1, <1>2, <1>3, <1>4, <1>5, <1>6, <1>7, <1>8 DEF SpinNext, Steps

\* A step that does not make the record of x claim more than before.
Calm(s, r, x, L) ==
  /\ \A u \in Thr : x \in r.ls[u] => x \in s.ls[u]
  /\ s.sv[x].st = "SpinVar" => r.sv[x].st = "SpinVar"
  /\ Invalidated(s.spin[x]) => Invalidated(r.spin[x])
  /\ s.spin[x] # None => r.spin[x] # None
  /\ r.spin[x] # None /\ r.spin[x].lastSpinWriter # None
       => s.spin[x] # None /\ r.spin[x].lastSpinWriter = s.spin[x].lastSpinWriter
  /\ r.spin[x] # None => r.spin[x].sp = L \/ (s.spin[x] # None /\ r.spin[x].sp = s.spin[x].sp)

LEMMA CalmAddr ==
  ASSUME NEW x \in Addr, AddrInv(x), Calm(Tool, Tool', x, loopOf[x]),
         loopOf' = loopOf, role'[x] = role[x], val'[x] = val[x], blame[x] \subseteq blame'[x],
         \A t \in Thr : at[t].a = x => at'[t].a = x
  PROVE  AddrInv(x)'
<1>0. PICK s, r : s = Tool /\ r = Tool'
  OBVIOUS
<1>1. /\ s.spin = map_spin_locks /\ s.ls = locksetA /\ s.sv = sv
      /\ r.spin = map_spin_locks' /\ r.ls = locksetA' /\ r.sv = sv'
  BY <1>0 DEF Tool
<1>2. Calm(s, r, x, loopOf[x])
  BY <1>0
<1>3. Spoilt(x) => Spoilt(x)'
  BY DEF Spoilt
<1>4. SpInv(x)'
  BY <1>1, <1>2 DEF AddrInv, SpInv, Calm
<1>5. HeldInv(x)'
  BY <1>1, <1>2, <1>3 DEF AddrInv, HeldInv, Calm
<1>6. WriterInv(x)'
  BY <1>1, <1>2, <1>3, SpinAssumption DEF AddrInv, WriterInv, Calm
<1> QED BY <1>4, <1>5, <1>6 DEF AddrInv

\* Where a return has led the tool astray there is nothing left to show.
LEMMA ReturnAddr ==
  ASSUME NEW x, "return" \in blame'[x]
  PROVE  AddrInv(x)'
<1>1. Spoilt(x)'
  BY DEF Spoilt
<1> QED BY <1>1 DEF AddrInv, SpInv, HeldInv, WriterInv

\* Elsewhere it is enough that the loop of the record is right.
LEMMA SpoiltAddr ==
  ASSUME NEW x, Spoilt(x)', SpInv(x)'
  PROVE  AddrInv(x)'
BY DEF AddrInv, HeldInv, WriterInv

LEMMA SameCalm ==
  ASSUME NEW s, NEW r, NEW x, NEW L, SameAt(s, r, x)
  PROVE  Calm(s, r, x, L)
BY DEF SameAt, Calm

LEMMA ReadCalm ==
  ASSUME NEW s, NEW r, NEW t \in Thr, NEW x \in Addr, NEW L, ReadOf(s, r, t, x, L),
         NEW y \in Addr, NEW K, y = x => K = L
  PROVE  Calm(s, r, y, K)
<1>1. CASE y # x
  BY <1>1, SameCalm DEF ReadOf
<1>2. CASE y = x
  BY <1>2 DEF ReadOf, SameRole, Calm
<1> QED BY <1>1, <1>2

\* The client's part of the invariant, thread by thread.
LEMMA ThreadStep ==
  ASSUME HoldInv, SpinNext
  PROVE  \A t \in Thr : ThreadInv(t)'
<1>0. ClientOK /\ at \in [Thr -> [a : Addr \cup {0}, got : BOOLEAN]]
      /\ lastSpin \in [Thr -> Maybe(Loop)] /\ LoopKnown /\ \A t \in Thr : ThreadInv(t)
  BY TypeParts DEF HoldInv, BaseInv, ClientOK
<1>1. loopOf' = loopOf /\ \A x \in Addr : blame[x] \subseteq blame'[x]
  BY <1>0, BlameGrows
<1>2. ASSUME NEW u \in Thr, at'[u] = at[u], lastSpin'[u] = lastSpin[u] PROVE ThreadInv(u)'
  <2>1. ThreadInv(u)
    BY <1>0
  <2> QED BY <1>1, <1>2, <2>1 DEF ThreadInv, Idle
<1>3. ASSUME NEW t \in Thr, NEW x \in Addr, NEW g \in BOOLEAN,
             at' = [at EXCEPT ![t] = [a |-> x, got |-> g]],
             lastSpin' = [lastSpin EXCEPT ![t] = loopOf[x]]
      PROVE  \A u \in Thr : ThreadInv(u)'
  <2>1. \A u \in Thr : u # t => at'[u] = at[u] /\ lastSpin'[u] = lastSpin[u]
    BY <1>0, <1>3
  <2>2. at'[t] = [a |-> x, got |-> g] /\ lastSpin'[t] = loopOf[x]
    BY <1>0, <1>3
  <2>3. at'[t] # Idle /\ at'[t].a = x
    BY <2>2, IdleType
  <2>4. ThreadInv(t)'
    BY <1>1, <2>2, <2>3 DEF ThreadInv, Idle
  <2> QED BY <1>2, <2>1, <2>4
<1>4. ASSUME NEW t \in Thr, NEW x \in Addr, TestAndSet(t, x)
      PROVE  \A u \in Thr : ThreadInv(u)'
  <2>1. PICK g \in BOOLEAN : g = (val[x] = None)
    <3>1. (val[x] = None) \in BOOLEAN
      OBVIOUS
    <3> QED BY <3>1, Zenon
  <2>2. /\ at' = [at EXCEPT ![t] = [a |-> x, got |-> g]]
        /\ lastSpin' = [lastSpin EXCEPT ![t] = loopOf[x]]
    BY <1>4, <2>1 DEF TestAndSet
  <2> QED BY <1>3, <2>2
<1>5. ASSUME NEW t \in Thr, NEW x \in Addr, SpinTest(t, x)
      PROVE  \A u \in Thr : ThreadInv(u)'
  <2>1. PICK g \in BOOLEAN : g = (role[x] = "flag" /\ val[x] # None)
    <3>1. (role[x] = "flag" /\ val[x] # None) \in BOOLEAN
      OBVIOUS
    <3> QED BY <3>1, Zenon
  <2>2. /\ at' = [at EXCEPT ![t] = [a |-> x, got |-> g]]
        /\ lastSpin' = [lastSpin EXCEPT ![t] = loopOf[x]]
    BY <1>5, <2>1 DEF SpinTest
  <2> QED BY <1>3, <2>2
<1>6. ASSUME NEW t \in Thr, ExitLoop(t) PROVE \A u \in Thr : ThreadInv(u)'
  <2>1. at' = [at EXCEPT ![t] = Idle]
    BY <1>6 DEF ExitLoop
  <2>2. \A u \in Thr : u # t => at'[u] = at[u] /\ lastSpin'[u] = lastSpin[u]
    BY <1>0, <1>6, <2>1 DEF ExitLoop
  <2>3. lastSpin'[t] \in {None, EmptyLoop}
    <3>1. at[t] # Idle /\ lastSpin[t] = loopOf[at[t].a]
      BY <1>0, <1>6 DEF ExitLoop, ThreadInv
    <3>2. CASE loopOf[at[t].a] = EmptyLoop
      BY <1>6, <3>1, <3>2 DEF ExitLoop
    <3>3. CASE loopOf[at[t].a] # EmptyLoop
      <4>1. lastSpin' = [lastSpin EXCEPT ![t] = None]
        BY <1>6, <3>3 DEF ExitLoop
      <4> QED BY <1>0, <4>1
    <3> QED BY <3>2, <3>3
  <2>4. at'[t] = Idle
    BY <1>0, <2>1
  <2>5. ThreadInv(t)'
    BY <2>3, <2>4 DEF ThreadInv, Idle
  <2> QED BY <1>2, <2>2, <2>5
<1>7. ASSUME NEW t \in Thr, ReturnFromLoop(t) PROVE \A u \in Thr : ThreadInv(u)'
  <2>1. at' = [at EXCEPT ![t] = Idle] /\ lastSpin' = lastSpin
    BY <1>7 DEF ReturnFromLoop
  <2>2. \A x \in Addr : "return" \in blame'[x]
    BY <1>7 DEF ReturnFromLoop
  <2>3. at'[t] = Idle /\ \A u \in Thr : u # t => at'[u] = at[u]
    BY <1>0, <2>1
  <2>4. ThreadInv(t)'
    BY <2>2, <2>3 DEF ThreadInv, Idle
  <2> QED BY <1>2, <2>1, <2>3, <2>4
<1>8. ASSUME at' = at, lastSpin' = lastSpin PROVE \A u \in Thr : ThreadInv(u)'
  BY <1>2, <1>8
<1>9. ASSUME NEW t \in Thr, NEW x \in Addr, NEW atomic \in BOOLEAN, Unlock(t, x, atomic)
      PROVE  at' = at /\ lastSpin' = lastSpin
  BY <1>9 DEF Unlock
<1>10. ASSUME NEW t \in Thr, NEW x \in Addr, SetFlag(t, x) PROVE at' = at /\ lastSpin' = lastSpin
  BY <1>10 DEF SetFlag
<1>11. ASSUME NEW t \in Thr, ExitThread(t) \/ LockMutex(t) \/ UnlockMutex(t)
       PROVE  at' = at /\ lastSpin' = lastSpin
  BY <1>11 DEF ExitThread, LockMutex, UnlockMutex
<1>12. ASSUME NEW x \in Addr, NEW how \in {"lock", "flag"}, ReuseMemory(x, how)
       PROVE  at' = at /\ lastSpin' = lastSpin
  BY <1>12 DEF ReuseMemory
<1> QED BY <1>4, <1>5, <1>6, <1>7, <1>8, <1>9, <1>10, <1>11, <1>12 DEF SpinNext, Steps

\* A spin variable stays one.
Stays(s, r, x) ==
  /\ s.sv[x].st = "SpinVar" => r.sv[x].st = "SpinVar"
  /\ s.spin[x] # None => r.spin[x] # None

LEMMA CalmStays ==
  ASSUME NEW s, NEW r, NEW x, NEW L, Calm(s, r, x, L)
  PROVE  Stays(s, r, x)
BY DEF Calm, Stays

LEMMA GotStays ==
  ASSUME NEW u \in Thr, GotInv(u), ClientOK, at'[u] = at[u],
         at[u] # Idle => /\ Stays(Tool, Tool', at[u].a) /\ role'[at[u].a] = role[at[u].a]
                         /\ at[u].got => val'[at[u].a] = val[at[u].a]
  PROVE  GotInv(u)'
<1>0. PICK s, r : s = Tool /\ r = Tool'
  OBVIOUS
<1>1. /\ s.spin = map_spin_locks /\ s.sv = sv /\ r.spin = map_spin_locks' /\ r.sv = sv'
  BY <1>0 DEF Tool
<1>2. CASE at[u] = Idle
  BY <1>2 DEF GotInv, Idle
<1>3. CASE at[u] # Idle
  <2>1. Stays(s, r, at[u].a) /\ role'[at[u].a] = role[at[u].a]
        /\ (at[u].got => val'[at[u].a] = val[at[u].a])
    BY <1>0, <1>3
  <2>2. sv'[at[u].a].st = "SpinVar" /\ map_spin_locks'[at[u].a] # None
    BY <1>1, <1>3, <2>1 DEF GotInv, Stays
  <2>3. at[u].got => val'[at[u].a] # None /\ (role'[at[u].a] = "lock" => val'[at[u].a] = u)
    BY <2>1 DEF GotInv
  <2> QED BY <2>2, <2>3 DEF GotInv
<1> QED BY <1>2, <1>3

\* The facts about the client that the steps start from.
LEMMA HoldFacts ==
  ASSUME HoldInv
  PROVE  /\ BaseInv /\ ClientOK /\ LoopKnown
         /\ at \in [Thr -> [a : Addr \cup {0}, got : BOOLEAN]]
         /\ role \in [Addr -> {"lock", "flag"}] /\ val \in [Addr -> Maybe(Thr)]
         /\ loopOf \in [Addr -> Loop] /\ lastSpin \in [Thr -> Maybe(Loop)]
         /\ blame \in [Addr -> SUBSET Blames]
         /\ \A t \in Thr : ThreadInv(t) /\ GotInv(t)
         /\ \A x \in Addr : AddrInv(x) /\ SpInv(x) /\ HeldInv(x) /\ WriterInv(x)
BY TypeParts DEF HoldInv, BaseInv, ClientOK, AddrInv, Blames

\* What the invariants say of the shared state after a step.
HoldNext == (\A u \in Thr : GotInv(u)') /\ (\A y \in Addr : AddrInv(y)')

LEMMA SpinTestHold ==
  ASSUME HoldInv, SpinNext, NEW t \in Thr, NEW x \in Addr, SpinTest(t, x)
  PROVE  HoldNext
<1>0. /\ BaseInv /\ ClientOK /\ LoopKnown
      /\ at \in [Thr -> [a : Addr \cup {0}, got : BOOLEAN]]
      /\ \A u \in Thr : GotInv(u)
      /\ \A y \in Addr : AddrInv(y)
  BY HoldFacts
<1>1. loopOf' = loopOf /\ \A y \in Addr : blame[y] \subseteq blame'[y]
  BY <1>0, BlameGrows
<1>2. ReadOf(Tool, Tool', t, x, loopOf[x])
  BY <1>0, SpinTestStep
<1>3. ASSUME NEW y \in Addr PROVE Calm(Tool, Tool', y, loopOf[y])
  BY <1>2, ReadCalm
<1>4. PICK g \in BOOLEAN : g = (role[x] = "flag" /\ val[x] # None)
  <2>1. (role[x] = "flag" /\ val[x] # None) \in BOOLEAN
    OBVIOUS
  <2> QED BY <2>1, Zenon
<1>5. at' = [at EXCEPT ![t] = [a |-> x, got |-> g]] /\ role' = role /\ val' = val
  BY <1>4 DEF SpinTest
<1>6. at'[t] = [a |-> x, got |-> g] /\ \A u \in Thr : u # t => at'[u] = at[u]
  BY <1>0, <1>5
<1>7. at[t].a = x \/ at[t].a = 0
  BY IdleType DEF SpinTest, MayLoop
<1>8. ASSUME NEW y \in Addr PROVE AddrInv(y)'
  <2>1. \A u \in Thr : at[u].a = y => at'[u].a = y
    BY <1>6, <1>7, IdleType
  <2> QED BY <1>0, <1>1, <1>3, <1>5, <2>1, CalmAddr
<1>9. ASSUME NEW u \in Thr, u # t PROVE GotInv(u)'
  <2>1. at[u] # Idle => at[u].a \in Addr
    BY <1>0 DEF LoopKnown
  <2>2. at[u] # Idle => Stays(Tool, Tool', at[u].a)
    BY <1>3, <2>1, CalmStays
  <2> QED BY <1>0, <1>5, <1>6, <1>9, <2>2, GotStays
<1>10. GotInv(t)'
  <2>1. PICK r : r = Tool'
    OBVIOUS
  <2>2. r.sv[x].st = "SpinVar" /\ r.spin[x] # None /\ r.sv = sv' /\ r.spin = map_spin_locks'
    BY <1>2, <2>1 DEF ReadOf, Tool
  <2>3. at'[t].a = x /\ at'[t].got = g
    BY <1>6
  <2>4. g => val'[x] # None /\ role'[x] # "lock"
    BY <1>4, <1>5
  <2> QED BY <2>2, <2>3, <2>4 DEF GotInv
<1> QED BY <1>8, <1>9, <1>10 DEF HoldNext

\* An exit leaves the other addresses alone, unless the record names t there.
LEMMA ExitedCalm ==
  ASSUME NEW s, NEW r, NEW t \in Thr, NEW L, NEW x, ExitedAt(s, r, t, L, x)
  PROVE  /\ Stays(s, r, x)
         /\ ~Pending(s, t, L, x) => SameAt(s, r, x)
         /\ r.spin[x] # None => r.spin[x].sp = L \/ (s.spin[x] # None /\ r.spin[x].sp = s.spin[x].sp)
         /\ Pending(s, t, L, x) => r.spin[x].sp = s.spin[x].sp /\ s.spin[x] # None
<1>1. CASE Pending(s, t, L, x)
  BY <1>1 DEF ExitedAt, Stays, Pending
<1>2. CASE ~Pending(s, t, L, x)
  BY <1>2 DEF ExitedAt, Stays, SameAt
<1> QED BY <1>1, <1>2

LEMMA TestAndSetHold ==
  ASSUME HoldInv, SpinNext, NEW t \in Thr, NEW x \in Addr, TestAndSet(t, x)
  PROVE  HoldNext
<1>0. /\ BaseInv /\ ClientOK /\ LoopKnown
      /\ at \in [Thr -> [a : Addr \cup {0}, got : BOOLEAN]]
      /\ val \in [Addr -> Maybe(Thr)] /\ blame \in [Addr -> SUBSET Blames]
      /\ \A u \in Thr : GotInv(u)
      /\ \A y \in Addr : AddrInv(y) /\ SpInv(y) /\ HeldInv(y) /\ WriterInv(y)
  BY HoldFacts
<1>1. loopOf' = loopOf /\ \A y \in Addr : blame[y] \subseteq blame'[y]
  BY <1>0, BlameGrows
<1>2. PICK s1 \in ToolInv : /\ ReadOf(Tool, s1, t, x, loopOf[x])
                            /\ TriedAll(s1, Tool', t, loopOf[x], x)
  BY <1>0, TestAndSetStep
<1>3. PICK s, r, L : s = Tool /\ r = Tool' /\ L = loopOf[x]
  OBVIOUS
<1>4. /\ s.spin = map_spin_locks /\ s.ls = locksetA /\ s.sv = sv
      /\ r.spin = map_spin_locks' /\ r.ls = locksetA' /\ r.sv = sv'
  BY <1>3 DEF Tool
<1>5. ReadOf(s, s1, t, x, L) /\ TriedAll(s1, r, t, L, x)
  BY <1>2, <1>3
<1>6. \A y \in Addr : y # x => SameAt(s, s1, y)
  BY <1>5 DEF ReadOf
<1>7. PICK g \in BOOLEAN : g = (val[x] = None)
  <2>1. (val[x] = None) \in BOOLEAN
    OBVIOUS
  <2> QED BY <2>1, Zenon
<1>8. at' = [at EXCEPT ![t] = [a |-> x, got |-> g]] /\ role' = role
      /\ role[x] = "lock" /\ val[x] # t
  BY <1>7 DEF TestAndSet
<1>9. at'[t] = [a |-> x, got |-> g] /\ \A u \in Thr : u # t => at'[u] = at[u]
  BY <1>0, <1>8
<1>10. at[t].a = x \/ at[t].a = 0
  BY IdleType DEF TestAndSet, MayLoop
<1>11. /\ \A y \in Addr : y # x => val'[y] = val[y]
       /\ val[x] = None => val'[x] = t
       /\ val[x] # None => val'[x] = val[x]
  BY <1>0 DEF TestAndSet
<1>12. L = EmptyLoop /\ val[x] # None => Spoilt(x)'
  <2>1. SUFFICES ASSUME L = EmptyLoop, val[x] # None PROVE "empty" \in blame'[x]
    BY DEF Spoilt
  <2>2. blame' = [blame EXCEPT ![x] = blame[x]
          \cup (IF Overlaps(x) THEN {"overlap"} ELSE {}) \cup {"empty"}]
    BY <1>3, <2>1 DEF TestAndSet
  <2> QED BY <1>0, <2>2
<1>13. \A y \in Addr : Spoilt(y) => Spoilt(y)'
  BY <1>1 DEF Spoilt
<1>14. \A y \in Addr, u \in Thr : y # x /\ at[u].a = y => at'[u].a = y
  BY <1>9, <1>10, IdleType
<1>15. ASSUME NEW y \in Addr, y # x PROVE AddrInv(y)' /\ Stays(s, r, y)
  <2>1. CASE SameAt(s1, r, y)
    <3>1. SameAt(s, r, y)
      BY <1>6, <1>15, <2>1, SameAtTrans
    <3>2. Calm(s, r, y, loopOf[y])
      BY <3>1, SameCalm
    <3>3. AddrInv(y)'
      BY <1>0, <1>1, <1>3, <1>8, <1>11, <1>14, <1>15, <3>2, CalmAddr
    <3> QED BY <3>2, <3>3, CalmStays
  <2>2. CASE ~SameAt(s1, r, y)
    <3>1. ExitedAt(s1, r, t, L, y)
      BY <1>5, <1>15, <2>2 DEF TriedAll
    <3>2. ExitedAt(s, r, t, L, y)
      BY <1>6, <1>15, <3>1, ExitedFrom
    <3>3. ~SameAt(s, r, y)
      BY <1>6, <1>15, <2>2 DEF SameAt
    <3>4. Pending(s, t, L, y) /\ Stays(s, r, y)
      BY <3>2, <3>3, ExitedCalm
    <3>5. r.spin[y].sp = s.spin[y].sp /\ s.spin[y] # None
      BY <3>2, <3>4, ExitedCalm
    <3>6. SpInv(y)'
      BY <1>0, <1>1, <1>4, <3>5 DEF SpInv
    <3>7. Spoilt(y)
      <4>1. s.spin[y] # None /\ s.spin[y].lastSpinWriter = t /\ ~Invalidated(s.spin[y])
        BY <3>4 DEF Pending
      <4>2. at[t].a # y
        BY <1>10, <1>15, IdleType
      <4> QED BY <1>0, <1>4, <4>1, <4>2 DEF WriterInv
    <3> QED BY <1>13, <3>4, <3>6, <3>7, SpoiltAddr
  <2> QED BY <2>1, <2>2
<1>16. Tried(s1, r, t, L, x) /\ s1.ls = s.ls /\ (Invalidated(s1.spin[x]) <=> Invalidated(s.spin[x]))
  BY <1>5 DEF TriedAll, ReadOf, SameRole
<1>17. Stays(s, r, x) /\ r.sv[x].st = "SpinVar" /\ r.spin[x] # None
  BY <1>16 DEF Tried, Stays
<1>18. SpInv(x)'
  BY <1>1, <1>3, <1>4, <1>16 DEF SpInv, Tried
<1>19. Foreign(s1, t, x) /\ L = EmptyLoop => Spoilt(x)'
  <2>1. SUFFICES ASSUME NEW u \in Thr, u # t, x \in s.ls[u], L = EmptyLoop PROVE Spoilt(x)'
    BY <1>16 DEF Foreign
  <2>2. Spoilt(x) \/ val[x] = u
    BY <1>0, <1>4, <2>1 DEF HeldInv
  <2>3. u # None
    BY SpinAssumption
  <2> QED BY <1>12, <1>13, <2>1, <2>2, <2>3
<1>20. HeldInv(x)'
  <2>1. SUFFICES ASSUME NEW u \in Thr, x \in r.ls[u]
                 PROVE  Spoilt(x)' \/ (role'[x] = "lock" /\ val'[x] = u /\ sv'[x].st = "SpinVar")
    BY <1>4 DEF HeldInv
  <2>2. u # None
    BY SpinAssumption
  <2>3. CASE u # t
    <3>1. x \in s.ls[u]
      BY <1>16, <2>1, <2>3 DEF Tried, NoOther
    <3>2. Spoilt(x) \/ val[x] = u
      BY <1>0, <1>4, <3>1 DEF HeldInv
    <3> QED BY <1>4, <1>8, <1>11, <1>13, <1>17, <2>2, <3>2
  <2>4. CASE u = t /\ x \in s.ls[t]
    <3>1. Spoilt(x) \/ val[x] = t
      BY <1>0, <1>4, <2>4 DEF HeldInv
    <3> QED BY <1>8, <1>13, <3>1
  <2>5. CASE u = t /\ x \notin s.ls[t]
    <3>1. L = EmptyLoop
      BY <1>16, <2>1, <2>5 DEF Tried
    <3> QED BY <1>4, <1>8, <1>11, <1>12, <1>17, <2>5, <3>1
  <2> QED BY <2>3, <2>4, <2>5
<1>21. WriterInv(x)'
  <2>1. SUFFICES ASSUME NEW u \in Thr, r.spin[x].lastSpinWriter = u, ~Invalidated(r.spin[x])
                 PROVE  Spoilt(x)' \/ (role'[x] = "lock" /\ at'[u].a = x /\ loopOf'[x] # EmptyLoop)
    BY <1>4 DEF WriterInv
  <2>2. u # None
    BY SpinAssumption
  <2>3. u = t /\ ~Invalidated(s1.spin[x])
    BY <1>16, <2>1, <2>2 DEF Tried
  <2>4. CASE L # EmptyLoop
    BY <1>1, <1>3, <1>8, <1>9, <2>3, <2>4
  <2>5. CASE L = EmptyLoop
    <3>1. Foreign(s1, t, x)
      BY <1>16, <2>1, <2>2, <2>3, <2>5 DEF Tried
    <3> QED BY <1>19, <2>5, <3>1
  <2> QED BY <2>4, <2>5
<1>22. ASSUME NEW u \in Thr, u # t PROVE GotInv(u)'
  <2>1. at[u] # Idle => at[u].a \in Addr
    BY <1>0 DEF LoopKnown
  <2>2. at[u] # Idle => Stays(Tool, Tool', at[u].a)
    BY <1>3, <1>15, <1>17, <2>1
  <2>3. at[u] # Idle /\ at[u].got => val'[at[u].a] = val[at[u].a]
    <3>1. at[u].got => val[at[u].a] # None
      BY <1>0 DEF GotInv
    <3> QED BY <1>11, <2>1, <3>1
  <2>4. at'[u] = at[u] /\ role' = role
    BY <1>8, <1>9, <1>22
  <2> QED BY <1>0, <2>2, <2>3, <2>4, GotStays
<1>23. GotInv(t)'
  <2>1. at'[t].a = x /\ at'[t].got = g
    BY <1>9
  <2>2. g => val'[x] = t /\ t # None
    BY <1>7, <1>11, SpinAssumption
  <2> QED BY <1>4, <1>17, <2>1, <2>2 DEF GotInv
<1>24. AddrInv(x)'
  BY <1>18, <1>20, <1>21 DEF AddrInv
<1> QED BY <1>15, <1>22, <1>23, <1>24 DEF HoldNext

LEMMA ExitLoopHold ==
  ASSUME HoldInv, SpinNext, NEW t \in Thr, ExitLoop(t)
  PROVE  HoldNext
<1>0. /\ BaseInv /\ ClientOK /\ LoopKnown
      /\ at \in [Thr -> [a : Addr \cup {0}, got : BOOLEAN]]
      /\ blame \in [Addr -> SUBSET Blames]
      /\ \A u \in Thr : GotInv(u)
      /\ \A y \in Addr : AddrInv(y) /\ SpInv(y) /\ HeldInv(y) /\ WriterInv(y)
  BY HoldFacts
<1>1. loopOf' = loopOf /\ \A y \in Addr : blame[y] \subseteq blame'[y]
  BY <1>0, BlameGrows
<1>2. PICK x \in Addr : x = at[t].a /\ at[t] # Idle
  BY <1>0, ExitLoopStep
<1>3. PICK s, r, L : s = Tool /\ r = Tool' /\ L = loopOf[x]
  OBVIOUS
<1>4. /\ s.spin = map_spin_locks /\ s.ls = locksetA /\ s.sv = sv
      /\ r.spin = map_spin_locks' /\ r.ls = locksetA' /\ r.sv = sv'
  BY <1>3 DEF Tool
<1>5. (L = EmptyLoop /\ r = s) \/ (L # EmptyLoop /\ ExitedAll(s, r, t, L))
  BY <1>0, <1>2, <1>3, ExitLoopStep
<1>6. at' = [at EXCEPT ![t] = Idle] /\ role' = role /\ val' = val
  BY DEF ExitLoop
<1>7. at'[t] = Idle /\ \A u \in Thr : u # t => at'[u] = at[u]
  BY <1>0, <1>6
<1>8. ~at[t].got => Spoilt(x)'
  <2>1. SUFFICES ASSUME ~at[t].got PROVE "gaveUp" \in blame'[x]
    BY DEF Spoilt
  <2>2. blame' = [blame EXCEPT ![x] = blame[x] \cup {"gaveUp"}]
    BY <1>2, <2>1 DEF ExitLoop
  <2> QED BY <1>0, <2>2
<1>9. \A y \in Addr : Spoilt(y) => Spoilt(y)'
  BY <1>1 DEF Spoilt
<1>10. /\ at[t].got => val[x] # None /\ (role[x] = "lock" => val[x] = t)
       /\ s.sv[x].st = "SpinVar" /\ s.spin[x] # None
  BY <1>0, <1>2, <1>4 DEF GotInv
<1>11. ASSUME NEW y \in Addr
       PROVE  Stays(s, r, y) /\ (SameAt(s, r, y) \/ (ExitedAt(s, r, t, L, y) /\ Pending(s, t, L, y)))
  <2>1. CASE r = s
    BY <2>1 DEF Stays, SameAt
  <2>2. CASE ExitedAll(s, r, t, L)
    BY <2>2, ExitedCalm DEF ExitedAll
  <2> QED BY <1>5, <2>1, <2>2
<1>12. ASSUME NEW y \in Addr PROVE SpInv(y)'
  <2>1. CASE SameAt(s, r, y)
    BY <1>0, <1>1, <1>4, <2>1 DEF SpInv, SameAt
  <2>2. CASE ~SameAt(s, r, y)
    <3>1. r.spin[y].sp = s.spin[y].sp /\ s.spin[y] # None
      BY <1>11, <2>2, ExitedCalm
    <3> QED BY <1>0, <1>1, <1>4, <3>1 DEF SpInv
  <2> QED BY <2>1, <2>2
<1>13. ASSUME NEW y \in Addr, y # x PROVE AddrInv(y)'
  <2>1. CASE SameAt(s, r, y)
    <3>1. Calm(s, r, y, loopOf[y])
      BY <2>1, SameCalm
    <3>2. \A u \in Thr : at[u].a = y => at'[u].a = y
      BY <1>2, <1>7, <1>13
    <3> QED BY <1>0, <1>1, <1>3, <1>6, <3>1, <3>2, CalmAddr
  <2>2. CASE ~SameAt(s, r, y)
    <3>1. s.spin[y] # None /\ s.spin[y].lastSpinWriter = t /\ ~Invalidated(s.spin[y])
      BY <1>11, <2>2 DEF Pending
    <3>2. Spoilt(y)
      BY <1>0, <1>2, <1>4, <1>13, <3>1 DEF WriterInv
    <3> QED BY <1>9, <1>12, <3>2, SpoiltAddr
  <2> QED BY <2>1, <2>2
<1>14. AddrInv(x)'
  <2>0. SUFFICES ASSUME ~Spoilt(x)' PROVE HeldInv(x)' /\ WriterInv(x)'
    BY <1>12, SpoiltAddr DEF AddrInv
  <2>1. ~Spoilt(x) /\ at[t].got /\ val[x] # None /\ (role[x] = "lock" => val[x] = t)
    BY <1>8, <1>9, <1>10, <2>0
  <2>2. \A u \in Thr : x \in s.ls[u] => role[x] = "lock" /\ val[x] = u
    BY <1>0, <1>4, <2>1 DEF HeldInv
  <2>3. CASE SameAt(s, r, x)
    <3>1. HeldInv(x)'
      BY <1>0, <1>4, <1>6, <2>1, <2>3 DEF HeldInv, SameAt
    <3>2. WriterInv(x)'
      <4>1. SUFFICES ASSUME NEW u \in Thr, s.spin[x].lastSpinWriter = u, ~Invalidated(s.spin[x])
                     PROVE  role[x] = "lock" /\ at'[u].a = x /\ loopOf[x] # EmptyLoop
        BY <1>1, <1>4, <1>6, <2>3 DEF WriterInv, SameAt
      <4>2. role[x] = "lock" /\ at[u].a = x /\ loopOf[x] # EmptyLoop
        BY <1>0, <1>4, <1>10, <2>1, <4>1 DEF WriterInv
      <4>3. CASE u # t
        BY <1>7, <4>2, <4>3
      <4>4. CASE u = t
        <5>1. s.spin[x].sp = L
          <6>1. "return" \notin blame[x]
            BY <2>1 DEF Spoilt
          <6> QED BY <1>0, <1>3, <1>4, <1>10, <6>1 DEF SpInv
        <5>2. Pending(s, t, L, x)
          BY <1>10, <4>1, <4>4, <5>1 DEF Pending
        <5>3. ExitedAll(s, r, t, L)
          BY <1>3, <1>5, <4>2
        <5>4. Taken(s, r, t, x) \/ Foreign(s, t, x)
          BY <5>2, <5>3 DEF ExitedAll, ExitedAt
        <5>5. ~Foreign(s, t, x)
          BY <2>1, <2>2 DEF Foreign
        <5>6. r.spin[x].lastSpinWriter = None
          BY <5>4, <5>5 DEF Taken
        <5>7. s.spin[x].lastSpinWriter = None
          BY <2>3, <5>6 DEF SameAt
        <5> QED BY <4>1, <5>7, SpinAssumption
      <4> QED BY <4>3, <4>4
    <3> QED BY <3>1, <3>2
  <2>4. CASE ~SameAt(s, r, x)
    <3>1. ExitedAt(s, r, t, L, x) /\ Pending(s, t, L, x)
      BY <1>11, <2>4
    <3>2. role[x] = "lock"
      BY <1>0, <1>4, <2>1, <3>1 DEF WriterInv, Pending
    <3>3. ~Foreign(s, t, x)
      BY <2>1, <2>2, <3>2 DEF Foreign
    <3>4. Taken(s, r, t, x) /\ NoOther(s, r, t, x)
      BY <3>1, <3>3 DEF ExitedAt
    <3>5. WriterInv(x)'
      BY <1>4, <3>4, SpinAssumption DEF WriterInv, Taken
    <3>6. HeldInv(x)'
      <4>1. ASSUME NEW u \in Thr, x \in r.ls[u] PROVE val[x] = u
        <5>1. CASE u = t
          BY <2>1, <3>2, <5>1
        <5>2. CASE u # t
          BY <2>2, <3>4, <4>1, <5>2 DEF NoOther
        <5> QED BY <5>1, <5>2
      <4>2. r.sv[x].st = "SpinVar"
        BY <1>10, <3>4 DEF Taken
      <4> QED BY <1>4, <1>6, <3>2, <4>1, <4>2 DEF HeldInv
    <3> QED BY <3>5, <3>6
  <2> QED BY <2>3, <2>4
<1>15. ASSUME NEW u \in Thr, u # t PROVE GotInv(u)'
  <2>1. at[u] # Idle => at[u].a \in Addr
    BY <1>0 DEF LoopKnown
  <2>2. at[u] # Idle => Stays(Tool, Tool', at[u].a)
    BY <1>3, <1>11, <2>1
  <2> QED BY <1>0, <1>6, <1>7, <1>15, <2>2, GotStays
<1>16. GotInv(t)'
  BY <1>7 DEF GotInv, Idle
<1> QED BY <1>13, <1>14, <1>15, <1>16 DEF HoldNext

LEMMA ReturnHold ==
  ASSUME HoldInv, SpinNext, NEW t \in Thr, ReturnFromLoop(t)
  PROVE  HoldNext
<1>0. /\ BaseInv /\ ClientOK /\ LoopKnown
      /\ at \in [Thr -> [a : Addr \cup {0}, got : BOOLEAN]] /\ \A u \in Thr : GotInv(u)
  BY HoldFacts
<1>1. \A y \in Addr : "return" \in blame'[y]
  BY DEF ReturnFromLoop
<1>2. \A y \in Addr : AddrInv(y)'
  BY <1>1, ReturnAddr
<1>3. /\ at' = [at EXCEPT ![t] = Idle] /\ role' = role /\ val' = val
      /\ Tool' = Tool
  BY ReturnStep DEF ReturnFromLoop
<1>4. at'[t] = Idle /\ \A u \in Thr : u # t => at'[u] = at[u]
  BY <1>0, <1>3
<1>5. \A y : Stays(Tool, Tool', y)
  BY <1>3 DEF Stays
<1>6. ASSUME NEW u \in Thr, u # t PROVE GotInv(u)'
  BY <1>0, <1>3, <1>4, <1>5, <1>6, GotStays
<1>7. GotInv(t)'
  BY <1>4 DEF GotInv, Idle
<1> QED BY <1>2, <1>6, <1>7 DEF HoldNext

LEMMA WrittenStays ==
  ASSUME NEW s, NEW r, NEW x \in Addr, Written(s, r, x), NEW y \in Addr
  PROVE  Stays(s, r, y)
<1>1. CASE y = x
  BY <1>1 DEF Written, Stays
<1>2. CASE y # x
  BY <1>2 DEF Written, Stays, SameAt
<1> QED BY <1>1, <1>2

\* A write by a thread that is in no loop: the value changes, the record may
\* lose its holder.
LEMMA PlainWriteHold ==
  ASSUME HoldInv, SpinNext, NEW t \in Thr, NEW x \in Addr, NEW s, NEW r, s.spin = map_spin_locks,
         s.ls = locksetA, s.sv = sv, r.spin = map_spin_locks', r.ls = locksetA', r.sv = sv',
         Written(s, r, x), lastSpin[t] \in {None, EmptyLoop} => WrittenOutside(s, r, t, x),
         at[t] = Idle, at' = at, role' = role, \A y \in Addr : y # x => val'[y] = val[y],
         role[x] = "lock" => val[x] = t,
         \A u \in Thr : at[u].got /\ at[u].a = x => u = t
  PROVE  HoldNext
<1>0. /\ BaseInv /\ ClientOK /\ LoopKnown
      /\ \A u \in Thr : GotInv(u) /\ ThreadInv(u)
      /\ \A y \in Addr : AddrInv(y) /\ SpInv(y) /\ HeldInv(y) /\ WriterInv(y)
  BY HoldFacts
<1>1. loopOf' = loopOf /\ \A y \in Addr : blame[y] \subseteq blame'[y]
  BY <1>0, BlameGrows
<1>2. ASSUME NEW u \in Thr PROVE GotInv(u)'
  <2>1. CASE at[u] = Idle
    BY <1>0, <2>1 DEF GotInv, Idle
  <2>2. CASE at[u] # Idle
    <3>1. at[u].a \in Addr /\ u # t
      BY <1>0, <2>2 DEF LoopKnown
    <3>2. Stays(s, r, at[u].a)
      BY <3>1, WrittenStays
    <3>3. at[u].got => val'[at[u].a] = val[at[u].a]
      BY <3>1
    <3>4. sv[at[u].a].st = "SpinVar" /\ map_spin_locks[at[u].a] # None
          /\ (at[u].got => val[at[u].a] # None /\ (role[at[u].a] = "lock" => val[at[u].a] = u))
      BY <1>0, <2>2 DEF GotInv
    <3>5. sv'[at[u].a].st = "SpinVar" /\ map_spin_locks'[at[u].a] # None
      BY <3>2, <3>4 DEF Stays
    <3> QED BY <3>3, <3>4, <3>5 DEF GotInv
  <2> QED BY <2>1, <2>2
<1>3. CASE lastSpin[t] \notin {None, EmptyLoop}
  <2>1. \A y \in Addr : "return" \in blame'[y]
    BY <1>0, <1>1, <1>3 DEF ThreadInv
  <2>2. \A y \in Addr : AddrInv(y)'
    BY <2>1, ReturnAddr
  <2> QED BY <1>2, <2>2 DEF HoldNext
<1>4. CASE lastSpin[t] \in {None, EmptyLoop}
  <2>0. WrittenOutside(s, r, t, x)
    BY <1>4
  <2>1. \A y \in Addr : Spoilt(y) => Spoilt(y)'
    BY <1>1 DEF Spoilt
  <2>2. ASSUME NEW y \in Addr, y # x PROVE AddrInv(y)'
    <3>1. SameAt(s, r, y)
      BY <2>0, <2>2 DEF WrittenOutside
    <3>2. SpInv(y)' /\ HeldInv(y)'
      BY <1>0, <1>1, <2>1, <2>2, <3>1 DEF SpInv, HeldInv, SameAt
    <3>3. WriterInv(y)'
      BY <1>0, <1>1, <2>1, <3>1 DEF WriterInv, SameAt
    <3> QED BY <3>2, <3>3 DEF AddrInv
  <2>3. SpInv(x)'
    <3>1. CASE s.sv[x].st = "SpinVar"
      BY <1>0, <1>1, <2>0, <3>1 DEF SpInv, WrittenOutside, Noted
    <3>2. CASE s.sv[x].st # "SpinVar"
      BY <1>0, <1>1, <2>0, <3>2 DEF SpInv, WrittenOutside
    <3> QED BY <3>1, <3>2
  <2>4. HeldInv(x)'
    <3>1. CASE s.sv[x].st = "SpinVar"
      BY <2>0, <3>1 DEF HeldInv, WrittenOutside
    <3>2. CASE s.sv[x].st # "SpinVar"
      BY <1>0, <2>0, <2>1, <3>2 DEF HeldInv, WrittenOutside
    <3> QED BY <3>1, <3>2
  <2>5. WriterInv(x)'
    <3>1. Invalidated(s.spin[x]) => Invalidated(r.spin[x])
      BY <2>0 DEF WrittenOutside
    <3>2. r.spin[x] # None => s.spin[x] # None /\ r.spin[x].lastSpinWriter = s.spin[x].lastSpinWriter
      <4>1. CASE s.sv[x].st = "SpinVar"
        BY <2>0, <4>1 DEF WrittenOutside, Noted
      <4>2. CASE s.sv[x].st # "SpinVar"
        BY <2>0, <4>2 DEF WrittenOutside
      <4> QED BY <4>1, <4>2
    <3> QED BY <1>0, <1>1, <2>1, <3>1, <3>2 DEF WriterInv
  <2>6. AddrInv(x)'
    BY <2>3, <2>4, <2>5 DEF AddrInv
  <2> QED BY <1>2, <2>2, <2>6 DEF HoldNext
<1> QED BY <1>3, <1>4

LEMMA UnlockHold ==
  ASSUME HoldInv, SpinNext, NEW t \in Thr, NEW x \in Addr, NEW atomic \in BOOLEAN,
         Unlock(t, x, atomic)
  PROVE  HoldNext
<1>0. BaseInv /\ val \in [Addr -> Maybe(Thr)] /\ \A u \in Thr : GotInv(u)
  BY HoldFacts
<1>1. PICK s, r : s = Tool /\ r = Tool'
  OBVIOUS
<1>2. /\ s.spin = map_spin_locks /\ s.ls = locksetA /\ s.sv = sv
      /\ r.spin = map_spin_locks' /\ r.ls = locksetA' /\ r.sv = sv'
  BY <1>1 DEF Tool
<1>3. Written(s, r, x) /\ (lastSpin[t] \in {None, EmptyLoop} => WrittenOutside(s, r, t, x))
  BY <1>0, <1>1, UnlockStep
<1>4. /\ at[t] = Idle /\ at' = at /\ role' = role /\ val[x] = t /\ role[x] = "lock"
      /\ val' = [val EXCEPT ![x] = None]
  BY DEF Unlock
<1>5. \A y \in Addr : y # x => val'[y] = val[y]
  BY <1>0, <1>4
<1>6. \A u \in Thr : at[u].got /\ at[u].a = x => u = t
  BY <1>0, <1>4 DEF GotInv
<1> QED BY <1>2, <1>3, <1>4, <1>5, <1>6, PlainWriteHold

LEMMA SetFlagHold ==
  ASSUME HoldInv, SpinNext, NEW t \in Thr, NEW x \in Addr, SetFlag(t, x)
  PROVE  HoldNext
<1>0. BaseInv /\ val \in [Addr -> Maybe(Thr)] /\ \A u \in Thr : GotInv(u)
  BY HoldFacts
<1>1. PICK s, r : s = Tool /\ r = Tool'
  OBVIOUS
<1>2. /\ s.spin = map_spin_locks /\ s.ls = locksetA /\ s.sv = sv
      /\ r.spin = map_spin_locks' /\ r.ls = locksetA' /\ r.sv = sv'
  BY <1>1 DEF Tool
<1>3. PICK s1 \in ToolInv :
        /\ VidSet(s, s1, t, vid[t] \cup {x}) /\ Written(s1, r, x)
        /\ lastSpin[t] \in {None, EmptyLoop} => WrittenOutside(s1, r, t, x)
  BY <1>0, <1>1, SetFlagStep
<1>4. s1.spin = map_spin_locks /\ s1.ls = locksetA /\ s1.sv = sv
  BY <1>2, <1>3 DEF VidSet
<1>5. /\ at[t] = Idle /\ at' = at /\ role' = role /\ val[x] = None /\ role[x] = "flag"
      /\ val' = [val EXCEPT ![x] = t]
  BY DEF SetFlag
<1>6. \A y \in Addr : y # x => val'[y] = val[y]
  BY <1>0, <1>5
<1>7. \A u \in Thr : at[u].got /\ at[u].a = x => u = t
  BY <1>0, <1>5 DEF GotInv
<1> QED BY <1>2, <1>3, <1>4, <1>5, <1>6, <1>7, PlainWriteHold

\* Steps that leave the client alone and claim nothing.
LEMMA CalmHold ==
  ASSUME HoldInv, SpinNext, at' = at, role' = role, val' = val,
         \A y \in Addr : Calm(Tool, Tool', y, loopOf[y])
  PROVE  HoldNext
<1>0. /\ BaseInv /\ ClientOK /\ LoopKnown
      /\ \A u \in Thr : GotInv(u) /\ \A y \in Addr : AddrInv(y)
  BY HoldFacts
<1>1. loopOf' = loopOf /\ \A y \in Addr : blame[y] \subseteq blame'[y]
  BY <1>0, BlameGrows
<1>2. ASSUME NEW y \in Addr PROVE AddrInv(y)'
  <2>1. AddrInv(y) /\ Calm(Tool, Tool', y, loopOf[y]) /\ blame[y] \subseteq blame'[y]
    BY <1>1, HoldFacts
  <2> QED BY <1>1, <2>1, CalmAddr
<1>3. ASSUME NEW u \in Thr PROVE GotInv(u)'
  <2>1. GotInv(u)
    BY HoldFacts
  <2>2. at[u] # Idle => Stays(Tool, Tool', at[u].a)
    BY <1>0, CalmStays DEF LoopKnown
  <2> QED BY <1>0, <2>1, <2>2, GotStays
<1> QED BY <1>2, <1>3 DEF HoldNext

LEMMA ExitThreadHold ==
  ASSUME HoldInv, SpinNext, NEW t \in Thr, ExitThread(t)
  PROVE  HoldNext
<1>0. BaseInv
  BY HoldFacts
<1>1. PICK s, r : s = Tool /\ r = Tool'
  OBVIOUS
<1>2. PICK s1 \in ToolInv : LeftAll(s, s1, t) /\ VidSet(s1, r, t, {})
  BY <1>0, <1>1, ExitThreadStep
<1>3. ASSUME NEW y \in Addr, NEW L PROVE Calm(s, r, y, L)
  <2>1. Left(s, s1, t, y) /\ r.spin = s1.spin /\ r.ls = s1.ls /\ r.sv = s1.sv
    BY <1>2 DEF LeftAll, VidSet
  <2>2. \A u \in Thr : y \in r.ls[u] => y \in s.ls[u]
    BY <2>1 DEF Left
  <2> QED BY <2>1, <2>2 DEF Left, Calm, SameButHeld
<1>4. at' = at /\ role' = role /\ val' = val
  BY DEF ExitThread
<1> QED BY <1>1, <1>3, <1>4, CalmHold

LEMMA MutexHold ==
  ASSUME HoldInv, SpinNext, NEW t \in Thr, LockMutex(t) \/ UnlockMutex(t)
  PROVE  HoldNext
<1>0. BaseInv
  BY HoldFacts
<1>1. PICK s, r : s = Tool /\ r = Tool'
  OBVIOUS
<1>2. MutexSet(s, r)
  BY <1>0, <1>1, MutexStep
<1>3. ASSUME NEW y \in Addr, NEW L PROVE Calm(s, r, y, L)
  BY <1>2, SameCalm DEF MutexSet
<1>4. at' = at /\ role' = role /\ val' = val
  BY DEF LockMutex, UnlockMutex
<1> QED BY <1>1, <1>3, <1>4, CalmHold

LEMMA ReuseHold ==
  ASSUME HoldInv, SpinNext, NEW x \in Addr, NEW how \in {"lock", "flag"}, ReuseMemory(x, how)
  PROVE  HoldNext
<1>0. /\ BaseInv /\ ClientOK /\ LoopKnown
      /\ role \in [Addr -> {"lock", "flag"}] /\ val \in [Addr -> Maybe(Thr)]
      /\ \A u \in Thr : GotInv(u)
      /\ \A y \in Addr : AddrInv(y) /\ SpInv(y) /\ HeldInv(y) /\ WriterInv(y)
  BY HoldFacts
<1>1. loopOf' = loopOf /\ \A y \in Addr : blame[y] \subseteq blame'[y]
  BY <1>0, BlameGrows
<1>2. PICK s, r : s = Tool /\ r = Tool'
  OBVIOUS
<1>3. /\ s.spin = map_spin_locks /\ s.ls = locksetA /\ s.sv = sv
      /\ r.spin = map_spin_locks' /\ r.ls = locksetA' /\ r.sv = sv'
  BY <1>2 DEF Tool
<1>4. Renewed(s, r, x)
  BY <1>0, <1>2, ReuseStep
<1>5. /\ at' = at /\ \A u \in Thr : at[u].a # x
      /\ role[x] = "lock" => val[x] = None
      /\ \A y \in Addr : y # x => role'[y] = role[y] /\ val'[y] = val[y]
  BY <1>0 DEF ReuseMemory
<1>6. map_spin_locks' = map_spin_locks /\ locksetA' = locksetA
      /\ \A y \in Addr : y # x => sv'[y] = sv[y]
  BY <1>3, <1>4 DEF Renewed
<1>7. \A y \in Addr : Spoilt(y) => Spoilt(y)'
  BY <1>1 DEF Spoilt
<1>8. ASSUME NEW y \in Addr PROVE SpInv(y)'
  BY <1>0, <1>1, <1>6 DEF SpInv
<1>9. ASSUME NEW y \in Addr PROVE HeldInv(y)'
  <2>1. CASE y # x
    BY <1>0, <1>5, <1>6, <1>7, <2>1 DEF HeldInv
  <2>2. CASE y = x
    BY <1>0, <1>5, <1>6, <1>7, <2>2, SpinAssumption DEF HeldInv
  <2> QED BY <2>1, <2>2
<1>10. ASSUME NEW y \in Addr PROVE WriterInv(y)'
  <2>1. CASE y # x
    BY <1>0, <1>1, <1>5, <1>6, <1>7, <2>1 DEF WriterInv
  <2>2. CASE y = x
    BY <1>0, <1>5, <1>6, <1>7, <2>2 DEF WriterInv
  <2> QED BY <2>1, <2>2
<1>11. ASSUME NEW u \in Thr PROVE GotInv(u)'
  <2>1. CASE at[u] = Idle
    BY <1>5, <2>1 DEF GotInv, Idle
  <2>2. CASE at[u] # Idle
    <3>1. at[u].a \in Addr /\ at[u].a # x
      BY <1>0, <1>5, <2>2 DEF LoopKnown
    <3>2. /\ role'[at[u].a] = role[at[u].a] /\ val'[at[u].a] = val[at[u].a]
          /\ sv'[at[u].a] = sv[at[u].a] /\ map_spin_locks' = map_spin_locks /\ at'[u] = at[u]
      BY <1>5, <1>6, <3>1
    <3> QED BY <1>0, <3>2 DEF GotInv, Idle
  <2> QED BY <2>1, <2>2
<1> QED BY <1>8, <1>9, <1>10, <1>11 DEF HoldNext, AddrInv

LEMMA HoldStep ==
  ASSUME HoldInv, [SpinNext]_spinVars
  PROVE  HoldInv'
<1>1. CASE SpinNext
  <2>1. HoldNext
    BY <1>1, TestAndSetHold, SpinTestHold, ExitLoopHold, ReturnHold, UnlockHold, SetFlagHold,
       ExitThreadHold, MutexHold, ReuseHold DEF SpinNext, Steps
  <2>2. \A t \in Thr : ThreadInv(t)'
    BY <1>1, ThreadStep
  <2>3. BaseInv'
    BY <1>1, BaseStep DEF HoldInv
  <2> QED BY <2>1, <2>2, <2>3 DEF HoldInv, HoldNext
<1>2. CASE UNCHANGED spinVars
  <2>1. BaseInv'
    BY <1>2, BaseStep DEF HoldInv
  <2>2. \A t \in Thr : ThreadInv(t)' /\ GotInv(t)'
    BY <1>2 DEF HoldInv, ThreadInv, GotInv, spinVars, Idle
  <2>3. \A x \in Addr : AddrInv(x)'
    BY <1>2 DEF HoldInv, AddrInv, SpInv, HeldInv, WriterInv, Spoilt, spinVars
  <2> QED BY <2>1, <2>2, <2>3 DEF HoldInv
<1> QED BY <1>1, <1>2

\* For any number of threads, addresses and loops, a lock that the race checker
\* takes for held is held by that thread of the client, unless a thread gave up
\* waiting for it, left a loop by a return, or lost it in a loop without code
\* block: a verdict that comes too late, a record kept from a former variable
\* and a ThreadId that is used again do not lead to a lock nobody holds.
THEOREM HeldLocksAreReal == SpinSpec => []HoldIsReal
<1>1. SpinInit => HoldInv
  BY HoldInit
<1>2. HoldInv /\ [SpinNext]_spinVars => HoldInv'
  BY HoldStep
<1>3. HoldInv => HoldIsReal
  BY HoldIsRealLemma
<1> QED BY <1>1, <1>2, <1>3, PTL DEF SpinSpec

----------------------------------------------------------------------------
(* Acquisitions are seen, and flags hand over *)

\* A lock of the client that nothing has befallen counts as a lock, and its
\* holder is known, or still in the loop whose exit will make it known.
SeenInv(x) ==
  blame[x] = {} /\ role[x] = "lock" =>
    /\ ~Invalidated(map_spin_locks[x])
    /\ \A t \in Thr : val[x] = t =>
         \/ x \in locksetA[t]
         \/ /\ at[t] = [a |-> x, got |-> TRUE] /\ loopOf[x] # EmptyLoop
            /\ map_spin_locks[x] # None /\ map_spin_locks[x].lastSpinWriter = t

\* A flag never counts as a lock, so that its value carries the timestamp of
\* its setter to those who waited for it.
FlagInv(x) ==
  role[x] = "flag" /\ blame[x] \cap {"return", "reused"} = {} =>
    /\ map_spin_locks[x] # None =>
         map_spin_locks[x].lastSpinWriter = None /\ map_spin_locks[x].wasALock = FALSE
    /\ \A t \in Thr : x \notin locksetA[t]
    /\ val[x] # None => x \in sv[x].v
    /\ \A t \in Thr : at[t] = [a |-> x, got |-> TRUE] => x \in vid[t]

FullInv == HoldInv /\ \A x \in Addr : SeenInv(x) /\ FlagInv(x)

LEMMA FullInit ==
  ASSUME SpinInit
  PROVE  FullInv
<1>1. ASSUME NEW x \in Addr PROVE SeenInv(x)
  BY <1>1, SpinAssumption DEF SpinInit, SeenInv, Invalidated
<1>2. ASSUME NEW x \in Addr PROVE FlagInv(x)
  <2>1. \A t \in Thr : at[t] = Idle
    BY DEF SpinInit
  <2>2. \A t \in Thr : at[t] # [a |-> x, got |-> TRUE]
    BY <2>1, IdleType
  <2> QED BY <1>2, <2>2 DEF SpinInit, FlagInv
<1> QED BY <1>1, <1>2, HoldInit DEF FullInv

LEMMA FullLemma ==
  ASSUME FullInv
  PROVE  AcquisitionIsSeen /\ FlagHandsOver
<1>1. AcquisitionIsSeen
  <2>1. SUFFICES ASSUME NEW x \in Addr, NEW t \in Thr, role[x] = "lock", val[x] = t, at[t] = Idle,
                        blame[x] = {}
                 PROVE  x \in locksetA[t]
    BY DEF AcquisitionIsSeen
  <2>2. at[t] # [a |-> x, got |-> TRUE]
    BY <2>1, IdleType
  <2> QED BY <2>1, <2>2 DEF FullInv, SeenInv
<1>2. FlagHandsOver
  BY DEF FullInv, FlagInv, FlagHandsOver
<1> QED BY <1>1, <1>2

\* Where the writes in loops of t leave something behind for the exit.
LEMMA ElsewhereSpoilt ==
  ASSUME HoldInv, NEW t \in Thr, NEW y \in Addr, NEW L, NEW s, s = Tool, Pending(s, t, L, y),
         at[t].a # y
  PROVE  Spoilt(y)
<1>1. map_spin_locks[y] # None /\ map_spin_locks[y].lastSpinWriter = t
      /\ ~Invalidated(map_spin_locks[y])
  BY ToolParts DEF Pending
<1> QED BY <1>1, HoldFacts DEF WriterInv

LEMMA TestAndSetElse ==
  ASSUME HoldInv, NEW t \in Thr, NEW x \in Addr, TestAndSet(t, x), NEW y \in Addr, y # x,
         NEW s, NEW r, s = Tool, r = Tool'
  PROVE  SameAt(s, r, y) \/ (Pending(s, t, loopOf[x], y) /\ Spoilt(y))
<1>1. PICK s1 \in ToolInv : /\ ReadOf(s, s1, t, x, loopOf[x])
                            /\ TriedAll(s1, r, t, loopOf[x], x)
  BY HoldFacts, TestAndSetStep
<1>2. SameAt(s, s1, y)
  BY <1>1 DEF ReadOf
<1>3. SameAt(s1, r, y) \/ ExitedAt(s1, r, t, loopOf[x], y)
  BY <1>1 DEF TriedAll
<1>4. CASE SameAt(s1, r, y)
  BY <1>2, <1>4, SameAtTrans
<1>5. CASE ExitedAt(s1, r, t, loopOf[x], y)
  <2>1. ExitedAt(s, r, t, loopOf[x], y)
    BY <1>2, <1>5, ExitedFrom
  <2>2. at[t].a # y
    <3>1. at[t].a = x \/ at[t].a = 0
      BY IdleType DEF TestAndSet, MayLoop
    <3> QED BY <3>1, IdleType
  <2> QED BY <2>1, <2>2, ExitedCalm, ElsewhereSpoilt
<1> QED BY <1>3, <1>4, <1>5

\* Addresses that a step leaves alone.
LEMMA SameSeen ==
  ASSUME NEW x \in Addr, SeenInv(x), NEW s, NEW r, s = Tool, r = Tool', SameAt(s, r, x),
         role'[x] = role[x], val'[x] = val[x], loopOf' = loopOf, blame[x] \subseteq blame'[x],
         \A u \in Thr : at'[u] # at[u] /\ val[x] = u /\ blame[x] = {} /\ role[x] = "lock"
                          => x \in locksetA[u]
  PROVE  SeenInv(x)'
<1>1. /\ map_spin_locks'[x] = map_spin_locks[x]
      /\ \A u \in Thr : x \in locksetA'[u] <=> x \in locksetA[u]
  BY DEF SameAt, Tool
<1>2. SUFFICES ASSUME blame'[x] = {}, role'[x] = "lock"
               PROVE  /\ ~Invalidated(map_spin_locks'[x])
                      /\ \A t \in Thr : val'[x] = t =>
                           \/ x \in locksetA'[t]
                           \/ /\ at'[t] = [a |-> x, got |-> TRUE] /\ loopOf'[x] # EmptyLoop
                              /\ map_spin_locks'[x] # None
                              /\ map_spin_locks'[x].lastSpinWriter = t
  BY DEF SeenInv
<1>3. blame[x] = {} /\ role[x] = "lock"
  BY <1>2
<1>4. ~Invalidated(map_spin_locks'[x])
  BY <1>1, <1>3 DEF SeenInv
<1>5. ASSUME NEW t \in Thr, val'[x] = t
      PROVE  \/ x \in locksetA'[t]
             \/ /\ at'[t] = [a |-> x, got |-> TRUE] /\ loopOf'[x] # EmptyLoop
                /\ map_spin_locks'[x] # None /\ map_spin_locks'[x].lastSpinWriter = t
  <2>1. CASE x \in locksetA[t]
    BY <1>1, <2>1
  <2>2. CASE x \notin locksetA[t]
    <3>1. at'[t] = at[t]
      BY <1>3, <1>5, <2>2
    <3> QED BY <1>1, <1>3, <1>5, <2>2, <3>1 DEF SeenInv
  <2> QED BY <2>1, <2>2
<1> QED BY <1>4, <1>5

LEMMA SameFlag ==
  ASSUME NEW x \in Addr, FlagInv(x), NEW s, NEW r, s = Tool, r = Tool', SameAt(s, r, x),
         role'[x] = role[x], val'[x] = val[x], blame[x] \subseteq blame'[x],
         \A u \in Thr : at'[u] = [a |-> x, got |-> TRUE] => at[u] = at'[u] /\ (x \in vid[u] => x \in vid'[u])
  PROVE  FlagInv(x)'
<1>1. /\ map_spin_locks'[x] = map_spin_locks[x] /\ sv'[x] = sv[x]
      /\ \A u \in Thr : x \in locksetA'[u] <=> x \in locksetA[u]
  BY DEF SameAt, Tool
<1>2. SUFFICES ASSUME role'[x] = "flag", blame'[x] \cap {"return", "reused"} = {}
               PROVE  /\ map_spin_locks'[x] # None => /\ map_spin_locks'[x].lastSpinWriter = None
                                                      /\ map_spin_locks'[x].wasALock = FALSE
                      /\ \A t \in Thr : x \notin locksetA'[t]
                      /\ val'[x] # None => x \in sv'[x].v
                      /\ \A t \in Thr : at'[t] = [a |-> x, got |-> TRUE] => x \in vid'[t]
  BY DEF FlagInv
<1>3. role[x] = "flag" /\ blame[x] \cap {"return", "reused"} = {}
  BY <1>2
<1> QED BY <1>1, <1>3 DEF FlagInv

FullNext == \A y \in Addr : SeenInv(y)' /\ FlagInv(y)'

LEMMA FullFacts ==
  ASSUME FullInv, SpinNext
  PROVE  /\ HoldInv /\ BaseInv /\ ClientOK /\ Tool \in ToolInv
         /\ loopOf' = loopOf /\ \A y \in Addr : blame[y] \subseteq blame'[y]
         /\ \A y \in Addr : SeenInv(y) /\ FlagInv(y)
BY HoldFacts, BlameGrows DEF FullInv, BaseInv

LEMMA TestAndSetFull ==
  ASSUME FullInv, SpinNext, NEW t \in Thr, NEW x \in Addr, TestAndSet(t, x)
  PROVE  FullNext
<1>0. /\ HoldInv /\ BaseInv /\ loopOf' = loopOf /\ \A y \in Addr : blame[y] \subseteq blame'[y]
      /\ \A y \in Addr : SeenInv(y) /\ FlagInv(y)
      /\ at \in [Thr -> [a : Addr \cup {0}, got : BOOLEAN]]
      /\ val \in [Addr -> Maybe(Thr)] /\ blame \in [Addr -> SUBSET Blames]
      /\ \A y \in Addr : HeldInv(y)
  BY FullFacts, HoldFacts
<1>1. PICK s, r, L : s = Tool /\ r = Tool' /\ L = loopOf[x]
  OBVIOUS
<1>2. PICK s1 \in ToolInv : ReadOf(s, s1, t, x, L) /\ TriedAll(s1, r, t, L, x)
  BY <1>0, <1>1, TestAndSetStep
<1>3. PICK g \in BOOLEAN : g = (val[x] = None)
  <2>1. (val[x] = None) \in BOOLEAN
    OBVIOUS
  <2> QED BY <2>1, Zenon
<1>4. at' = [at EXCEPT ![t] = [a |-> x, got |-> g]] /\ role' = role
      /\ role[x] = "lock" /\ val[x] # t
  BY <1>3 DEF TestAndSet
<1>5. at'[t] = [a |-> x, got |-> g] /\ \A u \in Thr : u # t => at'[u] = at[u]
  BY <1>0, <1>4
<1>6. at[t] = Idle \/ at[t] = [a |-> x, got |-> FALSE]
  BY DEF TestAndSet, MayLoop
<1>7. at[t].a \in {0, x} /\ 0 \notin Addr /\ \A y \in Addr : at[t] # [a |-> y, got |-> TRUE]
  BY <1>6, IdleType
<1>8. /\ \A y \in Addr : y # x => val'[y] = val[y]
      /\ val[x] = None => val'[x] = t
      /\ val[x] # None => val'[x] = val[x]
  BY <1>0 DEF TestAndSet
<1>9. \A u \in Thr : s.vid[u] \subseteq r.vid[u]
  BY <1>2 DEF ReadOf, TriedAll
<1>10. /\ s.spin = map_spin_locks /\ s.ls = locksetA /\ s.vid = vid
       /\ r.spin = map_spin_locks' /\ r.ls = locksetA' /\ r.vid = vid'
  BY <1>1 DEF Tool
<1>11. ASSUME NEW y \in Addr, y # x PROVE SeenInv(y)'
  <2>1. CASE SameAt(s, r, y)
    <3>1. \A u \in Thr : at'[u] # at[u] /\ val[y] = u /\ blame[y] = {} /\ role[y] = "lock"
                           => y \in locksetA[u]
      <4>1. SUFFICES ASSUME val[y] = t, blame[y] = {}, role[y] = "lock" PROVE y \in locksetA[t]
        BY <1>5
      <4> QED BY <1>0, <1>7, <4>1 DEF SeenInv
    <3> QED BY <1>0, <1>1, <1>4, <1>8, <1>11, <2>1, <3>1, SameSeen
  <2>2. CASE ~SameAt(s, r, y)
    <3>1. Spoilt(y)
      BY <1>0, <1>1, <1>11, <2>2, TestAndSetElse
    <3>2. blame'[y] # {}
      BY <1>0, <3>1 DEF Spoilt
    <3> QED BY <3>2 DEF SeenInv
  <2> QED BY <2>1, <2>2
<1>12. ASSUME NEW y \in Addr, y # x PROVE FlagInv(y)'
  <2>1. SUFFICES ASSUME role'[y] = "flag", blame'[y] \cap {"return", "reused"} = {} PROVE FlagInv(y)'
    BY DEF FlagInv
  <2>2. role[y] = "flag" /\ blame[y] \cap {"return", "reused"} = {}
    BY <1>0, <1>4, <2>1
  <2>3. ~Pending(s, t, loopOf[x], y)
    BY <1>0, <1>10, <2>2, SpinAssumption DEF FlagInv, Pending
  <2>4. SameAt(s, r, y)
    BY <1>0, <1>1, <1>12, <2>3, TestAndSetElse
  <2>5. \A u \in Thr : at'[u] = [a |-> y, got |-> TRUE] =>
                         at[u] = at'[u] /\ (y \in vid[u] => y \in vid'[u])
    <3>1. at'[t] # [a |-> y, got |-> TRUE]
      BY <1>5, <1>12
    <3> QED BY <1>5, <1>9, <1>10, <3>1
  <2> QED BY <1>0, <1>1, <1>4, <1>8, <1>12, <2>4, <2>5, SameFlag
<1>13. FlagInv(x)'
  BY <1>4 DEF FlagInv
<1>14. SeenInv(x)'
  <2>1. SUFFICES ASSUME blame'[x] = {}
                 PROVE  /\ ~Invalidated(map_spin_locks'[x])
                        /\ \A u \in Thr : val'[x] = u =>
                             \/ x \in locksetA'[u]
                             \/ /\ at'[u] = [a |-> x, got |-> TRUE] /\ loopOf'[x] # EmptyLoop
                                /\ map_spin_locks'[x] # None
                                /\ map_spin_locks'[x].lastSpinWriter = u
    BY DEF SeenInv
  <2>2. blame[x] = {} /\ ~Spoilt(x)
    BY <1>0, <2>1 DEF Spoilt
  <2>3. ~Overlaps(x) /\ ~(L = EmptyLoop /\ val[x] # None)
    <3>1. blame'[x] = blame[x]
            \cup (IF Overlaps(x) THEN {"overlap"} ELSE {})
            \cup (IF loopOf[x] = EmptyLoop /\ val[x] # None THEN {"empty"} ELSE {})
      BY <1>0 DEF TestAndSet
    <3> QED BY <1>1, <2>1, <3>1
  <2>4. ~Invalidated(s.spin[x])
    BY <1>0, <1>4, <1>10, <2>2 DEF SeenInv
  <2>5. Tried(s1, r, t, L, x) /\ s1.ls = s.ls /\ ~Invalidated(s1.spin[x])
    BY <1>2, <2>4 DEF TriedAll, ReadOf, SameRole
  <2>6. CASE L # EmptyLoop
    <3>1. /\ r.spin[x] # None /\ r.spin[x].lastSpinWriter = t /\ ~Invalidated(r.spin[x])
          /\ \A u \in Thr : x \in r.ls[u] <=> x \in s.ls[u]
      BY <2>5, <2>6 DEF Tried
    <3>2. CASE val[x] = None
      <4>1. val'[x] = t /\ at'[t] = [a |-> x, got |-> TRUE]
        BY <1>3, <1>5, <1>8, <3>2
      <4> QED BY <1>0, <1>1, <1>10, <2>6, <3>1, <4>1
    <3>3. CASE val[x] # None
      <4>1. \A u \in Thr : val[x] = u => at[u] # [a |-> x, got |-> TRUE]
        BY <2>3 DEF Overlaps
      <4>2. \A u \in Thr : val[x] = u => x \in locksetA[u]
        BY <1>0, <1>4, <2>2, <4>1 DEF SeenInv
      <4> QED BY <1>8, <1>10, <3>1, <3>3, <4>2
    <3> QED BY <3>2, <3>3
  <2>7. CASE L = EmptyLoop
    <3>1. val[x] = None /\ val'[x] = t
      BY <1>8, <2>3, <2>7
    <3>2. ~Foreign(s1, t, x)
      <4>1. \A u \in Thr : x \notin s.ls[u]
        BY <1>0, <1>10, <2>2, <3>1, SpinAssumption DEF HeldInv
      <4> QED BY <2>5, <4>1 DEF Foreign
    <3>3. x \in r.ls[t] /\ ~Invalidated(r.spin[x])
      BY <2>5, <2>7, <3>2 DEF Tried
    <3> QED BY <1>10, <3>1, <3>3
  <2> QED BY <2>6, <2>7
<1> QED BY <1>11, <1>12, <1>13, <1>14 DEF FullNext

LEMMA SpinTestFull ==
  ASSUME FullInv, SpinNext, NEW t \in Thr, NEW x \in Addr, SpinTest(t, x)
  PROVE  FullNext
<1>0. /\ HoldInv /\ BaseInv /\ loopOf' = loopOf /\ \A y \in Addr : blame[y] \subseteq blame'[y]
      /\ \A y \in Addr : SeenInv(y) /\ FlagInv(y)
      /\ at \in [Thr -> [a : Addr \cup {0}, got : BOOLEAN]]
  BY FullFacts, HoldFacts
<1>1. PICK s, r, L : s = Tool /\ r = Tool' /\ L = loopOf[x]
  OBVIOUS
<1>2. ReadOf(s, r, t, x, L)
  BY <1>0, <1>1, SpinTestStep
<1>3. PICK g \in BOOLEAN : g = (role[x] = "flag" /\ val[x] # None)
  <2>1. (role[x] = "flag" /\ val[x] # None) \in BOOLEAN
    OBVIOUS
  <2> QED BY <2>1, Zenon
<1>4. at' = [at EXCEPT ![t] = [a |-> x, got |-> g]] /\ role' = role /\ val' = val
  BY <1>3 DEF SpinTest
<1>5. at'[t] = [a |-> x, got |-> g] /\ \A u \in Thr : u # t => at'[u] = at[u]
  BY <1>0, <1>4
<1>6. at[t] = Idle \/ at[t] = [a |-> x, got |-> FALSE]
  BY DEF SpinTest, MayLoop
<1>7. \A y \in Addr : at[t] # [a |-> y, got |-> TRUE]
  BY <1>6, IdleType
<1>8. /\ s.spin = map_spin_locks /\ s.ls = locksetA /\ s.vid = vid /\ s.sv = sv
      /\ r.spin = map_spin_locks' /\ r.ls = locksetA' /\ r.vid = vid' /\ r.sv = sv'
  BY <1>1 DEF Tool
<1>9. r.ls = s.ls /\ \A u \in Thr : s.vid[u] \subseteq r.vid[u]
  BY <1>2 DEF ReadOf
<1>10. \A y \in Addr : val[y] = t /\ blame[y] = {} /\ role[y] = "lock" => y \in locksetA[t]
  BY <1>0, <1>7 DEF SeenInv
<1>11. ASSUME NEW y \in Addr, y # x PROVE SeenInv(y)' /\ FlagInv(y)'
  <2>1. SameAt(s, r, y)
    BY <1>2, <1>11 DEF ReadOf
  <2>2. SeenInv(y)'
    BY <1>0, <1>1, <1>4, <1>5, <1>10, <2>1, SameSeen
  <2>3. \A u \in Thr : at'[u] = [a |-> y, got |-> TRUE] =>
                         at[u] = at'[u] /\ (y \in vid[u] => y \in vid'[u])
    <3>1. at'[t] # [a |-> y, got |-> TRUE]
      BY <1>5, <1>11
    <3> QED BY <1>5, <1>8, <1>9, <3>1
  <2>4. FlagInv(y)'
    BY <1>0, <1>1, <1>4, <2>1, <2>3, SameFlag
  <2> QED BY <2>2, <2>4
<1>12. SeenInv(x)'
  <2>1. SUFFICES ASSUME blame'[x] = {}, role[x] = "lock"
                 PROVE  /\ ~Invalidated(map_spin_locks'[x])
                        /\ \A u \in Thr : val[x] = u =>
                             \/ x \in locksetA'[u]
                             \/ /\ at'[u] = [a |-> x, got |-> TRUE] /\ loopOf[x] # EmptyLoop
                                /\ map_spin_locks'[x] # None
                                /\ map_spin_locks'[x].lastSpinWriter = u
    BY <1>0, <1>4 DEF SeenInv
  <2>2. blame[x] = {}
    BY <1>0, <2>1
  <2>3. SameRole(s, r, x) /\ r.spin[x] # None
    BY <1>2 DEF ReadOf
  <2>4. ~Invalidated(map_spin_locks'[x])
    BY <1>0, <1>8, <2>1, <2>2, <2>3 DEF SeenInv, SameRole
  <2>5. ASSUME NEW u \in Thr, val[x] = u, x \notin locksetA'[u]
        PROVE  /\ at'[u] = [a |-> x, got |-> TRUE] /\ loopOf[x] # EmptyLoop
               /\ map_spin_locks'[x] # None /\ map_spin_locks'[x].lastSpinWriter = u
    <3>1. x \notin locksetA[u]
      BY <1>8, <1>9, <2>5
    <3>2. /\ at[u] = [a |-> x, got |-> TRUE] /\ loopOf[x] # EmptyLoop
          /\ map_spin_locks[x] # None /\ map_spin_locks[x].lastSpinWriter = u
      BY <1>0, <2>1, <2>2, <2>5, <3>1 DEF SeenInv
    <3>3. u # t
      BY <1>7, <3>2
    <3> QED BY <1>5, <1>8, <2>3, <3>2, <3>3 DEF SameRole
  <2> QED BY <2>4, <2>5
<1>13. FlagInv(x)'
  <2>1. SUFFICES ASSUME role[x] = "flag", blame'[x] \cap {"return", "reused"} = {}
                 PROVE  /\ map_spin_locks'[x] # None => /\ map_spin_locks'[x].lastSpinWriter = None
                                                        /\ map_spin_locks'[x].wasALock = FALSE
                        /\ \A u \in Thr : x \notin locksetA'[u]
                        /\ val[x] # None => x \in sv'[x].v
                        /\ \A u \in Thr : at'[u] = [a |-> x, got |-> TRUE] => x \in vid'[u]
    BY <1>4 DEF FlagInv
  <2>2. blame[x] \cap {"return", "reused"} = {}
    BY <1>0, <2>1
  <2>3. /\ map_spin_locks[x] # None => /\ map_spin_locks[x].lastSpinWriter = None
                                       /\ map_spin_locks[x].wasALock = FALSE
        /\ \A u \in Thr : x \notin locksetA[u]
        /\ val[x] # None => x \in sv[x].v
        /\ \A u \in Thr : at[u] = [a |-> x, got |-> TRUE] => x \in vid[u]
    BY <1>0, <2>1, <2>2 DEF FlagInv
  <2>4. r.spin[x].lastSpinWriter = None /\ r.spin[x].wasALock = FALSE
    BY <1>2, <1>8, <2>3 DEF ReadOf, SameRole
  <2>5. val[x] # None => s.sv[x] # New /\ x \in s.sv[x].v
    <3>1. New.v = {}
      BY DEF New
    <3> QED BY <1>8, <2>3, <3>1
  <2>6. val[x] # None => x \in r.sv[x].v /\ x \in r.vid[t]
    BY <1>2, <2>4, <2>5 DEF ReadOf
  <2>7. ASSUME NEW u \in Thr, at'[u] = [a |-> x, got |-> TRUE] PROVE x \in r.vid[u]
    <3>1. CASE u = t
      <4>1. g
        BY <1>5, <2>7, <3>1
      <4> QED BY <1>3, <2>6, <3>1, <4>1
    <3>2. CASE u # t
      <4>1. x \in s.vid[u]
        BY <1>5, <1>8, <2>3, <2>7, <3>2
      <4> QED BY <1>9, <4>1
    <3> QED BY <3>1, <3>2
  <2> QED BY <1>8, <1>9, <2>3, <2>4, <2>6, <2>7
<1> QED BY <1>11, <1>12, <1>13 DEF FullNext

LEMMA ExitLoopFull ==
  ASSUME FullInv, SpinNext, NEW t \in Thr, ExitLoop(t)
  PROVE  FullNext
<1>0. /\ HoldInv /\ BaseInv /\ loopOf' = loopOf /\ \A y \in Addr : blame[y] \subseteq blame'[y]
      /\ \A y \in Addr : SeenInv(y) /\ FlagInv(y)
      /\ at \in [Thr -> [a : Addr \cup {0}, got : BOOLEAN]] /\ blame \in [Addr -> SUBSET Blames]
      /\ \A y \in Addr : HeldInv(y) /\ SpInv(y)
      /\ GotInv(t)
  BY FullFacts, HoldFacts
<1>1. PICK x \in Addr : x = at[t].a /\ at[t] # Idle
  BY <1>0, ExitLoopStep
<1>2. PICK s, r, L : s = Tool /\ r = Tool' /\ L = loopOf[x]
  OBVIOUS
<1>3. (L = EmptyLoop /\ r = s) \/ (L # EmptyLoop /\ ExitedAll(s, r, t, L))
  BY <1>0, <1>1, <1>2, ExitLoopStep
<1>4. at' = [at EXCEPT ![t] = Idle] /\ role' = role /\ val' = val
  BY DEF ExitLoop
<1>5. at'[t] = Idle /\ \A u \in Thr : u # t => at'[u] = at[u]
  BY <1>0, <1>4
<1>6. /\ s.spin = map_spin_locks /\ s.ls = locksetA /\ s.vid = vid /\ s.sv = sv
      /\ r.spin = map_spin_locks' /\ r.ls = locksetA' /\ r.vid = vid' /\ r.sv = sv'
  BY <1>2 DEF Tool
<1>7. r.vid = s.vid
  BY <1>3 DEF ExitedAll
<1>8. ASSUME NEW y \in Addr
      PROVE  SameAt(s, r, y) \/ (ExitedAt(s, r, t, L, y) /\ Pending(s, t, L, y))
  <2>1. CASE r = s
    BY <2>1 DEF SameAt
  <2>2. CASE ExitedAll(s, r, t, L)
    BY <2>2, ExitedCalm DEF ExitedAll
  <2> QED BY <1>3, <2>1, <2>2
<1>9. ASSUME NEW y \in Addr PROVE FlagInv(y)'
  <2>1. SUFFICES ASSUME role'[y] = "flag", blame'[y] \cap {"return", "reused"} = {} PROVE FlagInv(y)'
    BY DEF FlagInv
  <2>2. role[y] = "flag" /\ blame[y] \cap {"return", "reused"} = {}
    BY <1>0, <1>4, <2>1
  <2>3. ~Pending(s, t, L, y)
    BY <1>0, <1>6, <2>2, SpinAssumption DEF FlagInv, Pending
  <2>4. SameAt(s, r, y)
    BY <1>8, <2>3
  <2>5. \A u \in Thr : at'[u] = [a |-> y, got |-> TRUE] =>
                         at[u] = at'[u] /\ (y \in vid[u] => y \in vid'[u])
    <3>1. at'[t] # [a |-> y, got |-> TRUE]
      BY <1>5, IdleType
    <3> QED BY <1>5, <1>6, <1>7, <3>1
  <2> QED BY <1>0, <1>2, <1>4, <2>4, <2>5, SameFlag
<1>10. ASSUME NEW y \in Addr, y # x PROVE SeenInv(y)'
  <2>1. CASE SameAt(s, r, y)
    <3>1. \A u \in Thr : at'[u] # at[u] /\ val[y] = u /\ blame[y] = {} /\ role[y] = "lock"
                           => y \in locksetA[u]
      <4>1. SUFFICES ASSUME val[y] = t, blame[y] = {}, role[y] = "lock" PROVE y \in locksetA[t]
        BY <1>5
      <4>2. at[t] # [a |-> y, got |-> TRUE]
        BY <1>1, <1>10
      <4> QED BY <1>0, <4>1, <4>2 DEF SeenInv
    <3> QED BY <1>0, <1>2, <1>4, <2>1, <3>1, SameSeen
  <2>2. CASE ~SameAt(s, r, y)
    <3>1. Spoilt(y)
      BY <1>0, <1>1, <1>2, <1>8, <1>10, <2>2, ElsewhereSpoilt
    <3>2. blame'[y] # {}
      BY <1>0, <3>1 DEF Spoilt
    <3> QED BY <3>2 DEF SeenInv
  <2> QED BY <2>1, <2>2
<1>11. SeenInv(x)'
  <2>1. SUFFICES ASSUME blame'[x] = {}, role[x] = "lock"
                 PROVE  /\ ~Invalidated(map_spin_locks'[x])
                        /\ \A u \in Thr : val[x] = u => x \in locksetA'[u]
    BY <1>4 DEF SeenInv
  <2>2. blame[x] = {} /\ ~Spoilt(x) /\ "return" \notin blame[x]
    BY <1>0, <2>1 DEF Spoilt
  <2>3. at[t].got
    <3>1. SUFFICES ASSUME ~at[t].got PROVE FALSE
      OBVIOUS
    <3>2. blame' = [blame EXCEPT ![x] = blame[x] \cup {"gaveUp"}]
      BY <1>1, <3>1 DEF ExitLoop
    <3> QED BY <1>0, <2>1, <3>2
  <2>4. val[x] = t /\ s.spin[x] # None
    BY <1>0, <1>1, <1>6, <2>1, <2>3 DEF GotInv
  <2>5. ~Invalidated(s.spin[x])
        /\ (x \in s.ls[t] \/ (L # EmptyLoop /\ s.spin[x].lastSpinWriter = t))
    BY <1>0, <1>2, <1>6, <2>1, <2>2, <2>4 DEF SeenInv
  <2>6. ~Foreign(s, t, x)
    BY <1>0, <1>6, <2>2, <2>4 DEF HeldInv, Foreign
  <2>7. s.spin[x].sp = L
    BY <1>0, <1>2, <1>6, <2>2, <2>4 DEF SpInv
  <2>8. CASE Pending(s, t, L, x) /\ L # EmptyLoop
    <3>1. Taken(s, r, t, x)
      BY <1>3, <2>6, <2>8 DEF ExitedAll, ExitedAt
    <3> QED BY <1>6, <2>4, <3>1 DEF Taken
  <2>9. CASE ~(Pending(s, t, L, x) /\ L # EmptyLoop)
    <3>1. x \in s.ls[t]
      BY <2>4, <2>5, <2>7, <2>9 DEF Pending
    <3>2. SameAt(s, r, x)
      <4>1. CASE r = s
        BY <4>1 DEF SameAt
      <4>2. CASE r # s
        BY <1>3, <1>8, <2>9, <4>2
      <4> QED BY <4>1, <4>2
    <3> QED BY <1>6, <2>4, <2>5, <3>1, <3>2 DEF SameAt
  <2> QED BY <2>8, <2>9
<1> QED BY <1>9, <1>10, <1>11 DEF FullNext

LEMMA ReturnFull ==
  ASSUME FullInv, NEW t \in Thr, ReturnFromLoop(t)
  PROVE  FullNext
<1>1. \A y \in Addr : "return" \in blame'[y]
  BY DEF ReturnFromLoop
<1> QED BY <1>1 DEF FullNext, SeenInv, FlagInv

\* Steps that leave every thread in its loop and one address alone.
LEMMA AloneFull ==
  ASSUME FullInv, SpinNext, at' = at, NEW y \in Addr, NEW s, NEW r, s = Tool, r = Tool',
         SameAt(s, r, y), role'[y] = role[y], val'[y] = val[y],
         \A u \in Thr : at[u] # Idle /\ y \in vid[u] => y \in vid'[u]
  PROVE  SeenInv(y)' /\ FlagInv(y)'
<1>0. /\ loopOf' = loopOf /\ blame[y] \subseteq blame'[y] /\ SeenInv(y) /\ FlagInv(y)
  BY FullFacts
<1>1. SeenInv(y)'
  BY <1>0, SameSeen
<1>2. \A u \in Thr : at'[u] = [a |-> y, got |-> TRUE] =>
                       at[u] = at'[u] /\ (y \in vid[u] => y \in vid'[u])
  BY IdleType
<1>3. FlagInv(y)'
  BY <1>0, <1>2, SameFlag
<1> QED BY <1>1, <1>3

LEMMA UnlockFull ==
  ASSUME FullInv, SpinNext, NEW t \in Thr, NEW x \in Addr, NEW atomic \in BOOLEAN,
         Unlock(t, x, atomic)
  PROVE  FullNext
<1>0. /\ HoldInv /\ BaseInv /\ loopOf' = loopOf /\ \A y \in Addr : blame[y] \subseteq blame'[y]
      /\ SeenInv(x) /\ val \in [Addr -> Maybe(Thr)] /\ blame \in [Addr -> SUBSET Blames]
      /\ HeldInv(x) /\ ThreadInv(t) /\ Tool \in ToolInv
  BY FullFacts, HoldFacts
<1>1. PICK s, r : s = Tool /\ r = Tool'
  OBVIOUS
<1>2. Written(s, r, x) /\ (lastSpin[t] \in {None, EmptyLoop} => WrittenOutside(s, r, t, x))
  BY <1>0, <1>1, UnlockStep
<1>3. /\ s.spin = map_spin_locks /\ s.ls = locksetA /\ s.vid = vid /\ s.sv = sv
      /\ r.spin = map_spin_locks' /\ r.ls = locksetA' /\ r.vid = vid' /\ r.sv = sv'
  BY <1>1 DEF Tool
<1>4. /\ at[t] = Idle /\ at' = at /\ role' = role /\ val[x] = t /\ role[x] = "lock"
      /\ val' = [val EXCEPT ![x] = None]
  BY DEF Unlock
<1>5. val'[x] = None /\ \A y \in Addr : y # x => val'[y] = val[y]
  BY <1>0, <1>4
<1>6. ASSUME NEW y \in Addr, y # x PROVE SeenInv(y)' /\ FlagInv(y)'
  <2>1. SameAt(s, r, y) /\ vid' = vid
    BY <1>2, <1>3, <1>6 DEF Written
  <2> QED BY <1>1, <1>4, <1>5, <1>6, <2>1, AloneFull
<1>7. FlagInv(x)'
  BY <1>4 DEF FlagInv
<1>8. SeenInv(x)'
  <2>1. SUFFICES ASSUME blame'[x] = {} PROVE ~Invalidated(map_spin_locks'[x])
    BY <1>5, SpinAssumption DEF SeenInv
  <2>2. blame[x] = {} /\ ~Spoilt(x) /\ "return" \notin blame[x]
    BY <1>0, <2>1 DEF Spoilt
  <2>3. WrittenOutside(s, r, t, x)
    BY <1>0, <1>2, <1>4, <2>2 DEF ThreadInv
  <2>4. at[t] # [a |-> x, got |-> TRUE]
    BY <1>4, IdleType
  <2>5. x \in s.ls[t] /\ ~Invalidated(s.spin[x])
    BY <1>0, <1>3, <1>4, <2>2, <2>4 DEF SeenInv
  <2>6. s.sv[x].st = "SpinVar"
    BY <1>0, <1>3, <2>2, <2>5 DEF HeldInv
  <2>7. s.spin[x] # None
    BY <1>0, <1>1, <2>5, HeldIsRecorded
  <2>8. Noted(s, r.spin[x], t, x)
    BY <2>3, <2>6, <2>7 DEF WrittenOutside
  <2>9. r.spin[x].wasReleasedBefore
    <3>1. CASE s.spin[x].lastReleaseWriter = t
      <4>1. s.spin[x].wasReleasedBefore
        BY <2>5, <2>7, <3>1, SpinAssumption DEF Invalidated
      <4> QED BY <2>8, <3>1, <4>1 DEF Noted
    <3>2. CASE s.spin[x].lastReleaseWriter # t
      BY <2>5, <2>8, <3>2 DEF Noted
    <3> QED BY <3>1, <3>2
  <2> QED BY <1>3, <2>9 DEF Invalidated
<1> QED BY <1>6, <1>7, <1>8 DEF FullNext

LEMMA SetFlagFull ==
  ASSUME FullInv, SpinNext, NEW t \in Thr, NEW x \in Addr, SetFlag(t, x)
  PROVE  FullNext
<1>0. /\ HoldInv /\ BaseInv /\ loopOf' = loopOf /\ \A y \in Addr : blame[y] \subseteq blame'[y]
      /\ FlagInv(x) /\ val \in [Addr -> Maybe(Thr)]
      /\ ThreadInv(t) /\ \A u \in Thr : GotInv(u)
  BY FullFacts, HoldFacts
<1>1. PICK s, r : s = Tool /\ r = Tool'
  OBVIOUS
<1>2. PICK s1 \in ToolInv :
        /\ VidSet(s, s1, t, vid[t] \cup {x}) /\ Written(s1, r, x)
        /\ lastSpin[t] \in {None, EmptyLoop}
             => WrittenOutside(s1, r, t, x) /\ Published(s1, r, t, x, FALSE)
  BY <1>0, <1>1, SetFlagStep
<1>3. /\ s.spin = map_spin_locks /\ s.ls = locksetA /\ s.vid = vid /\ s.sv = sv
      /\ r.spin = map_spin_locks' /\ r.ls = locksetA' /\ r.vid = vid' /\ r.sv = sv'
  BY <1>1 DEF Tool
<1>4. /\ s1.spin = s.spin /\ s1.locks = s.locks /\ s1.ls = s.ls /\ s1.sv = s.sv
      /\ s1.vid[t] = vid[t] \cup {x} /\ \A u \in Thr : u # t => s1.vid[u] = s.vid[u]
  BY <1>2 DEF VidSet
<1>5. /\ at[t] = Idle /\ at' = at /\ role' = role /\ val[x] = None /\ role[x] = "flag"
      /\ val' = [val EXCEPT ![x] = t]
  BY DEF SetFlag
<1>6. \A y \in Addr : y # x => val'[y] = val[y]
  BY <1>0, <1>5
<1>7. \A u \in Thr : u # t => vid'[u] = vid[u]
  BY <1>2, <1>3, <1>4 DEF Written
<1>8. ASSUME NEW y \in Addr, y # x PROVE SeenInv(y)' /\ FlagInv(y)'
  <2>1. SameAt(s1, r, y)
    BY <1>2, <1>8 DEF Written
  <2>2. SameAt(s, r, y)
    BY <1>4, <2>1 DEF SameAt
  <2> QED BY <1>1, <1>5, <1>6, <1>7, <1>8, <2>2, AloneFull
<1>9. SeenInv(x)'
  BY <1>5 DEF SeenInv
<1>10. FlagInv(x)'
  <2>1. SUFFICES ASSUME blame'[x] \cap {"return", "reused"} = {}
                 PROVE  /\ map_spin_locks'[x] # None => /\ map_spin_locks'[x].lastSpinWriter = None
                                                        /\ map_spin_locks'[x].wasALock = FALSE
                        /\ \A u \in Thr : x \notin locksetA'[u]
                        /\ x \in sv'[x].v
                        /\ \A u \in Thr : at[u] = [a |-> x, got |-> TRUE] => x \in vid'[u]
    BY <1>5 DEF FlagInv
  <2>2. blame[x] \cap {"return", "reused"} = {} /\ "return" \notin blame[x]
    BY <1>0, <2>1
  <2>3. WrittenOutside(s1, r, t, x) /\ Published(s1, r, t, x, FALSE)
    BY <1>0, <1>2, <1>5, <2>2 DEF ThreadInv
  <2>4. /\ s1.spin[x] # None => s1.spin[x].lastSpinWriter = None /\ s1.spin[x].wasALock = FALSE
        /\ \A u \in Thr : x \notin s1.ls[u]
    BY <1>0, <1>3, <1>4, <1>5, <2>2 DEF FlagInv
  <2>5. x \in r.sv[x].v
    BY <1>4, <2>3, <2>4 DEF Published
  <2>6. \A u \in Thr : x \notin r.ls[u]
    BY <2>3, <2>4 DEF WrittenOutside
  <2>7. r.spin[x] # None => r.spin[x].lastSpinWriter = None /\ r.spin[x].wasALock = FALSE
    <3>1. CASE s.sv[x].st # "SpinVar"
      BY <1>4, <2>3, <2>4, <3>1 DEF WrittenOutside
    <3>2. CASE s.sv[x].st = "SpinVar"
      <4>1. SUFFICES ASSUME r.spin[x] # None
                     PROVE  r.spin[x].lastSpinWriter = None /\ r.spin[x].wasALock = FALSE
        OBVIOUS
      <4>2. s1.spin[x] # None /\ Noted(s1, r.spin[x], t, x)
        BY <1>4, <2>3, <3>2, <4>1 DEF WrittenOutside
      <4>3. r.spin[x].wasALock \in BOOLEAN
        BY <4>2 DEF Noted, SpinRecord
      <4> QED BY <2>4, <4>2, <4>3 DEF Noted
    <3> QED BY <3>1, <3>2
  <2>8. \A u \in Thr : at[u] # [a |-> x, got |-> TRUE]
    BY <1>0, <1>5 DEF GotInv
  <2> QED BY <1>3, <2>5, <2>6, <2>7, <2>8
<1> QED BY <1>8, <1>9, <1>10 DEF FullNext

LEMMA ExitThreadFull ==
  ASSUME FullInv, SpinNext, NEW t \in Thr, ExitThread(t)
  PROVE  FullNext
<1>0. /\ HoldInv /\ BaseInv /\ loopOf' = loopOf /\ \A y \in Addr : blame[y] \subseteq blame'[y]
      /\ \A y \in Addr : SeenInv(y) /\ FlagInv(y)
  BY FullFacts, HoldFacts
<1>1. PICK s, r : s = Tool /\ r = Tool'
  OBVIOUS
<1>2. PICK s1 \in ToolInv : LeftAll(s, s1, t) /\ VidSet(s1, r, t, {})
  BY <1>0, <1>1, ExitThreadStep
<1>3. /\ s.spin = map_spin_locks /\ s.ls = locksetA /\ s.vid = vid /\ s.sv = sv
      /\ r.spin = map_spin_locks' /\ r.ls = locksetA' /\ r.vid = vid' /\ r.sv = sv'
  BY <1>1 DEF Tool
<1>4. /\ r.spin = s1.spin /\ r.locks = s1.locks /\ r.ls = s1.ls /\ r.sv = s1.sv
      /\ \A u \in Thr : u # t => r.vid[u] = s.vid[u]
  BY <1>2 DEF VidSet, LeftAll
<1>5. /\ at[t] = Idle /\ at' = at /\ role' = role /\ val' = val
      /\ \A y \in Addr : role[y] = "lock" => val[y] # t
  BY DEF ExitThread
<1>6. ASSUME NEW y \in Addr PROVE SeenInv(y)' /\ FlagInv(y)'
  <2>1. Left(s, s1, t, y)
    BY <1>2 DEF LeftAll
  <2>2. CASE y \notin s.ls[t]
    <3>1. SameAt(s, s1, y)
      BY <2>1, <2>2 DEF Left
    <3>2. SameAt(s, r, y)
      BY <1>4, <3>1 DEF SameAt
    <3>3. \A u \in Thr : at[u] # Idle /\ y \in vid[u] => y \in vid'[u]
      BY <1>3, <1>4, <1>5
    <3> QED BY <1>1, <1>5, <3>2, <3>3, AloneFull
  <2>3. CASE y \in s.ls[t]
    <3>1. SeenInv(y)'
      <4>1. SUFFICES ASSUME blame'[y] = {}, role[y] = "lock"
                     PROVE  /\ ~Invalidated(map_spin_locks'[y])
                            /\ \A u \in Thr : val[y] = u =>
                                 \/ y \in locksetA'[u]
                                 \/ /\ at[u] = [a |-> y, got |-> TRUE] /\ loopOf[y] # EmptyLoop
                                    /\ map_spin_locks'[y] # None
                                    /\ map_spin_locks'[y].lastSpinWriter = u
        BY <1>0, <1>5 DEF SeenInv
      <4>2. blame[y] = {}
        BY <1>0, <4>1
      <4>3. /\ s.spin[y] = None => r.spin[y] = None
            /\ s.spin[y] # None => r.spin[y] # None /\ SameButHeld(s.spin[y], r.spin[y])
            /\ \A u \in Thr : u # t => (y \in r.ls[u] <=> y \in s.ls[u])
        BY <1>4, <2>1 DEF Left
      <4>4. ~Invalidated(s.spin[y])
        BY <1>0, <1>3, <4>1, <4>2 DEF SeenInv
      <4>5. ~Invalidated(r.spin[y])
        BY <4>3, <4>4 DEF Invalidated, SameButHeld
      <4>6. ASSUME NEW u \in Thr, val[y] = u, y \notin r.ls[u]
            PROVE  /\ at[u] = [a |-> y, got |-> TRUE] /\ loopOf[y] # EmptyLoop
                   /\ r.spin[y] # None /\ r.spin[y].lastSpinWriter = u
        <5>1. u # t /\ y \notin s.ls[u]
          BY <1>5, <4>1, <4>3, <4>6
        <5>2. /\ at[u] = [a |-> y, got |-> TRUE] /\ loopOf[y] # EmptyLoop
              /\ s.spin[y] # None /\ s.spin[y].lastSpinWriter = u
          BY <1>0, <1>3, <4>1, <4>2, <4>6, <5>1 DEF SeenInv
        <5> QED BY <4>3, <5>2 DEF SameButHeld
      <4> QED BY <1>3, <4>5, <4>6
    <3>2. FlagInv(y)'
      <4>1. SUFFICES ASSUME role[y] = "flag", blame'[y] \cap {"return", "reused"} = {} PROVE FALSE
        BY <1>5 DEF FlagInv
      <4> QED BY <1>0, <1>3, <2>3, <4>1 DEF FlagInv
    <3> QED BY <3>1, <3>2
  <2> QED BY <2>2, <2>3
<1> QED BY <1>6 DEF FullNext

LEMMA MutexFull ==
  ASSUME FullInv, SpinNext, NEW t \in Thr, LockMutex(t) \/ UnlockMutex(t)
  PROVE  FullNext
<1>0. BaseInv
  BY FullFacts
<1>1. PICK s, r : s = Tool /\ r = Tool'
  OBVIOUS
<1>2. MutexSet(s, r)
  BY <1>0, <1>1, MutexStep
<1>3. at' = at /\ role' = role /\ val' = val /\ vid' = vid
  BY DEF LockMutex, UnlockMutex
<1>4. ASSUME NEW y \in Addr PROVE SeenInv(y)' /\ FlagInv(y)'
  <2>1. SameAt(s, r, y)
    BY <1>2 DEF MutexSet
  <2> QED BY <1>1, <1>3, <2>1, AloneFull
<1> QED BY <1>4 DEF FullNext

LEMMA ReuseFull ==
  ASSUME FullInv, SpinNext, NEW x \in Addr, NEW how \in {"lock", "flag"}, ReuseMemory(x, how)
  PROVE  FullNext
<1>0. /\ HoldInv /\ BaseInv
      /\ role \in [Addr -> {"lock", "flag"}] /\ val \in [Addr -> Maybe(Thr)]
      /\ blame \in [Addr -> SUBSET Blames]
  BY FullFacts, HoldFacts
<1>1. PICK s, r : s = Tool /\ r = Tool'
  OBVIOUS
<1>2. Renewed(s, r, x)
  BY <1>0, <1>1, ReuseStep
<1>3. s.vid = vid /\ r.vid = vid'
  BY <1>1 DEF Tool
<1>4. /\ at' = at /\ \A y \in Addr : y # x => role'[y] = role[y] /\ val'[y] = val[y]
      /\ "reused" \in blame'[x]
  BY <1>0 DEF ReuseMemory
<1>5. ASSUME NEW y \in Addr, y # x PROVE SeenInv(y)' /\ FlagInv(y)'
  <2>1. SameAt(s, r, y) /\ \A u \in Thr : y \in vid[u] => y \in vid'[u]
    BY <1>2, <1>3, <1>5 DEF Renewed, SameAt
  <2> QED BY <1>1, <1>4, <1>5, <2>1, AloneFull
<1>6. SeenInv(x)' /\ FlagInv(x)'
  BY <1>4 DEF SeenInv, FlagInv
<1> QED BY <1>5, <1>6 DEF FullNext

LEMMA FullStep ==
  ASSUME FullInv, [SpinNext]_spinVars
  PROVE  FullInv'
<1>1. HoldInv'
  BY HoldStep DEF FullInv
<1>2. CASE SpinNext
  <2>1. FullNext
    BY <1>2, TestAndSetFull, SpinTestFull, ExitLoopFull, ReturnFull, UnlockFull, SetFlagFull,
       ExitThreadFull, MutexFull, ReuseFull DEF SpinNext, Steps
  <2> QED BY <1>1, <2>1 DEF FullInv, FullNext
<1>3. CASE UNCHANGED spinVars
  <2>1. \A x \in Addr : SeenInv(x)' /\ FlagInv(x)'
    BY <1>3 DEF FullInv, SeenInv, FlagInv, spinVars
  <2> QED BY <1>1, <2>1 DEF FullInv
<1> QED BY <1>2, <1>3

\* For any number of threads, addresses and loops, a client that has its lock
\* and has left its loop is known to the tool as the holder, as long as nothing
\* has led the tool astray at this lock: between the write in the loop and the
\* loop's exit no step of another thread, and no loop for another address, can
\* lose the attempt.
THEOREM AcquisitionsAreSeen == SpinSpec => []AcquisitionIsSeen
<1>1. SpinInit => FullInv
  BY FullInit
<1>2. FullInv /\ [SpinNext]_spinVars => FullInv'
  BY FullStep
<1>3. FullInv => AcquisitionIsSeen
  BY FullLemma
<1> QED BY <1>1, <1>2, <1>3, PTL DEF SpinSpec

\* For any number of threads, addresses and loops, who has waited for a flag in
\* a spin loop is ordered after its setter, unless a loop was left by a return
\* or the memory served another variable before: a flag is not taken for a lock
\* by what happens at other addresses, so its readers join its timestamp.
THEOREM FlagsHandOver == SpinSpec => []FlagHandsOver
<1>1. SpinInit => FullInv
  BY FullInit
<1>2. FullInv /\ [SpinNext]_spinVars => FullInv'
  BY FullStep
<1>3. FullInv => FlagHandsOver
  BY FullLemma
<1> QED BY <1>1, <1>2, <1>3, PTL DEF SpinSpec

----------------------------------------------------------------------------
(* Zsm: sizes and nodes *)

Sized(p, k) == (k = 0 /\ p = 1) \/ (k = 1 /\ p = 2) \/ (k = 2 /\ p = 4) \/ (k = 3 /\ p = 8)

LEMMA Powers ==
  ASSUME NEW k \in 0 .. 3
  PROVE  Sized(2^k, k)
<1>1. 2^0 = 1 /\ 2^1 = 2 /\ 2^2 = 4 /\ 2^3 = 8
  OBVIOUS
<1>2. k = 0 \/ k = 1 \/ k = 2 \/ k = 3
  OBVIOUS
<1>3. CASE k = 0
  BY <1>1, <1>3, Zenon DEF Sized
<1>4. CASE k = 1
  BY <1>1, <1>4, Zenon DEF Sized
<1>5. CASE k = 2
  BY <1>1, <1>5, Zenon DEF Sized
<1>6. CASE k = 3
  BY <1>1, <1>6, Zenon DEF Sized
<1> QED BY <1>2, <1>3, <1>4, <1>5, <1>6

LEMMA Sizes ==
  /\ Depth \in 1 .. 3 /\ Sized(W, Depth) /\ W \in Nat /\ W > 0
  /\ Off = 0 .. W - 1 /\ Level = 0 .. Depth /\ Level \subseteq 0 .. 3
  /\ NLine \in Nat /\ NLine > 0 /\ NWay \in Nat /\ NWay > 0
<1>1. Depth \in 1 .. 3 /\ NLine \in Nat /\ NLine > 0 /\ NWay \in Nat /\ NWay > 0
  BY ZsmAssumption
<1>2. Sized(W, Depth)
  <2>1. Depth \in 0 .. 3
    BY <1>1
  <2> QED BY <2>1, Powers DEF W
<1>3. W \in Nat /\ W > 0
  BY <1>2 DEF Sized
<1> QED BY <1>1, <1>2, <1>3 DEF Off, Level

\* Multiples of powers of two.
Divides(p, x, q) ==
  /\ q \in Nat /\ q <= x /\ x < q + p /\ q % p = 0
  /\ \A y \in Nat : y % p = 0 /\ y <= x /\ x < y + p => y = q

LEMMA Rounded ==
  ASSUME NEW p \in {1, 2, 4, 8}, NEW x \in Nat
  PROVE  Divides(p, x, (x \div p) * p)
<1>1. CASE p = 1
  BY <1>1 DEF Divides
<1>2. CASE p = 2
  BY <1>2 DEF Divides
<1>3. CASE p = 4
  BY <1>3 DEF Divides
<1>4. CASE p = 8
  BY <1>4 DEF Divides
<1> QED BY <1>1, <1>2, <1>3, <1>4

LEMMA Multiples ==
  ASSUME NEW p \in {1, 2, 4, 8}, NEW q \in {1, 2, 4, 8}, p <= q,
         NEW x \in Nat, x % p = 0, NEW y \in Nat, y % q = 0
  PROVE  /\ y % p = 0
         /\ x < y + q => x + p <= y + q
         /\ y < x + p => y <= x
<1>1. CASE q = 1
  BY <1>1
<1>2. CASE q = 2
  <2>1. CASE p = 1
    BY <1>2, <2>1
  <2>2. CASE p = 2
    BY <1>2, <2>2
  <2> QED BY <1>2, <2>1, <2>2
<1>3. CASE q = 4
  <2>1. CASE p = 1
    BY <1>3, <2>1
  <2>2. CASE p = 2
    BY <1>3, <2>2
  <2>3. CASE p = 4
    BY <1>3, <2>3
  <2> QED BY <1>3, <2>1, <2>2, <2>3
<1>4. CASE q = 8
  <2>1. CASE p = 1
    BY <1>4, <2>1
  <2>2. CASE p = 2
    BY <1>4, <2>2
  <2>3. CASE p = 4
    BY <1>4, <2>3
  <2>4. CASE p = 8
    BY <1>4, <2>4
  <2> QED BY <1>4, <2>1, <2>2, <2>3, <2>4
<1> QED BY <1>1, <1>2, <1>3, <1>4

LEMMA SizeFacts ==
  ASSUME NEW k \in Level
  PROVE  /\ k \in 0 .. 3 /\ Sized(2^k, k) /\ 2^k \in {1, 2, 4, 8} /\ 2^k <= W /\ W % 2^k = 0
         /\ k > 0 => k - 1 \in Level /\ 2^k = 2^(k - 1) + 2^(k - 1)
         /\ \A j \in Level : j <= k <=> 2^j <= 2^k
<1>1. k \in 0 .. 3 /\ k <= Depth
  BY Sizes
<1>2. Sized(2^k, k)
  BY <1>1, Powers
<1>3. 2^k \in {1, 2, 4, 8}
  BY <1>2 DEF Sized
<1>4. 2^k <= W /\ W % 2^k = 0
  <2>1. PICK p : p = 2^k
    OBVIOUS
  <2>2. Sized(p, k) /\ Sized(W, Depth)
    BY <1>2, <2>1, Sizes
  <2>3. p <= W /\ W % p = 0
    BY <1>1, <2>2, Sizes DEF Sized
  <2> QED BY <2>1, <2>3
<1>5. k > 0 => k - 1 \in Level /\ 2^k = 2^(k - 1) + 2^(k - 1)
  <2>1. SUFFICES ASSUME k > 0 PROVE k - 1 \in Level /\ 2^k = 2^(k - 1) + 2^(k - 1)
    OBVIOUS
  <2>2. k - 1 \in 0 .. 3 /\ k - 1 \in Level
    BY <1>1, <2>1, Sizes
  <2>3. Sized(2^(k - 1), k - 1)
    BY <2>2, Powers
  <2> QED BY <1>2, <2>2, <2>3 DEF Sized
<1>6. ASSUME NEW j \in Level PROVE j <= k <=> 2^j <= 2^k
  <2>1. Sized(2^j, j)
    BY Sizes, Powers
  <2> QED BY <1>2, <2>1 DEF Sized
<1> QED BY <1>1, <1>2, <1>3, <1>4, <1>5, <1>6

LEMMA IsNode ==
  ASSUME NEW k \in Level, NEW o \in Off, o % 2^k = 0
  PROVE  <<k, o>> \in Node
BY DEF Node

NodeOf(n, k, o, p) ==
  /\ n = <<k, o>> /\ n[1] = k /\ n[2] = o /\ p = 2^k
  /\ k \in Level /\ p \in {1, 2, 4, 8} /\ o \in Off /\ o \in Nat /\ o % p = 0 /\ o + p <= W

LEMMA NodeFacts ==
  ASSUME NEW n \in Node
  PROVE  /\ NodeOf(n, n[1], n[2], 2^n[1])
         /\ \A y \in Int : y \in Bytes(n) <=> n[2] <= y /\ y < n[2] + 2^n[1]
         /\ Bytes(n) \subseteq Off /\ n[2] \in Bytes(n)
<1>1. PICK k \in Level : \E o \in Off : o % 2^k = 0 /\ n = <<k, o>>
  BY DEF Node
<1>2. PICK o \in Off : o % 2^k = 0 /\ n = <<k, o>>
  BY <1>1
<1>3. n[1] = k /\ n[2] = o
  BY <1>2
<1>4. PICK p : p = 2^k
  OBVIOUS
<1>5. p \in {1, 2, 4, 8} /\ p <= W /\ W % p = 0
  BY <1>4, SizeFacts
<1>6. o \in Nat /\ o < W /\ W \in Nat
  BY Sizes
<1>7. o % p = 0
  BY <1>2, <1>4
<1>8. o + p <= W
  <2>1. CASE p = 1
    BY <1>6, <2>1
  <2>2. CASE p = 2
    BY <1>5, <1>6, <1>7, <2>2
  <2>3. CASE p = 4
    BY <1>5, <1>6, <1>7, <2>3
  <2>4. CASE p = 8
    BY <1>5, <1>6, <1>7, <2>4
  <2> QED BY <1>5, <2>1, <2>2, <2>3, <2>4
<1>9. NodeOf(n, n[1], n[2], 2^n[1])
  BY <1>2, <1>3, <1>4, <1>5, <1>6, <1>7, <1>8 DEF NodeOf
<1>10. Bytes(n) = o .. o + p - 1
  BY <1>3, <1>4 DEF Bytes
<1>11. \A y \in Int : y \in Bytes(n) <=> o <= y /\ y < o + p
  BY <1>5, <1>6, <1>10
<1>12. Bytes(n) \subseteq Off /\ o \in Bytes(n)
  BY <1>5, <1>6, <1>8, <1>10, Sizes
<1> QED BY <1>3, <1>4, <1>9, <1>11, <1>12

LEMMA AboveFacts ==
  ASSUME NEW k \in Level, NEW o \in Off
  PROVE  Above(k, o) \in Node /\ Above(k, o)[1] = k /\ o \in Bytes(Above(k, o))
<1>1. PICK p : p = 2^k
  OBVIOUS
<1>2. p \in {1, 2, 4, 8}
  BY <1>1, SizeFacts
<1>3. o \in Nat /\ o < W /\ W \in Nat
  BY Sizes
<1>4. PICK q : q = (o \div p) * p
  OBVIOUS
<1>5. q \in Nat /\ q <= o /\ o < q + p /\ q % p = 0
  BY <1>2, <1>3, <1>4, Rounded DEF Divides
<1>6. q \in Off
  BY <1>3, <1>5, Sizes
<1>7. Above(k, o) = <<k, q>>
  BY <1>1, <1>4 DEF Above
<1>8. <<k, q>> \in Node
  BY <1>1, <1>5, <1>6, IsNode
<1>9. o \in Bytes(<<k, q>>)
  BY <1>1, <1>2, <1>3, <1>5 DEF Bytes
<1> QED BY <1>7, <1>8, <1>9

LEMMA Nested ==
  ASSUME NEW n \in Node, NEW m \in Node, n[1] <= m[1],
         NEW o, o \in Bytes(n), o \in Bytes(m)
  PROVE  Bytes(n) \subseteq Bytes(m) /\ (n[1] = m[1] => n = m)
<1>1. PICK k, x, p : NodeOf(n, k, x, p) /\ k = n[1] /\ x = n[2] /\ p = 2^k
  BY NodeFacts
<1>2. PICK j, y, q : NodeOf(m, j, y, q) /\ j = m[1] /\ y = m[2] /\ q = 2^j
  BY NodeFacts
<1>3. p <= q
  BY <1>1, <1>2, SizeFacts DEF NodeOf
<1>4. o \in Int /\ x <= o /\ o < x + p /\ y <= o /\ o < y + q
  <2>1. o \in Off
    BY NodeFacts
  <2>2. o \in Int
    BY <2>1, Sizes
  <2> QED BY <2>2, <1>1, <1>2, NodeFacts
<1>5. x \in Nat /\ y \in Nat /\ p \in {1, 2, 4, 8} /\ q \in {1, 2, 4, 8} /\ x % p = 0 /\ y % q = 0
  BY <1>1, <1>2 DEF NodeOf
<1>6. (x < y + q => x + p <= y + q) /\ (y < x + p => y <= x)
  BY <1>3, <1>5, Multiples
<1>7. y <= x /\ x + p <= y + q
  BY <1>4, <1>5, <1>6
<1>8. ASSUME NEW z \in Bytes(n) PROVE z \in Bytes(m)
  <2>1. z \in Off
    BY <1>8, NodeFacts
  <2>2. z \in Int
    BY <2>1, Sizes
  <2>3. x <= z /\ z < x + p
    BY <1>1, <1>8, <2>2, NodeFacts
  <2>4. y <= z /\ z < y + q
    BY <1>5, <1>7, <2>2, <2>3
  <2> QED BY <1>2, <2>2, <2>4, NodeFacts
<1>9. ASSUME k = j PROVE n = m
  <2>1. p = q
    BY <1>1, <1>2, <1>9
  <2>2. x = y
    BY <1>5, <1>7, <2>1
  <2> QED BY <1>1, <1>2, <1>9, <2>2 DEF NodeOf
<1> QED BY <1>1, <1>2, <1>8, <1>9

LEMMA AboveUnique ==
  ASSUME NEW n \in Node, NEW o \in Bytes(n)
  PROVE  n = Above(n[1], o) /\ o \in Off
<1>1. n[1] \in Level /\ o \in Off
  BY NodeFacts DEF NodeOf
<1>2. Above(n[1], o) \in Node /\ Above(n[1], o)[1] = n[1] /\ o \in Bytes(Above(n[1], o))
  BY <1>1, AboveFacts
<1>3. n[1] <= n[1]
  BY <1>1, Sizes
<1> QED BY <1>1, <1>2, <1>3, Nested

\* A node and its halves.
HalvesOf(n, l, h) ==
  /\ n \in Node /\ l \in Node /\ h \in Node /\ l # h /\ l # n /\ h # n
  /\ l[1] = n[1] - 1 /\ h[1] = n[1] - 1 /\ l[2] = n[2] /\ h[2] \in Off /\ h[2] # n[2]
  /\ h[2] \in Bytes(n)
  /\ \A o : o \in Bytes(n) <=> o \in Bytes(l) \/ o \in Bytes(h)
  /\ \A o : ~(o \in Bytes(l) /\ o \in Bytes(h))

LEMMA Halves ==
  ASSUME NEW n \in Node, n[1] > 0
  PROVE  HalvesOf(n, <<n[1] - 1, n[2]>>, <<n[1] - 1, n[2] + 2^(n[1] - 1)>>)
<1>1. PICK k, x, p : NodeOf(n, k, x, p) /\ k = n[1] /\ x = n[2] /\ p = 2^k
  BY NodeFacts
<1>2. PICK q : q = 2^(k - 1)
  OBVIOUS
<1>3. k \in Level /\ k - 1 \in Level /\ p = q + q /\ k \in Int
  BY <1>1, <1>2, SizeFacts, Sizes DEF NodeOf
<1>4. q \in {1, 2, 4, 8} /\ p \in {1, 2, 4, 8} /\ x \in Nat /\ x % p = 0 /\ x + p <= W
  BY <1>1, <1>2, <1>3, SizeFacts DEF NodeOf
<1>5. x % q = 0
  <2>1. CASE q = 1
    BY <1>4, <2>1
  <2>2. CASE q = 2
    BY <1>3, <1>4, <2>2
  <2>3. CASE q = 4
    BY <1>3, <1>4, <2>3
  <2>4. CASE q = 8
    BY <1>3, <1>4, <2>4
  <2> QED BY <1>4, <2>1, <2>2, <2>3, <2>4
<1>6. (x + q) % q = 0
  <2>1. CASE q = 1
    BY <1>4, <2>1
  <2>2. CASE q = 2
    BY <1>4, <1>5, <2>2
  <2>3. CASE q = 4
    BY <1>4, <1>5, <2>3
  <2>4. CASE q = 8
    BY <1>4, <1>5, <2>4
  <2> QED BY <1>4, <2>1, <2>2, <2>3, <2>4
<1>7. x \in Off /\ x + q \in Off
  BY <1>3, <1>4, Sizes
<1>8. PICK l, h : l = <<k - 1, x>> /\ h = <<k - 1, x + q>>
  OBVIOUS
<1>9. l \in Node /\ h \in Node
  BY <1>2, <1>3, <1>5, <1>6, <1>7, <1>8, IsNode
<1>10. l[1] = k - 1 /\ h[1] = k - 1 /\ l[2] = x /\ h[2] = x + q /\ x # x + q
  BY <1>4, <1>8
<1>11. /\ Bytes(n) = x .. x + p - 1 /\ Bytes(l) = x .. x + q - 1
       /\ Bytes(h) = x + q .. x + q + q - 1
  BY <1>1, <1>2, <1>10 DEF Bytes
<1>12. /\ \A o : o \in Bytes(n) <=> o \in Bytes(l) \/ o \in Bytes(h)
       /\ \A o : ~(o \in Bytes(l) /\ o \in Bytes(h))
       /\ x + q \in Bytes(n)
  BY <1>3, <1>4, <1>11
<1>13. l # n /\ h # n /\ l # h
  BY <1>1, <1>3, <1>10
<1>14. HalvesOf(n, l, h)
  BY <1>1, <1>7, <1>9, <1>10, <1>12, <1>13 DEF HalvesOf
<1> QED BY <1>1, <1>2, <1>8, <1>14


----------------------------------------------------------------------------
(* Trees *)

Tree == [descr : SUBSET Node, svals : [Off -> SVal \cup {Invalid}]]

\* The nodes with values cut the line up, and other slots are invalid.
TreeOK(t) ==
  /\ t \in Tree
  /\ \A o \in Off : \E n \in t.descr : o \in Bytes(n)
  /\ \A n, m \in t.descr : \A o \in Off : o \in Bytes(n) /\ o \in Bytes(m) => n = m
  /\ \A o \in Off : t.svals[o] # Invalid <=> \E n \in t.descr : n[2] = o

LEMMA InTreeAt ==
  ASSUME NEW t, TreeOK(t), NEW n \in t.descr, NEW o \in Bytes(n)
  PROVE  InTree(t, o) = t.svals[n[2]] /\ o \in Off /\ n[2] \in Off /\ t.svals[n[2]] \in SVal
<1>1. n \in Node
  BY DEF TreeOK, Tree
<1>2. o \in Off /\ n[2] \in Off
  BY <1>1, NodeFacts DEF NodeOf
<1>3. \A m \in t.descr : o \in Bytes(m) => m = n
  BY <1>2 DEF TreeOK
<1>4. (CHOOSE m \in t.descr : o \in Bytes(m)) = n
  BY <1>3
<1>5. t.svals[n[2]] # Invalid /\ t.svals[n[2]] \in SVal \cup {Invalid}
  BY <1>2 DEF TreeOK, Tree
<1> QED BY <1>2, <1>4, <1>5 DEF InTree

LEMMA InTreeType ==
  ASSUME NEW t, TreeOK(t), NEW o \in Off
  PROVE  InTree(t, o) \in SVal
<1>1. PICK n \in t.descr : o \in Bytes(n)
  BY DEF TreeOK
<1> QED BY <1>1, InTreeAt

SameTree(t, r) == TreeOK(r) /\ \A o \in Off : InTree(r, o) = InTree(t, o)

LEMMA HandDownLemma ==
  ASSUME NEW t, TreeOK(t), NEW k \in Level, k > 0, NEW o \in Off, Above(k, o) \in t.descr
  PROVE  SameTree(t, HandDown(t, k, o)) /\ Above(k - 1, o) \in HandDown(t, k, o).descr
<1>1. PICK n : n = Above(k, o)
  OBVIOUS
<1>2. n \in Node /\ n[1] = k /\ o \in Bytes(n) /\ n \in t.descr
  BY <1>1, AboveFacts
<1>3. PICK l, h : l = <<k - 1, n[2]>> /\ h = <<k - 1, n[2] + 2^(k - 1)>>
  OBVIOUS
<1>4. HalvesOf(n, l, h)
  BY <1>2, <1>3, Halves
<1>5. PICK r : r = HandDown(t, k, o)
  OBVIOUS
<1>6. /\ r = [descr |-> (t.descr \ {n}) \cup {l, h},
              svals |-> [t.svals EXCEPT ![h[2]] = t.svals[n[2]]]]
  BY <1>1, <1>3, <1>5 DEF HandDown
<1>7. r.descr = (t.descr \ {n}) \cup {l, h} /\ r.svals = [t.svals EXCEPT ![h[2]] = t.svals[n[2]]]
  BY <1>6
<1>8. t.descr \subseteq Node /\ t.svals \in [Off -> SVal \cup {Invalid}]
  BY DEF TreeOK, Tree
<1>9. n[2] \in Off /\ n[2] \in Bytes(n) /\ h[2] \in Off /\ h[2] # n[2]
  BY <1>2, <1>4, NodeFacts DEF HalvesOf, NodeOf
<1>10. t.svals[n[2]] \in SVal
  BY <1>2, <1>9, InTreeAt
<1>11. r \in Tree
  BY <1>4, <1>6, <1>8, <1>9, <1>10 DEF Tree, HalvesOf
<1>12. \A y \in Off : y # h[2] => r.svals[y] = t.svals[y]
  BY <1>7, <1>8, <1>9
<1>13. r.svals[h[2]] = t.svals[n[2]]
  BY <1>7, <1>8, <1>9
<1>14. ASSUME NEW y \in Off PROVE \E m \in r.descr : y \in Bytes(m)
  <2>1. PICK m \in t.descr : y \in Bytes(m)
    BY DEF TreeOK
  <2> QED BY <1>4, <1>7, <2>1 DEF HalvesOf
<1>15. ASSUME NEW m \in r.descr, NEW p \in r.descr, NEW y \in Off, y \in Bytes(m), y \in Bytes(p)
       PROVE  m = p
  <2>1. \A q \in t.descr : q # n => ~(y \in Bytes(n) /\ y \in Bytes(q))
    BY <1>2 DEF TreeOK
  <2>2. CASE m \in {l, h} /\ p \in {l, h}
    BY <1>4, <1>15, <2>2 DEF HalvesOf
  <2>3. CASE m \in {l, h} /\ p \notin {l, h}
    BY <1>4, <1>7, <1>15, <2>1, <2>3 DEF HalvesOf
  <2>4. CASE m \notin {l, h} /\ p \in {l, h}
    BY <1>4, <1>7, <1>15, <2>1, <2>4 DEF HalvesOf
  <2>5. CASE m \notin {l, h} /\ p \notin {l, h}
    BY <1>7, <1>15, <2>5 DEF TreeOK
  <2> QED BY <2>2, <2>3, <2>4, <2>5
<1>16. ASSUME NEW y \in Off PROVE r.svals[y] # Invalid <=> \E m \in r.descr : m[2] = y
  <2>1. CASE y = h[2]
    BY <1>7, <1>10, <1>13, <2>1, ZsmAssumption
  <2>2. CASE y = n[2]
    <3>1. r.svals[y] # Invalid
      BY <1>9, <1>10, <1>12, <2>2, ZsmAssumption
    <3>2. l \in r.descr /\ l[2] = y
      BY <1>4, <1>7, <2>2 DEF HalvesOf
    <3> QED BY <3>1, <3>2
  <2>3. CASE y # h[2] /\ y # n[2]
    <3>1. r.svals[y] = t.svals[y]
      BY <1>12, <2>3
    <3>2. \A m : m[2] = y => (m \in r.descr <=> m \in t.descr)
      BY <1>4, <1>7, <2>3 DEF HalvesOf
    <3> QED BY <3>1, <3>2 DEF TreeOK
  <2> QED BY <2>1, <2>2, <2>3
<1>17. TreeOK(r)
  BY <1>11, <1>14, <1>15, <1>16 DEF TreeOK
<1>18. ASSUME NEW m \in r.descr, NEW y \in Bytes(m) PROVE r.svals[m[2]] = InTree(t, y)
  <2>1. CASE m = l \/ m = h
    <3>1. y \in Bytes(n)
      BY <1>4, <1>18, <2>1 DEF HalvesOf
    <3>2. InTree(t, y) = t.svals[n[2]]
      BY <1>2, <3>1, InTreeAt
    <3>3. m[2] = n[2] \/ m[2] = h[2]
      BY <1>4, <2>1 DEF HalvesOf
    <3> QED BY <1>9, <1>12, <1>13, <3>2, <3>3
  <2>2. CASE m # l /\ m # h
    <3>1. m \in t.descr /\ m # n
      BY <1>7, <2>2
    <3>2. InTree(t, y) = t.svals[m[2]] /\ m[2] \in Off
      BY <1>18, <3>1, InTreeAt
    <3>3. m[2] # h[2]
      <4>1. m[2] \in Bytes(m)
        BY <1>8, <3>1, NodeFacts
      <4>2. h[2] \in Bytes(n)
        BY <1>4 DEF HalvesOf
      <4> QED BY <1>2, <1>9, <3>1, <4>1, <4>2 DEF TreeOK
    <3> QED BY <1>12, <3>2, <3>3
  <2> QED BY <2>1, <2>2
<1>19. ASSUME NEW y \in Off PROVE InTree(r, y) = InTree(t, y)
  <2>1. PICK m \in r.descr : y \in Bytes(m)
    BY <1>14
  <2>2. InTree(r, y) = r.svals[m[2]]
    BY <1>17, <2>1, InTreeAt
  <2> QED BY <1>18, <2>1, <2>2
<1>20. Above(k - 1, o) \in r.descr
  <2>1. PICK m \in {l, h} : o \in Bytes(m)
    BY <1>2, <1>4 DEF HalvesOf
  <2>2. m \in Node /\ m[1] = k - 1
    BY <1>2, <1>4, <2>1 DEF HalvesOf
  <2> QED BY <1>7, <2>1, <2>2, AboveUnique
<1> QED BY <1>5, <1>17, <1>19, <1>20 DEF SameTree

\* The node <<k, o>> has its own value, and the tree holds what it held.
LEMMA PulledDown ==
  ASSUME NEW t, TreeOK(t), NEW k \in Level, NEW o \in Off, AtOrAbove(t, k, o), o % 2^k = 0
  PROVE  SameTree(t, AtLevel(t, k, o)) /\ <<k, o>> \in AtLevel(t, k, o).descr
<1>1. Level \subseteq 0 .. 3 /\ Level = 0 .. Depth /\ Depth \in 1 .. 3
  BY Sizes
<1>2. CASE <<k, o>> \in t.descr
  BY <1>2 DEF AtLevel, SameTree
<1>3. CASE <<k, o>> \notin t.descr
  <2>1. PICK j \in k + 1 .. Depth : Above(j, o) \in t.descr
    BY <1>3 DEF AtOrAbove, AboveMe
  <2>2. j \in Level /\ j > k /\ j \in 1 .. 3 /\ k \in 0 .. 2
    BY <1>1
  <2>3. <<k, o>> = Above(k, o)
    <3>1. <<k, o>> \in Node
      BY IsNode
    <3>2. o \in Bytes(<<k, o>>)
      BY <3>1, NodeFacts
    <3> QED BY <3>1, <3>2, AboveUnique
  <2>5. ASSUME j = 3 PROVE SameTree(t, pulldown_to_32(t, o)) /\ Above(2, o) \in pulldown_to_32(t, o).descr
    <3>1. 3 \in Level /\ 3 > 0 /\ 3 - 1 = 2 /\ Above(3, o) \in t.descr
      BY <2>1, <2>2, <2>5
    <3> QED BY <3>1, HandDownLemma DEF pulldown_to_32
  <2>6. ASSUME j >= 2 PROVE SameTree(t, pulldown_to_16(t, o)) /\ Above(1, o) \in pulldown_to_16(t, o).descr
    <3>1. PICK r : r = IF Above(2, o) \in t.descr THEN t ELSE pulldown_to_32(t, o)
      OBVIOUS
    <3>2. SameTree(t, r) /\ Above(2, o) \in r.descr
      <4>1. CASE Above(2, o) \in t.descr
        BY <3>1, <4>1 DEF SameTree
      <4>2. CASE Above(2, o) \notin t.descr
        <5>1. j = 3
          BY <2>1, <2>2, <2>6, <4>2
        <5> QED BY <2>5, <3>1, <4>2, <5>1
      <4> QED BY <4>1, <4>2
    <3>3. 2 \in Level /\ 2 > 0 /\ 2 - 1 = 1
      BY <1>1, <2>2, <2>6
    <3>4. SameTree(r, HandDown(r, 2, o)) /\ Above(1, o) \in HandDown(r, 2, o).descr
      <4>1. TreeOK(r)
        BY <3>2 DEF SameTree
      <4> QED BY <3>2, <3>3, <4>1, HandDownLemma
    <3>5. pulldown_to_16(t, o) = HandDown(r, 2, o)
      BY <3>1 DEF pulldown_to_16
    <3> QED BY <3>2, <3>4, <3>5 DEF SameTree
  <2>7. SameTree(t, pulldown_to_8(t, o)) /\ Above(0, o) \in pulldown_to_8(t, o).descr
    <3>1. PICK r : r = IF Above(1, o) \in t.descr THEN t ELSE pulldown_to_16(t, o)
      OBVIOUS
    <3>2. SameTree(t, r) /\ Above(1, o) \in r.descr
      <4>1. CASE Above(1, o) \in t.descr
        BY <3>1, <4>1 DEF SameTree
      <4>2. CASE Above(1, o) \notin t.descr
        <5>1. j >= 2
          BY <2>1, <2>2, <4>2
        <5> QED BY <2>6, <3>1, <4>2, <5>1
      <4> QED BY <4>1, <4>2
    <3>3. 1 \in Level /\ 1 > 0 /\ 1 - 1 = 0
      BY <1>1
    <3>4. SameTree(r, HandDown(r, 1, o)) /\ Above(0, o) \in HandDown(r, 1, o).descr
      <4>1. TreeOK(r)
        BY <3>2 DEF SameTree
      <4> QED BY <3>2, <3>3, <4>1, HandDownLemma
    <3>5. pulldown_to_8(t, o) = HandDown(r, 1, o)
      BY <3>1 DEF pulldown_to_8
    <3> QED BY <3>2, <3>4, <3>5 DEF SameTree
  <2>8. AtLevel(t, k, o) = pulldown(t, k, o)
    BY <1>3 DEF AtLevel
  <2>9. CASE k = 0
    BY <2>3, <2>7, <2>8, <2>9 DEF pulldown
  <2>10. CASE k = 1
    <3>1. pulldown(t, k, o) = pulldown_to_16(t, o) /\ j >= 2
      BY <2>2, <2>10 DEF pulldown
    <3> QED BY <2>3, <2>6, <2>8, <2>10, <3>1
  <2>11. CASE k = 2
    <3>1. pulldown(t, k, o) = pulldown_to_32(t, o) /\ j = 3
      BY <2>2, <2>11 DEF pulldown
    <3> QED BY <2>3, <2>5, <2>8, <2>11, <3>1
  <2> QED BY <2>2, <2>9, <2>10, <2>11
<1> QED BY <1>2, <1>3

\* A byte has a value at its own node or above.
LEMMA ByteAtOrAbove ==
  ASSUME NEW t, TreeOK(t), NEW o \in Off
  PROVE  AtOrAbove(t, 0, o) /\ o % 2^0 = 0 /\ 0 \in Level
<1>1. Level = 0 .. Depth /\ Depth \in 1 .. 3 /\ o \in Nat
  BY Sizes
<1>2. 0 \in Level /\ 2^0 = 1
  BY <1>1
<1>3. o % 2^0 = 0
  BY <1>1, <1>2
<1>4. PICK n \in t.descr : o \in Bytes(n)
  BY DEF TreeOK
<1>5. n \in Node
  BY DEF TreeOK, Tree
<1>6. n = Above(n[1], o) /\ n[1] \in Level
  BY <1>4, <1>5, AboveUnique, NodeFacts DEF NodeOf
<1>7. <<0, o>> \in Node /\ o \in Bytes(<<0, o>>)
  <2>1. <<0, o>> \in Node
    BY <1>2, <1>3, IsNode
  <2> QED BY <2>1, NodeFacts
<1>8. <<0, o>> = Above(0, o)
  BY <1>7, AboveUnique
<1>9. CASE n[1] = 0
  BY <1>2, <1>3, <1>4, <1>6, <1>8, <1>9 DEF AtOrAbove
<1>10. CASE n[1] # 0
  <2>1. n[1] \in 0 + 1 .. Depth
    BY <1>1, <1>6, <1>10
  <2> QED BY <1>2, <1>3, <1>4, <1>6, <2>1 DEF AtOrAbove, AboveMe
<1> QED BY <1>2, <1>3, <1>9, <1>10

\* An access to a node that has a value, or is below one, maps its bytes.
LEMMA AppliedAt ==
  ASSUME NEW t, TreeOK(t), NEW k \in Level, NEW o \in Off, o % 2^k = 0, AtOrAbove(t, k, o),
         NEW msm \in [SVal -> SVal]
  PROVE  /\ TreeOK(ApplyAt(t, k, o, msm))
         /\ \A y \in Off : InTree(ApplyAt(t, k, o, msm), y) =
                             IF y \in Bytes(<<k, o>>) THEN msm[InTree(t, y)] ELSE InTree(t, y)
<1>1. PICK u : u = AtLevel(t, k, o)
  OBVIOUS
<1>2. PICK n : n = <<k, o>>
  OBVIOUS
<1>3. TreeOK(u) /\ (\A y \in Off : InTree(u, y) = InTree(t, y)) /\ n \in u.descr
  BY <1>1, <1>2, PulledDown DEF SameTree
<1>4. PICK r : r = ApplyAt(t, k, o, msm)
  OBVIOUS
<1>5. r = [u EXCEPT !.svals[o] = msm[@]]
  BY <1>1, <1>4 DEF ApplyAt
<1>6. u \in Tree
  BY <1>3 DEF TreeOK
<1>7. n \in Node /\ n[2] = o /\ o \in Bytes(n)
  BY <1>2, IsNode, NodeFacts
<1>8. u.svals[o] \in SVal
  BY <1>3, <1>7, InTreeAt
<1>9. msm[u.svals[o]] \in SVal
  BY <1>8
<1>10. r.descr = u.descr /\ r.svals = [u.svals EXCEPT ![o] = msm[u.svals[o]]] /\ r \in Tree
  BY <1>5, <1>6, <1>9 DEF Tree
<1>11. r.svals[o] = msm[u.svals[o]] /\ \A y \in Off : y # o => r.svals[y] = u.svals[y]
  BY <1>6, <1>10 DEF Tree
<1>12. ASSUME NEW y \in Off PROVE r.svals[y] # Invalid <=> u.svals[y] # Invalid
  BY <1>8, <1>9, <1>11, ZsmAssumption
<1>13. TreeOK(r)
  BY <1>3, <1>10, <1>12 DEF TreeOK
<1>14. ASSUME NEW y \in Off
       PROVE  InTree(r, y) = IF y \in Bytes(n) THEN msm[InTree(t, y)] ELSE InTree(t, y)
  <2>1. PICK m \in u.descr : y \in Bytes(m)
    BY <1>3 DEF TreeOK
  <2>2. InTree(u, y) = u.svals[m[2]] /\ m[2] \in Off
    BY <1>3, <2>1, InTreeAt
  <2>5. m \in r.descr
    BY <1>10
  <2>6. InTree(r, y) = r.svals[m[2]]
    BY <1>13, <2>1, <2>5, InTreeAt
  <2>3. CASE m = n
    BY <1>3, <1>7, <1>11, <2>1, <2>2, <2>3, <2>6
  <2>4. CASE m # n
    <3>1. y \notin Bytes(n)
      BY <1>3, <2>1, <2>4 DEF TreeOK
    <3>2. m[2] # o
      <4>1. m[2] \in Bytes(m)
        BY <1>3, NodeFacts DEF TreeOK, Tree
      <4> QED BY <1>3, <1>7, <2>4, <4>1 DEF TreeOK
    <3> QED BY <1>3, <1>11, <2>2, <2>6, <3>1, <3>2
  <2> QED BY <2>3, <2>4
<1> QED BY <1>2, <1>4, <1>13, <1>14


\* The tree u holds what t holds outside the node n, which has its own value.
Opened(t, u, n) ==
  /\ u \in Tree /\ n \in u.descr
  /\ \A o \in Off : \E m \in u.descr : o \in Bytes(m)
  /\ \A p, m \in u.descr : \A o \in Off : o \in Bytes(p) /\ o \in Bytes(m) => p = m
  /\ \A o \in Off : o \notin Bytes(n) => (u.svals[o] # Invalid <=> \E m \in u.descr : m[2] = o)
  /\ \A m \in u.descr : m # n => \A y \in Bytes(m) : InTree(t, y) = u.svals[m[2]]

LEMMA PulledUp ==
  ASSUME NEW t, TreeOK(t), NEW k \in Level, NEW o \in Off, o % 2^k = 0, ~AtOrAbove(t, k, o)
  PROVE  Opened(t, [t EXCEPT !.descr = pullup_descr(@, k, o)], <<k, o>>)
<1>1. PICK n : n = <<k, o>>
  OBVIOUS
<1>2. n \in Node /\ n[1] = k /\ n[2] = o /\ o \in Bytes(n)
  BY <1>1, IsNode, NodeFacts
<1>3. PICK u : u = [t EXCEPT !.descr = pullup_descr(@, k, o)]
  OBVIOUS
<1>4. t \in Tree /\ t.descr \subseteq Node
  BY DEF TreeOK, Tree
<1>5. /\ u.descr = {m \in t.descr : Bytes(m) \cap Bytes(n) = {}} \cup {n}
      /\ u.svals = t.svals /\ u \in Tree
  BY <1>1, <1>2, <1>3, <1>4 DEF Tree, pullup_descr
<1>6. ASSUME NEW m \in t.descr, Bytes(m) \cap Bytes(n) # {}
      PROVE  Bytes(m) \subseteq Bytes(n)
  <2>1. PICK y : y \in Bytes(m) /\ y \in Bytes(n)
    BY <1>6
  <2>2. m \in Node /\ m[1] \in Level
    BY <1>4, NodeFacts DEF NodeOf
  <2>3. CASE m[1] <= k
    BY <1>2, <2>1, <2>2, <2>3, Nested
  <2>4. CASE m[1] > k
    <3>1. k <= m[1] /\ m[1] \in k + 1 .. Depth
      BY <2>2, <2>4, Sizes
    <3>2. Bytes(n) \subseteq Bytes(m)
      BY <1>2, <2>1, <2>2, <3>1, Nested
    <3>3. m = Above(m[1], o)
      BY <1>2, <2>2, <3>2, AboveUnique
    <3> QED BY <3>1, <3>3 DEF AtOrAbove, AboveMe
  <2> QED BY <2>2, <2>3, <2>4, Sizes
<1>7. ASSUME NEW y \in Off PROVE \E m \in u.descr : y \in Bytes(m)
  <2>1. PICK m \in t.descr : y \in Bytes(m)
    BY DEF TreeOK
  <2>2. CASE Bytes(m) \cap Bytes(n) = {}
    BY <1>5, <2>1, <2>2
  <2>3. CASE Bytes(m) \cap Bytes(n) # {}
    BY <1>5, <1>6, <2>1, <2>3
  <2> QED BY <2>2, <2>3
<1>8. ASSUME NEW p \in u.descr, NEW m \in u.descr, NEW y \in Off, y \in Bytes(p), y \in Bytes(m)
      PROVE  p = m
  <2>1. CASE p = n \/ m = n
    BY <1>5, <1>8, <2>1
  <2>2. CASE p # n /\ m # n
    BY <1>5, <1>8, <2>2 DEF TreeOK
  <2> QED BY <2>1, <2>2
<1>9. ASSUME NEW y \in Off, y \notin Bytes(n)
      PROVE  u.svals[y] # Invalid <=> \E m \in u.descr : m[2] = y
  <2>1. ASSUME NEW m \in t.descr, m[2] = y PROVE m \in u.descr
    <3>1. y \in Bytes(m)
      BY <1>4, <2>1, NodeFacts
    <3> QED BY <1>5, <1>6, <1>9, <3>1
  <2>2. ASSUME NEW m \in u.descr, m[2] = y PROVE m \in t.descr
    BY <1>2, <1>5, <1>9, <2>2
  <2>3. t.svals[y] # Invalid <=> \E m \in t.descr : m[2] = y
    BY DEF TreeOK
  <2> QED BY <1>5, <2>1, <2>2, <2>3
<1>10. ASSUME NEW m \in u.descr, m # n, NEW y \in Bytes(m) PROVE InTree(t, y) = u.svals[m[2]]
  <2>1. m \in t.descr
    BY <1>5, <1>10
  <2> QED BY <1>5, <2>1, InTreeAt
<1> QED BY <1>1, <1>3, <1>5, <1>7, <1>8, <1>9, <1>10 DEF Opened

LEMMA OpenedByPulldown ==
  ASSUME NEW t, TreeOK(t), NEW k \in Level, NEW o \in Off, o % 2^k = 0, AtOrAbove(t, k, o)
  PROVE  Opened(t, AtLevel(t, k, o), <<k, o>>)
<1>1. PICK u : u = AtLevel(t, k, o)
  OBVIOUS
<1>2. TreeOK(u) /\ (\A y \in Off : InTree(u, y) = InTree(t, y)) /\ <<k, o>> \in u.descr
  BY <1>1, PulledDown DEF SameTree
<1>3. ASSUME NEW m \in u.descr, NEW y \in Bytes(m) PROVE InTree(t, y) = u.svals[m[2]]
  BY <1>2, InTreeAt
<1> QED BY <1>1, <1>2, <1>3 DEF Opened, TreeOK

\* A write gives the bytes of a node one value.
LEMMA WrittenAt ==
  ASSUME NEW t, TreeOK(t), NEW k \in Level, NEW o \in Off, o % 2^k = 0, NEW v \in SVal
  PROVE  /\ TreeOK(WriteAt(t, k, o, v))
         /\ \A y \in Off : InTree(WriteAt(t, k, o, v), y) =
                             IF y \in Bytes(<<k, o>>) THEN v ELSE InTree(t, y)
<1>1. PICK n : n = <<k, o>>
  OBVIOUS
<1>2. n \in Node /\ n[2] = o /\ o \in Bytes(n)
  BY <1>1, IsNode, NodeFacts
<1>3. PICK u : u = IF AtOrAbove(t, k, o) THEN AtLevel(t, k, o)
                   ELSE [t EXCEPT !.descr = pullup_descr(@, k, o)]
  OBVIOUS
<1>4. Opened(t, u, n)
  <2>1. CASE AtOrAbove(t, k, o)
    BY <1>1, <1>3, <2>1, OpenedByPulldown
  <2>2. CASE ~AtOrAbove(t, k, o)
    BY <1>1, <1>3, <2>2, PulledUp
  <2> QED BY <2>1, <2>2
<1>5. PICK r : r = WriteAt(t, k, o, v)
  OBVIOUS
<1>6. r = [u EXCEPT !.svals = [y \in Off |-> IF y = o THEN v ELSE IF y \in Bytes(n) THEN Invalid
                                              ELSE u.svals[y]]]
  BY <1>1, <1>3, <1>5 DEF WriteAt
<1>7. u \in Tree /\ n \in u.descr /\ u.descr \subseteq Node
  BY <1>4 DEF Opened, Tree
<1>8. /\ r.descr = u.descr /\ r \in Tree
      /\ \A y \in Off : r.svals[y] = IF y = o THEN v ELSE IF y \in Bytes(n) THEN Invalid ELSE u.svals[y]
  BY <1>6, <1>7 DEF Tree
<1>9. ASSUME NEW m \in u.descr, m # n PROVE m[2] \in Bytes(m) /\ m[2] \notin Bytes(n) /\ m[2] \in Off
  <2>1. m[2] \in Bytes(m) /\ m[2] \in Off
    BY <1>7, NodeFacts DEF NodeOf
  <2> QED BY <1>4, <1>7, <1>9, <2>1 DEF Opened
<1>10. ASSUME NEW y \in Off PROVE r.svals[y] # Invalid <=> \E m \in r.descr : m[2] = y
  <2>1. CASE y = o
    BY <1>2, <1>7, <1>8, <2>1, ZsmAssumption
  <2>2. CASE y # o /\ y \in Bytes(n)
    <3>1. \A m \in u.descr : m[2] # y
      BY <1>2, <1>9, <2>2
    <3> QED BY <1>8, <2>2, <3>1
  <2>3. CASE y \notin Bytes(n)
    BY <1>2, <1>4, <1>8, <2>3 DEF Opened
  <2> QED BY <2>1, <2>2, <2>3
<1>11. TreeOK(r)
  BY <1>4, <1>8, <1>10 DEF TreeOK, Opened
<1>12. ASSUME NEW y \in Off PROVE InTree(r, y) = IF y \in Bytes(n) THEN v ELSE InTree(t, y)
  <2>1. PICK m \in u.descr : y \in Bytes(m)
    BY <1>4 DEF Opened
  <2>2. m \in r.descr
    BY <1>8
  <2>3. InTree(r, y) = r.svals[m[2]] /\ m[2] \in Off
    BY <1>11, <2>1, <2>2, InTreeAt
  <2>4. CASE m = n
    BY <1>2, <1>8, <2>1, <2>3, <2>4
  <2>5. CASE m # n
    <3>1. y \notin Bytes(n)
      BY <1>4, <1>7, <2>1, <2>5 DEF Opened
    <3>2. r.svals[m[2]] = u.svals[m[2]]
      BY <1>2, <1>8, <1>9, <2>3, <2>5
    <3> QED BY <1>4, <2>1, <2>3, <2>5, <3>1, <3>2 DEF Opened
  <2> QED BY <2>4, <2>5
<1> QED BY <1>1, <1>5, <1>11, <1>12

\* Equal neighbours merged: a tree for the values of a line.
SameValues(f, n) == \A o \in Bytes(n) : f[o] = f[n[2]]

LEMMA Normalised ==
  ASSUME NEW f \in [Off -> SVal]
  PROVE  TreeOK(normalise(f)) /\ \A o \in Off : InTree(normalise(f), o) = f[o]
<1>1. PICK d : d = {n \in Node : /\ SameValues(f, n)
                                 /\ \A k \in n[1] + 1 .. Depth : ~SameValues(f, Above(k, n[2]))}
  OBVIOUS
<1>2. PICK r : r = normalise(f)
  OBVIOUS
<1>3. r = [descr |-> d, svals |-> [o \in Off |-> IF \E n \in d : o = n[2] THEN f[o] ELSE Invalid]]
  BY <1>1, <1>2 DEF normalise, SameValues
<1>4. r \in Tree /\ r.descr = d /\ d \subseteq Node
  BY <1>1, <1>3 DEF Tree
<1>5. \A o \in Off : r.svals[o] = IF \E n \in d : o = n[2] THEN f[o] ELSE Invalid
  BY <1>3
<1>6. ASSUME NEW o \in Off PROVE \E n \in d : o \in Bytes(n)
  <2>1. SameValues(f, Above(0, o)) /\ 0 \in Level
    <3>1. 0 \in Level /\ 2^0 = 1
      BY Sizes
    <3>2. PICK n : n = Above(0, o)
      OBVIOUS
    <3>3. n \in Node /\ n[1] = 0
      BY <3>1, <3>2, AboveFacts
    <3>4. ASSUME NEW y \in Bytes(n) PROVE y = n[2]
      <4>1. y \in Off /\ n[2] \in Off
        BY <3>3, NodeFacts DEF NodeOf
      <4>2. y \in Int /\ n[2] \in Int
        BY <4>1, Sizes
      <4>3. n[2] <= y /\ y < n[2] + 2^n[1]
        BY <3>3, <3>4, <4>2, NodeFacts
      <4>4. 2^n[1] = 1
        BY <3>1, <3>3, Zenon
      <4> QED BY <4>2, <4>3, <4>4
    <3> QED BY <3>1, <3>2, <3>4 DEF SameValues
  <2>2. PICK k \in Level : /\ SameValues(f, Above(k, o))
                           /\ \A j \in Level : j > k => ~SameValues(f, Above(j, o))
    <3>1. Level = 0 .. Depth /\ Depth \in 1 .. 3
      BY Sizes
    <3>2. CASE 3 \in Level /\ SameValues(f, Above(3, o))
      BY <3>1, <3>2
    <3>3. CASE 2 \in Level /\ SameValues(f, Above(2, o)) /\ ~(3 \in Level /\ SameValues(f, Above(3, o)))
      BY <3>1, <3>3
    <3>4. CASE /\ SameValues(f, Above(1, o)) /\ ~(3 \in Level /\ SameValues(f, Above(3, o)))
               /\ ~(2 \in Level /\ SameValues(f, Above(2, o)))
      BY <3>1, <3>4
    <3>5. CASE /\ ~SameValues(f, Above(1, o)) /\ ~(3 \in Level /\ SameValues(f, Above(3, o)))
               /\ ~(2 \in Level /\ SameValues(f, Above(2, o)))
      BY <2>1, <3>1, <3>5
    <3> QED BY <3>2, <3>3, <3>4, <3>5
  <2>3. PICK n : n = Above(k, o)
    OBVIOUS
  <2>4. n \in Node /\ n[1] = k /\ o \in Bytes(n) /\ n[2] \in Bytes(n) /\ n[2] \in Off
    BY <2>3, AboveFacts, NodeFacts DEF NodeOf
  <2>5. ASSUME NEW j \in n[1] + 1 .. Depth PROVE ~SameValues(f, Above(j, n[2]))
    <3>1. j \in Level /\ j > k /\ k <= j
      BY <2>4, Sizes
    <3>2. PICK m : m = Above(j, n[2])
      OBVIOUS
    <3>3. m \in Node /\ m[1] = j /\ n[2] \in Bytes(m)
      BY <2>4, <3>1, <3>2, AboveFacts
    <3>4. Bytes(n) \subseteq Bytes(m)
      BY <2>4, <3>1, <3>3, Nested
    <3>5. m = Above(j, o)
      BY <2>4, <3>3, <3>4, AboveUnique
    <3> QED BY <2>2, <3>1, <3>2, <3>5
  <2> QED BY <1>1, <2>2, <2>3, <2>4, <2>5
<1>7. ASSUME NEW n \in d, NEW m \in d, NEW o \in Off, o \in Bytes(n), o \in Bytes(m),
             n[1] < m[1]
      PROVE  FALSE
  <2>1. n \in Node /\ m \in Node /\ n[1] \in Level /\ m[1] \in Level
    BY <1>4, NodeFacts DEF NodeOf
  <2>2. n[1] <= m[1] /\ m[1] \in n[1] + 1 .. Depth
    BY <1>7, <2>1, Sizes
  <2>3. Bytes(n) \subseteq Bytes(m) /\ n[2] \in Bytes(n)
    BY <1>7, <2>1, <2>2, Nested, NodeFacts
  <2>4. m = Above(m[1], n[2])
    BY <2>1, <2>3, AboveUnique
  <2> QED BY <1>1, <2>2, <2>4
<1>8. ASSUME NEW n \in d, NEW m \in d, NEW o \in Off, o \in Bytes(n), o \in Bytes(m)
      PROVE  n = m
  <2>1. n \in Node /\ m \in Node /\ n[1] \in Level /\ m[1] \in Level
    BY <1>4, NodeFacts DEF NodeOf
  <2>2. n[1] \in Int /\ m[1] \in Int
    BY <2>1, Sizes
  <2>3. n[1] = m[1] /\ n[1] <= m[1]
    BY <1>7, <1>8, <2>2
  <2> QED BY <1>8, <2>1, <2>3, Nested
<1>9. ASSUME NEW o \in Off PROVE r.svals[o] # Invalid <=> \E n \in r.descr : n[2] = o
  BY <1>4, <1>5, ZsmAssumption
<1>10. TreeOK(r)
  BY <1>4, <1>6, <1>8, <1>9 DEF TreeOK
<1>11. ASSUME NEW o \in Off PROVE InTree(r, o) = f[o]
  <2>1. PICK n \in d : o \in Bytes(n)
    BY <1>6
  <2>2. n \in r.descr
    BY <1>4
  <2>3. InTree(r, o) = r.svals[n[2]] /\ n[2] \in Off
    BY <1>10, <2>1, <2>2, InTreeAt
  <2>4. r.svals[n[2]] = f[n[2]]
    BY <1>5, <2>3
  <2>5. f[o] = f[n[2]]
    BY <1>1, <2>1 DEF SameValues
  <2> QED BY <2>3, <2>4, <2>5
<1> QED BY <1>2, <1>10, <1>11


----------------------------------------------------------------------------
(* Zsm: the backing store *)

Contents == [Off -> SVal]
LineRep == {LineZ(f) : f \in Contents} \cup {LineF(i) : i \in Nat}
ZStates == [tags : [Way -> Line \cup {NoTag}], lyns : [Way -> Tree], linesZ : [Line -> LineRep],
            linesF : Seq(Contents \cup {Invalid}), rc : [SVal -> Int]]

InF(s, l) == s.linesZ[l].rep = "F"

\* Every F line in use belongs to one line.
Owned(s) ==
  /\ \A l \in Line : InF(s, l) => /\ s.linesZ[l].fix \in DOMAIN s.linesF
                                  /\ s.linesF[s.linesZ[l].fix] # FreeF
  /\ \A l, m \in Line : InF(s, l) /\ InF(s, m) /\ s.linesZ[l].fix = s.linesZ[m].fix => l = m
  /\ \A i \in DOMAIN s.linesF : s.linesF[i] # FreeF => \E l \in Line : InF(s, l) /\ s.linesZ[l].fix = i

Refers(s, v, l, o) ==
  /\ Stored(s, l)[o] = v
  /\ InF(s, l) \/ \A q \in 0 .. o - 1 : Stored(s, l)[q] # v
Sites(s, v) == {p \in Line \X Off : Refers(s, v, p[1], p[2])}
SitesIn(s, v, l) == {o \in Off : Refers(s, v, l, o)}

\* The references counted are the references there are.
RcExact(s) == \A v \in SVal : v # NoAccess => s.rc[v] = Cardinality(Sites(s, v))

StoreOK(s) == s \in ZStates /\ Owned(s) /\ RcExact(s)

LEMMA FiniteSites == IsFiniteSet(Off) /\ IsFiniteSet(Line \X Off)
<1>1. IsFiniteSet(Off) /\ IsFiniteSet(Line)
  BY Sizes, FS_Interval DEF Line
<1> QED BY <1>1, FS_Product

\* The sites are those of one line and those of the others.
LEMMA SitesSplit ==
  ASSUME NEW R \in SUBSET (Line \X Off), NEW l \in Line
  PROVE  /\ Cardinality(R) = Cardinality({p \in R : p[1] # l}) + Cardinality({o \in Off : <<l, o>> \in R})
         /\ Cardinality({p \in R : p[1] # l}) \in Nat
         /\ Cardinality({o \in Off : <<l, o>> \in R}) \in Nat
<1> DEFINE A == {p \in R : p[1] # l}
           B == {p \in R : p[1] = l}
           C == {o \in Off : <<l, o>> \in R}
<1>1. IsFiniteSet(A) /\ IsFiniteSet(B) /\ IsFiniteSet(C)
  <2>1. A \in SUBSET (Line \X Off) /\ B \in SUBSET (Line \X Off) /\ C \in SUBSET Off
    OBVIOUS
  <2> HIDE DEF A, B, C
  <2> QED BY <2>1, FiniteSites, FS_Subset
<1>2. R = A \cup B /\ A \cap B = {}
  OBVIOUS
<1>3. Cardinality(A) \in Nat /\ Cardinality(B) \in Nat /\ Cardinality(C) \in Nat
  <2> HIDE DEF A, B, C
  <2> QED BY <1>1, FS_CardinalityType
<1>4. Cardinality(R) = Cardinality(A) + Cardinality(B)
  <2> HIDE DEF A, B
  <2>1. Cardinality(R) = Cardinality(A) + Cardinality(B) - Cardinality({})
    BY <1>1, <1>2, FS_Union
  <2> QED BY <1>3, <2>1, FS_EmptySet
<1>5. Cardinality(B) = Cardinality(C)
  <2>1. PICK f : f = [o \in C |-> <<l, o>>]
    OBVIOUS
  <2>2. f \in [C -> B]
    BY <2>1
  <2>3. \A p \in B : \E o \in C : f[o] = p
    <3>1. ASSUME NEW p \in B PROVE \E o \in C : f[o] = p
      <4>1. p \in Line \X Off /\ p[1] = l
        OBVIOUS
      <4>2. p = <<l, p[2]>> /\ p[2] \in Off
        BY <4>1
      <4>3. p[2] \in C
        BY <4>2
      <4> QED BY <2>1, <4>2, <4>3
    <3> QED BY <3>1
  <2>4. \A o, q \in C : f[o] = f[q] => o = q
    BY <2>1
  <2> HIDE DEF B, C
  <2>5. f \in Surjection(C, B)
    BY <2>2, <2>3 DEF Surjection
  <2>6. f \in Injection(C, B)
    BY <2>2, <2>4 DEF Injection, IsInjective
  <2> QED BY <1>1, <2>5, <2>6, FS_Surjection
<1> QED BY <1>3, <1>4, <1>5

LEMMA StoredType ==
  ASSUME NEW s \in ZStates, Owned(s), NEW l \in Line
  PROVE  Stored(s, l) \in Contents
<1>1. s.linesZ[l] \in LineRep /\ s.linesF \in Seq(Contents \cup {Invalid})
  BY DEF ZStates
<1>2. CASE InF(s, l)
  <2>1. s.linesZ[l].fix \in DOMAIN s.linesF /\ s.linesF[s.linesZ[l].fix] # Invalid
    BY <1>2 DEF Owned, FreeF
  <2>2. s.linesF[s.linesZ[l].fix] \in Contents \cup {Invalid}
    BY <1>1, <2>1
  <2> QED BY <1>2, <2>1, <2>2 DEF Stored, InF
<1>3. CASE ~InF(s, l)
  BY <1>1, <1>3 DEF Stored, InF, LineRep, LineZ, LineF
<1> QED BY <1>2, <1>3

\* What the store counts for a line.
LEMMA ReferencesLemma ==
  ASSUME NEW s, NEW l \in Line, Stored(s, l) \in Contents, NEW v \in SVal, v # NoAccess
  PROVE  References(s, l, v) = Cardinality(SitesIn(s, v, l)) /\ References(s, l, v) \in Nat
<1>1. PICK f \in Contents : f = Stored(s, l)
  OBVIOUS
<1>2. PICK P : P = {o \in Off : f[o] = v}
  OBVIOUS
<1>3. P \in SUBSET Off /\ IsFiniteSet(P)
  BY <1>2, FiniteSites, FS_Subset
<1>4. References(s, l, v) = IF P = {} THEN 0 ELSE IF InF(s, l) THEN Cardinality(P) ELSE 1
  BY <1>1, <1>2 DEF References, InF
<1>5. SitesIn(s, v, l) = {o \in Off : f[o] = v /\ (InF(s, l) \/ \A q \in 0 .. o - 1 : f[q] # v)}
  BY <1>1 DEF SitesIn, Refers
<1>6. CASE P = {}
  <2>1. SitesIn(s, v, l) = {}
    BY <1>2, <1>5, <1>6
  <2> QED BY <1>4, <1>6, <2>1, FS_EmptySet
<1>7. CASE P # {} /\ InF(s, l)
  <2>1. SitesIn(s, v, l) = P
    BY <1>2, <1>5, <1>7
  <2> QED BY <1>3, <1>4, <1>7, <2>1, FS_CardinalityType
<1>8. CASE P # {} /\ ~InF(s, l)
  <2>1. P \in SUBSET Nat /\ Off = 0 .. W - 1 /\ W \in Nat
    BY <1>3, Sizes
  <2>2. PICK e \in P : \A o \in P : e <= o
    BY <1>8, <2>1, Least
  <2>3. ASSUME NEW o \in Off, f[o] = v, \A q \in 0 .. o - 1 : f[q] # v PROVE o = e
    <3>1. o \in P /\ e <= o /\ f[e] = v /\ e \in Nat /\ o \in Nat
      BY <1>2, <2>1, <2>2, <2>3
    <3> QED BY <2>3, <3>1
  <2>4. ASSUME NEW q \in 0 .. e - 1 PROVE f[q] # v
    <3>1. e \in Off
      BY <1>3, <2>2
    <3>2. e \in Nat /\ e < W /\ q \in Off /\ ~(e <= q)
      BY <2>1, <3>1
    <3> QED BY <1>2, <2>2, <3>2
  <2>5. e \in Off /\ f[e] = v
    BY <1>2, <2>2
  <2>6. SitesIn(s, v, l) = {e}
    BY <1>5, <1>8, <2>3, <2>4, <2>5
  <2> QED BY <1>4, <1>8, <2>6, FS_Singleton
<1> QED BY <1>6, <1>7, <1>8

LEMMA ReferencesType ==
  ASSUME NEW s, NEW l \in Line, Stored(s, l) \in Contents, NEW v \in SVal
  PROVE  References(s, l, v) \in Int
<1>1. CASE v = NoAccess
  BY <1>1 DEF References
<1>2. CASE v # NoAccess
  BY <1>2, ReferencesLemma
<1> QED BY <1>1, <1>2


\* The line l has new contents, which are not counted yet.
Placed(s, l, vals, r) ==
  /\ r \in ZStates /\ Owned(r) /\ r.tags = s.tags /\ r.lyns = s.lyns
  /\ r.rc = [v \in SVal |-> s.rc[v] + (-1) * References(s, l, v)]
  /\ Stored(r, l) = vals
  /\ \A m \in Line : m # l => Stored(r, m) = Stored(s, m) /\ (InF(r, m) <=> InF(s, m))

\* The line l has new contents.
Overwritten(s, l, vals, r) ==
  /\ StoreOK(r) /\ r.tags = s.tags /\ r.lyns = s.lyns
  /\ Stored(r, l) = vals
  /\ \A m \in Line : m # l => Stored(r, m) = Stored(s, m)

LEMMA CountedFields ==
  ASSUME NEW s \in ZStates, Owned(s), NEW l \in Line, NEW d \in Int
  PROVE  LET r == Counted(s, l, d) IN
         /\ r \in ZStates /\ r.tags = s.tags /\ r.lyns = s.lyns /\ r.linesZ = s.linesZ
         /\ r.linesF = s.linesF /\ r.rc = [v \in SVal |-> s.rc[v] + d * References(s, l, v)]
<1>1. PICK c : c = [v \in SVal |-> s.rc[v] + d * References(s, l, v)]
  OBVIOUS
<1>2. PICK r : r = Counted(s, l, d)
  OBVIOUS
<1>3. r = [s EXCEPT !.rc = c]
  BY <1>1, <1>2 DEF Counted
<1>4. c \in [SVal -> Int]
  <2>1. ASSUME NEW v \in SVal PROVE s.rc[v] + d * References(s, l, v) \in Int
    <3>1. s.rc[v] \in Int
      BY DEF ZStates
    <3>2. References(s, l, v) \in Int
      BY StoredType, ReferencesType
    <3> QED BY <3>1, <3>2
  <2> QED BY <1>1, <2>1
<1>5. /\ r \in ZStates /\ r.tags = s.tags /\ r.lyns = s.lyns /\ r.linesZ = s.linesZ
      /\ r.linesF = s.linesF /\ r.rc = c
  BY <1>3, <1>4 DEF ZStates
<1> QED BY <1>1, <1>2, <1>5

LEMMA CountedUp ==
  ASSUME NEW s, StoreOK(s), NEW l \in Line, NEW vals \in Contents, NEW r, Placed(s, l, vals, r)
  PROVE  Overwritten(s, l, vals, Counted(r, l, 1))
<1>1. PICK u : u = Counted(r, l, 1)
  OBVIOUS
<1>2. s \in ZStates /\ Owned(s) /\ RcExact(s) /\ r \in ZStates /\ Owned(r)
  BY DEF StoreOK, Placed
<1>3. /\ u \in ZStates /\ u.tags = r.tags /\ u.lyns = r.lyns /\ u.linesZ = r.linesZ
      /\ u.linesF = r.linesF /\ u.rc = [v \in SVal |-> r.rc[v] + 1 * References(r, l, v)]
  <2>1. 1 \in Int
    OBVIOUS
  <2> QED BY <1>1, <1>2, <2>1, CountedFields
<1>4. \A m : Stored(u, m) = Stored(r, m) /\ (InF(u, m) <=> InF(r, m))
  BY <1>3 DEF Stored, InF
<1>5. Owned(u)
  BY <1>2, <1>3 DEF Owned, InF
<1>6. ASSUME NEW v \in SVal, v # NoAccess PROVE u.rc[v] = Cardinality(Sites(u, v))
  <2>1. Stored(s, l) \in Contents /\ Stored(r, l) \in Contents
    BY <1>2, StoredType
  <2>2. References(s, l, v) = Cardinality(SitesIn(s, v, l)) /\ References(s, l, v) \in Nat
    BY <1>6, <2>1, ReferencesLemma
  <2>3. References(r, l, v) = Cardinality(SitesIn(r, v, l)) /\ References(r, l, v) \in Nat
    BY <1>6, <2>1, ReferencesLemma
  <2>4. SitesIn(u, v, l) = SitesIn(r, v, l)
    BY <1>4 DEF SitesIn, Refers
  <2>5. PICK R : R = Sites(s, v)
    OBVIOUS
  <2>6. PICK T : T = Sites(u, v)
    OBVIOUS
  <2>7. R \in SUBSET (Line \X Off) /\ T \in SUBSET (Line \X Off)
    BY <2>5, <2>6 DEF Sites
  <2>8. {o \in Off : <<l, o>> \in R} = SitesIn(s, v, l)
    BY <2>5 DEF Sites, SitesIn
  <2>9. {o \in Off : <<l, o>> \in T} = SitesIn(u, v, l)
    BY <2>6 DEF Sites, SitesIn
  <2>10. {p \in R : p[1] # l} = {p \in T : p[1] # l}
    <3>1. ASSUME NEW m \in Line, m # l, NEW o PROVE Refers(u, v, m, o) <=> Refers(s, v, m, o)
      <4>1. Stored(u, m) = Stored(s, m) /\ (InF(u, m) <=> InF(s, m))
        BY <1>4, <3>1 DEF Placed
      <4> QED BY <4>1 DEF Refers
    <3>2. ASSUME NEW p \in Line \X Off, p[1] # l PROVE p \in R <=> p \in T
      BY <2>5, <2>6, <3>1, <3>2 DEF Sites
    <3> QED BY <2>7, <3>2
  <2>15. PICK c, e, g : /\ c = Cardinality({p \in R : p[1] # l})
                        /\ e = Cardinality(SitesIn(s, v, l)) /\ g = Cardinality(SitesIn(u, v, l))
    OBVIOUS
  <2>16. Cardinality(R) = c + e /\ c \in Nat
    BY <2>7, <2>8, <2>15, SitesSplit
  <2>17. Cardinality(T) = c + g
    <3>1. c = Cardinality({p \in T : p[1] # l})
      BY <2>10, <2>15, Zenon
    <3> QED BY <2>7, <2>9, <2>15, <3>1, SitesSplit
  <2>12. s.rc[v] = Cardinality(R)
    BY <1>2, <1>6, <2>5 DEF RcExact
  <2>13. u.rc[v] = s.rc[v] + (-1) * e + 1 * g
    BY <1>3, <2>2, <2>3, <2>4, <2>15 DEF Placed
  <2>14. e \in Nat /\ g \in Nat
    BY <2>2, <2>3, <2>4, <2>15
  <2> QED BY <2>6, <2>16, <2>17, <2>12, <2>13, <2>14
<1> QED BY <1>1, <1>3, <1>4, <1>5, <1>6 DEF Overwritten, StoreOK, RcExact, Placed

\* The line is about to be overwritten: nobody owns its F line any more.
Vacated(s, l, r) ==
  /\ r \in ZStates /\ r.tags = s.tags /\ r.lyns = s.lyns /\ r.linesZ = s.linesZ
  /\ r.rc = [v \in SVal |-> s.rc[v] + (-1) * References(s, l, v)]
  /\ DOMAIN r.linesF = DOMAIN s.linesF
  /\ \A i \in DOMAIN s.linesF :
       r.linesF[i] = IF InF(s, l) /\ i = s.linesZ[l].fix THEN FreeF ELSE s.linesF[i]

LEMMA ReleasedLemma ==
  ASSUME NEW s, StoreOK(s), NEW l \in Line
  PROVE  Vacated(s, l, find_Z_for_writing(s, l))
<1>1. s \in ZStates /\ Owned(s)
  BY DEF StoreOK
<1>2. PICK c : c = Counted(s, l, -1)
  OBVIOUS
<1>3. /\ c \in ZStates /\ c.tags = s.tags /\ c.lyns = s.lyns /\ c.linesZ = s.linesZ
      /\ c.linesF = s.linesF /\ c.rc = [v \in SVal |-> s.rc[v] + (-1) * References(s, l, v)]
  <2>1. -1 \in Int
    OBVIOUS
  <2> QED BY <1>1, <1>2, <2>1, CountedFields
<1>4. PICK F : F = IF InF(s, l) THEN [s.linesF EXCEPT ![s.linesZ[l].fix] = FreeF] ELSE s.linesF
  OBVIOUS
<1>5. s.linesF \in Seq(Contents \cup {Invalid})
  BY <1>1 DEF ZStates
<1>6. F \in Seq(Contents \cup {Invalid}) /\ DOMAIN F = DOMAIN s.linesF
  BY <1>4, <1>5 DEF FreeF
<1>7. \A i \in DOMAIN s.linesF :
        F[i] = IF InF(s, l) /\ i = s.linesZ[l].fix THEN FreeF ELSE s.linesF[i]
  BY <1>4, <1>5
<1>8. PICK r : r = find_Z_for_writing(s, l)
  OBVIOUS
<1>9. r = [c EXCEPT !.linesF = F]
  BY <1>2, <1>3, <1>4, <1>8 DEF find_Z_for_writing, InF
<1>10. /\ r \in ZStates /\ r.tags = s.tags /\ r.lyns = s.lyns /\ r.linesZ = s.linesZ /\ r.linesF = F
       /\ r.rc = c.rc
  BY <1>3, <1>6, <1>9 DEF ZStates
<1> QED BY <1>3, <1>6, <1>7, <1>8, <1>10 DEF Vacated

\* The new contents go to a dictionary.
LEMMA PlacedZ ==
  ASSUME NEW s, StoreOK(s), NEW l \in Line, NEW vals \in Contents
  PROVE  Placed(s, l, vals, [find_Z_for_writing(s, l) EXCEPT !.linesZ[l] = LineZ(vals)])
<1>1. PICK u : u = find_Z_for_writing(s, l)
  OBVIOUS
<1>2. Vacated(s, l, u)
  BY <1>1, ReleasedLemma
<1>3. PICK r : r = [u EXCEPT !.linesZ[l] = LineZ(vals)]
  OBVIOUS
<1>4. s \in ZStates /\ Owned(s) /\ u \in ZStates
  BY <1>2 DEF StoreOK, Vacated
<1>5. /\ r.tags = u.tags /\ r.lyns = u.lyns /\ r.linesF = u.linesF /\ r.rc = u.rc
      /\ r.linesZ = [s.linesZ EXCEPT ![l] = LineZ(vals)]
  BY <1>2, <1>3, <1>4 DEF ZStates, Vacated
<1>6. LineZ(vals) \in LineRep /\ LineZ(vals).rep = "Z" /\ LineZ(vals).vals = vals
  BY DEF LineRep, LineZ
<1>7. r \in ZStates
  <2>1. r.linesZ \in [Line -> LineRep]
    BY <1>4, <1>5, <1>6 DEF ZStates
  <2> QED BY <1>3, <1>4, <1>5, <2>1 DEF ZStates
<1>8. ~InF(r, l) /\ Stored(r, l) = vals
  BY <1>4, <1>5, <1>6 DEF InF, Stored, ZStates
<1>9. \A m \in Line : m # l => r.linesZ[m] = s.linesZ[m]
  BY <1>4, <1>5 DEF ZStates
<1>10. ASSUME NEW m \in Line, m # l
       PROVE  /\ InF(r, m) <=> InF(s, m)
              /\ InF(s, m) => /\ s.linesZ[m].fix \in DOMAIN s.linesF
                              /\ r.linesF[s.linesZ[m].fix] = s.linesF[s.linesZ[m].fix]
                              /\ r.linesF[s.linesZ[m].fix] # FreeF
  <2>1. InF(r, m) <=> InF(s, m)
    BY <1>9, <1>10 DEF InF
  <2>2. ASSUME InF(s, m)
        PROVE  /\ s.linesZ[m].fix \in DOMAIN s.linesF
               /\ r.linesF[s.linesZ[m].fix] = s.linesF[s.linesZ[m].fix]
               /\ r.linesF[s.linesZ[m].fix] # FreeF
    <3>1. s.linesZ[m].fix \in DOMAIN s.linesF /\ s.linesF[s.linesZ[m].fix] # FreeF
      BY <1>4, <2>2 DEF Owned
    <3>2. ~(InF(s, l) /\ s.linesZ[m].fix = s.linesZ[l].fix)
      BY <1>4, <1>10, <2>2 DEF Owned
    <3> QED BY <1>2, <1>5, <3>1, <3>2 DEF Vacated
  <2> QED BY <2>1, <2>2
<1>11. ASSUME NEW m \in Line, m # l PROVE Stored(r, m) = Stored(s, m)
  BY <1>9, <1>10, <1>11 DEF Stored, InF
<1>12. Owned(r)
  <2>1. DOMAIN r.linesF = DOMAIN s.linesF
    BY <1>2, <1>5 DEF Vacated
  <2>2. ASSUME NEW i \in DOMAIN r.linesF, r.linesF[i] # FreeF
        PROVE  \E m \in Line : InF(r, m) /\ r.linesZ[m].fix = i
    <3>1. s.linesF[i] # FreeF /\ ~(InF(s, l) /\ i = s.linesZ[l].fix)
      BY <1>2, <1>5, <2>1, <2>2 DEF Vacated
    <3>2. PICK m \in Line : InF(s, m) /\ s.linesZ[m].fix = i
      BY <1>4, <2>1, <3>1 DEF Owned
    <3> QED BY <1>9, <1>10, <3>1, <3>2
  <2>3. ASSUME NEW m \in Line, InF(r, m)
        PROVE  m # l /\ InF(s, m) /\ r.linesZ[m] = s.linesZ[m]
               /\ r.linesZ[m].fix \in DOMAIN r.linesF /\ r.linesF[r.linesZ[m].fix] # FreeF
    BY <1>8, <1>9, <1>10, <2>1, <2>3
  <2>4. \A p, m \in Line : InF(r, p) /\ InF(r, m) /\ r.linesZ[p].fix = r.linesZ[m].fix => p = m
    BY <1>4, <2>3 DEF Owned
  <2> QED BY <2>2, <2>3, <2>4 DEF Owned
<1>13. /\ r.tags = s.tags /\ r.lyns = s.lyns
       /\ r.rc = [v \in SVal |-> s.rc[v] + (-1) * References(s, l, v)]
  BY <1>2, <1>5 DEF Vacated
<1> QED BY <1>1, <1>3, <1>7, <1>8, <1>10, <1>11, <1>12, <1>13 DEF Placed


\* G is F, or F with free lines added; line i of it is free.
Freed(F, G, i) ==
  /\ G \in Seq(Contents \cup {Invalid}) /\ i \in DOMAIN G /\ (i \in DOMAIN F => F[i] = FreeF)
  /\ \A j \in DOMAIN F : j \in DOMAIN G /\ G[j] = F[j]
  /\ \A j \in DOMAIN G : j \notin DOMAIN F => G[j] = FreeF

LEMMA Allocated ==
  ASSUME NEW s \in ZStates
  PROVE  Freed(s.linesF, alloc_F_for_writing(s).linesF, alloc_F_for_writing(s).fix)
<1>1. PICK F \in Seq(Contents \cup {Invalid}) : F = s.linesF
  BY DEF ZStates
<1>2. PICK n \in Nat : n = Len(F)
  BY <1>1
<1>3. DOMAIN F = 1 .. n
  BY <1>2
<1>4. PICK free : free = {i \in DOMAIN F : F[i] = FreeF}
  OBVIOUS
<1>5. CASE free # {}
  <2>1. free \in SUBSET Nat
    BY <1>3, <1>4
  <2>2. PICK e : e = CHOOSE i \in free : \A j \in free : i <= j
    OBVIOUS
  <2>3. e \in free
    <3>1. \E i \in free : \A j \in free : i <= j
      BY <1>5, <2>1, Least
    <3> QED BY <2>2, <3>1
  <2>4. alloc_F_for_writing(s).fix = e /\ alloc_F_for_writing(s).linesF = F
    BY <1>1, <1>4, <1>5, <2>2 DEF alloc_F_for_writing
  <2> QED BY <1>1, <1>4, <2>3, <2>4 DEF Freed
<1>6. CASE free = {}
  <2>1. PICK m : m = IF n = 0 THEN 1 ELSE 2 * n
    OBVIOUS
  <2>2. m \in Nat /\ n + 1 \in 1 .. m /\ \A i \in 1 .. n : i \in 1 .. m
    BY <2>1
  <2>3. PICK G : G = [i \in 1 .. m |-> IF i <= n THEN F[i] ELSE FreeF]
    OBVIOUS
  <2>4. alloc_F_for_writing(s).fix = n + 1 /\ alloc_F_for_writing(s).linesF = G
    BY <1>1, <1>2, <1>4, <1>6, <2>1, <2>3 DEF alloc_F_for_writing
  <2>5. \A i \in 1 .. m : (IF i <= n THEN F[i] ELSE FreeF) \in Contents \cup {Invalid}
    <3>1. ASSUME NEW i \in 1 .. m, i <= n PROVE F[i] \in Contents \cup {Invalid}
      <4>1. i \in DOMAIN F
        BY <1>3, <3>1
      <4> QED BY <4>1
    <3> QED BY <3>1 DEF FreeF
  <2>6. G \in Seq(Contents \cup {Invalid}) /\ DOMAIN G = 1 .. m
    BY <2>2, <2>3, <2>5
  <2>7. \A j \in DOMAIN F : j \in DOMAIN G /\ G[j] = F[j]
    <3>1. \A j \in 1 .. n : j \in 1 .. m /\ j <= n
      BY <2>2
    <3> QED BY <1>3, <2>3, <3>1
  <2>8. \A j \in DOMAIN G : j \notin DOMAIN F => G[j] = FreeF
    <3>1. \A j \in 1 .. m : j \notin 1 .. n => ~(j <= n)
      BY <2>2
    <3> QED BY <1>3, <2>3, <2>6, <3>1
  <2>9. n + 1 \in DOMAIN G /\ n + 1 \notin DOMAIN F
    BY <1>3, <2>2, <2>6
  <2> QED BY <1>1, <2>4, <2>6, <2>7, <2>8, <2>9 DEF Freed
<1> QED BY <1>5, <1>6

\* The new contents go to an F line.
LEMMA PlacedF ==
  ASSUME NEW s, StoreOK(s), NEW l \in Line, NEW vals \in Contents
  PROVE  LET u == find_Z_for_writing(s, l)
         IN Placed(s, l, vals, StoreF(u, l, vals, alloc_F_for_writing(u)))
<1>1. PICK u : u = find_Z_for_writing(s, l)
  OBVIOUS
<1>2. Vacated(s, l, u)
  BY <1>1, ReleasedLemma
<1>3. s \in ZStates /\ Owned(s) /\ u \in ZStates
  BY <1>2 DEF StoreOK, Vacated
<1>4. PICK f, i, G : f = alloc_F_for_writing(u) /\ i = f.fix /\ G = f.linesF
  OBVIOUS
<1>5. Freed(u.linesF, G, i)
  BY <1>3, <1>4, Allocated
<1>6. PICK H : H = [G EXCEPT ![i] = vals]
  OBVIOUS
<1>7. /\ H \in Seq(Contents \cup {Invalid}) /\ DOMAIN H = DOMAIN G /\ i \in DOMAIN G /\ H[i] = vals
      /\ \A j \in DOMAIN G : j # i => H[j] = G[j]
  BY <1>5, <1>6 DEF Freed
<1>8. PICK r : r = StoreF(u, l, vals, f)
  OBVIOUS
<1>9. r = [u EXCEPT !.linesZ[l] = LineF(i), !.linesF = H]
  BY <1>4, <1>6, <1>8 DEF StoreF
<1>10. /\ r.tags = u.tags /\ r.lyns = u.lyns /\ r.linesF = H /\ r.rc = u.rc
       /\ r.linesZ = [s.linesZ EXCEPT ![l] = LineF(i)]
  BY <1>2, <1>3, <1>9 DEF ZStates, Vacated
<1>11. i \in Nat
  BY <1>5 DEF Freed
<1>12. LineF(i) \in LineRep /\ LineF(i).rep = "F" /\ LineF(i).fix = i
  BY <1>11 DEF LineRep, LineF
<1>13. r \in ZStates
  <2>1. r.linesZ \in [Line -> LineRep]
    BY <1>3, <1>10, <1>12 DEF ZStates
  <2> QED BY <1>3, <1>7, <1>9, <1>10, <2>1 DEF ZStates
<1>14. InF(r, l) /\ r.linesZ[l].fix = i /\ Stored(r, l) = vals
  BY <1>3, <1>7, <1>10, <1>12 DEF InF, Stored, ZStates
<1>15. \A m \in Line : m # l => r.linesZ[m] = s.linesZ[m]
  BY <1>3, <1>10 DEF ZStates
<1>16. vals # FreeF
  BY ZsmAssumption DEF Contents, FreeF
<1>17. DOMAIN u.linesF = DOMAIN s.linesF
  BY <1>2 DEF Vacated
<1>18. ASSUME NEW m \in Line, m # l, InF(s, m)
       PROVE  /\ s.linesZ[m].fix \in DOMAIN s.linesF /\ s.linesZ[m].fix \in DOMAIN H
              /\ H[s.linesZ[m].fix] = s.linesF[s.linesZ[m].fix]
              /\ H[s.linesZ[m].fix] # FreeF /\ s.linesZ[m].fix # i
  <2>1. PICK j : j = s.linesZ[m].fix
    OBVIOUS
  <2>2. j \in DOMAIN s.linesF /\ s.linesF[j] # FreeF
    BY <1>3, <1>18, <2>1 DEF Owned
  <2>3. ~(InF(s, l) /\ j = s.linesZ[l].fix)
    BY <1>3, <1>18, <2>1 DEF Owned
  <2>4. u.linesF[j] = s.linesF[j]
    BY <1>2, <2>2, <2>3 DEF Vacated
  <2>5. j # i /\ j \in DOMAIN G /\ G[j] = u.linesF[j]
    BY <1>5, <1>17, <2>2, <2>4 DEF Freed
  <2> QED BY <1>7, <2>1, <2>2, <2>4, <2>5
<1>19. ASSUME NEW m \in Line, m # l
       PROVE  Stored(r, m) = Stored(s, m) /\ (InF(r, m) <=> InF(s, m))
  BY <1>10, <1>15, <1>18, <1>19 DEF Stored, InF
<1>20. Owned(r)
  <2>1. ASSUME NEW m \in Line, InF(r, m), m # l
        PROVE  InF(s, m) /\ r.linesZ[m] = s.linesZ[m]
    BY <1>15, <1>19, <2>1
  <2>2. ASSUME NEW m \in Line, InF(r, m)
        PROVE  r.linesZ[m].fix \in DOMAIN r.linesF /\ r.linesF[r.linesZ[m].fix] # FreeF
    <3>1. CASE m = l
      BY <1>7, <1>10, <1>14, <1>16, <3>1
    <3>2. CASE m # l
      BY <1>10, <1>18, <2>1, <2>2, <3>2
    <3> QED BY <3>1, <3>2
  <2>3. ASSUME NEW p \in Line, NEW m \in Line, InF(r, p), InF(r, m), r.linesZ[p].fix = r.linesZ[m].fix
        PROVE  p = m
    <3>1. CASE p = l /\ m # l
      BY <1>14, <1>18, <2>1, <2>3, <3>1
    <3>2. CASE p # l /\ m = l
      BY <1>14, <1>18, <2>1, <2>3, <3>2
    <3>3. CASE p # l /\ m # l
      BY <1>3, <2>1, <2>3, <3>3 DEF Owned
    <3> QED BY <3>1, <3>2, <3>3
  <2>4. ASSUME NEW j \in DOMAIN r.linesF, r.linesF[j] # FreeF
        PROVE  \E m \in Line : InF(r, m) /\ r.linesZ[m].fix = j
    <3>1. CASE j = i
      BY <1>14, <3>1
    <3>2. CASE j # i
      <4>1. j \in DOMAIN G /\ G[j] # FreeF
        BY <1>7, <1>10, <2>4, <3>2
      <4>2. j \in DOMAIN s.linesF /\ G[j] = u.linesF[j]
        BY <1>5, <1>17, <4>1 DEF Freed
      <4>3. s.linesF[j] # FreeF /\ ~(InF(s, l) /\ j = s.linesZ[l].fix)
        BY <1>2, <4>1, <4>2 DEF Vacated
      <4>4. PICK m \in Line : InF(s, m) /\ s.linesZ[m].fix = j
        BY <1>3, <4>2, <4>3 DEF Owned
      <4>5. m # l
        BY <4>3, <4>4
      <4> QED BY <1>15, <1>19, <4>4, <4>5
    <3> QED BY <3>1, <3>2
  <2> QED BY <2>2, <2>3, <2>4 DEF Owned
<1>21. /\ r.tags = s.tags /\ r.lyns = s.lyns
       /\ r.rc = [v \in SVal |-> s.rc[v] + (-1) * References(s, l, v)]
  BY <1>2, <1>10 DEF Vacated
<1>22. Placed(s, l, vals, r)
  BY <1>13, <1>14, <1>19, <1>20, <1>21 DEF Placed
<1> QED BY <1>1, <1>4, <1>8, <1>22

\* A line of the store is overwritten, and nothing else changes.
LEMMA StoreLemma ==
  ASSUME NEW s, StoreOK(s), NEW l \in Line, NEW vals \in Contents
  PROVE  Overwritten(s, l, vals, Store(find_Z_for_writing(s, l), l, vals))
<1>1. PICK u : u = find_Z_for_writing(s, l)
  OBVIOUS
<1>2. PICK r : r = IF Cardinality({vals[o] : o \in Off}) <= DictSize
                     THEN [u EXCEPT !.linesZ[l] = LineZ(vals)]
                     ELSE StoreF(u, l, vals, alloc_F_for_writing(u))
  OBVIOUS
<1>3. Placed(s, l, vals, r)
  BY <1>1, <1>2, PlacedZ, PlacedF
<1>4. Store(u, l, vals) = Counted(r, l, 1)
  BY <1>2 DEF Store
<1> QED BY <1>1, <1>3, <1>4, CountedUp


----------------------------------------------------------------------------
(* Zsm: the cache *)

\* A way holds a line that belongs to it, as a sane tree.
CacheOK(s) ==
  \A w \in Way : s.tags[w] # NoTag => s.tags[w] % NWay = w /\ TreeOK(s.lyns[w])
ZOK(s) == StoreOK(s) /\ CacheOK(s)

\* The contents of a line, wherever they are.
LineOf(s, l) ==
  IF s.tags[l % NWay] = l THEN sequentialise_CacheLine(s.lyns[l % NWay]) ELSE Stored(s, l)

LEMMA WayFacts ==
  ASSUME NEW l \in Line
  PROVE  l % NWay \in Way /\ l # NoTag /\ l \in Nat
<1>1. NWay \in Nat /\ NWay > 0 /\ NLine \in Nat
  BY Sizes
<1>2. l \in Nat
  BY <1>1 DEF Line
<1>3. l % NWay \in 0 .. NWay - 1
  BY <1>1, <1>2
<1> QED BY <1>2, <1>3 DEF Way, NoTag

LEMMA SequentialType ==
  ASSUME NEW t, TreeOK(t)
  PROVE  /\ sequentialise_CacheLine(t) \in Contents
         /\ \A o \in Off : sequentialise_CacheLine(t)[o] = InTree(t, o)
BY InTreeType DEF sequentialise_CacheLine, Contents

LEMMA SameStore ==
  ASSUME NEW s, StoreOK(s), NEW r \in ZStates, r.linesZ = s.linesZ, r.linesF = s.linesF, r.rc = s.rc
  PROVE  StoreOK(r) /\ \A l : Stored(r, l) = Stored(s, l)
<1>1. \A l : Stored(r, l) = Stored(s, l) /\ (InF(r, l) <=> InF(s, l))
  BY DEF Stored, InF
<1>2. Owned(r)
  BY DEF StoreOK, Owned, InF
<1>3. \A v : Sites(r, v) = Sites(s, v)
  BY <1>1 DEF Sites, Refers
<1>4. RcExact(r)
  BY <1>3 DEF StoreOK, RcExact
<1> QED BY <1>1, <1>2, <1>4 DEF StoreOK

LEMMA LineOfType ==
  ASSUME NEW s, ZOK(s), NEW l \in Line
  PROVE  LineOf(s, l) \in Contents
<1>1. l % NWay \in Way /\ l # NoTag
  BY WayFacts
<1>2. CASE s.tags[l % NWay] = l
  BY <1>1, <1>2, SequentialType DEF LineOf, ZOK, CacheOK
<1>3. CASE s.tags[l % NWay] # l
  BY <1>3, StoredType DEF LineOf, ZOK, StoreOK
<1> QED BY <1>2, <1>3

\* A line of the cache gets another tree.
Replanted(s, r, l, t) ==
  /\ ZOK(r) /\ LineOf(r, l) = sequentialise_CacheLine(t)
  /\ \A m \in Line : m # l => LineOf(r, m) = LineOf(s, m)

LEMMA NewTree ==
  ASSUME NEW s, ZOK(s), NEW l \in Line, s.tags[l % NWay] = l, NEW t, TreeOK(t)
  PROVE  Replanted(s, [s EXCEPT !.lyns[l % NWay] = t], l, t)
<1>1. PICK w \in Way : w = l % NWay
  BY WayFacts
<1>2. PICK r : r = [s EXCEPT !.lyns[w] = t]
  OBVIOUS
<1>3. s \in ZStates /\ StoreOK(s) /\ CacheOK(s)
  BY DEF ZOK, StoreOK
<1>4. /\ r.tags = s.tags /\ r.linesZ = s.linesZ /\ r.linesF = s.linesF /\ r.rc = s.rc
      /\ r.lyns = [s.lyns EXCEPT ![w] = t]
  BY <1>2, <1>3 DEF ZStates
<1>5. t \in Tree /\ s.lyns \in [Way -> Tree]
  BY <1>3 DEF TreeOK, ZStates
<1>6. r \in ZStates
  <2>1. r.lyns \in [Way -> Tree]
    BY <1>4, <1>5
  <2> QED BY <1>2, <1>3, <1>4, <2>1 DEF ZStates
<1>7. StoreOK(r) /\ \A m : Stored(r, m) = Stored(s, m)
  BY <1>3, <1>4, <1>6, SameStore
<1>8. r.lyns[w] = t /\ \A z \in Way : z # w => r.lyns[z] = s.lyns[z]
  BY <1>4, <1>5
<1>9. CacheOK(r)
  BY <1>3, <1>4, <1>8 DEF CacheOK
<1>10. LineOf(r, l) = sequentialise_CacheLine(t)
  BY <1>1, <1>4, <1>8 DEF LineOf
<1>11. ASSUME NEW m \in Line, m # l PROVE LineOf(r, m) = LineOf(s, m)
  <2>1. m % NWay \in Way
    BY WayFacts
  <2>2. CASE m % NWay = w
    BY <1>1, <1>4, <1>7, <1>11, <2>2 DEF LineOf
  <2>3. CASE m % NWay # w
    BY <1>4, <1>7, <1>8, <2>1, <2>3 DEF LineOf
  <2> QED BY <2>2, <2>3
<1>12. ZOK(r)
  BY <1>7, <1>9 DEF ZOK
<1> QED BY <1>1, <1>2, <1>10, <1>11, <1>12 DEF Replanted

\* The store knows what the way holds.
WrittenBack(s, w) == s.tags[w] # NoTag => Stored(s, s.tags[w]) = sequentialise_CacheLine(s.lyns[w])

LEMMA WroteBack ==
  ASSUME NEW s, ZOK(s), NEW w \in Way
  PROVE  LET r == cacheline_wback(s, w) IN
         /\ ZOK(r) /\ r.tags = s.tags /\ r.lyns = s.lyns /\ WrittenBack(r, w)
         /\ \A m \in Line : LineOf(r, m) = LineOf(s, m)
         /\ \A z \in Way : WrittenBack(s, z) => WrittenBack(r, z)
<1>1. PICK r : r = cacheline_wback(s, w)
  OBVIOUS
<1>2. s \in ZStates /\ StoreOK(s) /\ CacheOK(s)
  BY DEF ZOK, StoreOK
<1>3. CASE s.tags[w] = NoTag
  <2>1. r = s
    BY <1>1, <1>3 DEF cacheline_wback
  <2> QED BY <1>1, <1>3, <2>1 DEF WrittenBack
<1>4. CASE s.tags[w] # NoTag
  <2>1. PICK l \in Line : l = s.tags[w]
    BY <1>2, <1>4 DEF ZStates
  <2>2. l % NWay = w /\ TreeOK(s.lyns[w])
    BY <1>2, <1>4, <2>1 DEF CacheOK
  <2>3. PICK f \in Contents : f = sequentialise_CacheLine(s.lyns[w])
    BY <2>2, SequentialType
  <2>4. r = Store(find_Z_for_writing(s, l), l, f)
    BY <1>1, <1>4, <2>1, <2>3 DEF cacheline_wback
  <2>5. Overwritten(s, l, f, r)
    BY <1>2, <2>4, StoreLemma
  <2>6. /\ StoreOK(r) /\ r.tags = s.tags /\ r.lyns = s.lyns /\ Stored(r, l) = f
        /\ \A m \in Line : m # l => Stored(r, m) = Stored(s, m)
    BY <2>5 DEF Overwritten
  <2>7. ZOK(r)
    BY <1>2, <2>6 DEF ZOK, CacheOK
  <2>8. WrittenBack(r, w)
    BY <2>1, <2>3, <2>6 DEF WrittenBack
  <2>9. ASSUME NEW m \in Line PROVE LineOf(r, m) = LineOf(s, m)
    <3>1. CASE m = l
      BY <2>1, <2>2, <2>6, <3>1 DEF LineOf
    <3>2. CASE m # l
      BY <2>6, <3>2 DEF LineOf
    <3> QED BY <3>1, <3>2
  <2>10. ASSUME NEW z \in Way, WrittenBack(s, z) PROVE WrittenBack(r, z)
    <3>1. CASE z = w
      BY <2>8, <3>1
    <3>2. CASE z # w /\ s.tags[z] # NoTag
      <4>1. s.tags[z] \in Line
        BY <1>2, <3>2 DEF ZStates
      <4>2. s.tags[z] % NWay = z
        BY <1>2, <3>2 DEF CacheOK
      <4>3. s.tags[z] # l
        BY <2>2, <3>2, <4>2
      <4> QED BY <2>6, <2>10, <3>2, <4>1, <4>3 DEF WrittenBack
    <3>3. CASE s.tags[z] = NoTag
      BY <2>6, <3>3 DEF WrittenBack
    <3> QED BY <3>1, <3>2, <3>3
  <2> QED BY <1>1, <2>6, <2>7, <2>8, <2>9, <2>10
<1> QED BY <1>3, <1>4

LEMMA Fetched ==
  ASSUME NEW s, ZOK(s), NEW l \in Line, s.tags[l % NWay] # l, WrittenBack(s, l % NWay)
  PROVE  LET r == cacheline_fetch(s, l % NWay, l) IN
         /\ ZOK(r) /\ r.tags[l % NWay] = l
         /\ \A m \in Line : LineOf(r, m) = LineOf(s, m)
<1>1. PICK w \in Way : w = l % NWay
  BY WayFacts
<1>2. PICK f \in Contents : f = Stored(s, l)
  BY StoredType DEF ZOK, StoreOK
<1>3. PICK t : t = normalise(f)
  OBVIOUS
<1>4. TreeOK(t) /\ \A o \in Off : InTree(t, o) = f[o]
  BY <1>3, Normalised DEF Contents
<1>5. sequentialise_CacheLine(t) = f
  BY <1>4 DEF sequentialise_CacheLine, Contents
<1>6. PICK r : r = cacheline_fetch(s, w, l)
  OBVIOUS
<1>7. s \in ZStates /\ StoreOK(s) /\ CacheOK(s)
  BY DEF ZOK, StoreOK
<1>8. r = [s EXCEPT !.tags[w] = l, !.lyns[w] = t]
  BY <1>2, <1>3, <1>6 DEF cacheline_fetch
<1>9. /\ r.linesZ = s.linesZ /\ r.linesF = s.linesF /\ r.rc = s.rc
      /\ r.tags = [s.tags EXCEPT ![w] = l] /\ r.lyns = [s.lyns EXCEPT ![w] = t]
  BY <1>7, <1>8 DEF ZStates
<1>10. t \in Tree /\ s.lyns \in [Way -> Tree] /\ s.tags \in [Way -> Line \cup {NoTag}]
  BY <1>4, <1>7 DEF TreeOK, ZStates
<1>11. r \in ZStates
  <2>1. r.lyns \in [Way -> Tree] /\ r.tags \in [Way -> Line \cup {NoTag}]
    BY <1>9, <1>10
  <2> QED BY <1>7, <1>8, <1>9, <2>1 DEF ZStates
<1>12. StoreOK(r) /\ \A m : Stored(r, m) = Stored(s, m)
  BY <1>7, <1>9, <1>11, SameStore
<1>13. /\ r.tags[w] = l /\ r.lyns[w] = t
       /\ \A z \in Way : z # w => r.lyns[z] = s.lyns[z] /\ r.tags[z] = s.tags[z]
  BY <1>9, <1>10
<1>14. CacheOK(r)
  BY <1>1, <1>4, <1>7, <1>13 DEF CacheOK
<1>15. ASSUME NEW m \in Line PROVE LineOf(r, m) = LineOf(s, m)
  <2>1. m % NWay \in Way /\ m # NoTag
    BY WayFacts
  <2>2. CASE m = l
    BY <1>1, <1>2, <1>5, <1>13, <2>2 DEF LineOf
  <2>3. CASE m # l /\ m % NWay = w
    <3>1. LineOf(r, m) = Stored(s, m)
      BY <1>12, <1>13, <2>3 DEF LineOf
    <3>2. CASE s.tags[w] = m
      BY <1>1, <2>1, <2>3, <3>1, <3>2 DEF LineOf, WrittenBack
    <3>3. CASE s.tags[w] # m
      BY <2>3, <3>1, <3>3 DEF LineOf
    <3> QED BY <3>2, <3>3
  <2>4. CASE m % NWay # w
    BY <1>12, <1>13, <2>1, <2>4 DEF LineOf
  <2> QED BY <2>2, <2>3, <2>4
<1>16. ZOK(r)
  BY <1>12, <1>14 DEF ZOK
<1> QED BY <1>1, <1>6, <1>13, <1>15, <1>16


----------------------------------------------------------------------------
(* Zsm: accesses *)

LEMMA AddrFacts ==
  ASSUME NEW e \in ShmemAddr
  PROVE  /\ e \div W \in Line /\ e % W \in Off /\ e \in Nat /\ WayOf(e) = (e \div W) % NWay
         /\ e = (e \div W) * W + (e % W)
<1>1. W \in {2, 4, 8} /\ NLine \in Nat /\ e \in Nat /\ e < NLine * W
  <2>1. W \in {2, 4, 8}
    BY Sizes DEF Sized
  <2> QED BY <2>1, Sizes DEF ShmemAddr
<1>2. CASE W = 2
  <2>0. e < NLine * 2
    BY <1>1, <1>2
  <2>1. e \div 2 \in 0 .. NLine - 1 /\ e % 2 \in 0 .. 2 - 1 /\ e = (e \div 2) * 2 + (e % 2)
    BY <1>1, <2>0
  <2> QED BY <1>1, <1>2, <2>1 DEF Line, Off, WayOf
<1>3. CASE W = 4
  <2>0. e < NLine * 4
    BY <1>1, <1>3
  <2>1. e \div 4 \in 0 .. NLine - 1 /\ e % 4 \in 0 .. 4 - 1 /\ e = (e \div 4) * 4 + (e % 4)
    BY <1>1, <2>0
  <2> QED BY <1>1, <1>3, <2>1 DEF Line, Off, WayOf
<1>4. CASE W = 8
  <2>0. e < NLine * 8
    BY <1>1, <1>4
  <2>1. e \div 8 \in 0 .. NLine - 1 /\ e % 8 \in 0 .. 8 - 1 /\ e = (e \div 8) * 8 + (e % 8)
    BY <1>1, <2>0
  <2> QED BY <1>1, <1>4, <2>1 DEF Line, Off, WayOf
<1> QED BY <1>1, <1>2, <1>3, <1>4

Span(e, n) == e .. e + n - 1

\* An aligned access stays in one node of one line.
LEMMA InOneLine ==
  ASSUME NEW e \in Nat, NEW z \in Nat, NEW p \in {1, 2, 4, 8}, NEW x \in {2, 4, 8}, p <= x, e % p = 0
  PROVE  /\ (e % x) % p = 0
         /\ e <= z /\ z < e + p <=> z \div x = e \div x /\ e % x <= z % x /\ z % x < (e % x) + p
<1>1. CASE x = 2
  <2>1. CASE p = 1
    BY <1>1, <2>1
  <2>2. CASE p = 2
    BY <1>1, <2>2
  <2> QED BY <1>1, <2>1, <2>2
<1>2. CASE x = 4
  <2>1. CASE p = 1
    BY <1>2, <2>1
  <2>2. CASE p = 2
    BY <1>2, <2>2
  <2>3. CASE p = 4
    BY <1>2, <2>3
  <2> QED BY <1>2, <2>1, <2>2, <2>3
<1>3. CASE x = 8
  <2>1. CASE p = 1
    BY <1>3, <2>1
  <2>2. CASE p = 2
    BY <1>3, <2>2
  <2>3. CASE p = 4
    BY <1>3, <2>3
  <2>4. CASE p = 8
    BY <1>3, <2>4
  <2> QED BY <1>3, <2>1, <2>2, <2>3, <2>4
<1> QED BY <1>1, <1>2, <1>3

LEMMA SpanIsNode ==
  ASSUME NEW k \in Level, NEW e \in ShmemAddr, e % 2^k = 0
  PROVE  /\ (e % W) % 2^k = 0 /\ <<k, e % W>> \in Node
         /\ \A z \in ShmemAddr : z \in Span(e, 2^k) <=> z \div W = e \div W /\ z % W \in Bytes(<<k, e % W>>)
<1>1. PICK p : p = 2^k
  OBVIOUS
<1>2. p \in {1, 2, 4, 8} /\ p <= W /\ W \in {2, 4, 8}
  BY <1>1, SizeFacts, Sizes DEF Sized
<1>3. e \in Nat /\ e % W \in Off /\ e % p = 0
  BY <1>1, AddrFacts
<1>4. (e % W) % p = 0
  BY <1>2, <1>3, InOneLine
<1>5. PICK n : n = <<k, e % W>>
  OBVIOUS
<1>6. n \in Node /\ n[1] = k /\ n[2] = e % W
  BY <1>1, <1>3, <1>4, <1>5, IsNode
<1>7. ASSUME NEW z \in ShmemAddr PROVE z \in Span(e, p) <=> z \div W = e \div W /\ z % W \in Bytes(n)
  <2>1. z \in Nat /\ z % W \in Off
    BY AddrFacts
  <2>2. z % W \in Int
    BY <2>1, Sizes
  <2>3. z % W \in Bytes(n) <=> e % W <= z % W /\ z % W < (e % W) + p
    BY <1>1, <1>6, <2>2, NodeFacts
  <2>4. z \in Span(e, p) <=> e <= z /\ z < e + p
    BY <1>2, <1>3, <2>1 DEF Span
  <2>5. e <= z /\ z < e + p <=> z \div W = e \div W /\ e % W <= z % W /\ z % W < (e % W) + p
    BY <1>2, <1>3, <2>1, InOneLine
  <2> QED BY <2>3, <2>4, <2>5
<1> QED BY <1>1, <1>4, <1>5, <1>6, <1>7

\* What the next access to a byte will find.
ByteOf(s, z) == LineOf(s, z \div W)[z % W]

\* The bytes in D were mapped by g, and no others.
Changed(s, r, D, g) ==
  /\ ZOK(r)
  /\ \A z \in ShmemAddr : ByteOf(r, z) = IF z \in D THEN g[ByteOf(s, z)] ELSE ByteOf(s, z)

LEMMA ByteOfType ==
  ASSUME NEW s, ZOK(s), NEW z \in ShmemAddr
  PROVE  ByteOf(s, z) \in SVal
<1>1. z \div W \in Line /\ z % W \in Off
  BY AddrFacts
<1>2. LineOf(s, z \div W) \in Contents
  BY <1>1, LineOfType
<1> QED BY <1>1, <1>2 DEF ByteOf, Contents

LEMMA GotLine ==
  ASSUME NEW s, ZOK(s), NEW e \in ShmemAddr
  PROVE  LET r == get_cacheline(s, e) IN
         /\ ZOK(r) /\ r.tags[WayOf(e)] = e \div W /\ TreeOK(r.lyns[WayOf(e)])
         /\ \A z \in ShmemAddr : ByteOf(r, z) = ByteOf(s, z)
<1>1. PICK l \in Line : l = e \div W
  BY AddrFacts
<1>2. PICK w \in Way : w = l % NWay
  BY WayFacts
<1>3. WayOf(e) = w
  BY <1>1, <1>2, AddrFacts
<1>4. PICK r : r = get_cacheline(s, e)
  OBVIOUS
<1>5. ZOK(r) /\ r.tags[w] = l /\ \A m \in Line : LineOf(r, m) = LineOf(s, m)
  <2>1. CASE s.tags[w] = l
    BY <1>1, <1>3, <1>4, <2>1 DEF get_cacheline
  <2>2. CASE s.tags[w] # l
    <3>1. PICK u : u = cacheline_wback(s, w)
      OBVIOUS
    <3>2. /\ ZOK(u) /\ u.tags = s.tags /\ WrittenBack(u, w)
          /\ \A m \in Line : LineOf(u, m) = LineOf(s, m)
      BY <3>1, WroteBack
    <3>3. r = cacheline_fetch(u, w, l)
      BY <1>1, <1>3, <1>4, <2>2, <3>1 DEF get_cacheline
    <3>4. ZOK(r) /\ r.tags[w] = l /\ \A m \in Line : LineOf(r, m) = LineOf(u, m)
      BY <1>2, <2>2, <3>2, <3>3, Fetched
    <3> QED BY <3>2, <3>4
  <2> QED BY <2>1, <2>2
<1>6. TreeOK(r.lyns[w])
  BY <1>5, WayFacts DEF ZOK, CacheOK
<1>7. \A z \in ShmemAddr : ByteOf(r, z) = ByteOf(s, z)
  BY <1>5, AddrFacts DEF ByteOf
<1> QED BY <1>1, <1>3, <1>4, <1>5, <1>6, <1>7

\* A node of a line of the cache is mapped.
LEMMA ChangedInLine ==
  ASSUME NEW s, ZOK(s), NEW e \in ShmemAddr, s.tags[WayOf(e)] = e \div W,
         NEW k \in Level, e % 2^k = 0, NEW g, NEW t, TreeOK(t),
         \A o \in Off : InTree(t, o) = IF o \in Bytes(<<k, e % W>>) THEN g[InTree(s.lyns[WayOf(e)], o)]
                                       ELSE InTree(s.lyns[WayOf(e)], o)
  PROVE  Changed(s, [s EXCEPT !.lyns[WayOf(e)] = t], Span(e, 2^k), g)
<1>1. PICK l \in Line : l = e \div W
  BY AddrFacts
<1>2. PICK w \in Way : w = l % NWay
  BY WayFacts
<1>3. WayOf(e) = w
  BY <1>1, <1>2, AddrFacts
<1>4. PICK r : r = [s EXCEPT !.lyns[w] = t]
  OBVIOUS
<1>5. /\ ZOK(r) /\ LineOf(r, l) = sequentialise_CacheLine(t)
      /\ \A m \in Line : m # l => LineOf(r, m) = LineOf(s, m)
  <2>1. s.tags[l % NWay] = l
    BY <1>1, <1>2, <1>3
  <2>2. r = [s EXCEPT !.lyns[l % NWay] = t]
    BY <1>2, <1>4
  <2>3. Replanted(s, r, l, t)
    BY <2>1, <2>2, NewTree, Zenon
  <2> QED BY <2>3 DEF Replanted
<1>6. PICK u : u = s.lyns[w]
  OBVIOUS
<1>7. TreeOK(u) /\ LineOf(s, l) = sequentialise_CacheLine(u)
  BY <1>1, <1>2, <1>3, <1>6, WayFacts DEF ZOK, CacheOK, LineOf
<1>8. ASSUME NEW z \in ShmemAddr
      PROVE  ByteOf(r, z) = IF z \in Span(e, 2^k) THEN g[ByteOf(s, z)] ELSE ByteOf(s, z)
  <2>1. z \div W \in Line /\ z % W \in Off
    BY AddrFacts
  <2>2. z \in Span(e, 2^k) <=> z \div W = l /\ z % W \in Bytes(<<k, e % W>>)
    BY <1>1, SpanIsNode
  <2>3. CASE z \div W = l
    <3>1. ByteOf(r, z) = InTree(t, z % W) /\ ByteOf(s, z) = InTree(u, z % W)
      BY <1>5, <1>7, <2>1, <2>3, SequentialType DEF ByteOf
    <3> QED BY <1>3, <1>6, <2>1, <2>2, <2>3, <3>1
  <2>4. CASE z \div W # l
    BY <1>5, <2>1, <2>2, <2>4 DEF ByteOf
  <2> QED BY <2>3, <2>4
<1> QED BY <1>3, <1>4, <1>5, <1>8 DEF Changed


\* Two parts make a whole.
LEMMA ChangedTwice ==
  ASSUME NEW s, ZOK(s), NEW g \in [SVal -> SVal], NEW u, NEW r, NEW D, NEW E, NEW C,
         Changed(s, u, D, g), Changed(u, r, E, g),
         \A z \in ShmemAddr : z \in C <=> z \in D \/ z \in E,
         \A z \in ShmemAddr : ~(z \in D /\ z \in E)
  PROVE  Changed(s, r, C, g)
BY DEF Changed

LEMMA ChangedHalves ==
  ASSUME NEW s, ZOK(s), NEW g \in [SVal -> SVal], NEW u, NEW r, NEW e \in Nat, NEW p \in Nat, NEW q \in Nat,
         Changed(s, u, Span(e, p), g), Changed(u, r, Span(e + p, q), g)
  PROVE  Changed(s, r, Span(e, p + q), g)
<1>1. \A z \in Int : z \in Span(e, p + q) <=> z \in Span(e, p) \/ z \in Span(e + p, q)
  BY DEF Span
<1>2. \A z \in Int : ~(z \in Span(e, p) /\ z \in Span(e + p, q))
  BY DEF Span
<1>3. \A z \in ShmemAddr : z \in Int
  BY AddrFacts
<1>4. PICK D, E, C : D = Span(e, p) /\ E = Span(e + p, q) /\ C = Span(e, p + q)
  OBVIOUS
<1>5. /\ \A z \in ShmemAddr : z \in C <=> z \in D \/ z \in E
      /\ \A z \in ShmemAddr : ~(z \in D /\ z \in E)
  BY <1>1, <1>2, <1>3, <1>4
<1>6. Changed(s, u, D, g) /\ Changed(u, r, E, g)
  BY <1>4
<1>7. Changed(s, r, C, g)
  BY <1>5, <1>6, ChangedTwice, Zenon
<1> QED BY <1>4, <1>7

\* An access that is not slow.
LEMMA FastApply ==
  ASSUME NEW s, ZOK(s), NEW k \in Level, NEW e \in ShmemAddr, ~Slow(s, k, e), NEW g \in [SVal -> SVal]
  PROVE  Changed(s, ApplyInLine(get_cacheline(s, e), k, e, g), Span(e, 2^k), g)
<1>1. PICK u : u = get_cacheline(s, e)
  OBVIOUS
<1>2. PICK w, t : w = WayOf(e) /\ t = u.lyns[w]
  OBVIOUS
<1>3. ZOK(u) /\ u.tags[w] = e \div W /\ TreeOK(t) /\ \A z \in ShmemAddr : ByteOf(u, z) = ByteOf(s, z)
  BY <1>1, <1>2, GotLine
<1>4. e % 2^k = 0 /\ AtOrAbove(t, k, e % W)
  BY <1>1, <1>2 DEF Slow
<1>5. e % W \in Off /\ (e % W) % 2^k = 0
  BY <1>4, AddrFacts, SpanIsNode
<1>6. PICK o : o = e % W
  OBVIOUS
<1>7. PICK y : y = ApplyAt(t, k, o, g)
  OBVIOUS
<1>8. /\ TreeOK(y)
      /\ \A q \in Off : InTree(y, q) = IF q \in Bytes(<<k, o>>) THEN g[InTree(t, q)] ELSE InTree(t, q)
  BY <1>3, <1>4, <1>5, <1>6, <1>7, AppliedAt
<1>9. PICK r : r = ApplyInLine(u, k, e, g)
  OBVIOUS
<1>10. r = [u EXCEPT !.lyns[w] = y]
  BY <1>2, <1>6, <1>7, <1>9 DEF ApplyInLine
<1>11. Changed(u, r, Span(e, 2^k), g)
  BY <1>2, <1>3, <1>4, <1>6, <1>8, <1>10, ChangedInLine
<1>12. Changed(s, r, Span(e, 2^k), g)
  BY <1>3, <1>11 DEF Changed
<1> QED BY <1>1, <1>9, <1>12

Const(v) == [c \in SVal |-> v]

LEMMA AlignedWrite ==
  ASSUME NEW s, ZOK(s), NEW k \in Level, NEW e \in ShmemAddr, e % 2^k = 0, NEW v \in SVal
  PROVE  Changed(s, WriteInLine(get_cacheline(s, e), k, e, v), Span(e, 2^k), Const(v))
<1>1. PICK u : u = get_cacheline(s, e)
  OBVIOUS
<1>2. PICK w, t : w = WayOf(e) /\ t = u.lyns[w]
  OBVIOUS
<1>3. ZOK(u) /\ u.tags[w] = e \div W /\ TreeOK(t) /\ \A z \in ShmemAddr : ByteOf(u, z) = ByteOf(s, z)
  BY <1>1, <1>2, GotLine
<1>5. e % W \in Off /\ (e % W) % 2^k = 0
  BY AddrFacts, SpanIsNode
<1>6. PICK o : o = e % W
  OBVIOUS
<1>7. PICK y : y = WriteAt(t, k, o, v)
  OBVIOUS
<1>8. /\ TreeOK(y)
      /\ \A q \in Off : InTree(y, q) = IF q \in Bytes(<<k, o>>) THEN v ELSE InTree(t, q)
  BY <1>3, <1>5, <1>6, <1>7, WrittenAt
<1>9. PICK g \in [SVal -> SVal] : g = Const(v)
  BY DEF Const
<1>10. \A q \in Off : InTree(t, q) \in SVal /\ g[InTree(t, q)] = v
  BY <1>3, <1>9, InTreeType DEF Const
<1>11. PICK r : r = WriteInLine(u, k, e, v)
  OBVIOUS
<1>12. r = [u EXCEPT !.lyns[w] = y]
  BY <1>2, <1>6, <1>7, <1>11 DEF WriteInLine
<1>13. \A q \in Off : InTree(y, q) = IF q \in Bytes(<<k, o>>) THEN g[InTree(t, q)] ELSE InTree(t, q)
  BY <1>8, <1>10
<1>14. Changed(u, r, Span(e, 2^k), g)
  BY <1>2, <1>3, <1>6, <1>8, <1>12, <1>13, ChangedInLine
<1>15. Changed(s, r, Span(e, 2^k), g)
  BY <1>3, <1>14 DEF Changed
<1> QED BY <1>1, <1>9, <1>11, <1>15

LEMMA Twos == 2^0 = 1 /\ 2^1 = 2 /\ 2^2 = 4 /\ 2^3 = 8
OBVIOUS

LEMMA Apply8 ==
  ASSUME NEW s, ZOK(s), NEW e \in ShmemAddr, NEW g \in [SVal -> SVal]
  PROVE  Changed(s, zsm_apply8(s, e, g), Span(e, 1), g)
<1>1. 0 \in Level /\ e % W \in Off /\ e \in Nat
  BY Sizes, AddrFacts
<1>2. TreeOK(get_cacheline(s, e).lyns[WayOf(e)])
  BY GotLine
<1>3. AtOrAbove(get_cacheline(s, e).lyns[WayOf(e)], 0, e % W)
  BY <1>1, <1>2, ByteAtOrAbove
<1>4. e % 2^0 = 0
  BY <1>1, Twos
<1>5. ~Slow(s, 0, e)
  BY <1>3, <1>4 DEF Slow
<1> QED BY <1>1, <1>5, FastApply, Twos DEF zsm_apply8

LEMMA Apply16 ==
  ASSUME NEW s, ZOK(s), NEW e \in ShmemAddr, e + 1 \in ShmemAddr, NEW g \in [SVal -> SVal], 1 \in Level
  PROVE  Changed(s, zsm_apply16(s, e, g), Span(e, 2), g)
<1>1. CASE Slow(s, 1, e)
  <2>1. PICK u, r : u = zsm_apply8(s, e, g) /\ r = zsm_apply8(u, e + 1, g)
    OBVIOUS
  <2>2. Changed(s, u, Span(e, 1), g)
    BY <2>1, Apply8
  <2>3. ZOK(u)
    BY <2>2 DEF Changed
  <2>4. Changed(u, r, Span(e + 1, 1), g)
    BY <2>1, <2>3, Apply8
  <2>5. e \in Nat /\ 1 \in Nat /\ 1 + 1 = 2
    BY AddrFacts
  <2>6. Changed(s, r, Span(e, 2), g)
    BY <2>2, <2>4, <2>5, ChangedHalves
  <2> QED BY <1>1, <2>1, <2>6 DEF zsm_apply16
<1>2. CASE ~Slow(s, 1, e)
  BY <1>2, FastApply, Twos DEF zsm_apply16
<1> QED BY <1>1, <1>2

LEMMA Apply32 ==
  ASSUME NEW s, ZOK(s), NEW e \in ShmemAddr, e + 3 \in ShmemAddr, NEW g \in [SVal -> SVal], 2 \in Level
  PROVE  Changed(s, zsm_apply32(s, e, g), Span(e, 4), g)
<1>0. e \in Nat /\ 2 \in Nat /\ 2 + 2 = 4 /\ 1 \in Level
  BY AddrFacts, Sizes
<1>3. e + 1 \in ShmemAddr /\ e + 2 \in ShmemAddr /\ (e + 2) + 1 \in ShmemAddr
  <2>1. e + 3 \in 0 .. NLine * W - 1 /\ NLine * W \in Int
    BY Sizes DEF ShmemAddr
  <2> QED BY <1>0, <2>1 DEF ShmemAddr
<1>1. CASE Slow(s, 2, e)
  <2>1. PICK u, r : u = zsm_apply16(s, e, g) /\ r = zsm_apply16(u, e + 2, g)
    OBVIOUS
  <2>2. Changed(s, u, Span(e, 2), g)
    BY <1>0, <1>3, <2>1, Apply16
  <2>3. ZOK(u)
    BY <2>2 DEF Changed
  <2>4. Changed(u, r, Span(e + 2, 2), g)
    BY <1>0, <1>3, <2>1, <2>3, Apply16
  <2>6. Changed(s, r, Span(e, 4), g)
    BY <1>0, <2>2, <2>4, ChangedHalves
  <2> QED BY <1>1, <2>1, <2>6 DEF zsm_apply32
<1>2. CASE ~Slow(s, 2, e)
  BY <1>2, FastApply, Twos DEF zsm_apply32
<1> QED BY <1>1, <1>2

LEMMA Apply64 ==
  ASSUME NEW s, ZOK(s), NEW e \in ShmemAddr, e + 7 \in ShmemAddr, NEW g \in [SVal -> SVal], 3 \in Level
  PROVE  Changed(s, zsm_apply64(s, e, g), Span(e, 8), g)
<1>0. e \in Nat /\ 4 \in Nat /\ 4 + 4 = 8 /\ 2 \in Level
  BY AddrFacts, Sizes
<1>3. e + 3 \in ShmemAddr /\ e + 4 \in ShmemAddr /\ (e + 4) + 3 \in ShmemAddr
  <2>1. e + 7 \in 0 .. NLine * W - 1 /\ NLine * W \in Int
    BY Sizes DEF ShmemAddr
  <2> QED BY <1>0, <2>1 DEF ShmemAddr
<1>1. CASE Slow(s, 3, e)
  <2>1. PICK u, r : u = zsm_apply32(s, e, g) /\ r = zsm_apply32(u, e + 4, g)
    OBVIOUS
  <2>2. Changed(s, u, Span(e, 4), g)
    BY <1>0, <1>3, <2>1, Apply32
  <2>3. ZOK(u)
    BY <2>2 DEF Changed
  <2>4. Changed(u, r, Span(e + 4, 4), g)
    BY <1>0, <1>3, <2>1, <2>3, Apply32
  <2>6. Changed(s, r, Span(e, 8), g)
    BY <1>0, <2>2, <2>4, ChangedHalves
  <2> QED BY <1>1, <2>1, <2>6 DEF zsm_apply64
<1>2. CASE ~Slow(s, 3, e)
  BY <1>2, FastApply, Twos DEF zsm_apply64
<1> QED BY <1>1, <1>2

\* An access maps the bytes it names.
LEMMA SizedApply ==
  ASSUME NEW s, ZOK(s), NEW k \in Level, NEW e \in ShmemAddr, e + 2^k - 1 \in ShmemAddr,
         NEW g \in [SVal -> SVal]
  PROVE  Changed(s, zsm_apply(s, k, e, g), Span(e, 2^k), g)
<1>1. k = 0 \/ k = 1 \/ k = 2 \/ k = 3
  BY Sizes
<1>2. e \in Nat
  BY AddrFacts
<1>3. CASE k = 0
  BY <1>3, Apply8, Twos DEF zsm_apply
<1>4. CASE k = 1
  <2>1. e + 1 \in ShmemAddr /\ zsm_apply(s, k, e, g) = zsm_apply16(s, e, g)
    BY <1>2, <1>4, Twos DEF zsm_apply
  <2> QED BY <1>4, <2>1, Apply16, Twos
<1>5. CASE k = 2
  <2>1. e + 3 \in ShmemAddr /\ zsm_apply(s, k, e, g) = zsm_apply32(s, e, g)
    BY <1>2, <1>5, Twos DEF zsm_apply
  <2> QED BY <1>5, <2>1, Apply32, Twos
<1>6. CASE k = 3
  <2>1. e + 7 \in ShmemAddr /\ zsm_apply(s, k, e, g) = zsm_apply64(s, e, g)
    BY <1>2, <1>6, Twos DEF zsm_apply
  <2> QED BY <1>6, <2>1, Apply64, Twos
<1> QED BY <1>1, <1>3, <1>4, <1>5, <1>6


LEMMA Write8 ==
  ASSUME NEW s, ZOK(s), NEW e \in ShmemAddr, NEW v \in SVal
  PROVE  Changed(s, zsm_write8(s, e, v), Span(e, 1), Const(v))
<1>1. 0 \in Level /\ e \in Nat
  BY Sizes, AddrFacts
<1>2. e % 2^0 = 0
  BY <1>1, Twos
<1> QED BY <1>1, <1>2, AlignedWrite, Twos DEF zsm_write8

LEMMA ConstType ==
  ASSUME NEW v \in SVal
  PROVE  Const(v) \in [SVal -> SVal]
BY DEF Const

LEMMA Write16 ==
  ASSUME NEW s, ZOK(s), NEW e \in ShmemAddr, e + 1 \in ShmemAddr, NEW v \in SVal, 1 \in Level
  PROVE  Changed(s, zsm_write16(s, e, v), Span(e, 2), Const(v))
<1>1. CASE e % 2 # 0
  <2>1. PICK u, r, g : u = zsm_write8(s, e, v) /\ r = zsm_write8(u, e + 1, v) /\ g = Const(v)
    OBVIOUS
  <2>2. Changed(s, u, Span(e, 1), g) /\ g \in [SVal -> SVal]
    BY <2>1, Write8, ConstType
  <2>3. ZOK(u)
    BY <2>2 DEF Changed
  <2>4. Changed(u, r, Span(e + 1, 1), g)
    BY <2>1, <2>3, Write8
  <2>5. e \in Nat /\ 1 \in Nat /\ 1 + 1 = 2
    BY AddrFacts
  <2>6. Changed(s, r, Span(e, 2), g)
    BY <2>2, <2>4, <2>5, ChangedHalves
  <2> QED BY <1>1, <2>1, <2>6 DEF zsm_write16
<1>2. CASE e % 2 = 0
  <2>1. e % 2^1 = 0
    BY <1>2, Twos
  <2> QED BY <1>2, <2>1, AlignedWrite, Twos DEF zsm_write16
<1> QED BY <1>1, <1>2

LEMMA Write32 ==
  ASSUME NEW s, ZOK(s), NEW e \in ShmemAddr, e + 3 \in ShmemAddr, NEW v \in SVal, 2 \in Level
  PROVE  Changed(s, zsm_write32(s, e, v), Span(e, 4), Const(v))
<1>0. e \in Nat /\ 2 \in Nat /\ 2 + 2 = 4 /\ 1 \in Level
  BY AddrFacts, Sizes
<1>3. e + 1 \in ShmemAddr /\ e + 2 \in ShmemAddr /\ (e + 2) + 1 \in ShmemAddr
  <2>1. e + 3 \in 0 .. NLine * W - 1 /\ NLine * W \in Int
    BY Sizes DEF ShmemAddr
  <2> QED BY <1>0, <2>1 DEF ShmemAddr
<1>1. CASE e % 4 # 0
  <2>1. PICK u, r, g : u = zsm_write16(s, e, v) /\ r = zsm_write16(u, e + 2, v) /\ g = Const(v)
    OBVIOUS
  <2>2. Changed(s, u, Span(e, 2), g) /\ g \in [SVal -> SVal]
    BY <1>0, <1>3, <2>1, Write16, ConstType
  <2>3. ZOK(u)
    BY <2>2 DEF Changed
  <2>4. Changed(u, r, Span(e + 2, 2), g)
    BY <1>0, <1>3, <2>1, <2>3, Write16
  <2>6. Changed(s, r, Span(e, 4), g)
    BY <1>0, <2>2, <2>4, ChangedHalves
  <2> QED BY <1>1, <2>1, <2>6 DEF zsm_write32
<1>2. CASE e % 4 = 0
  <2>1. e % 2^2 = 0
    BY <1>2, Twos
  <2> QED BY <1>2, <2>1, AlignedWrite, Twos DEF zsm_write32
<1> QED BY <1>1, <1>2

LEMMA Write64 ==
  ASSUME NEW s, ZOK(s), NEW e \in ShmemAddr, e + 7 \in ShmemAddr, NEW v \in SVal, 3 \in Level
  PROVE  Changed(s, zsm_write64(s, e, v), Span(e, 8), Const(v))
<1>0. e \in Nat /\ 4 \in Nat /\ 4 + 4 = 8 /\ 2 \in Level
  BY AddrFacts, Sizes
<1>3. e + 3 \in ShmemAddr /\ e + 4 \in ShmemAddr /\ (e + 4) + 3 \in ShmemAddr
  <2>1. e + 7 \in 0 .. NLine * W - 1 /\ NLine * W \in Int
    BY Sizes DEF ShmemAddr
  <2> QED BY <1>0, <2>1 DEF ShmemAddr
<1>1. CASE e % 8 # 0
  <2>1. PICK u, r, g : u = zsm_write32(s, e, v) /\ r = zsm_write32(u, e + 4, v) /\ g = Const(v)
    OBVIOUS
  <2>2. Changed(s, u, Span(e, 4), g) /\ g \in [SVal -> SVal]
    BY <1>0, <1>3, <2>1, Write32, ConstType
  <2>3. ZOK(u)
    BY <2>2 DEF Changed
  <2>4. Changed(u, r, Span(e + 4, 4), g)
    BY <1>0, <1>3, <2>1, <2>3, Write32
  <2>6. Changed(s, r, Span(e, 8), g)
    BY <1>0, <2>2, <2>4, ChangedHalves
  <2> QED BY <1>1, <2>1, <2>6 DEF zsm_write64
<1>2. CASE e % 8 = 0
  <2>1. e % 2^3 = 0
    BY <1>2, Twos
  <2> QED BY <1>2, <2>1, AlignedWrite, Twos DEF zsm_write64
<1> QED BY <1>1, <1>2

\* A write gives the bytes it names one value.
LEMMA SizedWrite ==
  ASSUME NEW s, ZOK(s), NEW k \in Level, NEW e \in ShmemAddr, e + 2^k - 1 \in ShmemAddr,
         NEW v \in SVal
  PROVE  Changed(s, zsm_write(s, k, e, v), Span(e, 2^k), Const(v))
<1>1. k = 0 \/ k = 1 \/ k = 2 \/ k = 3
  BY Sizes
<1>2. e \in Nat
  BY AddrFacts
<1>3. CASE k = 0
  BY <1>3, Write8, Twos DEF zsm_write
<1>4. CASE k = 1
  <2>1. e + 1 \in ShmemAddr /\ zsm_write(s, k, e, v) = zsm_write16(s, e, v)
    BY <1>2, <1>4, Twos DEF zsm_write
  <2> QED BY <1>4, <2>1, Write16, Twos
<1>5. CASE k = 2
  <2>1. e + 3 \in ShmemAddr /\ zsm_write(s, k, e, v) = zsm_write32(s, e, v)
    BY <1>2, <1>5, Twos DEF zsm_write
  <2> QED BY <1>5, <2>1, Write32, Twos
<1>6. CASE k = 3
  <2>1. e + 7 \in ShmemAddr /\ zsm_write(s, k, e, v) = zsm_write64(s, e, v)
    BY <1>2, <1>6, Twos DEF zsm_write
  <2> QED BY <1>6, <2>1, Write64, Twos
<1> QED BY <1>1, <1>3, <1>4, <1>5, <1>6

----------------------------------------------------------------------------
(* Zsm: ranges *)

\* There is a largest aligned piece.
LEMMA PieceFacts ==
  ASSUME NEW e \in Nat, NEW n \in Nat, n > 0
  PROVE  /\ PieceLevel(e, n) \in Level /\ e % 2^PieceLevel(e, n) = 0
         /\ 2^PieceLevel(e, n) <= n /\ 2^PieceLevel(e, n) \in Nat /\ 2^PieceLevel(e, n) > 0
<1> DEFINE Fit(k) == e % 2^k = 0 /\ 2^k <= n
<1>1. Level = 0 .. Depth /\ Depth \in 1 .. 3
  BY Sizes
<1>2. Fit(0)
  BY Twos
<1>3. \E k \in Level : Fit(k) /\ \A j \in k + 1 .. Depth : ~Fit(j)
  <2> HIDE DEF Fit
  <2>1. CASE 3 \in Level /\ Fit(3)
    BY <1>1, <2>1
  <2>2. CASE 2 \in Level /\ Fit(2) /\ ~(3 \in Level /\ Fit(3))
    BY <1>1, <2>2
  <2>3. CASE Fit(1) /\ ~(2 \in Level /\ Fit(2)) /\ ~(3 \in Level /\ Fit(3))
    BY <1>1, <2>3
  <2>4. CASE ~Fit(1) /\ ~(2 \in Level /\ Fit(2)) /\ ~(3 \in Level /\ Fit(3))
    BY <1>1, <1>2, <2>4
  <2> QED BY <2>1, <2>2, <2>3, <2>4
<1>4. \A j \in Level : 2^j \in Nat /\ 2^j > 0
  BY SizeFacts
<1>5. ASSUME NEW k \in Level, \A j \in k + 1 .. Depth : ~Fit(j)
      PROVE  \A j \in k + 1 .. Depth : e % 2^j # 0 \/ 2^j > n
  <2>1. \A j \in k + 1 .. Depth : j \in Level
    BY <1>1
  <2> QED BY <1>4, <1>5, <2>1
<1>6. \E k \in Level : /\ e % 2^k = 0 /\ 2^k <= n
                       /\ \A j \in k + 1 .. Depth : e % 2^j # 0 \/ 2^j > n
  BY <1>3, <1>5
<1>7. PICK k : k = PieceLevel(e, n)
  OBVIOUS
<1>8. k \in Level /\ e % 2^k = 0 /\ 2^k <= n
  BY <1>6, <1>7 DEF PieceLevel
<1> QED BY <1>4, <1>7, <1>8


GoodStates == {u \in ZStates : ZOK(u)}
PiecesUpTo(end) == {p \in [s : GoodStates, a : Nat] : p.a <= end}

\* One piece of a range is done, or the range is.
Piece(p, q, end, g) ==
  /\ q \in PiecesUpTo(end)
  /\ p.a = end => q = p
  /\ p.a # end => q.a > p.a /\ Changed(p.s, q.s, Span(p.a, q.a - p.a), g)

LEMMA PieceFits ==
  ASSUME NEW end \in Nat, end <= NLine * W, NEW p \in PiecesUpTo(end), p.a # end,
         NEW k, k = PieceLevel(p.a, end - p.a)
  PROVE  /\ ZOK(p.s) /\ k \in Level /\ p.a \in ShmemAddr /\ p.a + 2^k - 1 \in ShmemAddr
         /\ p.a + 2^k \in Nat /\ p.a + 2^k <= end /\ p.a + 2^k > p.a
         /\ (p.a + 2^k) - p.a = 2^k
<1>1. ZOK(p.s) /\ p.a \in Nat /\ p.a <= end
  BY DEF PiecesUpTo, GoodStates
<1>2. end - p.a \in Nat /\ end - p.a > 0
  BY <1>1
<1>3. PICK x : x = 2^k
  OBVIOUS
<1>4. k \in Level /\ x <= end - p.a /\ x \in Nat /\ x > 0
  BY <1>1, <1>2, <1>3, PieceFacts
<1>5. NLine * W \in Nat
  BY Sizes
<1>6. PICK y : y = NLine * W
  OBVIOUS
<1>7. p.a \in 0 .. y - 1 /\ p.a + x - 1 \in 0 .. y - 1
  BY <1>1, <1>4, <1>5, <1>6
<1>8. p.a + x \in Nat /\ p.a + x <= end /\ p.a + x > p.a /\ (p.a + x) - p.a = x
  BY <1>1, <1>4
<1> QED BY <1>1, <1>3, <1>4, <1>6, <1>7, <1>8 DEF ShmemAddr

LEMMA PieceDone ==
  ASSUME NEW end \in Nat, end <= NLine * W, NEW p \in PiecesUpTo(end), NEW g, NEW q,
         p.a = end => q = p,
         p.a # end => LET k == PieceLevel(p.a, end - p.a)
                      IN q = At(q.s, p.a + 2^k) /\ Changed(p.s, q.s, Span(p.a, 2^k), g)
  PROVE  Piece(p, q, end, g)
<1>1. CASE p.a = end
  BY <1>1 DEF Piece
<1>2. CASE p.a # end
  <2>1. PICK k : k = PieceLevel(p.a, end - p.a)
    OBVIOUS
  <2>2. PICK y : y = p.a + 2^k
    OBVIOUS
  <2>3. y \in Nat /\ y <= end /\ y > p.a /\ y - p.a = 2^k
    BY <1>2, <2>1, <2>2, PieceFits
  <2>4. q = [s |-> q.s, a |-> y] /\ Changed(p.s, q.s, Span(p.a, 2^k), g)
    BY <1>2, <2>1, <2>2 DEF At
  <2>5. q.s \in GoodStates
    BY <2>4 DEF Changed, GoodStates, ZOK, StoreOK
  <2>6. q.a = y
    BY <2>4
  <2>7. q \in PiecesUpTo(end)
    BY <2>3, <2>4, <2>5 DEF PiecesUpTo
  <2> QED BY <1>2, <2>3, <2>4, <2>6, <2>7 DEF Piece
<1> QED BY <1>1, <1>2

LEMMA ApplyPieceLemma ==
  ASSUME NEW end \in Nat, end <= NLine * W, NEW p \in PiecesUpTo(end), NEW g \in [SVal -> SVal]
  PROVE  Piece(p, ApplyPiece(p, end, g), end, g)
<1>1. PICK k : k = PieceLevel(p.a, end - p.a)
  OBVIOUS
<1>2. PICK q : q = ApplyPiece(p, end, g)
  OBVIOUS
<1>3. p.a = end => q = p
  BY <1>2 DEF ApplyPiece
<1>4. ASSUME p.a # end PROVE q = At(q.s, p.a + 2^k) /\ Changed(p.s, q.s, Span(p.a, 2^k), g)
  <2>1. q = At(zsm_apply(p.s, k, p.a, g), p.a + 2^k)
    BY <1>1, <1>2, <1>4 DEF ApplyPiece
  <2>2. q.s = zsm_apply(p.s, k, p.a, g)
    BY <2>1 DEF At
  <2>3. ZOK(p.s) /\ k \in Level /\ p.a \in ShmemAddr /\ p.a + 2^k - 1 \in ShmemAddr
    BY <1>1, <1>4, PieceFits
  <2>4. Changed(p.s, q.s, Span(p.a, 2^k), g)
    BY <2>2, <2>3, SizedApply
  <2> QED BY <2>1, <2>2, <2>4
<1> QED BY <1>1, <1>2, <1>3, <1>4, PieceDone

LEMMA SetPieceLemma ==
  ASSUME NEW end \in Nat, end <= NLine * W, NEW p \in PiecesUpTo(end), NEW v \in SVal
  PROVE  Piece(p, SetPiece(p, end, v), end, Const(v))
<1>1. PICK k : k = PieceLevel(p.a, end - p.a)
  OBVIOUS
<1>2. PICK q, g : q = SetPiece(p, end, v) /\ g = Const(v)
  OBVIOUS
<1>3. p.a = end => q = p
  BY <1>2 DEF SetPiece
<1>4. ASSUME p.a # end PROVE q = At(q.s, p.a + 2^k) /\ Changed(p.s, q.s, Span(p.a, 2^k), g)
  <2>1. q = At(zsm_write(p.s, k, p.a, v), p.a + 2^k)
    BY <1>1, <1>2, <1>4 DEF SetPiece
  <2>2. q.s = zsm_write(p.s, k, p.a, v)
    BY <2>1 DEF At
  <2>3. ZOK(p.s) /\ k \in Level /\ p.a \in ShmemAddr /\ p.a + 2^k - 1 \in ShmemAddr
    BY <1>1, <1>4, PieceFits
  <2>4. Changed(p.s, q.s, Span(p.a, 2^k), g)
    BY <1>2, <2>2, <2>3, SizedWrite
  <2> QED BY <2>1, <2>2, <2>4
<1> QED BY <1>1, <1>2, <1>3, <1>4, PieceDone

\* As many pieces as there are bytes are enough.
LEMMA PiecesMakeRange ==
  ASSUME NEW s, ZOK(s), NEW e \in Nat, NEW n \in Nat, e + n <= NLine * W, NEW g \in [SVal -> SVal],
         NEW f, f[0] = At(s, e), \A k \in 1 .. n : f[k - 1] \in PiecesUpTo(e + n) =>
                                                    Piece(f[k - 1], f[k], e + n, g)
  PROVE  Changed(s, f[n].s, Span(e, n), g)
<1> DEFINE P == {k \in 0 .. n : /\ f[k] \in PiecesUpTo(e + n) /\ f[k].a >= e
                                /\ f[k].a >= e + k \/ f[k].a = e + n
                                /\ Changed(s, f[k].s, Span(e, f[k].a - e), g)}
<1>1. 0 \in P
  <2>1. f[0].s = s /\ f[0].a = e
    BY DEF At
  <2>2. f[0] \in PiecesUpTo(e + n)
    <3>1. s \in GoodStates
      BY DEF GoodStates, ZOK, StoreOK
    <3> QED BY <3>1 DEF At, PiecesUpTo
  <2>3. Span(e, e - e) = {}
    BY DEF Span
  <2>4. Changed(s, s, Span(e, e - e), g)
    BY <2>3 DEF Changed
  <2> QED BY <2>1, <2>2, <2>4
<1>2. ASSUME NEW k \in 1 .. n, k - 1 \in P PROVE k \in P
  <2>1. PICK p, q : p = f[k - 1] /\ q = f[k]
    OBVIOUS
  <2>2. /\ p \in PiecesUpTo(e + n) /\ p.a >= e /\ (p.a >= e + (k - 1) \/ p.a = e + n)
        /\ Changed(s, p.s, Span(e, p.a - e), g)
    BY <1>2, <2>1
  <2>3. Piece(p, q, e + n, g)
    BY <2>1, <2>2
  <2>4. p.a \in Nat /\ p.a <= e + n /\ q.a \in Nat /\ q.a <= e + n /\ q \in PiecesUpTo(e + n)
    BY <2>2, <2>3 DEF PiecesUpTo, Piece
  <2>5. CASE p.a = e + n
    BY <2>1, <2>2, <2>3, <2>4, <2>5 DEF Piece
  <2>6. CASE p.a # e + n
    <3>1. q.a > p.a /\ Changed(p.s, q.s, Span(p.a, q.a - p.a), g)
      BY <2>3, <2>6 DEF Piece
    <3>2. PICK x, y : x = p.a - e /\ y = q.a - p.a
      OBVIOUS
    <3>3. x \in Nat /\ y \in Nat /\ e + x = p.a /\ x + y = q.a - e
      BY <2>2, <2>4, <3>1, <3>2
    <3>4. Changed(s, p.s, Span(e, x), g) /\ Changed(p.s, q.s, Span(e + x, y), g)
      BY <2>2, <3>1, <3>2, <3>3
    <3>5. Changed(s, q.s, Span(e, x + y), g)
      BY <3>3, <3>4, ChangedHalves, Zenon
    <3>6. q.a >= e /\ (q.a >= e + k \/ q.a = e + n)
      BY <2>2, <2>4, <2>6, <3>1
    <3> QED BY <2>1, <2>4, <3>3, <3>5, <3>6
  <2> QED BY <2>5, <2>6
<1>3. n \in P
  <2> HIDE DEF P
  <2>1. \A k \in 0 .. n : k \in P
    BY <1>1, <1>2, Induct
  <2> QED BY <2>1
<1>4. f[n].a = e + n /\ (e + n) - e = n
  <2>1. f[n].a \in Nat /\ f[n].a <= e + n
    BY <1>3 DEF PiecesUpTo
  <2> QED BY <1>3, <2>1
<1> QED BY <1>3, <1>4


\* An access to a range maps its bytes.
LEMMA ApplyRangeLemma ==
  ASSUME NEW s, ZOK(s), NEW e \in Nat, NEW n \in Nat, e + n <= NLine * W, NEW g \in [SVal -> SVal]
  PROVE  Changed(s, zsm_apply_range(s, e, n, g), Span(e, n), g)
<1> DEFINE One(p) == ApplyPiece(p, e + n, g)
<1>1. PICK S : S = PiecesUpTo(e + n)
  OBVIOUS
<1>2. \A p \in S : Piece(p, One(p), e + n, g) /\ One(p) \in S
  BY <1>1, ApplyPieceLemma DEF Piece
<1>3. At(s, e) \in S
  <2>1. s \in GoodStates
    BY DEF GoodStates, ZOK, StoreOK
  <2> QED BY <1>1, <2>1 DEF At, PiecesUpTo
<1> HIDE DEF One
<1>4. PICK F : F = [p \in S \X (1 .. n) |-> One(p[1])]
  OBVIOUS
<1>5. F \in [S \X (1 .. n) -> S] /\ \A p \in S, k \in 1 .. n : F[<<p, k>>] = One(p)
  BY <1>2, <1>4
<1>6. PICK h : IsChain(h, F, n, S, At(s, e))
  BY <1>3, <1>5, ChainOf, Zenon
<1>7. h = [m \in 0 .. n |-> IF m = 0 THEN At(s, e) ELSE One(h[m - 1])]
  <2>1. ASSUME NEW m \in 0 .. n PROVE h[m] = IF m = 0 THEN At(s, e) ELSE One(h[m - 1])
    <3>1. CASE m = 0
      BY <1>6, <3>1 DEF IsChain
    <3>2. CASE m # 0
      <4>1. m \in 1 .. n /\ m - 1 \in 0 .. n
        BY <3>2
      <4>2. h[m - 1] \in S /\ h[m] = F[<<h[m - 1], m>>]
        BY <1>6, <4>1 DEF IsChain
      <4> QED BY <1>5, <3>2, <4>1, <4>2
    <3> QED BY <3>1, <3>2
  <2> QED BY <1>6, <2>1 DEF IsChain
<1>8. PICK f : /\ f = [m \in 0 .. n |-> IF m = 0 THEN At(s, e) ELSE One(f[m - 1])]
               /\ zsm_apply_range(s, e, n, g) = f[n].s
  BY <1>7, Zenon DEF zsm_apply_range, One
<1>9. f[0] = At(s, e) /\ \A k \in 1 .. n : f[k] = One(f[k - 1])
  BY <1>8
<1>10. \A k \in 1 .. n : f[k - 1] \in PiecesUpTo(e + n) => Piece(f[k - 1], f[k], e + n, g)
  BY <1>1, <1>2, <1>9
<1>11. PICK y : y = g /\ y \in [SVal -> SVal]
  BY ConstType
<1>12. Changed(s, f[n].s, Span(e, n), y)
  BY <1>9, <1>10, <1>11, PiecesMakeRange
<1> QED BY <1>8, <1>11, <1>12

\* Setting a short range gives its bytes one value.
LEMMA SetRangeLemma ==
  ASSUME NEW s, ZOK(s), NEW e \in Nat, NEW n \in Nat, e + n <= NLine * W, NEW v \in SVal
  PROVE  Changed(s, zsm_set_range_SMALL(s, e, n, v), Span(e, n), Const(v))
<1> DEFINE One(p) == SetPiece(p, e + n, v)
<1>1. PICK S : S = PiecesUpTo(e + n)
  OBVIOUS
<1>2. \A p \in S : Piece(p, One(p), e + n, Const(v)) /\ One(p) \in S
  BY <1>1, SetPieceLemma DEF Piece
<1>3. At(s, e) \in S
  <2>1. s \in GoodStates
    BY DEF GoodStates, ZOK, StoreOK
  <2> QED BY <1>1, <2>1 DEF At, PiecesUpTo
<1> HIDE DEF One
<1>4. PICK F : F = [p \in S \X (1 .. n) |-> One(p[1])]
  OBVIOUS
<1>5. F \in [S \X (1 .. n) -> S] /\ \A p \in S, k \in 1 .. n : F[<<p, k>>] = One(p)
  BY <1>2, <1>4
<1>6. PICK h : IsChain(h, F, n, S, At(s, e))
  BY <1>3, <1>5, ChainOf, Zenon
<1>7. h = [m \in 0 .. n |-> IF m = 0 THEN At(s, e) ELSE One(h[m - 1])]
  <2>1. ASSUME NEW m \in 0 .. n PROVE h[m] = IF m = 0 THEN At(s, e) ELSE One(h[m - 1])
    <3>1. CASE m = 0
      BY <1>6, <3>1 DEF IsChain
    <3>2. CASE m # 0
      <4>1. m \in 1 .. n /\ m - 1 \in 0 .. n
        BY <3>2
      <4>2. h[m - 1] \in S /\ h[m] = F[<<h[m - 1], m>>]
        BY <1>6, <4>1 DEF IsChain
      <4> QED BY <1>5, <3>2, <4>1, <4>2
    <3> QED BY <3>1, <3>2
  <2> QED BY <1>6, <2>1 DEF IsChain
<1>8. PICK f : /\ f = [m \in 0 .. n |-> IF m = 0 THEN At(s, e) ELSE One(f[m - 1])]
               /\ zsm_set_range_SMALL(s, e, n, v) = f[n].s
  BY <1>7, Zenon DEF zsm_set_range_SMALL, One
<1>9. f[0] = At(s, e) /\ \A k \in 1 .. n : f[k] = One(f[k - 1])
  BY <1>8
<1>10. \A k \in 1 .. n : f[k - 1] \in PiecesUpTo(e + n) => Piece(f[k - 1], f[k], e + n, Const(v))
  BY <1>1, <1>2, <1>9
<1>11. PICK y : y = Const(v) /\ y \in [SVal -> SVal]
  BY ConstType
<1>12. Changed(s, f[n].s, Span(e, n), y)
  BY <1>9, <1>10, <1>11, PiecesMakeRange
<1> QED BY <1>8, <1>11, <1>12


LEMMA LineSpan ==
  ASSUME NEW l \in Line
  PROVE  /\ l * W \in ShmemAddr /\ l * W + W - 1 \in ShmemAddr
         /\ \A z \in ShmemAddr : z \in Span(l * W, W) <=> z \div W = l
<1>1. W \in {2, 4, 8} /\ NLine \in Nat /\ l \in Nat /\ l < NLine
  <2>1. W \in {2, 4, 8}
    BY Sizes DEF Sized
  <2> QED BY <2>1, Sizes DEF Line
<1>2. \A z \in ShmemAddr : z \in Nat
  BY AddrFacts
<1>3. CASE W = 2
  <2>1. l * 2 \in 0 .. NLine * 2 - 1 /\ l * 2 + 2 - 1 \in 0 .. NLine * 2 - 1
    BY <1>1
  <2>2. \A z \in Nat : z \in l * 2 .. l * 2 + 2 - 1 <=> z \div 2 = l
    BY <1>1
  <2> QED BY <1>2, <1>3, <2>1, <2>2 DEF ShmemAddr, Span
<1>4. CASE W = 4
  <2>1. l * 4 \in 0 .. NLine * 4 - 1 /\ l * 4 + 4 - 1 \in 0 .. NLine * 4 - 1
    BY <1>1
  <2>2. \A z \in Nat : z \in l * 4 .. l * 4 + 4 - 1 <=> z \div 4 = l
    BY <1>1
  <2> QED BY <1>2, <1>4, <2>1, <2>2 DEF ShmemAddr, Span
<1>5. CASE W = 8
  <2>1. l * 8 \in 0 .. NLine * 8 - 1 /\ l * 8 + 8 - 1 \in 0 .. NLine * 8 - 1
    BY <1>1
  <2>2. \A z \in Nat : z \in l * 8 .. l * 8 + 8 - 1 <=> z \div 8 = l
    BY <1>1
  <2> QED BY <1>2, <1>5, <2>1, <2>2 DEF ShmemAddr, Span
<1> QED BY <1>1, <1>3, <1>4, <1>5

\* The lines in M, and no others.
BytesOfLines(M) == {z \in ShmemAddr : z \div W \in M}

\* One line is set, in the cache or past it.
LEMMA SetLineLemma ==
  ASSUME NEW s, ZOK(s), NEW l \in Line, NEW v \in SVal
  PROVE  Changed(s, SetLine(s, l, v), BytesOfLines({l}), Const(v))
<1>1. l * W \in ShmemAddr /\ l * W + W - 1 \in ShmemAddr
  BY LineSpan
<1>2. \A z \in ShmemAddr : z \in Span(l * W, W) <=> z \in BytesOfLines({l})
  BY LineSpan DEF BytesOfLines
<1>3. PICK r : r = SetLine(s, l, v)
  OBVIOUS
<1>4. CASE s.tags[l % NWay] = l
  <2>1. Depth \in Level /\ 2^Depth = W
    BY Sizes DEF W
  <2>2. r = zsm_write(s, Depth, l * W, v)
    BY <1>3, <1>4 DEF SetLine
  <2>3. l * W + 2^Depth - 1 \in ShmemAddr
    BY <1>1, <2>1, Zenon
  <2>4. Changed(s, r, Span(l * W, 2^Depth), Const(v))
    BY <1>1, <2>1, <2>2, <2>3, SizedWrite
  <2>5. Changed(s, r, Span(l * W, W), Const(v))
    BY <2>1, <2>4, Zenon
  <2> QED BY <1>2, <1>3, <2>5 DEF Changed
<1>5. CASE s.tags[l % NWay] # l
  <2>1. PICK f \in Contents : f = [o \in Off |-> v]
    BY DEF Contents
  <2>2. PICK u : u = [find_Z_for_writing(s, l) EXCEPT !.linesZ[l] = LineZ(f)]
    OBVIOUS
  <2>3. StoreOK(s) /\ CacheOK(s)
    BY DEF ZOK
  <2>4. Placed(s, l, f, u)
    BY <2>2, <2>3, PlacedZ
  <2>5. r = Counted(u, l, 1)
    BY <1>3, <1>5, <2>1, <2>2 DEF SetLine, AllSame
  <2>6. Overwritten(s, l, f, r)
    BY <2>3, <2>4, <2>5, CountedUp
  <2>7. /\ StoreOK(r) /\ r.tags = s.tags /\ r.lyns = s.lyns /\ Stored(r, l) = f
        /\ \A m \in Line : m # l => Stored(r, m) = Stored(s, m)
    BY <2>6 DEF Overwritten
  <2>8. ZOK(r)
    BY <2>3, <2>7 DEF ZOK, CacheOK
  <2>9. LineOf(r, l) = f /\ \A m \in Line : m # l => LineOf(r, m) = LineOf(s, m)
    BY <1>5, <2>7 DEF LineOf
  <2>10. ASSUME NEW z \in ShmemAddr
         PROVE  ByteOf(r, z) = IF z \in BytesOfLines({l}) THEN Const(v)[ByteOf(s, z)] ELSE ByteOf(s, z)
    <3>1. z \div W \in Line /\ z % W \in Off /\ ByteOf(s, z) \in SVal
      BY AddrFacts, ByteOfType
    <3>2. CASE z \div W = l
      <4>1. ByteOf(r, z) = v
        BY <2>1, <2>9, <3>1, <3>2 DEF ByteOf
      <4>2. Const(v)[ByteOf(s, z)] = v
        BY <3>1 DEF Const
      <4> QED BY <3>2, <4>1, <4>2 DEF BytesOfLines
    <3>3. CASE z \div W # l
      BY <2>9, <3>1, <3>3 DEF ByteOf, BytesOfLines
    <3> QED BY <3>2, <3>3
  <2> QED BY <1>3, <2>8, <2>10 DEF Changed
<1> QED BY <1>4, <1>5

LEMMA SetLinesLemma ==
  ASSUME NEW s, ZOK(s), NEW i \in Nat, NEW j \in Nat, NEW v \in SVal
  PROVE  Changed(s, SetLines(s, i, j, v), BytesOfLines(i .. j - 1), Const(v))
<1> DEFINE One(u, n) == IF n - 1 \in i .. j - 1 THEN SetLine(u, n - 1, v) ELSE u
           Done(n) == BytesOfLines({l \in i .. j - 1 : l < n})
<1>1. NLine \in Nat /\ Line = 0 .. NLine - 1
  BY Sizes DEF Line
<1>2. \A m \in 1 .. NLine : m - 1 \in Line
  BY <1>1
<1>3. PICK g \in [SVal -> SVal] : g = Const(v)
  BY ConstType
<1>4. ASSUME NEW u, ZOK(u), NEW m \in 1 .. NLine
      PROVE  Changed(u, One(u, m), BytesOfLines({l \in {m - 1} : l \in i .. j - 1}), g)
  <2>1. CASE m - 1 \in i .. j - 1
    <3>1. Changed(u, SetLine(u, m - 1, v), BytesOfLines({m - 1}), g)
      BY <1>2, <1>3, <1>4, SetLineLemma
    <3>2. {l \in {m - 1} : l \in i .. j - 1} = {m - 1}
      BY <2>1
    <3> QED BY <2>1, <3>1, <3>2
  <2>2. CASE m - 1 \notin i .. j - 1
    <3>1. BytesOfLines({l \in {m - 1} : l \in i .. j - 1}) = {}
      BY <2>2 DEF BytesOfLines
    <3> QED BY <1>4, <2>2, <3>1 DEF Changed
  <2> QED BY <2>1, <2>2
<1>5. \A u \in GoodStates, m \in 1 .. NLine : One(u, m) \in GoodStates
  BY <1>4 DEF GoodStates, Changed, ZOK, StoreOK
<1>6. s \in GoodStates
  BY DEF GoodStates, ZOK, StoreOK
<1> HIDE DEF One
<1>7. PICK F : F = [p \in GoodStates \X (1 .. NLine) |-> One(p[1], p[2])]
  OBVIOUS
<1>8. /\ F \in [GoodStates \X (1 .. NLine) -> GoodStates]
      /\ \A p \in GoodStates, k \in 1 .. NLine : F[<<p, k>>] = One(p, k)
  BY <1>5, <1>7
<1>9. PICK h : IsChain(h, F, NLine, GoodStates, s)
  BY <1>1, <1>6, <1>8, ChainOf, Zenon
<1>10. h = [m \in 0 .. NLine |-> IF m = 0 THEN s ELSE One(h[m - 1], m)]
  <2>1. ASSUME NEW m \in 0 .. NLine PROVE h[m] = IF m = 0 THEN s ELSE One(h[m - 1], m)
    <3>1. CASE m = 0
      BY <1>9, <3>1 DEF IsChain
    <3>2. CASE m # 0
      <4>1. m \in 1 .. NLine /\ m - 1 \in 0 .. NLine
        BY <1>1, <3>2
      <4>2. h[m - 1] \in GoodStates /\ h[m] = F[<<h[m - 1], m>>]
        BY <1>9, <4>1 DEF IsChain
      <4> QED BY <1>8, <3>2, <4>1, <4>2
    <3> QED BY <3>1, <3>2
  <2> QED BY <1>9, <2>1 DEF IsChain
<1>11. PICK f : /\ f = [m \in 0 .. NLine |-> IF m = 0 THEN s ELSE One(f[m - 1], m)]
                /\ SetLines(s, i, j, v) = f[NLine]
  BY <1>10, Zenon DEF SetLines, One
<1>12. f[0] = s /\ \A k \in 1 .. NLine : f[k] = One(f[k - 1], k)
  BY <1>1, <1>11
<1> DEFINE P == {k \in 0 .. NLine : Changed(s, f[k], Done(k), g)}
<1>13. 0 \in P
  <2>1. Done(0) = {}
    BY DEF BytesOfLines
  <2>2. Changed(s, f[0], Done(0), g)
    BY <1>12, <2>1 DEF Changed
  <2> QED BY <1>1, <2>2
<1>14. ASSUME NEW k \in 1 .. NLine, k - 1 \in P PROVE k \in P
  <2>1. Changed(s, f[k - 1], Done(k - 1), g)
    BY <1>14
  <2>2. ZOK(f[k - 1])
    BY <2>1 DEF Changed
  <2>3. PICK E : E = BytesOfLines({l \in {k - 1} : l \in i .. j - 1})
    OBVIOUS
  <2>4. Changed(f[k - 1], f[k], E, g)
    BY <1>4, <1>12, <2>2, <2>3
  <2>5. ASSUME NEW z \in ShmemAddr
        PROVE  /\ z \in Done(k) <=> z \in Done(k - 1) \/ z \in E
               /\ ~(z \in Done(k - 1) /\ z \in E)
    <3>1. z \div W \in Nat /\ k \in Nat
      BY <1>1, AddrFacts
    <3> QED BY <2>3, <3>1 DEF BytesOfLines
  <2> HIDE DEF Done
  <2>6. Changed(s, f[k], Done(k), g)
    BY <2>1, <2>4, <2>5, ChangedTwice
  <2> QED BY <2>6
<1>15. Changed(s, f[NLine], Done(NLine), g)
  <2> HIDE DEF P
  <2>1. \A k \in 0 .. NLine : k \in P
    BY <1>1, <1>13, <1>14, Induct
  <2> QED BY <1>1, <2>1 DEF P
<1>16. \A z \in ShmemAddr : z \in Done(NLine) <=> z \in BytesOfLines(i .. j - 1)
  <2>1. \A z \in ShmemAddr : z \div W \in Nat /\ z \div W < NLine
    BY <1>1, AddrFacts
  <2> QED BY <2>1 DEF BytesOfLines
<1> QED BY <1>3, <1>11, <1>15, <1>16 DEF Changed


\* A range of two lines or more: a first part, whole lines, a last part.
RangeCut(x, e, end, i, j) ==
  /\ i \in Nat /\ j \in Nat /\ i * x \in Nat /\ j * x \in Nat
  /\ e <= i * x /\ i * x <= j * x /\ j * x <= end
  /\ (i * x) \div x = i /\ (j * x) \div x = j
  /\ \A z \in Nat : z \div x \in i .. j - 1 <=> i * x <= z /\ z < j * x

LEMMA RangeCutFacts ==
  ASSUME NEW x \in {2, 4, 8}, NEW e \in Nat, NEW end \in Nat, end - e >= 2 * x
  PROVE  RangeCut(x, e, end, (e + x - 1) \div x, end \div x)
<1>1. CASE x = 2
  BY <1>1 DEF RangeCut
<1>2. CASE x = 4
  BY <1>2 DEF RangeCut
<1>3. CASE x = 8
  BY <1>3 DEF RangeCut
<1> QED BY <1>1, <1>2, <1>3

\* Setting a range gives its bytes one value.
LEMMA SetLongRange ==
  ASSUME NEW s, ZOK(s), NEW e \in Nat, NEW n \in Nat, e + n <= NLine * W, NEW v \in SVal
  PROVE  Changed(s, zsm_set_range(s, e, n, v), Span(e, n), Const(v))
<1>0. W \in {2, 4, 8} /\ NLine * W \in Nat
  BY Sizes DEF Sized
<1>1. CASE n < 2 * W
  BY <1>1, SetRangeLemma DEF zsm_set_range
<1>2. CASE ~(n < 2 * W)
  <2>1. PICK i, j, end : i = (e + W - 1) \div W /\ j = end \div W /\ end = e + n
    OBVIOUS
  <2>2. end \in Nat /\ end - e >= 2 * W /\ end - e = n
    BY <1>0, <1>2, <2>1
  <2>3. RangeCut(W, e, end, i, j)
    BY <1>0, <2>1, <2>2, RangeCutFacts
  <2>4. PICK lo, hi : lo = i * W /\ hi = j * W
    OBVIOUS
  <2>5. /\ lo \in Nat /\ hi \in Nat /\ e <= lo /\ lo <= hi /\ hi <= end /\ lo \div W = i /\ hi \div W = j
        /\ i \in Nat /\ j \in Nat
        /\ \A z \in Nat : z \div W \in i .. j - 1 <=> lo <= z /\ z < hi
    BY <2>3, <2>4 DEF RangeCut
  <2>6. /\ lo - e \in Nat /\ e + (lo - e) <= NLine * W
        /\ end - hi \in Nat /\ hi + (end - hi) <= NLine * W
    BY <1>0, <2>1, <2>5
  <2>7. PICK u, y, r, g :
          /\ u = zsm_set_range_SMALL(s, e, lo - e, v) /\ y = zsm_set_range_SMALL(u, hi, end - hi, v)
          /\ r = SetLines(y, i, j, v) /\ g = Const(v)
    OBVIOUS
  <2>8. zsm_set_range(s, e, n, v) = r
    <3>1. /\ lo = ((e + W - 1) \div W) * W /\ hi = ((e + n) \div W) * W /\ e + n - hi = end - hi
          /\ r = SetLines(y, lo \div W, hi \div W, v)
      BY <2>1, <2>4, <2>5, <2>7
    <3>2. u = zsm_set_range_SMALL(s, e, lo - e, v) /\ y = zsm_set_range_SMALL(u, hi, e + n - hi, v)
      BY <2>7, <3>1
    <3> QED BY <1>2, <3>1, <3>2 DEF zsm_set_range
  <2>9. g \in [SVal -> SVal] /\ Changed(s, u, Span(e, lo - e), g)
    BY <2>5, <2>6, <2>7, SetRangeLemma, ConstType
  <2>10. ZOK(u)
    BY <2>9 DEF Changed
  <2>11. Changed(u, y, Span(hi, end - hi), g)
    BY <2>5, <2>6, <2>7, <2>10, SetRangeLemma
  <2>12. ZOK(y)
    BY <2>11 DEF Changed
  <2>13. Changed(y, r, BytesOfLines(i .. j - 1), g)
    BY <2>5, <2>7, <2>12, SetLinesLemma
  <2>14. PICK C, D, E, G : /\ C = Span(e, lo - e) /\ D = Span(hi, end - hi) /\ E = BytesOfLines(i .. j - 1)
                           /\ G = C \cup D
    OBVIOUS
  <2>15. \A z \in ShmemAddr : z \in Nat
    BY AddrFacts
  <2>16. ASSUME NEW z \in ShmemAddr
         PROVE  /\ z \in Span(e, n) <=> z \in G \/ z \in E
                /\ ~(z \in G /\ z \in E) /\ ~(z \in C /\ z \in D)
    <3>1. z \in Nat
      BY <2>15
    <3>2. z \in C <=> e <= z /\ z < lo
      BY <2>5, <2>14, <3>1 DEF Span
    <3>3. z \in D <=> hi <= z /\ z < end
      BY <2>2, <2>5, <2>14, <3>1 DEF Span
    <3>4. z \in E <=> lo <= z /\ z < hi
      BY <2>5, <2>14, <3>1 DEF BytesOfLines
    <3>5. z \in Span(e, n) <=> e <= z /\ z < end
      BY <2>1, <3>1 DEF Span
    <3> QED BY <2>2, <2>5, <2>14, <3>1, <3>2, <3>3, <3>4, <3>5
  <2>17. Changed(s, y, G, g)
    <3>1. Changed(s, u, C, g) /\ Changed(u, y, D, g)
      BY <2>9, <2>11, <2>14
    <3>2. \A z \in ShmemAddr : z \in G <=> z \in C \/ z \in D
      BY <2>14
    <3>3. \A z \in ShmemAddr : ~(z \in C /\ z \in D)
      BY <2>16
    <3> QED BY <2>9, <3>1, <3>2, <3>3, ChangedTwice, Zenon
  <2>18. Changed(s, r, Span(e, n), g)
    <3>1. Changed(y, r, E, g)
      BY <2>13, <2>14
    <3>2. \A z \in ShmemAddr : z \in Span(e, n) <=> z \in G \/ z \in E
      BY <2>16
    <3>3. \A z \in ShmemAddr : ~(z \in G /\ z \in E)
      BY <2>16
    <3> QED BY <2>9, <2>17, <3>1, <3>2, <3>3, ChangedTwice, Zenon
  <2> QED BY <2>7, <2>8, <2>18
<1> QED BY <1>1, <1>2

----------------------------------------------------------------------------
(* Zsm: copies and write-backs *)

LEMMA ReadLemma ==
  ASSUME NEW s, ZOK(s), NEW e \in ShmemAddr
  PROVE  LET r == zsm_read8(s, e) IN
         /\ ZOK(r) /\ Value8(r, e) = ByteOf(s, e) /\ \A z \in ShmemAddr : ByteOf(r, z) = ByteOf(s, z)
<1>1. PICK u : u = get_cacheline(s, e)
  OBVIOUS
<1>2. PICK w, t : w = WayOf(e) /\ t = u.lyns[w]
  OBVIOUS
<1>3. ZOK(u) /\ u.tags[w] = e \div W /\ TreeOK(t) /\ \A z \in ShmemAddr : ByteOf(u, z) = ByteOf(s, z)
  BY <1>1, <1>2, GotLine
<1>4. PICK o \in Off : o = e % W
  BY AddrFacts
<1>5. AtOrAbove(t, 0, o) /\ o % 2^0 = 0 /\ 0 \in Level
  BY <1>3, <1>4, ByteAtOrAbove
<1>6. PICK y : y = AtLevel(t, 0, o)
  OBVIOUS
<1>7. TreeOK(y) /\ (\A q \in Off : InTree(y, q) = InTree(t, q)) /\ <<0, o>> \in y.descr
  BY <1>3, <1>5, <1>6, PulledDown DEF SameTree
<1>8. PICK r : r = zsm_read8(s, e)
  OBVIOUS
<1>9. r = [u EXCEPT !.lyns[w] = y]
  BY <1>1, <1>2, <1>4, <1>6, <1>8 DEF zsm_read8
<1>10. PICK g : g = [c \in SVal |-> c]
  OBVIOUS
<1>11. \A q \in Off : InTree(y, q) = IF q \in Bytes(<<0, o>>) THEN g[InTree(t, q)] ELSE InTree(t, q)
  BY <1>3, <1>7, <1>10, InTreeType
<1>12. e % 2^0 = 0
  BY AddrFacts, Twos
<1>13. Changed(u, r, Span(e, 2^0), g)
  BY <1>2, <1>3, <1>4, <1>5, <1>7, <1>9, <1>11, <1>12, ChangedInLine
<1>14. ZOK(r) /\ \A z \in ShmemAddr : ByteOf(r, z) = ByteOf(s, z)
  <2>1. ASSUME NEW z \in ShmemAddr PROVE ByteOf(r, z) = ByteOf(u, z)
    <3>1. ByteOf(u, z) \in SVal
      BY <1>3, ByteOfType
    <3> QED BY <1>10, <1>13, <3>1 DEF Changed
  <2> QED BY <1>3, <1>13, <2>1 DEF Changed
<1>15. Value8(r, e) = ByteOf(s, e)
  <2>1. <<0, o>> \in Node /\ o \in Bytes(<<0, o>>)
    BY <1>5, IsNode, NodeFacts
  <2>2. InTree(y, o) = y.svals[o]
    BY <1>7, <2>1, InTreeAt
  <2>3. w \in Way /\ w = (e \div W) % NWay /\ e \div W \in Line
    BY <1>2, AddrFacts, WayFacts
  <2>4. u \in ZStates
    BY <1>3 DEF ZOK, StoreOK
  <2>5. r.lyns[w] = y
    BY <1>9, <2>3, <2>4 DEF ZStates
  <2>6. Value8(r, e) = InTree(t, o)
    BY <1>2, <1>4, <1>7, <2>2, <2>5 DEF Value8
  <2>7. ByteOf(u, e) = InTree(t, o)
    BY <1>2, <1>3, <1>4, <2>3, SequentialType DEF ByteOf, LineOf
  <2> QED BY <1>3, <2>6, <2>7
<1> QED BY <1>8, <1>14, <1>15

LEMMA CopyByte ==
  ASSUME NEW s, ZOK(s), NEW src \in ShmemAddr, NEW dst \in ShmemAddr
  PROVE  LET r == zsm_copy8(s, src, dst) IN
         ZOK(r) /\ \A z \in ShmemAddr : ByteOf(r, z) = IF z = dst THEN ByteOf(s, src) ELSE ByteOf(s, z)
<1>1. PICK u, v : u = zsm_read8(s, src) /\ v = Value8(u, src)
  OBVIOUS
<1>2. ZOK(u) /\ v = ByteOf(s, src) /\ \A z \in ShmemAddr : ByteOf(u, z) = ByteOf(s, z)
  BY <1>1, ReadLemma
<1>3. v \in SVal
  BY <1>2, ByteOfType
<1>4. PICK r : r = zsm_copy8(s, src, dst)
  OBVIOUS
<1>5. r = zsm_write8(u, dst, v)
  BY <1>1, <1>4 DEF zsm_copy8, WriteRead, zsm_write
<1>6. Changed(u, r, Span(dst, 1), Const(v))
  BY <1>2, <1>3, <1>5, Write8
<1>7. ASSUME NEW z \in ShmemAddr
      PROVE  ByteOf(r, z) = IF z = dst THEN ByteOf(s, src) ELSE ByteOf(s, z)
  <2>1. z \in Nat /\ dst \in Nat /\ ByteOf(u, z) \in SVal
    BY <1>2, AddrFacts, ByteOfType
  <2>2. z \in Span(dst, 1) <=> z = dst
    BY <2>1 DEF Span
  <2>3. Const(v)[ByteOf(u, z)] = v
    BY <2>1 DEF Const
  <2> QED BY <1>2, <1>6, <2>2, <2>3 DEF Changed
<1> QED BY <1>4, <1>6, <1>7 DEF Changed


\* The first n bytes from src are now also at dst.
Copied(s, r, src, dst, n) ==
  /\ ZOK(r)
  /\ \A z \in ShmemAddr : ByteOf(r, z) = IF z \in Span(dst, n) THEN ByteOf(s, z - dst + src) ELSE ByteOf(s, z)

LEMMA CopyLemma ==
  ASSUME NEW s, ZOK(s), NEW n \in Nat, NEW src \in Nat, NEW dst \in Nat,
         src + n <= NLine * W, dst + n <= NLine * W, src + n <= dst \/ dst + n <= src
  PROVE  Copied(s, zsm_copy_range(s, src, dst, n), src, dst, n)
<1> DEFINE One(u, k) == zsm_copy8(u, src + k - 1, dst + k - 1)
<1>1. \A k \in 1 .. n : src + k - 1 \in ShmemAddr /\ dst + k - 1 \in ShmemAddr
  <2>1. PICK y \in Nat : y = NLine * W
    BY Sizes
  <2>2. \A k \in 1 .. n : src + k - 1 \in 0 .. y - 1 /\ dst + k - 1 \in 0 .. y - 1
    BY <2>1
  <2> QED BY <2>1, <2>2 DEF ShmemAddr
<1>2. ASSUME NEW u, ZOK(u), NEW k \in 1 .. n
      PROVE  /\ ZOK(One(u, k))
             /\ \A z \in ShmemAddr : ByteOf(One(u, k), z) =
                  IF z = dst + k - 1 THEN ByteOf(u, src + k - 1) ELSE ByteOf(u, z)
  BY <1>1, <1>2, CopyByte
<1>3. \A u \in GoodStates, k \in 1 .. n : One(u, k) \in GoodStates
  BY <1>2 DEF GoodStates, ZOK, StoreOK
<1>4. s \in GoodStates
  BY DEF GoodStates, ZOK, StoreOK
<1> HIDE DEF One
<1>5. PICK F : F = [p \in GoodStates \X (1 .. n) |-> One(p[1], p[2])]
  OBVIOUS
<1>6. /\ F \in [GoodStates \X (1 .. n) -> GoodStates]
      /\ \A p \in GoodStates, k \in 1 .. n : F[<<p, k>>] = One(p, k)
  BY <1>3, <1>5
<1>7. PICK h : IsChain(h, F, n, GoodStates, s)
  BY <1>4, <1>6, ChainOf, Zenon
<1>8. h = [m \in 0 .. n |-> IF m = 0 THEN s ELSE One(h[m - 1], m)]
  <2>1. ASSUME NEW m \in 0 .. n PROVE h[m] = IF m = 0 THEN s ELSE One(h[m - 1], m)
    <3>1. CASE m = 0
      BY <1>7, <3>1 DEF IsChain
    <3>2. CASE m # 0
      <4>1. m \in 1 .. n /\ m - 1 \in 0 .. n
        BY <3>2
      <4>2. h[m - 1] \in GoodStates /\ h[m] = F[<<h[m - 1], m>>]
        BY <1>7, <4>1 DEF IsChain
      <4> QED BY <1>6, <3>2, <4>1, <4>2
    <3> QED BY <3>1, <3>2
  <2> QED BY <1>7, <2>1 DEF IsChain
<1>9. PICK f : /\ f = [m \in 0 .. n |-> IF m = 0 THEN s ELSE One(f[m - 1], m)]
               /\ zsm_copy_range(s, src, dst, n) = f[n]
  BY <1>8, Zenon DEF zsm_copy_range, One
<1>10. f[0] = s /\ \A k \in 1 .. n : f[k] = One(f[k - 1], k)
  BY <1>9
<1> DEFINE P == {k \in 0 .. n : Copied(s, f[k], src, dst, k)}
<1>11. 0 \in P
  <2>1. Span(dst, 0) = {}
    BY DEF Span
  <2>2. Copied(s, f[0], src, dst, 0)
    BY <1>10, <2>1 DEF Copied
  <2> QED BY <2>2
<1>12. ASSUME NEW k \in 1 .. n, k - 1 \in P PROVE k \in P
  <2>1. PICK u : u = f[k - 1]
    OBVIOUS
  <2>2. /\ ZOK(u)
        /\ \A z \in ShmemAddr : ByteOf(u, z) = IF z \in Span(dst, k - 1) THEN ByteOf(s, z - dst + src)
                                               ELSE ByteOf(s, z)
    BY <1>12, <2>1 DEF Copied
  <2>3. PICK r : r = f[k]
    OBVIOUS
  <2>4. /\ ZOK(r)
        /\ \A z \in ShmemAddr : ByteOf(r, z) = IF z = dst + k - 1 THEN ByteOf(u, src + k - 1) ELSE ByteOf(u, z)
    BY <1>2, <1>10, <2>1, <2>2, <2>3
  <2>5. ByteOf(u, src + k - 1) = ByteOf(s, src + k - 1)
    <3>1. src + k - 1 \notin Span(dst, k - 1)
      BY DEF Span
    <3> QED BY <1>1, <2>2, <3>1
  <2>6. ASSUME NEW z \in ShmemAddr
        PROVE  ByteOf(r, z) = IF z \in Span(dst, k) THEN ByteOf(s, z - dst + src) ELSE ByteOf(s, z)
    <3>1. z \in Nat
      BY AddrFacts
    <3>2. z \in Span(dst, k) <=> z \in Span(dst, k - 1) \/ z = dst + k - 1
      BY <3>1 DEF Span
    <3>3. CASE z = dst + k - 1
      <4>1. z - dst + src = src + k - 1
        BY <3>3
      <4> QED BY <2>4, <2>5, <3>2, <3>3, <4>1
    <3>4. CASE z # dst + k - 1
      BY <2>2, <2>4, <3>2, <3>4
    <3> QED BY <3>3, <3>4
  <2>7. Copied(s, f[k], src, dst, k)
    BY <2>3, <2>4, <2>6 DEF Copied
  <2> QED BY <2>7
<1>13. Copied(s, f[n], src, dst, n)
  <2> HIDE DEF P
  <2>1. \A k \in 0 .. n : k \in P
    BY <1>11, <1>12, Induct
  <2> QED BY <2>1 DEF P
<1> QED BY <1>9, <1>13

\* Nothing in the cache is newer than the store.
Flushed(s, r) ==
  /\ ZOK(r) /\ r.tags = s.tags /\ r.lyns = s.lyns
  /\ \A l \in Line : LineOf(r, l) = LineOf(s, l)

LEMMA WriteBackLemma ==
  ASSUME NEW s, ZOK(s)
  PROVE  Flushed(s, WriteBack(s)) /\ \A w \in Way : WrittenBack(WriteBack(s), w)
<1> DEFINE One(u, k) == cacheline_wback(u, k - 1)
<1>1. NWay \in Nat /\ Way = 0 .. NWay - 1
  BY Sizes DEF Way
<1>2. ASSUME NEW u, ZOK(u), NEW k \in 1 .. NWay
      PROVE  /\ Flushed(u, One(u, k)) /\ WrittenBack(One(u, k), k - 1)
             /\ \A w \in Way : WrittenBack(u, w) => WrittenBack(One(u, k), w)
  <2>1. k - 1 \in Way
    BY <1>1
  <2> QED BY <1>2, <2>1, WroteBack DEF Flushed
<1>3. \A u \in GoodStates, k \in 1 .. NWay : One(u, k) \in GoodStates
  BY <1>2 DEF GoodStates, Flushed, ZOK, StoreOK
<1>4. s \in GoodStates
  BY DEF GoodStates, ZOK, StoreOK
<1> HIDE DEF One
<1>5. PICK F : F = [p \in GoodStates \X (1 .. NWay) |-> One(p[1], p[2])]
  OBVIOUS
<1>6. /\ F \in [GoodStates \X (1 .. NWay) -> GoodStates]
      /\ \A p \in GoodStates, k \in 1 .. NWay : F[<<p, k>>] = One(p, k)
  BY <1>3, <1>5
<1>7. PICK h : IsChain(h, F, NWay, GoodStates, s)
  BY <1>1, <1>4, <1>6, ChainOf, Zenon
<1>8. h = [m \in 0 .. NWay |-> IF m = 0 THEN s ELSE One(h[m - 1], m)]
  <2>1. ASSUME NEW m \in 0 .. NWay PROVE h[m] = IF m = 0 THEN s ELSE One(h[m - 1], m)
    <3>1. CASE m = 0
      BY <1>7, <3>1 DEF IsChain
    <3>2. CASE m # 0
      <4>1. m \in 1 .. NWay /\ m - 1 \in 0 .. NWay
        BY <1>1, <3>2
      <4>2. h[m - 1] \in GoodStates /\ h[m] = F[<<h[m - 1], m>>]
        BY <1>7, <4>1 DEF IsChain
      <4> QED BY <1>6, <3>2, <4>1, <4>2
    <3> QED BY <3>1, <3>2
  <2> QED BY <1>7, <2>1 DEF IsChain
<1>9. PICK f : /\ f = [m \in 0 .. NWay |-> IF m = 0 THEN s ELSE One(f[m - 1], m)]
               /\ WriteBack(s) = f[NWay]
  BY <1>8, Zenon DEF WriteBack, One
<1>10. f[0] = s /\ \A k \in 1 .. NWay : f[k] = One(f[k - 1], k)
  BY <1>1, <1>9
<1> DEFINE P == {k \in 0 .. NWay : Flushed(s, f[k]) /\ \A w \in Way : w < k => WrittenBack(f[k], w)}
<1>11. 0 \in P
  <2>1. Flushed(s, f[0])
    BY <1>10 DEF Flushed
  <2> QED BY <1>1, <2>1
<1>12. ASSUME NEW k \in 1 .. NWay, k - 1 \in P PROVE k \in P
  <2>1. Flushed(s, f[k - 1]) /\ \A w \in Way : w < k - 1 => WrittenBack(f[k - 1], w)
    BY <1>12
  <2>2. ZOK(f[k - 1])
    BY <2>1 DEF Flushed
  <2>3. /\ Flushed(f[k - 1], f[k]) /\ WrittenBack(f[k], k - 1)
        /\ \A w \in Way : WrittenBack(f[k - 1], w) => WrittenBack(f[k], w)
    BY <1>2, <1>10, <2>2
  <2>4. Flushed(s, f[k])
    BY <2>1, <2>3 DEF Flushed
  <2>5. \A w \in Way : w < k => w < k - 1 \/ w = k - 1
    BY <1>1
  <2> QED BY <2>1, <2>3, <2>4, <2>5
<1>13. NWay \in P
  <2> HIDE DEF P
  <2>1. \A k \in 0 .. NWay : k \in P
    BY <1>1, <1>11, <1>12, Induct
  <2> QED BY <1>1, <2>1
<1>14. \A w \in Way : w < NWay
  BY <1>1
<1> QED BY <1>9, <1>13, <1>14

LEMMA NoTreeIsTree == NoTree \in Tree
BY DEF NoTree, Tree

LEMMA FlushLemma ==
  ASSUME NEW s, ZOK(s), NEW r,
         r = [WriteBack(s) EXCEPT !.tags = [w \in Way |-> NoTag], !.lyns = [w \in Way |-> NoTree]]
  PROVE  ZOK(r) /\ \A z \in ShmemAddr : ByteOf(r, z) = ByteOf(s, z)
<1>1. PICK u : u = WriteBack(s)
  OBVIOUS
<1>2. /\ ZOK(u) /\ \A l \in Line : LineOf(u, l) = LineOf(s, l)
      /\ \A w \in Way : WrittenBack(u, w)
  BY <1>1, WriteBackLemma DEF Flushed
<1>3. u \in ZStates /\ StoreOK(u)
  BY <1>2 DEF ZOK, StoreOK
<1>4. r = [u EXCEPT !.tags = [w \in Way |-> NoTag], !.lyns = [w \in Way |-> NoTree]]
  BY <1>1
<1>5. /\ r.linesZ = u.linesZ /\ r.linesF = u.linesF /\ r.rc = u.rc
      /\ r.tags = [w \in Way |-> NoTag] /\ r.lyns = [w \in Way |-> NoTree]
  BY <1>3, <1>4 DEF ZStates
<1>6. r \in ZStates
  <2>1. r.tags \in [Way -> Line \cup {NoTag}] /\ r.lyns \in [Way -> Tree]
    BY <1>5, NoTreeIsTree
  <2> QED BY <1>3, <1>4, <1>5, <2>1 DEF ZStates
<1>7. StoreOK(r) /\ \A l : Stored(r, l) = Stored(u, l)
  BY <1>3, <1>5, <1>6, SameStore
<1>8. ZOK(r)
  BY <1>5, <1>7 DEF ZOK, CacheOK
<1>9. ASSUME NEW l \in Line PROVE LineOf(r, l) = LineOf(u, l)
  <2>1. l % NWay \in Way /\ l # NoTag
    BY WayFacts
  <2>2. LineOf(r, l) = Stored(u, l)
    BY <1>5, <1>7, <2>1 DEF LineOf
  <2>3. CASE u.tags[l % NWay] = l
    BY <1>2, <2>1, <2>2, <2>3 DEF LineOf, WrittenBack
  <2>4. CASE u.tags[l % NWay] # l
    BY <2>2, <2>4 DEF LineOf
  <2> QED BY <2>3, <2>4
<1> QED BY <1>2, <1>8, <1>9, AddrFacts DEF ByteOf


----------------------------------------------------------------------------
(* Zsm: the theorems *)

\* The inductive invariant: store and cache are sane, and hold the memory of
\* the abstract specification.
ZsmInv == ZOK(ZsmState) /\ flat = [z \in ShmemAddr |-> ByteOf(ZsmState, z)]

LEMMA BecomeLemma ==
  ASSUME NEW r, Become(r), ZOK(r)
  PROVE  ZsmState' = r
<1>1. r \in ZStates
  BY DEF ZOK, StoreOK
<1>2. r = [tags |-> r.tags, lyns |-> r.lyns, linesZ |-> r.linesZ, linesF |-> r.linesF, rc |-> r.rc]
  BY <1>1 DEF ZStates
<1>3. /\ tags' = r.tags /\ lyns' = r.lyns /\ linesZ' = r.linesZ /\ linesF' = r.linesF
      /\ rc' = r.rc
  BY DEF Become
<1> QED BY <1>2, <1>3 DEF ZsmState

LEMMA KeepsZsmInv ==
  ASSUME NEW r, Become(r), ZOK(r), flat' = [z \in ShmemAddr |-> ByteOf(r, z)]
  PROVE  ZsmInv'
<1>1. ZsmState' = r
  BY BecomeLemma
<1> QED BY <1>1 DEF ZsmInv

LEMMA ZsmInitInv ==
  ASSUME ZsmInit
  PROVE  ZsmInv
<1>1. PICK s : s = ZsmState
  OBVIOUS
<1>2. /\ s.tags = [w \in Way |-> NoTag] /\ s.lyns = [w \in Way |-> NoTree]
      /\ s.linesZ = [l \in Line |-> AllSame(NoAccess)] /\ s.linesF = <<>> /\ s.rc = [v \in SVal |-> 0]
  BY <1>1 DEF ZsmInit, ZsmState
<1>3. PICK f \in Contents : f = [o \in Off |-> NoAccess]
  BY ZsmAssumption DEF Contents
<1>4. \A l \in Line : s.linesZ[l] = LineZ(f)
  BY <1>2, <1>3 DEF AllSame
<1>5. \A l \in Line : ~InF(s, l) /\ Stored(s, l) = f
  BY <1>4 DEF InF, Stored, LineZ
<1>6. s \in ZStates
  <2>1. s.tags \in [Way -> Line \cup {NoTag}] /\ s.lyns \in [Way -> Tree]
    BY <1>2, NoTreeIsTree
  <2>2. LineZ(f) \in LineRep
    BY DEF LineRep
  <2>3. s.linesZ \in [Line -> LineRep]
    BY <1>2, <1>3, <2>2 DEF AllSame
  <2>4. s.linesF \in Seq(Contents \cup {Invalid}) /\ s.rc \in [SVal -> Int]
    BY <1>2
  <2> QED BY <1>1, <2>1, <2>3, <2>4 DEF ZStates, ZsmState
<1>7. Owned(s)
  <2>1. DOMAIN s.linesF = {}
    BY <1>2
  <2> QED BY <1>5, <2>1 DEF Owned
<1>8. RcExact(s)
  <2>1. ASSUME NEW v \in SVal, v # NoAccess PROVE s.rc[v] = Cardinality(Sites(s, v))
    <3>1. Sites(s, v) = {}
      BY <1>3, <1>5, <2>1 DEF Sites, Refers
    <3> QED BY <1>2, <3>1, FS_EmptySet
  <2> QED BY <2>1 DEF RcExact
<1>9. CacheOK(s)
  BY <1>2 DEF CacheOK
<1>10. \A z \in ShmemAddr : ByteOf(s, z) = NoAccess
  <2>1. ASSUME NEW z \in ShmemAddr PROVE ByteOf(s, z) = NoAccess
    <3>1. z \div W \in Line /\ z % W \in Off
      BY AddrFacts
    <3>2. (z \div W) % NWay \in Way /\ z \div W # NoTag
      BY <3>1, WayFacts
    <3>3. LineOf(s, z \div W) = f
      BY <1>2, <1>5, <3>1, <3>2 DEF LineOf
    <3> QED BY <1>3, <3>1, <3>3 DEF ByteOf
  <2> QED BY <2>1
<1>11. flat = [z \in ShmemAddr |-> NoAccess]
  BY DEF ZsmInit, Flat!Init
<1> QED BY <1>1, <1>6, <1>7, <1>8, <1>9, <1>10, <1>11 DEF ZsmInv, ZOK, StoreOK

\* The store and its abstraction take the same step.
LEMMA SameStep ==
  ASSUME ZsmInv, NEW r, Become(r), NEW D, NEW g, Changed(ZsmState, r, D, g), Flat!Access(D, g)
  PROVE  ZsmInv'
<1>1. PICK s : s = ZsmState
  OBVIOUS
<1>2. \A z \in ShmemAddr : flat[z] = ByteOf(s, z)
  BY <1>1 DEF ZsmInv
<1>3. flat' = [z \in ShmemAddr |-> IF z \in D THEN g[flat[z]] ELSE flat[z]]
  BY DEF Flat!Access
<1>4. /\ ZOK(r)
      /\ \A z \in ShmemAddr : ByteOf(r, z) = IF z \in D THEN g[ByteOf(s, z)] ELSE ByteOf(s, z)
  BY <1>1 DEF Changed
<1>5. flat' = [z \in ShmemAddr |-> ByteOf(r, z)]
  BY <1>2, <1>3, <1>4
<1> QED BY <1>4, <1>5, KeepsZsmInv

LEMMA FitsFacts ==
  ASSUME NEW e \in ShmemAddr, NEW n \in Nat, n > 0, Fits(e, n)
  PROVE  e \in Nat /\ e + n <= NLine * W /\ e + n - 1 \in ShmemAddr
<1>1. PICK y \in Nat : y = NLine * W
  BY Sizes
<1>2. e \in Nat /\ e + n - 1 \in 0 .. y - 1
  BY <1>1, AddrFacts DEF Fits, ShmemAddr
<1>3. e + n <= y
  BY <1>1, <1>2
<1> QED BY <1>1, <1>2, <1>3 DEF Fits

LEMMA AccessKeeps ==
  ASSUME ZsmInv, NEW k \in Level, NEW e \in ShmemAddr, NEW g \in Msm, Access(k, e, g)
  PROVE  ZsmInv'
<1>1. PICK r, s, n : r = zsm_apply(s, k, e, g) /\ s = ZsmState /\ n = 2^k
  OBVIOUS
<1>2. g \in [SVal -> SVal] /\ ZOK(s) /\ e + 2^k - 1 \in ShmemAddr
  BY <1>1, ZsmAssumption DEF ZsmInv, Access, Fits
<1>3. Changed(s, r, Span(e, 2^k), g)
  BY <1>1, <1>2, SizedApply
<1>4. Become(r) /\ Flat!Access(Span(e, 2^k), g)
  BY <1>1 DEF Access, Span
<1> QED BY <1>1, <1>3, <1>4, SameStep

LEMMA AccessRangeKeeps ==
  ASSUME ZsmInv, NEW e \in ShmemAddr, NEW n \in Lens, NEW g \in Msm, AccessRange(e, n, g)
  PROVE  ZsmInv'
<1>1. PICK r, s : r = zsm_apply_range(s, e, n, g) /\ s = ZsmState
  OBVIOUS
<1>2. g \in [SVal -> SVal] /\ ZOK(s) /\ n \in Nat /\ n > 0 /\ Fits(e, n)
  BY <1>1, ZsmAssumption DEF ZsmInv, AccessRange
<1>3. e \in Nat /\ e + n <= NLine * W
  BY <1>2, FitsFacts
<1>4. Changed(s, r, Span(e, n), g)
  BY <1>1, <1>2, <1>3, ApplyRangeLemma
<1>5. Become(r) /\ Flat!Access(Span(e, n), g)
  BY <1>1 DEF AccessRange, Span
<1> QED BY <1>1, <1>4, <1>5, SameStep

LEMMA SetRangeKeeps ==
  ASSUME ZsmInv, NEW e \in ShmemAddr, NEW n \in Lens, NEW v \in SVal, SetRange(e, n, v)
  PROVE  ZsmInv'
<1>1. PICK r, s, D : r = zsm_set_range(s, e, n, v) /\ s = ZsmState /\ D = Span(e, n)
  OBVIOUS
<1>2. ZOK(s) /\ n \in Nat /\ n > 0 /\ Fits(e, n)
  BY <1>1, ZsmAssumption DEF ZsmInv, SetRange
<1>3. e \in Nat /\ e + n <= NLine * W
  BY <1>2, FitsFacts
<1>4. Changed(s, r, D, Const(v))
  BY <1>1, <1>2, <1>3, SetLongRange
<1>5. Become(r)
  BY <1>1 DEF SetRange
<1>6. flat' = [z \in ShmemAddr |-> IF z \in D THEN v ELSE flat[z]]
  BY <1>1 DEF SetRange, Span, Flat!SetAll
<1>7. \A z \in ShmemAddr : flat[z] = ByteOf(s, z) /\ Const(v)[flat[z]] = v
  BY <1>1, <1>2, ByteOfType DEF ZsmInv, Const
<1>8. flat' = [z \in ShmemAddr |-> IF z \in D THEN Const(v)[flat[z]] ELSE flat[z]]
  BY <1>6, <1>7
<1>9. Flat!Access(D, Const(v))
  BY <1>8 DEF Flat!Access
<1> QED BY <1>1, <1>4, <1>5, <1>9, SameStep

LEMMA CopyRangeKeeps ==
  ASSUME ZsmInv, NEW src \in ShmemAddr, NEW dst \in ShmemAddr, NEW n \in Lens, CopyRange(src, dst, n)
  PROVE  ZsmInv'
<1>1. PICK r, s, D : r = zsm_copy_range(s, src, dst, n) /\ s = ZsmState /\ D = Span(dst, n)
  OBVIOUS
<1>2. /\ ZOK(s) /\ n \in Nat /\ n > 0 /\ Fits(src, n) /\ Fits(dst, n)
      /\ src + n <= dst \/ dst + n <= src
  BY <1>1, ZsmAssumption DEF ZsmInv, CopyRange
<1>3. src \in Nat /\ src + n <= NLine * W /\ dst \in Nat /\ dst + n <= NLine * W
  BY <1>2, FitsFacts
<1>4. Copied(s, r, src, dst, n)
  BY <1>1, <1>2, <1>3, CopyLemma
<1>5. Become(r)
  BY <1>1 DEF CopyRange
<1>6. flat' = [z \in ShmemAddr |-> IF z \in D THEN flat[z - dst + src] ELSE flat[z]]
  BY <1>1 DEF CopyRange, Span, Flat!Copy
<1>7. \A z \in ShmemAddr : flat[z] = ByteOf(s, z)
  BY <1>1 DEF ZsmInv
<1>8. \A z \in ShmemAddr : z \in D => z - dst + src \in ShmemAddr
  <2>1. PICK y \in Nat : y = NLine * W
    BY Sizes
  <2>2. \A z \in Nat : z \in D => z - dst + src \in 0 .. y - 1
    BY <1>1, <1>2, <1>3, <2>1 DEF Span
  <2> QED BY <2>1, <2>2, AddrFacts DEF ShmemAddr
<1>9. /\ ZOK(r)
      /\ \A z \in ShmemAddr : ByteOf(r, z) = IF z \in D THEN ByteOf(s, z - dst + src) ELSE ByteOf(s, z)
  BY <1>1, <1>4 DEF Copied
<1>10. flat' = [z \in ShmemAddr |-> ByteOf(r, z)]
  BY <1>6, <1>7, <1>8, <1>9
<1> QED BY <1>5, <1>9, <1>10, KeepsZsmInv

LEMMA FlushKeeps ==
  ASSUME ZsmInv, Flush
  PROVE  ZsmInv'
<1>1. PICK r, s : /\ s = ZsmState
                  /\ r = [WriteBack(s) EXCEPT !.tags = [w \in Way |-> NoTag], !.lyns = [w \in Way |-> NoTree]]
  OBVIOUS
<1>2. ZOK(s)
  BY <1>1 DEF ZsmInv
<1>3. ZOK(r) /\ \A z \in ShmemAddr : ByteOf(r, z) = ByteOf(s, z)
  BY <1>1, <1>2, FlushLemma
<1>4. Become(r) /\ flat' = flat
  BY <1>1 DEF Flush
<1>5. flat' = [z \in ShmemAddr |-> ByteOf(r, z)]
  BY <1>1, <1>3, <1>4 DEF ZsmInv
<1> QED BY <1>3, <1>4, <1>5, KeepsZsmInv

LEMMA ZsmStepInv ==
  ASSUME ZsmInv, [ZsmNext]_zsmVars
  PROVE  ZsmInv'
<1>1. CASE \E n \in Level \X ShmemAddr, msm \in Msm : Access(n[1], n[2], msm)
  <2>1. PICK k \in Level, e \in ShmemAddr, g \in Msm : Access(k, e, g)
    BY <1>1
  <2> QED BY <2>1, AccessKeeps
<1>2. CASE \E q \in ShmemAddr \X Lens, msm \in Msm : AccessRange(q[1], q[2], msm)
  <2>1. PICK e \in ShmemAddr, n \in Lens, g \in Msm : AccessRange(e, n, g)
    BY <1>2
  <2> QED BY <2>1, AccessRangeKeeps
<1>3. CASE \E q \in ShmemAddr \X Lens, v \in SVal : SetRange(q[1], q[2], v)
  <2>1. PICK e \in ShmemAddr, n \in Lens, v \in SVal : SetRange(e, n, v)
    BY <1>3
  <2> QED BY <2>1, SetRangeKeeps
<1>4. CASE \E c \in ShmemAddr \X ShmemAddr \X Lens : CopyRange(c[1], c[2], c[3])
  <2>1. PICK src \in ShmemAddr, dst \in ShmemAddr, n \in Lens : CopyRange(src, dst, n)
    BY <1>4
  <2> QED BY <2>1, CopyRangeKeeps
<1>5. CASE Flush
  BY <1>5, FlushKeeps
<1>6. CASE UNCHANGED zsmVars
  <2>1. ZsmState' = ZsmState /\ flat' = flat
    BY <1>6 DEF zsmVars, ZsmState
  <2> QED BY <2>1 DEF ZsmInv
<1> QED BY <1>1, <1>2, <1>3, <1>4, <1>5, <1>6 DEF ZsmNext, ZsmSteps

\* In every reachable state of the shadow memory each cached line is a sane
\* tree in the way it belongs to, each F line in use has one owner, the calls
\* of rcinc and rcdec add up, and every byte holds what the flat memory holds.
THEOREM ZsmInvariant == ZsmSpec => []ZsmInv
<1>1. ZsmInit => ZsmInv
  BY ZsmInitInv
<1>2. ZsmInv /\ [ZsmNext]_zsmVars => ZsmInv'
  BY ZsmStepInv
<1> QED BY <1>1, <1>2, PTL DEF ZsmSpec

\* The nodes of a line of the cache cut it up, and no other slot has a value.
LEMMA SaneTree ==
  ASSUME NEW t, TreeOK(t)
  PROVE  /\ \A o \in Off : Cardinality({n \in t.descr : o \in Bytes(n)}) = 1
         /\ \A o \in Off : t.svals[o] # Invalid <=> \E k \in Level : <<k, o>> \in t.descr
<1>1. ASSUME NEW o \in Off PROVE Cardinality({n \in t.descr : o \in Bytes(n)}) = 1
  <2>1. PICK m \in t.descr : o \in Bytes(m)
    BY DEF TreeOK
  <2>2. {n \in t.descr : o \in Bytes(n)} = {m}
    BY <2>1 DEF TreeOK
  <2> QED BY <2>2, FS_Singleton
<1>2. ASSUME NEW o \in Off PROVE t.svals[o] # Invalid <=> \E k \in Level : <<k, o>> \in t.descr
  <2>1. ASSUME NEW n \in t.descr, n[2] = o PROVE n[1] \in Level /\ n = <<n[1], o>>
    BY <2>1, NodeFacts DEF NodeOf, TreeOK, Tree
  <2>2. (\E n \in t.descr : n[2] = o) => \E k \in Level : <<k, o>> \in t.descr
    BY <2>1
  <2>3. ASSUME NEW k \in Level, <<k, o>> \in t.descr PROVE \E n \in t.descr : n[2] = o
    <3>1. <<k, o>>[2] = o
      OBVIOUS
    <3> QED BY <2>3, <3>1
  <2>4. t.svals[o] # Invalid <=> \E n \in t.descr : n[2] = o
    BY DEF TreeOK
  <2> QED BY <2>2, <2>3, <2>4
<1> QED BY <1>1, <1>2

LEMMA InvImpliesTrees == ASSUME ZsmInv PROVE TreesSane
<1>1. ASSUME NEW w \in Way, tags[w] # NoTag PROVE TreeOK(lyns[w])
  <2>1. ZsmState.tags = tags /\ ZsmState.lyns = lyns
    BY DEF ZsmState
  <2> QED BY <1>1, <2>1 DEF ZsmInv, ZOK, CacheOK
<1> QED BY <1>1, SaneTree DEF TreesSane

LEMMA InvImpliesStore == ASSUME ZsmInv PROVE StoreExact
<1>1. PICK s : s = ZsmState
  OBVIOUS
<1>2. s.linesZ = linesZ /\ s.linesF = linesF /\ s.rc = rc
  BY <1>1 DEF ZsmState
<1>3. Owned(s) /\ RcExact(s)
  BY <1>1 DEF ZsmInv, ZOK, StoreOK
<1>4. PICK inF : inF = {l \in Line : linesZ[l].rep = "F"}
  OBVIOUS
<1>5. \A l \in Line : InF(s, l) <=> l \in inF
  BY <1>2, <1>4 DEF InF
<1>6. {linesZ[l].fix : l \in inF} = {i \in DOMAIN linesF : linesF[i] # FreeF}
  BY <1>2, <1>3, <1>4, <1>5 DEF Owned
<1>7. \A l, m \in inF : linesZ[l].fix = linesZ[m].fix => l = m
  BY <1>2, <1>3, <1>4, <1>5 DEF Owned
<1>8. ASSUME NEW v \in SVal \ {NoAccess}
      PROVE  rc[v] = Cardinality({p \in Line \X Off :
                       /\ Stored(ZsmState, p[1])[p[2]] = v
                       /\ p[1] \in inF \/ \A q \in 0 .. p[2] - 1 : Stored(ZsmState, p[1])[q] # v})
  <2>1. rc[v] = Cardinality(Sites(s, v))
    BY <1>2, <1>3 DEF RcExact
  <2>2. Sites(s, v) = {p \in Line \X Off :
                         /\ Stored(s, p[1])[p[2]] = v
                         /\ p[1] \in inF \/ \A q \in 0 .. p[2] - 1 : Stored(s, p[1])[q] # v}
    <3>1. \A p \in Line \X Off : InF(s, p[1]) <=> p[1] \in inF
      BY <1>5
    <3> QED BY <3>1 DEF Sites, Refers
  <2> QED BY <1>1, <2>1, <2>2
<1> QED BY <1>4, <1>6, <1>7, <1>8 DEF StoreExact

LEMMA InvImpliesFlat == ASSUME ZsmInv PROVE ImplementsFlat
<1>1. PICK s : s = ZsmState
  OBVIOUS
<1>2. s.tags = tags /\ s.lyns = lyns
  BY <1>1 DEF ZsmState
<1>3. ASSUME NEW e \in ShmemAddr
      PROVE  (IF tags[WayOf(e)] = e \div W THEN InTree(lyns[WayOf(e)], e % W)
              ELSE Stored(ZsmState, e \div W)[e % W]) = ByteOf(s, e)
  <2>1. WayOf(e) = (e \div W) % NWay /\ e % W \in Off
    BY AddrFacts
  <2> QED BY <1>1, <1>2, <2>1 DEF ByteOf, LineOf, sequentialise_CacheLine
<1>4. mem = [e \in ShmemAddr |-> ByteOf(s, e)]
  BY <1>3 DEF mem
<1> QED BY <1>1, <1>4 DEF ZsmInv, ImplementsFlat

\* is_sane_CacheLine holds of every line of the cache after every operation,
\* not only where the code checks it.
THEOREM TreesStaySane == ZsmSpec => []TreesSane
BY ZsmInvariant, InvImpliesTrees, PTL

\* find_Z_for_writing, alloc_F_for_writing and the reference counting of the
\* store neither lose nor share an F line, nor a reference.
THEOREM StoreStaysExact == ZsmSpec => []StoreExact
BY ZsmInvariant, InvImpliesStore, PTL

\* Accesses, ranges, copies, evictions and flushes of the compressed and
\* cached shadow memory do to each byte what they do to a flat memory.
THEOREM ZsmImplementsFlat == ZsmSpec => []ImplementsFlat
BY ZsmInvariant, InvImpliesFlat, PTL
=============================================================================
