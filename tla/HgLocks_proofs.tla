--------------------------- MODULE HgLocks_proofs ---------------------------
(***************************************************************************)
(* Proofs for HgLocks, for any number of threads and locks, any mix of     *)
(* kinds, any depth of recursion, and clients that misuse their locks or   *)
(* reuse the memory of locks as well as clients that do not.               *)
(***************************************************************************)
EXTENDS HgLocks, TLAPS

----------------------------------------------------------------------------
(* The acquisition order graph *)

Graph == [outs : [Addr -> SUBSET Addr], inns : [Addr -> SUBSET Addr],
          expo : SUBSET (Addr \X Addr)]

\* The successors are the inverse of the predecessors; no lock precedes itself.
Consistent(g) ==
  /\ \A a, b \in Addr : b \in g.outs[a] <=> a \in g.inns[b]
  /\ \A a \in Addr : a \notin g.outs[a]

Transitive(R) == \A a, b, c \in Addr : <<a, b>> \in R /\ <<b, c>> \in R => <<a, c>> \in R

Closed(g, S) == \A a \in S : g.outs[a] \subseteq S

\* The edges of g are pairs of R, and whatever is closed under the edges of g
\* is closed under R: R is the transitive closure of g.
ClosureOf(R, g) ==
  /\ Transitive(R)
  /\ \A a \in Addr : \A b \in g.outs[a] : <<a, b>> \in R
  /\ \A S \in SUBSET Addr : Closed(g, S) =>
       \A a, b \in Addr : a \in S /\ <<a, b>> \in R => b \in S

LEMMA EdgesType ==
  ASSUME NEW g \in Graph, NEW Pairs \in SUBSET (Addr \X Addr), NEW acquired
  PROVE  laog__add_edges(g, Pairs, acquired) \in Graph
BY DEF Graph, laog__add_edges

LEMMA EdgesAdded ==
  ASSUME NEW g, NEW Pairs, NEW acquired, NEW a \in Addr, NEW b \in Addr
  PROVE  LET new == laog__add_edges(g, Pairs, acquired)
         IN /\ b \in new.outs[a] <=> b \in g.outs[a] \/ <<a, b>> \in Pairs
            /\ a \in new.inns[b] <=> a \in g.inns[b] \/ <<a, b>> \in Pairs
BY DEF laog__add_edges

\* What the search visits, beyond its start, is what R relates to the start.
LEMMA ReachIsClosure ==
  ASSUME NEW g \in Graph, NEW R \in SUBSET (Addr \X Addr), ClosureOf(R, g),
         NEW a \in Addr, NEW b \in Addr, a # b
  PROVE  b \in Reach(g, a) <=> <<a, b>> \in R
<1>1. ASSUME b \in Reach(g, a) PROVE <<a, b>> \in R
  <2> DEFINE S == {c \in Addr : c = a \/ <<a, c>> \in R}
  <2>1. \A c \in S : g.outs[c] \subseteq S
    BY DEF ClosureOf, Transitive, Graph
  <2>2. b \in S
    BY <1>1, <2>1 DEF Reach
  <2> QED BY <2>2
<1>2. ASSUME <<a, b>> \in R PROVE b \in Reach(g, a)
  BY <1>2 DEF ClosureOf, Closed, Reach
<1> QED BY <1>1, <1>2

\* The pairs that the acquisition of lk under the locks held adds to R.
Extended(R, held, lk) ==
  R \cup {e \in Addr \X Addr : /\ \E h \in held : e[1] = h \/ <<e[1], h>> \in R
                               /\ e[2] = lk \/ <<lk, e[2]>> \in R}

LEMMA AcquireGraph ==
  ASSUME NEW g \in Graph, NEW R \in SUBSET (Addr \X Addr), NEW held \in SUBSET Addr,
         NEW lk \in Addr, lk \notin held, NEW acquired, NEW new,
         new = laog__pre_thread_acquires_lock(g, held, lk, acquired),
         Consistent(g), ClosureOf(R, g)
  PROVE  new \in Graph /\ Consistent(new) /\ ClosureOf(Extended(R, held, lk), new)
<1> DEFINE R1 == Extended(R, held, lk)
<1>0. new = laog__add_edges(g, held \X {lk}, acquired)
  BY DEF laog__pre_thread_acquires_lock
<1>1. new \in Graph
  BY <1>0, EdgesType
<1>2. /\ \A a \in Addr : new.outs[a] = g.outs[a] \cup (IF a \in held THEN {lk} ELSE {})
      /\ \A b \in Addr : new.inns[b] = g.inns[b] \cup (IF b = lk THEN held ELSE {})
  BY <1>0 DEF laog__add_edges
<1>3. Consistent(new)
  BY <1>2 DEF Consistent
<1>4. \A a, b \in Addr : <<a, b>> \in R1 <=>
        \/ <<a, b>> \in R
        \/ /\ \E h \in held : a = h \/ <<a, h>> \in R
           /\ b = lk \/ <<lk, b>> \in R
  BY DEF Extended
<1>5. Transitive(R1)
  BY <1>4 DEF ClosureOf, Transitive
<1>6. ASSUME NEW a \in Addr, NEW b \in new.outs[a] PROVE <<a, b>> \in R1
  <2>1. b \in Addr
    BY <1>1 DEF Graph
  <2>2. CASE b \in g.outs[a]
    BY <2>1, <2>2, <1>4 DEF ClosureOf
  <2>3. CASE a \in held /\ b = lk
    BY <2>1, <2>3, <1>4
  <2> QED BY <2>2, <2>3, <1>2
<1>7. ASSUME NEW S \in SUBSET Addr, Closed(new, S), NEW a \in Addr, NEW b \in Addr,
             a \in S, <<a, b>> \in R1
      PROVE  b \in S
  <2>1. Closed(g, S)
    BY <1>2, <1>7 DEF Closed
  <2>2. \A c, d \in Addr : c \in S /\ <<c, d>> \in R => d \in S
    BY <2>1 DEF ClosureOf
  <2>3. CASE <<a, b>> \in R
    BY <2>2, <2>3, <1>7
  <2>4. CASE <<a, b>> \notin R
    <3>1. PICK h \in held : a = h \/ <<a, h>> \in R
      BY <2>4, <1>4, <1>7
    <3>2. h \in S
      BY <3>1, <2>2, <1>7
    <3>3. lk \in S
      BY <3>2, <1>2, <1>7 DEF Closed
    <3> QED BY <3>3, <2>2, <2>4, <1>4, <1>7
  <2> QED BY <2>3, <2>4
<1> QED BY <1>1, <1>3, <1>5, <1>6, <1>7 DEF ClosureOf

LEMMA DeletionGraph ==
  ASSUME NEW g \in Graph, NEW R \in SUBSET (Addr \X Addr), NEW lk \in Addr, NEW acquired,
         NEW new, new = laog__handle_one_lock_deletion(g, lk, acquired),
         Consistent(g), ClosureOf(R, g)
  PROVE  /\ new \in Graph /\ Consistent(new)
         /\ ClosureOf({e \in R : e[1] # lk /\ e[2] # lk}, new)
<1> DEFINE R1 == {e \in R : e[1] # lk /\ e[2] # lk}
           cut == [outs |-> [a \in Addr |-> IF a = lk THEN {} ELSE g.outs[a] \ {lk}],
                   inns |-> [a \in Addr |-> IF a = lk THEN {} ELSE g.inns[a] \ {lk}],
                   expo |-> g.expo]
           Pairs == {e \in g.inns[lk] \X g.outs[lk] : e[1] # e[2]}
<1>0. new = laog__add_edges(cut, Pairs, acquired)
  BY DEF laog__handle_one_lock_deletion
<1>1. cut \in Graph /\ Pairs \in SUBSET (Addr \X Addr)
  BY DEF Graph
<1>2. new \in Graph
  BY <1>0, <1>1, EdgesType
<1>3. \A a, b \in Addr : b \in new.outs[a] <=>
        /\ a # lk /\ b # lk /\ a # b
        /\ b \in g.outs[a] \/ (lk \in g.outs[a] /\ b \in g.outs[lk])
  <2> HIDE DEF cut, Pairs
  <2>1. \A a, b \in Addr : b \in new.outs[a] <=> b \in cut.outs[a] \/ <<a, b>> \in Pairs
    BY <1>0, EdgesAdded
  <2>2. \A a, b \in Addr : b \in cut.outs[a] <=> a # lk /\ b # lk /\ b \in g.outs[a]
    BY DEF cut
  <2>3. \A a, b \in Addr : <<a, b>> \in Pairs <=> a \in g.inns[lk] /\ b \in g.outs[lk] /\ a # b
    BY DEF Pairs
  <2> QED BY <2>1, <2>2, <2>3 DEF Consistent
<1>4. \A a, b \in Addr : a \in new.inns[b] <=>
        /\ a # lk /\ b # lk /\ a # b
        /\ b \in g.outs[a] \/ (lk \in g.outs[a] /\ b \in g.outs[lk])
  <2> HIDE DEF cut, Pairs
  <2>1. \A a, b \in Addr : a \in new.inns[b] <=> a \in cut.inns[b] \/ <<a, b>> \in Pairs
    BY <1>0, EdgesAdded
  <2>2. \A a, b \in Addr : a \in cut.inns[b] <=> a # lk /\ b # lk /\ a \in g.inns[b]
    BY DEF cut
  <2>3. \A a, b \in Addr : <<a, b>> \in Pairs <=> a \in g.inns[lk] /\ b \in g.outs[lk] /\ a # b
    BY DEF Pairs
  <2> QED BY <2>1, <2>2, <2>3 DEF Consistent
<1>5. Consistent(new)
  BY <1>3, <1>4 DEF Consistent
<1>6. \A a, b \in Addr : <<a, b>> \in R1 <=> <<a, b>> \in R /\ a # lk /\ b # lk
  OBVIOUS
<1>7. Transitive(R1)
  BY <1>6 DEF ClosureOf, Transitive
<1>8. \A a \in Addr : \A b \in new.outs[a] : <<a, b>> \in R1
  BY <1>2, <1>3, <1>6 DEF ClosureOf, Transitive, Graph
<1>9. ASSUME NEW S \in SUBSET Addr, Closed(new, S), NEW a \in Addr, NEW b \in Addr,
             a \in S, <<a, b>> \in R1
      PROVE  b \in S
  <2> DEFINE T == {c \in Addr : \/ c \in S /\ c # lk
                                \/ c = lk /\ \E p \in S : p # lk /\ lk \in g.outs[p]}
  <2>1. ASSUME NEW c \in T, NEW d \in g.outs[c] PROVE d \in T
    <3>1. c \in Addr /\ d \in Addr /\ c # d
      BY <2>1 DEF Graph, Consistent
    <3>2. CASE c # lk /\ d # lk
      BY <3>1, <3>2, <2>1, <1>3, <1>9 DEF Closed
    <3>3. CASE c # lk /\ d = lk
      BY <3>1, <3>3, <2>1
    <3>4. CASE c = lk
      <4>1. PICK p \in S : p # lk /\ lk \in g.outs[p]
        BY <3>4, <2>1
      <4>2. d = p \/ d \in new.outs[p]
        BY <4>1, <3>1, <3>4, <2>1, <1>3
      <4> QED BY <4>1, <4>2, <3>1, <3>4, <1>9 DEF Closed
    <3> QED BY <3>2, <3>3, <3>4
  <2>2. Closed(g, T) /\ T \in SUBSET Addr
    BY <2>1 DEF Closed, Graph
  <2>3. a \in T
    BY <1>6, <1>9
  <2>4. b \in T
    BY <2>2, <2>3, <1>6, <1>9 DEF ClosureOf
  <2> QED BY <2>4, <1>6, <1>9
<1> QED BY <1>2, <1>5, <1>7, <1>8, <1>9 DEF ClosureOf

LEMMA AcquireType ==
  ASSUME NEW g \in Graph, NEW held \in SUBSET Addr, NEW lk \in Addr, NEW acquired
  PROVE  laog__pre_thread_acquires_lock(g, held, lk, acquired) \in Graph
BY EdgesType DEF laog__pre_thread_acquires_lock

LEMMA DeletionType ==
  ASSUME NEW g \in Graph, NEW lk \in Addr, NEW acquired
  PROVE  laog__handle_one_lock_deletion(g, lk, acquired) \in Graph
<1> DEFINE cut == [outs |-> [a \in Addr |-> IF a = lk THEN {} ELSE g.outs[a] \ {lk}],
                   inns |-> [a \in Addr |-> IF a = lk THEN {} ELSE g.inns[a] \ {lk}],
                   expo |-> g.expo]
           Pairs == {e \in g.inns[lk] \X g.outs[lk] : e[1] # e[2]}
<1>1. cut \in Graph /\ Pairs \in SUBSET (Addr \X Addr)
  BY DEF Graph
<1>2. laog__add_edges(cut, Pairs, acquired) \in Graph
  BY <1>1, EdgesType
<1> QED BY <1>2 DEF laog__handle_one_lock_deletion

----------------------------------------------------------------------------
(* Lock records and program counters *)

LEMMA NullType == NULL \in Bag /\ \A t \in Thr : NULL[t] = 0
BY DEF NULL, Bag

LEMMA NullIsZero ==
  ASSUME NEW by \in Bag PROVE by = NULL <=> \A t \in Thr : by[t] = 0
BY DEF Bag, NULL

LEMMA NewRecord ==
  ASSUME NEW kind \in AllKinds
  PROVE  /\ mk_LockN(kind) \in LockRecord
         /\ mk_LockN(kind).kind = kind /\ ~mk_LockN(kind).heldW /\ mk_LockN(kind).heldBy = NULL
BY NullType DEF mk_LockN, LockRecord

LEMMA AcquiredRecord ==
  ASSUME NEW lk \in LockRecord, NEW t \in Thr, NEW w \in BOOLEAN, NEW new,
         new = IF w THEN lockN_acquire_writer(lk, t) ELSE lockN_acquire_reader(lk, t)
  PROVE  /\ new \in LockRecord /\ new.kind = lk.kind /\ new.heldW = w
         /\ new.heldBy[t] = lk.heldBy[t] + 1
         /\ \A u \in Thr : u # t => new.heldBy[u] = lk.heldBy[u]
<1> DEFINE by == [lk.heldBy EXCEPT ![t] = @ + 1]
<1>1. lk.heldBy \in [Thr -> Nat] /\ lk.heldBy[t] \in Nat
  BY DEF LockRecord, Bag
<1>2. by \in Bag /\ by[t] = lk.heldBy[t] + 1 /\ \A u \in Thr : u # t => by[u] = lk.heldBy[u]
  BY <1>1 DEF Bag
<1>3. new = [lk EXCEPT !.heldW = w, !.heldBy = by]
  BY DEF lockN_acquire_writer, lockN_acquire_reader, LockRecord
<1> QED BY <1>2, <1>3 DEF LockRecord

LEMMA ReleasedRecord ==
  ASSUME NEW lk \in LockRecord, NEW t \in Thr, lk.heldBy[t] > 0, NEW new,
         new = lockN_release(lk, t)
  PROVE  /\ new \in LockRecord /\ new.kind = lk.kind
         /\ new.heldW <=> lk.heldW /\ new.heldBy # NULL
         /\ new.heldBy[t] = lk.heldBy[t] - 1
         /\ \A u \in Thr : u # t => new.heldBy[u] = lk.heldBy[u]
<1> DEFINE by == [lk.heldBy EXCEPT ![t] = @ - 1]
<1>1. lk.heldBy \in [Thr -> Nat] /\ lk.heldW \in BOOLEAN /\ lk.heldBy[t] \in Nat
  BY DEF LockRecord, Bag
<1>2. by \in Bag /\ by[t] = lk.heldBy[t] - 1 /\ \A u \in Thr : u # t => by[u] = lk.heldBy[u]
  BY <1>1 DEF Bag
<1>3. new = [lk EXCEPT !.heldBy = by, !.heldW = @ /\ by # NULL]
  BY DEF lockN_release
<1> QED BY <1>1, <1>2, <1>3 DEF LockRecord

LEMMA PcFields ==
  ASSUME NEW p \in PC
  PROVE  /\ p.op \in {"idle", "call", "post", "unlock"}
         /\ p.op = "idle" <=> p = Idle
         /\ p.op \in {"call", "post"} =>
              /\ p.a \in Addr /\ p.w \in BOOLEAN
              /\ [p EXCEPT !.op = "post"] = [op |-> "post", a |-> p.a, w |-> p.w]
         /\ p.op = "unlock" => p.a \in Addr
<1>1. CASE p \in [op : {"idle"}]
  BY <1>1 DEF Idle
<1>2. CASE p \in [op : {"call", "post"}, a : Addr, w : BOOLEAN]
  BY <1>2 DEF Idle
<1>3. CASE p \in [op : {"unlock"}, a : Addr]
  BY <1>3 DEF Idle
<1> QED BY <1>1, <1>2, <1>3 DEF PC

LEMMA PcTypes ==
  /\ Idle \in PC
  /\ \A a \in Addr : [op |-> "unlock", a |-> a] \in PC
  /\ \A a \in Addr, w \in BOOLEAN :
       [op |-> "call", a |-> a, w |-> w] \in PC /\ [op |-> "post", a |-> a, w |-> w] \in PC
BY DEF PC, Idle

----------------------------------------------------------------------------
(* The handlers, with their effects spelled out *)

PostLock(t) ==
  map_locks_lookup_or_create(IF pc[t].w /\ IsMutex(pc[t].a) THEN "mbRec" ELSE "rdwr", pc[t].a)

\* The tool believes that lk can be granted to t.
Believable(lk, t, w) ==
  IF w THEN \/ lk.heldBy = NULL
            \/ lk.heldW /\ lk.heldBy[t] > 0 /\ lk.kind = "mbRec"
  ELSE (lk.heldBy = NULL \/ ~lk.heldW) /\ lk.kind = "rdwr"

PostNew(t) ==
  IF pc[t].w THEN lockN_acquire_writer(PostLock(t), t) ELSE lockN_acquire_reader(PostLock(t), t)

LEMMA PostCases ==
  ASSUME TypeOK, NEW t \in Thr, LOCK_POST(t)
  PROVE  /\ pc[t].op = "post" /\ pc[t].a \in Addr /\ pc[t].w \in BOOLEAN
         /\ PostLock(t) \in LockRecord
         /\ Known(pc[t].a) => PostLock(t) = map_locks[pc[t].a]
         /\ ~Known(pc[t].a) => /\ PostLock(t).heldBy = NULL /\ ~PostLock(t).heldW
                               /\ PostLock(t).kind = IF pc[t].w /\ IsMutex(pc[t].a)
                                                       THEN "mbRec" ELSE "rdwr"
         /\ pc' = [pc EXCEPT ![t] = Idle] /\ UNCHANGED <<misused, realKind, realW, realBy>>
         /\ \/ Believable(PostLock(t), t, pc[t].w) /\ Acquired(t, pc[t].a, PostNew(t), pc[t].w)
            \/ ~Believable(PostLock(t), t, pc[t].w) /\ LibpthreadBug(pc[t].a, PostLock(t))
            \/ /\ ~Believable(PostLock(t), t, pc[t].w) /\ aborted' = TRUE /\ errs' = {}
               /\ UNCHANGED <<map_locks, locksetA, locksetW, laog, order>>
<1> DEFINE a == pc[t].a
<1>1. pc[t].op = "post" /\ a \in Addr /\ pc[t].w \in BOOLEAN
  BY PcFields DEF LOCK_POST, TypeOK
<1>2. "mbRec" \in AllKinds /\ "rdwr" \in AllKinds
  BY DEF AllKinds
<1>3. /\ PostLock(t) \in LockRecord
      /\ Known(a) => PostLock(t) = map_locks[a]
      /\ ~Known(a) => /\ PostLock(t).heldBy = NULL /\ ~PostLock(t).heldW
                      /\ PostLock(t).kind = IF pc[t].w /\ IsMutex(a) THEN "mbRec" ELSE "rdwr"
  BY <1>1, <1>2, NewRecord DEF PostLock, map_locks_lookup_or_create, Known, TypeOK
<1>4. pc' = [pc EXCEPT ![t] = Idle] /\ UNCHANGED <<misused, realKind, realW, realBy>>
  BY DEF LOCK_POST, realVars
<1>5. CASE pc[t].w
  <2>1. evhH__post_thread_w_acquires_lock(t, IF IsMutex(a) THEN "mbRec" ELSE "rdwr", a)
    BY <1>5 DEF LOCK_POST
  <2>2. PostLock(t) = map_locks_lookup_or_create(IF IsMutex(a) THEN "mbRec" ELSE "rdwr", a)
    BY <1>5 DEF PostLock
  <2>3. \/ Believable(PostLock(t), t, pc[t].w) /\ Acquired(t, a, PostNew(t), pc[t].w)
        \/ ~Believable(PostLock(t), t, pc[t].w) /\ LibpthreadBug(a, PostLock(t))
    <3>1. pc[t].w = TRUE
      BY <1>1, <1>5
    <3> QED BY <2>1, <2>2, <3>1 DEF evhH__post_thread_w_acquires_lock, Believable, PostNew
  <2> QED BY <2>3, <1>1, <1>3, <1>4
<1>6. CASE ~pc[t].w
  <2>1. evhH__post_thread_r_acquires_lock(t, a)
    BY <1>6 DEF LOCK_POST
  <2>2. PostLock(t) = map_locks_lookup_or_create("rdwr", a)
    BY <1>6 DEF PostLock
  <2>3. pc[t].w = FALSE
    BY <1>1, <1>6
  <2>4. \/ Believable(PostLock(t), t, pc[t].w) /\ Acquired(t, a, PostNew(t), pc[t].w)
        \/ ~Believable(PostLock(t), t, pc[t].w) /\ LibpthreadBug(a, PostLock(t))
        \/ /\ ~Believable(PostLock(t), t, pc[t].w) /\ aborted' = TRUE /\ errs' = {}
           /\ UNCHANGED <<map_locks, locksetA, locksetW, laog, order>>
    BY <2>1, <2>2, <2>3 DEF evhH__post_thread_r_acquires_lock, Believable, PostNew
  <2> QED BY <2>4, <1>1, <1>3, <1>4
<1> QED BY <1>5, <1>6

\* The same with the values before the step named: thread t is told of the
\* grant of a, whose record is lk and would become new.
PostStep(t, a, w, lk, new) ==
  /\ pc[t].op = "post" /\ pc[t].a = a /\ pc[t].w = w
  /\ Known(a) => lk = map_locks[a]
  /\ ~Known(a) => /\ lk.heldBy = NULL /\ ~lk.heldW
                  /\ lk.kind = IF w /\ IsMutex(a) THEN "mbRec" ELSE "rdwr"
  /\ new = IF w THEN lockN_acquire_writer(lk, t) ELSE lockN_acquire_reader(lk, t)
  /\ pc' = [pc EXCEPT ![t] = Idle] /\ UNCHANGED <<misused, realKind, realW, realBy>>
  /\ \/ Believable(lk, t, w) /\ Acquired(t, a, new, w)
     \/ ~Believable(lk, t, w) /\ LibpthreadBug(a, lk)
     \/ /\ ~Believable(lk, t, w) /\ aborted' = TRUE /\ errs' = {}
        /\ UNCHANGED <<map_locks, locksetA, locksetW, laog, order>>

LEMMA PostEffect ==
  ASSUME TypeOK, NEW t \in Thr, LOCK_POST(t)
  PROVE  \E a \in Addr, w \in BOOLEAN, lk \in LockRecord, new \in LockRecord :
           PostStep(t, a, w, lk, new)
<1>1. pc[t].a \in Addr /\ pc[t].w \in BOOLEAN /\ PostLock(t) \in LockRecord
  BY PostCases
<1>2. PostNew(t) \in LockRecord
  BY <1>1, AcquiredRecord DEF PostNew
<1>3. PostStep(t, pc[t].a, pc[t].w, PostLock(t), PostNew(t))
  BY PostCases DEF PostStep, PostNew
<1> QED BY <1>1, <1>2, <1>3

\* An unlock that finds the lock held by its thread, or is complained about.
LEMMA UnlockCases ==
  ASSUME TypeOK, NEW t \in Thr, NEW a \in Addr, UNLOCK_PRE(t, a)
  PROVE  LET rel == lockN_release(map_locks[a], t)
         IN \/ /\ Known(a) /\ map_locks[a] \in LockRecord /\ map_locks[a].heldBy[t] > 0
               /\ map_locks' = [map_locks EXCEPT ![a] = rel]
               /\ errs' = KindErrs(a)
               /\ aborted' = (rel.heldBy[t] = 0 /\ rel.heldBy # NULL)
               /\ IF rel.heldBy[t] = 0 /\ ~aborted'
                    THEN /\ locksetA' = [locksetA EXCEPT ![t] = @ \ {a}]
                         /\ locksetW' = [locksetW EXCEPT ![t] = @ \ {a}]
                    ELSE UNCHANGED <<locksetA, locksetW>>
               /\ UNCHANGED <<laog, order>>
            \/ /\ ~Known(a) \/ map_locks[a].heldBy[t] = 0
               /\ \E e \in {"UnlockBogus", "UnlockUnlocked", "UnlockForeign"} :
                    errs' = KindErrs(a) \cup {e}
               /\ UNCHANGED <<map_locks, locksetA, locksetW, laog, aborted, order>>
<1>1. evhH__pre_thread_releases_lock(t, a)
  BY DEF UNLOCK_PRE
<1>2. Known(a) => map_locks[a] \in LockRecord /\ map_locks[a].heldBy[t] \in Nat
                  /\ (map_locks[a].heldBy = NULL => map_locks[a].heldBy[t] = 0)
  BY NullType DEF TypeOK, Known, LockRecord, Bag
<1> QED BY <1>1, <1>2 DEF evhH__pre_thread_releases_lock, toolVars

----------------------------------------------------------------------------
(* Type correctness *)

ClientType ==
  /\ realKind \in [Addr -> Kinds] /\ realW \in [Addr -> BOOLEAN] /\ realBy \in [Addr -> Bag]
  /\ pc \in [Thr -> PC] /\ misused \in BOOLEAN
LocksType ==
  /\ map_locks \in [Addr -> LockRecord \cup {NoLock}]
  /\ locksetA \in [Thr -> SUBSET Addr] /\ locksetW \in [Thr -> SUBSET Addr]
  /\ aborted \in BOOLEAN
ErrKinds == {"WrongKind", "Relock", "LockOrder", "LibpthreadBug", "UnlockBogus",
             "UnlockUnlocked", "UnlockForeign", "DestroyInvalid", "DestroyLocked"}
GraphType == laog \in Graph /\ order \subseteq Addr \X Addr

LEMMA TypeParts == TypeOK <=> ClientType /\ LocksType /\ GraphType /\ errs \subseteq ErrKinds
BY DEF TypeOK, ClientType, LocksType, GraphType, Graph, ErrKinds

LEMMA TypeInit == Init => TypeOK
<1> SUFFICES ASSUME Init PROVE TypeOK
  OBVIOUS
<1>1. laog \in Graph
  BY DEF Init, EmptyLaog, Graph
<1>2. realBy \in [Addr -> Bag] /\ pc \in [Thr -> PC]
  BY NullType, PcTypes DEF Init
<1> QED BY <1>1, <1>2 DEF Init, TypeOK, Graph

\* The steps of the client alone.
LEMMA ClientStepType ==
  ASSUME TypeOK, NEW t \in Thr, Grant(t) \/ TryFails(t) \/ RealUnlock(t)
  PROVE  TypeOK'
<1>1. pc[t] \in PC /\ Idle \in PC
  BY PcTypes DEF TypeOK
<1>2. UNCHANGED <<realKind, misused, map_locks, locksetA, locksetW, laog, aborted, order>>
      /\ errs' = {}
  BY DEF Grant, TryFails, RealUnlock, toolVars, realVars
<1>3. CASE Grant(t)
  <2>0. pc[t].op = "call"
    BY <1>3 DEF Grant
  <2>1. pc[t].a \in Addr /\ pc[t].w \in BOOLEAN /\ [pc[t] EXCEPT !.op = "post"] \in PC
    <3>1. /\ pc[t].a \in Addr /\ pc[t].w \in BOOLEAN
          /\ [pc[t] EXCEPT !.op = "post"] = [op |-> "post", a |-> pc[t].a, w |-> pc[t].w]
      BY <1>1, <2>0, PcFields
    <3> QED BY <3>1, PcTypes
  <2>2. pc' \in [Thr -> PC]
    BY <1>3, <2>1 DEF Grant, TypeOK
  <2>3. realW' \in [Addr -> BOOLEAN]
    BY <1>3, <2>1 DEF Grant, TypeOK
  <2>4. realBy' \in [Addr -> Bag]
    BY <1>3, <2>1 DEF Grant, TypeOK, Bag
  <2> QED BY <1>2, <2>2, <2>3, <2>4 DEF TypeOK
<1>4. CASE TryFails(t)
  BY <1>1, <1>2, <1>4 DEF TryFails, realVars, TypeOK
<1>5. CASE RealUnlock(t)
  <2>1. pc[t].a \in Addr
    BY <1>1, <1>5, PcFields DEF RealUnlock
  <2>2. pc' \in [Thr -> PC]
    BY <1>1, <1>5 DEF RealUnlock, TypeOK
  <2>3. realW' \in [Addr -> BOOLEAN]
    BY <1>5, <2>1 DEF RealUnlock, TypeOK
  <2>4. realBy' \in [Addr -> Bag]
    <3>1. realBy[pc[t].a] \in [Thr -> Nat] /\ realBy[pc[t].a][t] \in Nat
      BY <2>1 DEF TypeOK, Bag
    <3>2. realBy[pc[t].a][t] > 0 => [realBy[pc[t].a] EXCEPT ![t] = @ - 1] \in Bag
      BY <3>1 DEF Bag
    <3> QED BY <1>5, <2>1, <3>2, NullType DEF RealUnlock, TypeOK
  <2> QED BY <1>2, <2>2, <2>3, <2>4 DEF TypeOK
<1> QED BY <1>3, <1>4, <1>5

LEMMA PostType ==
  ASSUME TypeOK, NEW t \in Thr, LOCK_POST(t)
  PROVE  TypeOK'
<1> DEFINE a == pc[t].a
<1>1. a \in Addr /\ pc[t].w \in BOOLEAN /\ PostLock(t) \in LockRecord
  BY PostCases
<1>2. ClientType'
  <2>1. pc' = [pc EXCEPT ![t] = Idle] /\ UNCHANGED <<misused, realKind, realW, realBy>>
    BY PostCases
  <2> QED BY <2>1, PcTypes DEF TypeOK, ClientType
<1>3. PostNew(t) \in LockRecord
  BY <1>1, AcquiredRecord DEF PostNew
<1>4. laog \in Graph
  BY TypeParts DEF GraphType
<1>5. CASE Acquired(t, a, PostNew(t), pc[t].w)
  <2>1. LocksType'
    BY <1>1, <1>3, <1>5 DEF Acquired, LocksType, TypeOK
  <2>2. laog' \in Graph
    <3>1. locksetA[t] \in SUBSET Addr
      BY DEF TypeOK
    <3> QED BY <1>1, <1>4, <1>5, <3>1, AcquireType DEF Acquired
  <2>3. order' \subseteq Addr \X Addr
    BY <1>5 DEF Acquired, TypeOK
  <2>4. errs' \subseteq ErrKinds
    BY <1>5 DEF Acquired, OrderErrs, ErrKinds
  <2> QED BY <1>2, <2>1, <2>2, <2>3, <2>4 DEF TypeOK, Graph, LocksType, ClientType, ErrKinds
<1>6. CASE LibpthreadBug(a, PostLock(t))
  BY <1>1, <1>2, <1>6 DEF LibpthreadBug, TypeOK, ClientType
<1>7. CASE /\ aborted' = TRUE /\ errs' = {}
           /\ UNCHANGED <<map_locks, locksetA, locksetW, laog, order>>
  BY <1>2, <1>7 DEF TypeOK, ClientType
<1> QED BY <1>5, <1>6, <1>7, PostCases

LEMMA KindErrsType == ASSUME NEW a PROVE KindErrs(a) \subseteq {"WrongKind"}
BY DEF KindErrs

LEMMA UnlockType ==
  ASSUME TypeOK, NEW t \in Thr, NEW a \in Addr, UNLOCK_PRE(t, a)
  PROVE  TypeOK'
<1>1. ClientType'
  BY PcTypes DEF UNLOCK_PRE, realVars, TypeOK, ClientType
<1>2. LocksType' /\ UNCHANGED <<laog, order>> /\ errs' \subseteq ErrKinds
  <2> DEFINE rel == lockN_release(map_locks[a], t)
  <2>1. KindErrs(a) \subseteq {"WrongKind"}
    BY KindErrsType
  <2>2. CASE Known(a) /\ map_locks[a] \in LockRecord /\ map_locks[a].heldBy[t] > 0
    <3>1. rel \in LockRecord
      BY <2>2, ReleasedRecord
    <3>2. map_locks[a].heldBy[t] # 0
      BY <2>2
    <3>3. /\ map_locks' = [map_locks EXCEPT ![a] = rel] /\ errs' = KindErrs(a)
          /\ aborted' = (rel.heldBy[t] = 0 /\ rel.heldBy # NULL)
          /\ \/ /\ locksetA' = [locksetA EXCEPT ![t] = @ \ {a}]
                /\ locksetW' = [locksetW EXCEPT ![t] = @ \ {a}]
             \/ UNCHANGED <<locksetA, locksetW>>
          /\ UNCHANGED <<laog, order>>
      BY <2>2, <3>2, UnlockCases
    <3>4. map_locks' \in [Addr -> LockRecord \cup {NoLock}]
      BY <3>1, <3>3 DEF TypeOK
    <3>5. locksetA' \in [Thr -> SUBSET Addr] /\ locksetW' \in [Thr -> SUBSET Addr]
      BY <3>3 DEF TypeOK
    <3> QED BY <2>1, <3>3, <3>4, <3>5 DEF LocksType, ErrKinds
  <2>3. CASE ~(Known(a) /\ map_locks[a] \in LockRecord /\ map_locks[a].heldBy[t] > 0)
    BY <2>1, <2>3, UnlockCases DEF TypeOK, LocksType, ErrKinds
  <2> QED BY <2>2, <2>3
<1> QED BY <1>1, <1>2 DEF TypeOK, ClientType, LocksType, ErrKinds

LEMMA DestroyType ==
  ASSUME TypeOK, NEW t \in Thr, NEW a \in Addr, DESTROY_PRE(t, a)
  PROVE  TypeOK'
<1>1. ClientType'
  BY DEF DESTROY_PRE, realVars, TypeOK, ClientType
<1>2. LocksType'
  BY DEF DESTROY_PRE, remove_Lock_from_locksets_of_all_owning_Threads, TypeOK, LocksType
<1>3. laog' \in Graph
  BY TypeParts, DeletionType DEF DESTROY_PRE, GraphType
<1>4. order' \subseteq Addr \X Addr
  BY DEF DESTROY_PRE, TypeOK
<1>5. errs' \subseteq ErrKinds
  BY DEF DESTROY_PRE, ErrKinds
<1> QED BY <1>1, <1>2, <1>3, <1>4, <1>5 DEF TypeOK, ClientType, LocksType, ErrKinds, Graph

LEMMA TypeStep == TypeOK /\ [Next]_vars => TypeOK'
<1> SUFFICES ASSUME TypeOK, [Next]_vars PROVE TypeOK'
  OBVIOUS
<1>1. ASSUME NEW t \in Thr, NEW a \in Addr, INIT_POST(t, a) PROVE TypeOK'
  <2>1. map_locks_lookup_or_create(realKind[a], a) \in LockRecord
    BY LocksAssumption, NewRecord DEF map_locks_lookup_or_create, Known, TypeOK
  <2> QED BY <1>1, <2>1 DEF INIT_POST, realVars, TypeOK
<1>2. ASSUME NEW t \in Thr, NEW a \in Addr, NEW w \in BOOLEAN, NEW isTry \in BOOLEAN,
             LOCK_PRE(t, a, w, isTry)
      PROVE  TypeOK'
  <2>1. [op |-> "call", a |-> a, w |-> w] \in PC
    BY PcTypes
  <2>2. errs' \subseteq ErrKinds
    BY <1>2, KindErrsType DEF LOCK_PRE, ErrKinds
  <2> QED BY <1>2, <2>1, <2>2 DEF LOCK_PRE, realVars, toolVars, TypeOK, ErrKinds
<1>3. ASSUME NEW a \in Addr, NEW k \in Kinds, ReuseMemory(a, k) PROVE TypeOK'
  BY <1>3 DEF ReuseMemory, toolVars, TypeOK
<1>4. CASE UNCHANGED vars
  BY <1>4 DEF vars, TypeOK
<1> QED BY <1>1, <1>2, <1>3, <1>4, ClientStepType, PostType, UnlockType, DestroyType
    DEF Next, Steps

\* The client's and the tool's records of the locks are well typed.
THEOREM LocksAreTyped == Spec => []TypeOK
BY TypeInit, TypeStep, PTL DEF Spec

----------------------------------------------------------------------------
(* The order graph is the order in which locks were acquired *)

GraphInv == Consistent(laog) /\ ClosureOf(order, laog)

LEMMA GraphInvInit == Init => GraphInv
<1> SUFFICES ASSUME Init PROVE GraphInv
  OBVIOUS
<1>1. order = {} /\ \A a \in Addr : laog.outs[a] = {} /\ laog.inns[a] = {}
  BY DEF Init, EmptyLaog
<1> QED BY <1>1 DEF GraphInv, Consistent, ClosureOf, Transitive

\* Most steps leave the graph alone.
LEMMA GraphUnchanged == GraphInv /\ UNCHANGED <<laog, order>> => GraphInv'
<1> SUFFICES ASSUME GraphInv, laog' = laog, order' = order PROVE GraphInv'
  OBVIOUS
<1>1. Consistent(laog)' = Consistent(laog) /\ ClosureOf(order, laog)' = ClosureOf(order, laog)
  BY DEF Consistent, ClosureOf, Closed, Transitive
<1> QED BY <1>1 DEF GraphInv

LEMMA GraphStep == TypeOK /\ GraphInv /\ [Next]_vars => GraphInv'
<1> SUFFICES ASSUME TypeOK, GraphInv, [Next]_vars PROVE GraphInv'
  OBVIOUS
<1>1. laog \in Graph /\ order \in SUBSET (Addr \X Addr)
  BY DEF TypeOK, Graph
<1>2. ASSUME NEW t \in Thr, NEW a \in Addr, NEW lk, NEW w, Acquired(t, a, lk, w) PROVE GraphInv'
  <2>1. locksetA[t] \in SUBSET Addr
    BY DEF TypeOK
  <2>2. CASE a \in locksetA[t]
    BY <1>2, <2>2, GraphUnchanged DEF Acquired, laog__pre_thread_acquires_lock
  <2>3. CASE a \notin locksetA[t]
    <3>1. order' = Extended(order, locksetA[t], a)
      BY <1>2, <2>3 DEF Acquired, Extended
    <3>2. laog' = laog__pre_thread_acquires_lock(laog, locksetA[t], a, AcquiredWith(a))
      BY <1>2 DEF Acquired
    <3>3. Consistent(laog') /\ ClosureOf(order', laog')
      BY <1>1, <2>1, <2>3, <3>1, <3>2, AcquireGraph DEF GraphInv
    <3> QED BY <3>3 DEF GraphInv, Consistent, ClosureOf, Closed, Transitive
  <2> QED BY <2>2, <2>3
<1>3. ASSUME NEW t \in Thr, LOCK_POST(t) PROVE GraphInv'
  BY <1>2, <1>3, PostCases, GraphUnchanged DEF LibpthreadBug
<1>4. ASSUME NEW t \in Thr, NEW a \in Addr, DESTROY_PRE(t, a) PROVE GraphInv'
  <2>1. CASE ~Known(a)
    BY <1>4, <2>1, GraphUnchanged DEF DESTROY_PRE
  <2>2. CASE Known(a)
    <3>1. /\ laog' = laog__handle_one_lock_deletion(laog, a, {b \in Addr : Held(b)} \ {a})
          /\ order' = {e \in order : e[1] # a /\ e[2] # a}
      BY <1>4, <2>2 DEF DESTROY_PRE
    <3>2. Consistent(laog') /\ ClosureOf(order', laog')
      BY <1>1, <3>1, DeletionGraph DEF GraphInv
    <3> QED BY <3>2 DEF GraphInv, Consistent, ClosureOf, Closed, Transitive
  <2> QED BY <2>1, <2>2
<1>5. ASSUME NEW t \in Thr, NEW a \in Addr, UNLOCK_PRE(t, a) PROVE GraphInv'
  BY <1>5, UnlockCases, GraphUnchanged
<1>6. ASSUME NEW t \in Thr, Grant(t) \/ TryFails(t) \/ RealUnlock(t) PROVE GraphInv'
  BY <1>6, GraphUnchanged DEF Grant, TryFails, RealUnlock, toolVars
<1>7. ASSUME NEW t \in Thr, NEW a \in Addr, INIT_POST(t, a) PROVE GraphInv'
  BY <1>7, GraphUnchanged DEF INIT_POST
<1>8. ASSUME NEW t \in Thr, NEW a \in Addr, NEW w \in BOOLEAN, NEW isTry \in BOOLEAN,
             LOCK_PRE(t, a, w, isTry)
      PROVE  GraphInv'
  BY <1>8, GraphUnchanged DEF LOCK_PRE, toolVars
<1>9. ASSUME NEW a \in Addr, NEW k \in Kinds, ReuseMemory(a, k) PROVE GraphInv'
  BY <1>9, GraphUnchanged DEF ReuseMemory, toolVars
<1>10. CASE UNCHANGED vars
  BY <1>10, GraphUnchanged DEF vars
<1> QED BY <1>3, <1>4, <1>5, <1>6, <1>7, <1>8, <1>9, <1>10 DEF Next, Steps

\* The acquisition order graph knows exactly the order in which locks that
\* still exist were acquired, through any number of acquisitions, deletions
\* and locks made again at the same address.
THEOREM OrderGraphIsExact == Spec => []LaogIsOrder
<1>1. Init => TypeOK /\ GraphInv
  BY TypeInit, GraphInvInit
<1>2. TypeOK /\ GraphInv /\ [Next]_vars => TypeOK' /\ GraphInv'
  BY TypeStep, GraphStep
<1>3. TypeOK /\ GraphInv => LaogIsOrder
  <2> SUFFICES ASSUME TypeOK, GraphInv, NEW a \in Addr, NEW b \in Addr, a # b
               PROVE  b \in Reach(laog, a) <=> <<a, b>> \in order
    BY DEF LaogIsOrder
  <2>1. laog \in Graph /\ order \in SUBSET (Addr \X Addr)
    BY DEF TypeOK, Graph
  <2> QED BY <2>1, ReachIsClosure DEF GraphInv
<1> QED BY <1>1, <1>2, <1>3, PTL DEF Spec

----------------------------------------------------------------------------
(* Locksets and holders *)

\* is_sane_LockN with the bag spelled out.
LEMMA SaneMeans ==
  ASSUME NEW lk \in LockRecord
  PROVE  is_sane_LockN(lk) <=>
           /\ lk.heldW => \E t \in Thr : /\ lk.heldBy[t] > 0
                                         /\ \A u \in Thr : u # t => lk.heldBy[u] = 0
                                         /\ lk.kind # "mbRec" => lk.heldBy[t] = 1
           /\ ~lk.heldW /\ (\E t \in Thr : lk.heldBy[t] # 0) => lk.kind = "rdwr"
<1>1. lk.heldBy \in Bag
  BY DEF LockRecord
<1>2. lk.heldBy # NULL <=> \E t \in Thr : lk.heldBy[t] # 0
  BY <1>1, NullIsZero
<1> QED BY <1>2 DEF is_sane_LockN

LEMMA SaneAcquire ==
  ASSUME NEW lk \in LockRecord, is_sane_LockN(lk), NEW t \in Thr, NEW w \in BOOLEAN,
         w => lk.heldBy = NULL \/ (lk.heldW /\ lk.heldBy[t] > 0 /\ lk.kind = "mbRec"),
         ~w => lk.kind = "rdwr",
         NEW new,
         new = IF w THEN lockN_acquire_writer(lk, t) ELSE lockN_acquire_reader(lk, t)
  PROVE  is_sane_LockN(new)
<1>1. /\ new \in LockRecord /\ new.kind = lk.kind /\ new.heldW = w
      /\ new.heldBy[t] = lk.heldBy[t] + 1
      /\ \A u \in Thr : u # t => new.heldBy[u] = lk.heldBy[u]
  BY AcquiredRecord
<1>2. lk.heldBy \in [Thr -> Nat] /\ \A u \in Thr : lk.heldBy[u] \in Nat
  BY DEF LockRecord, Bag
<1>3. CASE w /\ lk.heldBy = NULL
  <2>1. new.heldW
    BY <1>1, <1>3
  <2>2. new.heldBy[t] = 1 /\ \A u \in Thr : u # t => new.heldBy[u] = 0
    BY <1>1, <1>3, NullType
  <2> QED BY <1>1, <2>1, <2>2, SaneMeans
<1>4. CASE w /\ lk.heldW /\ lk.heldBy[t] > 0 /\ lk.kind = "mbRec"
  <2>1. \A u \in Thr : u # t => lk.heldBy[u] = 0
    BY <1>4, SaneMeans
  <2>2. new.heldW
    BY <1>1, <1>4
  <2>3. new.heldBy[t] > 0 /\ \A u \in Thr : u # t => new.heldBy[u] = 0
    BY <1>1, <1>2, <1>4, <2>1
  <2> QED BY <1>1, <1>4, <2>2, <2>3, SaneMeans
<1>5. CASE ~w
  BY <1>1, <1>5, SaneMeans
<1> QED BY <1>3, <1>4, <1>5

LEMMA SaneRelease ==
  ASSUME NEW lk \in LockRecord, is_sane_LockN(lk), NEW t \in Thr, lk.heldBy[t] > 0,
         NEW new, new = lockN_release(lk, t)
  PROVE  is_sane_LockN(new)
<1>1. /\ new \in LockRecord /\ new.kind = lk.kind
      /\ new.heldW <=> lk.heldW /\ new.heldBy # NULL
      /\ new.heldBy[t] = lk.heldBy[t] - 1
      /\ \A u \in Thr : u # t => new.heldBy[u] = lk.heldBy[u]
  BY ReleasedRecord
<1>2. /\ lk.heldBy[t] \in Nat /\ new.heldBy[t] \in Nat /\ new.heldBy \in Bag
      /\ \A u \in Thr : lk.heldBy[u] \in Nat
  BY <1>1 DEF LockRecord, Bag
<1>3. CASE ~lk.heldW
  BY <1>1, <1>2, <1>3, SaneMeans
<1>4. CASE lk.heldW
  <2>1. /\ \A u \in Thr : u # t => lk.heldBy[u] = 0
        /\ lk.kind # "mbRec" => lk.heldBy[t] = 1
    BY <1>2, <1>4, SaneMeans
  <2>2. new.heldBy # NULL <=> new.heldBy[t] # 0
    BY <1>1, <1>2, <2>1, NullIsZero
  <2> QED BY <1>1, <1>2, <1>4, <2>1, <2>2, SaneMeans
<1> QED BY <1>3, <1>4

\* What LocksetsMatch says of thread t and lock a.
SetsMatch(t, a) ==
  /\ a \in locksetA[t] <=> Known(a) /\ map_locks[a].heldBy[t] > 0
  /\ a \in locksetW[t] <=> Known(a) /\ map_locks[a].heldBy[t] > 0 /\ map_locks[a].heldW

Sane(a) == Known(a) => is_sane_LockN(map_locks[a])

LEMMA MatchParts ==
  LocksetsMatch <=> /\ \A a \in Addr : Sane(a)
                    /\ ~aborted => \A t \in Thr, a \in Addr : SetsMatch(t, a)
BY DEF LocksetsMatch, Sane, SetsMatch

LEMMA MatchInit == Init => LocksetsMatch
BY DEF Init, LocksetsMatch, Known

LEMMA MatchUnchanged ==
  LocksetsMatch /\ UNCHANGED <<map_locks, locksetA, locksetW, aborted>> => LocksetsMatch'
BY DEF LocksetsMatch, Known, is_sane_LockN

\* Lock a gets the record lk, nothing else changes in map_locks.
LEMMA OneRecord ==
  ASSUME TypeOK, NEW a \in Addr, NEW lk \in LockRecord,
         map_locks' = [map_locks EXCEPT ![a] = lk]
  PROVE  /\ map_locks'[a] = lk /\ Known(a)'
         /\ \A b \in Addr : b # a => map_locks'[b] = map_locks[b] /\ (Known(b)' <=> Known(b))
<1>1. map_locks'[a] = lk /\ \A b \in Addr : b # a => map_locks'[b] = map_locks[b]
  BY DEF TypeOK
<1> QED BY <1>1, NoLockAssumption DEF Known

LEMMA PostMatch ==
  ASSUME TypeOK, TypeOK', LocksetsMatch, ~aborted, NEW t \in Thr, LOCK_POST(t)
  PROVE  LocksetsMatch'
<1>0. PICK a \in Addr, w \in BOOLEAN, lk \in LockRecord, new \in LockRecord :
        PostStep(t, a, w, lk, new)
  BY PostEffect
<1>1. /\ Known(a) => lk = map_locks[a]
      /\ ~Known(a) => lk.heldBy = NULL /\ ~lk.heldW
      /\ new = IF w THEN lockN_acquire_writer(lk, t) ELSE lockN_acquire_reader(lk, t)
      /\ \/ Believable(lk, t, w) /\ Acquired(t, a, new, w)
         \/ LibpthreadBug(a, lk)
         \/ aborted' = TRUE /\ UNCHANGED map_locks
  BY <1>0 DEF PostStep
<1>2. is_sane_LockN(lk)
  <2>1. CASE Known(a)
    BY <2>1, <1>1 DEF LocksetsMatch
  <2>2. CASE ~Known(a)
    BY <2>2, <1>1 DEF is_sane_LockN
  <2> QED BY <2>1, <2>2
<1>3. \A u \in Thr : /\ a \in locksetA[u] <=> lk.heldBy[u] > 0
                     /\ a \in locksetW[u] <=> lk.heldBy[u] > 0 /\ lk.heldW
  BY <1>1, NullType DEF LocksetsMatch
<1>4. ASSUME Believable(lk, t, w), Acquired(t, a, new, w) PROVE LocksetsMatch'
  <2>1. /\ new.heldW = w /\ new.heldBy[t] = lk.heldBy[t] + 1
        /\ \A u \in Thr : u # t => new.heldBy[u] = lk.heldBy[u]
    BY <1>1, AcquiredRecord
  <2>2. is_sane_LockN(new)
    BY <1>1, <1>2, <1>4, SaneAcquire DEF Believable
  <2>3. /\ map_locks' = [map_locks EXCEPT ![a] = new]
        /\ locksetA' = [locksetA EXCEPT ![t] = @ \cup {a}]
        /\ locksetW' = IF w THEN [locksetW EXCEPT ![t] = @ \cup {a}] ELSE locksetW
    BY <1>4 DEF Acquired
  <2>4. /\ map_locks'[a] = new /\ Known(a)'
        /\ \A b \in Addr : b # a => map_locks'[b] = map_locks[b] /\ (Known(b)' <=> Known(b))
    BY <2>3, OneRecord
  <2>5. ASSUME NEW b \in Addr, b # a, NEW u \in Thr
        PROVE  /\ b \in locksetA'[u] <=> b \in locksetA[u]
               /\ b \in locksetW'[u] <=> b \in locksetW[u]
    BY <2>3, <2>5 DEF TypeOK
  <2>6. \A b \in Addr : Sane(b)'
    BY <2>2, <2>4 DEF LocksetsMatch, Sane, is_sane_LockN
  <2>7. ASSUME NEW u \in Thr PROVE SetsMatch(u, a)'
    <3>1. \A v \in Thr : lk.heldBy[v] \in Nat
      BY DEF LockRecord, Bag
    <3>2. CASE u = t
      <4>1. a \in locksetA'[t] /\ new.heldBy[t] > 0
        BY <2>1, <2>3, <3>1 DEF TypeOK
      <4>2. a \in locksetW'[t] <=> w
        <5>1. CASE w
          BY <5>1, <2>3 DEF TypeOK
        <5>2. CASE ~w
          <6>1. ~(lk.heldBy[t] > 0 /\ lk.heldW)
            BY <5>2, <1>4, NullType DEF Believable
          <6> QED BY <5>2, <6>1, <1>3, <2>3
        <5> QED BY <5>1, <5>2
      <4> QED BY <3>2, <4>1, <4>2, <2>1, <2>4 DEF SetsMatch
    <3>3. CASE u # t
      <4>1. /\ a \in locksetA'[u] <=> lk.heldBy[u] > 0
            /\ a \in locksetW'[u] <=> lk.heldBy[u] > 0 /\ lk.heldW
            /\ new.heldBy[u] = lk.heldBy[u]
        BY <3>3, <2>1, <1>3, <2>3 DEF TypeOK
      <4>2. lk.heldBy[u] > 0 => (lk.heldW <=> w)
        <5> SUFFICES ASSUME lk.heldBy[u] > 0 PROVE lk.heldW <=> w
          OBVIOUS
        <5>1. lk.heldBy # NULL
          BY NullType
        <5> QED BY <5>1, <1>4 DEF Believable
      <4> QED BY <4>1, <4>2, <2>1, <2>4 DEF SetsMatch
    <3> QED BY <3>2, <3>3
  <2>8. \A u \in Thr, b \in Addr : SetsMatch(u, b)'
    BY <2>4, <2>5, <2>7 DEF LocksetsMatch, SetsMatch
  <2> QED BY <2>6, <2>8 DEF LocksetsMatch, Sane, SetsMatch
<1>5. ASSUME LibpthreadBug(a, lk) PROVE LocksetsMatch'
  <2>1. map_locks' = [map_locks EXCEPT ![a] = lk] /\ UNCHANGED <<locksetA, locksetW, aborted>>
    BY <1>5 DEF LibpthreadBug
  <2>2. /\ map_locks'[a] = lk /\ Known(a)'
        /\ \A b \in Addr : b # a => map_locks'[b] = map_locks[b] /\ (Known(b)' <=> Known(b))
    BY <2>1, OneRecord
  <2>4. \A b \in Addr : Sane(b)'
    BY <1>2, <2>2 DEF LocksetsMatch, Sane, is_sane_LockN
  <2>5. \A u \in Thr, b \in Addr : SetsMatch(u, b)'
    BY <1>3, <2>1, <2>2 DEF LocksetsMatch, SetsMatch
  <2> QED BY <2>4, <2>5 DEF LocksetsMatch, Sane, SetsMatch
<1>6. ASSUME aborted' = TRUE, UNCHANGED map_locks PROVE LocksetsMatch'
  BY <1>6 DEF LocksetsMatch, Known, is_sane_LockN
<1> QED BY <1>1, <1>4, <1>5, <1>6

LEMMA UnlockMatch ==
  ASSUME TypeOK, LocksetsMatch, ~aborted, NEW t \in Thr, NEW a \in Addr, UNLOCK_PRE(t, a)
  PROVE  LocksetsMatch'
<1>1. CASE UNCHANGED <<map_locks, locksetA, locksetW, aborted>>
  BY <1>1, MatchUnchanged
<1>2. CASE ~UNCHANGED <<map_locks, locksetA, locksetW, aborted>>
  <2>0. PICK lk \in LockRecord : lk = map_locks[a]
    BY <1>2, UnlockCases
  <2>1. PICK rel : lk = map_locks[a] /\ rel = lockN_release(lk, t)
    BY <2>0
  <2>2. /\ Known(a) /\ lk.heldBy[t] > 0
        /\ map_locks' = [map_locks EXCEPT ![a] = rel]
        /\ aborted' = (rel.heldBy[t] = 0 /\ rel.heldBy # NULL)
        /\ IF rel.heldBy[t] = 0 /\ ~aborted'
             THEN /\ locksetA' = [locksetA EXCEPT ![t] = @ \ {a}]
                  /\ locksetW' = [locksetW EXCEPT ![t] = @ \ {a}]
             ELSE UNCHANGED <<locksetA, locksetW>>
    BY <1>2, <2>1, UnlockCases
  <2>3. /\ rel \in LockRecord
        /\ rel.heldW <=> lk.heldW /\ rel.heldBy # NULL
        /\ rel.heldBy[t] = lk.heldBy[t] - 1
        /\ \A u \in Thr : u # t => rel.heldBy[u] = lk.heldBy[u]
    BY <2>1, <2>2, ReleasedRecord
  <2>4. is_sane_LockN(lk) /\ is_sane_LockN(rel)
    BY <2>1, <2>2, SaneRelease DEF LocksetsMatch
  <2>5. /\ map_locks'[a] = rel /\ Known(a)'
        /\ \A b \in Addr : b # a => map_locks'[b] = map_locks[b] /\ (Known(b)' <=> Known(b))
    BY <2>2, <2>3, OneRecord
  <2>6. \A b \in Addr : Sane(b)'
    BY <2>4, <2>5 DEF LocksetsMatch, Sane, is_sane_LockN
  <2>7. ASSUME ~aborted' PROVE \A u \in Thr, b \in Addr : SetsMatch(u, b)'
    <3>1. /\ \A u \in Thr : rel.heldBy[u] \in Nat /\ lk.heldBy[u] \in Nat
          /\ rel.heldBy \in Bag
      BY <2>3 DEF LockRecord, Bag
    <3>2. rel.heldBy[t] = 0 => rel.heldBy = NULL
      BY <2>2, <2>7
    <3>3. \A u \in Thr : /\ a \in locksetA[u] <=> lk.heldBy[u] > 0
                         /\ a \in locksetW[u] <=> lk.heldBy[u] > 0 /\ lk.heldW
      BY <2>1, <2>2 DEF LocksetsMatch
    <3>4. ASSUME NEW u \in Thr, NEW b \in Addr, b # a
          PROVE  /\ b \in locksetA'[u] <=> b \in locksetA[u]
                 /\ b \in locksetW'[u] <=> b \in locksetW[u]
      BY <2>2, <3>4 DEF TypeOK
    <3>5. ASSUME NEW u \in Thr PROVE SetsMatch(u, a)'
      <4>1. CASE rel.heldBy[t] = 0
        <5>1. rel.heldBy[u] = 0
          BY <3>2, <4>1, NullType
        <5>2. u # t => lk.heldBy[u] = 0
          BY <5>1, <2>3
        <5>3. a \notin locksetA'[u] /\ a \notin locksetW'[u]
          BY <5>2, <4>1, <2>2, <2>7, <3>3 DEF TypeOK
        <5> QED BY <5>1, <5>3, <2>5 DEF SetsMatch
      <4>2. CASE rel.heldBy[t] # 0
        <5>1. locksetA'[u] = locksetA[u] /\ locksetW'[u] = locksetW[u]
          BY <4>2, <2>2
        <5>2. rel.heldBy[u] > 0 <=> lk.heldBy[u] > 0
          BY <4>2, <2>2, <2>3, <3>1
        <5>3. rel.heldW <=> lk.heldW
          BY <4>2, <2>3, NullType
        <5> QED BY <5>1, <5>2, <5>3, <2>5, <3>3 DEF SetsMatch
      <4> QED BY <4>1, <4>2
    <3> QED BY <3>4, <3>5, <2>5 DEF LocksetsMatch, SetsMatch
  <2> QED BY <2>6, <2>7 DEF LocksetsMatch, Sane, SetsMatch
<1> QED BY <1>1, <1>2

LEMMA DestroyMatch ==
  ASSUME TypeOK, LocksetsMatch, ~aborted, NEW t \in Thr, NEW a \in Addr, DESTROY_PRE(t, a)
  PROVE  LocksetsMatch'
<1>1. CASE ~Known(a)
  BY <1>1, MatchUnchanged DEF DESTROY_PRE
<1>2. CASE Known(a)
  <2>1. /\ map_locks' = [map_locks EXCEPT ![a] = NoLock]
        /\ remove_Lock_from_locksets_of_all_owning_Threads(a)
    BY <1>2 DEF DESTROY_PRE
  <2>2. ~Known(a)' /\ \A b \in Addr : b # a => map_locks'[b] = map_locks[b]
    BY <2>1 DEF TypeOK, Known
  <2>3. \A b \in Addr : Sane(b)'
    BY <2>2 DEF LocksetsMatch, Sane, Known, is_sane_LockN
  <2>4. ASSUME NEW u \in Thr PROVE a \notin locksetA'[u] /\ a \notin locksetW'[u]
    BY <2>1 DEF remove_Lock_from_locksets_of_all_owning_Threads, LocksetsMatch
  <2>5. ASSUME NEW u \in Thr, NEW b \in Addr, b # a
        PROVE  /\ b \in locksetA'[u] <=> b \in locksetA[u]
               /\ b \in locksetW'[u] <=> b \in locksetW[u]
    BY <2>1, <2>5 DEF remove_Lock_from_locksets_of_all_owning_Threads
  <2>6. \A u \in Thr, b \in Addr : SetsMatch(u, b)'
    BY <2>2, <2>4, <2>5 DEF LocksetsMatch, SetsMatch, Known
  <2> QED BY <2>3, <2>6 DEF LocksetsMatch, Sane, SetsMatch
<1> QED BY <1>1, <1>2

LEMMA InitPostMatch ==
  ASSUME TypeOK, LocksetsMatch, NEW t \in Thr, NEW a \in Addr, INIT_POST(t, a)
  PROVE  LocksetsMatch'
<1>1. CASE Known(a)
  <2>1. map_locks' = map_locks
    BY <1>1 DEF INIT_POST, map_locks_lookup_or_create, TypeOK
  <2> QED BY <2>1, MatchUnchanged DEF INIT_POST
<1>2. CASE ~Known(a)
  <2>1. PICK lk \in LockRecord : /\ ~lk.heldW /\ lk.heldBy = NULL
                                 /\ map_locks' = [map_locks EXCEPT ![a] = lk]
    BY <1>2, LocksAssumption, NewRecord DEF INIT_POST, map_locks_lookup_or_create, TypeOK
  <2>2. /\ map_locks'[a] = lk /\ Known(a)'
        /\ \A b \in Addr : b # a => map_locks'[b] = map_locks[b] /\ (Known(b)' <=> Known(b))
    BY <2>1, OneRecord
  <2>3. \A b \in Addr : Sane(b)'
    BY <2>1, <2>2 DEF LocksetsMatch, Sane, is_sane_LockN
  <2>4. ~aborted => \A u \in Thr, b \in Addr : SetsMatch(u, b)'
    BY <1>2, <2>1, <2>2, NullType DEF INIT_POST, LocksetsMatch, SetsMatch
  <2> QED BY <2>3, <2>4 DEF INIT_POST, LocksetsMatch, Sane, SetsMatch
<1> QED BY <1>1, <1>2

LEMMA MatchStep == TypeOK /\ TypeOK' /\ LocksetsMatch /\ [Next]_vars => LocksetsMatch'
<1> SUFFICES ASSUME TypeOK, TypeOK', LocksetsMatch, [Next]_vars PROVE LocksetsMatch'
  OBVIOUS
<1>1. CASE UNCHANGED <<map_locks, locksetA, locksetW, aborted>>
  BY <1>1, MatchUnchanged
<1>2. ASSUME NEW t \in Thr, Grant(t) \/ TryFails(t) \/ RealUnlock(t) PROVE LocksetsMatch'
  BY <1>1, <1>2 DEF Grant, TryFails, RealUnlock, toolVars
<1>3. ASSUME NEW t \in Thr, NEW a \in Addr, NEW w \in BOOLEAN, NEW isTry \in BOOLEAN,
             LOCK_PRE(t, a, w, isTry)
      PROVE  LocksetsMatch'
  BY <1>1, <1>3 DEF LOCK_PRE, toolVars
<1>4. ASSUME NEW a \in Addr, NEW k \in Kinds, ReuseMemory(a, k) PROVE LocksetsMatch'
  BY <1>1, <1>4 DEF ReuseMemory, toolVars
<1> QED BY <1>1, <1>2, <1>3, <1>4, PostMatch, UnlockMatch, DestroyMatch, InitPostMatch
    DEF Next, Steps, vars

\* The locksets that the race checker reads are exactly what the locks record,
\* and every lock record is sane, whatever the client does to its locks.
THEOREM LocksetsAgree == Spec => []LocksetsMatch
<1>1. Init => TypeOK /\ LocksetsMatch
  BY TypeInit, MatchInit
<1>2. TypeOK /\ LocksetsMatch /\ [Next]_vars => TypeOK' /\ LocksetsMatch'
  BY TypeStep, MatchStep
<1> QED BY <1>1, <1>2, PTL DEF Spec

----------------------------------------------------------------------------
(* The tool's view and the real locks *)

ToolHold(t, a) == IF Known(a) THEN map_locks[a].heldBy[t] ELSE 0

\* Thread t is between the grant of a and the report of it, or between the
\* report of an unlock of a and the unlock.
Between(t, a) == IF pc[t].op \in {"post", "unlock"} /\ pc[t].a = a THEN 1 ELSE 0

\* A mutex has one holder, and so has a rwlock held for writing.
Exclusive(a) ==
  IsMutex(a) \/ realW[a] =>
    \A t, u \in Thr : realBy[a][t] > 0 /\ realBy[a][u] > 0 => t = u

\* Only a recursive mutex and a rwlock held for reading are held repeatedly.
Once(a) ==
  realKind[a] = "nonRec" \/ (realKind[a] = "rdwr" /\ realW[a]) =>
    \A t \in Thr : realBy[a][t] <= 1

\* A lock that the tool met at its first acquisition is taken for recursive.
KindAgrees(a) ==
  Known(a) => \/ map_locks[a].kind = realKind[a]
              \/ map_locks[a].kind = "mbRec" /\ realKind[a] = "nonRec"

WriterIsReal(a) == Known(a) /\ map_locks[a].heldW => realW[a]

LockInv(a) ==
  /\ \A t \in Thr : realBy[a][t] = ToolHold(t, a) + Between(t, a)
  /\ Exclusive(a) /\ Once(a) /\ KindAgrees(a) /\ WriterIsReal(a)

PcInv(t) ==
  /\ pc[t].op \in {"call", "post"} /\ IsMutex(pc[t].a) => pc[t].w
  /\ pc[t].op = "post" => realW[pc[t].a] = pc[t].w

\* What ties the tool's view of well-used locks to the real ones.
ClientInv ==
  ~misused => (\A a \in Addr : LockInv(a)) /\ (\A t \in Thr : PcInv(t))

Inv == TypeOK /\ LocksetsMatch /\ ClientInv /\ ErrorsAreReal

LEMMA BetweenType == \A t \in Thr, a \in Addr : Between(t, a) \in {0, 1}
BY DEF Between

LEMMA HoldType ==
  ASSUME TypeOK, NEW t \in Thr, NEW a \in Addr
  PROVE  ToolHold(t, a) \in Nat /\ realBy[a] \in Bag /\ realBy[a][t] \in Nat
BY DEF TypeOK, ToolHold, Known, LockRecord, Bag

\* A writer holds the lock in the tool's records.
LEMMA WriterHolds ==
  ASSUME TypeOK, LocksetsMatch, NEW a \in Addr, Known(a), map_locks[a].heldW
  PROVE  \E t \in Thr : ToolHold(t, a) > 0
BY DEF LocksetsMatch, is_sane_LockN, ToolHold

\* What a step does not touch keeps its invariant.
LEMMA LockFrame ==
  ASSUME NEW a \in Addr, LockInv(a),
         realKind'[a] = realKind[a], realW'[a] = realW[a], realBy'[a] = realBy[a],
         map_locks'[a] = map_locks[a], \A t \in Thr : Between(t, a)' = Between(t, a)
  PROVE  LockInv(a)'
BY DEF LockInv, ToolHold, Exclusive, Once, KindAgrees, WriterIsReal, IsMutex, Known

LEMMA PcFrame ==
  ASSUME NEW t \in Thr, PcInv(t), pc'[t] = pc[t], UNCHANGED realKind,
         pc[t].op = "post" => realW'[pc[t].a] = realW[pc[t].a]
  PROVE  PcInv(t)'
BY DEF PcInv, IsMutex

LEMMA IdleInv == ASSUME NEW t \in Thr, pc[t] = Idle PROVE PcInv(t) /\ \A a : Between(t, a) = 0
BY DEF PcInv, Idle, Between

LEMMA ClientInit == Init => ClientInv /\ ErrorsAreReal
<1> SUFFICES ASSUME Init PROVE ClientInv /\ ErrorsAreReal
  OBVIOUS
<1>1. \A t \in Thr : pc[t] = Idle
  BY DEF Init
<1>2. ASSUME NEW a \in Addr PROVE LockInv(a)
  <2>1. ~Known(a) /\ \A t \in Thr : realBy[a][t] = 0
    BY NullType DEF Init, Known
  <2>2. \A t \in Thr : ToolHold(t, a) = 0 /\ Between(t, a) = 0
    BY <1>1, <2>1, IdleInv DEF ToolHold
  <2>3. Exclusive(a) /\ Once(a) /\ KindAgrees(a) /\ WriterIsReal(a)
    BY <2>1 DEF Exclusive, Once, KindAgrees, WriterIsReal
  <2> QED BY <2>1, <2>2, <2>3 DEF LockInv
<1>3. \A t \in Thr : PcInv(t)
  BY <1>1, IdleInv
<1>4. errs = {}
  BY DEF Init
<1> QED BY <1>2, <1>3, <1>4 DEF ClientInv, ErrorsAreReal

\* The client's own steps.
LEMMA GrantKeeps ==
  ASSUME Inv, ~misused, NEW t \in Thr, Grant(t)
  PROVE  ClientInv'
<1> USE DEF Inv
<1>1. PICK a \in Addr, w \in BOOLEAN : pc[t].op = "call" /\ pc[t].a = a /\ pc[t].w = w
  BY PcFields DEF Grant, TypeOK
<1>2. /\ realBy' = [realBy EXCEPT ![a][t] = @ + 1] /\ realW' = [realW EXCEPT ![a] = w]
      /\ pc' = [pc EXCEPT ![t] = [op |-> "post", a |-> a, w |-> w]]
      /\ UNCHANGED <<realKind, map_locks>> /\ Grantable(t, a, w)
  <2>1. [pc[t] EXCEPT !.op = "post"] = [op |-> "post", a |-> a, w |-> w]
    BY <1>1, PcFields DEF TypeOK
  <2> QED BY <1>1, <2>1 DEF Grant, toolVars
<1>3. /\ realBy'[a][t] = realBy[a][t] + 1 /\ realW'[a] = w
      /\ \A u \in Thr : u # t => realBy'[a][u] = realBy[a][u]
      /\ \A b \in Addr : b # a => realBy'[b] = realBy[b] /\ realW'[b] = realW[b]
      /\ pc'[t] = [op |-> "post", a |-> a, w |-> w] /\ \A u \in Thr : u # t => pc'[u] = pc[u]
  BY <1>2 DEF TypeOK, Bag
<1>4. /\ LockInv(a) /\ \A u \in Thr : PcInv(u) /\ realBy[a][u] \in Nat
      /\ \A b \in Addr : LockInv(b)
  BY HoldType DEF ClientInv
<1>5. /\ IsMutex(a) => w
      /\ \/ \A u \in Thr : realBy[a][u] = 0
         \/ realKind[a] = "mbRec" /\ realBy[a][t] > 0
         \/ realKind[a] = "rdwr" /\ ~w /\ ~realW[a]
  BY <1>1, <1>2, <1>4, NullType DEF PcInv, Grantable
<1>6. ASSUME NEW b \in Addr, b # a PROVE LockInv(b)'
  <2>1. \A u \in Thr : Between(u, b)' = Between(u, b)
    BY <1>1, <1>3, <1>6 DEF Between
  <2> QED BY <1>2, <1>3, <1>4, <1>6, <2>1, LockFrame
<1>7. LockInv(a)'
  <2>1. Between(t, a)' = 1 /\ Between(t, a) = 0
        /\ \A u \in Thr : u # t => Between(u, a)' = Between(u, a)
    BY <1>1, <1>3 DEF Between
  <2>2. \A u \in Thr : ToolHold(u, a)' = ToolHold(u, a)
    BY <1>2 DEF ToolHold, Known
  <2>3. \A u \in Thr : realBy'[a][u] = ToolHold(u, a)' + Between(u, a)'
    BY <1>3, <1>4, <2>1, <2>2, HoldType, BetweenType DEF LockInv
  <2>4. Exclusive(a)'
    BY <1>2, <1>3, <1>4, <1>5 DEF LockInv, Exclusive, IsMutex
  <2>5. Once(a)'
    BY <1>2, <1>3, <1>4, <1>5 DEF LockInv, Once
  <2>6. KindAgrees(a)'
    BY <1>2, <1>4 DEF LockInv, KindAgrees, Known
  <2>7. WriterIsReal(a)'
    <3> SUFFICES ASSUME Known(a), map_locks[a].heldW PROVE w
      BY <1>2, <1>3 DEF WriterIsReal, Known
    <3>1. realW[a]
      BY <1>4 DEF LockInv, WriterIsReal
    <3>2. PICK u \in Thr : ToolHold(u, a) > 0
      BY WriterHolds
    <3>3. realBy[a][u] > 0
      BY <1>4, <3>2, HoldType, BetweenType DEF LockInv
    <3>4. realKind[a] = "mbRec"
      BY <3>1, <3>3, <1>5
    <3> QED BY <3>4, <1>5 DEF IsMutex
  <2> QED BY <2>3, <2>4, <2>5, <2>6, <2>7 DEF LockInv
<1>8. ASSUME NEW u \in Thr PROVE PcInv(u)'
  <2>1. CASE u = t
    BY <2>1, <1>2, <1>3, <1>5 DEF PcInv, IsMutex
  <2>2. CASE u # t
    <3>1. ASSUME pc[u].op = "post", pc[u].a = a PROVE realW'[a] = realW[a]
      <4>1. realBy[a][u] > 0
        BY <3>1, <1>4, HoldType DEF LockInv, Between
      <4>2. realKind[a] # "mbRec" \/ realBy[a][t] = 0
        BY <2>2, <4>1, <1>4 DEF LockInv, Exclusive, IsMutex
      <4>3. ~w /\ ~realW[a]
        BY <4>1, <4>2, <1>5
      <4> QED BY <4>3, <1>3 DEF TypeOK
    <3>2. pc[u].op = "post" => realW'[pc[u].a] = realW[pc[u].a]
      <4>1. pc[u].op = "post" => pc[u].a \in Addr
        BY PcFields DEF TypeOK
      <4> QED BY <3>1, <4>1, <1>3
    <3> QED BY <2>2, <3>2, <1>2, <1>3, <1>4, PcFrame
  <2> QED BY <2>1, <2>2
<1> QED BY <1>6, <1>7, <1>8 DEF ClientInv

\* A step that moves t from one place to another and changes no lock.
LEMMA QuietKeeps ==
  ASSUME Inv, ~misused, NEW t \in Thr, NEW p, pc' = [pc EXCEPT ![t] = p],
         UNCHANGED <<realKind, realW, realBy, map_locks>>, PcInv(t)',
         \A a \in Addr : Between(t, a)' = Between(t, a)
  PROVE  ClientInv'
<1>1. (\A a \in Addr : LockInv(a)) /\ (\A u \in Thr : PcInv(u))
  BY DEF Inv, ClientInv
<1>2. \A u \in Thr : u # t => pc'[u] = pc[u]
  BY DEF Inv, TypeOK
<1>3. \A a \in Addr : LockInv(a)'
  <2> SUFFICES ASSUME NEW a \in Addr PROVE LockInv(a)'
    OBVIOUS
  <2>1. \A u \in Thr : Between(u, a)' = Between(u, a)
    BY <1>2 DEF Between
  <2> QED BY <1>1, <2>1, LockFrame
<1>4. \A u \in Thr : PcInv(u)'
  BY <1>1, <1>2, PcFrame
<1> QED BY <1>3, <1>4 DEF ClientInv

LEMMA TryFailsKeeps ==
  ASSUME Inv, ~misused, NEW t \in Thr, TryFails(t)
  PROVE  ClientInv'
<1>1. /\ pc[t].op = "call" /\ pc' = [pc EXCEPT ![t] = Idle]
      /\ UNCHANGED <<realKind, realW, realBy, map_locks>>
  BY DEF TryFails, realVars, toolVars
<1>2. pc'[t] = Idle
  BY <1>1 DEF Inv, TypeOK
<1>3. PcInv(t)'
  BY <1>2 DEF PcInv, Idle
<1>4. \A a \in Addr : Between(t, a)' = Between(t, a)
  BY <1>1, <1>2 DEF Between, Idle
<1> QED BY <1>1, <1>3, <1>4, QuietKeeps

LEMMA LockPreKeeps ==
  ASSUME Inv, ~misused, NEW t \in Thr, NEW a \in Addr, NEW w \in BOOLEAN,
         NEW isTry \in BOOLEAN, LOCK_PRE(t, a, w, isTry)
  PROVE  ClientInv' /\ ErrorsAreReal'
<1>1. /\ pc[t] = Idle /\ pc' = [pc EXCEPT ![t] = [op |-> "call", a |-> a, w |-> w]]
      /\ UNCHANGED <<realKind, realW, realBy, map_locks>>
      /\ IsMutex(a) => w
  BY DEF LOCK_PRE, realVars, toolVars
<1>2. pc'[t] = [op |-> "call", a |-> a, w |-> w]
  BY <1>1 DEF Inv, TypeOK
<1>3. PcInv(t)'
  BY <1>1, <1>2 DEF PcInv, IsMutex
<1>4. \A b \in Addr : Between(t, b)' = Between(t, b)
  BY <1>1, <1>2 DEF Between, Idle
<1>5. errs' \subseteq {"WrongKind", "Relock"}
  BY KindErrsType DEF LOCK_PRE
<1> QED BY <1>1, <1>3, <1>4, <1>5, QuietKeeps DEF ErrorsAreReal

LEMMA UnlockRealKeeps ==
  ASSUME Inv, ~misused, NEW t \in Thr, RealUnlock(t)
  PROVE  ClientInv'
<1> USE DEF Inv
<1>1. PICK a \in Addr : pc[t].op = "unlock" /\ pc[t].a = a
  BY PcFields DEF RealUnlock, TypeOK
<1>2. /\ \A b \in Addr : LockInv(b)
      /\ \A u \in Thr : PcInv(u) /\ realBy[a][u] \in Nat /\ ToolHold(u, a) \in Nat
  BY HoldType DEF ClientInv
<1>3. Between(t, a) = 1
  BY <1>1 DEF Between
<1>4. realBy[a][t] > 0 /\ realBy[a][t] = ToolHold(t, a) + 1
  BY <1>2, <1>3 DEF LockInv
<1>5. PICK by : by = [realBy[a] EXCEPT ![t] = @ - 1]
  OBVIOUS
<1>6. /\ realBy' = [realBy EXCEPT ![a] = by] /\ realW' = [realW EXCEPT ![a] = @ /\ by # NULL]
      /\ pc' = [pc EXCEPT ![t] = Idle]
      /\ UNCHANGED <<realKind, map_locks>>
  BY <1>1, <1>4, <1>5 DEF RealUnlock, toolVars
<1>7. /\ by \in Bag /\ by[t] = realBy[a][t] - 1
      /\ \A u \in Thr : u # t => by[u] = realBy[a][u]
  BY <1>2, <1>4, <1>5 DEF TypeOK, Bag
<1>8. /\ realBy'[a] = by
      /\ realW'[a] <=> realW[a] /\ by # NULL
      /\ \A b \in Addr : b # a => realBy'[b] = realBy[b] /\ realW'[b] = realW[b]
      /\ pc'[t] = Idle /\ \A u \in Thr : u # t => pc'[u] = pc[u]
  BY <1>6 DEF TypeOK
<1>9. ASSUME NEW b \in Addr, b # a PROVE LockInv(b)'
  <2>1. \A u \in Thr : Between(u, b)' = Between(u, b)
    BY <1>1, <1>8, <1>9 DEF Between, Idle
  <2> QED BY <1>2, <1>6, <1>8, <1>9, <2>1, LockFrame
<1>10. LockInv(a)'
  <2>1. Between(t, a)' = 0 /\ \A u \in Thr : u # t => Between(u, a)' = Between(u, a)
    BY <1>8 DEF Between, Idle
  <2>2. \A u \in Thr : ToolHold(u, a)' = ToolHold(u, a)
    BY <1>6 DEF ToolHold, Known
  <2>3. \A u \in Thr : realBy'[a][u] = ToolHold(u, a)' + Between(u, a)'
    BY <1>2, <1>4, <1>7, <1>8, <2>1, <2>2, BetweenType DEF LockInv
  <2>4. \A u \in Thr : realBy'[a][u] \in Nat /\ realBy'[a][u] <= realBy[a][u]
    BY <1>2, <1>7, <1>8 DEF Bag
  <2>5. Exclusive(a)'
    BY <1>2, <1>6, <1>8, <2>4 DEF LockInv, Exclusive, IsMutex
  <2>6. Once(a)'
    BY <1>2, <1>6, <1>8, <2>4 DEF LockInv, Once
  <2>7. KindAgrees(a)'
    BY <1>2, <1>6 DEF LockInv, KindAgrees, Known
  <2>8. WriterIsReal(a)'
    <3> SUFFICES ASSUME Known(a), map_locks[a].heldW PROVE realW[a] /\ by # NULL
      BY <1>6, <1>8 DEF WriterIsReal, Known
    <3>1. realW[a]
      BY <1>2 DEF LockInv, WriterIsReal
    <3>2. PICK u \in Thr : ToolHold(u, a) > 0
      BY WriterHolds
    <3>3. by[u] > 0
      BY <3>2, <2>2, <2>3, <1>2, <1>8, <2>1, BetweenType
    <3> QED BY <3>1, <3>3, NullType
  <2> QED BY <2>3, <2>5, <2>6, <2>7, <2>8 DEF LockInv
<1>11. ASSUME NEW u \in Thr PROVE PcInv(u)'
  <2>1. CASE u = t
    BY <2>1, <1>8 DEF PcInv, Idle
  <2>2. CASE u # t
    <3>1. ASSUME pc[u].op = "post", pc[u].a = a PROVE realW'[a] = realW[a]
      <4>1. by[u] > 0
        BY <2>2, <3>1, <1>2, <1>7 DEF LockInv, Between
      <4>2. by # NULL
        BY <4>1, NullType
      <4> QED BY <4>2, <1>6 DEF TypeOK
    <3>2. pc[u].op = "post" => realW'[pc[u].a] = realW[pc[u].a]
      <4>1. pc[u].op = "post" => pc[u].a \in Addr
        BY PcFields DEF TypeOK
      <4> QED BY <3>1, <4>1, <1>8
    <3> QED BY <2>2, <3>2, <1>2, <1>6, <1>8, PcFrame
  <2> QED BY <2>1, <2>2
<1> QED BY <1>9, <1>10, <1>11 DEF ClientInv

LEMMA ReuseKeeps ==
  ASSUME Inv, ~misused', NEW a \in Addr, NEW k \in Kinds, ReuseMemory(a, k)
  PROVE  ClientInv'
<1>1. /\ ~misused /\ ~Known(a) /\ realBy[a] = NULL /\ \A t \in Thr : pc[t] = Idle
      /\ realKind' = [realKind EXCEPT ![a] = k] /\ UNCHANGED <<realW, realBy, pc, map_locks>>
  BY DEF ReuseMemory, toolVars
<1>2. \A t \in Thr : PcInv(t)' /\ \A b : Between(t, b) = 0
  BY <1>1, IdleInv DEF PcInv, Idle
<1>3. ASSUME NEW b \in Addr, b # a PROVE LockInv(b)'
  <2>1. LockInv(b)
    BY <1>1 DEF Inv, ClientInv
  <2>2. \A t \in Thr : Between(t, b)' = Between(t, b)
    BY <1>1 DEF Between
  <2>3. realKind'[b] = realKind[b]
    BY <1>1, <1>3 DEF Inv, TypeOK
  <2> QED BY <1>1, <2>1, <2>2, <2>3, LockFrame
<1>4. LockInv(a)'
  <2>1. ~Known(a)' /\ \A t \in Thr : realBy'[a][t] = 0
    BY <1>1, NullType DEF Known
  <2>2. \A t \in Thr : ToolHold(t, a)' = 0 /\ Between(t, a)' = 0
    BY <1>1, <2>1 DEF ToolHold, Between, Idle
  <2>3. Exclusive(a)' /\ Once(a)' /\ KindAgrees(a)' /\ WriterIsReal(a)'
    BY <2>1 DEF Exclusive, Once, KindAgrees, WriterIsReal
  <2> QED BY <2>1, <2>2, <2>3 DEF LockInv
<1> QED BY <1>2, <1>3, <1>4 DEF ClientInv

\* A step of the tool that changes the record of a only, and moves t.
LEMMA RecordKeeps ==
  ASSUME Inv, ~misused, NEW t \in Thr, NEW a \in Addr, NEW p,
         UNCHANGED <<realKind, realW, realBy>>, pc' = [pc EXCEPT ![t] = p],
         \A b \in Addr : b # a => map_locks'[b] = map_locks[b],
         \A b \in Addr : b # a => Between(t, b)' = Between(t, b),
         PcInv(t)',
         \A u \in Thr : ToolHold(u, a)' + Between(u, a)' = ToolHold(u, a) + Between(u, a),
         KindAgrees(a)', WriterIsReal(a)'
  PROVE  ClientInv'
<1>1. (\A b \in Addr : LockInv(b)) /\ (\A u \in Thr : PcInv(u))
  BY DEF Inv, ClientInv
<1>2. \A u \in Thr : u # t => pc'[u] = pc[u]
  BY DEF Inv, TypeOK
<1>3. ASSUME NEW b \in Addr, b # a PROVE LockInv(b)'
  <2>1. \A u \in Thr : Between(u, b)' = Between(u, b)
    BY <1>2, <1>3 DEF Between
  <2> QED BY <1>1, <1>3, <2>1, LockFrame
<1>4. LockInv(a)'
  <2>1. \A u \in Thr : realBy'[a][u] = ToolHold(u, a)' + Between(u, a)'
    BY <1>1 DEF LockInv
  <2>2. Exclusive(a)' /\ Once(a)'
    BY <1>1 DEF LockInv, Exclusive, Once, IsMutex
  <2> QED BY <2>1, <2>2 DEF LockInv
<1>5. \A u \in Thr : PcInv(u)'
  BY <1>1, <1>2, PcFrame
<1> QED BY <1>3, <1>4, <1>5 DEF ClientInv

LEMMA InitPostKeeps ==
  ASSUME Inv, ~misused, NEW t \in Thr, NEW a \in Addr, INIT_POST(t, a)
  PROVE  ClientInv'
<1>1. /\ pc[t] = Idle /\ UNCHANGED <<realKind, realW, realBy, pc>>
      /\ map_locks' = [map_locks EXCEPT ![a] = map_locks_lookup_or_create(realKind[a], a)]
  BY DEF INIT_POST, realVars
<1>2. LockInv(a) /\ PcInv(t)'
  BY <1>1 DEF Inv, ClientInv, PcInv, Idle
<1>3. pc' = [pc EXCEPT ![t] = Idle]
  BY <1>1 DEF Inv, TypeOK
<1>4. \A u \in Thr, b \in Addr : Between(u, b)' = Between(u, b)
  BY <1>1 DEF Between
<1>5. CASE Known(a)
  <2>1. map_locks' = map_locks
    BY <1>1, <1>5 DEF map_locks_lookup_or_create, Inv, TypeOK
  <2> QED BY <1>1, <1>2, <1>3, <1>4, <2>1, QuietKeeps
<1>6. CASE ~Known(a)
  <2>1. PICK lk \in LockRecord : /\ ~lk.heldW /\ lk.heldBy = NULL /\ lk.kind = realKind[a]
                                 /\ map_locks' = [map_locks EXCEPT ![a] = lk]
    BY <1>1, <1>6, LocksAssumption, NewRecord DEF map_locks_lookup_or_create, Inv, TypeOK
  <2>2. map_locks'[a] = lk /\ Known(a)' /\ \A b \in Addr : b # a => map_locks'[b] = map_locks[b]
    BY <2>1, OneRecord DEF Inv
  <2>3. \A u \in Thr : ToolHold(u, a)' = 0 /\ ToolHold(u, a) = 0
    BY <1>6, <2>1, <2>2, NullType DEF ToolHold
  <2>4. KindAgrees(a)' /\ WriterIsReal(a)'
    BY <1>1, <2>1, <2>2 DEF KindAgrees, WriterIsReal
  <2> QED BY <1>1, <1>2, <1>3, <1>4, <2>2, <2>3, <2>4, RecordKeeps
<1> QED BY <1>5, <1>6

\* libpthread grants only what the tool, too, takes for possible.
LEMMA GrantsAreBelieved ==
  ASSUME Inv, ~misused, NEW t \in Thr, NEW a \in Addr, NEW w \in BOOLEAN,
         NEW lk \in LockRecord, NEW new, PostStep(t, a, w, lk, new)
  PROVE  Believable(lk, t, w) /\ \A u \in Thr : lk.heldBy[u] = ToolHold(u, a)
<1>1. /\ LockInv(a) /\ PcInv(t) /\ pc[t].op = "post" /\ pc[t].a = a /\ pc[t].w = w
      /\ lk.heldBy \in Bag
  BY DEF Inv, ClientInv, PostStep, LockRecord
<1>2. \A u \in Thr : realBy[a][u] \in Nat /\ ToolHold(u, a) \in Nat /\ Between(u, a) \in {0, 1}
  BY HoldType, BetweenType DEF Inv
<1>3. \A u \in Thr : lk.heldBy[u] = ToolHold(u, a)
  BY NullType DEF PostStep, ToolHold
<1>4. Between(t, a) = 1 /\ realBy[a][t] = ToolHold(t, a) + 1
  <2>1. Between(t, a) = 1
    BY <1>1 DEF Between
  <2> QED BY <2>1, <1>1 DEF LockInv
<1>5. (IsMutex(a) => w) /\ realW[a] = w
  BY <1>1 DEF PcInv
<1>6. realKind[a] \in AllKinds
  BY LocksAssumption DEF Inv, TypeOK
<1>7. CASE w
  <2>1. \A u \in Thr : u # t => realBy[a][u] = 0
    BY <1>1, <1>2, <1>4, <1>5, <1>7 DEF LockInv, Exclusive
  <2>2. \A u \in Thr : u # t => lk.heldBy[u] = 0
    BY <2>1, <1>1, <1>2, <1>3 DEF LockInv
  <2>3. CASE lk.heldBy[t] = 0
    <3>1. lk.heldBy = NULL
      BY <2>2, <2>3, <1>1, NullIsZero
    <3> QED BY <3>1, <1>3, <1>7 DEF Believable
  <2>4. CASE lk.heldBy[t] # 0
    <3>1. ToolHold(t, a) > 0 /\ realBy[a][t] > 1
      BY <2>4, <1>2, <1>3, <1>4
    <3>2. Known(a) /\ lk = map_locks[a]
      BY <3>1 DEF ToolHold, PostStep
    <3>3. realKind[a] = "mbRec"
      BY <3>1, <1>1, <1>2, <1>5, <1>6, <1>7 DEF LockInv, Once, AllKinds
    <3>4. lk.kind = "mbRec"
      BY <3>2, <3>3, <1>1 DEF LockInv, KindAgrees
    <3>5. lk.heldW
      BY <3>2, <3>4, <2>4, NullType DEF Inv, LocksetsMatch, is_sane_LockN
    <3>6. lk.heldBy[t] > 0
      BY <3>1, <1>3
    <3> QED BY <3>4, <3>5, <3>6, <1>3, <1>7 DEF Believable
  <2> QED BY <2>3, <2>4
<1>8. CASE ~w
  <2>1. realKind[a] = "rdwr" /\ ~realW[a]
    BY <1>5, <1>8 DEF IsMutex
  <2>2. lk.kind = "rdwr" /\ ~lk.heldW
    <3>1. CASE Known(a)
      BY <3>1, <2>1, <1>1 DEF PostStep, LockInv, KindAgrees, WriterIsReal
    <3>2. CASE ~Known(a)
      BY <3>2, <1>8 DEF PostStep
    <3> QED BY <3>1, <3>2
  <2> QED BY <2>2, <1>3, <1>8 DEF Believable
<1> QED BY <1>7, <1>8

LEMMA PostKeeps ==
  ASSUME Inv, ~misused, NEW t \in Thr, LOCK_POST(t)
  PROVE  ClientInv' /\ ErrorsAreReal'
<1>1. PICK a \in Addr, w \in BOOLEAN, lk \in LockRecord, new \in LockRecord :
        PostStep(t, a, w, lk, new)
  BY PostEffect DEF Inv
<1>2. Believable(lk, t, w) /\ \A u \in Thr : lk.heldBy[u] = ToolHold(u, a)
  BY <1>1, GrantsAreBelieved
<1>3. /\ Acquired(t, a, new, w) /\ pc' = [pc EXCEPT ![t] = Idle]
      /\ UNCHANGED <<realKind, realW, realBy>>
      /\ pc[t].op = "post" /\ pc[t].a = a /\ pc[t].w = w
  BY <1>1, <1>2 DEF PostStep
<1>4. errs' \subseteq {"LockOrder"} /\ map_locks' = [map_locks EXCEPT ![a] = new]
  BY <1>3 DEF Acquired, OrderErrs
<1>5. map_locks'[a] = new /\ Known(a)' /\ \A b \in Addr : b # a => map_locks'[b] = map_locks[b]
  BY <1>4, OneRecord DEF Inv
<1>6. new = IF w THEN lockN_acquire_writer(lk, t) ELSE lockN_acquire_reader(lk, t)
  BY <1>1 DEF PostStep
<1>7. /\ new.kind = lk.kind /\ new.heldW = w /\ new.heldBy[t] = lk.heldBy[t] + 1
      /\ \A u \in Thr : u # t => new.heldBy[u] = lk.heldBy[u]
  BY <1>6, AcquiredRecord
<1>8. pc'[t] = Idle /\ \A u \in Thr : u # t => pc'[u] = pc[u]
  BY <1>3 DEF Inv, TypeOK
<1>9. /\ Between(t, a) = 1 /\ \A b \in Addr : Between(t, b)' = 0
      /\ \A b \in Addr : b # a => Between(t, b) = 0
      /\ \A u \in Thr : u # t => Between(u, a)' = Between(u, a)
  BY <1>3, <1>8 DEF Between, Idle
<1>10. \A u \in Thr : ToolHold(u, a)' = new.heldBy[u] /\ ToolHold(u, a) \in Nat
  BY <1>5, HoldType DEF ToolHold, Inv
<1>11. \A u \in Thr : ToolHold(u, a)' + Between(u, a)' = ToolHold(u, a) + Between(u, a)
  BY <1>2, <1>7, <1>9, <1>10
<1>12. LockInv(a) /\ PcInv(t)
  BY DEF Inv, ClientInv
<1>13. KindAgrees(a)'
  <2>1. CASE Known(a)
    BY <2>1, <1>1, <1>3, <1>5, <1>7, <1>12 DEF PostStep, LockInv, KindAgrees
  <2>2. CASE ~Known(a)
    <3>1. lk.kind = IF w /\ IsMutex(a) THEN "mbRec" ELSE "rdwr"
      BY <2>2, <1>1 DEF PostStep
    <3>2. IsMutex(a) => w
      BY <1>3, <1>12 DEF PcInv
    <3>3. realKind[a] \in {"nonRec", "mbRec", "rdwr"}
      BY LocksAssumption DEF Inv, TypeOK, AllKinds
    <3> QED BY <3>1, <3>2, <3>3, <1>3, <1>5, <1>7 DEF KindAgrees, IsMutex
  <2> QED BY <2>1, <2>2
<1>14. WriterIsReal(a)'
  BY <1>3, <1>5, <1>7, <1>12 DEF WriterIsReal, PcInv
<1>15. PcInv(t)'
  BY <1>8 DEF PcInv, Idle
<1>16. ClientInv'
  BY <1>3, <1>5, <1>9, <1>11, <1>13, <1>14, <1>15, RecordKeeps
<1> QED BY <1>4, <1>16 DEF ErrorsAreReal

LEMMA UnlockKeeps ==
  ASSUME Inv, ~misused', NEW t \in Thr, NEW a \in Addr, UNLOCK_PRE(t, a)
  PROVE  ClientInv' /\ ErrorsAreReal'
<1>1. /\ ~misused /\ realBy[a][t] # 0 /\ pc[t] = Idle /\ UNCHANGED <<realKind, realW, realBy>>
      /\ pc' = [pc EXCEPT ![t] = [op |-> "unlock", a |-> a]]
  BY DEF UNLOCK_PRE, realVars
<1>2. LockInv(a) /\ \A u \in Thr : ToolHold(u, a) \in Nat
  BY <1>1, HoldType DEF Inv, ClientInv
<1>3. \A b \in Addr : Between(t, b) = 0
  BY <1>1, IdleInv
<1>4. Known(a) /\ map_locks[a].heldBy[t] # 0
  BY <1>1, <1>2, <1>3 DEF LockInv, ToolHold
<1> PICK lk \in LockRecord : lk = map_locks[a]
  BY <1>4, UnlockCases DEF Inv
<1>5. PICK rel : lk = map_locks[a] /\ rel = lockN_release(lk, t)
  OBVIOUS
<1>6. /\ lk.heldBy[t] > 0 /\ errs' = KindErrs(a)
      /\ map_locks' = [map_locks EXCEPT ![a] = rel]
  BY <1>4, <1>5, UnlockCases DEF Inv
<1>7. /\ rel \in LockRecord /\ rel.kind = lk.kind
      /\ rel.heldW => lk.heldW
      /\ rel.heldBy[t] = lk.heldBy[t] - 1
      /\ \A u \in Thr : u # t => rel.heldBy[u] = lk.heldBy[u]
  BY <1>5, <1>6, ReleasedRecord
<1>8. map_locks'[a] = rel /\ Known(a)' /\ \A b \in Addr : b # a => map_locks'[b] = map_locks[b]
  BY <1>6, <1>7, OneRecord DEF Inv
<1>9. pc'[t] = [op |-> "unlock", a |-> a] /\ \A u \in Thr : u # t => pc'[u] = pc[u]
  BY <1>1 DEF Inv, TypeOK
<1>10. /\ Between(t, a)' = 1
       /\ \A b \in Addr : b # a => Between(t, b)' = Between(t, b)
       /\ \A u \in Thr : u # t => Between(u, a)' = Between(u, a)
  BY <1>3, <1>9 DEF Between
<1>11. \A u \in Thr : ToolHold(u, a)' + Between(u, a)' = ToolHold(u, a) + Between(u, a)
  <2>1. \A u \in Thr : ToolHold(u, a)' = rel.heldBy[u] /\ ToolHold(u, a) = lk.heldBy[u]
    BY <1>4, <1>5, <1>8 DEF ToolHold
  <2> QED BY <2>1, <1>2, <1>3, <1>7, <1>10
<1>12. KindAgrees(a)'
  BY <1>1, <1>2, <1>4, <1>5, <1>7, <1>8 DEF LockInv, KindAgrees
<1>13. WriterIsReal(a)'
  BY <1>1, <1>2, <1>4, <1>5, <1>7, <1>8 DEF LockInv, WriterIsReal
<1>14. PcInv(t)'
  BY <1>9 DEF PcInv
<1>15. ClientInv'
  BY <1>1, <1>8, <1>10, <1>11, <1>12, <1>13, <1>14, RecordKeeps
<1> QED BY <1>6, <1>15, KindErrsType DEF ErrorsAreReal

LEMMA DestroyKeeps ==
  ASSUME Inv, ~misused', NEW t \in Thr, NEW a \in Addr, DESTROY_PRE(t, a)
  PROVE  ClientInv' /\ ErrorsAreReal'
<1>1. /\ ~misused /\ realBy[a] = NULL /\ pc[t] = Idle
      /\ UNCHANGED <<realKind, realW, realBy, pc>>
      /\ map_locks' = IF Known(a) THEN [map_locks EXCEPT ![a] = NoLock] ELSE map_locks
  BY DEF DESTROY_PRE, realVars
<1>2. errs' \subseteq {"DestroyInvalid", "DestroyLocked"}
  BY DEF DESTROY_PRE
<1>3. pc' = [pc EXCEPT ![t] = Idle] /\ PcInv(t)'
  BY <1>1 DEF Inv, TypeOK, PcInv, Idle
<1>4. \A u \in Thr, b \in Addr : Between(u, b)' = Between(u, b)
  BY <1>1 DEF Between
<1>5. ~Known(a)' /\ \A b \in Addr : b # a => map_locks'[b] = map_locks[b]
  BY <1>1 DEF Inv, TypeOK, Known
<1>6. ASSUME NEW u \in Thr PROVE ToolHold(u, a)' = 0 /\ ToolHold(u, a) = 0
  <2>1. realBy[a][u] = 0 /\ realBy[a][u] = ToolHold(u, a) + Between(u, a)
    BY <1>1, NullType DEF Inv, ClientInv, LockInv
  <2>2. ToolHold(u, a) \in Nat /\ Between(u, a) \in {0, 1}
    BY HoldType, BetweenType DEF Inv
  <2> QED BY <2>1, <2>2, <1>5 DEF ToolHold
<1>7. KindAgrees(a)' /\ WriterIsReal(a)'
  BY <1>5 DEF KindAgrees, WriterIsReal
<1>8. ClientInv'
  BY <1>1, <1>3, <1>4, <1>5, <1>6, <1>7, RecordKeeps
<1> QED BY <1>2, <1>8 DEF ErrorsAreReal

LEMMA ClientStep == Inv /\ [Next]_vars => ClientInv' /\ ErrorsAreReal'
<1> SUFFICES ASSUME Inv, [Next]_vars, ~misused' PROVE ClientInv' /\ ErrorsAreReal'
  BY DEF ClientInv, ErrorsAreReal
<1>1. ASSUME NEW t \in Thr, Grant(t) \/ TryFails(t) \/ RealUnlock(t)
      PROVE  ClientInv' /\ ErrorsAreReal'
  <2>1. ~misused /\ errs' = {}
    BY <1>1 DEF Grant, TryFails, RealUnlock
  <2> QED BY <1>1, <2>1, GrantKeeps, TryFailsKeeps, UnlockRealKeeps DEF ErrorsAreReal
<1>2. ASSUME NEW t \in Thr, LOCK_POST(t) PROVE ClientInv' /\ ErrorsAreReal'
  BY <1>2, PostKeeps DEF LOCK_POST
<1>3. ASSUME NEW t \in Thr, NEW a \in Addr, INIT_POST(t, a) PROVE ClientInv' /\ ErrorsAreReal'
  BY <1>3, InitPostKeeps DEF INIT_POST, ErrorsAreReal
<1>4. ASSUME NEW a \in Addr, NEW k \in Kinds, ReuseMemory(a, k)
      PROVE  ClientInv' /\ ErrorsAreReal'
  BY <1>4, ReuseKeeps DEF ReuseMemory, ErrorsAreReal
<1>5. ASSUME NEW t \in Thr, NEW a \in Addr, NEW w \in BOOLEAN, NEW isTry \in BOOLEAN,
             LOCK_PRE(t, a, w, isTry)
      PROVE  ClientInv' /\ ErrorsAreReal'
  BY <1>5, LockPreKeeps DEF LOCK_PRE
<1>6. CASE UNCHANGED vars
  BY <1>6 DEF vars, Inv, ClientInv, ErrorsAreReal, LockInv, PcInv, ToolHold, Between, Exclusive,
     Once, KindAgrees, WriterIsReal, IsMutex, Known
<1> QED BY <1>1, <1>2, <1>3, <1>4, <1>5, <1>6, UnlockKeeps, DestroyKeeps DEF Next, Steps

LEMMA InvHolds == Spec => []Inv
<1>1. Init => Inv
  BY TypeInit, MatchInit, ClientInit DEF Inv
<1>2. Inv /\ [Next]_vars => Inv'
  BY TypeStep, MatchStep, ClientStep DEF Inv
<1> QED BY <1>1, <1>2, PTL DEF Spec

\* As long as the client uses its locks properly, the tool never believes that
\* a thread holds a lock more often than it does: it hears of grants late and
\* of unlocks early, so an unprotected access never counts as protected.
THEOREM ToolNeverAhead == Spec => []ToolBehindClient
<1>1. Inv => ToolBehindClient
  <2> SUFFICES ASSUME Inv, ~misused, NEW t \in Thr, NEW a \in Addr, Known(a)
               PROVE  map_locks[a].heldBy[t] <= realBy[a][t]
    BY DEF ToolBehindClient
  <2>1. realBy[a][t] = ToolHold(t, a) + Between(t, a)
    BY DEF Inv, ClientInv, LockInv
  <2>2. ToolHold(t, a) \in Nat /\ Between(t, a) \in {0, 1}
    BY HoldType, BetweenType DEF Inv
  <2> QED BY <2>1, <2>2 DEF ToolHold
<1> QED BY <1>1, InvHolds, PTL

\* As long as the client uses its locks properly, no unlock is complained
\* about and libpthread is not blamed for a grant.
THEOREM NoFalseComplaints == Spec => []ErrorsAreReal
<1>1. Inv => ErrorsAreReal
  BY DEF Inv
<1> QED BY <1>1, InvHolds, PTL

=============================================================================
