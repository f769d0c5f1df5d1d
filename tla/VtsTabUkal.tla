----------------------------- MODULE VtsTabUkal -----------------------------
(***************************************************************************)
(* The VTS table under helgrind-ukal.  SVal__mk_ShM (libhb_ukal_sval.h)    *)
(* builds a shadow value without its VtsID field, yet SVal__has_VTS counts *)
(* state ShM among those that have one: the value names VtsID 0, and the   *)
(* reference counting of shadow memory counts it as a reference to that    *)
(* entry.                                                                  *)
(***************************************************************************)
EXTENDS VtsTab

\* The transition of an exclusive location to ShM: an unordered access under
\* a lock.
AccessShM(t, c) ==
  LET m == get_cacheline(Mem(vt), c)
      i == thrVid[t]
      o == m.lyns[WayOf(c)]
  IN /\ Created(t)
     /\ o # VtsID_INVALID /\ OrdOf(m.vt, o, i) \notin {"EQ", "LT"}
     /\ StoreCell(m, VtsID__getOrdering(m.vt, o, i), c, 0)
     /\ SyncUnchanged /\ UNCHANGED thrVid

UkalNext == Next \/ \E t \in Thr, c \in Cell : AccessShM(t, c)

UkalSpec == Init /\ [][UkalNext]_vars

----------------------------------------------------------------------------
\* libhb_core.c:2183, in VtsID__rcinc: "tl_assert(ie->vts); /* else it's not in
\* use */".  The call comes from cacheline_wback, for whatever shadow value is
\* in the cache, and can come with the next access or the next collection.
WrittenBackIsInUse ==
  \A w \in Way : CacheValid(w) /\ lyns0[w] # VtsID_INVALID => InUse(lyns0[w])

=============================================================================
