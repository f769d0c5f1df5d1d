-------------------------------- MODULE Laog --------------------------------
(***************************************************************************)
(* The lock acquisition order graph of hg_main.c (laog__...).  An edge     *)
(* a->b says that b was acquired while a was held.  The edges are kept     *)
(* twice, in LAOGLinks.outs of the source and .inns of the target, and the *)
(* places of acquisition in laog_exposition, by guest address.             *)
(*                                                                         *)
(* The graph is a record g with outs and inns (functions from locks to     *)
(* sets of locks) and expo (the set of exposed edges).                     *)
(***************************************************************************)
CONSTANT Addr           \* guest addresses of locks, one Lock per address

EmptyLaog == [outs |-> [a \in Addr |-> {}], inns |-> [a \in Addr |-> {}],
              expo |-> {}]

\* The edges Pairs enter the graph; those that are new and join two locks
\* with an acquisition point (they are held) are exposed.
laog__add_edges(g, Pairs, acquired) ==
  [outs |-> [a \in Addr |-> g.outs[a] \cup {b \in Addr : <<a, b>> \in Pairs}],
   inns |-> [b \in Addr |-> g.inns[b] \cup {a \in Addr : <<a, b>> \in Pairs}],
   expo |-> g.expo \cup {e \in Pairs : /\ e[2] \notin g.outs[e[1]]
                                       /\ e[1] \in acquired /\ e[2] \in acquired}]

\* What laog__do_dfs_from_to visits: all that is reachable from src.
Reach(g, src) ==
  {b \in Addr : \A S \in SUBSET Addr :
     src \in S /\ (\A a \in S : g.outs[a] \subseteq S) => b \in S}

\* The locks of dsts that a search from src may come upon; none if the order
\* in which dsts and src are acquired is consistent.
laog__do_dfs_from_to(g, src, dsts) == Reach(g, src) \cap dsts

\* A thread that holds locks held acquires lk.
laog__pre_thread_acquires_lock(g, held, lk, acquired) ==
  IF lk \in held THEN g
  ELSE laog__add_edges(g, held \X {lk}, acquired)

\* Mutant: the neighbours are not connected.
lock_deletion_noBridge(g, lk, acquired) ==
  [outs |-> [a \in Addr |-> IF a = lk THEN {} ELSE g.outs[a] \ {lk}],
   inns |-> [a \in Addr |-> IF a = lk THEN {} ELSE g.inns[a] \ {lk}],
   expo |-> g.expo]

\* Lock lk goes away: its neighbours stay connected.  The exposition, which
\* is keyed by guest address, is not cleared.
laog__handle_one_lock_deletion(g, lk, acquired) ==
  LET preds == g.inns[lk]
      succs == g.outs[lk]
      cut   == [outs |-> [a \in Addr |-> IF a = lk THEN {} ELSE g.outs[a] \ {lk}],
                inns |-> [a \in Addr |-> IF a = lk THEN {} ELSE g.inns[a] \ {lk}],
                expo |-> g.expo]
  IN laog__add_edges(cut, {e \in preds \X succs : e[1] # e[2]}, acquired)

=============================================================================
