----------------------------- MODULE MCHgLocks -----------------------------
(* Small instances of HgLocks for TLC. *)
EXTENDS HgLocks, TLC

CONSTANTS t1, t2, a1, a2, a3

\* Threads and addresses are interchangeable.
Symm == Permutations(Thr) \cup Permutations(Addr)

\* The scope of the run, which mode chooses: two threads with two locks of any
\* kind, the address mode[2] being free, or one thread, mode[2], with three
\* mutexes.  A misused lock is alone, a well-used one need not be.
VARIABLE mode

Users == IF mode[1] = "pair" THEN Thr ELSE {mode[2]}
Locks == IF mode[1] = "pair" THEN Addr \ {mode[2]} ELSE Addr

Scope == misused => \E a \in Addr : \A b \in Addr \ {a} :
                      ~Known(b) /\ \A t \in Thr : pc[t] = Idle \/ pc[t].a = a

MCInit ==
  /\ Init
  /\ mode \in ({"pair"} \X Addr) \cup ({"three"} \X Thr)
  /\ \A a \in Addr \ Locks : realKind[a] = CHOOSE k \in Kinds : TRUE
  /\ mode[1] = "three" => \A a \in Addr : realKind[a] = "nonRec"
MCNext == /\ Steps(Users, Locks) /\ UNCHANGED mode
          /\ mode[1] = "three" => UNCHANGED realKind
MCSpec == MCInit /\ [][MCNext]_<<vars, mode>>

=============================================================================
