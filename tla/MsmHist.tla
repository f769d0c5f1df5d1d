------------------------------ MODULE MsmHist ------------------------------
(***************************************************************************)
(* The history that the memory state machines are judged by: which plain   *)
(* accesses a location has seen since it was allocated, whether two of     *)
(* them really race, and which access was reported.  All of it is ghost    *)
(* state; the tool keeps none of it.                                       *)
(***************************************************************************)
EXTENDS MsmEnv, FiniteSets

CONSTANTS Loc, NoRace,
  Kind,        \* the kinds of access the client makes, of AllKinds
  MaxHist      \* bound: how many different accesses the history of a location has

\* A plain access; an atomic one (LOCK-prefixed); a read inside a spin loop;
\* one that HG_(onSpinRead) or HG_(onSpinWrite) attributes to a lock that was
\* detected in the client's own code.
AllKinds == {"plain", "atomic", "spin", "spinlock"}

ASSUME KindAssumption == Kind \subseteq AllKinds
ASSUME NoRaceAssumption == NoRace \notin [thr : Thr, v : VTS, w : BOOLEAN]

VARIABLES
  hist,    \* hist[x]: the non-atomic, non-spinning accesses to x
  race,    \* race[x]: the access that was reported, NoRace if none
  lastW,   \* lastW[x]: timestamp of the last write to x, ZeroVTS if none
  hbRace   \* hbRace[x]: some access to x was not ordered after a
           \* conflicting earlier one

histVars == <<hist, race, lastW, hbRace>>

ZeroVTS == [t \in Thr |-> 0]

HistInit ==
  /\ hist = [x \in Loc |-> {}]
  /\ race = [x \in Loc |-> NoRace]
  /\ lastW = [x \in Loc |-> ZeroVTS]
  /\ hbRace = [x \in Loc |-> FALSE]

\* An access by t now: a read counts under all the locks t holds, a write
\* under those t holds for writing.
AccessRec(t, w) ==
  [thr |-> t, v |-> clk[t], w |-> w, ls |-> IF w THEN locksetW[t] ELSE locksetA[t]]

Conflict(a, b) == a.thr # b.thr /\ (a.w \/ b.w)

\* A plain access enters the history of its location.
Note(x, t, w) ==
  /\ Cardinality(hist[x] \cup {AccessRec(t, w)}) <= MaxHist
  /\ hist' = [hist EXCEPT ![x] = @ \cup {AccessRec(t, w)}]
  /\ hbRace' = [hbRace EXCEPT ![x] =
       @ \/ \E a \in hist[x] : Conflict(a, AccessRec(t, w)) /\ ~VTS__leq(a.v, clk[t])]
  /\ lastW' = IF w THEN [lastW EXCEPT ![x] = clk[t]] ELSE lastW

\* record_race_info, which the machines call when they enter state Race.
Report(x, t, w, entersRace) ==
  race' = IF entersRace
            THEN [race EXCEPT ![x] = [thr |-> t, v |-> clk[t], w |-> w]] ELSE race

Forget(x) ==
  /\ hist' = [hist EXCEPT ![x] = {}]
  /\ race' = [race EXCEPT ![x] = NoRace]
  /\ lastW' = [lastW EXCEPT ![x] = ZeroVTS]
  /\ hbRace' = [hbRace EXCEPT ![x] = FALSE]

AccessType == [thr : Thr, v : VTS, w : BOOLEAN, ls : SUBSET Lock]

HistTypeOK ==
  /\ DOMAIN hist = Loc /\ \A x \in Loc : hist[x] \subseteq AccessType
  /\ race \in [Loc -> [thr : Thr, v : VTS, w : BOOLEAN] \cup {NoRace}]
  /\ lastW \in [Loc -> VTS]
  /\ hbRace \in [Loc -> BOOLEAN]

----------------------------------------------------------------------------
(* What a detector is judged by. *)

\* The location is used under one common lock, held for writing by writers.
Disciplined(x) == \E l \in Lock : \A a \in hist[x] : l \in a.ls

\* Consistent locking is never reported, whatever the order of the accesses,
\* of the lock operations and of thread creation, and however the location
\* went through the exclusive and the shared states before.
LockedIsSilent == \A x \in Loc : Disciplined(x) => race[x] = NoRace

\* No lock was held at any access.
LockFree(x) == \A a \in hist[x] : a.ls = {}

\* Accesses that synchronisation alone orders are never reported, although
\* the machine keeps one timestamp per location and concurrent readers share
\* a location without being remembered one by one.
OrderedIsSilent ==
  \A x \in Loc : LockFree(x) /\ ~hbRace[x] => race[x] = NoRace

\* Every report is about a real disorder: some earlier access by another
\* thread to the same allocation does not happen before the reported access.
ReportIsUnordered ==
  \A x \in Loc : race[x] # NoRace =>
    \E a \in hist[x] : a.thr # race[x].thr /\ ~VTS__leq(a.v, race[x].v)

=============================================================================
