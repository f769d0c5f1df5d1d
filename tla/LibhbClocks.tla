---------------------------- MODULE LibhbClocks ----------------------------
(***************************************************************************)
(* What libhb promises its caller about happens-before, with no VtsIDs, no *)
(* reference counts, no caches and no garbage collection: every thread,    *)
(* every synchronisation object (SO) and every shadow memory cell simply   *)
(* holds a vector timestamp of its own.                                    *)
(*                                                                         *)
(* This is the interface of libhb_uka_so_api.h and the part of msm_read /  *)
(* msm_write (libhb_ukas_core.h) that looks at or moves timestamps.        *)
(* Module VtsTab is the implementation and is shown to refine this one.    *)
(***************************************************************************)
EXTENDS VectorTS

CONSTANTS
  Root,        \* the thread that libhb_init makes
  SO,          \* synchronisation objects the client may allocate
  Cell,        \* shadow memory cells
  NoVTS,       \* "holds no timestamp"
  MaxTick      \* bound: no thread's own component exceeds it

ASSUME RootAssumption  == Root \in Thr
ASSUME NoVTSAssumption == NoVTS \notin VTS
ASSUME MaxTickAssumption == MaxTick \in Nat

VARIABLES
  clk,         \* clk[t]: the timestamp of thread t, NoVTS before its creation
  soLive,      \* the SOs that are allocated
  soClk,       \* soClk[s]: the timestamp posted to s, NoVTS if none was
  cell         \* cell[c]: the timestamp in the shadow value, NoVTS if none

cvars == <<clk, soLive, soClk, cell>>

ClocksInit ==
  /\ clk = [t \in Thr |-> IF t = Root THEN VTS__singleton(Root, 1) ELSE NoVTS]
  /\ soLive = {}
  /\ soClk = [s \in SO |-> NoVTS]
  /\ cell = [c \in Cell |-> NoVTS]

Created(t) == clk[t] # NoVTS
MayTick(t) == Created(t) /\ clk[t][t] < MaxTick

\* The child starts from the parent's timestamp, and both move along.
Create(parent, child) ==
  /\ MayTick(parent) /\ ~Created(child)
  /\ clk' = [clk EXCEPT ![child]  = VTS__tick(child, clk[parent]),
                        ![parent] = VTS__tick(parent, clk[parent])]
  /\ UNCHANGED <<soLive, soClk, cell>>

SoAlloc(s) ==
  /\ s \notin soLive
  /\ soLive' = soLive \cup {s}
  /\ soClk' = [soClk EXCEPT ![s] = NoVTS]
  /\ UNCHANGED <<clk, cell>>

SoDealloc(s) ==
  /\ s \in soLive
  /\ soLive' = soLive \ {s}
  /\ soClk' = [soClk EXCEPT ![s] = NoVTS]
  /\ UNCHANGED <<clk, cell>>

\* A strong send replaces what the SO holds, a weak send joins with it.
SoSend(t, s, strong) ==
  /\ MayTick(t) /\ s \in soLive
  /\ soClk' = [soClk EXCEPT ![s] =
                 IF strong \/ @ = NoVTS THEN clk[t] ELSE VTS__join(@, clk[t])]
  /\ clk' = [clk EXCEPT ![t] = VTS__tick(t, @)]
  /\ UNCHANGED <<soLive, cell>>

SoRecv(t, s) ==
  /\ Created(t) /\ s \in soLive
  /\ clk' = IF soClk[s] = NoVTS THEN clk
            ELSE [clk EXCEPT ![t] = VTS__join(@, soClk[s])]
  /\ UNCHANGED <<soLive, soClk, cell>>

SoJoin(s, other) ==
  /\ s \in soLive /\ other \in soLive /\ soClk[other] # NoVTS
  /\ soClk' = [soClk EXCEPT ![s] =
                 IF @ = NoVTS THEN soClk[other] ELSE VTS__join(@, soClk[other])]
  /\ UNCHANGED <<clk, soLive, cell>>

SoExtract(t, s) ==
  /\ Created(t) /\ s \notin soLive
  /\ soLive' = soLive \cup {s}
  /\ soClk' = [soClk EXCEPT ![s] = clk[t]]
  /\ UNCHANGED <<clk, cell>>

\* An access that asks for the order of the cell's timestamp and the thread's
\* (the exclusive states, and the shared ones when no common lock is left):
\* an ordered access takes the cell over, an unordered one leaves the old
\* timestamp (a shared state) or drops it (state Race).  A cell without a
\* timestamp is taken over (state New).
AccessByOrder(t, c) ==
  /\ Created(t)
  /\ IF cell[c] = NoVTS \/ VTS__cmp(cell[c], clk[t]) \in {"EQ", "LT"}
       THEN cell' = [cell EXCEPT ![c] = clk[t]]
       ELSE cell' \in {cell, [cell EXCEPT ![c] = NoVTS]}
  /\ UNCHANGED <<clk, soLive, soClk>>

\* An access to a cell in state ShM under a common lock takes the cell over
\* whatever the order.
AccessShared(t, c) ==
  /\ Created(t) /\ cell[c] # NoVTS
  /\ cell' = [cell EXCEPT ![c] = clk[t]]
  /\ UNCHANGED <<clk, soLive, soClk>>

\* A read by a spinning thread: the last access happens before the reader.
SpinRead(t, c) ==
  /\ Created(t)
  /\ IF cell[c] = NoVTS
       THEN cell' = [cell EXCEPT ![c] = clk[t]] /\ UNCHANGED clk
       ELSE clk' = [clk EXCEPT ![t] = VTS__join(@, cell[c])] /\ UNCHANGED cell
  /\ UNCHANGED <<soLive, soClk>>

\* A write to a spin variable: like a strong send to the cell.
SpinWrite(t, c) ==
  /\ MayTick(t) /\ cell[c] # NoVTS
  /\ cell' = [cell EXCEPT ![c] = clk[t]]
  /\ clk' = [clk EXCEPT ![t] = VTS__tick(t, @)]
  /\ UNCHANGED <<soLive, soClk>>

\* The memory is allocated anew or freed.
RangeReset(c) ==
  /\ cell' = [cell EXCEPT ![c] = NoVTS]
  /\ UNCHANGED <<clk, soLive, soClk>>

CopyShadow(src, dst) ==
  /\ cell' = [cell EXCEPT ![dst] = cell[src]]
  /\ UNCHANGED <<clk, soLive, soClk>>

ClocksNext ==
  \/ \E p, t \in Thr : Create(p, t)
  \/ \E s \in SO : SoAlloc(s) \/ SoDealloc(s)
  \/ \E t \in Thr, s \in SO, strong \in BOOLEAN : SoSend(t, s, strong)
  \/ \E t \in Thr, s \in SO : SoRecv(t, s) \/ SoExtract(t, s)
  \/ \E s, other \in SO : SoJoin(s, other)
  \/ \E t \in Thr, c \in Cell :
       \/ AccessByOrder(t, c) \/ AccessShared(t, c)
       \/ SpinRead(t, c) \/ SpinWrite(t, c)
  \/ \E c \in Cell : RangeReset(c)
  \/ \E c, d \in Cell : CopyShadow(c, d)

ClocksSpec == ClocksInit /\ [][ClocksNext]_cvars

----------------------------------------------------------------------------
MaybeVTS == VTS \cup {NoVTS}

\* Type invariant of the abstract state.
ClocksTypeOK ==
  /\ clk \in [Thr -> MaybeVTS]
  /\ soLive \subseteq SO
  /\ soClk \in [SO -> MaybeVTS]
  /\ cell \in [Cell -> MaybeVTS]

\* Every timestamp that exists somewhere.
Stamps == {clk[t] : t \in Thr} \cup {soClk[s] : s \in SO}
             \cup {cell[c] : c \in Cell}

\* Nobody knows more of a thread's time than the thread itself: for every
\* timestamp held by a thread, an SO or a cell, the component of thread t is
\* at most t's own, and it is 0 while t does not exist.  This is what makes
\* "v precedes t's timestamp" mean "v's event happened before t's present",
\* and it is the assertion of libhb_create that the child's own component
\* is 1 after its first tick.
OwnComponentIsGreatest ==
  \A v \in Stamps \ {NoVTS} : \A t \in Thr :
    v[t] <= IF Created(t) THEN clk[t][t] ELSE 0

\* A thread's timestamp never moves back, whatever libhb does.
ClockNeverMovesBack ==
  [][\A t \in Thr : Created(t) => Created(t)' /\ VTS__leq(clk[t], clk'[t])]_cvars

\* Between a send and a later send of the same thread the thread's own
\* component has moved: what an SO or a cell got from a send or a spin write
\* can be told apart from what the thread does afterwards.
SendSeparates ==
  [][\A t \in Thr, s \in SO : (\E b \in BOOLEAN : SoSend(t, s, b))
        => ~ VTS__leq(clk'[t], soClk'[s])]_cvars

=============================================================================
