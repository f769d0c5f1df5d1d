------------------------------- MODULE MsmEnv -------------------------------
(***************************************************************************)
(* The client program as the memory state machines of libhb see it: which  *)
(* thread exists with which timestamp, what the synchronisation objects    *)
(* hold, and which locks each thread holds.  The clocks are those of       *)
(* LibhbClocks; the locksets are what for_libhb__get_LockSet (hg_main.c)   *)
(* returns, that is locksetA and locksetW of the thread.                   *)
(*                                                                         *)
(* LIBHB_LOCK_INCUDED_HB is not defined in libhb.h, so taking and dropping *)
(* a lock moves no timestamp: only locksets change.                        *)
(***************************************************************************)
EXTENDS VectorTS

CONSTANTS Root, SO, Lock, NoVTS, MaxTick

ASSUME EnvAssumption ==
  /\ Root \in Thr
  /\ NoVTS \notin VTS
  /\ MaxTick \in Nat

VARIABLES
  clk,          \* clk[t]: timestamp of thread t, NoVTS before its creation
  soLive,       \* allocated synchronisation objects
  soClk,        \* soClk[s]: timestamp in s, NoVTS if nothing was sent
  locksetA,     \* locksetA[t]: all the locks t holds
  locksetW      \* locksetW[t]: the locks t holds for writing

envVars == <<clk, soLive, soClk, locksetA, locksetW>>

EnvInit ==
  /\ clk = [t \in Thr |-> IF t = Root THEN VTS__singleton(Root, 1) ELSE NoVTS]
  /\ soLive = {}
  /\ soClk = [s \in SO |-> NoVTS]
  /\ locksetA = [t \in Thr |-> {}]
  /\ locksetW = [t \in Thr |-> {}]

Created(t) == clk[t] # NoVTS
MayTick(t) == Created(t) /\ clk[t][t] < MaxTick

NoLockChange == UNCHANGED <<locksetA, locksetW>>

Create(parent, child) ==
  /\ MayTick(parent) /\ ~Created(child)
  /\ clk' = [clk EXCEPT ![child]  = VTS__tick(child, clk[parent]),
                        ![parent] = VTS__tick(parent, clk[parent])]
  /\ UNCHANGED <<soLive, soClk>> /\ NoLockChange

SoAlloc(s) ==
  /\ s \notin soLive
  /\ soLive' = soLive \cup {s}
  /\ soClk' = [soClk EXCEPT ![s] = NoVTS]
  /\ UNCHANGED clk /\ NoLockChange

Send(t, s) ==
  /\ MayTick(t) /\ s \in soLive
  /\ soClk' = [soClk EXCEPT ![s] = clk[t]]
  /\ clk' = [clk EXCEPT ![t] = VTS__tick(t, @)]
  /\ UNCHANGED soLive /\ NoLockChange

Recv(t, s) ==
  /\ Created(t) /\ s \in soLive /\ soClk[s] # NoVTS
  /\ clk' = [clk EXCEPT ![t] = VTS__join(@, soClk[s])]
  /\ UNCHANGED <<soLive, soClk>> /\ NoLockChange

\* Thread t gets l for writing, or loses it.
SetHeld(t, l, holds) ==
  /\ locksetA' = [locksetA EXCEPT ![t] = IF holds THEN @ \cup {l} ELSE @ \ {l}]
  /\ locksetW' = [locksetW EXCEPT ![t] = IF holds THEN @ \cup {l} ELSE @ \ {l}]

\* Locks, with the exclusion that the client's lock implementation gives.
AcquireW(t, l) ==
  /\ Created(t) /\ \A u \in Thr : l \notin locksetA[u]
  /\ SetHeld(t, l, TRUE)
  /\ UNCHANGED <<clk, soLive, soClk>>

AcquireR(t, l) ==
  /\ Created(t) /\ l \notin locksetA[t] /\ \A u \in Thr : l \notin locksetW[u]
  /\ locksetA' = [locksetA EXCEPT ![t] = @ \cup {l}]
  /\ UNCHANGED <<clk, soLive, soClk, locksetW>>

Release(t, l) ==
  /\ l \in locksetA[t]
  /\ SetHeld(t, l, FALSE)
  /\ UNCHANGED <<clk, soLive, soClk>>

EnvNext ==
  \/ \E p, t \in Thr : Create(p, t)
  \/ \E s \in SO : SoAlloc(s)
  \/ \E t \in Thr, s \in SO : Send(t, s) \/ Recv(t, s)
  \/ \E t \in Thr, l \in Lock : AcquireW(t, l) \/ AcquireR(t, l) \/ Release(t, l)

EnvTypeOK ==
  /\ clk \in [Thr -> VTS \cup {NoVTS}]
  /\ soLive \subseteq SO
  /\ soClk \in [SO -> VTS \cup {NoVTS}]
  /\ locksetA \in [Thr -> SUBSET Lock]
  /\ locksetW \in [Thr -> SUBSET Lock]

=============================================================================
