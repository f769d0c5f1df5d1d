------------------------------ MODULE FlatShadow ------------------------------
(***************************************************************************)
(* What shadow memory promises to the memory state machine: one value per  *)
(* byte of the client.  An access replaces the value of each byte it       *)
(* touches by what the state machine makes of it.  Zsm takes these steps   *)
(* along with its own and must hold the same memory.                       *)
(***************************************************************************)
EXTENDS Integers

CONSTANTS Addr, NoAccess

VARIABLE mem

Init == mem = [a \in Addr |-> NoAccess]

\* A read or a write by a thread, which maps each value by msm.
Access(B, msm) == mem' = [a \in Addr |-> IF a \in B THEN msm[mem[a]] ELSE mem[a]]
\* libhb_range_new, libhb_range_noaccess
SetAll(B, v) == mem' = [a \in Addr |-> IF a \in B THEN v ELSE mem[a]]
\* libhb_copy_shadow_state
Copy(src, dst, len) ==
  mem' = [a \in Addr |-> IF a \in dst .. dst + len - 1 THEN mem[a - dst + src] ELSE mem[a]]
===============================================================================
