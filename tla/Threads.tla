------------------------------ MODULE Threads ------------------------------
(***************************************************************************)
(* The threads, which timestamps have a component for (VectorTS) and which *)
(* locks are held by (LockN).                                              *)
(***************************************************************************)

CONSTANT Thr            \* the threads the client may ever create
=============================================================================
