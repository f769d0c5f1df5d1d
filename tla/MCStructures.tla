---------------------------- MODULE MCStructures ----------------------------
(***************************************************************************)
(* The data structures below the detectors, for TLC: every call of the     *)
(* functions of VtsArray and, beside one of them, every sequence of        *)
(* operations of IvUnion.                                                  *)
(***************************************************************************)
EXTENDS VtsArray, IvUnion, SequencesExt

CONSTANT MaxTym      \* bound: the greatest time in an argument

\* Every array that stands for a timestamp with times up to MaxTym.
MCArr == {s \in BoundedSeq([thr : Thr, tym : 1 .. MaxTym], 3) : is_sane_VTS(s)}

\* The call that operations on unions follow.
Chosen == op = "cmp" /\ a = <<>> /\ b = <<>> /\ me = 1 /\ pc = "done"

MCNext ==
  \/ Next /\ UNCHANGED ivVars
  \/ Chosen /\ IvNext /\ UNCHANGED vars

MCInit == Init /\ IvInit
MCSpec == MCInit /\ [][MCNext]_<<vars, ivVars>> /\ WF_vars(Next)

=============================================================================
