-------------------------------- MODULE MCZsm --------------------------------
(***************************************************************************)
(* Zsm for TLC.  Mode "all": every sequence of aligned accesses to two     *)
(* lines, some ranges and one copy from line to line.  Mode "long": at     *)
(* most MaxOps operations on three lines, so that a range has a first      *)
(* part, whole lines and a last part, with misaligned accesses and copies  *)
(* between all places.                                                     *)
(***************************************************************************)
EXTENDS Zsm, TLC

CONSTANTS x, y,
  MaxOps      \* bound: operations in mode "long"

\* No value stays as it is: an access made twice, or not at all, shows.
MCMsm == {x :> y @@ y :> x}

Aligned == {n \in Level \X (0 .. 2 * W - 1) : n[2] % 2^n[1] = 0}

VARIABLES mode, ops

MCInit == ZsmInit /\ mode \in {"all", "long"} /\ ops = 0
MCNext ==
  /\ \/ /\ mode = "all"
        /\ ZsmSteps(Aligned, {<<1, 6>>}, {<<1, 3>>, <<2, 3>>, <<4, 3>>}, {<<1, 5, 3>>})
        /\ UNCHANGED ops
     \/ mode = "long" /\ ops < MaxOps /\ ZsmNext /\ ops' = ops + 1
  /\ UNCHANGED mode
MCSpec == MCInit /\ [][MCNext]_<<zsmVars, mode, ops>>
==============================================================================
