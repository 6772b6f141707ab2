--------------------------- MODULE MCLossySystem ---------------------------
(***************************************************************************)
(* The small systems of MCTupleSpaceSystem with the history of servings.   *)
(***************************************************************************)
EXTENDS MCTupleSpaceSystem, LossySystem

\* One device puts; the other puts too and takes, of two kinds.
OneMoreTask ==
  [c \in MCClient |->
     IF c = Master THEN {Ask("two")} ELSE {Ask("two"), TakeTask, TakeAnswer}]
=============================================================================
