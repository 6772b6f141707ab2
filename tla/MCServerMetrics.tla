-------------------------- MODULE MCServerMetrics --------------------------
(***************************************************************************)
(* The instances of MCTupleSpaceServer, with the totals.                   *)
(***************************************************************************)
EXTENDS MCTupleSpaceServer, ServerMetrics
=============================================================================
