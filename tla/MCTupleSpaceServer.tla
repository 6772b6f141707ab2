------------------------- MODULE MCTupleSpaceServer -------------------------
(***************************************************************************)
(* The server on small instances.  Two clients share an address and differ *)
(* in the port, as two devices behind one host would; the two tuples are   *)
(* answers of the prime application, and the templates ask for one kind of *)
(* answer or for any.                                                      *)
(***************************************************************************)
EXTENDS TupleSpaceServer

CONSTANTS ip, port1, port2

MCClient == {[ip |-> ip, port |-> port1], [ip |-> ip, port |-> port2]}

OneClient == {[ip |-> ip, port |-> port1]}

MCValue == {"prime", "composite", "number", "none"}

String(v)  == [type |-> "string", hasData |-> TRUE, value |-> v]
Uint(v)    == [type |-> "uint", hasData |-> TRUE, value |-> v]
AnyString  == [type |-> "string", hasData |-> FALSE, value |-> "none"]
AnyUint    == [type |-> "uint", hasData |-> FALSE, value |-> "none"]

MCTuple    == {<<String("prime"), Uint("number")>>, <<String("composite"), Uint("number")>>}
MCTemplate == {<<String("prime"), AnyUint>>, <<AnyString, AnyUint>>}

OneTuple    == {<<String("prime"), Uint("number")>>}
OneTemplate == {<<String("prime"), AnyUint>>}

Symmetry == Permutations(Block)
=============================================================================
