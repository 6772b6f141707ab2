--------------------------- MODULE MCMasterWorker ---------------------------
(***************************************************************************)
(* A master and two workers that check the numbers 2, 3 and 4.  The sizes  *)
(* are those of a 64-bit host, the larger of the two.                      *)
(***************************************************************************)
EXTENDS MasterWorker

CONSTANTS w1, w2

MCWorker == {w1, w2}
MCClient == {Master, w1, w2}

MCValue == 0 .. N \cup {check_if_prime, is_prime, is_not_prime, direction_changed}

MCStringSize ==
  [v \in MCValue |->
     CASE v = check_if_prime    -> 15
       [] v = is_prime          -> 9
       [] v = is_not_prime      -> 13
       [] v = direction_changed -> 18
       [] OTHER                 -> 0]

\* An operation may be served twice.
Twice == [c \in MCClient |-> 2]

\* One worker has two pins: the first rises, and then it falls or the second rises.
NoChanges == [w \in MCWorker |-> <<>>]

TwoChanges == [w \in MCWorker |-> IF w = w1 THEN <<{1}, {0, 3}>> ELSE <<>>]
=============================================================================
