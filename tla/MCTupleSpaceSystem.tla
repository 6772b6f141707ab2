------------------------- MODULE MCTupleSpaceSystem -------------------------
(***************************************************************************)
(* Small systems of the prime application: a master that puts a question   *)
(* and asks for either kind of answer, and a worker.                       *)
(***************************************************************************)
EXTENDS TupleSpaceSystem

CONSTANTS ip1, ip2, port

Master == [ip |-> ip1, port |-> port]
Worker == [ip |-> ip2, port |-> port]

MCClient == {Master, Worker}

MCValue == {"app1", "task", "prime", "two", "three", "none"}

String(v) == [type |-> "string", hasData |-> TRUE, value |-> v]
Uint(v)   == [type |-> "uint", hasData |-> TRUE, value |-> v]
AnyUint   == [type |-> "uint", hasData |-> FALSE, value |-> "none"]

Operation(kind, app, name, last) ==
  [kind |-> kind, app |-> app, fields |-> <<String(name), last>>]

Ask(n)      == Operation("out", "app1", "task", Uint(n))
TakeTask    == Operation("inp", "app1", "task", AnyUint)
TakeAnswer  == Operation("inp", "app1", "prime", AnyUint)
Incomplete  == Operation("out", "app1", "task", AnyUint)
Complete    == Operation("inp", "app1", "task", Uint("two"))

MCTuple    == {Span(Ask("two")), Span(Ask("three"))}
MCTemplate == {Span(TakeTask), Span(TakeAnswer)}

\* The master puts, the worker takes.
TwoRoles ==
  [c \in MCClient |-> IF c = Master THEN {Ask("two"), Ask("three")} ELSE {TakeTask}]

\* One question.
OneTaskTuple == {Span(Ask("two"))}

\* One device that runs two applications, as the shipped ones do.
OneClient   == {Master}
DeviceCalls == [c \in OneClient |-> 2]
WaitForTask == Operation("in", "app1", "task", AnyUint)
LateDevice  == [c \in OneClient |-> {Ask("two"), TakeTask, WaitForTask}]

\* Both clients put and take, and ask for what is refused.
Peers ==
  [c \in MCClient |->
     IF c = Master THEN {Ask("two"), Ask("three"), TakeTask}
     ELSE {Ask("two"), TakeTask, Complete, Incomplete}]

TwoCalls  == [c \in MCClient |-> 2]
OnePut    == [c \in MCClient |-> IF c = Master THEN 1 ELSE 2]

\* Blocks are interchangeable.
Symmetry == Permutations(Block)
=============================================================================
