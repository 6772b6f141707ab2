----------------------------- MODULE LossySpace -----------------------------
(***************************************************************************)
(* What a tuple space promises its applications when datagrams may be      *)
(* lost.  A request may be served once per sending, each time taking       *)
(* effect on the bag of tuples.  The operation then returns the answer of  *)
(* one of the servings, or an error: an OUT that returns may have left     *)
(* several copies, or one although it failed, and what an INP was served   *)
(* but never received is gone.                                             *)
(***************************************************************************)
EXTENDS TupleSpaceProtocol

CONSTANTS
  MaxPuts,   \* how many tuples an operation may put
  MaxTakes   \* Client -> how many tuples an operation of it may take

ASSUME TriesAssumption == MaxPuts \in Nat /\ MaxTakes \in [Client -> Nat]

VARIABLES
  space,    \* how many of each tuple the space holds
  call,     \* the operation each client has under way, NULL if none
  served,   \* the tuples this operation has put, or taken
  refused,  \* it was told that there is none
  answer    \* what the last operation returned

lossyVars == <<space, call, served, refused, answer>>

Pending   == [status |-> "pending", tuple |-> NULL]
Failed    == [status |-> "failed", tuple |-> NULL]
Answer(t) == [status |-> "done", tuple |-> t]

OutOf(t) == [kind |-> "out", tuple |-> t]
InpOf(t) == [kind |-> "inp", tuple |-> t]

Operations == {OutOf(t) : t \in Tuple} \cup {InpOf(t) : t \in Template}

ASSUME NothingAssumption == NULL \notin Tuple \cup Operations

LossyTypeOK ==
  /\ space \in [Tuple -> Nat]
  /\ call \in [Client -> Operations \cup {NULL}]
  /\ served \in [Client -> Seq(Tuple)]
  /\ refused \in [Client -> BOOLEAN]
  /\ answer \in [Client -> {Pending, Failed} \cup {Answer(t) : t \in Tuple \cup {NULL}}]

LossyInit ==
  /\ space = [t \in Tuple |-> 0]
  /\ call = [c \in Client |-> NULL]
  /\ served = [c \in Client |-> <<>>]
  /\ refused = [c \in Client |-> FALSE]
  /\ answer = [c \in Client |-> Answer(NULL)]

Asks(c, op) ==
  /\ call[c] = NULL
  /\ call' = [call EXCEPT ![c] = op]
  /\ answer' = [answer EXCEPT ![c] = Pending]
  /\ UNCHANGED <<space, served, refused>>

\* An ill-formed tuple or template is refused at once.
IsRefused(c) ==
  /\ call[c] = NULL
  /\ answer' = [answer EXCEPT ![c] = Failed]
  /\ UNCHANGED <<space, call, served, refused>>

Doing(c, kind) == call[c] # NULL /\ call[c].kind = kind

Serves(c, t) ==
  /\ served' = [served EXCEPT ![c] = Append(@, t)]
  /\ UNCHANGED <<call, refused, answer>>

Puts(c) ==
  /\ Doing(c, "out") /\ Len(served[c]) < MaxPuts
  /\ space' = [space EXCEPT ![call[c].tuple] = @ + 1]
  /\ Serves(c, call[c].tuple)

Fits(c, t) ==
  space[t] > 0 /\ Len(t) = Len(call[c].tuple) /\ ts_is_matching_tuple(call[c].tuple, t)

Takes(c) ==
  /\ Doing(c, "inp") /\ Len(served[c]) < MaxTakes[c]
  /\ \E t \in Tuple :
       /\ Fits(c, t)
       /\ space' = [space EXCEPT ![t] = @ - 1]
       /\ Serves(c, t)

FindsNone(c) ==
  /\ Doing(c, "inp")
  /\ \A t \in Tuple : ~Fits(c, t)
  /\ refused' = [refused EXCEPT ![c] = TRUE]
  /\ UNCHANGED <<space, call, served, answer>>

\* The answers the servings of an operation allow.
Answers(c) ==
  IF call[c].kind = "out"
  THEN {Answer(NULL) : i \in DOMAIN served[c]}
  ELSE {Answer(served[c][i]) : i \in DOMAIN served[c]}
         \cup (IF refused[c] THEN {Answer(NULL)} ELSE {})

Returns(c) ==
  /\ call[c] # NULL
  /\ \E res \in Answers(c) \cup {Failed} : answer' = [answer EXCEPT ![c] = res]
  /\ call' = [call EXCEPT ![c] = NULL]
  /\ served' = [served EXCEPT ![c] = <<>>]
  /\ refused' = [refused EXCEPT ![c] = FALSE]
  /\ UNCHANGED space

SpaceWorks(c) == Puts(c) \/ Takes(c) \/ FindsNone(c)

LossyNext ==
  \E c \in Client :
    \/ \E op \in Operations : Asks(c, op)
    \/ IsRefused(c) \/ SpaceWorks(c) \/ Returns(c)

LossySpec == LossyInit /\ [][LossyNext]_lossyVars
=============================================================================
