----------------------------- MODULE LindaSpace -----------------------------
(***************************************************************************)
(* What a tuple space promises its applications: a bag of tuples on which  *)
(* out and inp are atomic.  An operation takes effect once, between its    *)
(* call and its return, or not at all if the space is down.                *)
(***************************************************************************)
EXTENDS TupleSpaceProtocol

VARIABLES
  space,   \* how many of each tuple the space holds
  call,    \* the operation each client has under way, NULL if none
  answer,  \* what it will return, once it took effect; what the last one returned
  down     \* the space has stopped

lindaVars == <<space, call, answer, down>>

Pending   == [status |-> "pending", tuple |-> NULL]
Failed    == [status |-> "failed", tuple |-> NULL]
Answer(t) == [status |-> "done", tuple |-> t]

LindaInit ==
  /\ space = [t \in Tuple |-> 0]
  /\ call = [c \in Client |-> NULL]
  /\ answer = [c \in Client |-> Answer(NULL)]
  /\ down = FALSE

Calls(c) ==
  /\ call[c] = NULL
  /\ \E op \in    {[kind |-> "out", tuple |-> t] : t \in Tuple}
             \cup {[kind |-> "inp", tuple |-> t] : t \in Template} :
       call' = [call EXCEPT ![c] = op]
  /\ answer' = [answer EXCEPT ![c] = Pending]
  /\ UNCHANGED <<space, down>>

\* An ill-formed tuple or template is refused at once.
IsRefused(c) ==
  /\ call[c] = NULL
  /\ answer' = [answer EXCEPT ![c] = Failed]
  /\ UNCHANGED <<space, call, down>>

Waits(c, kind) == ~down /\ call[c] # NULL /\ call[c].kind = kind /\ answer[c] = Pending

Fits(c, t) ==
  space[t] > 0 /\ Len(t) = Len(call[c].tuple) /\ ts_is_matching_tuple(call[c].tuple, t)

Puts(c) ==
  /\ Waits(c, "out")
  /\ space' = [space EXCEPT ![call[c].tuple] = @ + 1]
  /\ answer' = [answer EXCEPT ![c] = Answer(NULL)]
  /\ UNCHANGED <<call, down>>

Takes(c) ==
  /\ Waits(c, "inp")
  /\ \E t \in Tuple :
       /\ Fits(c, t)
       /\ space' = [space EXCEPT ![t] = @ - 1]
       /\ answer' = [answer EXCEPT ![c] = Answer(t)]
  /\ UNCHANGED <<call, down>>

FindsNone(c) ==
  /\ Waits(c, "inp")
  /\ \A t \in Tuple : ~Fits(c, t)
  /\ answer' = [answer EXCEPT ![c] = Answer(NULL)]
  /\ UNCHANGED <<space, call, down>>

IsAnswered(c) ==
  /\ call[c] # NULL /\ answer[c] # Pending
  /\ call' = [call EXCEPT ![c] = NULL]
  /\ UNCHANGED <<space, answer, down>>

GivesUp(c) ==
  /\ down /\ call[c] # NULL /\ answer[c] = Pending
  /\ call' = [call EXCEPT ![c] = NULL]
  /\ answer' = [answer EXCEPT ![c] = Failed]
  /\ UNCHANGED <<space, down>>

GoesDown == ~down /\ down' = TRUE /\ UNCHANGED <<space, call, answer>>

LindaNext ==
  \/ \E c \in Client :
       \/ Calls(c) \/ IsRefused(c)
       \/ Puts(c) \/ Takes(c) \/ FindsNone(c)
       \/ IsAnswered(c) \/ GivesUp(c)
  \/ GoesDown

LindaSpec == LindaInit /\ [][LindaNext]_lindaVars
=============================================================================
