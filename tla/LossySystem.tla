---------------------------- MODULE LossySystem ----------------------------
(***************************************************************************)
(* The composed system with, for every operation under way, the history of *)
(* what the server did for it; and the refinement mapping that shows it to *)
(* implement LossySpace when datagrams may be lost.                        *)
(***************************************************************************)
EXTENDS TupleSpaceSystem

VARIABLES served, refused

servingVars == <<served, refused>>

LossyInit ==
  /\ SystemInit
  /\ served = [c \in Client |-> <<>>]
  /\ refused = [c \in Client |-> FALSE]

\* What the server's step did to the stash on behalf of a client.
PutFor(c) ==
  IF pc = "out" /\ handler.sender = c /\ Len(tuple_stash') > Len(tuple_stash)
  THEN <<heap[handler.data]>> ELSE <<>>

TakenFor(c) ==
  IF Len(tuple_stash') < Len(tuple_stash) /\ active_connections'[1].client = c
  THEN <<heap[active_connections'[1].data]>> ELSE <<>>

Serve ==
  /\ served' = [c \in Client |-> served[c] \o PutFor(c) \o TakenFor(c)]
  /\ refused' = [c \in Client |-> refused[c] \/ Contains(sent', Tell("lack", c))]

\* The history of an operation ends with it.
Forget ==
  /\ served' = [c \in Client |-> IF client_pc'[c] = "idle" THEN <<>> ELSE served[c]]
  /\ refused' = [c \in Client |-> client_pc'[c] # "idle" /\ refused[c]]

LossyNext ==
  \/ ServerWorks /\ Serve
  \/ (\E c \in Client : ClientRuns(c) \/ TimesOut(c)) /\ Forget
  \/ (Lose \/ StrangerSends \/ ServerStops) /\ UNCHANGED servingVars

LossySpec == LossyInit /\ [][LossyNext]_<<systemVars, servingVars>>

-----------------------------------------------------------------------------
\* The second answer of a refused INP belongs to no operation: it may stay behind,
\* and then buys a later INP one more sending.  Each earlier call may have left one.
Promise == INSTANCE LossySpace WITH
  MaxPuts  <- MaxRepeats,
  MaxTakes <- [c \in Client |-> MaxRepeats + MaxCalls[c] - 1],
  space    <- [t \in Tuple |-> Copies(t)],
  call     <- [c \in Client |-> AbstractCall(c)],
  answer   <- [c \in Client |-> IF client_pc[c] = "idle" THEN Abstract(result[c])
                                ELSE [status |-> "pending", tuple |-> NULL]]

\* No operation looks like none.
ASSUME NoneAssumption == NULL \notin Promise!Operations

\* Whatever is lost: an operation returns only what the server did for it while
\* it was under way.  An OUT reports success only when its tuple is in the space,
\* in at most MaxRepeats copies; an INP returns a tuple only if it was taken for
\* this INP, and "none" only if there was none at some moment since its call.
ImplementsLossySpace == Promise!LossySpec
=============================================================================
