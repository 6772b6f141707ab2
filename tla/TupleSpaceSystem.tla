-------------------------- MODULE TupleSpaceSystem --------------------------
(***************************************************************************)
(* The server and its clients over UDP.  The server's steps are those of   *)
(* TupleSpaceServer, the clients' those of TupleSpaceClient; what the one  *)
(* sends the other reads from net.                                         *)
(*                                                                         *)
(* How bad the network is, is a parameter.  MaxLost: how many datagrams it *)
(* loses, NULL if there is no limit.                                       *)
(* Timely: none takes longer than ack_await_time there and back, so that a *)
(* window only ends when nothing of the client is under way any more.      *)
(* Strangers: other hosts send to the clients.  MayStop: the server may be  *)
(* interrupted.                                                            *)
(***************************************************************************)
EXTENDS TupleSpaceServer, TupleSpaceClient

CONSTANTS MaxLost, Timely, Strangers, MayStop

ASSUME NetworkAssumption ==
  /\ MaxLost \in Nat \cup {NULL} /\ Timely \in BOOLEAN /\ Strangers \in BOOLEAN
  /\ MayStop \in BOOLEAN
  /\ Strangers => CanReceiveIp

\* History: for each tuple, how often process_out disposed of it - saved it or
\* handed it to a waiting IN - how often an application got it, and how often
\* OUT was asked to put it; and how many datagrams were lost, if that is limited.
VARIABLES saved, got, asked, lost

historyVars == <<saved, got, asked, lost>>
systemVars  == <<vars, clientVars, historyVars>>

None == [t \in Tuple |-> 0]

SystemInit ==
  /\ Init
  /\ ClientInit
  /\ saved = None /\ got = None /\ asked = None /\ lost = 0

-----------------------------------------------------------------------------
Plus(count, t) == [count EXCEPT ![t] = @ + 1]

Arrived(d) == d \in BagToSet(net)

\* The datagrams of the server's step, no two of them the same, join those left
\* after reading.
Deliver(left) ==
  /\ net' = left (+) SetToBag(ToSet(sent'))
  /\ UNCHANGED <<client_pc, request, repeats, context, result, calls>>

ReadSend ==
  /\ \E c \in Client, t \in Tuple :
       /\ Arrived(SendTuple(c, t))
       /\ ReadTuple(c, t)
       /\ Deliver(net (-) SetToBag({SendTuple(c, t)}))
  /\ UNCHANGED historyVars

ReadGet ==
  /\ \E c \in Client, kind \in Requests, t \in Template :
       /\ Arrived(GetTuple(c, kind, t))
       /\ server_process_get(kind, c, t)
       /\ Deliver(net (-) SetToBag({GetTuple(c, kind, t)}))
  /\ UNCHANGED historyVars

ReadAck ==
  /\ \E c \in Client :
       /\ Arrived(ReceivedMsg(c))
       /\ server_ack_cb(c) \/ server_ack_cb_unknown(c)
       /\ Deliver(net (-) SetToBag({ReceivedMsg(c)}))
  /\ UNCHANGED historyVars

\* Placing the tuple that was read.
PlaceTuple ==
  /\ RedirectTuple \/ SaveTuple
  /\ saved' = IF pc' = "out" THEN saved ELSE Plus(saved, heap[handler.data])
  /\ Deliver(net)
  /\ UNCHANGED <<got, asked, lost>>

Sweep ==
  /\ server_resend_tuple_for_connections
  /\ Deliver(net)
  /\ UNCHANGED historyVars

ServerWorks == ReadSend \/ ReadGet \/ ReadAck \/ PlaceTuple \/ Sweep

ServerStops == MayStop /\ Stop /\ UNCHANGED <<clientVars, historyVars>>

-----------------------------------------------------------------------------
\* What the applications see of a client's step: an OUT of a tuple starts, an
\* operation returns one.
Asks(c, t) ==
  /\ calls'[c] # calls[c] /\ client_pc'[c] # "idle"
  /\ request'[c].kind = "out" /\ Span(request'[c]) = t

Gets(c, t) == client_pc[c] # "idle" /\ client_pc'[c] = "idle" /\ result'[c].tuple = t

Observed ==
  /\ asked' = [t \in Tuple |-> asked[t] + Cardinality({c \in Client : Asks(c, t)})]
  /\ got' = [t \in Tuple |-> got[t] + Cardinality({c \in Client : Gets(c, t)})]
  /\ UNCHANGED <<saved, lost>>

\* Something of the client's is under way, or the server is working on it.
UnderWay(c) ==
  \/ Inbox(c) # {}
  \/ pc = "out" /\ handler.sender = c
  \/ ~Halted /\ \E d \in BagToSet(net) : "from" \in DOMAIN d /\ d.from = c

ClientRuns(c) == ClientStep(c) /\ Observed /\ UNCHANGED vars

TimesOut(c) ==
  /\ Timely => ~UnderWay(c)
  /\ WindowEnds(c) /\ Observed /\ UNCHANGED vars

Lose ==
  /\ lost # MaxLost
  /\ lost' = IF MaxLost = NULL THEN lost ELSE lost + 1
  /\ \E d \in BagToSet(net) : net' = net (-) SetToBag({d})
  /\ UNCHANGED <<vars, client_pc, request, repeats, context, result, calls, saved, got, asked>>

StrangerSends ==
  /\ Strangers
  /\ \E c \in Client : net' = net (+) SetToBag({Tell("stranger", c)})
  /\ \A d \in BagToSet(net) : d.type # "stranger"
  /\ UNCHANGED <<vars, client_pc, request, repeats, context, result, calls, historyVars>>

SystemNext ==
  \/ ServerWorks
  \/ ServerStops
  \/ \E c \in Client : ClientRuns(c) \/ TimesOut(c)
  \/ Lose
  \/ StrangerSends

SystemSpec == SystemInit /\ [][SystemNext]_systemVars

\* Neither the server's thread nor a client's ever blocks, and a datagram that
\* has arrived is read sooner or later.
FairSystemSpec ==
  /\ SystemSpec
  /\ WF_systemVars(ServerWorks)
  /\ \A c \in Client :
       /\ WF_systemVars(ClientRuns(c))
       /\ WF_systemVars(TimesOut(c))

-----------------------------------------------------------------------------
(***************************************************************************)
(* Properties.                                                             *)
(***************************************************************************)
SystemTypeOK ==
  /\ TypeOK
  /\ client_pc \in [Client -> {"idle", "send", "await", "ack", "await_ack"}]
  /\ repeats \in [Client -> Nat]
  /\ context \in [Client -> Context]
  /\ result \in [Client -> Result]
  /\ \A c \in Client : calls[c] \in 0 .. MaxCalls[c]
  /\ \A d \in BagToSet(net) :
       d \in ToServer \cup Message \cup {Tell("stranger", c) : c \in Client}
  /\ \A count \in {saved, got, asked} : count \in [Tuple -> Nat]
  /\ lost \in Nat

\* The tuple INP returns is one that INP asked for: no answer of an earlier
\* request, of the same or of another application of the client, is taken for it.
AnswersFit ==
  \A c \in Client :
    result[c].tuple # NULL =>
      /\ request[c].kind # "out"
      /\ Len(Span(request[c])) = Len(result[c].tuple)
      /\ ts_is_matching_tuple(Span(request[c]), result[c].tuple)

Copies(t) == Cardinality({i \in DOMAIN tuple_stash : heap[tuple_stash[i].data] = t})

\* No copy of a tuple reaches two applications, or reaches one and stays.
NoDoubleDelivery == \A t \in Tuple : got[t] + Copies(t) <= saved[t]

\* An OUT leaves at most as many copies, saved or handed to a waiting IN, as the
\* client may send requests.
CopiesBounded == \A t \in Tuple : saved[t] <= MaxRepeats * asked[t]

\* Every operation returns, also when the server stops in the middle of it.
CallsReturn == \A c \in Client : client_pc[c] # "idle" ~> client_pc[c] = "idle"

(***************************************************************************)
(* The system as a Linda space.  An operation has taken effect once its    *)
(* answer is on the way; the space is what the stash points to.            *)
(***************************************************************************)
Abstract(res) ==
  [status |-> IF res.error = "no_error" THEN "done" ELSE "failed", tuple |-> res.tuple]

AbstractCall(c) ==
  IF client_pc[c] = "idle" THEN NULL
  ELSE [kind |-> request[c].kind, tuple |-> Span(request[c])]

\* The datagrams that answer the request under way.
Answering(c) ==
  {d \in Inbox(c) :
     d.type \in IF request[c].kind = "out" THEN {"ack"} ELSE {"tuple", "lack"}}

AbstractAnswer(c) ==
  CASE client_pc[c] = "idle" -> Abstract(result[c])
    [] client_pc[c] \in {"ack", "await_ack"} -> Abstract(Outcome(request[c], context[c]))
    [] client_pc[c] \in {"send", "await"} ->
         IF client_pc[c] = "await" /\ Answering(c) # {}
         THEN [status |-> "done", tuple |-> (CHOOSE d \in Answering(c) : TRUE).tuple]
         ELSE [status |-> "pending", tuple |-> NULL]

Linda == INSTANCE LindaSpace WITH
  space  <- [t \in Tuple |-> Copies(t)],
  call   <- [c \in Client |-> AbstractCall(c)],
  answer <- [c \in Client |-> AbstractAnswer(c)],
  down   <- pc = "stopped"

\* Out and inp are atomic and take effect exactly once: the retries, the two
\* answers of a refused INP and the acknowledgements are invisible.
ImplementsLinda == Linda!LindaSpec
=============================================================================
