----------------------- MODULE TupleSpaceSystemProofs -----------------------
(***************************************************************************)
(* The server in the composed system does nothing that the server in its   *)
(* open environment may not do, so that what is proved of the one holds of *)
(* the other: of every number of clients, over every network.  Then what   *)
(* is proved of both together, the copies of an OUT and of a tuple.        *)
(***************************************************************************)
EXTENDS TupleSpaceServerProofs, TupleSpaceSystem

LEMMA ReadingIsServerStep ==
  (ReadSend \/ ReadGet \/ ReadAck) => ts_server_get_message
<1>1. ReadSend => ts_server_get_message
  BY DEF ReadSend, ts_server_get_message
<1>2. ReadGet => ts_server_get_message
  BY MessagesAssumption DEF ReadGet, ts_server_get_message
<1>3. ReadAck => ts_server_get_message
  BY DEF ReadAck, ts_server_get_message
<1> QED  BY <1>1, <1>2, <1>3

LEMMA SystemStepIsServerStep == [SystemNext]_systemVars => [Next]_vars
<1> SUFFICES ASSUME [SystemNext]_systemVars PROVE [Next]_vars
  OBVIOUS
<1>1. CASE ServerWorks
  <2>1. CASE ReadSend \/ ReadGet \/ ReadAck
    BY <2>1, ReadingIsServerStep DEF Next
  <2>2. CASE PlaceTuple
    BY <2>2 DEF PlaceTuple, server_process_out, Next
  <2>3. CASE Sweep
    BY <2>3 DEF Sweep, Next
  <2> QED  BY <1>1, <2>1, <2>2, <2>3 DEF ServerWorks
<1>2. CASE ServerStops
  BY <1>2 DEF ServerStops, Next
<1>3. CASE \E c \in Client : ClientRuns(c) \/ TimesOut(c)
  BY <1>3 DEF ClientRuns, TimesOut
<1>4. CASE Lose \/ StrangerSends
  BY <1>4 DEF Lose, StrangerSends
<1>5. CASE UNCHANGED systemVars
  BY <1>5 DEF systemVars
<1> QED  BY <1>1, <1>2, <1>3, <1>4, <1>5 DEF SystemNext

(***************************************************************************)
(* The composed system implements the server in its open environment: the  *)
(* clients' loops and the network only restrict what is read when.         *)
(***************************************************************************)
THEOREM SystemRunsServer == SystemSpec => Spec
<1>1. SystemInit => Init
  BY DEF SystemInit
<1>2. [SystemNext]_systemVars => [Next]_vars
  BY SystemStepIsServerStep
<1> QED  BY <1>1, <1>2, PTL DEF SystemSpec, Spec

(***************************************************************************)
(* In a system of clients that use OUT and INP every tuple in memory has   *)
(* one owner, whatever the network does to the datagrams and however often *)
(* the clients repeat them.                                                *)
(***************************************************************************)
THEOREM SystemKeepsOneOwner == ASSUME OnlyInp PROVE SystemSpec => []SoleOwner
BY SystemRunsServer, InpKeepsOneOwner

(***************************************************************************)
(* Under the shipped ratio of interval and clock, no acknowledgement that  *)
(* such a system can produce makes the server follow a bad pointer.        *)
(***************************************************************************)
THEOREM SystemIsMemorySafe ==
  ASSUME OnlyInp, QuietRatio PROVE SystemSpec => []MemorySafe
BY SystemRunsServer, InpIsMemorySafe

-----------------------------------------------------------------------------
(***************************************************************************)
(* Types of the composed system.                                           *)
(***************************************************************************)
Operations == UNION {Program[c] : c \in Client}

Datagrams == ToServer \cup Message \cup {Tell("stranger", c) : c \in Client}

NetType == IsABag(net) /\ BagToSet(net) \subseteq Datagrams

\* A client in the middle of an operation is busy with one it may send.
ClientType ==
  /\ client_pc \in [Client -> {"idle", "send", "await", "ack", "await_ack"}]
  /\ request \in [Client -> Operations \cup {NULL}]
  /\ repeats \in [Client -> Nat]
  /\ context \in [Client -> Context]
  /\ result \in [Client -> Result]
  /\ calls \in [Client -> Nat] /\ \A c \in Client : calls[c] <= MaxCalls[c]
  /\ \A c \in Client :
       client_pc[c] # "idle" => request[c] \in Program[c] /\ Refusal(request[c]) = {}

HistoryType ==
  /\ saved \in [Tuple -> Nat] /\ got \in [Tuple -> Nat] /\ asked \in [Tuple -> Nat]
  /\ lost \in Nat

\* What a client returns, records and sends.
LEMMA OutcomeType ==
  ASSUME NEW op, NEW answer \in Context
  PROVE  Outcome(op, answer) \in Result
BY DEF Outcome, Context, Result, Returns, ApplicationError

LEMMA ReturnsType ==
  \A error \in ApplicationError : Returns(error) \in Result
BY DEF Returns, Result

LEMMA NoContextType == NoContext \in Context
BY DEF NoContext, Context, ApplicationError

LEMMA InboxType ==
  ASSUME NetType, NEW c \in Client, NEW d \in Inbox(c)
  PROVE  /\ d \in BagToSet(net)
         /\ d \in Message \cup {Tell("stranger", x) : x \in Client}
         /\ d.tuple \in Tuple \cup {NULL}
<1>1. d \in BagToSet(net) /\ "to" \in DOMAIN d /\ d \in Datagrams
  BY DEF Inbox, NetType
<1>2. d \notin ToServer
  BY <1>1 DEF ToServer, SendTuple, GetTuple, ReceivedMsg
<1>3. d \in Message \cup {Tell("stranger", x) : x \in Client}
  BY <1>1, <1>2 DEF Datagrams
<1> QED
  BY <1>1, <1>3 DEF Message, Tell

LEMMA RecordedType ==
  ASSUME NetType, NEW c \in Client, NEW d \in Inbox(c)
  PROVE  Recorded(d) \in Context
<1>1. d.tuple \in Tuple \cup {NULL}
  BY InboxType
<1> QED
  BY <1>1 DEF Recorded, NoContext, Context, ApplicationError

LEMMA RequestType ==
  ASSUME ClientType, NEW c \in Client, client_pc[c] # "idle"
  PROVE  Request(c) \in ToServer
<1>1. request[c] \in Program[c] /\ Refusal(request[c]) = {}
  BY DEF ClientType
<1>2. /\ request[c].kind \in Requests \cup {"out"}
      /\ Span(request[c]) \in IF request[c].kind = "out" THEN Tuple ELSE Template
  BY <1>1, ClientAssumption, ProgramAssumption
<1>3. request[c].kind = "out" => Request(c) \in {SendTuple(x, t) : x \in Client, t \in Tuple}
  BY <1>2 DEF Request
<1>4. request[c].kind # "out" =>
        Request(c) \in {GetTuple(x, k, t) : x \in Client, k \in Requests, t \in Template}
  BY <1>2 DEF Request
<1> QED
  BY <1>3, <1>4 DEF ToServer

LEMMA FinishType ==
  ASSUME ClientType, NEW c \in Client, NEW res \in Result, Finish(c, res),
         UNCHANGED <<request, calls>>
  PROVE  ClientType'
<1>1. Cleared(c) \in Context
  BY NoContextType DEF Cleared
<1> QED
  BY <1>1 DEF ClientType, Finish, Goto

\* One more datagram of a type, or one fewer.
LEMMA NetGains ==
  ASSUME NetType, NEW S \in SUBSET Datagrams, net' = net (+) SetToBag(S)
  PROVE  NetType'
BY BagGains DEF NetType

LEMMA NetLoses ==
  ASSUME NetType, NEW d \in BagToSet(net), net' = net (-) SetToBag({d})
  PROVE  NetType'
BY BagLoses DEF NetType

LEMMA GivenUpType ==
  ASSUME ClientType, NEW c \in Client
  PROVE  GivenUp(c) \in Result /\ Outcome(request[c], context[c]) \in Result
<1>1. context[c] \in Context
  BY DEF ClientType
<1>2. "internal_error" \in ApplicationError
  BY DEF ApplicationError
<1> QED
  BY <1>1, <1>2, OutcomeType, ReturnsType DEF GivenUp

\* The loops of a client.
LEMMA ClientStepType ==
  ASSUME ClientType, NetType, NEW c \in Client, ClientStep(c) \/ WindowEnds(c)
  PROVE  ClientType' /\ NetType'
<1> "no_error" \in ApplicationError /\ "invalid_tuple" \in ApplicationError
    /\ "invalid_template" \in ApplicationError
  BY DEF ApplicationError
<1>1. CASE Call(c)
  <2>1. NetType'
    BY <1>1 DEF Call, NetType
  <2>2. PICK op \in Program[c] :
          /\ request' = [request EXCEPT ![c] = op]
          /\ \/ /\ Refusal(op) = {}
                /\ Enter(c, "send")
                /\ result' = [result EXCEPT ![c] = Returns("no_error")]
                /\ UNCHANGED context
             \/ \E error \in Refusal(op) : Finish(c, Returns(error))
    BY <1>1 DEF Call
  <2>3. calls' = [calls EXCEPT ![c] = @ + 1] /\ calls[c] < MaxCalls[c] /\ op \in Operations
        /\ client_pc[c] = "idle"
    BY <1>1 DEF Call, Operations
  <2>4. calls' \in [Client -> Nat] /\ \A x \in Client : calls'[x] <= MaxCalls[x]
    <3>1. /\ calls \in [Client -> Nat] /\ \A x \in Client : calls[x] <= MaxCalls[x]
          /\ MaxCalls[c] \in Nat /\ calls[c] \in Nat
      BY ClientAssumption DEF ClientType
    <3>2. calls[c] + 1 \in Nat /\ calls[c] + 1 <= MaxCalls[c]
      BY <2>3, <3>1
    <3> QED
      BY <2>3, <3>1, <3>2
  <2>5. request' \in [Client -> Operations \cup {NULL}]
    BY <2>2, <2>3 DEF ClientType
  <2>6. CASE /\ Refusal(op) = {}
             /\ Enter(c, "send")
             /\ result' = [result EXCEPT ![c] = Returns("no_error")]
             /\ UNCHANGED context
    <3>1. result' \in [Client -> Result]
      BY <2>6, ReturnsType DEF ClientType
    <3>2. /\ client_pc' \in [Client -> {"idle", "send", "await", "ack", "await_ack"}]
          /\ repeats' \in [Client -> Nat] /\ context' \in [Client -> Context]
      BY <2>6, ClientAssumption DEF ClientType, Enter, Goto
    <3>3. \A x \in Client : client_pc'[x] # "idle" =>
                              request'[x] \in Program[x] /\ Refusal(request'[x]) = {}
      BY <2>2, <2>6 DEF ClientType, Enter, Goto
    <3> QED
      BY <2>1, <2>4, <2>5, <3>1, <3>2, <3>3 DEF ClientType
  <2>7. ASSUME NEW error \in Refusal(op), Finish(c, Returns(error))
        PROVE  ClientType'
    <3>1. Returns(error) \in Result
      BY ReturnsType DEF Refusal
    <3>2. result' \in [Client -> Result]
      BY <2>7, <3>1 DEF ClientType, Finish
    <3>3. /\ client_pc' \in [Client -> {"idle", "send", "await", "ack", "await_ack"}]
          /\ repeats' \in [Client -> Nat] /\ context' \in [Client -> Context]
      BY <2>7, NoContextType DEF ClientType, Finish, Goto, Cleared
    <3>4. \A x \in Client : client_pc'[x] # "idle" =>
                              request'[x] \in Program[x] /\ Refusal(request'[x]) = {}
      BY <2>2, <2>7 DEF ClientType, Finish, Goto
    <3> QED
      BY <2>4, <2>5, <3>2, <3>3, <3>4 DEF ClientType
  <2> QED
    BY <2>1, <2>2, <2>6, <2>7
<1>2. CASE SendRequest(c)
  <2>1. Request(c) \in Datagrams
    BY <1>2, RequestType DEF SendRequest, Datagrams
  <2>2. NetType'
    BY <1>2, <2>1, NetGains DEF SendRequest
  <2>3. CASE Finish(c, Returns("no_error"))
    BY <1>2, <2>2, <2>3, FinishType, ReturnsType DEF SendRequest
  <2>4. CASE Goto(c, "await") /\ UNCHANGED <<repeats, context, result>>
    BY <1>2, <2>2, <2>4 DEF SendRequest, ClientType, Goto
  <2> QED
    BY <1>2, <2>3, <2>4 DEF SendRequest
<1>3. CASE SendRequestFails(c)
  <2>1. Request(c) \in Datagrams
    BY <1>3, RequestType DEF SendRequestFails, Datagrams
  <2>2. NetType'
    <3>1. CASE net' = net
      BY <3>1 DEF NetType
    <3> QED
      BY <1>3, <2>1, <3>1, NetGains DEF SendRequestFails
  <2> QED
    BY <1>3, <2>2, FinishType, GivenUpType DEF SendRequestFails
<1>4. CASE ReceiveAck(c)
  <2>1. PICK d \in Inbox(c) :
          /\ net' = net (-) SetToBag({d})
          /\ \/ Finish(c, Returns("no_error"))
             \/ UNCHANGED <<client_pc, repeats, context, result>>
    BY <1>4 DEF ReceiveAck, FromServer
  <2>2. NetType'
    BY <2>1, InboxType, NetLoses
  <2>3. UNCHANGED <<request, calls>>
    BY <1>4 DEF ReceiveAck
  <2> QED
    BY <2>1, <2>2, <2>3, FinishType, ReturnsType DEF ClientType
<1>5. CASE ReceiveAnswer(c)
  <2>1. PICK d \in Inbox(c) :
          /\ net' = net (-) SetToBag({d})
          /\ \/ /\ repeats' = [repeats EXCEPT ![c] = IF @ = 0 THEN 0 ELSE @ + 1]
                /\ UNCHANGED <<client_pc, context>>
             \/ /\ context' = [context EXCEPT ![c] = Recorded(d)]
                /\ Enter(c, "ack")
    BY <1>5 DEF ReceiveAnswer
  <2>2. NetType'
    BY <2>1, InboxType, NetLoses
  <2>3. UNCHANGED <<request, result, calls>> /\ client_pc[c] = "await"
    BY <1>5 DEF ReceiveAnswer
  <2>4. CASE /\ repeats' = [repeats EXCEPT ![c] = IF @ = 0 THEN 0 ELSE @ + 1]
             /\ UNCHANGED <<client_pc, context>>
    <3>1. repeats' \in [Client -> Nat]
      <4>1. repeats \in [Client -> Nat]
        BY DEF ClientType
      <4>2. (IF repeats[c] = 0 THEN 0 ELSE repeats[c] + 1) \in Nat
        BY <4>1
      <4> QED
        BY <2>4, <4>1, <4>2
    <3> QED
      BY <2>2, <2>3, <2>4, <3>1 DEF ClientType
  <2>5. CASE context' = [context EXCEPT ![c] = Recorded(d)] /\ Enter(c, "ack")
    <3>1. Recorded(d) \in Context
      BY RecordedType
    <3>2. context' \in [Client -> Context]
      BY <2>5, <3>1 DEF ClientType
    <3>3. repeats' \in [Client -> Nat]
      BY <2>5, ClientAssumption DEF ClientType, Enter
    <3>4. client_pc' = [client_pc EXCEPT ![c] = "ack"]
      BY <2>5 DEF Enter, Goto
    <3>5. client_pc' \in [Client -> {"idle", "send", "await", "ack", "await_ack"}]
      BY <3>4 DEF ClientType
    <3>6. \A x \in Client : client_pc'[x] # "idle" =>
                              request'[x] \in Program[x] /\ Refusal(request'[x]) = {}
      BY <2>3, <3>4 DEF ClientType
    <3>7. ClientType'
      BY <2>3, <3>2, <3>3, <3>5, <3>6 DEF ClientType
    <3> QED
      BY <2>2, <3>7
  <2> QED
    BY <2>1, <2>2, <2>4, <2>5
<1>6. CASE SendAck(c)
  <2>1. ReceivedMsg(c) \in Datagrams
    BY DEF Datagrams, ToServer
  <2>2. NetType'
    BY <1>6, <2>1, NetGains DEF SendAck
  <2> QED
    BY <1>6, <2>2 DEF SendAck, ClientType, Goto
<1>7. CASE SendAckFails(c)
  <2>1. NetType'
    BY <1>7 DEF SendAckFails, NetType
  <2> QED
    BY <1>7, <2>1, FinishType, GivenUpType DEF SendAckFails
<1>8. CASE ReceiveAckOfAck(c)
  <2>1. PICK d \in Inbox(c) :
          /\ net' = net (-) SetToBag({d})
          /\ \/ Finish(c, Outcome(request[c], context[c]))
             \/ UNCHANGED <<client_pc, repeats, context, result>>
    BY <1>8 DEF ReceiveAckOfAck, FromServer
  <2>2. NetType'
    BY <2>1, InboxType, NetLoses
  <2>3. UNCHANGED <<request, calls>>
    BY <1>8 DEF ReceiveAckOfAck
  <2> QED
    BY <2>1, <2>2, <2>3, FinishType, GivenUpType DEF ClientType
<1>9. CASE WindowEnds(c)
  <2>1. NetType' /\ UNCHANGED <<request, calls>> /\ client_pc[c] # "idle"
    BY <1>9 DEF WindowEnds, NetType, Windows
  <2>2. CASE \E res \in Result : Finish(c, res)
    BY <2>1, <2>2, FinishType
  <2>3. CASE /\ Goto(c, IF client_pc[c] = "await" THEN "send" ELSE "ack")
             /\ repeats' = [repeats EXCEPT ![c] = IF @ = 0 THEN 0 ELSE @ - 1]
             /\ UNCHANGED <<context, result>>
    BY <2>1, <2>3 DEF ClientType, Goto
  <2> QED
    BY <1>9, <2>2, <2>3, GivenUpType DEF WindowEnds
<1> QED
  BY <1>1, <1>2, <1>3, <1>4, <1>5, <1>6, <1>7, <1>8, <1>9 DEF ClientStep

\* A client's loop keeps what belongs to the others.
LEMMA OthersKeep ==
  ASSUME ClientType, NEW c \in Client, ClientStep(c) \/ WindowEnds(c),
         NEW x \in Client, x # c
  PROVE  /\ client_pc'[x] = client_pc[x] /\ request'[x] = request[x]
         /\ repeats'[x] = repeats[x] /\ context'[x] = context[x]
         /\ result'[x] = result[x] /\ calls'[x] = calls[x]
<1> USE DEF ClientType
<1> DEFINE Kept == /\ client_pc'[x] = client_pc[x] /\ request'[x] = request[x]
                   /\ repeats'[x] = repeats[x] /\ context'[x] = context[x]
                   /\ result'[x] = result[x] /\ calls'[x] = calls[x]
<1>1. \A res : Finish(c, res) /\ UNCHANGED <<request, calls>> => Kept
  BY DEF Finish, Goto
<1>2. CASE Call(c)
  BY <1>2 DEF Call, Finish, Enter, Goto
<1>3. CASE SendRequest(c) \/ SendRequestFails(c)
  BY <1>1, <1>3 DEF SendRequest, SendRequestFails, Goto
<1>4. CASE ReceiveAck(c) \/ ReceiveAckOfAck(c)
  BY <1>1, <1>4 DEF ReceiveAck, ReceiveAckOfAck
<1>5. CASE ReceiveAnswer(c)
  BY <1>5 DEF ReceiveAnswer, Enter, Goto
<1>6. CASE SendAck(c) \/ SendAckFails(c)
  BY <1>1, <1>6 DEF SendAck, SendAckFails, Goto
<1>7. CASE WindowEnds(c)
  BY <1>1, <1>7 DEF WindowEnds, Goto
<1> QED
  BY <1>2, <1>3, <1>4, <1>5, <1>6, <1>7 DEF ClientStep

\* What the applications see of a client's step is its own.
LEMMA ObservedOfOne ==
  ASSUME ClientType, NEW c \in Client, ClientStep(c) \/ WindowEnds(c), Observed
  PROVE  /\ asked' = [t \in Tuple |-> asked[t] + (IF Asks(c, t) THEN 1 ELSE 0)]
         /\ got' = [t \in Tuple |-> got[t] + (IF Gets(c, t) THEN 1 ELSE 0)]
<1>1. ASSUME NEW t \in Tuple
      PROVE  /\ Cardinality({x \in Client : Asks(x, t)}) = IF Asks(c, t) THEN 1 ELSE 0
             /\ Cardinality({x \in Client : Gets(x, t)}) = IF Gets(c, t) THEN 1 ELSE 0
  <2>1. \A x \in Client : x # c => ~Asks(x, t) /\ ~Gets(x, t)
    BY OthersKeep DEF Asks, Gets
  <2>2. {x \in Client : Asks(x, t)} = IF Asks(c, t) THEN {c} ELSE {}
    BY <2>1
  <2>3. {x \in Client : Gets(x, t)} = IF Gets(c, t) THEN {c} ELSE {}
    BY <2>1
  <2> QED
    BY <2>2, <2>3, FS_EmptySet, FS_Singleton
<1> QED
  BY <1>1 DEF Observed

LEMMA ObservedType ==
  ASSUME HistoryType, ClientType, NEW c \in Client, ClientStep(c) \/ WindowEnds(c), Observed
  PROVE  HistoryType'
<1>1. \A t \in Tuple : /\ asked[t] + (IF Asks(c, t) THEN 1 ELSE 0) \in Nat
                       /\ got[t] + (IF Gets(c, t) THEN 1 ELSE 0) \in Nat
  BY DEF HistoryType
<1>2. asked' \in [Tuple -> Nat] /\ got' \in [Tuple -> Nat]
  BY <1>1, ObservedOfOne
<1> QED
  BY <1>2 DEF HistoryType, Observed

\* What a step of the server takes from the network and adds to it.
LEMMA ServerWorksOnNet ==
  ASSUME TypeOK', ServerWorks
  PROVE  /\ UNCHANGED <<client_pc, request, repeats, context, result, calls, got, asked, lost>>
         /\ ToSet(sent') \in SUBSET Message
         /\ \/ ReadSend \/ ReadGet \/ ReadAck
               \/ /\ PlaceTuple \/ Sweep
                  /\ net' = net (+) SetToBag(ToSet(sent'))
<1>1. ToSet(sent') \in SUBSET Message
  BY DEF ToSet, TypeOK
<1> QED
  BY <1>1 DEF ServerWorks, ReadSend, ReadGet, ReadAck, PlaceTuple, Sweep, Deliver, historyVars

LEMMA ServerNetType ==
  ASSUME NetType, TypeOK', ServerWorks
  PROVE  NetType'
<1>1. /\ ToSet(sent') \in SUBSET Datagrams
      /\ \/ ReadSend \/ ReadGet \/ ReadAck
         \/ net' = net (+) SetToBag(ToSet(sent'))
  BY ServerWorksOnNet DEF Datagrams
<1>2. \/ \E d \in BagToSet(net) : net' = (net (-) SetToBag({d})) (+) SetToBag(ToSet(sent'))
      \/ net' = net (+) SetToBag(ToSet(sent'))
  BY <1>1 DEF ReadSend, ReadGet, ReadAck, Deliver, Arrived
<1>3. ASSUME NEW d \in BagToSet(net), net' = (net (-) SetToBag({d})) (+) SetToBag(ToSet(sent'))
      PROVE  NetType'
  <2> DEFINE left == net (-) SetToBag({d})
  <2>1. IsABag(left) /\ BagToSet(left) \subseteq Datagrams
    BY BagLoses DEF NetType
  <2> HIDE DEF left
  <2>2. net' = left (+) SetToBag(ToSet(sent'))
    BY <1>3 DEF left
  <2> QED
    BY <1>1, <2>1, <2>2, BagGains DEF NetType
<1> QED
  BY <1>1, <1>2, <1>3, NetGains

LEMMA ServerHistoryType ==
  ASSUME HistoryType, TypeOK, TypeOK', ServerWorks
  PROVE  HistoryType'
<1>1. UNCHANGED <<got, asked, lost>>
  BY ServerWorksOnNet
<1>2. saved' \in [Tuple -> Nat]
  <2>1. ReadSend \/ ReadGet \/ ReadAck \/ Sweep => UNCHANGED saved
    BY DEF ReadSend, ReadGet, ReadAck, Sweep, historyVars
  <2>2. PlaceTuple => saved' = saved \/ \E t : saved' = Plus(saved, t)
    BY DEF PlaceTuple
  <2>3. ASSUME NEW t, saved' = Plus(saved, t) PROVE saved' \in [Tuple -> Nat]
    <3>1. t \in Tuple => saved[t] + 1 \in Nat
      BY DEF HistoryType
    <3> QED
      BY <2>3, <3>1 DEF Plus, HistoryType
  <2> QED
    BY <2>1, <2>2, <2>3 DEF ServerWorks, HistoryType
<1> QED
  BY <1>1, <1>2 DEF HistoryType

SystemTypes == ClientType /\ NetType /\ HistoryType

LEMMA SystemTypesInit == SystemInit => SystemTypes
<1> SUFFICES ASSUME SystemInit PROVE SystemTypes
  OBVIOUS
<1>1. ClientInit /\ saved = None /\ got = None /\ asked = None /\ lost = 0
  BY DEF SystemInit
<1>2. ClientType
  <2>1. Returns("no_error") \in Result
    BY ReturnsType DEF ApplicationError
  <2>2. \A c \in Client : 0 <= MaxCalls[c]
    BY ClientAssumption
  <2> QED
    BY <1>1, <2>1, <2>2, NoContextType DEF ClientInit, ClientType
<1>3. NetType
  BY <1>1, BagOfNone, CopiesType DEF ClientInit, NetType
<1>4. HistoryType
  BY <1>1 DEF HistoryType, None
<1> QED
  BY <1>2, <1>3, <1>4 DEF SystemTypes

LEMMA SystemTypesStep ==
  ASSUME SystemTypes, TypeOK, TypeOK', [SystemNext]_systemVars
  PROVE  SystemTypes'
<1> USE DEF SystemTypes
<1>1. CASE ServerWorks
  <2>1. UNCHANGED <<client_pc, request, repeats, context, result, calls>>
    BY <1>1, ServerWorksOnNet
  <2>2. ClientType'
    BY <2>1 DEF ClientType
  <2> QED
    BY <1>1, <2>2, ServerNetType, ServerHistoryType
<1>2. CASE ServerStops \/ UNCHANGED systemVars
  BY <1>2 DEF ServerStops, systemVars, clientVars, historyVars, ClientType, NetType, HistoryType
<1>3. ASSUME NEW c \in Client, ClientRuns(c) \/ TimesOut(c)
      PROVE  SystemTypes'
  <2>1. (ClientStep(c) \/ WindowEnds(c)) /\ Observed
    BY <1>3 DEF ClientRuns, TimesOut
  <2> QED
    BY <2>1, ClientStepType, ObservedType
<1>4. CASE Lose
  <2>1. PICK d \in BagToSet(net) : net' = net (-) SetToBag({d})
    BY <1>4 DEF Lose
  <2>2. UNCHANGED <<client_pc, request, repeats, context, result, calls, saved, got, asked>>
    BY <1>4 DEF Lose
  <2>3. lost' \in Nat
    BY <1>4 DEF Lose, HistoryType
  <2> QED
    BY <2>1, <2>2, <2>3, NetLoses DEF ClientType, HistoryType
<1>5. CASE StrangerSends
  <2>1. PICK c \in Client : net' = net (+) SetToBag({Tell("stranger", c)})
    BY <1>5 DEF StrangerSends
  <2>2. UNCHANGED <<client_pc, request, repeats, context, result, calls, saved, got, asked, lost>>
    BY <1>5 DEF StrangerSends, historyVars
  <2>3. {Tell("stranger", c)} \in SUBSET Datagrams
    BY DEF Datagrams
  <2> QED
    BY <2>1, <2>2, <2>3, NetGains DEF ClientType, HistoryType
<1> QED
  BY <1>1, <1>2, <1>3, <1>4, <1>5 DEF SystemNext

LEMMA SystemTypesInvariant == SystemSpec => [](TypeOK /\ SystemTypes)
<1>1. TypeOK /\ TypeOK' /\ SystemTypes /\ [SystemNext]_systemVars => SystemTypes'
  BY SystemTypesStep
<1> QED
  BY <1>1, SystemTypesInit, SystemRunsServer, TypeCorrect, PTL DEF SystemSpec

(***************************************************************************)
(* Whatever the network and the clients do, every variable of the system   *)
(* keeps its type: in particular what a client records of a datagram, of   *)
(* the server's or of a stranger's, and what it returns are within what    *)
(* ts_application_local_context_t and the api's results can hold.          *)
(***************************************************************************)
THEOREM SystemTypeCorrect == SystemSpec => []SystemTypeOK
<1>1. TypeOK /\ SystemTypes => SystemTypeOK
  BY DEF SystemTypes, ClientType, NetType, HistoryType, Datagrams, SystemTypeOK
<1> QED
  BY <1>1, SystemTypesInvariant, PTL

-----------------------------------------------------------------------------
(***************************************************************************)
(* How many copies an OUT may leave.  A request the client may still send, *)
(* one on the way and one the server is placing may each become a copy.    *)
(***************************************************************************)
\* Sendings of an OUT of t that the client's loop has left.
SendingsLeft(c, t) ==
  IF /\ client_pc[c] \in {"send", "await"}
     /\ request[c].kind = "out" /\ Span(request[c]) = t
  THEN IF client_pc[c] = "send" THEN repeats[c] ELSE repeats[c] - 1
  ELSE 0

Owed(t) == [c \in Client |-> CopiesOf(SendTuple(c, t), net) + SendingsLeft(c, t)]

Placing(t) == IF pc = "out" /\ heap[handler.data] = t THEN 1 ELSE 0

RepeatsLeft == \A c \in Client : client_pc[c] # "idle" => repeats[c] >= 1

Accounted(t) ==
  Summable(Owed(t)) /\ saved[t] + Placing(t) + Total(Owed(t)) <= MaxRepeats * asked[t]

OwedInNat ==
  \A t \in Tuple :
    /\ Owed(t) \in [Client -> Nat]
    /\ \A c \in Client : SendingsLeft(c, t) \in Nat /\ CopiesOf(SendTuple(c, t), net) \in Nat

LEMMA OwedType == SystemTypes /\ RepeatsLeft => OwedInNat
<1> SUFFICES ASSUME SystemTypes, RepeatsLeft, NEW t \in Tuple
             PROVE  /\ Owed(t) \in [Client -> Nat]
                    /\ \A c \in Client :
                         SendingsLeft(c, t) \in Nat /\ CopiesOf(SendTuple(c, t), net) \in Nat
  BY DEF OwedInNat
<1>1. \A c \in Client : CopiesOf(SendTuple(c, t), net) \in Nat
  BY CopiesType DEF SystemTypes, NetType
<1>2. \A c \in Client : SendingsLeft(c, t) \in Nat
  <2> TAKE c \in Client
  <2>1. repeats[c] \in Nat /\ (client_pc[c] # "idle" => repeats[c] - 1 \in Nat)
    BY DEF SystemTypes, ClientType, RepeatsLeft
  <2> QED
    BY <2>1 DEF SendingsLeft
<1> QED
  BY <1>1, <1>2 DEF Owed

LEMMA OwedTypeNext == SystemTypes' /\ RepeatsLeft' => OwedInNat'
BY OwedType, PTL

\* The loops never run out of repetitions before they end.
LEMMA RepeatsLeftStep ==
  ASSUME MaxRepeats > 0, ClientType, RepeatsLeft, NEW c \in Client,
         ClientStep(c) \/ WindowEnds(c)
  PROVE  RepeatsLeft'
<1>1. repeats[c] \in Nat /\ MaxRepeats \in Nat
      /\ client_pc \in [Client -> {"idle", "send", "await", "ack", "await_ack"}]
      /\ repeats \in [Client -> Nat]
  BY ClientAssumption DEF ClientType
<1>2. \A x \in Client : x # c => client_pc'[x] = client_pc[x] /\ repeats'[x] = repeats[x]
  BY OthersKeep
<1>3. client_pc'[c] # "idle" => repeats'[c] >= 1
  <2>1. \A res : Finish(c, res) => client_pc'[c] = "idle"
    BY <1>1 DEF Finish, Goto
  <2>2. \A place : Enter(c, place) => repeats'[c] >= 1
    BY <1>1 DEF Enter
  <2>3. client_pc[c] # "idle" => repeats[c] >= 1
    BY DEF RepeatsLeft
  <2>4. CASE Call(c)
    BY <2>1, <2>2, <2>4 DEF Call
  <2>5. CASE SendRequest(c) \/ SendRequestFails(c)
    BY <2>1, <2>3, <2>5 DEF SendRequest, SendRequestFails
  <2>6. CASE ReceiveAck(c) \/ ReceiveAckOfAck(c)
    BY <2>1, <2>3, <2>6 DEF ReceiveAck, ReceiveAckOfAck
  <2>7. CASE ReceiveAnswer(c)
    <3>1. repeats' = [repeats EXCEPT ![c] = IF @ = 0 THEN 0 ELSE @ + 1] \/ Enter(c, "ack")
      BY <2>7 DEF ReceiveAnswer
    <3>2. repeats[c] >= 1
      BY <2>3, <2>7 DEF ReceiveAnswer
    <3> QED
      BY <1>1, <2>2, <3>1, <3>2
  <2>8. CASE SendAck(c) \/ SendAckFails(c)
    BY <2>1, <2>3, <2>8 DEF SendAck, SendAckFails
  <2>9. CASE WindowEnds(c)
    <3>1. CASE repeats[c] = 1
      BY <2>1, <2>9, <3>1 DEF WindowEnds, LastRepeat
    <3>2. CASE repeats[c] # 1
      <4>1. repeats' = [repeats EXCEPT ![c] = IF @ = 0 THEN 0 ELSE @ - 1]
        BY <2>9, <3>2 DEF WindowEnds, LastRepeat
      <4>2. repeats[c] >= 1
        BY <2>3, <2>9 DEF WindowEnds, Windows
      <4> QED
        BY <1>1, <3>2, <4>1, <4>2
    <3> QED
      BY <3>1, <3>2
  <2> QED
    BY <2>4, <2>5, <2>6, <2>7, <2>8, <2>9 DEF ClientStep
<1> QED
  BY <1>2, <1>3 DEF RepeatsLeft

\* A client's step only brings requests of its own under way, and no more of
\* them than it has sendings left, but for an OUT that starts.
LEMMA ClientOwes ==
  ASSUME MaxRepeats > 0, ClientType, NetType, RepeatsLeft, NEW c \in Client,
         ClientStep(c) \/ WindowEnds(c), NEW t \in Tuple
  PROVE  /\ \A x \in Client : x # c =>
              CopiesOf(SendTuple(x, t), net') + SendingsLeft(x, t)'
                = CopiesOf(SendTuple(x, t), net) + SendingsLeft(x, t)
         /\ CopiesOf(SendTuple(c, t), net') + SendingsLeft(c, t)'
              <= CopiesOf(SendTuple(c, t), net) + SendingsLeft(c, t)
                   + (IF Asks(c, t) THEN MaxRepeats ELSE 0)
<1> DEFINE Sent(x) == CopiesOf(SendTuple(x, t), net)
           Left(x) == SendingsLeft(x, t)
<1>1. \A x \in Client : Sent(x) \in Nat
  BY CopiesType DEF NetType
<1>2. \A x \in Client : Left(x) \in Nat
  <2> TAKE x \in Client
  <2>1. repeats[x] \in Nat /\ (client_pc[x] # "idle" => repeats[x] - 1 \in Nat)
    BY DEF ClientType, RepeatsLeft
  <2> QED
    BY <2>1 DEF SendingsLeft
<1>3. \A x \in Client : x # c => Left(x)' = Left(x)
  BY OthersKeep DEF SendingsLeft
<1>4. MaxRepeats \in Nat
  BY ClientAssumption
<1>5. /\ client_pc \in [Client -> {"idle", "send", "await", "ack", "await_ack"}]
      /\ repeats \in [Client -> Nat] /\ repeats[c] \in Nat
      /\ request \in [Client -> Operations \cup {NULL}]
      /\ calls \in [Client -> Nat]
  BY DEF ClientType
<1>6. \A res : Finish(c, res) => Left(c)' = 0
  BY <1>5 DEF Finish, Goto, SendingsLeft
\* What receiving and the other sendings do to the requests under way.
<1>7. ASSUME NEW d \in Inbox(c), net' = net (-) SetToBag({d})
      PROVE  \A x \in Client : Sent(x)' = Sent(x)
  <2>1. d \in BagToSet(net) /\ "to" \in DOMAIN d
    BY DEF Inbox
  <2>2. \A x \in Client : SendTuple(x, t) # d
    BY <2>1 DEF SendTuple
  <2> QED
    BY <1>1, <1>7, <2>1, <2>2, BagLoses DEF NetType
<1>8. ASSUME net' = net (+) SetToBag({ReceivedMsg(c)})
      PROVE  \A x \in Client : Sent(x)' = Sent(x)
  <2>1. \A x \in Client : SendTuple(x, t) # ReceivedMsg(c)
    BY DEF SendTuple, ReceivedMsg
  <2> QED
    BY <1>1, <1>8, <2>1, BagGains DEF NetType
<1>9. ASSUME net' = net (+) SetToBag({Request(c)})
      PROVE  /\ \A x \in Client : x # c => Sent(x)' = Sent(x)
             /\ Sent(c)' <= Sent(c) + 1
             /\ ~(request[c].kind = "out" /\ Span(request[c]) = t) => Sent(c)' = Sent(c)
  <2>1. \A x \in Client : SendTuple(x, t) = Request(c) =>
          x = c /\ request[c].kind = "out" /\ Span(request[c]) = t
    BY DEF SendTuple, GetTuple, Request
  <2>2. \A d : CopiesOf(d, net') = CopiesOf(d, net) + (IF d \in {Request(c)} THEN 1 ELSE 0)
    BY <1>9, BagGains DEF NetType
  <2> QED
    BY <1>1, <2>1, <2>2
<1> DEFINE Goal == /\ \A x \in Client : x # c => Sent(x)' + Left(x)' = Sent(x) + Left(x)
                   /\ Sent(c)' + Left(c)' <= Sent(c) + Left(c)
                                              + (IF Asks(c, t) THEN MaxRepeats ELSE 0)
<1>10. ASSUME \A x \in Client : Sent(x)' = Sent(x), Left(c)' \in {0, Left(c)}
       PROVE  Goal
  BY <1>1, <1>2, <1>3, <1>4, <1>10
<1>11. CASE Call(c)
  <2>1. net' = net /\ client_pc[c] = "idle" /\ calls'[c] # calls[c]
    BY <1>5, <1>11 DEF Call
  <2>2. \A x \in Client : Sent(x)' = Sent(x)
    BY <2>1
  <2>3. Enter(c, "send") \/ \E res : Finish(c, res)
    BY <1>11 DEF Call
  <2>4. CASE Enter(c, "send")
    <3>1. client_pc'[c] = "send" /\ repeats'[c] = MaxRepeats
      BY <1>5, <2>4 DEF Enter, Goto
    <3>2. Left(c)' = IF Asks(c, t) THEN MaxRepeats ELSE 0
      BY <2>1, <3>1 DEF SendingsLeft, Asks
    <3> QED
      BY <1>1, <1>2, <1>3, <1>4, <2>2, <3>2
  <2> QED
    BY <1>6, <1>10, <2>2, <2>3, <2>4
<1>12. CASE SendRequest(c) \/ SendRequestFails(c)
  <2>1. client_pc[c] = "send" /\ request' = request /\ repeats[c] >= 1
    BY <1>12 DEF SendRequest, SendRequestFails, RepeatsLeft
  <2>2. net' = net \/ net' = net (+) SetToBag({Request(c)})
    BY <1>12 DEF SendRequest, SendRequestFails
  <2>3. (\E res : Finish(c, res)) \/ (Goto(c, "await") /\ repeats' = repeats)
    BY <1>12 DEF SendRequest, SendRequestFails
  <2>4. Left(c)' = 0 \/ (request[c].kind = "out" /\ Span(request[c]) = t /\ Left(c)' = repeats[c] - 1)
    <3>1. CASE \E res : Finish(c, res)
      BY <1>6, <3>1
    <3>2. CASE Goto(c, "await") /\ repeats' = repeats
      <4>1. client_pc'[c] = "await"
        BY <1>5, <3>2 DEF Goto
      <4> QED
        BY <2>1, <3>2, <4>1 DEF SendingsLeft
    <3> QED
      BY <2>3, <3>1, <3>2
  <2>5. Left(c) = IF request[c].kind = "out" /\ Span(request[c]) = t THEN repeats[c] ELSE 0
    BY <2>1 DEF SendingsLeft
  <2>6. /\ \A x \in Client : x # c => Sent(x)' = Sent(x)
        /\ Sent(c)' <= Sent(c) + 1 /\ Sent(c)' \in Nat
        /\ ~(request[c].kind = "out" /\ Span(request[c]) = t) => Sent(c)' = Sent(c)
    <3>1. Sent(c)' \in Nat
      <4>1. IsABag(net')
        BY <2>2, BagGains DEF NetType
      <4> QED
        BY <4>1, CopiesType
    <3>2. CASE net' = net
      BY <1>1, <3>1, <3>2
    <3> QED
      BY <1>9, <2>2, <3>1, <3>2
  <2>7. Sent(c)' + Left(c)' <= Sent(c) + Left(c)
    BY <1>1, <1>2, <1>5, <2>1, <2>4, <2>5, <2>6
  <2>8. Sent(c)' + Left(c)' \in Int
    BY <1>5, <2>4, <2>6
  <2> QED
    BY <1>1, <1>2, <1>3, <1>4, <2>6, <2>7, <2>8
<1>13. CASE ReceiveAck(c) \/ ReceiveAckOfAck(c)
  <2>1. PICK d \in Inbox(c) :
          /\ net' = net (-) SetToBag({d})
          /\ (\E res : Finish(c, res)) \/ UNCHANGED <<client_pc, repeats, context, result>>
    BY <1>13 DEF ReceiveAck, ReceiveAckOfAck, FromServer
  <2>2. request' = request
    BY <1>13 DEF ReceiveAck, ReceiveAckOfAck
  <2>3. Left(c)' \in {0, Left(c)}
    BY <1>6, <2>1, <2>2 DEF SendingsLeft
  <2> QED
    BY <1>7, <1>10, <2>1, <2>3
<1>14. CASE ReceiveAnswer(c)
  <2>1. PICK d \in Inbox(c) : net' = net (-) SetToBag({d})
    BY <1>14 DEF ReceiveAnswer
  <2>2. request' = request /\ request[c].kind # "out"
    BY <1>14 DEF ReceiveAnswer
  <2>3. Left(c)' \in {0, Left(c)}
    BY <2>2 DEF SendingsLeft
  <2> QED
    BY <1>7, <1>10, <2>1, <2>3
<1>15. CASE SendAck(c)
  <2>1. client_pc'[c] = "await_ack" /\ net' = net (+) SetToBag({ReceivedMsg(c)})
    BY <1>5, <1>15 DEF SendAck, Goto
  <2>2. Left(c)' \in {0, Left(c)}
    BY <2>1 DEF SendingsLeft
  <2> QED
    BY <1>8, <1>10, <2>1, <2>2
<1>16. CASE SendAckFails(c)
  <2>1. net' = net /\ \E res : Finish(c, res)
    BY <1>16 DEF SendAckFails
  <2>2. \A x \in Client : Sent(x)' = Sent(x)
    BY <2>1
  <2> QED
    BY <1>6, <1>10, <2>1, <2>2
<1>17. CASE WindowEnds(c)
  <2>1. net' = net /\ request' = request /\ client_pc[c] \in {"await", "await_ack"}
    BY <1>17 DEF WindowEnds, Windows
  <2>2. \A x \in Client : Sent(x)' = Sent(x)
    BY <2>1
  <2>3. Left(c)' \in {0, Left(c)}
    <3>1. CASE LastRepeat(c)
      BY <1>6, <1>17, <3>1 DEF WindowEnds
    <3>2. CASE ~LastRepeat(c)
      <4>1. /\ client_pc'[c] = IF client_pc[c] = "await" THEN "send" ELSE "ack"
            /\ repeats'[c] = IF repeats[c] = 0 THEN 0 ELSE repeats[c] - 1
        BY <1>5, <1>17, <3>2 DEF WindowEnds, Goto
      <4>2. repeats[c] >= 1
        BY <2>1 DEF RepeatsLeft
      <4> QED
        BY <1>5, <2>1, <4>1, <4>2 DEF SendingsLeft
    <3> QED
      BY <3>1, <3>2
  <2> QED
    BY <1>10, <2>2, <2>3
<1> QED
  BY <1>11, <1>12, <1>13, <1>14, <1>15, <1>16, <1>17 DEF ClientStep

\* Reading takes one copy of a datagram, and the step's messages join the rest.
LEMMA NetReadsAndSends ==
  ASSUME NetType, NEW d \in BagToSet(net), NEW S,
         net' = (net (-) SetToBag({d})) (+) SetToBag(S)
  PROVE  \A e : CopiesOf(e, net') =
                  CopiesOf(e, net) - (IF e = d THEN 1 ELSE 0) + (IF e \in S THEN 1 ELSE 0)
<1> DEFINE left == net (-) SetToBag({d})
<1>1. IsABag(left) /\ \A e : CopiesOf(e, left) = CopiesOf(e, net) - (IF e = d THEN 1 ELSE 0)
  BY BagLoses DEF NetType
<1> HIDE DEF left
<1>2. net' = left (+) SetToBag(S)
  BY DEF left
<1>3. \A e : CopiesOf(e, net') = CopiesOf(e, left) + (IF e \in S THEN 1 ELSE 0)
  BY <1>1, <1>2, BagGains
<1> QED
  BY <1>1, <1>3

\* No message of the server's is a request.
LEMMA ServerLeavesRequests ==
  ASSUME NetType, TypeOK', ServerWorks, NEW x \in Client, NEW t \in Tuple,
         ~\E c \in Client, u \in Tuple : ReadSend /\ ReadTuple(c, u)
                                           /\ Deliver(net (-) SetToBag({SendTuple(c, u)}))
  PROVE  CopiesOf(SendTuple(x, t), net') = CopiesOf(SendTuple(x, t), net)
<1> DEFINE e == SendTuple(x, t)
<1>1. e \notin ToSet(sent')
  <2>1. e \notin Message
    BY DEF SendTuple, Message
  <2> QED
    BY <2>1, ServerWorksOnNet
<1>2. CopiesOf(e, net) \in Nat
  BY CopiesType DEF NetType
<1>3. ASSUME NEW d \in BagToSet(net), d # e, net' = (net (-) SetToBag({d})) (+) SetToBag(ToSet(sent'))
      PROVE  CopiesOf(e, net') = CopiesOf(e, net)
  <2>1. \A z : CopiesOf(z, net') = CopiesOf(z, net) - (IF z = d THEN 1 ELSE 0)
                                     + (IF z \in ToSet(sent') THEN 1 ELSE 0)
    BY <1>3, NetReadsAndSends
  <2>2. CopiesOf(e, net') = CopiesOf(e, net) - (IF e = d THEN 1 ELSE 0)
                              + (IF e \in ToSet(sent') THEN 1 ELSE 0)
    BY <2>1
  <2> QED
    BY <1>1, <1>2, <1>3, <2>2
<1>4. CASE ReadGet
  <2>1. PICK c \in Client, kind \in Requests, u \in Template :
          /\ GetTuple(c, kind, u) \in BagToSet(net)
          /\ net' = (net (-) SetToBag({GetTuple(c, kind, u)})) (+) SetToBag(ToSet(sent'))
    BY <1>4 DEF ReadGet, Arrived, Deliver
  <2>2. GetTuple(c, kind, u) # e
    BY DEF GetTuple, SendTuple
  <2> QED
    BY <1>3, <2>1, <2>2
<1>5. CASE ReadAck
  <2>1. PICK c \in Client :
          /\ ReceivedMsg(c) \in BagToSet(net)
          /\ net' = (net (-) SetToBag({ReceivedMsg(c)})) (+) SetToBag(ToSet(sent'))
    BY <1>5 DEF ReadAck, Arrived, Deliver
  <2>2. ReceivedMsg(c) # e
    BY DEF ReceivedMsg, SendTuple
  <2> QED
    BY <1>3, <2>1, <2>2
<1>6. CASE PlaceTuple \/ Sweep
  <2>1. net' = net (+) SetToBag(ToSet(sent'))
    BY <1>6 DEF PlaceTuple, Sweep, Deliver
  <2> QED
    BY <1>1, <1>2, <2>1, BagGains DEF NetType
<1>7. ~ReadSend
  BY DEF ReadSend
<1> QED
  BY <1>4, <1>5, <1>6, <1>7 DEF ServerWorks

\* The server turns a request into a tuple it is placing, and that into a copy.
LEMMA ServerOwes ==
  ASSUME SystemTypes, TypeOK, TypeOK', ServerWorks, NEW t \in Tuple
  PROVE  \/ \E c \in Client :
              /\ CopiesOf(SendTuple(c, t), net) >= 1
              /\ \A x \in Client : CopiesOf(SendTuple(x, t), net') =
                                   CopiesOf(SendTuple(x, t), net) - (IF x = c THEN 1 ELSE 0)
              /\ saved' = saved /\ Placing(t) = 0 /\ Placing(t)' = 1
         \/ /\ \A x \in Client : CopiesOf(SendTuple(x, t), net') = CopiesOf(SendTuple(x, t), net)
            /\ saved'[t] + Placing(t)' <= saved[t] + Placing(t)
<1> USE DEF SystemTypes
<1>1. NetType /\ saved \in [Tuple -> Nat]
  BY DEF HistoryType
<1>2. CASE ReadSend
  <2>1. PICK c \in Client, u \in Tuple :
          /\ SendTuple(c, u) \in BagToSet(net) /\ ReadTuple(c, u)
          /\ net' = (net (-) SetToBag({SendTuple(c, u)})) (+) SetToBag(ToSet(sent'))
    BY <1>2 DEF ReadSend, Arrived, Deliver
  <2>2. ToSet(sent') = {}
    BY <2>1 DEF ReadTuple, ToSet
  <2>3. \A e : CopiesOf(e, net') = CopiesOf(e, net) - (IF e = SendTuple(c, u) THEN 1 ELSE 0)
    <3>1. \A e : CopiesOf(e, net) \in Nat
      BY <1>1, CopiesType DEF NetType
    <3> QED
      BY <1>1, <2>1, <2>2, <3>1, NetReadsAndSends
  <2>4. \A x \in Client : SendTuple(x, t) = SendTuple(c, u) <=> x = c /\ t = u
    BY DEF SendTuple
  <2>5. saved' = saved /\ pc = "receive" /\ pc' = "out" /\ heap'[handler'.data] = u
    BY <1>2, <2>1 DEF ReadSend, ReadTuple, historyVars, TypeOK
  <2>6. Placing(t) = 0 /\ Placing(t)' = IF t = u THEN 1 ELSE 0
    BY <2>5 DEF Placing
  <2>7. CopiesOf(SendTuple(c, u), net) >= 1
    BY <1>1, <2>1, CopiesType DEF NetType
  <2>8. CASE t = u
    BY <2>3, <2>4, <2>5, <2>6, <2>7, <2>8
  <2>9. CASE t # u
    <3>1. \A x \in Client : CopiesOf(SendTuple(x, t), net) \in Nat
      BY <1>1, CopiesType DEF NetType
    <3>2. \A x \in Client : CopiesOf(SendTuple(x, t), net') = CopiesOf(SendTuple(x, t), net)
      BY <2>3, <2>4, <2>9, <3>1
    <3>3. saved'[t] + Placing(t)' = saved[t] + Placing(t)
      BY <1>1, <2>5, <2>6, <2>9
    <3> QED
      BY <1>1, <2>5, <2>6, <2>9, <3>2, <3>3
  <2> QED
    BY <2>8, <2>9
<1>3. CASE ~ReadSend
  <2>1. \A x \in Client : CopiesOf(SendTuple(x, t), net') = CopiesOf(SendTuple(x, t), net)
    BY <1>1, <1>3, ServerLeavesRequests
  <2>2. CASE ReadGet \/ ReadAck \/ Sweep
    <3>1. saved' = saved
      BY <2>2 DEF ReadGet, ReadAck, Sweep, historyVars
    <3>2. pc # "out" /\ pc' # "out"
      <4>1. CASE ReadGet
        <5>1. PICK c \in Client, kind \in Requests, u \in Template : server_process_get(kind, c, u)
          BY <4>1 DEF ReadGet
        <5>2. CASE ReadFreedTuple(kind, u)
          BY <5>2 DEF ReadFreedTuple, Fault
        <5>3. CASE TakeTuple(kind, c, u)
          BY <5>3 DEF TakeTuple, Return
        <5>4. CASE CopyTuple(kind, c, u)
          BY <5>4 DEF CopyTuple, Return
        <5>5. CASE QueueTemplate(kind, c, u)
          BY <5>5 DEF QueueTemplate, Return
        <5>6. CASE Refuse(kind, c, u)
          BY <5>6 DEF Refuse, Return
        <5> QED
          BY <5>1, <5>2, <5>3, <5>4, <5>5, <5>6 DEF server_process_get
      <4>2. CASE ReadAck
        BY <4>2 DEF ReadAck, server_ack_cb, server_ack_cb_unknown, Return, Fault, PointerFault
      <4>3. CASE BeginSweep \/ RepeatAnswer \/ EndSweep
        BY <4>3 DEF BeginSweep, RepeatAnswer, EndSweep
      <4>4. CASE ResendTuple
        BY <4>4 DEF ResendTuple, Fault, PointerFault
      <4>5. CASE RejectTuple
        BY <4>5 DEF RejectTuple, Fault, PointerFault
      <4> QED
        BY <2>2, <4>1, <4>2, <4>3, <4>4, <4>5 DEF Sweep, server_resend_tuple_for_connections
    <3>3. Placing(t) = 0 /\ Placing(t)' = 0
      BY <3>2 DEF Placing
    <3> QED
      BY <1>1, <2>1, <3>1, <3>3
  <2>3. CASE PlaceTuple
    <3>1. /\ pc = "out"
          /\ RedirectTuple \/ SaveTuple
          /\ saved' = IF pc' = "out" THEN saved ELSE Plus(saved, heap[handler.data])
      BY <2>3 DEF PlaceTuple, RedirectTuple, SaveTuple
    <3>2. CASE pc' = "out"
      <4>1. UNCHANGED <<heap, handler>>
        BY <3>1, <3>2 DEF RedirectTuple, SaveTuple, Return
      <4>2. Placing(t)' = Placing(t) /\ saved' = saved
        BY <3>1, <3>2, <4>1 DEF Placing
      <4>3. Placing(t) \in Nat
        BY DEF Placing
      <4> QED
        BY <1>1, <2>1, <4>2, <4>3
    <3>3. CASE pc' # "out"
      <4>1. Placing(t)' = 0 /\ Placing(t) = IF heap[handler.data] = t THEN 1 ELSE 0
        BY <3>1, <3>3 DEF Placing
      <4>2. saved'[t] = saved[t] + (IF heap[handler.data] = t THEN 1 ELSE 0)
        BY <1>1, <3>1, <3>3 DEF Plus
      <4> QED
        BY <1>1, <2>1, <4>1, <4>2
    <3> QED
      BY <3>2, <3>3
  <2> QED
    BY <1>3, <2>2, <2>3 DEF ServerWorks
<1> QED
  BY <1>2, <1>3

\* The sum over the clients after a step.
LEMMA AccountedStep ==
  ASSUME MaxRepeats > 0, SystemTypes, SystemTypes', RepeatsLeft, RepeatsLeft', TypeOK, TypeOK',
         [SystemNext]_systemVars, NEW t \in Tuple, Accounted(t)
  PROVE  Accounted(t)'
<1> DEFINE Sent(x) == CopiesOf(SendTuple(x, t), net)
           Left(x) == SendingsLeft(x, t)
           held == saved[t] + Placing(t)
           limit == MaxRepeats * asked[t]
<1>1. /\ Owed(t) \in [Client -> Nat] /\ Owed(t)' \in [Client -> Nat]
      /\ \A x \in Client : /\ Sent(x) \in Nat /\ Left(x) \in Nat
                            /\ Sent(x)' \in Nat /\ Left(x)' \in Nat
  BY OwedType, OwedTypeNext DEF OwedInNat
<1>2. /\ \A x \in Client : Owed(t)[x] = Sent(x) + Left(x)
      /\ \A x \in Client : Owed(t)'[x] = Sent(x)' + Left(x)'
  BY DEF Owed
<1>3. held \in Nat /\ held' \in Nat /\ limit \in Nat /\ Summable(Owed(t)) /\ Total(Owed(t)) \in Nat
  <2>1. saved[t] \in Nat /\ saved'[t] \in Nat /\ asked[t] \in Nat /\ MaxRepeats \in Nat
    BY ClientAssumption DEF SystemTypes, HistoryType
  <2>2. Placing(t) \in Nat /\ Placing(t)' \in Nat
    BY DEF Placing
  <2> QED
    BY <2>1, <2>2, TotalType DEF Accounted
<1>4. held + Total(Owed(t)) <= limit
  BY DEF Accounted
<1>5. ASSUME Summable(Owed(t)'), held' + Total(Owed(t)') <= limit'
      PROVE  Accounted(t)'
  BY <1>5 DEF Accounted
<1> HIDE DEF held, limit
\* Fewer are owed, and no more held.
<1>6. ASSUME \A x \in Client : Sent(x)' + Left(x)' <= Sent(x) + Left(x),
             held' <= held, limit' = limit
      PROVE  Accounted(t)'
  <2>1. Summable(Owed(t)') /\ Total(Owed(t)') <= Total(Owed(t))
    <3> DEFINE f == Owed(t)
               g == Owed(t)'
    <3>1. /\ f \in [Client -> Nat] /\ g \in [Client -> Nat] /\ Summable(f)
          /\ \A x \in Client : g[x] <= f[x]
      BY <1>1, <1>2, <1>3, <1>6
    <3> HIDE DEF f, g
    <3>2. Summable(g) /\ Total(g) <= Total(f)
      BY <3>1, TotalLess
    <3> QED
      BY <3>2 DEF f, g
  <2>2. Total(Owed(t)') \in Nat
    BY <2>1, TotalType
  <2> QED
    BY <1>3, <1>4, <1>5, <1>6, <2>1, <2>2
\* One client owes differently.
<1>7. ASSUME NEW c \in Client, NEW n \in Nat,
             \A x \in Client : x # c => Sent(x)' + Left(x)' = Sent(x) + Left(x)
      PROVE  /\ Summable(Owed(t)')
             /\ Total(Owed(t)') + (Sent(c) + Left(c)) = Total(Owed(t)) + (Sent(c)' + Left(c)')
  <2> DEFINE f == Owed(t)
             g == Owed(t)'
             m == Sent(c)' + Left(c)'
  <2>1. f \in [Client -> Nat] /\ g \in [Client -> Nat] /\ Summable(f) /\ m \in Nat
    BY <1>1, <1>3
  <2>2. g[c] = m /\ f[c] = Sent(c) + Left(c) /\ \A x \in Client : x # c => g[x] = f[x]
    BY <1>2, <1>7
  <2> HIDE DEF f, g, m
  <2>3. Summable(g) /\ Total(g) + f[c] = Total(f) + g[c]
    BY <2>1, <2>2, TotalChanges
  <2> QED
    BY <2>2, <2>3 DEF f, g, m
<1>8. CASE ServerWorks
  <2>1. asked' = asked /\ \A x \in Client : Left(x)' = Left(x)
    BY <1>8, ServerWorksOnNet DEF SendingsLeft
  <2>2. limit' = limit
    BY <2>1 DEF limit
  <2>3. CASE \E c \in Client :
               /\ Sent(c) >= 1
               /\ \A x \in Client : Sent(x)' = Sent(x) - (IF x = c THEN 1 ELSE 0)
               /\ saved' = saved /\ Placing(t) = 0 /\ Placing(t)' = 1
    <3>1. PICK c \in Client :
               /\ Sent(c) >= 1
               /\ \A x \in Client : Sent(x)' = Sent(x) - (IF x = c THEN 1 ELSE 0)
               /\ saved' = saved /\ Placing(t) = 0 /\ Placing(t)' = 1
      BY <2>3
    <3>2. \A x \in Client : x # c => Sent(x)' + Left(x)' = Sent(x) + Left(x)
      BY <1>1, <2>1, <3>1
    <3>3. /\ Summable(Owed(t)')
          /\ Total(Owed(t)') + (Sent(c) + Left(c)) = Total(Owed(t)) + (Sent(c)' + Left(c)')
      BY <1>7, <3>2
    <3>4. Total(Owed(t)') \in Nat
      BY <3>3, TotalType
    <3>5. Sent(c)' = Sent(c) - 1 /\ Left(c)' = Left(c)
      BY <2>1, <3>1
    <3>6. held' = held + 1
      <4>1. saved[t] \in Nat
        BY DEF SystemTypes, HistoryType
      <4> QED
        BY <3>1, <4>1 DEF held
    <3> QED
      BY <1>1, <1>3, <1>4, <1>5, <2>2, <3>3, <3>4, <3>5, <3>6
  <2>4. CASE /\ \A x \in Client : Sent(x)' = Sent(x)
             /\ saved'[t] + Placing(t)' <= saved[t] + Placing(t)
    <3>1. \A x \in Client : Sent(x)' + Left(x)' <= Sent(x) + Left(x)
      BY <1>1, <2>1, <2>4
    <3>2. held' <= held
      BY <2>4 DEF held
    <3> QED
      BY <1>6, <2>2, <3>1, <3>2
  <2> QED
    BY <1>8, <2>3, <2>4, ServerOwes
<1>9. ASSUME NEW c \in Client, ClientRuns(c) \/ TimesOut(c)
      PROVE  Accounted(t)'
  <2>1. (ClientStep(c) \/ WindowEnds(c)) /\ Observed /\ UNCHANGED vars
    BY <1>9 DEF ClientRuns, TimesOut
  <2>2. held' = held
    BY <2>1 DEF held, Observed, Placing, vars, spaceVars
  <2>3. /\ \A x \in Client : x # c => Sent(x)' + Left(x)' = Sent(x) + Left(x)
        /\ Sent(c)' + Left(c)' <= Sent(c) + Left(c) + (IF Asks(c, t) THEN MaxRepeats ELSE 0)
    BY <2>1, ClientOwes DEF SystemTypes
  <2>4. limit' = limit + (IF Asks(c, t) THEN MaxRepeats ELSE 0)
    <3>1. asked'[t] = asked[t] + (IF Asks(c, t) THEN 1 ELSE 0)
      BY <2>1, ObservedOfOne DEF SystemTypes
    <3>2. asked[t] \in Nat /\ MaxRepeats \in Nat
      BY ClientAssumption DEF SystemTypes, HistoryType
    <3>3. \A m, n \in Nat : m * (n + 1) = m * n + m
      OBVIOUS
    <3> QED
      BY <3>1, <3>2, <3>3 DEF limit
  <2>5. CASE ~Asks(c, t)
    <3>1. limit' = limit
      BY <1>3, <2>4, <2>5
    <3>2. \A x \in Client : Sent(x)' + Left(x)' <= Sent(x) + Left(x)
      BY <1>1, <2>3, <2>5
    <3> QED
      BY <1>3, <1>6, <2>2, <3>1, <3>2
  <2>6. CASE Asks(c, t)
    <3>1. Sent(c)' + Left(c)' <= Sent(c) + Left(c) + MaxRepeats /\ limit' = limit + MaxRepeats
          /\ MaxRepeats \in Nat
      BY <2>3, <2>4, <2>6, ClientAssumption
    <3>2. /\ Summable(Owed(t)')
          /\ Total(Owed(t)') + (Sent(c) + Left(c)) = Total(Owed(t)) + (Sent(c)' + Left(c)')
      BY <1>7, <2>3
    <3>3. Total(Owed(t)') \in Nat
      BY <3>2, TotalType
    <3>4. held' + Total(Owed(t)') <= limit'
      BY <1>1, <1>3, <1>4, <2>2, <3>1, <3>2, <3>3
    <3> QED
      BY <1>5, <3>2, <3>4
  <2> QED
    BY <2>5, <2>6
<1>10. CASE Lose \/ StrangerSends \/ ServerStops \/ UNCHANGED systemVars
  <2>1. UNCHANGED <<client_pc, request, repeats, saved, asked>>
    BY <1>10 DEF Lose, StrangerSends, ServerStops, systemVars, clientVars, historyVars
  <2>2. limit' = limit /\ \A x \in Client : Left(x)' = Left(x)
    BY <2>1 DEF limit, SendingsLeft
  <2>3. Placing(t)' = Placing(t)
    <3>1. CASE ServerStops
      BY <3>1 DEF ServerStops, Stop, Placing
    <3>2. CASE Lose \/ StrangerSends \/ UNCHANGED systemVars
      BY <3>2 DEF Lose, StrangerSends, systemVars, vars, spaceVars, Placing
    <3> QED
      BY <1>10, <3>1, <3>2
  <2>4. \A x \in Client : Sent(x)' <= Sent(x)
    <3>1. CASE Lose
      <4>1. PICK d \in BagToSet(net) : net' = net (-) SetToBag({d})
        BY <3>1 DEF Lose
      <4>2. \A e : CopiesOf(e, net') = CopiesOf(e, net) - (IF e = d THEN 1 ELSE 0)
        BY <4>1, BagLoses DEF SystemTypes, NetType
      <4> QED
        BY <1>1, <4>2
    <3>2. CASE StrangerSends
      <4>1. PICK c \in Client : net' = net (+) SetToBag({Tell("stranger", c)})
        BY <3>2 DEF StrangerSends
      <4>2. \A e : CopiesOf(e, net') = CopiesOf(e, net) + (IF e \in {Tell("stranger", c)} THEN 1 ELSE 0)
        BY <4>1, BagGains DEF SystemTypes, NetType
      <4>3. \A x \in Client : SendTuple(x, t) # Tell("stranger", c)
        BY DEF SendTuple, Tell
      <4> QED
        BY <1>1, <4>2, <4>3
    <3>3. CASE ServerStops \/ UNCHANGED systemVars
      <4>1. net' = net
        BY <3>3 DEF ServerStops, systemVars, clientVars
      <4> QED
        BY <1>1, <4>1
    <3> QED
      BY <1>10, <3>1, <3>2, <3>3
  <2>5. held' = held
    BY <2>1, <2>3 DEF held
  <2> QED
    BY <1>1, <1>3, <1>6, <2>2, <2>4, <2>5
<1> QED
  BY <1>8, <1>9, <1>10 DEF SystemNext

LEMMA AccountedInit == SystemInit => RepeatsLeft /\ \A t \in Tuple : Accounted(t)
<1> SUFFICES ASSUME SystemInit PROVE RepeatsLeft /\ \A t \in Tuple : Accounted(t)
  OBVIOUS
<1>1. /\ client_pc = [c \in Client |-> "idle"] /\ net = EmptyBag /\ pc = "receive"
      /\ saved = None /\ asked = None
  BY DEF SystemInit, ClientInit, Init
<1>2. RepeatsLeft
  BY <1>1 DEF RepeatsLeft
<1>3. ASSUME NEW t \in Tuple PROVE Accounted(t)
  <2>1. \A c \in Client : CopiesOf(SendTuple(c, t), net) + SendingsLeft(c, t) = 0
    BY <1>1, BagOfNone DEF SendingsLeft
  <2>2. Owed(t) \in [Client -> Nat] /\ \A c \in Client : Owed(t)[c] = 0
    BY <2>1 DEF Owed
  <2>3. Summable(Owed(t)) /\ Total(Owed(t)) = 0
    BY <2>2, TotalZero
  <2>4. Placing(t) = 0 /\ saved[t] = 0 /\ asked[t] = 0 /\ MaxRepeats \in Nat
    BY <1>1, ClientAssumption DEF Placing, None
  <2> QED
    BY <2>3, <2>4 DEF Accounted
<1> QED
  BY <1>2, <1>3

LEMMA AccountedInvariant ==
  ASSUME MaxRepeats > 0
  PROVE  SystemSpec => [](RepeatsLeft /\ \A t \in Tuple : Accounted(t))
<1> DEFINE AllAccounted == RepeatsLeft /\ \A t \in Tuple : Accounted(t)
<1>1. SystemInit => AllAccounted
  BY AccountedInit
<1>2. /\ TypeOK /\ TypeOK' /\ SystemTypes /\ SystemTypes'
      /\ AllAccounted /\ [SystemNext]_systemVars
      => AllAccounted'
  <2> SUFFICES ASSUME TypeOK, TypeOK', SystemTypes, SystemTypes', AllAccounted,
                      [SystemNext]_systemVars
               PROVE  AllAccounted'
    OBVIOUS
  <2>1. RepeatsLeft'
    <3>1. CASE \E c \in Client : ClientRuns(c) \/ TimesOut(c)
      BY <3>1, RepeatsLeftStep DEF ClientRuns, TimesOut, SystemTypes
    <3>2. CASE ServerWorks
      BY <3>2, ServerWorksOnNet DEF RepeatsLeft
    <3>3. CASE Lose \/ StrangerSends \/ ServerStops \/ UNCHANGED systemVars
      BY <3>3 DEF Lose, StrangerSends, ServerStops, systemVars, clientVars, RepeatsLeft
    <3> QED
      BY <3>1, <3>2, <3>3 DEF SystemNext
  <2>2. ASSUME NEW t \in Tuple PROVE Accounted(t)'
    BY <2>1, AccountedStep
  <2> QED
    BY <2>1, <2>2
<1> QED
  BY <1>1, <1>2, SystemTypesInvariant, PTL DEF SystemSpec

(***************************************************************************)
(* An OUT leaves at most max_number_of_repeats copies of its tuple, saved  *)
(* or handed to a waiting client, however late, often or never its         *)
(* requests and acknowledgements arrive (the loops of                      *)
(* tuple_space_network.c).  The loop that repeats for ever, with a maximum *)
(* of 0, promises no bound.                                                *)
(***************************************************************************)
THEOREM OutLeavesFewCopies == ASSUME MaxRepeats > 0 PROVE SystemSpec => []CopiesBounded
<1>1. SystemTypes /\ RepeatsLeft /\ (\A t \in Tuple : Accounted(t)) => CopiesBounded
  <2> SUFFICES ASSUME SystemTypes, NEW t \in Tuple, Accounted(t)
               PROVE  saved[t] <= MaxRepeats * asked[t]
    BY DEF CopiesBounded
  <2>1. /\ Total(Owed(t)) \in Nat
        /\ saved[t] + Placing(t) + Total(Owed(t)) <= MaxRepeats * asked[t]
    BY TotalType DEF Accounted
  <2>2. Placing(t) \in Nat /\ saved[t] \in Nat
    BY DEF Placing, SystemTypes, HistoryType
  <2>3. MaxRepeats * asked[t] \in Nat
    BY ClientAssumption DEF SystemTypes, HistoryType
  <2> QED
    BY <2>1, <2>2, <2>3
<1> QED
  BY <1>1, AccountedInvariant, SystemTypesInvariant, PTL

-----------------------------------------------------------------------------
(***************************************************************************)
(* Where the copies of a tuple can be: in the stash, in a reply on its way *)
(* to a client, or in the local context of a client about to return it.    *)
(* When no client copies tuples (RD, RDP) and the sweep is quiet, nothing  *)
(* but placing a tuple makes one more.                                     *)
(***************************************************************************)
OnlyTakes == Requests \subseteq {"in", "inp"}

\* The reply that carries a tuple to a client.
Carrying(c, t) == [type |-> "tuple", to |-> c, tuple |-> t]

\* A client that acknowledges a reply holds what it will return.
Holding(c, t) ==
  IF client_pc[c] \in {"ack", "await_ack"} /\ context[c].tuple = t THEN 1 ELSE 0

Reaching(t) == [c \in Client |-> CopiesOf(Carrying(c, t), net) + Holding(c, t)]

ContextFresh ==
  \A c \in Client : client_pc[c] \notin {"ack", "await_ack"} => context[c] = NoContext

QueueRemoves == tuple_queue \in Seq({entry \in Waiting : entry.remove})

Conserved(t) ==
  Summable(Reaching(t)) /\ got[t] + Copies(t) + Total(Reaching(t)) <= saved[t]

ReachingInNat ==
  \A t \in Tuple :
    /\ Reaching(t) \in [Client -> Nat]
    /\ \A c \in Client : CopiesOf(Carrying(c, t), net) \in Nat /\ Holding(c, t) \in {0, 1}

LEMMA ReachingType == SystemTypes => ReachingInNat
<1> SUFFICES ASSUME SystemTypes, NEW t \in Tuple
             PROVE  /\ Reaching(t) \in [Client -> Nat]
                    /\ \A c \in Client :
                         CopiesOf(Carrying(c, t), net) \in Nat /\ Holding(c, t) \in {0, 1}
  BY DEF ReachingInNat
<1>1. \A c \in Client : CopiesOf(Carrying(c, t), net) \in Nat
  BY CopiesType DEF SystemTypes, NetType
<1>2. \A c \in Client : Holding(c, t) \in {0, 1}
  BY DEF Holding
<1> QED
  BY <1>1, <1>2 DEF Reaching

LEMMA ReachingTypeNext == SystemTypes' => ReachingInNat'
BY ReachingType, PTL

-----------------------------------------------------------------------------
(***************************************************************************)
(* The copies in the stash.                                                *)
(***************************************************************************)
CopiesInNat == \A t \in Tuple : Copies(t) \in Nat

\* The entries of the stash that point to t.
PointTo(t) == {entry \in Stashed : heap[entry.data] = t}

LEMMA CopiesWhere ==
  ASSUME TypeOK, NEW t
  PROVE  Copies(t) = Cardinality(Where(tuple_stash, PointTo(t)))
<1>1. \A i \in DOMAIN tuple_stash : tuple_stash[i] \in Stashed
  BY ElementOfSeq DEF TypeOK
<1>2. {i \in DOMAIN tuple_stash : heap[tuple_stash[i].data] = t} = Where(tuple_stash, PointTo(t))
  BY <1>1 DEF Where, PointTo
<1> QED
  BY <1>2 DEF Copies

LEMMA CopiesNumber == TypeOK => CopiesInNat
<1> SUFFICES ASSUME TypeOK, NEW t \in Tuple PROVE Copies(t) \in Nat
  BY DEF CopiesInNat
<1>1. tuple_stash \in Seq(Stashed)
  BY DEF TypeOK
<1> QED
  BY <1>1, CopiesWhere, WhereFinite

LEMMA CopiesNumberNext == TypeOK' => CopiesInNat'
BY CopiesNumber, PTL

\* Linking a pointer in, unlinking one, and changing the heap elsewhere.
LEMMA CopiesWhereNext ==
  ASSUME TypeOK', NEW t, UNCHANGED heap
  PROVE  Copies(t)' = Cardinality(Where(tuple_stash', PointTo(t)))
<1>1. \A i \in DOMAIN tuple_stash' : tuple_stash'[i] \in Stashed
  BY ElementOfSeq DEF TypeOK
<1>2. {i \in DOMAIN tuple_stash' : heap'[tuple_stash'[i].data] = t} = Where(tuple_stash', PointTo(t))
  BY <1>1 DEF Where, PointTo
<1> QED
  BY <1>2 DEF Copies

LEMMA CopiesLinked ==
  ASSUME TypeOK, TypeOK', NEW t, UNCHANGED heap, NEW entry \in Stashed,
         tuple_stash' = Cons(entry, tuple_stash)
  PROVE  Copies(t)' = Copies(t) + (IF heap[entry.data] = t THEN 1 ELSE 0)
<1>1. tuple_stash \in Seq(Stashed)
  BY DEF TypeOK
<1>2. entry \in PointTo(t) <=> heap[entry.data] = t
  BY DEF PointTo
<1>3. Cardinality(Where(Cons(entry, tuple_stash), PointTo(t))) =
        Cardinality(Where(tuple_stash, PointTo(t))) + (IF entry \in PointTo(t) THEN 1 ELSE 0)
  BY <1>1, WhereCons
<1> QED
  BY <1>2, <1>3, CopiesWhere, CopiesWhereNext

LEMMA CopiesUnlinked ==
  ASSUME TypeOK, TypeOK', NEW t, UNCHANGED heap, NEW i \in DOMAIN tuple_stash,
         tuple_stash' = RemoveAt(tuple_stash, i)
  PROVE  Copies(t)' = Copies(t) - (IF heap[tuple_stash[i].data] = t THEN 1 ELSE 0)
<1>1. tuple_stash \in Seq(Stashed) /\ tuple_stash[i] \in Stashed
  BY ElementOfSeq DEF TypeOK
<1>2. tuple_stash[i] \in PointTo(t) <=> heap[tuple_stash[i].data] = t
  BY <1>1 DEF PointTo
<1>3. Cardinality(Where(RemoveAt(tuple_stash, i), PointTo(t))) =
        Cardinality(Where(tuple_stash, PointTo(t)))
          - (IF tuple_stash[i] \in PointTo(t) THEN 1 ELSE 0)
  BY <1>1, WhereRemoveAt
<1> QED
  BY <1>2, <1>3, CopiesWhere, CopiesWhereNext

LEMMA CopiesKept ==
  ASSUME TypeOK, NEW t, UNCHANGED tuple_stash,
         \A i \in DOMAIN tuple_stash :
           heap'[tuple_stash[i].data] = t => heap[tuple_stash[i].data] = t
  PROVE  Copies(t)' <= Copies(t)
<1> DEFINE before == {i \in DOMAIN tuple_stash : heap[tuple_stash[i].data] = t}
           after  == {i \in DOMAIN tuple_stash : heap'[tuple_stash[i].data] = t}
<1>1. IsFiniteSet(before)
  <2>1. before = Where(tuple_stash, PointTo(t))
    <3>1. \A i \in DOMAIN tuple_stash : tuple_stash[i] \in Stashed
      BY ElementOfSeq DEF TypeOK
    <3> QED
      BY <3>1 DEF Where, PointTo
  <2>2. tuple_stash \in Seq(Stashed)
    BY DEF TypeOK
  <2> QED
    BY <2>1, <2>2, WhereFinite
<1>2. after \in SUBSET before
  OBVIOUS
<1>3. Cardinality(after) <= Cardinality(before)
  BY <1>1, <1>2, FS_Subset
<1> QED
  BY <1>3 DEF Copies

-----------------------------------------------------------------------------
(***************************************************************************)
(* The clients: what an application gets was on its way, or held.          *)
(***************************************************************************)
LEMMA OutcomeTuple ==
  ASSUME NEW op, NEW answer
  PROVE  Outcome(op, answer).tuple \in {NULL, answer.tuple}
BY DEF Outcome, Returns

LEMMA NothingGivenUp ==
  ASSUME NEW c, context[c] = NoContext
  PROVE  GivenUp(c).tuple = NULL
<1>1. Outcome(request[c], context[c]).tuple = NULL
  BY OutcomeTuple DEF NoContext
<1> QED
  BY <1>1 DEF GivenUp, Returns

\* A recorded tuple is the one that was carried.
LEMMA RecordedTuple ==
  ASSUME NetType, NEW c \in Client, NEW d \in Inbox(c), NEW t \in Tuple, Recorded(d).tuple = t
  PROVE  d = Carrying(c, t)
<1>1. t # NULL
  BY NullAssumption
<1>2. d.type = "tuple" /\ d.tuple = t
  BY <1>1 DEF Recorded, NoContext
<1>3. d \in Message
  BY <1>2, InboxType DEF Tell
<1>4. d.to = c
  BY DEF Inbox
<1> QED
  BY <1>2, <1>3, <1>4 DEF Message, Carrying

LEMMA ContextFreshStep ==
  ASSUME ClientType, ContextFresh, NEW c \in Client, ClientStep(c) \/ WindowEnds(c)
  PROVE  ContextFresh'
<1>1. \A x \in Client : x # c => client_pc'[x] = client_pc[x] /\ context'[x] = context[x]
  BY OthersKeep
<1>2. /\ client_pc \in [Client -> {"idle", "send", "await", "ack", "await_ack"}]
      /\ context \in [Client -> Context]
      /\ client_pc[c] \notin {"ack", "await_ack"} => context[c] = NoContext
  BY DEF ClientType, ContextFresh
<1> DEFINE Goal == client_pc'[c] \notin {"ack", "await_ack"} => context'[c] = NoContext
<1> SUFFICES Goal
  BY <1>1 DEF ContextFresh
<1>3. \A res : Finish(c, res) => Goal
  BY <1>2 DEF Finish, Cleared
<1>4. CASE Call(c)
  BY <1>2, <1>3, <1>4 DEF Call
<1>5. CASE SendRequest(c) \/ SendRequestFails(c)
  BY <1>2, <1>3, <1>5 DEF SendRequest, SendRequestFails
<1>6. CASE ReceiveAck(c) \/ ReceiveAckOfAck(c)
  BY <1>2, <1>3, <1>6 DEF ReceiveAck, ReceiveAckOfAck
<1>7. CASE ReceiveAnswer(c)
  BY <1>2, <1>7 DEF ReceiveAnswer, Enter, Goto
<1>8. CASE SendAck(c) \/ SendAckFails(c)
  BY <1>2, <1>3, <1>8 DEF SendAck, SendAckFails, Goto
<1>9. CASE WindowEnds(c)
  <2>1. (\E res : Finish(c, res)) \/ (/\ context' = context
                                     /\ Goto(c, IF client_pc[c] = "await" THEN "send" ELSE "ack"))
    BY <1>9 DEF WindowEnds
  <2> QED
    BY <1>2, <1>3, <2>1 DEF Goto
<1> QED
  BY <1>4, <1>5, <1>6, <1>7, <1>8, <1>9 DEF ClientStep

LEMMA ClientDelivers ==
  ASSUME ClientType, NetType, ContextFresh, NEW c \in Client,
         ClientStep(c) \/ WindowEnds(c), NEW t \in Tuple
  PROVE  /\ \A x \in Client : x # c =>
              CopiesOf(Carrying(x, t), net') + Holding(x, t)'
                = CopiesOf(Carrying(x, t), net) + Holding(x, t)
         /\ CopiesOf(Carrying(c, t), net') + Holding(c, t)' + (IF Gets(c, t) THEN 1 ELSE 0)
              <= CopiesOf(Carrying(c, t), net) + Holding(c, t)
<1> DEFINE Sent(x) == CopiesOf(Carrying(x, t), net)
           Held(x) == Holding(x, t)
           gets == IF Gets(c, t) THEN 1 ELSE 0
           Goal == /\ \A x \in Client : x # c => Sent(x)' + Held(x)' = Sent(x) + Held(x)
                   /\ Sent(c)' + Held(c)' + gets <= Sent(c) + Held(c)
<1>1. \A x \in Client : Sent(x) \in Nat
  BY CopiesType DEF NetType
<1>2. \A x \in Client : x # c => Held(x)' = Held(x)
  BY OthersKeep DEF Holding
<1>3. /\ client_pc \in [Client -> {"idle", "send", "await", "ack", "await_ack"}]
      /\ context \in [Client -> Context] /\ result \in [Client -> Result]
      /\ client_pc[c] \notin {"ack", "await_ack"} => context[c] = NoContext
      /\ t # NULL
  BY NullAssumption DEF ClientType, ContextFresh
<1>4. Held(c) \in {0, 1} /\ Held(c)' \in {0, 1} /\ gets \in {0, 1}
  BY DEF Holding
\* What a client that returns gets, it held.
<1>5. ASSUME NEW res, Finish(c, res), res.tuple \in {NULL, context[c].tuple}
      PROVE  Held(c)' = 0 /\ gets <= Held(c)
  <2>1. client_pc'[c] = "idle" /\ result'[c] = res
    BY <1>3, <1>5 DEF Finish, Goto
  <2>2. Held(c)' = 0
    BY <2>1 DEF Holding
  <2>3. CASE Gets(c, t)
    <3>1. context[c].tuple = t
      BY <1>3, <1>5, <2>1, <2>3 DEF Gets
    <3>2. client_pc[c] \in {"ack", "await_ack"}
      BY <1>3, <3>1 DEF NoContext
    <3> QED
      BY <2>2, <2>3, <3>1, <3>2 DEF Holding
  <2>4. CASE ~Gets(c, t)
    BY <1>4, <2>2, <2>4
  <2> QED
    BY <2>3, <2>4
<1>6. ASSUME client_pc'[c] # "idle" \/ client_pc[c] = "idle"
      PROVE  gets = 0
  BY <1>6 DEF Gets
<1>7. ASSUME NEW d \in Inbox(c), net' = net (-) SetToBag({d})
      PROVE  /\ \A x \in Client : x # c => Sent(x)' = Sent(x)
             /\ Sent(c)' = Sent(c) - (IF d = Carrying(c, t) THEN 1 ELSE 0)
             /\ Sent(c)' <= Sent(c)
  <2>1. d \in BagToSet(net) /\ d.to = c
    BY DEF Inbox
  <2>2. \A x \in Client : x # c => Carrying(x, t) # d
    BY <2>1 DEF Carrying
  <2>3. \A e : CopiesOf(e, net') = CopiesOf(e, net) - (IF e = d THEN 1 ELSE 0)
    BY <1>7, <2>1, BagLoses DEF NetType
  <2>4. Sent(c)' = Sent(c) - (IF d = Carrying(c, t) THEN 1 ELSE 0)
    BY <2>3
  <2> QED
    BY <1>1, <2>2, <2>3, <2>4
<1>8. ASSUME NEW e \in ToServer, net' = net (+) SetToBag({e})
      PROVE  \A x \in Client : Sent(x)' = Sent(x)
  <2>1. \A x \in Client : Carrying(x, t) # e
    BY DEF Carrying, ToServer, SendTuple, GetTuple, ReceivedMsg
  <2>2. \A z : CopiesOf(z, net') = CopiesOf(z, net) + (IF z \in {e} THEN 1 ELSE 0)
    BY <1>8, BagGains DEF NetType
  <2> QED
    BY <1>1, <2>1, <2>2
<1>9. ASSUME \A x \in Client : x # c => Sent(x)' = Sent(x),
             Sent(c)' <= Sent(c), Sent(c)' \in Nat, Held(c)' + gets <= Held(c)
      PROVE  Goal
  BY <1>1, <1>2, <1>4, <1>9
<1>10. Sent(c)' \in Nat
  BY ClientStepType, CopiesType DEF NetType
<1>11. CASE Call(c)
  <2>1. net' = net /\ client_pc[c] = "idle" /\ (Enter(c, "send") \/ \E res : Finish(c, res))
    BY <1>11 DEF Call
  <2>2. client_pc'[c] \in {"send", "idle"}
    BY <1>3, <2>1 DEF Enter, Finish, Goto
  <2>3. Held(c)' = 0 /\ gets = 0
    BY <1>6, <2>1, <2>2 DEF Holding
  <2> QED
    BY <1>1, <1>4, <1>9, <2>1, <2>3
<1>12. CASE SendRequest(c) \/ SendRequestFails(c)
  <2>1. client_pc[c] = "send" /\ context[c] = NoContext
    BY <1>3, <1>12 DEF SendRequest, SendRequestFails
  <2>2. net' = net \/ net' = net (+) SetToBag({Request(c)})
    BY <1>12 DEF SendRequest, SendRequestFails
  <2>3. \A x \in Client : Sent(x)' = Sent(x)
    <3>1. Request(c) \in ToServer
      BY <2>1, RequestType
    <3> QED
      BY <1>8, <2>2, <3>1
  <2>4. \/ Goto(c, "await")
        \/ \E res : Finish(c, res) /\ res.tuple = NULL
    <3>1. Returns("no_error").tuple = NULL /\ GivenUp(c).tuple = NULL
      BY <2>1, NothingGivenUp DEF Returns
    <3> QED
      BY <1>12, <3>1 DEF SendRequest, SendRequestFails
  <2>5. CASE Goto(c, "await")
    <3>1. client_pc'[c] = "await"
      BY <1>3, <2>5 DEF Goto
    <3>2. Held(c)' = 0 /\ gets = 0
      BY <1>6, <3>1 DEF Holding
    <3> QED
      BY <1>1, <1>4, <1>9, <2>3, <3>2
  <2>6. CASE \E res : Finish(c, res) /\ res.tuple = NULL
    <3>1. Held(c)' = 0 /\ gets <= Held(c)
      BY <1>5, <2>6
    <3> QED
      BY <1>1, <1>4, <1>9, <2>3, <3>1
  <2> QED
    BY <2>4, <2>5, <2>6
<1>13. CASE ReceiveAck(c) \/ ReceiveAckOfAck(c)
  <2>1. PICK d \in Inbox(c) :
          /\ net' = net (-) SetToBag({d})
          /\ \/ Finish(c, Returns("no_error"))
             \/ Finish(c, Outcome(request[c], context[c]))
             \/ UNCHANGED <<client_pc, repeats, context, result>>
    BY <1>13 DEF ReceiveAck, ReceiveAckOfAck, FromServer
  <2>2. Held(c)' + gets <= Held(c)
    <3>1. CASE Finish(c, Returns("no_error"))
      BY <1>4, <1>5, <3>1 DEF Returns
    <3>2. CASE Finish(c, Outcome(request[c], context[c]))
      BY <1>4, <1>5, <3>2, OutcomeTuple
    <3>3. CASE UNCHANGED <<client_pc, repeats, context, result>>
      <4>1. Held(c)' = Held(c) /\ ~Gets(c, t)
        BY <3>3 DEF Holding, Gets
      <4> QED
        BY <1>4, <4>1
    <3> QED
      BY <2>1, <3>1, <3>2, <3>3
  <2> QED
    BY <1>7, <1>9, <1>10, <2>1, <2>2
<1>14. CASE ReceiveAnswer(c)
  <2>1. PICK d \in Inbox(c) :
          /\ net' = net (-) SetToBag({d})
          /\ \/ UNCHANGED <<client_pc, context>>
             \/ context' = [context EXCEPT ![c] = Recorded(d)] /\ Enter(c, "ack")
    BY <1>14 DEF ReceiveAnswer
  <2>2. client_pc[c] = "await" /\ Held(c) = 0
    BY <1>14 DEF ReceiveAnswer, Holding
  <2>3. CASE UNCHANGED <<client_pc, context>>
    <3>1. Held(c)' = Held(c) /\ gets = 0
      BY <1>6, <2>2, <2>3 DEF Holding
    <3>2. Held(c)' + gets <= Held(c)
      BY <1>4, <3>1
    <3> QED
      BY <1>7, <1>9, <1>10, <2>1, <3>2
  <2>4. CASE context' = [context EXCEPT ![c] = Recorded(d)] /\ Enter(c, "ack")
    <3>1. client_pc'[c] = "ack" /\ context'[c] = Recorded(d)
      BY <1>3, <2>4 DEF Enter, Goto
    <3>2. gets = 0
      BY <1>6, <3>1
    <3>3. Held(c)' = IF Recorded(d).tuple = t THEN 1 ELSE 0
      BY <3>1 DEF Holding
    <3>4. Recorded(d).tuple = t => d = Carrying(c, t)
      BY RecordedTuple
    <3>5. /\ \A x \in Client : x # c => Sent(x)' = Sent(x)
          /\ Sent(c)' = Sent(c) - (IF d = Carrying(c, t) THEN 1 ELSE 0)
      BY <1>7, <2>1
    <3>6. Sent(c)' + Held(c)' + gets <= Sent(c) + Held(c)
      BY <1>1, <2>2, <3>2, <3>3, <3>4, <3>5
    <3> QED
      BY <1>2, <3>5, <3>6
  <2> QED
    BY <2>1, <2>3, <2>4
<1>15. CASE SendAck(c)
  <2>1. client_pc[c] = "ack" /\ client_pc'[c] = "await_ack" /\ context' = context
        /\ net' = net (+) SetToBag({ReceivedMsg(c)})
    BY <1>3, <1>15 DEF SendAck, Goto
  <2>2. Held(c)' = Held(c) /\ gets = 0
    BY <1>6, <2>1 DEF Holding
  <2>3. ReceivedMsg(c) \in ToServer
    BY DEF ToServer
  <2>4. \A x \in Client : Sent(x)' = Sent(x)
    BY <1>8, <2>1, <2>3
  <2>5. Held(c)' + gets <= Held(c)
    BY <1>4, <2>2
  <2> QED
    BY <1>1, <1>9, <2>4, <2>5
<1>16. CASE SendAckFails(c)
  <2>1. net' = net /\ Finish(c, Outcome(request[c], context[c]))
    BY <1>16 DEF SendAckFails
  <2>2. Held(c)' = 0 /\ gets <= Held(c)
    BY <1>5, <2>1, OutcomeTuple
  <2> QED
    BY <1>1, <1>4, <1>9, <2>1, <2>2
<1>17. CASE WindowEnds(c)
  <2>1. net' = net /\ client_pc[c] \in {"await", "await_ack"}
    BY <1>17 DEF WindowEnds, Windows
  <2>2. CASE LastRepeat(c)
    <3>1. Finish(c, IF client_pc[c] = "await" THEN GivenUp(c)
                    ELSE Outcome(request[c], context[c]))
      BY <1>17, <2>2 DEF WindowEnds
    <3>2. client_pc[c] = "await" => GivenUp(c).tuple = NULL
      BY <1>3, NothingGivenUp
    <3>3. Held(c)' = 0 /\ gets <= Held(c)
      BY <1>5, <3>1, <3>2, OutcomeTuple
    <3> QED
      BY <1>1, <1>4, <1>9, <2>1, <3>3
  <2>3. CASE ~LastRepeat(c)
    <3>1. /\ client_pc'[c] = IF client_pc[c] = "await" THEN "send" ELSE "ack"
          /\ context' = context
      BY <1>3, <1>17, <2>3 DEF WindowEnds, Goto
    <3>2. Held(c)' = Held(c) /\ gets = 0
      BY <1>6, <2>1, <3>1 DEF Holding
    <3> QED
      BY <1>1, <1>4, <1>9, <2>1, <3>2
  <2> QED
    BY <2>2, <2>3
<1> QED
  BY <1>11, <1>12, <1>13, <1>14, <1>15, <1>16, <1>17 DEF ClientStep

-----------------------------------------------------------------------------
(***************************************************************************)
(* The server: every reply that carries a tuple has taken it from the      *)
(* stash, or from the handler that places it.                              *)
(***************************************************************************)
\* The server reads requests, and its messages join the network.
LEMMA ServerSends ==
  ASSUME NetType, ServerWorks, NEW e, e \notin ToServer
  PROVE  CopiesOf(e, net') = CopiesOf(e, net) + (IF e \in ToSet(sent') THEN 1 ELSE 0)
<1>1. CopiesOf(e, net) \in Nat
  BY CopiesType DEF NetType
<1>2. \/ \E d \in BagToSet(net) :
           d \in ToServer /\ net' = (net (-) SetToBag({d})) (+) SetToBag(ToSet(sent'))
      \/ net' = net (+) SetToBag(ToSet(sent'))
  <2>1. CASE ReadSend
    <3>1. PICK c \in Client, u \in Tuple :
            /\ SendTuple(c, u) \in BagToSet(net)
            /\ net' = (net (-) SetToBag({SendTuple(c, u)})) (+) SetToBag(ToSet(sent'))
      BY <2>1 DEF ReadSend, Arrived, Deliver
    <3>2. SendTuple(c, u) \in ToServer
      BY DEF ToServer
    <3> QED
      BY <3>1, <3>2
  <2>2. CASE ReadGet
    <3>1. PICK c \in Client, kind \in Requests, u \in Template :
            /\ GetTuple(c, kind, u) \in BagToSet(net)
            /\ net' = (net (-) SetToBag({GetTuple(c, kind, u)})) (+) SetToBag(ToSet(sent'))
      BY <2>2 DEF ReadGet, Arrived, Deliver
    <3>2. GetTuple(c, kind, u) \in ToServer
      BY DEF ToServer
    <3> QED
      BY <3>1, <3>2
  <2>3. CASE ReadAck
    <3>1. PICK c \in Client :
            /\ ReceivedMsg(c) \in BagToSet(net)
            /\ net' = (net (-) SetToBag({ReceivedMsg(c)})) (+) SetToBag(ToSet(sent'))
      BY <2>3 DEF ReadAck, Arrived, Deliver
    <3>2. ReceivedMsg(c) \in ToServer
      BY DEF ToServer
    <3> QED
      BY <3>1, <3>2
  <2>4. CASE PlaceTuple \/ Sweep
    BY <2>4 DEF PlaceTuple, Sweep, Deliver
  <2> QED
    BY <2>1, <2>2, <2>3, <2>4 DEF ServerWorks
<1>3. CASE net' = net (+) SetToBag(ToSet(sent'))
  BY <1>3, BagGains DEF NetType
<1>4. ASSUME NEW d \in BagToSet(net), d \in ToServer,
             net' = (net (-) SetToBag({d})) (+) SetToBag(ToSet(sent'))
      PROVE  CopiesOf(e, net') = CopiesOf(e, net) + (IF e \in ToSet(sent') THEN 1 ELSE 0)
  <2>1. \A z : CopiesOf(z, net') = CopiesOf(z, net) - (IF z = d THEN 1 ELSE 0)
                                     + (IF z \in ToSet(sent') THEN 1 ELSE 0)
    BY <1>4, NetReadsAndSends
  <2>2. CopiesOf(e, net') = CopiesOf(e, net) - (IF e = d THEN 1 ELSE 0)
                              + (IF e \in ToSet(sent') THEN 1 ELSE 0)
    BY <2>1
  <2> QED
    BY <1>1, <1>4, <2>2
<1> QED
  BY <1>2, <1>3, <1>4

\* A quiet server sends a tuple only when it takes or redirects it.
LEMMA RepliesWhole ==
  ASSUME OnlyTakes, QuietRatio, TypeOK, ServerWorks, NEW c, NEW t,
         Carrying(c, t) \in ToSet(sent')
  PROVE  \/ \E kind \in Requests, client \in Client, u \in Template : ReadGet /\ TakeTuple(kind, client, u)
         \/ PlaceTuple /\ RedirectTuple
<1> DEFINE e == Carrying(c, t)
<1>1. sent' # <<>> /\ \A client, type : type # "tuple" => e # Tell(type, client)
  BY DEF ToSet, Carrying, Tell
<1>2. ~ReadSend
  BY <1>1 DEF ReadSend, ReadTuple
<1>3. ASSUME NEW type, NEW client, type # "tuple", sent' = <<Tell(type, client)>> PROVE FALSE
  <2>1. ToSet(sent') = {Tell(type, client)}
    BY <1>3 DEF ToSet
  <2> QED
    BY <1>1, <1>3, <2>1
<1>4. CASE ReadGet
  <2>1. PICK client \in Client, kind \in Requests, u \in Template :
          server_process_get(kind, client, u)
    BY <1>4 DEF ReadGet
  <2>2. ~ReadFreedTuple(kind, u)
    BY <1>1 DEF ReadFreedTuple, Fault
  <2>3. ~CopyTuple(kind, client, u)
    BY DEF CopyTuple, OnlyTakes
  <2>4. ~QueueTemplate(kind, client, u)
    BY <1>3 DEF QueueTemplate
  <2>5. ~Refuse(kind, client, u)
    <3>1. SUFFICES ASSUME sent' = <<Tell("lack", client), Tell("await", client)>> PROVE FALSE
      BY DEF Refuse
    <3>2. ToSet(sent') = {Tell("lack", client), Tell("await", client)}
      BY <3>1 DEF ToSet
    <3> QED
      BY <1>1, <3>2
  <2> QED
    BY <1>4, <2>1, <2>2, <2>3, <2>4, <2>5 DEF server_process_get
<1>5. CASE ReadAck
  <2>1. PICK client \in Client : server_ack_cb(client) \/ server_ack_cb_unknown(client)
    BY <1>5 DEF ReadAck
  <2>2. sent' = <<>> \/ sent' = <<Tell("ack", client)>>
    BY <2>1 DEF server_ack_cb, server_ack_cb_unknown, Fault
  <2> QED
    BY <1>1, <1>3, <2>2
<1>6. CASE PlaceTuple
  <2>1. ~SaveTuple
    BY <1>3 DEF SaveTuple
  <2> QED
    BY <1>6, <2>1 DEF PlaceTuple
<1>7. CASE Sweep
  <2>1. BeginSweep \/ EndSweep
    BY <1>7, NothingDue DEF Sweep, server_resend_tuple_for_connections
  <2> QED
    BY <1>1, <2>1 DEF BeginSweep, EndSweep
<1> QED
  BY <1>2, <1>4, <1>5, <1>6, <1>7 DEF ServerWorks

LEMMA QueueRemovesStep ==
  ASSUME OnlyTakes, QuietRatio, TypeOK, QueueRemoves, [Next]_vars
  PROVE  QueueRemoves'
<1> DEFINE S == {entry \in Waiting : entry.remove}
<1>1. CASE UNCHANGED tuple_queue
  BY <1>1 DEF QueueRemoves
<1>2. ASSUME NEW i \in DOMAIN tuple_queue, tuple_queue' = RemoveAt(tuple_queue, i)
      PROVE  QueueRemoves'
  <2>1. tuple_queue \in Seq(S)
    BY DEF QueueRemoves
  <2> HIDE DEF S
  <2>2. tuple_queue' \in Seq(S)
    BY <1>2, <2>1, RemoveAtProperties
  <2> QED
    BY <2>2 DEF QueueRemoves, S
<1>3. ASSUME NEW kind \in RequestKinds, NEW client \in Client, NEW template \in Template,
             Queues(kind, client, template), ~UNCHANGED tuple_queue
      PROVE  QueueRemoves'
  <2> DEFINE entry == [template |-> template, client |-> client, remove |-> kind = "in"]
  <2>1. kind = "in" /\ tuple_queue' = Cons(entry, tuple_queue)
    BY <1>3 DEF Queues, OnlyTakes
  <2>2. tuple_queue \in Seq(S)
    BY DEF QueueRemoves
  <2>3. entry \in S
    BY <2>1 DEF Waiting
  <2> HIDE DEF S, entry
  <2>4. tuple_queue' \in Seq(S)
    BY <2>1, <2>2, <2>3, ConsProperties
  <2> QED
    BY <2>4 DEF QueueRemoves, S
<1> QED
  BY <1>1, <1>2, <1>3, QueueSteps

\* The stash after a step that does not take or place a tuple.
LEMMA CopiesQuiet ==
  ASSUME QuietRatio, TypeOK, TypeOK', ServerWorks, NEW t \in Tuple,
         ~PlaceTuple,
         \A kind \in Requests, c \in Client, u \in Template : ~(ReadGet /\ TakeTuple(kind, c, u))
  PROVE  UNCHANGED saved /\ Copies(t)' <= Copies(t)
<1>1. UNCHANGED saved
  BY DEF ServerWorks, ReadSend, ReadGet, ReadAck, Sweep, historyVars
<1>2. UNCHANGED tuple_stash
  <2>1. CASE ReadSend
    BY <2>1 DEF ReadSend, ReadTuple
  <2>2. CASE ReadGet
    <3>1. PICK c \in Client, kind \in Requests, u \in Template : server_process_get(kind, c, u)
      BY <2>2 DEF ReadGet
    <3>2. ~TakeTuple(kind, c, u)
      BY <2>2
    <3> QED
      BY <3>1, <3>2 DEF server_process_get, ReadFreedTuple, CopyTuple, QueueTemplate, Refuse, spaceVars
  <2>3. CASE ReadAck
    BY <2>3 DEF ReadAck, server_ack_cb, server_ack_cb_unknown, spaceVars
  <2>4. CASE Sweep
    BY <2>4, NothingDue DEF Sweep, server_resend_tuple_for_connections, BeginSweep, EndSweep, spaceVars
  <2> QED
    BY <2>1, <2>2, <2>3, <2>4 DEF ServerWorks
<1>3. ASSUME NEW i \in DOMAIN tuple_stash, heap'[tuple_stash[i].data] = t
      PROVE  heap[tuple_stash[i].data] = t
  <2>1. tuple_stash[i].data \in Block /\ t # NULL
    BY EntryTypes, NullAssumption
  <2>2. [Next]_vars
    BY SystemStepIsServerStep DEF SystemNext
  <2>3. CASE UNCHANGED heap
    BY <1>3, <2>3
  <2>4. ASSUME NEW data, heap' = Freed(data) PROVE heap[tuple_stash[i].data] = t
    BY <1>3, <2>1, <2>4 DEF Freed
  <2>5. ASSUME NEW b \in Block, NEW tuple \in Tuple, Unused(b), heap' = [heap EXCEPT ![b] = tuple]
        PROVE  heap[tuple_stash[i].data] = t
    <3>1. tuple_stash[i].data # b
      BY <2>5 DEF Unused
    <3> QED
      BY <1>3, <2>1, <2>5, <3>1 DEF TypeOK
  <2> QED
    BY <2>2, <2>3, <2>4, <2>5, HeapSteps
<1> QED
  BY <1>1, <1>2, <1>3, CopiesKept

LEMMA ServerDelivers ==
  ASSUME OnlyTakes, QuietRatio, SystemTypes, TypeOK, TypeOK', QueueRemoves,
         ServerWorks, NEW t \in Tuple
  PROVE  \/ \E c \in Client :
              /\ \A x \in Client : CopiesOf(Carrying(x, t), net') =
                                   CopiesOf(Carrying(x, t), net) + (IF x = c THEN 1 ELSE 0)
              /\ Copies(t)' + 1 + saved[t] <= Copies(t) + saved'[t]
         \/ /\ \A x \in Client : CopiesOf(Carrying(x, t), net') = CopiesOf(Carrying(x, t), net)
            /\ Copies(t)' + saved[t] <= Copies(t) + saved'[t]
<1> USE DEF SystemTypes
<1>1. Copies(t) \in Nat /\ Copies(t)' \in Nat /\ saved[t] \in Nat /\ saved \in [Tuple -> Nat]
  BY CopiesNumber, CopiesNumberNext DEF CopiesInNat, HistoryType
<1>2. \A x \in Client : CopiesOf(Carrying(x, t), net') =
                         CopiesOf(Carrying(x, t), net)
                           + (IF Carrying(x, t) \in ToSet(sent') THEN 1 ELSE 0)
  <2>1. \A x : Carrying(x, t) \notin ToServer
    <3>1. \A e \in ToServer : e.type # "tuple"
      BY DEF ToServer, SendTuple, GetTuple, ReceivedMsg
    <3>2. \A x : Carrying(x, t).type = "tuple"
      BY DEF Carrying
    <3> QED
      BY <3>1, <3>2
  <2> QED
    BY <2>1, ServerSends
<1>3. \A x \in Client : CopiesOf(Carrying(x, t), net) \in Nat
  BY CopiesType DEF NetType
\* The step sends one reply that carries u.
<1>4. ASSUME NEW c \in Client, NEW u, sent' = <<[type |-> "tuple", to |-> c, tuple |-> u]>>,
             Copies(t)' + (IF u = t THEN 1 ELSE 0) + saved[t] <= Copies(t) + saved'[t]
      PROVE  \/ \E d \in Client :
                  /\ \A x \in Client : CopiesOf(Carrying(x, t), net') =
                                       CopiesOf(Carrying(x, t), net) + (IF x = d THEN 1 ELSE 0)
                  /\ Copies(t)' + 1 + saved[t] <= Copies(t) + saved'[t]
             \/ /\ \A x \in Client : CopiesOf(Carrying(x, t), net') = CopiesOf(Carrying(x, t), net)
                /\ Copies(t)' + saved[t] <= Copies(t) + saved'[t]
  <2>1. ToSet(sent') = {Carrying(c, u)}
    BY <1>4 DEF ToSet, Carrying
  <2>2. \A x : Carrying(x, t) \in ToSet(sent') <=> x = c /\ u = t
    BY <2>1 DEF Carrying
  <2>3. CASE u = t
    <3>1. \A x \in Client : CopiesOf(Carrying(x, t), net') =
                             CopiesOf(Carrying(x, t), net) + (IF x = c THEN 1 ELSE 0)
      BY <1>2, <2>2, <2>3
    <3> QED
      BY <1>4, <2>3, <3>1
  <2>4. CASE u # t
    <3>1. \A x \in Client : CopiesOf(Carrying(x, t), net') = CopiesOf(Carrying(x, t), net)
      BY <1>2, <1>3, <2>2, <2>4
    <3>2. Copies(t)' + saved[t] <= Copies(t) + saved'[t]
      BY <1>1, <1>4, <2>4
    <3> QED
      BY <3>1, <3>2
  <2> QED
    BY <2>3, <2>4
<1>5. CASE \E kind \in Requests, c \in Client, u \in Template : ReadGet /\ TakeTuple(kind, c, u)
  <2>1. PICK kind \in Requests, c \in Client, u \in Template : ReadGet /\ TakeTuple(kind, c, u)
    BY <1>5
  <2>2. PICK i \in DOMAIN tuple_stash :
          /\ tuple_stash' = RemoveAt(tuple_stash, i)
          /\ sent' = <<Reply(tuple_stash[i].data, c)>>
    BY <2>1 DEF TakeTuple, Unlinked
  <2>3. UNCHANGED heap /\ saved' = saved
    BY <2>1 DEF TakeTuple, ReadGet, historyVars
  <2>4. Copies(t)' = Copies(t) - (IF heap[tuple_stash[i].data] = t THEN 1 ELSE 0)
    BY <2>2, <2>3, CopiesUnlinked
  <2>5. Copies(t)' + (IF heap[tuple_stash[i].data] = t THEN 1 ELSE 0) + saved[t]
          <= Copies(t) + saved'[t]
    BY <1>1, <2>3, <2>4
  <2> QED
    BY <1>4, <2>2, <2>5 DEF Reply
<1>6. CASE PlaceTuple /\ RedirectTuple
  <2>1. PICK i \in DOMAIN tuple_queue :
          /\ sent' = <<Reply(handler.data, tuple_queue[i].client)>>
          /\ tuple_queue[i].remove => heap' = Freed(handler.data) /\ pc' = "resend"
    BY <1>6 DEF RedirectTuple, Return
  <2>2. tuple_queue[i].remove
    BY ElementOfSeq DEF QueueRemoves
  <2>3. saved' = Plus(saved, heap[handler.data]) /\ UNCHANGED tuple_stash
    BY <1>6, <2>1, <2>2 DEF PlaceTuple, RedirectTuple
  <2>4. saved'[t] = saved[t] + (IF heap[handler.data] = t THEN 1 ELSE 0)
    BY <1>1, <2>3 DEF Plus
  <2>5. Copies(t)' <= Copies(t)
    <3>1. \A j \in DOMAIN tuple_stash :
            heap'[tuple_stash[j].data] = t => heap[tuple_stash[j].data] = t
      <4>1. \A j \in DOMAIN tuple_stash : tuple_stash[j].data \in Block
        BY EntryTypes
      <4> QED
        BY <2>1, <2>2, <4>1, NullAssumption DEF Freed
    <3> QED
      BY <2>3, <3>1, CopiesKept
  <2>6. Copies(t)' + (IF heap[handler.data] = t THEN 1 ELSE 0) + saved[t] <= Copies(t) + saved'[t]
    BY <1>1, <2>4, <2>5
  <2>7. tuple_queue[i].client \in Client
    BY EntryTypes
  <2> QED
    BY <1>4, <2>1, <2>6, <2>7 DEF Reply
<1>7. CASE PlaceTuple /\ ~RedirectTuple
  <2>1. SaveTuple /\ saved' = Plus(saved, heap[handler.data])
    BY <1>7 DEF PlaceTuple, SaveTuple, Return
  <2> DEFINE entry == [data |-> handler.data, size |-> handler.size]
  <2>2. tuple_stash' = Cons(entry, tuple_stash) /\ UNCHANGED heap
    BY <2>1 DEF SaveTuple, server_insert_data_tuple
  <2>3. entry \in Stashed
    BY <2>1 DEF SaveTuple, TypeOK, Stashed
  <2>4. entry.data = handler.data
    OBVIOUS
  <2> HIDE DEF entry
  <2>5. Copies(t)' = Copies(t) + (IF heap[handler.data] = t THEN 1 ELSE 0)
    BY <2>2, <2>3, <2>4, CopiesLinked
  <2>6. saved'[t] = saved[t] + (IF heap[handler.data] = t THEN 1 ELSE 0)
    BY <1>1, <2>1 DEF Plus
  <2>7. Copies(t)' + saved[t] <= Copies(t) + saved'[t]
    BY <1>1, <2>5, <2>6
  <2>8. \A x \in Client : Carrying(x, t) \notin ToSet(sent')
    <3>1. ToSet(sent') = {Tell("ack", handler.sender)}
      BY <2>1 DEF SaveTuple, ToSet
    <3> QED
      BY <3>1 DEF Carrying, Tell
  <2> QED
    BY <1>2, <1>3, <2>7, <2>8
<1>8. CASE /\ ~PlaceTuple
           /\ ~\E kind \in Requests, c \in Client, u \in Template : ReadGet /\ TakeTuple(kind, c, u)
  <2>1. saved' = saved /\ Copies(t)' <= Copies(t)
    BY <1>8, CopiesQuiet
  <2>2. \A x \in Client : Carrying(x, t) \notin ToSet(sent')
    BY <1>8, RepliesWhole
  <2>3. \A x \in Client : CopiesOf(Carrying(x, t), net') = CopiesOf(Carrying(x, t), net)
    BY <1>2, <1>3, <2>2
  <2>4. Copies(t)' + saved[t] <= Copies(t) + saved'[t]
    BY <1>1, <2>1
  <2> QED
    BY <2>3, <2>4
<1> QED
  BY <1>5, <1>6, <1>7, <1>8

-----------------------------------------------------------------------------
(***************************************************************************)
(* The count as a whole.                                                   *)
(***************************************************************************)
LEMMA ConservedStep ==
  ASSUME OnlyTakes, QuietRatio, SystemTypes, SystemTypes', TypeOK, TypeOK', QueueRemoves,
         ContextFresh, [SystemNext]_systemVars, NEW t \in Tuple, Conserved(t)
  PROVE  Conserved(t)'
<1> DEFINE Sent(x) == CopiesOf(Carrying(x, t), net)
           Held(x) == Holding(x, t)
<1>1. /\ Reaching(t) \in [Client -> Nat] /\ Reaching(t)' \in [Client -> Nat]
      /\ \A x \in Client : /\ Sent(x) \in Nat /\ Held(x) \in Nat
                            /\ Sent(x)' \in Nat /\ Held(x)' \in Nat
  BY ReachingType, ReachingTypeNext DEF ReachingInNat
<1>2. /\ \A x \in Client : Reaching(t)[x] = Sent(x) + Held(x)
      /\ \A x \in Client : Reaching(t)'[x] = Sent(x)' + Held(x)'
  BY DEF Reaching
<1>3. /\ Copies(t) \in Nat /\ Copies(t)' \in Nat
      /\ saved[t] \in Nat /\ saved'[t] \in Nat /\ got[t] \in Nat /\ got'[t] \in Nat
      /\ Summable(Reaching(t)) /\ Total(Reaching(t)) \in Nat
  BY CopiesNumber, CopiesNumberNext, TotalType
  DEF CopiesInNat, SystemTypes, HistoryType, Conserved
<1>4. got[t] + Copies(t) + Total(Reaching(t)) <= saved[t]
  BY DEF Conserved
\* Less reaches the clients, or as much.
<1>5. ASSUME \A x \in Client : Sent(x)' + Held(x)' <= Sent(x) + Held(x),
             got'[t] = got[t], Copies(t)' + saved[t] <= Copies(t) + saved'[t]
      PROVE  Conserved(t)'
  <2>1. Summable(Reaching(t)') /\ Total(Reaching(t)') <= Total(Reaching(t))
    <3> DEFINE f == Reaching(t)
               g == Reaching(t)'
    <3>1. /\ f \in [Client -> Nat] /\ g \in [Client -> Nat] /\ Summable(f)
          /\ \A x \in Client : g[x] <= f[x]
      BY <1>1, <1>2, <1>3, <1>5
    <3> HIDE DEF f, g
    <3>2. Summable(g) /\ Total(g) <= Total(f)
      BY <3>1, TotalLess
    <3> QED
      BY <3>2 DEF f, g
  <2>2. Total(Reaching(t)') \in Nat
    BY <2>1, TotalType
  <2>3. got'[t] + Copies(t)' + Total(Reaching(t)') <= saved'[t]
    BY <1>3, <1>4, <1>5, <2>1, <2>2
  <2> QED
    BY <2>1, <2>3 DEF Conserved
\* What reaches one client changes.
<1>6. ASSUME NEW c \in Client,
             \A x \in Client : x # c => Sent(x)' + Held(x)' = Sent(x) + Held(x)
      PROVE  /\ Summable(Reaching(t)') /\ Total(Reaching(t)') \in Nat
             /\ Total(Reaching(t)') + (Sent(c) + Held(c))
                  = Total(Reaching(t)) + (Sent(c)' + Held(c)')
  <2> DEFINE f == Reaching(t)
             g == Reaching(t)'
             m == Sent(c)' + Held(c)'
  <2>1. f \in [Client -> Nat] /\ g \in [Client -> Nat] /\ Summable(f)
    BY <1>1, <1>3
  <2>2. g[c] = m /\ f[c] = Sent(c) + Held(c) /\ \A x \in Client : x # c => g[x] = f[x]
    BY <1>2, <1>6
  <2> HIDE DEF f, g, m
  <2>3. Summable(g) /\ Total(g) + f[c] = Total(f) + g[c]
    BY <2>1, <2>2, TotalChanges
  <2>4. Total(g) \in Nat
    BY <2>3, TotalType
  <2> QED
    BY <2>2, <2>3, <2>4 DEF f, g, m
<1>7. CASE ServerWorks
  <2>1. got' = got /\ \A x \in Client : Held(x)' = Held(x)
    BY <1>7, ServerWorksOnNet DEF Holding
  <2>2. CASE \E c \in Client :
               /\ \A x \in Client : Sent(x)' = Sent(x) + (IF x = c THEN 1 ELSE 0)
               /\ Copies(t)' + 1 + saved[t] <= Copies(t) + saved'[t]
    <3>1. PICK c \in Client :
               /\ \A x \in Client : Sent(x)' = Sent(x) + (IF x = c THEN 1 ELSE 0)
               /\ Copies(t)' + 1 + saved[t] <= Copies(t) + saved'[t]
      BY <2>2
    <3>2. \A x \in Client : x # c => Sent(x)' + Held(x)' = Sent(x) + Held(x)
      BY <1>1, <2>1, <3>1
    <3>3. /\ Summable(Reaching(t)') /\ Total(Reaching(t)') \in Nat
          /\ Total(Reaching(t)') + (Sent(c) + Held(c))
               = Total(Reaching(t)) + (Sent(c)' + Held(c)')
      BY <1>6, <3>2
    <3>4. Sent(c)' = Sent(c) + 1 /\ Held(c)' = Held(c)
      BY <2>1, <3>1
    <3>5. got'[t] + Copies(t)' + Total(Reaching(t)') <= saved'[t]
      BY <1>1, <1>3, <1>4, <2>1, <3>1, <3>3, <3>4
    <3> QED
      BY <3>3, <3>5 DEF Conserved
  <2>3. CASE /\ \A x \in Client : Sent(x)' = Sent(x)
             /\ Copies(t)' + saved[t] <= Copies(t) + saved'[t]
    BY <1>1, <1>5, <2>1, <2>3
  <2> QED
    BY <1>7, <2>2, <2>3, ServerDelivers
<1>8. ASSUME NEW c \in Client, ClientRuns(c) \/ TimesOut(c)
      PROVE  Conserved(t)'
  <2>1. (ClientStep(c) \/ WindowEnds(c)) /\ Observed /\ UNCHANGED vars
    BY <1>8 DEF ClientRuns, TimesOut
  <2>2. Copies(t)' = Copies(t) /\ saved' = saved
    BY <2>1 DEF Copies, Observed, vars, spaceVars
  <2>3. /\ \A x \in Client : x # c => Sent(x)' + Held(x)' = Sent(x) + Held(x)
        /\ Sent(c)' + Held(c)' + (IF Gets(c, t) THEN 1 ELSE 0) <= Sent(c) + Held(c)
    BY <2>1, ClientDelivers DEF SystemTypes
  <2>4. got'[t] = got[t] + (IF Gets(c, t) THEN 1 ELSE 0)
    BY <2>1, ObservedOfOne DEF SystemTypes
  <2>5. /\ Summable(Reaching(t)') /\ Total(Reaching(t)') \in Nat
        /\ Total(Reaching(t)') + (Sent(c) + Held(c))
             = Total(Reaching(t)) + (Sent(c)' + Held(c)')
    BY <1>6, <2>3
  <2>6. got'[t] + Copies(t)' + Total(Reaching(t)') <= saved'[t]
    BY <1>1, <1>3, <1>4, <2>2, <2>3, <2>4, <2>5
  <2> QED
    BY <2>5, <2>6 DEF Conserved
<1>9. CASE Lose \/ StrangerSends \/ ServerStops \/ UNCHANGED systemVars
  <2>1. UNCHANGED <<client_pc, context, saved, got, heap, tuple_stash>>
    BY <1>9 DEF Lose, StrangerSends, ServerStops, Stop, systemVars, clientVars, historyVars,
                vars, spaceVars
  <2>2. Copies(t)' = Copies(t) /\ \A x \in Client : Held(x)' = Held(x)
    BY <2>1 DEF Copies, Holding
  <2>3. \A x \in Client : Sent(x)' <= Sent(x)
    <3>1. CASE Lose
      <4>1. PICK d \in BagToSet(net) : net' = net (-) SetToBag({d})
        BY <3>1 DEF Lose
      <4>2. \A e : CopiesOf(e, net') = CopiesOf(e, net) - (IF e = d THEN 1 ELSE 0)
        BY <4>1, BagLoses DEF SystemTypes, NetType
      <4> QED
        BY <1>1, <4>2
    <3>2. CASE StrangerSends
      <4>1. PICK c \in Client : net' = net (+) SetToBag({Tell("stranger", c)})
        BY <3>2 DEF StrangerSends
      <4>2. \A e : CopiesOf(e, net') = CopiesOf(e, net) + (IF e \in {Tell("stranger", c)} THEN 1 ELSE 0)
        BY <4>1, BagGains DEF SystemTypes, NetType
      <4>3. \A x \in Client : Carrying(x, t) # Tell("stranger", c)
        BY DEF Carrying, Tell
      <4> QED
        BY <1>1, <4>2, <4>3
    <3>3. CASE ServerStops \/ UNCHANGED systemVars
      <4>1. net' = net
        BY <3>3 DEF ServerStops, systemVars, clientVars
      <4> QED
        BY <1>1, <4>1
    <3> QED
      BY <1>9, <3>1, <3>2, <3>3
  <2>4. \A x \in Client : Sent(x)' + Held(x)' <= Sent(x) + Held(x)
    BY <1>1, <2>2, <2>3
  <2>5. Copies(t)' + saved[t] <= Copies(t) + saved'[t] /\ got'[t] = got[t]
    BY <1>3, <2>1, <2>2
  <2> QED
    BY <1>5, <2>4, <2>5
<1> QED
  BY <1>7, <1>8, <1>9 DEF SystemNext

LEMMA ConservedInit ==
  SystemInit => ContextFresh /\ QueueRemoves /\ \A t \in Tuple : Conserved(t)
<1> SUFFICES ASSUME SystemInit
             PROVE  ContextFresh /\ QueueRemoves /\ \A t \in Tuple : Conserved(t)
  OBVIOUS
<1>1. /\ client_pc = [c \in Client |-> "idle"] /\ context = [c \in Client |-> NoContext]
      /\ net = EmptyBag /\ tuple_stash = <<>> /\ tuple_queue = <<>>
      /\ saved = None /\ got = None
  BY DEF SystemInit, ClientInit, Init
<1>2. ContextFresh /\ QueueRemoves
  BY <1>1 DEF ContextFresh, QueueRemoves
<1>3. ASSUME NEW t \in Tuple PROVE Conserved(t)
  <2>1. \A c \in Client : CopiesOf(Carrying(c, t), net) + Holding(c, t) = 0
    BY <1>1, BagOfNone DEF Holding
  <2>2. Reaching(t) \in [Client -> Nat] /\ \A c \in Client : Reaching(t)[c] = 0
    BY <2>1 DEF Reaching
  <2>3. Summable(Reaching(t)) /\ Total(Reaching(t)) = 0
    BY <2>2, TotalZero
  <2>4. Copies(t) = 0
    <3>1. {i \in DOMAIN tuple_stash : heap[tuple_stash[i].data] = t} = {}
      BY <1>1
    <3> QED
      BY <3>1, FS_EmptySet DEF Copies
  <2>5. saved[t] = 0 /\ got[t] = 0
    BY <1>1 DEF None
  <2> QED
    BY <2>3, <2>4, <2>5 DEF Conserved
<1> QED
  BY <1>2, <1>3

LEMMA ConservedInvariant ==
  ASSUME OnlyTakes, QuietRatio
  PROVE  SystemSpec => [](ContextFresh /\ QueueRemoves /\ \A t \in Tuple : Conserved(t))
<1> DEFINE AllConserved == ContextFresh /\ QueueRemoves /\ \A t \in Tuple : Conserved(t)
<1>1. SystemInit => AllConserved
  BY ConservedInit
<1>2. /\ TypeOK /\ TypeOK' /\ SystemTypes /\ SystemTypes'
      /\ AllConserved /\ [SystemNext]_systemVars
      => AllConserved'
  <2> SUFFICES ASSUME TypeOK, TypeOK', SystemTypes, SystemTypes', AllConserved,
                      [SystemNext]_systemVars
               PROVE  AllConserved'
    OBVIOUS
  <2>1. ContextFresh'
    <3>1. CASE \E c \in Client : ClientRuns(c) \/ TimesOut(c)
      BY <3>1, ContextFreshStep DEF ClientRuns, TimesOut, SystemTypes
    <3>2. CASE ServerWorks
      BY <3>2, ServerWorksOnNet DEF ContextFresh
    <3>3. CASE Lose \/ StrangerSends \/ ServerStops \/ UNCHANGED systemVars
      BY <3>3 DEF Lose, StrangerSends, ServerStops, systemVars, clientVars, ContextFresh
    <3> QED
      BY <3>1, <3>2, <3>3 DEF SystemNext
  <2>2. QueueRemoves'
    BY QueueRemovesStep, SystemStepIsServerStep
  <2>3. ASSUME NEW t \in Tuple PROVE Conserved(t)'
    BY ConservedStep
  <2> QED
    BY <2>1, <2>2, <2>3
<1> QED
  BY <1>1, <1>2, SystemTypesInvariant, PTL DEF SystemSpec

(***************************************************************************)
(* A tuple that was put once reaches one application at most, and none     *)
(* while a copy of it stays in the space: process_get hands over what it   *)
(* unlinks, process_out what it does not link, and a client returns a      *)
(* reply at most once, whatever is lost, late or repeated.                 *)
(***************************************************************************)
THEOREM NoTupleDeliveredTwice ==
  ASSUME OnlyTakes, QuietRatio PROVE SystemSpec => []NoDoubleDelivery
<1>1. TypeOK /\ SystemTypes /\ (\A t \in Tuple : Conserved(t)) => NoDoubleDelivery
  <2> SUFFICES ASSUME TypeOK, SystemTypes, NEW t \in Tuple, Conserved(t)
               PROVE  got[t] + Copies(t) <= saved[t]
    BY DEF NoDoubleDelivery
  <2>1. /\ Total(Reaching(t)) \in Nat
        /\ got[t] + Copies(t) + Total(Reaching(t)) <= saved[t]
    BY TotalType DEF Conserved
  <2>2. got[t] \in Nat /\ saved[t] \in Nat /\ Copies(t) \in Nat
    BY CopiesNumber DEF CopiesInNat, SystemTypes, HistoryType
  <2> QED
    BY <2>1, <2>2
<1> QED
  BY <1>1, ConservedInvariant, SystemTypesInvariant, PTL
=============================================================================
