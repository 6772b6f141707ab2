-------------------------- MODULE TupleSpaceClient --------------------------
(***************************************************************************)
(* The client library: ts_application_out, in, inp, rd and rdp             *)
(* (tuple_space_client_api.c) and the send-wait-repeat loops below them    *)
(* (tuple_space_network.c).  A client is one thread and makes one request  *)
(* at a time.                                                              *)
(*                                                                         *)
(* Each loop polls its device until a window of ack_await_time has passed. *)
(* The model keeps what the loop does with a datagram and what it does     *)
(* when the window ends, and lets the window end at any time: that covers  *)
(* every clock, the wrap of the 32-bit milliseconds included.              *)
(*                                                                         *)
(* net holds the datagrams under way in both directions and those in the   *)
(* receive buffers.  Being a bag it delivers in any order.                 *)
(***************************************************************************)
EXTENDS TupleSpaceProtocol, Bags

CONSTANTS
  Program,       \* Client -> the operations its applications may ask for
  MaxCalls,      \* bound: Client -> how many operations it asks for
  MaxRepeats,    \* max_number_of_repeats; 0 repeats for ever
  AckAwaitTime,  \* ack_await_time; 0 does not wait
  CanReceiveIp,  \* the device reports the sender of a datagram (unix), or
                 \* leaves the caller's variables as they are (zsut)
  SendMayFail    \* the device may report that it could not send

\* An operation of an application: its connection id and the fields it passes.
Blocking(op) == op.kind \in {"in", "rd"}

ASSUME ClientAssumption ==
  /\ \A c \in Client : \A op \in Program[c] :
       op.kind \in Requests \cup {"out"} /\ op.app \in Value /\ op.fields \in Seq(Field)
  /\ MaxCalls \in [Client -> Nat] /\ MaxRepeats \in Nat /\ AckAwaitTime \in Nat
  /\ CanReceiveIp \in BOOLEAN /\ SendMayFail \in BOOLEAN

VARIABLES
  client_pc,  \* where the thread is: idle, or about to send or waiting for the
              \* answer of a request, or of the acknowledgement of a reply
  request,    \* the operation under way, or the last one
  repeats,    \* sendings left in the loop under way
  context,    \* ts_application_local_context_t: what the callbacks recorded
  result,     \* what the last operation returned
  calls,      \* operations asked for so far
  net         \* datagrams sent and not received

clientVars == <<client_pc, request, repeats, context, result, calls, net>>

ApplicationError ==
  {"no_error", "internal_error", "invalid_tuple", "unknown_sender",
   "invalid_template", "invalid_response_protocol"}

NoContext == [error |-> "no_error", response |-> "no_response", tuple |-> NULL]

Context ==
  [error : ApplicationError, response : {"no_response", "lack", "tuple"},
   tuple : Tuple \cup {NULL}]

Returns(error) == [error |-> error, tuple |-> NULL]

Result == [error : ApplicationError, tuple : Tuple \cup {NULL}]

ClientInit ==
  /\ client_pc = [c \in Client |-> "idle"]
  /\ request = [c \in Client |-> NULL]
  /\ repeats = [c \in Client |-> 0]
  /\ context = [c \in Client |-> NoContext]
  /\ result = [c \in Client |-> Returns("no_error")]
  /\ calls = [c \in Client |-> 0]
  /\ net = EmptyBag

-----------------------------------------------------------------------------
(***************************************************************************)
(* The application's side: what is sent and what is returned.              *)
(***************************************************************************)
IdField(id) == [type |-> "uint", hasData |-> TRUE, value |-> id]

\* The connection id goes in front of every tuple and template.
Span(op) == <<IdField(op.app)>> \o op.fields

\* Checked before anything is sent.
Refusal(op) ==
  IF op.kind = "out"
  THEN IF ts_does_all_fields_of_tuple_contain_data(op.fields)
       THEN {} ELSE {"invalid_tuple"}
  ELSE IF ts_does_all_fields_of_tuple_contain_data(op.fields)
       THEN {"invalid_template"} ELSE {}

\* What is sent is among what a SEND TUPLE and a GET TUPLE may carry.
ASSUME ProgramAssumption ==
  \A c \in Client : \A op \in Program[c] :
    Refusal(op) = {} => Span(op) \in IF op.kind = "out" THEN Tuple ELSE Template

Request(c) ==
  IF request[c].kind = "out"
  THEN SendTuple(c, Span(request[c]))
  ELSE GetTuple(c, request[c].kind, Span(request[c]))

\* The end of ts_application_in_impl.  What the loop returned is not looked at:
\* an assignment takes the place of the comparison in send_template.  Before it,
\* as if the application's check of the response were an error code.
Outcome_ResponseAsError(op, answer) ==
  IF answer.response = "tuple" THEN [error |-> "no_error", tuple |-> answer.tuple]
  ELSE Returns(answer.response)

Outcome(op, answer) ==
  CASE answer.error # "no_error" -> Returns(answer.error)
    [] answer.error = "no_error" /\ answer.response = "lack" /\ ~Blocking(op) ->
         Returns("no_error")
    [] answer.error = "no_error" /\ answer.response = "tuple"
         /\ answer.tuple[1] = IdField(op.app) ->
         [error |-> "no_error", tuple |-> answer.tuple]
    [] OTHER -> Returns("invalid_response_protocol")

-----------------------------------------------------------------------------
(***************************************************************************)
(* The loops.                                                              *)
(***************************************************************************)
Goto(c, place) == client_pc' = [client_pc EXCEPT ![c] = place]

Inbox(c) == {d \in BagToSet(net) : "to" \in DOMAIN d /\ d.to = c}

\* What comparing the sender with the server's address may yield.  A device
\* that cannot tell leaves an uninitialised variable to be compared.
FromServer(d) == IF CanReceiveIp THEN {d.type # "stranger"} ELSE BOOLEAN

\* memset of the local context, and as if it were missing.
Cleared_Kept(c) == context[c]

Cleared(c) == NoContext

\* The answer of ts_client_send_client_to_server_receive_ack, and as if the
\* type of the message were not looked at.
Acknowledges_Any(d) == TRUE

Acknowledges(d) == d.type = "ack"

Finish(c, res) ==
  /\ Goto(c, "idle")
  /\ result' = [result EXCEPT ![c] = res]
  /\ repeats' = [repeats EXCEPT ![c] = 0]
  /\ context' = [context EXCEPT ![c] = Cleared(c)]

\* The loops of a request and of an acknowledgement start with a fresh count.
Enter(c, place) ==
  /\ Goto(c, place)
  /\ repeats' = [repeats EXCEPT ![c] = MaxRepeats]

\* An application asks for an operation.
Call(c) ==
  /\ client_pc[c] = "idle"
  /\ calls[c] < MaxCalls[c]
  /\ calls' = [calls EXCEPT ![c] = @ + 1]
  /\ \E op \in Program[c] :
       /\ request' = [request EXCEPT ![c] = op]
       /\ \/ /\ Refusal(op) = {}
             /\ Enter(c, "send")
             /\ result' = [result EXCEPT ![c] = Returns("no_error")]
             /\ UNCHANGED context
          \/ \E error \in Refusal(op) : Finish(c, Returns(error))
  /\ UNCHANGED net

\* What is returned when a request is given up: the error of OUT, and for the
\* others what in_impl makes of a context no callback touched.
GivenUp(c) ==
  IF request[c].kind = "out"
  THEN Returns("internal_error")
  ELSE Outcome(request[c], context[c])

\* The request is sent.  Without a waiting time an OUT is done; the loop of
\* a GET goes on to its next repetition.
SendRequest(c) ==
  /\ client_pc[c] = "send"
  /\ net' = net (+) SetToBag({Request(c)})
  /\ IF request[c].kind = "out" /\ AckAwaitTime = 0
     THEN Finish(c, Returns("no_error"))
     ELSE Goto(c, "await") /\ UNCHANGED <<repeats, context, result>>
  /\ UNCHANGED <<request, calls>>

\* The device reports a failure: nothing was sent, or 256 bytes were, a length
\* that reads as 0 in the byte zsut returns.
SendRequestFails(c) ==
  /\ client_pc[c] = "send" /\ SendMayFail
  /\ net' \in {net, net (+) SetToBag({Request(c)})}
  /\ Finish(c, GivenUp(c))
  /\ UNCHANGED <<request, calls>>

\* ts_client_send_client_to_server_receive_ack: anything but an acknowledgement
\* of the server is dropped.
ReceiveAck(c) ==
  /\ client_pc[c] = "await" /\ AckAwaitTime > 0 /\ request[c].kind = "out"
  /\ \E d \in Inbox(c) :
       /\ net' = net (-) SetToBag({d})
       /\ \E known \in FromServer(d) :
            IF known /\ Acknowledges(d)
            THEN Finish(c, Returns("no_error"))
            ELSE UNCHANGED <<client_pc, repeats, context, result>>
  /\ UNCHANGED <<request, calls>>

\* The callback a datagram leads to, and what it records.
Recorded(d) ==
  CASE d.type = "stranger" -> [NoContext EXCEPT !.error = "unknown_sender"]
    [] d.type = "tuple"    -> [NoContext EXCEPT !.response = "tuple", !.tuple = d.tuple]
    [] d.type = "lack"     -> [NoContext EXCEPT !.response = "lack"]
    [] OTHER               -> [NoContext EXCEPT !.error = "internal_error"]

\* While a GET waits: "await" buys one more repetition, anything else is the
\* answer, which is acknowledged.
ReceiveAnswer(c) ==
  /\ client_pc[c] = "await" /\ AckAwaitTime > 0 /\ request[c].kind # "out"
  /\ \E d \in Inbox(c) :
       /\ net' = net (-) SetToBag({d})
       /\ \/ /\ d.type = "await"
             /\ repeats' = [repeats EXCEPT ![c] = IF @ = 0 THEN 0 ELSE @ + 1]
             /\ UNCHANGED <<client_pc, context>>
          \/ /\ d.type # "await"
             /\ context' = [context EXCEPT ![c] = Recorded(d)]
             /\ Enter(c, "ack")
  /\ UNCHANGED <<request, result, calls>>

SendAck(c) ==
  /\ client_pc[c] = "ack"
  /\ net' = net (+) SetToBag({ReceivedMsg(c)})
  /\ Goto(c, "await_ack")
  /\ UNCHANGED <<request, repeats, context, result, calls>>

SendAckFails(c) ==
  /\ client_pc[c] = "ack" /\ SendMayFail
  /\ Finish(c, Outcome(request[c], context[c]))
  /\ UNCHANGED <<request, calls, net>>

\* The acknowledgement of the acknowledgement; the rest is dropped, replies too.
ReceiveAckOfAck(c) ==
  /\ client_pc[c] = "await_ack" /\ AckAwaitTime > 0
  /\ \E d \in Inbox(c) :
       /\ net' = net (-) SetToBag({d})
       /\ \E known \in FromServer(d) :
            IF known /\ Acknowledges(d)
            THEN Finish(c, Outcome(request[c], context[c]))
            ELSE UNCHANGED <<client_pc, repeats, context, result>>
  /\ UNCHANGED <<request, calls>>

\* while ((repeats == 0) || (--repeats)), and as if it counted one too many.
LastRepeat_OneTooMany(c) == repeats[c] = 0

LastRepeat(c) == repeats[c] = 1

\* The loops that look at the clock, and as if only the request's did.
Windows_RequestOnly == {"await"}

Windows == {"await", "await_ack"}

\* The window ends: the loop repeats, or gives up.  An acknowledgement that is
\* not answered changes nothing of the result.
WindowEnds(c) ==
  /\ client_pc[c] \in Windows
  /\ IF LastRepeat(c)
     THEN Finish(c, IF client_pc[c] = "await" THEN GivenUp(c)
                    ELSE Outcome(request[c], context[c]))
     ELSE /\ Goto(c, IF client_pc[c] = "await" THEN "send" ELSE "ack")
          /\ repeats' = [repeats EXCEPT ![c] = IF @ = 0 THEN 0 ELSE @ - 1]
          /\ UNCHANGED <<context, result>>
  /\ UNCHANGED <<request, calls, net>>

\* A step of the client's thread other than the end of a window.
ClientStep(c) ==
  \/ Call(c)
  \/ SendRequest(c) \/ SendRequestFails(c)
  \/ ReceiveAck(c) \/ ReceiveAnswer(c)
  \/ SendAck(c) \/ SendAckFails(c) \/ ReceiveAckOfAck(c)
=============================================================================
