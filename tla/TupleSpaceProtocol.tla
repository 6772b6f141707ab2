------------------------- MODULE TupleSpaceProtocol -------------------------
(***************************************************************************)
(* The datagrams of libts/common/tuple_space_network.c: what clients and   *)
(* server exchange.  Tuples are carried as values; a datagram that cannot  *)
(* be decoded is not among them.                                           *)
(***************************************************************************)
EXTENDS TupleSpace

CONSTANTS
  Client,    \* set of addresses [ip, port]
  Tuple,     \* what SEND TUPLE may carry
  Template,  \* what GET TUPLE may carry
  Requests,  \* the kinds of GET TUPLE the clients issue
  NULL       \* the null pointer, and the payload of a message without one

\* The Rsp and Rm flags of GET TUPLE: in and rd wait, in and inp remove.
RequestKinds == {"in", "inp", "rd", "rdp"}

ASSUME MessagesAssumption ==
  /\ \A t \in Tuple :
       t \in Seq(Field) /\ t # <<>> /\ ts_does_all_fields_of_tuple_contain_data(t)
  /\ \A t \in Template :
       t \in Seq(Field) /\ Len(t) > 1 /\ ~ts_does_all_fields_of_tuple_contain_data(t)
  /\ Requests \subseteq RequestKinds

(***************************************************************************)
(* Client to server.                                                       *)
(***************************************************************************)
SendTuple(client, tuple) ==
  [type |-> "send", from |-> client, kind |-> "out", tuple |-> tuple]

GetTuple(client, kind, template) ==
  [type |-> "get", from |-> client, kind |-> kind, tuple |-> template]

ReceivedMsg(client) ==
  [type |-> "ack", from |-> client, kind |-> "ack", tuple |-> NULL]

ToServer ==
       {SendTuple(c, t) : c \in Client, t \in Tuple}
  \cup {GetTuple(c, k, t) : c \in Client, k \in Requests, t \in Template}
  \cup {ReceivedMsg(c) : c \in Client}

(***************************************************************************)
(* Server to client.                                                       *)
(***************************************************************************)
Message ==
  [type : {"tuple", "lack", "await", "ack"}, to : Client, tuple : Tuple \cup {NULL}]

Tell(type, client) == [type |-> type, to |-> client, tuple |-> NULL]
=============================================================================
