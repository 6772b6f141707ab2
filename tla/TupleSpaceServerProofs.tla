----------------------- MODULE TupleSpaceServerProofs -----------------------
(***************************************************************************)
(* Theorems about the server for every set of clients, blocks, tuples and  *)
(* templates, every clock period and every number of resends.              *)
(***************************************************************************)
EXTENDS TupleSpaceServer, DataLemmas

USE NumbersAssumption DEF NextMs

-----------------------------------------------------------------------------
(***************************************************************************)
(* Types.                                                                  *)
(***************************************************************************)
\* What the handlers put into the lists and hand to the device is well typed.
LEMMA NewConnectionType ==
  ASSUME TypeOK, NEW list \in Seq(Connection), NEW client \in Client,
         NEW data \in Block \cup {NULL}, NEW size \in Nat,
         NEW insert \in BOOLEAN, NEW ping \in BOOLEAN, insert => data # NULL
  PROVE  server_add_connection_node(list, client, data, size, insert, ping)
           \in Seq(Connection)
<1>1. [client |-> client, data |-> data, size |-> size, counter |-> 0,
       time |-> clock, insert |-> insert, ping |-> ping] \in Connection
  BY DEF TypeOK, Connection
<1> QED
  BY <1>1, ConsProperties DEF server_add_connection_node

LEMMA ResentType ==
  ASSUME NEW node \in Connection, NEW time \in 0 .. ClockPeriod - 1
  PROVE  [node EXCEPT !.counter = @ + 1, !.time = time] \in Connection
<1> DEFINE fields == [client : Client, data : Block \cup {NULL}, size : Nat, counter : Nat,
                      time : 0 .. ClockPeriod - 1, insert : BOOLEAN, ping : BOOLEAN]
           resent == [node EXCEPT !.counter = @ + 1, !.time = time]
<1>1. node \in fields /\ (node.insert => node.data # NULL)
  BY DEF Connection
<1>2. node.counter + 1 \in Nat
  BY <1>1
<1>3. resent \in fields
  BY <1>1, <1>2
<1>4. resent.insert = node.insert /\ resent.data = node.data
  BY <1>1
<1> QED
  BY <1>1, <1>3, <1>4 DEF Connection

LEMMA MessageTypes ==
  ASSUME TypeOK, NEW client \in Client
  PROVE  /\ \A type \in {"lack", "await", "ack"} : Tell(type, client) \in Message
         /\ \A data \in Block : Reply(data, client) \in Message
BY DEF TypeOK, Message, Tell, Reply

LEMMA CounterTypes ==
  ASSUME NEW count \in 0 .. CounterMax
  PROVE  Incremented(count) \in 0 .. CounterMax /\ Decremented(count) \in 0 .. CounterMax
BY DEF Incremented, Decremented

LEMMA FreedType ==
  ASSUME TypeOK, NEW data
  PROVE  Freed(data) \in [Block -> Tuple \cup {NULL}]
BY DEF TypeOK, Freed

LEMMA FaultTypes ==
  ASSUME NEW data, NEW size, NEW kind \in PointerFault(data, size), Fault(kind)
  PROVE  pc' \in Faults /\ handler' = NULL /\ sent' = <<>>
BY DEF PointerFault, Faults, Fault

LEMMA ConnectionsShape ==
  ASSUME TypeOK
  PROVE  /\ active_connections \in [1 .. Len(active_connections) -> Connection]
         /\ Len(active_connections) \in Nat
<1>1. active_connections \in Seq(Connection)
  BY DEF TypeOK
<1> QED
  BY <1>1, LenProperties

\* Every entry of a list has the type of the entries.
LEMMA EntryTypes ==
  ASSUME TypeOK
  PROVE  /\ \A i \in DOMAIN tuple_stash :
              tuple_stash[i].data \in Block /\ tuple_stash[i].size \in Nat
         /\ \A i \in DOMAIN tuple_queue :
              tuple_queue[i].client \in Client /\ tuple_queue[i].remove \in BOOLEAN
         /\ \A i \in DOMAIN active_connections : active_connections[i] \in Connection
<1>1. \A i \in DOMAIN tuple_stash : tuple_stash[i] \in Stashed
  BY DEF TypeOK
<1>2. \A i \in DOMAIN tuple_queue : tuple_queue[i] \in Waiting
  BY DEF TypeOK
<1>3. \A i \in DOMAIN active_connections : active_connections[i] \in Connection
  BY DEF TypeOK
<1> QED
  BY <1>1, <1>2, <1>3 DEF Stashed, Waiting

\* The state of the server is well typed: lists of well-formed entries, a
\* current tuple exactly while process_out runs, times within the second.
THEOREM TypeCorrect == Spec => []TypeOK
<1>1. Init => TypeOK
  BY DEF Init, TypeOK
<1>2. TypeOK /\ [Next]_vars => TypeOK'
  <2> SUFFICES ASSUME TypeOK, [Next]_vars PROVE TypeOK'
    OBVIOUS
  <2> USE DEF spaceVars, metricsVars, sweepVars
  <2>1. CASE ReadNothing
    BY <2>1 DEF ReadNothing, TypeOK, Return
  <2>2. ASSUME NEW client \in Client, NEW tuple \in Tuple, ReadTuple(client, tuple)
        PROVE  TypeOK'
    <3>1. Len(tuple) \in Nat
      BY MessagesAssumption, LenProperties
    <3> QED
      BY <2>2, <3>1 DEF ReadTuple, TypeOK
  <2>3. ASSUME NEW kind \in RequestKinds, NEW client \in Client, NEW template \in Template,
               server_process_get(kind, client, template)
        PROVE  TypeOK'
    <3>1. CASE ReadFreedTuple(kind, template)
      BY <3>1 DEF ReadFreedTuple, Fault, Faults, TypeOK
    <3>2. CASE TakeTuple(kind, client, template)
      <4> PICK i \in DOMAIN tuple_stash :
            /\ tuple_stash' = Unlinked(i)
            /\ active_connections' = server_add_connection_node(active_connections, client,
                 tuple_stash[i].data, tuple_stash[i].size, TRUE, FALSE)
            /\ sent' = <<Reply(tuple_stash[i].data, client)>>
        BY <3>2 DEF TakeTuple
      <4>1. tuple_stash' \in Seq(Stashed)
        BY RemoveAtProperties DEF TypeOK, Unlinked
      <4>2. active_connections' \in Seq(Connection)
        BY NewConnectionType, EntryTypes, NullAssumption DEF TypeOK
      <4>3. sent' \in Seq(Message)
        BY MessageTypes, EntryTypes
      <4> QED
        BY <3>2, <4>1, <4>2, <4>3, CounterTypes DEF TakeTuple, Return, TypeOK
    <3>3. CASE CopyTuple(kind, client, template)
      <4> DEFINE Add(list, i) == server_add_connection_node(list, client,
                   tuple_stash[i].data, tuple_stash[i].size, FALSE, FALSE)
      <4> PICK i \in DOMAIN tuple_stash :
            /\ \/ active_connections' = Add(Add(active_connections, i), i)
               \/ active_connections' = Add(active_connections, i)
            /\ sent' = <<Reply(tuple_stash[i].data, client)>>
        BY <3>3 DEF CopyTuple
      <4>1. Add(active_connections, i) \in Seq(Connection)
        BY NewConnectionType, EntryTypes DEF TypeOK
      <4>2. Add(Add(active_connections, i), i) \in Seq(Connection)
        BY NewConnectionType, EntryTypes, <4>1 DEF TypeOK
      <4>3. sent' \in Seq(Message)
        BY MessageTypes, EntryTypes
      <4> QED
        BY <3>3, <4>1, <4>2, <4>3 DEF CopyTuple, Return, TypeOK
    <3>4. CASE QueueTemplate(kind, client, template)
      <4>1. tuple_queue' \in Seq(Waiting)
        <5>1. [template |-> template, client |-> client, remove |-> kind = "in"] \in Waiting
          BY DEF Waiting
        <5> QED
          BY <3>4, <5>1, ConsProperties
          DEF QueueTemplate, server_insert_template_tuple, TypeOK
      <4>2. active_connections' \in Seq(Connection)
        BY <3>4, NewConnectionType DEF QueueTemplate, TypeOK, AwaitSize
      <4>3. sent' \in Seq(Message)
        BY <3>4, MessageTypes DEF QueueTemplate
      <4> QED
        BY <3>4, <4>1, <4>2, <4>3, CounterTypes DEF QueueTemplate, Return, TypeOK
    <3>5. CASE Refuse(kind, client, template)
      <4> DEFINE Add(list) == server_add_connection_node(list, client,
                   NULL, AwaitSize(kind), FALSE, kind = "inp")
      <4>1. Add(active_connections) \in Seq(Connection)
        BY NewConnectionType DEF TypeOK, AwaitSize
      <4>2. Add(Add(active_connections)) \in Seq(Connection)
        BY NewConnectionType, <4>1 DEF AwaitSize
      <4>3. sent' \in Seq(Message)
        BY <3>5, MessageTypes DEF Refuse
      <4> QED
        BY <3>5, <4>1, <4>2, <4>3 DEF Refuse, Return, TypeOK
    <3> QED
      BY <2>3, <3>1, <3>2, <3>3, <3>4, <3>5 DEF server_process_get
  <2>4. ASSUME NEW client \in Client, server_ack_cb(client)
        PROVE  TypeOK'
    <3> PICK i \in DOMAIN active_connections :
          LET node == active_connections[i] IN
          /\ active_connections' = RemoveAt(active_connections, i)
          /\ \/ (\E kind \in PointerFault(node.data, node.size) : Fault(kind)) /\ UNCHANGED heap
             \/ heap' = Freed(node.data) /\ sent' = <<Tell("ack", client)>> /\ Return
      BY <2>4 DEF server_ack_cb
    <3>1. active_connections' \in Seq(Connection)
      BY RemoveAtProperties DEF TypeOK
    <3>2. CASE (\E kind \in PointerFault(active_connections[i].data, active_connections[i].size)
                  : Fault(kind)) /\ UNCHANGED heap
      <4>1. pc' \in Faults /\ handler' = NULL /\ sent' = <<>>
        BY <3>2, FaultTypes
      <4> QED
        BY <2>4, <3>1, <3>2, <4>1 DEF server_ack_cb, Faults, TypeOK
    <3>3. CASE heap' = Freed(active_connections[i].data) /\ sent' = <<Tell("ack", client)>>
               /\ Return
      <4>1. sent' \in Seq(Message)
        BY <3>3, MessageTypes
      <4>2. heap' \in [Block -> Tuple \cup {NULL}]
        BY <3>3, FreedType
      <4> QED
        BY <2>4, <3>1, <3>3, <4>1, <4>2 DEF server_ack_cb, Return, TypeOK
    <3> QED
      BY <3>2, <3>3
  <2>5. ASSUME NEW client \in Client, server_ack_cb_unknown(client)
        PROVE  TypeOK'
    <3>1. sent' \in Seq(Message)
      BY <2>5, MessageTypes DEF server_ack_cb_unknown
    <3> QED
      BY <2>5, <3>1 DEF server_ack_cb_unknown, Return, TypeOK
  <2>6. CASE RedirectTuple
    <3>1. handler \in [data : Block, size : Nat, sender : Client]
      BY <2>6 DEF RedirectTuple, TypeOK
    <3> PICK i \in DOMAIN tuple_queue :
          LET entry == tuple_queue[i] IN
          /\ tuple_queue' = RemoveAt(tuple_queue, i)
          /\ sent' = <<Reply(handler.data, entry.client)>>
          /\ server_process_out_transform_await(handler.data, handler.size,
                                                handler.sender, entry.remove)
          /\ \/ heap' = Freed(handler.data) /\ Return
             \/ UNCHANGED <<heap, pc, handler>>
      BY <2>6 DEF RedirectTuple
    <3>2. tuple_queue' \in Seq(Waiting)
      BY RemoveAtProperties DEF TypeOK
    <3>3. sent' \in Seq(Message)
      BY <3>1, MessageTypes, EntryTypes
    <3>4. active_connections' \in Seq(Connection)
      <4> DEFINE found == {j \in DOMAIN active_connections : FoundAsWritten(handler.sender, j)}
                 remove == tuple_queue[i].remove
      <4>1. remove \in BOOLEAN
        BY EntryTypes
      <4>2. CASE found = {}
        <5>1. active_connections' = server_add_connection_node(active_connections,
                handler.sender, handler.data, handler.size, ~remove, FALSE)
          BY <4>2 DEF server_process_out_transform_await
        <5> QED
          BY <5>1, <3>1, <4>1, NewConnectionType, NullAssumption DEF TypeOK
      <4>3. CASE found # {}
        <5> DEFINE first == Min(found)
        <5>1. active_connections' = [active_connections EXCEPT
                ![first].ping = FALSE, ![first].insert = ~remove,
                ![first].size = handler.size, ![first].data = handler.data]
          BY <4>3 DEF server_process_out_transform_await
        <5> HIDE DEF first, remove
        <5>2. \A j \in DOMAIN active_connections :
                [active_connections[j] EXCEPT !.ping = FALSE, !.insert = ~remove,
                   !.size = handler.size, !.data = handler.data] \in Connection
          BY <3>1, <4>1, EntryTypes, NullAssumption DEF Connection
        <5>3. active_connections \in [1 .. Len(active_connections) -> Connection]
          BY ConnectionsShape
        <5>4. active_connections' \in [1 .. Len(active_connections) -> Connection]
          BY <5>1, <5>2, <5>3
        <5>5. Len(active_connections) \in Nat
          BY ConnectionsShape
        <5> QED
          BY <5>4, <5>5, SeqDef
      <4> QED
        BY <4>2, <4>3
    <3>5. heap' \in [Block -> Tuple \cup {NULL}]
      BY FreedType DEF TypeOK
    <3> QED
      BY <2>6, <3>2, <3>3, <3>4, <3>5, CounterTypes DEF RedirectTuple, Return, TypeOK
  <2>7. CASE SaveTuple
    <3>1. handler \in [data : Block, size : Nat, sender : Client]
      BY <2>7 DEF SaveTuple, TypeOK
    <3>2. [data |-> handler.data, size |-> handler.size] \in Stashed
      BY <3>1 DEF Stashed
    <3>3. tuple_stash' \in Seq(Stashed)
      BY <2>7, <3>2, ConsProperties DEF SaveTuple, server_insert_data_tuple, TypeOK
    <3>4. sent' \in Seq(Message)
      BY <2>7, <3>1, MessageTypes DEF SaveTuple
    <3> QED
      BY <2>7, <3>3, <3>4, CounterTypes DEF SaveTuple, Return, TypeOK
  <2>8. CASE BeginSweep
    BY <2>8 DEF BeginSweep, TypeOK
  <2>9. CASE ResendTuple
    <3> PICK i \in DOMAIN active_connections :
          LET node == active_connections[i] IN
          \/ /\ \E kind \in PointerFault(node.data, node.size) : Fault(kind)
             /\ UNCHANGED <<active_connections, cursor>>
          \/ /\ PointerFault(node.data, node.size) = {}
             /\ sent' = IF node.size = 0 THEN <<>> ELSE <<Reply(node.data, node.client)>>
             /\ active_connections' = [active_connections EXCEPT
                                          ![i].counter = @ + 1, ![i].time = current_time]
             /\ Advance(i)
             /\ UNCHANGED <<pc, handler>>
      BY <2>9 DEF ResendTuple
    <3> DEFINE node == active_connections[i]
    <3>1. node \in Connection
      BY EntryTypes
    <3>2. CASE /\ \E kind \in PointerFault(node.data, node.size) : Fault(kind)
               /\ UNCHANGED <<active_connections, cursor>>
      <4>1. pc' \in Faults /\ handler' = NULL /\ sent' = <<>>
        BY <3>2, FaultTypes
      <4> QED
        BY <2>9, <3>2, <4>1 DEF ResendTuple, Faults, TypeOK
    <3>3. CASE /\ PointerFault(node.data, node.size) = {}
               /\ sent' = IF node.size = 0 THEN <<>> ELSE <<Reply(node.data, node.client)>>
               /\ active_connections' = [active_connections EXCEPT
                                            ![i].counter = @ + 1, ![i].time = current_time]
               /\ Advance(i)
               /\ UNCHANGED <<pc, handler>>
      <4>1. active_connections' \in Seq(Connection)
        <5>1. current_time \in 0 .. ClockPeriod - 1
          BY DEF TypeOK
        <5>2. [node EXCEPT !.counter = @ + 1, !.time = current_time] \in Connection
          BY <3>1, <5>1, ResentType
        <5>3. active_connections \in [1 .. Len(active_connections) -> Connection]
              /\ Len(active_connections) \in Nat
          BY ConnectionsShape
        <5>4. active_connections' = [active_connections EXCEPT
                ![i] = [node EXCEPT !.counter = @ + 1, !.time = current_time]]
          BY <3>3, <5>3
        <5>5. active_connections' \in [1 .. Len(active_connections) -> Connection]
          BY <5>2, <5>3, <5>4
        <5> QED
          BY <5>3, <5>5, SeqDef
      <4>2. sent' \in Seq(Message)
        <5>1. CASE node.size = 0
          BY <3>3, <5>1
        <5>2. CASE node.size # 0
          <6>1. node.data # NULL
            BY <3>1, <3>3, <5>2 DEF PointerFault, Connection
          <6> QED
            BY <3>1, <3>3, <5>2, <6>1, MessageTypes DEF Connection
        <5> QED
          BY <5>1, <5>2
      <4>3. cursor' \in Nat
        <5>1. i \in 1 .. Len(active_connections) /\ Len(active_connections) \in Nat
          BY ConnectionsShape
        <5>2. cursor' = i + 1
          BY <3>3 DEF Advance
        <5> QED
          BY <5>1, <5>2
      <4> QED
        BY <2>9, <3>3, <4>1, <4>2, <4>3 DEF ResendTuple, TypeOK
    <3> QED
      BY <3>2, <3>3
  <2>10. CASE RejectTuple
    <3>0. PICK i \in DOMAIN active_connections :
          LET node   == active_connections[i]
              faults == IF node.insert THEN {} ELSE PointerFault(node.data, node.size)
          IN
          /\ server_resend_tuple_remove_node(i)
          /\ \/ (\E kind \in faults : Fault(kind)) /\ UNCHANGED cursor
             \/ Fault("null_dereference") /\ UNCHANGED cursor
             \/ Advance(i) /\ sent' = <<>> /\ UNCHANGED <<pc, handler>>
      BY <2>10 DEF RejectTuple
    <3> DEFINE node == active_connections[i]
    <3>1. active_connections' \in Seq(Connection)
      BY <3>0, RemoveAtProperties DEF server_resend_tuple_remove_node, TypeOK
    <3>2. heap' \in [Block -> Tuple \cup {NULL}]
      BY <3>0, FreedType DEF server_resend_tuple_remove_node, TypeOK
    <3>3. tuple_stash' \in Seq(Stashed)
      <4>1. CASE UNCHANGED tuple_stash
        BY <4>1 DEF TypeOK
      <4>2. CASE node.insert /\ server_insert_data_tuple(node.data, node.size)
        <5>1. [data |-> node.data, size |-> node.size] \in Stashed
          BY <4>2, EntryTypes DEF Connection, Stashed
        <5> QED
          BY <4>2, <5>1, ConsProperties DEF server_insert_data_tuple, TypeOK
      <4> QED
        BY <3>0, <4>1, <4>2 DEF server_resend_tuple_remove_node
    <3>4. /\ sent' = <<>> /\ cursor' \in Nat
          /\ \/ pc' \in Faults /\ handler' = NULL
             \/ UNCHANGED <<pc, handler>>
      BY <3>0, FaultTypes DEF Fault, Faults, Advance, TypeOK
    <3> QED
      <4>1. /\ pc = "sweep"
            /\ UNCHANGED <<tuple_queue, clock, current_time, metricsVars>>
        BY <2>10 DEF RejectTuple
      <4>2. sent' \in Seq(Message) /\ cursor' \in Nat
        BY <3>4
      <4>3. /\ pc' \in Faults \cup {"sweep"}
            /\ handler' = NULL
        BY <3>4, <4>1 DEF TypeOK
      <4>4. pc' # "out"
        BY <4>3 DEF Faults
      <4>5. UNCHANGED <<tuple_queue, clock, current_time,
                        currently_stashed_tuples, currently_queued_tuples>>
        BY <4>1
      <4> QED
        BY <3>1, <3>2, <3>3, <4>2, <4>3, <4>4, <4>5 DEF TypeOK
  <2>11. CASE RepeatAnswer
    <3> PICK i \in DOMAIN active_connections :
          LET node == active_connections[i] IN
          /\ sent' = <<Tell(IF node.size > 0 THEN "await" ELSE "lack", node.client)>>
          /\ Advance(i)
      BY <2>11 DEF RepeatAnswer
    <3>1. sent' \in Seq(Message)
      BY MessageTypes, EntryTypes DEF Connection
    <3> QED
      BY <2>11, <3>1 DEF RepeatAnswer, Advance, TypeOK
  <2>12. CASE EndSweep
    BY <2>12 DEF EndSweep, TypeOK
  <2>13. CASE Stop
    BY <2>13 DEF Stop, TypeOK
  <2>14. CASE Tick
    BY <2>14 DEF Tick, TypeOK
  <2>15. CASE UNCHANGED vars
    BY <2>15 DEF vars, TypeOK
  <2> QED
    BY <2>1, <2>2, <2>3, <2>4, <2>5, <2>6, <2>7, <2>8, <2>9, <2>10, <2>11, <2>12, <2>13,
       <2>14, <2>15
    DEF Next, ts_server_get_message, server_process_out,
        server_resend_tuple_for_connections, StayHalted
<1> QED
  BY <1>1, <1>2, PTL DEF Spec

-----------------------------------------------------------------------------
(***************************************************************************)
(* The sweep as the server is built: server_current_time_ms stays below    *)
(* one second and the interval is one second, so nothing is ever due.      *)
(***************************************************************************)
QuietRatio == ResendInterval >= ClockPeriod - 1

LEMMA NothingDue ==
  ASSUME QuietRatio, TypeOK
  PROVE  /\ \A i \in DOMAIN active_connections : ~Due(active_connections[i])
         /\ ~ResendTuple /\ ~RejectTuple /\ ~RepeatAnswer
<1>1. ASSUME NEW i \in DOMAIN active_connections
      PROVE  ~Due(active_connections[i])
  <2>1. active_connections[i].time \in 0 .. ClockPeriod - 1
    BY EntryTypes DEF Connection
  <2>2. current_time \in 0 .. ClockPeriod - 1
    BY DEF TypeOK
  <2> QED
    BY <2>1, <2>2 DEF Due, QuietRatio
<1> QED
  BY <1>1 DEF ResendTuple, RejectTuple, RepeatAnswer, NextDue

\* Sets of connections closed under what the handlers do to a connection.
HoldsNew(S) == \A node \in Connection : node.counter = 0 => node \in S

HoldsReused(S) ==
  \A node \in S, data \in Block, size \in Nat, insert \in BOOLEAN :
    [node EXCEPT !.ping = FALSE, !.insert = insert, !.size = size, !.data = data] \in S

\* Every step of the server but a resend leaves the connections alone, links new
\* ones in at the head, unlinks one, or overwrites the fields of one.
LEMMA ConnectionSteps ==
  ASSUME TypeOK, [Next]_vars, ~ResendTuple,
         NEW S, active_connections \in Seq(S), HoldsNew(S), HoldsReused(S)
  PROVE  active_connections' \in Seq(S)
<1>1. ASSUME NEW list \in Seq(S), NEW client \in Client,
             NEW data \in Block \cup {NULL}, NEW size \in Nat,
             NEW insert \in BOOLEAN, NEW ping \in BOOLEAN, insert => data # NULL
      PROVE  server_add_connection_node(list, client, data, size, insert, ping) \in Seq(S)
  <2> DEFINE node == [client |-> client, data |-> data, size |-> size, counter |-> 0,
                      time |-> clock, insert |-> insert, ping |-> ping]
  <2>1. node \in Connection /\ node.counter = 0
    BY <1>1 DEF TypeOK, Connection
  <2>2. node \in S
    BY <2>1 DEF HoldsNew
  <2> HIDE DEF node
  <2>3. Cons(node, list) \in Seq(S)
    BY <2>2, ConsProperties
  <2> QED
    BY <2>3 DEF node, server_add_connection_node
<1>2. ASSUME NEW kind, NEW client \in Client, NEW template,
             server_process_get(kind, client, template)
      PROVE  active_connections' \in Seq(S)
  <2>1. CASE ReadFreedTuple(kind, template)
    BY <2>1 DEF ReadFreedTuple, spaceVars
  <2>2. CASE TakeTuple(kind, client, template)
    <3>1. PICK i \in DOMAIN tuple_stash :
            active_connections' = server_add_connection_node(active_connections, client,
              tuple_stash[i].data, tuple_stash[i].size, TRUE, FALSE)
      BY <2>2 DEF TakeTuple
    <3>2. tuple_stash[i].data \in Block /\ tuple_stash[i].size \in Nat
          /\ tuple_stash[i].data # NULL
      BY EntryTypes, NullAssumption
    <3> QED
      BY <3>1, <3>2, <1>1
  <2>3. CASE CopyTuple(kind, client, template)
    <3> DEFINE Add(list, i) == server_add_connection_node(list, client,
                 tuple_stash[i].data, tuple_stash[i].size, FALSE, FALSE)
    <3>1. PICK i \in DOMAIN tuple_stash :
            \/ active_connections' = Add(Add(active_connections, i), i)
            \/ active_connections' = Add(active_connections, i)
      BY <2>3 DEF CopyTuple
    <3>2. Add(active_connections, i) \in Seq(S)
      BY <1>1, EntryTypes
    <3>3. Add(Add(active_connections, i), i) \in Seq(S)
      BY <1>1, EntryTypes, <3>2
    <3> QED
      BY <3>1, <3>2, <3>3
  <2>4. CASE QueueTemplate(kind, client, template)
    BY <2>4, <1>1 DEF QueueTemplate, AwaitSize
  <2>5. CASE Refuse(kind, client, template)
    <3> DEFINE Add(list) == server_add_connection_node(list, client,
                 NULL, AwaitSize(kind), FALSE, kind = "inp")
    <3>1. Add(active_connections) \in Seq(S)
      BY <1>1 DEF AwaitSize
    <3>2. Add(Add(active_connections)) \in Seq(S)
      BY <1>1, <3>1 DEF AwaitSize
    <3> QED
      BY <2>5, <3>1, <3>2 DEF Refuse
  <2> QED
    BY <1>2, <2>1, <2>2, <2>3, <2>4, <2>5 DEF server_process_get
<1>3. ASSUME NEW client \in Client, server_ack_cb(client)
      PROVE  active_connections' \in Seq(S)
  BY <1>3, RemoveAtProperties DEF server_ack_cb
<1>4. CASE RejectTuple
  BY <1>4, RemoveAtProperties DEF RejectTuple, server_resend_tuple_remove_node
<1>5. CASE RedirectTuple
  <2>1. handler \in [data : Block, size : Nat, sender : Client]
    BY <1>5 DEF RedirectTuple, TypeOK
  <2>2. PICK remove \in BOOLEAN :
          server_process_out_transform_await(handler.data, handler.size, handler.sender, remove)
    BY <1>5, EntryTypes DEF RedirectTuple
  <2> DEFINE found == {j \in DOMAIN active_connections : FoundAsWritten(handler.sender, j)}
             first == Min(found)
  <2>3. CASE found = {}
    <3>1. active_connections' = server_add_connection_node(active_connections,
            handler.sender, handler.data, handler.size, ~remove, FALSE)
      BY <2>2, <2>3 DEF server_process_out_transform_await
    <3>2. /\ handler.sender \in Client /\ handler.data \in Block /\ handler.data # NULL
          /\ handler.size \in Nat /\ (~remove) \in BOOLEAN
      BY <2>1, NullAssumption
    <3> QED
      BY <3>1, <3>2, <1>1
  <2>4. CASE found # {}
    <3>1. active_connections' = [active_connections EXCEPT
            ![first].ping = FALSE, ![first].insert = ~remove,
            ![first].size = handler.size, ![first].data = handler.data]
      BY <2>2, <2>4 DEF server_process_out_transform_await
    <3> HIDE DEF first
    <3>2. \A j \in DOMAIN active_connections :
            [active_connections[j] EXCEPT !.ping = FALSE, !.insert = ~remove,
               !.size = handler.size, !.data = handler.data] \in S
      <4>1. \A j \in DOMAIN active_connections : active_connections[j] \in S
        BY ElementOfSeq
      <4>2. handler.data \in Block /\ handler.size \in Nat /\ (~remove) \in BOOLEAN
        BY <2>1
      <4> QED
        BY <4>1, <4>2 DEF HoldsReused
    <3>3. active_connections \in [1 .. Len(active_connections) -> S]
          /\ Len(active_connections) \in Nat
      BY LenProperties
    <3>4. active_connections' \in [1 .. Len(active_connections) -> S]
      BY <3>1, <3>2, <3>3
    <3> QED
      BY <3>3, <3>4, SeqDef
  <2> QED
    BY <2>3, <2>4
<1>6. CASE UNCHANGED active_connections
  BY <1>6
<1>7. ReadNothing \/ (\E c \in Client, t \in Tuple : ReadTuple(c, t))
        \/ (\E c \in Client : server_ack_cb_unknown(c)) \/ SaveTuple
        \/ BeginSweep \/ RepeatAnswer \/ EndSweep \/ Stop \/ Tick \/ UNCHANGED vars
      => UNCHANGED active_connections
  BY DEF ReadNothing, ReadTuple, server_ack_cb_unknown, SaveTuple, BeginSweep, RepeatAnswer,
         EndSweep, Stop, Tick, vars, spaceVars
<1> QED
  BY <1>2, <1>3, <1>5, <1>6, <1>7, <1>4
  DEF Next, ts_server_get_message, server_process_out, server_resend_tuple_for_connections,
      StayHalted

\* Under that ratio no reply is ever sent again, whatever the clients do: the
\* interval MAX_ACK_AWAIT_TIME is compared with a clock that starts over every
\* second.
THEOREM NoResend == ASSUME QuietRatio PROVE Spec => []NoReplyResent
<1> DEFINE Once == {node \in Connection : node.counter = 0}
           AllOnce == active_connections \in Seq(Once)
<1>1. Init => AllOnce
  BY DEF Init
<1>2. TypeOK /\ AllOnce /\ [Next]_vars => AllOnce'
  <2>1. HoldsReused(Once)
    BY NullAssumption DEF HoldsReused, Connection
  <2>2. HoldsNew(Once)
    BY DEF HoldsNew
  <2> HIDE DEF Once
  <2> QED
    BY <2>1, <2>2, ConnectionSteps, NothingDue
<1>3. AllOnce => NoReplyResent
  <2>1. AllOnce => \A i \in DOMAIN active_connections : active_connections[i] \in Once
    BY ElementOfSeq
  <2> QED
    BY <2>1 DEF NoReplyResent
<1> QED
  BY <1>1, <1>2, <1>3, TypeCorrect, PTL DEF Spec

\* Whatever the interval and the clock, the sweep sends no reply again more than
\* max_resend_count times: resend_counter is compared before it is incremented.
THEOREM ResendsBounded == Spec => []ResendBounded
<1> DEFINE Bounded == {node \in Connection : node.counter <= MaxResend}
           AllBounded == active_connections \in Seq(Bounded)
<1>1. Init => AllBounded
  BY DEF Init
<1>2. TypeOK /\ AllBounded /\ [Next]_vars => AllBounded'
  <2> SUFFICES ASSUME TypeOK, AllBounded, [Next]_vars PROVE AllBounded'
    OBVIOUS
  <2>1. HoldsReused(Bounded)
    BY NullAssumption DEF HoldsReused, Connection
  <2>2. HoldsNew(Bounded)
    BY DEF HoldsNew
  <2>3. \A i \in DOMAIN active_connections : active_connections[i] \in Bounded
    BY ElementOfSeq
  <2>4. CASE ResendTuple
    <3>1. PICK i \in DOMAIN active_connections :
            /\ ~LastResend(active_connections[i])
            /\ \/ UNCHANGED active_connections
               \/ active_connections' = [active_connections EXCEPT
                                           ![i].counter = @ + 1, ![i].time = current_time]
      BY <2>4 DEF ResendTuple
    <3> DEFINE resent == [active_connections[i] EXCEPT !.counter = @ + 1, !.time = current_time]
    <3>2. active_connections[i] \in Connection /\ active_connections[i].counter < MaxResend
          /\ active_connections[i].counter \in Nat
      BY <2>3, <3>1 DEF LastResend, Connection
    <3>3. resent \in Connection
      BY <3>2, ResentType DEF TypeOK
    <3>4. resent.counter = active_connections[i].counter + 1
      BY <3>2 DEF Connection
    <3> HIDE DEF resent
    <3>5. resent \in Bounded
      BY <3>2, <3>3, <3>4
    <3> HIDE DEF Bounded
    <3>6. active_connections \in [1 .. Len(active_connections) -> Bounded]
          /\ Len(active_connections) \in Nat
      BY LenProperties
    <3>7. active_connections' \in [1 .. Len(active_connections) -> Bounded]
      BY <3>1, <3>5, <3>6 DEF resent
    <3> QED
      BY <3>6, <3>7, SeqDef
  <2>5. CASE ~ResendTuple
    <3> HIDE DEF Bounded
    <3> QED
      BY <2>1, <2>2, <2>5, ConnectionSteps
  <2> QED
    BY <2>4, <2>5
<1>3. AllBounded => ResendBounded
  <2>1. AllBounded => \A i \in DOMAIN active_connections : active_connections[i] \in Bounded
    BY ElementOfSeq
  <2> QED
    BY <2>1 DEF ResendBounded
<1> QED
  BY <1>1, <1>2, <1>3, TypeCorrect, PTL DEF Spec

-----------------------------------------------------------------------------
(***************************************************************************)
(* What one step does to the stash, the queue and the heap while nothing   *)
(* is due.                                                                 *)
(***************************************************************************)
LEMMA StashSteps ==
  ASSUME QuietRatio, TypeOK, [Next]_vars
  PROVE  \/ UNCHANGED <<tuple_stash, currently_stashed_tuples>>
         \/ /\ \E i \in DOMAIN tuple_stash : tuple_stash' = RemoveAt(tuple_stash, i)
            /\ currently_stashed_tuples' = Decremented(currently_stashed_tuples)
            /\ UNCHANGED <<heap, tuple_queue>>
         \/ /\ pc = "out" /\ SaveTuple
            /\ tuple_stash' = Cons([data |-> handler.data, size |-> handler.size], tuple_stash)
            /\ currently_stashed_tuples' = Incremented(currently_stashed_tuples)
<1> USE DEF spaceVars, metricsVars
<1>1. ASSUME NEW kind, NEW client, NEW template, server_process_get(kind, client, template)
      PROVE  \/ UNCHANGED <<tuple_stash, currently_stashed_tuples>>
             \/ /\ \E i \in DOMAIN tuple_stash : tuple_stash' = RemoveAt(tuple_stash, i)
                /\ currently_stashed_tuples' = Decremented(currently_stashed_tuples)
                /\ UNCHANGED <<heap, tuple_queue>>
  BY <1>1 DEF server_process_get, ReadFreedTuple, TakeTuple, Unlinked, CopyTuple,
              QueueTemplate, Refuse
<1>2. CASE SaveTuple
  BY <1>2 DEF SaveTuple, server_insert_data_tuple
<1>3. CASE RedirectTuple
  BY <1>3 DEF RedirectTuple
<1>4. \A client : server_ack_cb(client) => UNCHANGED <<tuple_stash, currently_stashed_tuples>>
  BY DEF server_ack_cb
<1>5. ReadNothing \/ (\E c \in Client, t \in Tuple : ReadTuple(c, t))
        \/ (\E c \in Client : server_ack_cb_unknown(c))
        \/ BeginSweep \/ EndSweep \/ Stop \/ Tick \/ UNCHANGED vars
      => UNCHANGED <<tuple_stash, currently_stashed_tuples>>
  BY DEF ReadNothing, ReadTuple, server_ack_cb_unknown, BeginSweep, EndSweep, Stop, Tick, vars
<1> QED
  BY <1>1, <1>2, <1>3, <1>4, <1>5, NothingDue
  DEF Next, ts_server_get_message, server_process_out, server_resend_tuple_for_connections,
      StayHalted

\* A template joins the queue.
Queues(kind, client, template) ==
  /\ kind \in Requests \cap {"in", "rd"} /\ NoDataNode(template)
  /\ tuple_queue' = Cons([template |-> template, client |-> client, remove |-> kind = "in"],
                         tuple_queue)
  /\ currently_queued_tuples' = Incremented(currently_queued_tuples)
  /\ UNCHANGED <<heap, tuple_stash>>

LEMMA QueueSteps ==
  ASSUME QuietRatio, TypeOK, [Next]_vars
  PROVE  \/ UNCHANGED <<tuple_queue, currently_queued_tuples>>
         \/ /\ \E i \in DOMAIN tuple_queue : tuple_queue' = RemoveAt(tuple_queue, i)
            /\ currently_queued_tuples' = Decremented(currently_queued_tuples)
         \/ \E kind \in RequestKinds, client \in Client, template \in Template :
              Queues(kind, client, template)
<1> USE DEF spaceVars, metricsVars
<1>1. ASSUME NEW kind, NEW client, NEW template, server_process_get(kind, client, template)
      PROVE  \/ UNCHANGED <<tuple_queue, currently_queued_tuples>>
             \/ Queues(kind, client, template)
  BY <1>1 DEF server_process_get, ReadFreedTuple, TakeTuple, CopyTuple,
              QueueTemplate, server_insert_template_tuple, Refuse, Queues
<1>2. CASE SaveTuple
  BY <1>2 DEF SaveTuple
<1>3. CASE RedirectTuple
  BY <1>3 DEF RedirectTuple
<1>4. \A client : server_ack_cb(client) => UNCHANGED <<tuple_queue, currently_queued_tuples>>
  BY DEF server_ack_cb
<1>5. ReadNothing \/ (\E c \in Client, t \in Tuple : ReadTuple(c, t))
        \/ (\E c \in Client : server_ack_cb_unknown(c))
        \/ BeginSweep \/ EndSweep \/ Stop \/ Tick \/ UNCHANGED vars
      => UNCHANGED <<tuple_queue, currently_queued_tuples>>
  BY DEF ReadNothing, ReadTuple, server_ack_cb_unknown, BeginSweep, EndSweep, Stop, Tick, vars
<1> QED
  BY <1>1, <1>2, <1>3, <1>4, <1>5, NothingDue
  DEF Next, ts_server_get_message, server_process_out, server_resend_tuple_for_connections,
      StayHalted

LEMMA HeapSteps ==
  ASSUME QuietRatio, TypeOK, [Next]_vars
  PROVE  \/ UNCHANGED heap
         \/ \E data : heap' = Freed(data) /\ UNCHANGED tuple_stash
         \/ /\ \E b \in Block, tuple \in Tuple : Unused(b) /\ heap' = [heap EXCEPT ![b] = tuple]
            /\ UNCHANGED <<tuple_stash, tuple_queue>>
<1> USE DEF spaceVars, metricsVars
<1>1. ASSUME NEW kind, NEW client, NEW template, server_process_get(kind, client, template)
      PROVE  UNCHANGED heap
  BY <1>1 DEF server_process_get, ReadFreedTuple, TakeTuple, CopyTuple, QueueTemplate, Refuse
<1>2. ASSUME NEW client \in Client, NEW tuple \in Tuple, ReadTuple(client, tuple)
      PROVE  /\ \E b \in Block : Unused(b) /\ heap' = [heap EXCEPT ![b] = tuple]
             /\ UNCHANGED <<tuple_stash, tuple_queue>>
  BY <1>2 DEF ReadTuple
<1>3. CASE RedirectTuple
  BY <1>3 DEF RedirectTuple
<1>4. ASSUME NEW client, server_ack_cb(client)
      PROVE  UNCHANGED heap \/ \E data : heap' = Freed(data) /\ UNCHANGED tuple_stash
  BY <1>4 DEF server_ack_cb
<1>5. ReadNothing \/ SaveTuple \/ (\E c \in Client : server_ack_cb_unknown(c))
        \/ BeginSweep \/ EndSweep \/ Stop \/ Tick \/ UNCHANGED vars
      => UNCHANGED heap
  BY DEF ReadNothing, SaveTuple, server_ack_cb_unknown, BeginSweep, EndSweep, Stop, Tick, vars
<1> QED
  BY <1>1, <1>2, <1>3, <1>4, <1>5, NothingDue
  DEF Next, ts_server_get_message, server_process_out, server_resend_tuple_for_connections,
      StayHalted

-----------------------------------------------------------------------------
\* The lists are shorter than a size_t can count.
Countable == Len(tuple_stash) <= CounterMax /\ Len(tuple_queue) <= CounterMax

\* As long as the lists can be counted at all, the gauges of the metrics print
\* their lengths.
THEOREM GaugesAgree == ASSUME QuietRatio PROVE Spec /\ []Countable => []MetricsAgree
<1>1. Init => MetricsAgree
  BY DEF Init, MetricsAgree
<1>2. TypeOK /\ MetricsAgree /\ Countable /\ Countable' /\ [Next]_vars => MetricsAgree'
  <2> SUFFICES ASSUME TypeOK, MetricsAgree, Countable, Countable', [Next]_vars
               PROVE  MetricsAgree'
    OBVIOUS
  <2>1. /\ tuple_stash \in Seq(Stashed) /\ tuple_queue \in Seq(Waiting)
        /\ Len(tuple_stash) \in Nat /\ Len(tuple_queue) \in Nat
    BY DEF TypeOK
  <2>2. currently_stashed_tuples' = Len(tuple_stash')
    <3>1. CASE UNCHANGED <<tuple_stash, currently_stashed_tuples>>
      BY <3>1 DEF MetricsAgree
    <3>2. CASE /\ \E i \in DOMAIN tuple_stash : tuple_stash' = RemoveAt(tuple_stash, i)
               /\ currently_stashed_tuples' = Decremented(currently_stashed_tuples)
      <4>1. Len(tuple_stash') = Len(tuple_stash) - 1 /\ Len(tuple_stash) # 0
        BY <2>1, <3>2, RemoveAtProperties, LenProperties
      <4> QED
        BY <2>1, <3>2, <4>1 DEF MetricsAgree, Decremented
    <3>3. CASE /\ SaveTuple
               /\ tuple_stash' = Cons([data |-> handler.data, size |-> handler.size], tuple_stash)
               /\ currently_stashed_tuples' = Incremented(currently_stashed_tuples)
      <4>1. [data |-> handler.data, size |-> handler.size] \in Stashed
        BY <3>3 DEF SaveTuple, TypeOK, Stashed
      <4>2. Len(tuple_stash') = Len(tuple_stash) + 1
        BY <2>1, <3>3, <4>1, ConsProperties
      <4>3. Len(tuple_stash) + 1 <= CounterMax
        BY <4>2 DEF Countable
      <4> QED
        BY <2>1, <3>3, <4>2, <4>3 DEF MetricsAgree, Incremented
    <3> QED
      BY <3>1, <3>2, <3>3, StashSteps
  <2>3. currently_queued_tuples' = Len(tuple_queue')
    <3>1. CASE UNCHANGED <<tuple_queue, currently_queued_tuples>>
      BY <3>1 DEF MetricsAgree
    <3>2. CASE /\ \E i \in DOMAIN tuple_queue : tuple_queue' = RemoveAt(tuple_queue, i)
               /\ currently_queued_tuples' = Decremented(currently_queued_tuples)
      <4>1. Len(tuple_queue') = Len(tuple_queue) - 1 /\ Len(tuple_queue) # 0
        BY <2>1, <3>2, RemoveAtProperties, LenProperties
      <4> QED
        BY <2>1, <3>2, <4>1 DEF MetricsAgree, Decremented
    <3>3. CASE \E kind \in RequestKinds, client \in Client, template \in Template :
                 Queues(kind, client, template)
      <4>1. PICK entry \in Waiting : tuple_queue' = Cons(entry, tuple_queue)
        BY <3>3 DEF Waiting, Queues
      <4>2. Len(tuple_queue') = Len(tuple_queue) + 1
        BY <2>1, <4>1, ConsProperties
      <4>3. Len(tuple_queue) + 1 <= CounterMax
        BY <4>2 DEF Countable
      <4>4. currently_queued_tuples' = Incremented(currently_queued_tuples)
        BY <3>3 DEF Queues
      <4> QED
        BY <2>1, <4>2, <4>3, <4>4 DEF MetricsAgree, Incremented
    <3> QED
      BY <3>1, <3>2, <3>3, QueueSteps
  <2> QED
    BY <2>2, <2>3 DEF MetricsAgree
<1> QED
  BY <1>1, <1>2, TypeCorrect, PTL DEF Spec

-----------------------------------------------------------------------------
(***************************************************************************)
(* No client waits for a tuple that is in the space.                       *)
(***************************************************************************)
\* A stashed tuple is gone or does not answer the template.
Misses(template, size, tuple) ==
  tuple # NULL => ~(Len(template) = size /\ ts_is_matching_tuple(template, tuple))

LEMMA StandingMatchAsMisses ==
  /\ StandingMatch <=>
       \A i \in DOMAIN tuple_queue, j \in DOMAIN tuple_stash :
         Misses(tuple_queue[i].template, tuple_stash[j].size, heap[tuple_stash[j].data])
  /\ \A template : NoDataNode(template) =>
       \A j \in DOMAIN tuple_stash :
         Misses(template, tuple_stash[j].size, heap[tuple_stash[j].data])
  /\ \A data, size : NoTemplateNode(data, size) =>
       \A i \in DOMAIN tuple_queue : Misses(tuple_queue[i].template, size, heap[data])
<1>1. StandingMatch <=>
       \A i \in DOMAIN tuple_queue, j \in DOMAIN tuple_stash :
         Misses(tuple_queue[i].template, tuple_stash[j].size, heap[tuple_stash[j].data])
  BY DEF StandingMatch, Misses
<1>2. ASSUME NEW template, NoDataNode(template), NEW j \in DOMAIN tuple_stash
      PROVE  Misses(template, tuple_stash[j].size, heap[tuple_stash[j].data])
  BY <1>2 DEF NoDataNode, Stops, Misses
<1>3. ASSUME NEW data, NEW size, NoTemplateNode(data, size), NEW i \in DOMAIN tuple_queue
      PROVE  Misses(tuple_queue[i].template, size, heap[data])
  BY <1>3 DEF NoTemplateNode, Matches, Misses
<1> QED
  BY <1>1, <1>2, <1>3

\* A step leaves what the stash points to alone, or frees it.
LEMMA StashedTuplesKeep ==
  ASSUME QuietRatio, TypeOK, [Next]_vars, NEW j \in DOMAIN tuple_stash
  PROVE  heap'[tuple_stash[j].data] \in {heap[tuple_stash[j].data], NULL}
<1>1. tuple_stash[j].data \in Block
  BY EntryTypes
<1>2. CASE UNCHANGED heap
  BY <1>2
<1>3. CASE \E data : heap' = Freed(data)
  BY <1>1, <1>3 DEF Freed
<1>4. CASE \E b \in Block, tuple \in Tuple : Unused(b) /\ heap' = [heap EXCEPT ![b] = tuple]
  BY <1>1, <1>4 DEF Unused, TypeOK
<1> QED
  BY <1>2, <1>3, <1>4, HeapSteps

\* While nothing is sent again, no client is left waiting for a tuple that is
\* in the space: server_process_in and server_process_rd search the stash
\* before they queue a template, server_process_out the queue before it stashes.
THEOREM NoClientLeftWaiting == ASSUME QuietRatio PROVE Spec => []StandingMatch
<1>1. Init => StandingMatch
  BY DEF Init, StandingMatch
<1>2. TypeOK /\ StandingMatch /\ [Next]_vars => StandingMatch'
  <2> SUFFICES ASSUME TypeOK, StandingMatch, [Next]_vars,
                      NEW i \in DOMAIN tuple_queue', NEW j \in DOMAIN tuple_stash'
               PROVE  Misses(tuple_queue'[i].template, tuple_stash'[j].size,
                             heap'[tuple_stash'[j].data])
    BY DEF StandingMatch, Misses
  <2>1. tuple_stash \in Seq(Stashed) /\ tuple_queue \in Seq(Waiting)
    BY DEF TypeOK
  <2>2. \A m \in DOMAIN tuple_queue, n \in DOMAIN tuple_stash :
          Misses(tuple_queue[m].template, tuple_stash[n].size, heap[tuple_stash[n].data])
    BY StandingMatchAsMisses
  <2>3. ASSUME NEW m \in DOMAIN tuple_queue, NEW n \in DOMAIN tuple_stash
        PROVE  Misses(tuple_queue[m].template, tuple_stash[n].size,
                      heap'[tuple_stash[n].data])
    BY <2>2, StashedTuplesKeep DEF Misses
  <2>4. CASE UNCHANGED tuple_stash
    <3>1. CASE UNCHANGED tuple_queue
      BY <2>3, <2>4, <3>1
    <3>2. CASE \E k \in DOMAIN tuple_queue : tuple_queue' = RemoveAt(tuple_queue, k)
      <4>1. \E m \in DOMAIN tuple_queue : tuple_queue'[i] = tuple_queue[m]
        BY <2>1, <3>2, RemoveAtMembers
      <4> QED
        BY <2>3, <2>4, <4>1
    <3>3. ASSUME NEW kind, NEW client \in Client, NEW template \in Template,
                 Queues(kind, client, template)
          PROVE  Misses(tuple_queue'[i].template, tuple_stash'[j].size,
                        heap'[tuple_stash'[j].data])
      <4> DEFINE entry == [template |-> template, client |-> client, remove |-> kind = "in"]
      <4>1. tuple_queue' = Cons(entry, tuple_queue) /\ UNCHANGED heap
        BY <3>3 DEF Queues
      <4>2. entry \in Waiting
        BY DEF Waiting
      <4>3. entry.template = template
        OBVIOUS
      <4> HIDE DEF entry
      <4>4. \/ i = 1 /\ tuple_queue'[i] = entry
            \/ i - 1 \in DOMAIN tuple_queue /\ tuple_queue'[i] = tuple_queue[i - 1]
        BY <2>1, <4>1, <4>2, ConsMembers
      <4>5. Misses(template, tuple_stash[j].size, heap[tuple_stash[j].data])
        BY <2>4, <3>3, StandingMatchAsMisses DEF Queues
      <4> QED
        BY <2>3, <2>4, <4>1, <4>3, <4>4, <4>5
    <3> QED
      BY <3>1, <3>2, <3>3, QueueSteps
  <2>5. CASE /\ \E k \in DOMAIN tuple_stash : tuple_stash' = RemoveAt(tuple_stash, k)
             /\ UNCHANGED <<heap, tuple_queue>>
    <3>1. PICK k \in DOMAIN tuple_stash : tuple_stash' = RemoveAt(tuple_stash, k)
      BY <2>5
    <3>2. j \in DOMAIN RemoveAt(tuple_stash, k)
      BY <3>1
    <3>3. \E n \in DOMAIN tuple_stash : RemoveAt(tuple_stash, k)[j] = tuple_stash[n]
      BY <2>1, <3>2, RemoveAtMembers
    <3> QED
      BY <2>3, <2>5, <3>1, <3>3
  <2>6. CASE /\ pc = "out" /\ SaveTuple
             /\ tuple_stash' = Cons([data |-> handler.data, size |-> handler.size],
                                    tuple_stash)
    <3> DEFINE entry == [data |-> handler.data, size |-> handler.size]
    <3>1. UNCHANGED <<heap, tuple_queue>> /\ NoTemplateNode(handler.data, handler.size)
      BY <2>6 DEF SaveTuple
    <3>2. entry \in Stashed
      BY <2>6 DEF TypeOK, Stashed
    <3>3. entry.data = handler.data /\ entry.size = handler.size
      OBVIOUS
    <3>4. tuple_stash' = Cons(entry, tuple_stash)
      BY <2>6
    <3> HIDE DEF entry
    <3>5. \/ j = 1 /\ tuple_stash'[j] = entry
          \/ j - 1 \in DOMAIN tuple_stash /\ tuple_stash'[j] = tuple_stash[j - 1]
      BY <2>1, <3>2, <3>4, ConsMembers
    <3>6. Misses(tuple_queue[i].template, handler.size, heap[handler.data])
      BY <3>1, StandingMatchAsMisses
    <3> QED
      BY <2>3, <3>1, <3>3, <3>5, <3>6
  <2> QED
    BY <2>4, <2>5, <2>6, StashSteps
<1> QED
  BY <1>1, <1>2, TypeCorrect, PTL DEF Spec

-----------------------------------------------------------------------------
(***************************************************************************)
(* Who owns a tuple's memory, when the clients only send INP and OUT as    *)
(* the two applications of the repository do.                              *)
(***************************************************************************)
OnlyInp == Requests \subseteq {"inp"}

\* SoleOwner, said of the pointers rather than of the positions they are at.
Ownership ==
  /\ Distinct(tuple_stash, NULL)
  /\ Distinct(active_connections, NULL)
  /\ \A b \in Block :
       /\ ~(Points(tuple_stash, b) /\ Points(active_connections, b))
       /\ ~(Points(tuple_stash, b) /\ InHandler(b))
       /\ ~(Points(active_connections, b) /\ InHandler(b))
       /\ heap[b] # NULL
            <=> Points(tuple_stash, b) \/ Points(active_connections, b) \/ InHandler(b)

LEMMA OwnershipIsSoleOwner ==
  ASSUME TypeOK, Ownership
  PROVE  SoleOwner
<1>1. \A i \in DOMAIN tuple_stash : tuple_stash[i].data \in Block /\ tuple_stash[i].data # NULL
  BY EntryTypes, NullAssumption
<1>2. \A i \in DOMAIN active_connections :
        active_connections[i].data # NULL => active_connections[i].data \in Block
  BY EntryTypes DEF Connection
<1>3. \A i \in DOMAIN tuple_stash :
        /\ heap[tuple_stash[i].data] # NULL
        /\ ~InConnection(tuple_stash[i].data)
        /\ ~InHandler(tuple_stash[i].data)
        /\ \A j \in DOMAIN tuple_stash :
             tuple_stash[i].data = tuple_stash[j].data => i = j
  BY <1>1 DEF Ownership, Points, Distinct, InConnection
<1>4. \A i \in DOMAIN active_connections :
        active_connections[i].data # NULL =>
          /\ heap[active_connections[i].data] # NULL
          /\ ~InHandler(active_connections[i].data)
          /\ \A j \in DOMAIN active_connections :
               active_connections[i].data = active_connections[j].data => i = j
  BY <1>2 DEF Ownership, Points, Distinct
<1>5. \A b \in Block : heap[b] # NULL => InStash(b) \/ InConnection(b) \/ InHandler(b)
  BY DEF Ownership, Points, InStash, InConnection
<1> QED
  BY <1>3, <1>4, <1>5 DEF SoleOwner

-----------------------------------------------------------------------------
(***************************************************************************)
(* One lemma per action that moves a pointer.  The queue stays empty, so   *)
(* that process_out always stashes.                                        *)
(***************************************************************************)
\* INP moves the pointer from the stash to a connection.
LEMMA TakeMoves ==
  ASSUME TypeOK, Ownership, NEW kind, NEW client \in Client, NEW template,
         TakeTuple(kind, client, template)
  PROVE  Ownership'
<1>1. PICK i \in DOMAIN tuple_stash :
        /\ tuple_stash' = RemoveAt(tuple_stash, i)
        /\ active_connections' = server_add_connection_node(active_connections, client,
             tuple_stash[i].data, tuple_stash[i].size, TRUE, FALSE)
  BY DEF TakeTuple, Unlinked
<1> DEFINE data == tuple_stash[i].data
<1>2. data \in Block /\ data # NULL /\ tuple_stash[i].size \in Nat
  BY EntryTypes, NullAssumption
<1>3. tuple_stash \in Seq(Stashed) /\ active_connections \in Seq(Connection)
  BY DEF TypeOK
<1>4. PICK node \in Connection :
        node.data = data /\ active_connections' = Cons(node, active_connections)
  <2> DEFINE node == [client |-> client, data |-> data, size |-> tuple_stash[i].size,
                      counter |-> 0, time |-> clock, insert |-> TRUE, ping |-> FALSE]
  <2>1. node \in Connection /\ node.data = data
    BY <1>2 DEF TypeOK, Connection
  <2> QED
    BY <1>1, <2>1 DEF server_add_connection_node
<1>5. /\ \A b : Points(tuple_stash, b) <=> b = data \/ Points(tuple_stash', b)
      /\ Distinct(tuple_stash', NULL) /\ ~Points(tuple_stash', data)
  <2> DEFINE rest == RemoveAt(tuple_stash, i)
  <2>1. Distinct(tuple_stash, NULL)
    BY DEF Ownership
  <2>2. /\ \A b : Points(tuple_stash, b) <=> data = b \/ Points(rest, b)
        /\ Distinct(rest, NULL) /\ (data # NULL => ~Points(rest, data))
    BY <1>3, <2>1, RemoveAtPointers, RemoveAtDistinct
  <2>3. tuple_stash' = rest
    BY <1>1
  <2> HIDE DEF rest, data
  <2> QED
    BY <1>2, <2>2, <2>3
<1>6. Points(tuple_stash, data)
  BY <1>5
<1>7. ~Points(active_connections, data)
  BY <1>2, <1>6 DEF Ownership
<1>8. /\ \A b : Points(active_connections', b) <=> b = data \/ Points(active_connections, b)
      /\ Distinct(active_connections', NULL)
  BY <1>3, <1>4, <1>7, ConsPointers, ConsDistinct DEF Ownership
<1>9. UNCHANGED heap /\ \A b : ~InHandler(b) /\ ~InHandler(b)'
  BY DEF TakeTuple, Return, InHandler
<1> HIDE DEF data
<1> QED
  BY <1>2, <1>5, <1>7, <1>8, <1>9 DEF Ownership

\* An answer without a tuple leaves a null pointer behind.
LEMMA RefuseMovesNothing ==
  ASSUME TypeOK, Ownership, NEW client \in Client, NEW template,
         Refuse("inp", client, template)
  PROVE  /\ Ownership'
         /\ \E node \in Connection : /\ node.data = NULL /\ node.size = 0
                                     /\ active_connections' = Cons(node, active_connections)
<1> DEFINE node == [client |-> client, data |-> NULL, size |-> 0, counter |-> 0,
                    time |-> clock, insert |-> FALSE, ping |-> TRUE]
<1>1. active_connections' = Cons(node, active_connections)
  BY DEF Refuse, AwaitSize, server_add_connection_node
<1>2. node \in Connection /\ node.data = NULL /\ node.size = 0
  BY DEF TypeOK, Connection
<1> HIDE DEF node
<1>3. active_connections \in Seq(Connection)
  BY DEF TypeOK
<1>4. /\ \A b : Points(active_connections', b) <=> b = NULL \/ Points(active_connections, b)
      /\ Distinct(active_connections', NULL)
  BY <1>1, <1>2, <1>3, ConsPointers, ConsDistinct DEF Ownership
<1>5. /\ UNCHANGED <<heap, tuple_stash>>
      /\ \A b : ~InHandler(b) /\ ~InHandler(b)'
  BY DEF Refuse, Return, InHandler
<1>6. NULL \notin Block
  BY NullAssumption
<1> QED
  BY <1>1, <1>2, <1>4, <1>5, <1>6 DEF Ownership

\* Receiving a tuple puts a block nobody points to into the handler's hands.
LEMMA ReadAllocates ==
  ASSUME TypeOK, Ownership, NEW client \in Client, NEW tuple \in Tuple,
         ReadTuple(client, tuple)
  PROVE  Ownership'
<1>1. PICK b \in Block :
        /\ Unused(b) /\ heap' = [heap EXCEPT ![b] = tuple]
        /\ handler' = [data |-> b, size |-> Len(tuple), sender |-> client]
  BY DEF ReadTuple
<1>2. ~Points(tuple_stash, b) /\ ~Points(active_connections, b)
  BY <1>1 DEF Unused, Points
<1>3. /\ UNCHANGED <<tuple_stash, active_connections>>
      /\ pc = "receive" /\ pc' = "out"
  BY DEF ReadTuple
<1>4. /\ \A c : ~InHandler(c)
      /\ \A c : InHandler(c)' <=> c = b
  BY <1>1, <1>3 DEF InHandler
<1>5. heap'[b] # NULL /\ \A c \in Block : c # b => heap'[c] = heap[c]
  BY <1>1, NullAssumption DEF TypeOK
<1> QED
  BY <1>2, <1>3, <1>4, <1>5 DEF Ownership

\* An acknowledgement frees the block of the connection it drops.
LEMMA AckFrees ==
  ASSUME TypeOK, Ownership, NEW client, server_ack_cb(client)
  PROVE  /\ Ownership'
         /\ \E i \in DOMAIN active_connections :
              /\ active_connections' = RemoveAt(active_connections, i)
              /\ \/ UNCHANGED heap /\ active_connections[i].data = NULL
                      /\ active_connections[i].size > 0
                 \/ pc' = "resend"
<1>1. PICK i \in DOMAIN active_connections :
        /\ active_connections' = RemoveAt(active_connections, i)
        /\ \/ /\ PointerFault(active_connections[i].data, active_connections[i].size) # {}
              /\ UNCHANGED heap /\ \E kind \in Faults : Fault(kind)
           \/ /\ heap' = Freed(active_connections[i].data)
              /\ Return
  <2>1. \A data, size : PointerFault(data, size) \subseteq Faults
    BY DEF PointerFault, Faults
  <2> QED
    BY <2>1 DEF server_ack_cb
<1> DEFINE data == active_connections[i].data
<1>2. active_connections \in Seq(Connection)
  BY DEF TypeOK
<1>3. /\ \A b : Points(active_connections, b) <=> b = data \/ Points(active_connections', b)
      /\ Distinct(active_connections', NULL)
      /\ data # NULL => ~Points(active_connections', data)
  <2> DEFINE rest == RemoveAt(active_connections, i)
  <2>1. Distinct(active_connections, NULL)
    BY DEF Ownership
  <2>2. /\ \A b : Points(active_connections, b) <=> data = b \/ Points(rest, b)
        /\ Distinct(rest, NULL) /\ (data # NULL => ~Points(rest, data))
    BY <1>2, <2>1, RemoveAtPointers, RemoveAtDistinct
  <2>3. active_connections' = rest
    BY <1>1
  <2> HIDE DEF rest, data
  <2> QED
    BY <2>2, <2>3
<1>4. data \in Block \cup {NULL}
  BY EntryTypes DEF Connection
<1>5. data # NULL => heap[data] # NULL
  BY <1>3, <1>4 DEF Ownership
<1>6. /\ UNCHANGED tuple_stash
      /\ \A b : ~InHandler(b) /\ ~InHandler(b)'
  BY <1>1 DEF server_ack_cb, Fault, Return, InHandler, Faults
<1>7. CASE /\ PointerFault(data, active_connections[i].size) # {}
           /\ UNCHANGED heap
  <2>1. data = NULL /\ active_connections[i].size > 0
    BY <1>5, <1>7 DEF PointerFault
  <2>2. NULL \notin Block
    BY NullAssumption
  <2>3. Ownership'
    BY <1>3, <1>6, <1>7, <2>1, <2>2 DEF Ownership
  <2> QED
    BY <1>1, <1>7, <2>1, <2>3
<1>8. CASE heap' = Freed(data) /\ Return
  <2>1. \A b \in Block : heap'[b] # NULL <=> heap[b] # NULL /\ b # data
    BY <1>8 DEF Freed
  <2>2. NULL \notin Block
    BY NullAssumption
  <2> HIDE DEF data
  <2>3. Ownership'
    BY <1>3, <1>6, <2>1, <2>2 DEF Ownership
  <2> QED
    BY <1>1, <1>8, <2>3 DEF Return
<1> QED
  BY <1>1, <1>7, <1>8

\* process_out moves its block to the stash.
LEMMA SaveMoves ==
  ASSUME TypeOK, Ownership, SaveTuple
  PROVE  Ownership'
<1> DEFINE entry == [data |-> handler.data, size |-> handler.size]
<1>1. pc = "out" /\ tuple_stash' = Cons(entry, tuple_stash)
  BY DEF SaveTuple, server_insert_data_tuple
<1>2. entry \in Stashed /\ entry.data = handler.data /\ handler.data \in Block
  BY <1>1 DEF TypeOK, Stashed
<1> HIDE DEF entry
<1>3. InHandler(handler.data)
  BY <1>1 DEF InHandler
<1>4. ~Points(tuple_stash, entry.data)
  BY <1>2, <1>3 DEF Ownership
<1>5. tuple_stash \in Seq(Stashed)
  BY DEF TypeOK
<1>6. /\ \A b : Points(tuple_stash', b) <=> b = handler.data \/ Points(tuple_stash, b)
      /\ Distinct(tuple_stash', NULL)
  BY <1>1, <1>2, <1>4, <1>5, ConsPointers, ConsDistinct DEF Ownership
<1>7. UNCHANGED <<heap, active_connections>> /\ pc' = "resend"
  BY DEF SaveTuple, Return
<1>8. \A b : (InHandler(b) <=> b = handler.data) /\ ~InHandler(b)'
  BY <1>1, <1>7 DEF InHandler
<1> QED
  BY <1>6, <1>7, <1>8 DEF Ownership

-----------------------------------------------------------------------------
(***************************************************************************)
(* The sweep, whatever the interval.                                       *)
(***************************************************************************)
\* A reply sent again stays where it is.
LEMMA ResendMovesNothing ==
  ASSUME TypeOK, Ownership, ResendTuple
  PROVE  Ownership'
<1>1. /\ UNCHANGED <<heap, tuple_stash>>
      /\ \A b : ~InHandler(b) /\ ~InHandler(b)'
  BY DEF ResendTuple, Fault, InHandler, PointerFault
<1>2. /\ DOMAIN active_connections' = DOMAIN active_connections
      /\ \A i \in DOMAIN active_connections :
           active_connections'[i].data = active_connections[i].data
  <2>1. CASE UNCHANGED active_connections
    BY <2>1
  <2>2. CASE \E i \in DOMAIN active_connections :
               active_connections' = [active_connections EXCEPT
                                        ![i].counter = @ + 1, ![i].time = current_time]
    <3>1. PICK i \in DOMAIN active_connections :
                 active_connections' = [active_connections EXCEPT
                                          ![i].counter = @ + 1, ![i].time = current_time]
      BY <2>2
    <3>2. \A j \in DOMAIN active_connections : active_connections[j] \in Connection
      BY EntryTypes
    <3>3. /\ active_connections \in [DOMAIN active_connections -> Connection]
      BY <3>2 DEF TypeOK
    <3> QED
      BY <3>1, <3>2, <3>3 DEF Connection
  <2> QED
    BY <2>1, <2>2 DEF ResendTuple
<1>3. /\ \A b : Points(active_connections', b) <=> Points(active_connections, b)
      /\ Distinct(active_connections, NULL) => Distinct(active_connections', NULL)
  BY <1>2, SamePointers
<1> QED
  BY <1>1, <1>3 DEF Ownership

\* A connection given up returns its tuple to the stash, or frees it.
LEMMA RejectReturns ==
  ASSUME TypeOK, Ownership, RejectTuple
  PROVE  Ownership'
<1>1. PICK i \in DOMAIN active_connections : server_resend_tuple_remove_node(i)
  BY DEF RejectTuple
<1> DEFINE node == active_connections[i]
           data == node.data
           rest == RemoveAt(active_connections, i)
<1>2. active_connections \in Seq(Connection) /\ tuple_stash \in Seq(Stashed)
  BY DEF TypeOK
<1>3. /\ \A b : Points(active_connections, b) <=> data = b \/ Points(active_connections', b)
      /\ Distinct(active_connections', NULL)
      /\ data # NULL => ~Points(active_connections', data)
  <2>1. Distinct(active_connections, NULL)
    BY DEF Ownership
  <2>2. /\ \A b : Points(active_connections, b) <=> data = b \/ Points(rest, b)
        /\ Distinct(rest, NULL) /\ (data # NULL => ~Points(rest, data))
    BY <1>2, <2>1, RemoveAtPointers, RemoveAtDistinct
  <2>3. active_connections' = rest
    BY <1>1 DEF server_resend_tuple_remove_node
  <2> HIDE DEF rest, data
  <2> QED
    BY <2>2, <2>3
<1>4. /\ data \in Block \cup {NULL} /\ node.size \in Nat
      /\ node.insert => data # NULL
  BY EntryTypes DEF Connection
<1>5. NULL \notin Block
  BY NullAssumption
<1>6. \A b : ~InHandler(b) /\ ~InHandler(b)'
  BY DEF RejectTuple, Fault, PointerFault, InHandler
<1>7. CASE node.insert
  <2> DEFINE entry == [data |-> data, size |-> node.size]
  <2>1. entry \in Stashed /\ entry.data = data
    BY <1>4, <1>7 DEF Stashed
  <2>2. tuple_stash' = Cons(entry, tuple_stash) /\ UNCHANGED heap
    BY <1>1, <1>7 DEF server_resend_tuple_remove_node, server_insert_data_tuple
  <2>3. Points(active_connections, data) /\ data \in Block
    BY <1>3, <1>4, <1>7
  <2>4. ~Points(tuple_stash, data) /\ Distinct(tuple_stash, NULL)
    BY <2>3 DEF Ownership
  <2> HIDE DEF entry, data
  <2>5. /\ \A b : Points(tuple_stash', b) <=> b = data \/ Points(tuple_stash, b)
        /\ Distinct(tuple_stash', NULL)
    BY <1>2, <2>1, <2>2, <2>4, ConsPointers, ConsDistinct
  <2> QED
    BY <1>3, <1>5, <1>6, <2>2, <2>3, <2>5 DEF Ownership
<1>8. CASE ~node.insert
  <2>1. heap' = Freed(data) /\ UNCHANGED tuple_stash
    BY <1>1, <1>8 DEF server_resend_tuple_remove_node
  <2>2. \A b \in Block : heap'[b] # NULL <=> heap[b] # NULL /\ b # data
    BY <2>1 DEF Freed
  <2> HIDE DEF data
  <2> QED
    BY <1>3, <1>4, <1>5, <1>6, <2>1, <2>2 DEF Ownership
<1> QED
  BY <1>7, <1>8

-----------------------------------------------------------------------------
(***************************************************************************)
(* Putting the actions together.                                           *)
(***************************************************************************)
LEMMA OtherStepsMoveNothing ==
  ASSUME \/ ReadNothing \/ (\E c \in Client : server_ack_cb_unknown(c)) \/ BeginSweep
         \/ RepeatAnswer \/ EndSweep \/ Stop \/ Tick \/ UNCHANGED vars
  PROVE  /\ UNCHANGED <<heap, tuple_stash, tuple_queue, active_connections>>
         /\ \A b : InHandler(b)' <=> InHandler(b)
BY DEF ReadNothing, server_ack_cb_unknown, BeginSweep, RepeatAnswer, EndSweep, Stop, Tick,
       vars, spaceVars, Return, InHandler

LEMMA OwnershipStep ==
  ASSUME OnlyInp, TypeOK, tuple_queue = <<>>, Ownership, [Next]_vars
  PROVE  tuple_queue' = <<>> /\ Ownership'
<1>1. ASSUME NEW kind, NEW client \in Client, NEW template,
             server_process_get(kind, client, template)
      PROVE  tuple_queue' = <<>> /\ Ownership'
  <2>1. ~CopyTuple(kind, client, template) /\ ~QueueTemplate(kind, client, template)
    BY DEF OnlyInp, CopyTuple, QueueTemplate
  <2>3. CASE ReadFreedTuple(kind, template)
    <3>1. PICK i \in DOMAIN tuple_stash : heap[tuple_stash[i].data] = NULL
      BY <2>3 DEF ReadFreedTuple
    <3>2. tuple_stash[i].data \in Block /\ Points(tuple_stash, tuple_stash[i].data)
      BY EntryTypes DEF Points
    <3> QED
      BY <3>1, <3>2 DEF Ownership
  <2>4. CASE TakeTuple(kind, client, template)
    BY <2>4, TakeMoves DEF TakeTuple
  <2>5. CASE Refuse(kind, client, template)
    <3>1. kind = "inp" /\ UNCHANGED tuple_queue
      BY <2>5 DEF Refuse, OnlyInp
    <3> QED
      BY <2>5, <3>1, RefuseMovesNothing
  <2> QED
    BY <1>1, <2>1, <2>3, <2>4, <2>5 DEF server_process_get
<1>2. ASSUME NEW client \in Client, NEW tuple \in Tuple, ReadTuple(client, tuple)
      PROVE  tuple_queue' = <<>> /\ Ownership'
  BY <1>2, ReadAllocates DEF ReadTuple
<1>3. ASSUME NEW client \in Client, server_ack_cb(client)
      PROVE  tuple_queue' = <<>> /\ Ownership'
  BY <1>3, AckFrees DEF server_ack_cb
<1>4. CASE SaveTuple
  BY <1>4, SaveMoves DEF SaveTuple
<1>5. ~RedirectTuple
  BY DEF RedirectTuple
<1>6. CASE ResendTuple
  BY <1>6, ResendMovesNothing DEF ResendTuple
<1>7. CASE RejectTuple
  BY <1>7, RejectReturns DEF RejectTuple
<1>8. CASE \/ ReadNothing \/ (\E c \in Client : server_ack_cb_unknown(c)) \/ BeginSweep
           \/ RepeatAnswer \/ EndSweep \/ Stop \/ Tick \/ UNCHANGED vars
  BY <1>8, OtherStepsMoveNothing DEF Ownership
<1> QED
  BY <1>1, <1>2, <1>3, <1>4, <1>5, <1>6, <1>7, <1>8
  DEF Next, ts_server_get_message, server_process_out, server_resend_tuple_for_connections,
      StayHalted

LEMMA OwnershipInit ==
  ASSUME Init
  PROVE  tuple_queue = <<>> /\ Ownership
BY DEF Init, Ownership, Distinct, Points, InHandler

LEMMA OwnershipInvariant ==
  ASSUME OnlyInp
  PROVE  Spec => [](tuple_queue = <<>> /\ Ownership)
<1>1. Init => tuple_queue = <<>> /\ Ownership
  BY OwnershipInit
<1>2. TypeOK /\ tuple_queue = <<>> /\ Ownership /\ [Next]_vars
        => (tuple_queue = <<>>)' /\ Ownership'
  BY OwnershipStep
<1> QED
  BY <1>1, <1>2, TypeCorrect, PTL DEF Spec

\* Whatever the interval of the sweep and whatever the clients send, as long as
\* they only send OUT, INP and acknowledgements: every tuple in memory has
\* exactly one owner, so that none is lost, leaked or handed out twice.
THEOREM InpKeepsOneOwner == ASSUME OnlyInp PROVE Spec => []SoleOwner
<1>1. TypeOK /\ Ownership => SoleOwner
  BY OwnershipIsSoleOwner
<1> QED
  BY <1>1, OwnershipInvariant, TypeCorrect, PTL

-----------------------------------------------------------------------------
\* Connections of a client that was told there is no tuple hold no size
\* either, so that acknowledging them follows no pointer.
AnsweredNode == {node \in Connection : node.data = NULL => node.size = 0}

LEMMA AnsweredStep ==
  ASSUME OnlyInp, QuietRatio, TypeOK, tuple_queue = <<>>, Ownership,
         active_connections \in Seq(AnsweredNode), pc \notin Faults, [Next]_vars
  PROVE  active_connections' \in Seq(AnsweredNode) /\ pc' \notin Faults
<1> USE DEF Faults
<1>1. ASSUME NEW kind, NEW client \in Client, NEW template,
             server_process_get(kind, client, template)
      PROVE  active_connections' \in Seq(AnsweredNode) /\ pc' \notin Faults
  <2>1. ~CopyTuple(kind, client, template) /\ ~QueueTemplate(kind, client, template)
    BY DEF OnlyInp, CopyTuple, QueueTemplate
  <2>2. CASE ReadFreedTuple(kind, template)
    <3>1. PICK i \in DOMAIN tuple_stash : heap[tuple_stash[i].data] = NULL
      BY <2>2 DEF ReadFreedTuple
    <3>2. tuple_stash[i].data \in Block /\ Points(tuple_stash, tuple_stash[i].data)
      BY EntryTypes DEF Points
    <3> QED
      BY <3>1, <3>2 DEF Ownership
  <2>3. CASE TakeTuple(kind, client, template)
    <3>1. PICK i \in DOMAIN tuple_stash :
            active_connections' = server_add_connection_node(active_connections, client,
              tuple_stash[i].data, tuple_stash[i].size, TRUE, FALSE)
      BY <2>3 DEF TakeTuple
    <3>2. tuple_stash[i].data \in Block /\ tuple_stash[i].data # NULL
          /\ tuple_stash[i].size \in Nat
      BY EntryTypes, NullAssumption
    <3> DEFINE node == [client |-> client, data |-> tuple_stash[i].data,
                        size |-> tuple_stash[i].size, counter |-> 0, time |-> clock,
                        insert |-> TRUE, ping |-> FALSE]
    <3>3. node \in AnsweredNode
      BY <3>2 DEF TypeOK, Connection, AnsweredNode
    <3>4. active_connections' = Cons(node, active_connections)
      BY <3>1 DEF server_add_connection_node
    <3> HIDE DEF node
    <3>5. pc' = "resend"
      BY <2>3 DEF TakeTuple, Return
    <3> QED
      BY <3>3, <3>4, <3>5, ConsProperties
  <2>4. CASE Refuse(kind, client, template)
    <3>1. kind = "inp" /\ pc' = "resend"
      BY <2>4 DEF Refuse, OnlyInp, Return
    <3>2. PICK node \in Connection :
            /\ node.data = NULL /\ node.size = 0
            /\ active_connections' = Cons(node, active_connections)
      BY <2>4, <3>1, RefuseMovesNothing
    <3>3. node \in AnsweredNode
      BY <3>2 DEF AnsweredNode
    <3> QED
      BY <3>1, <3>2, <3>3, ConsProperties
  <2> QED
    BY <1>1, <2>1, <2>2, <2>3, <2>4 DEF server_process_get
<1>2. ASSUME NEW client \in Client, server_ack_cb(client)
      PROVE  active_connections' \in Seq(AnsweredNode) /\ pc' \notin Faults
  <2>1. PICK i \in DOMAIN active_connections :
          /\ active_connections' = RemoveAt(active_connections, i)
          /\ \/ active_connections[i].data = NULL /\ active_connections[i].size > 0
             \/ pc' = "resend"
    BY <1>2, AckFrees
  <2>2. active_connections[i] \in AnsweredNode
    BY ElementOfSeq
  <2>3. pc' = "resend"
    BY <2>1, <2>2 DEF AnsweredNode
  <2>4. RemoveAt(active_connections, i) \in Seq(AnsweredNode)
    BY RemoveAtProperties
  <2> QED
    BY <2>1, <2>3, <2>4
<1>3. CASE \/ (\E c \in Client, t \in Tuple : ReadTuple(c, t)) \/ SaveTuple \/ EndSweep
  BY <1>3 DEF ReadTuple, SaveTuple, EndSweep, Return, spaceVars
<1>4. CASE \/ ReadNothing \/ (\E c \in Client : server_ack_cb_unknown(c)) \/ BeginSweep
           \/ Stop \/ Tick \/ UNCHANGED vars
  BY <1>4 DEF ReadNothing, server_ack_cb_unknown, BeginSweep, Stop, Tick, vars, Return, spaceVars
<1>5. ~RedirectTuple
  BY DEF RedirectTuple
<1> QED
  BY <1>1, <1>2, <1>3, <1>4, <1>5, NothingDue
  DEF Next, ts_server_get_message, server_process_out, server_resend_tuple_for_connections,
      StayHalted

LEMMA AnsweredInvariant ==
  ASSUME OnlyInp, QuietRatio
  PROVE  Spec => [](active_connections \in Seq(AnsweredNode) /\ pc \notin Faults)
<1>1. Init => active_connections \in Seq(AnsweredNode) /\ pc \notin Faults
  BY DEF Init, Faults
<1>2. TypeOK /\ tuple_queue = <<>> /\ Ownership
        /\ active_connections \in Seq(AnsweredNode) /\ pc \notin Faults /\ [Next]_vars
        => (active_connections \in Seq(AnsweredNode))' /\ (pc \notin Faults)'
  BY AnsweredStep
<1> QED
  BY <1>1, <1>2, OwnershipInvariant, TypeCorrect, PTL DEF Spec

\* While nothing is sent again and the clients only use INP and OUT, the server
\* never follows a null or a freed pointer.
THEOREM InpIsMemorySafe == ASSUME OnlyInp, QuietRatio PROVE Spec => []MemorySafe
BY AnsweredInvariant, PTL DEF MemorySafe

-----------------------------------------------------------------------------
\* Under the same conditions a tuple that left the stash with a client is never
\* put back, even if the client never acknowledged it.
THEOREM TakenNeverReturns == ASSUME OnlyInp, QuietRatio PROVE Spec => TakenStaysTaken
<1> DEFINE Kept == \A b \in Block : InConnection(b) /\ ~InStash(b) => ~InStash(b)'
<1>1. TypeOK /\ Ownership /\ [Next]_vars => Kept
  <2> SUFFICES ASSUME TypeOK, Ownership, [Next]_vars, NEW b \in Block,
                      Points(active_connections, b), ~Points(tuple_stash, b)
               PROVE  ~Points(tuple_stash', b)
    BY DEF InConnection, InStash, Points
  <2>1. tuple_stash \in Seq(Stashed)
    BY DEF TypeOK
  <2>2. CASE UNCHANGED tuple_stash
    BY <2>2
  <2>3. CASE \E i \in DOMAIN tuple_stash : tuple_stash' = RemoveAt(tuple_stash, i)
    BY <2>1, <2>3, RemoveAtPointers
  <2>4. CASE /\ pc = "out"
             /\ tuple_stash' = Cons([data |-> handler.data, size |-> handler.size],
                                    tuple_stash)
    <3> DEFINE entry == [data |-> handler.data, size |-> handler.size]
    <3>1. entry \in Stashed /\ entry.data = handler.data /\ handler.data \in Block
      BY <2>4 DEF TypeOK, Stashed
    <3>2. tuple_stash' = Cons(entry, tuple_stash)
      BY <2>4
    <3> HIDE DEF entry
    <3>3. InHandler(handler.data)
      BY <2>4 DEF InHandler
    <3>4. b # handler.data
      BY <3>3 DEF Ownership
    <3> QED
      BY <2>1, <3>1, <3>2, <3>4, ConsPointers
  <2> QED
    BY <2>2, <2>3, <2>4, StashSteps
<1> QED
  BY <1>1, OwnershipInvariant, TypeCorrect, PTL DEF TakenStaysTaken, Spec
=============================================================================
