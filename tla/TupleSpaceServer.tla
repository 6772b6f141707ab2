-------------------------- MODULE TupleSpaceServer --------------------------
(***************************************************************************)
(* The tuple space server (src/server): one thread that reads a datagram,  *)
(* runs the handler of its message, and sweeps the connections still       *)
(* waiting for an acknowledgement.                                         *)
(*                                                                         *)
(* The environment is open: at the head of the loop any message of any     *)
(* client may be read.  That covers every way UDP and the clients' retries *)
(* can lose, repeat, delay or reorder requests and acknowledgements.       *)
(*                                                                         *)
(* Memory is modelled where it can go wrong: the array of a received tuple *)
(* is a block of the heap, the stash and the connections hold pointers to  *)
(* blocks, and following a null or a freed pointer stops the server in a   *)
(* fault.  A freed block is handed out again only when nothing points to   *)
(* it any more, so that a stale pointer is always noticed.                 *)
(***************************************************************************)
EXTENDS TupleSpaceProtocol, SequencesExt

CONSTANTS
  Block,           \* heap blocks a received tuple can be stored in
  ClockPeriod,     \* server_current_time_ms wraps at this value
  ResendInterval,  \* MAX_ACK_AWAIT_TIME
  MaxResend,       \* MAX_ACK_REPLIES
  CounterMax,      \* the largest size_t, after which a metric wraps
  MaxPending       \* bound: a GET is read only while fewer entries than this
                   \* are connected or queued

ASSUME NullAssumption == NULL \notin Block \cup Tuple \cup Template

ASSUME NumbersAssumption ==
  /\ ClockPeriod \in Nat \ {0}
  /\ ResendInterval \in Nat
  /\ MaxResend \in Nat
  /\ CounterMax \in Nat
  /\ MaxPending \in Nat

VARIABLES
  pc,                        \* where the server thread is
  heap,                      \* Block -> the tuple stored there, NULL if free
  tuple_stash,               \* the tuples of the space, latest first
  tuple_queue,               \* the templates of waiting clients, latest first
  active_connections,        \* replies not acknowledged yet, latest first
  handler,                   \* the tuple process_out is placing, and its sender
  clock,                     \* what server_current_time_ms would return
  cursor, current_time,      \* locals of the sweep
  currently_stashed_tuples,  \* metrics
  currently_queued_tuples,
  sent                       \* messages the last step handed to the device

spaceVars   == <<heap, tuple_stash, tuple_queue, active_connections>>
metricsVars == <<currently_stashed_tuples, currently_queued_tuples>>
sweepVars   == <<cursor, current_time>>
vars == <<pc, spaceVars, handler, clock, sweepVars, metricsVars, sent>>

(***************************************************************************)
(* Records of the server's lists.  A tuple is passed around as a pointer   *)
(* and a size, in the code as here.                                        *)
(***************************************************************************)
Stashed == [data : Block, size : Nat]

Waiting == [template : Template, client : Client, remove : BOOLEAN]

\* Only a connection that holds a tuple asks for it to be put back.
Connection ==
  {node \in [client : Client, data : Block \cup {NULL}, size : Nat, counter : Nat,
             time : 0 .. ClockPeriod - 1, insert : BOOLEAN, ping : BOOLEAN] :
     node.insert => node.data # NULL}

Faults == {"null_dereference", "use_after_free"}

TypeOK ==
  /\ pc \in {"receive", "out", "resend", "sweep", "stopped"} \cup Faults
  /\ heap \in [Block -> Tuple \cup {NULL}]
  /\ tuple_stash \in Seq(Stashed)
  /\ tuple_queue \in Seq(Waiting)
  /\ active_connections \in Seq(Connection)
  /\ pc = "out" => handler \in [data : Block, size : Nat, sender : Client]
  /\ pc # "out" => handler = NULL
  /\ clock \in 0 .. ClockPeriod - 1
  /\ cursor \in Nat
  /\ current_time \in 0 .. ClockPeriod - 1
  /\ currently_stashed_tuples \in 0 .. CounterMax
  /\ currently_queued_tuples \in 0 .. CounterMax
  /\ sent \in Seq(Message)

Init ==
  /\ pc = "receive"
  /\ heap = [b \in Block |-> NULL]
  /\ tuple_stash = <<>>
  /\ tuple_queue = <<>>
  /\ active_connections = <<>>
  /\ handler = NULL
  /\ clock \in 0 .. ClockPeriod - 1
  /\ cursor = 0
  /\ current_time = 0
  /\ currently_stashed_tuples = 0
  /\ currently_queued_tuples = 0
  /\ sent = <<>>

-----------------------------------------------------------------------------
(***************************************************************************)
(* server_active_connections.c and server_tuple_space.c.  Every list is    *)
(* extended at its head and searched from there; size buckets separate     *)
(* what can match, so one list whose entries know their size stands for    *)
(* the array of buckets.                                                   *)
(***************************************************************************)
server_add_connection_node(list, client, data, size, insert, ping) ==
  Cons([client |-> client, data |-> data, size |-> size, counter |-> 0,
        time |-> clock, insert |-> insert, ping |-> ping], list)

\* The position server_remove_connection_node stops at.
OwnConnection(client, i) ==
  /\ active_connections[i].client = client
  /\ \A j \in 1 .. i - 1 : active_connections[j].client # client

\* The comparison of server_find_connection_node: the port with the ip.
FoundAsWritten(client, i) ==
  active_connections[i].client.ip = client.ip /\ active_connections[i].client.port = client.ip

server_insert_data_tuple(data, size) ==
  tuple_stash' = Cons([data |-> data, size |-> size], tuple_stash)

server_insert_template_tuple(template, client, remove) ==
  tuple_queue' = Cons([template |-> template, client |-> client, remove |-> remove],
                      tuple_queue)

\* Where the search of server_get_data_node stops: at a match, or at a tuple
\* that was freed behind the back of the stash.
Stops(template, entry) ==
  /\ entry.size = Len(template)
  /\ heap[entry.data] # NULL => ts_is_matching_tuple(template, heap[entry.data])

server_get_data_node(template, i) ==
  /\ Stops(template, tuple_stash[i])
  /\ \A j \in 1 .. i - 1 : ~Stops(template, tuple_stash[j])

\* The stash after remove_when_found, and as if it were ignored.
Unlinked_Ignored(i) == tuple_stash

Unlinked(i) == RemoveAt(tuple_stash, i)

NoDataNode(template) ==
  \A i \in DOMAIN tuple_stash : ~Stops(template, tuple_stash[i])

Matches_Swapped(entry, data, size) ==
  Len(entry.template) = size /\ ts_is_matching_tuple(heap[data], entry.template)

Matches(entry, data, size) ==
  Len(entry.template) = size /\ ts_is_matching_tuple(entry.template, heap[data])

server_get_template_node(data, size, i) ==
  /\ Matches(tuple_queue[i], data, size)
  /\ \A j \in 1 .. i - 1 : ~Matches(tuple_queue[j], data, size)

NoTemplateNode(data, size) ==
  \A i \in DOMAIN tuple_queue : ~Matches(tuple_queue[i], data, size)

\* Both freeing a tuple and sending it read its fields first: the fault that
\* this runs into.  A null pointer of size 0 is never followed.
PointerFault(data, size) ==
  IF data = NULL
  THEN IF size > 0 THEN {"null_dereference"} ELSE {}
  ELSE IF heap[data] = NULL THEN {"use_after_free"} ELSE {}

\* The heap ts_free_tuple leaves; freeing a null pointer does nothing.
Freed(data) == [b \in Block |-> IF b = data THEN NULL ELSE heap[b]]

\* A block malloc may return.
Unused(b) ==
  /\ heap[b] = NULL
  /\ \A i \in DOMAIN tuple_stash : tuple_stash[i].data # b
  /\ \A i \in DOMAIN active_connections : active_connections[i].data # b

\* ++ and -- on a size_t.
Incremented(count) == IF count = CounterMax THEN 0 ELSE count + 1
Decremented(count) == IF count = 0 THEN CounterMax ELSE count - 1

Reply(data, client) == [type |-> "tuple", to |-> client, tuple |-> heap[data]]

Fault(kind) ==
  /\ pc' = kind
  /\ sent' = <<>>
  /\ handler' = NULL

-----------------------------------------------------------------------------
(***************************************************************************)
(* Reading one datagram (ts_server_get_message) and its handler.           *)
(***************************************************************************)
HasRoom == Len(active_connections) + Len(tuple_queue) < MaxPending

\* Every handler ends by returning to the loop, which starts a sweep.
Return == pc' = "resend" /\ handler' = NULL

\* recv_cb returns nothing, or a message whose handler only counts it.
ReadNothing ==
  /\ pc = "receive"
  /\ Return
  /\ sent' = <<>>
  /\ UNCHANGED <<spaceVars, clock, sweepVars, metricsVars>>

\* The search of a GET TUPLE follows a pointer to a freed tuple.
ReadFreedTuple(kind, template) ==
  /\ pc = "receive" /\ HasRoom /\ kind \in Requests
  /\ \E i \in DOMAIN tuple_stash :
       /\ server_get_data_node(template, i)
       /\ heap[tuple_stash[i].data] = NULL
  /\ Fault("use_after_free")
  /\ UNCHANGED <<spaceVars, clock, sweepVars, metricsVars>>

\* IN and INP find a tuple: it leaves the stash and stays with the connection.
TakeTuple(kind, client, template) ==
  /\ pc = "receive" /\ HasRoom /\ kind \in Requests \cap {"in", "inp"}
  /\ \E i \in DOMAIN tuple_stash :
       LET entry == tuple_stash[i] IN
       /\ server_get_data_node(template, i)
       /\ heap[entry.data] # NULL
       /\ tuple_stash' = Unlinked(i)
       /\ active_connections' = server_add_connection_node(active_connections,
                                   client, entry.data, entry.size, TRUE, FALSE)
       /\ sent' = <<Reply(entry.data, client)>>
  /\ currently_stashed_tuples' = Decremented(currently_stashed_tuples)
  /\ Return
  /\ UNCHANGED <<heap, tuple_queue, clock, sweepVars, currently_queued_tuples>>

\* RD finds a tuple: the connection points to the tuple that stays stashed.
\* RDP adds the same connection twice.
CopyTuple(kind, client, template) ==
  /\ pc = "receive" /\ HasRoom /\ kind \in Requests \cap {"rd", "rdp"}
  /\ \E i \in DOMAIN tuple_stash :
       LET entry == tuple_stash[i]
           Add(list) == server_add_connection_node(list,
                          client, entry.data, entry.size, FALSE, FALSE)
       IN
       /\ server_get_data_node(template, i)
       /\ heap[entry.data] # NULL
       /\ active_connections' =
            IF kind = "rdp" THEN Add(Add(active_connections)) ELSE Add(active_connections)
       /\ sent' = <<Reply(entry.data, client)>>
  /\ Return
  /\ UNCHANGED <<heap, tuple_stash, tuple_queue, clock, sweepVars, metricsVars>>

\* The size recorded with a null tuple says what the client was answered:
\* 1 for "wait", 0 for "there is none".
AwaitSize_Same(kind) == 1

AwaitSize(kind) == IF kind \in {"in", "rd"} THEN 1 ELSE 0

\* IN and RD find nothing: the template is queued for a later OUT.
QueueTemplate(kind, client, template) ==
  /\ pc = "receive" /\ HasRoom /\ kind \in Requests \cap {"in", "rd"}
  /\ NoDataNode(template)
  /\ server_insert_template_tuple(template, client, kind = "in")
  /\ active_connections' = server_add_connection_node(active_connections,
                              client, NULL, AwaitSize(kind), FALSE, kind = "in")
  /\ currently_queued_tuples' = Incremented(currently_queued_tuples)
  /\ sent' = <<Tell("await", client)>>
  /\ Return
  /\ UNCHANGED <<heap, tuple_stash, clock, sweepVars, currently_stashed_tuples>>

\* INP and RDP find nothing: the client is told both that there is no tuple
\* and to wait for one.  RDP leaves two connections.
Refuse(kind, client, template) ==
  /\ pc = "receive" /\ HasRoom /\ kind \in Requests \cap {"inp", "rdp"}
  /\ NoDataNode(template)
  /\ LET Add(list) ==
           server_add_connection_node(list,
                          client, NULL, AwaitSize(kind), FALSE, kind = "inp")
     IN active_connections' =
          IF kind = "rdp" THEN Add(Add(active_connections)) ELSE Add(active_connections)
  /\ sent' = <<Tell("lack", client), Tell("await", client)>>
  /\ Return
  /\ UNCHANGED <<heap, tuple_stash, tuple_queue, clock, sweepVars, metricsVars>>

server_process_get(kind, client, template) ==
  \/ ReadFreedTuple(kind, template)
  \/ TakeTuple(kind, client, template)
  \/ CopyTuple(kind, client, template)
  \/ QueueTemplate(kind, client, template)
  \/ Refuse(kind, client, template)

\* A SEND TUPLE arrives: its array is allocated and process_out starts.
ReadTuple(client, tuple) ==
  /\ pc = "receive"
  /\ \E b \in Block :
       /\ Unused(b)
       /\ heap' = [heap EXCEPT ![b] = tuple]
       /\ handler' = [data |-> b, size |-> Len(tuple), sender |-> client]
  /\ pc' = "out"
  /\ sent' = <<>>
  /\ UNCHANGED <<tuple_stash, tuple_queue, active_connections, clock, sweepVars,
                 metricsVars>>

\* An acknowledgement drops the client's latest connection and its tuple.
server_ack_cb(client) ==
  /\ pc = "receive"
  /\ \E i \in DOMAIN active_connections :
       LET node == active_connections[i] IN
       /\ OwnConnection(client, i)
       /\ active_connections' = RemoveAt(active_connections, i)
       /\ \/ /\ \E kind \in PointerFault(node.data, node.size) : Fault(kind)
             /\ UNCHANGED heap
          \/ /\ PointerFault(node.data, node.size) = {}
             /\ heap' = Freed(node.data)
             /\ sent' = <<Tell("ack", client)>>
             /\ Return
  /\ UNCHANGED <<tuple_stash, tuple_queue, clock, sweepVars, metricsVars>>

\* One the server has no connection for is acknowledged all the same.
server_ack_cb_unknown(client) ==
  /\ pc = "receive"
  /\ \A i \in DOMAIN active_connections : active_connections[i].client # client
  /\ sent' = <<Tell("ack", client)>>
  /\ Return
  /\ UNCHANGED <<spaceVars, clock, sweepVars, metricsVars>>

-----------------------------------------------------------------------------
(***************************************************************************)
(* server_process_out: one step per iteration of its loop.                 *)
(***************************************************************************)
\* The connection is registered for the sender of the tuple, not for the
\* client that was waiting for it.
server_process_out_transform_await(data, size, sender, remove) ==
  LET found == {i \in DOMAIN active_connections : FoundAsWritten(sender, i)} IN
  active_connections' =
    IF found = {}
    THEN server_add_connection_node(active_connections, sender, data, size, ~remove, FALSE)
    ELSE LET i == Min(found) IN
         [active_connections EXCEPT
            ![i].ping = FALSE, ![i].insert = ~remove, ![i].size = size, ![i].data = data]

\* The tuple goes to the first waiting client whose template matches.  If
\* that was an IN, its array is freed and the handler returns.
RedirectTuple ==
  /\ pc = "out"
  /\ \E i \in DOMAIN tuple_queue :
       LET entry == tuple_queue[i] IN
       /\ server_get_template_node(handler.data, handler.size, i)
       /\ tuple_queue' = RemoveAt(tuple_queue, i)
       /\ sent' = <<Reply(handler.data, entry.client)>>
       /\ server_process_out_transform_await(handler.data, handler.size,
                                             handler.sender, entry.remove)
       /\ \/ /\ entry.remove
             /\ heap' = Freed(handler.data)
             /\ Return
          \/ /\ ~entry.remove
             /\ UNCHANGED <<heap, pc, handler>>
  /\ currently_queued_tuples' = Decremented(currently_queued_tuples)
  /\ UNCHANGED <<tuple_stash, clock, sweepVars, currently_stashed_tuples>>

\* No template matches: the tuple is stashed and its sender acknowledged.
SaveTuple ==
  /\ pc = "out"
  /\ NoTemplateNode(handler.data, handler.size)
  /\ server_insert_data_tuple(handler.data, handler.size)
  /\ currently_stashed_tuples' = Incremented(currently_stashed_tuples)
  /\ sent' = <<Tell("ack", handler.sender)>>
  /\ Return
  /\ UNCHANGED <<heap, tuple_queue, active_connections, clock, sweepVars,
                 currently_queued_tuples>>

-----------------------------------------------------------------------------
(***************************************************************************)
(* server_resend_tuple_for_connections: one step per connection that is    *)
(* due, cursor being the position the loop has reached.                    *)
(***************************************************************************)
BeginSweep ==
  /\ pc = "resend"
  /\ pc' = "sweep"
  /\ cursor' = 1
  /\ current_time' = clock
  /\ sent' = <<>>
  /\ UNCHANGED <<spaceVars, handler, clock, metricsVars>>

Due(node) == node.time + ResendInterval < current_time

NextDue(i) ==
  /\ i >= cursor
  /\ Due(active_connections[i])
  /\ \A j \in cursor .. i - 1 : ~Due(active_connections[j])

\* resend_counter++ == max_resend_count, and the comparison after the increment.
LastResend_OneTooMany(node) == node.counter = MaxResend + 1

LastResend(node) == node.counter = MaxResend

\* The step of the for loop.
Advance_Stays(i) == cursor' = i

Advance(i) == cursor' = i + 1

\* The reply is sent again and its age restarts; a lack of tuple recorded by
\* RDP has no fields, so that nothing is sent for it.
ResendTuple ==
  /\ pc = "sweep"
  /\ \E i \in DOMAIN active_connections :
       LET node == active_connections[i] IN
       /\ NextDue(i)
       /\ ~node.ping /\ ~LastResend(node)
       /\ \/ /\ \E kind \in PointerFault(node.data, node.size) : Fault(kind)
             /\ UNCHANGED <<active_connections, cursor>>
          \/ /\ PointerFault(node.data, node.size) = {}
             /\ sent' = IF node.size = 0 THEN <<>> ELSE <<Reply(node.data, node.client)>>
             /\ active_connections' = [active_connections EXCEPT
                                          ![i].counter = @ + 1, ![i].time = current_time]
             /\ Advance(i)
             /\ UNCHANGED <<pc, handler>>
  /\ UNCHANGED <<heap, tuple_stash, tuple_queue, clock, current_time, metricsVars>>

\* server_resend_tuple_remove_node: a tuple taken from the stash goes back to
\* it, any other is freed.
server_resend_tuple_remove_node(i) ==
  LET node == active_connections[i] IN
  /\ active_connections' = RemoveAt(active_connections, i)
  /\ \/ /\ node.insert
        /\ server_insert_data_tuple(node.data, node.size)
        /\ UNCHANGED heap
     \/ /\ ~node.insert
        /\ heap' = Freed(node.data)
        /\ UNCHANGED tuple_stash

\* After the last resend the connection is given up.  The loop then steps from
\* the removed link: it skips the next connection, and when there is none it
\* follows a null pointer.
RejectTuple ==
  /\ pc = "sweep"
  /\ \E i \in DOMAIN active_connections :
       LET node   == active_connections[i]
           faults == IF node.insert THEN {} ELSE PointerFault(node.data, node.size)
       IN
       /\ NextDue(i)
       /\ ~node.ping /\ LastResend(node)
       /\ server_resend_tuple_remove_node(i)
       /\ \/ /\ \E kind \in faults : Fault(kind)
             /\ UNCHANGED cursor
          \/ /\ faults = {} /\ i = Len(active_connections)
             /\ Fault("null_dereference")
             /\ UNCHANGED cursor
          \/ /\ faults = {} /\ i < Len(active_connections)
             /\ Advance(i)
             /\ sent' = <<>>
             /\ UNCHANGED <<pc, handler>>
  /\ UNCHANGED <<tuple_queue, clock, current_time, metricsVars>>

\* A client that waits, or was refused, is told so again.
RepeatAnswer ==
  /\ pc = "sweep"
  /\ \E i \in DOMAIN active_connections :
       LET node == active_connections[i] IN
       /\ NextDue(i)
       /\ node.ping
       /\ sent' = <<Tell(IF node.size > 0 THEN "await" ELSE "lack", node.client)>>
       /\ Advance(i)
  /\ UNCHANGED <<pc, spaceVars, handler, clock, current_time, metricsVars>>

EndSweep ==
  /\ pc = "sweep"
  /\ \A i \in DOMAIN active_connections : i >= cursor => ~Due(active_connections[i])
  /\ pc' = "receive"
  /\ cursor' = 0
  /\ current_time' = 0
  /\ sent' = <<>>
  /\ UNCHANGED <<spaceVars, handler, clock, metricsVars>>

-----------------------------------------------------------------------------
\* SIGINT is noticed at the head of the loop.
Stop ==
  /\ pc = "receive"
  /\ pc' = "stopped"
  /\ sent' = <<>>
  /\ UNCHANGED <<spaceVars, handler, clock, sweepVars, metricsVars>>

Halted == pc \in Faults \cup {"stopped"}

StayHalted == Halted /\ UNCHANGED vars

\* server_current_time_ms is the millisecond of the current second, not the
\* time since the epoch.
NextMs_SinceEpoch == clock + 1

NextMs == (clock + 1) % ClockPeriod

Tick ==
  /\ ~Halted
  /\ clock' = NextMs
  /\ sent' = <<>>
  /\ UNCHANGED <<pc, spaceVars, handler, sweepVars, metricsVars>>

ts_server_get_message ==
  \/ ReadNothing
  \/ \E c \in Client, t \in Tuple : ReadTuple(c, t)
  \/ \E kind \in RequestKinds, c \in Client, t \in Template : server_process_get(kind, c, t)
  \/ \E c \in Client : server_ack_cb(c) \/ server_ack_cb_unknown(c)

server_process_out == RedirectTuple \/ SaveTuple

server_resend_tuple_for_connections ==
  BeginSweep \/ ResendTuple \/ RejectTuple \/ RepeatAnswer \/ EndSweep

Next ==
  \/ ts_server_get_message
  \/ server_process_out
  \/ server_resend_tuple_for_connections
  \/ Stop
  \/ Tick
  \/ StayHalted

Spec == Init /\ [][Next]_vars

\* The only thread keeps running; nothing obliges a client to send.
FairSpec ==
  Spec /\ WF_vars(server_process_out) /\ WF_vars(server_resend_tuple_for_connections)

-----------------------------------------------------------------------------
(***************************************************************************)
(* Properties.                                                             *)
(***************************************************************************)
\* The pointers the server keeps: in the stash, in a connection, in process_out.
InStash(b)      == \E i \in DOMAIN tuple_stash : tuple_stash[i].data = b
InConnection(b) == \E i \in DOMAIN active_connections : active_connections[i].data = b
InHandler(b)    == pc = "out" /\ handler.data = b

\* No step of the server follows a null or a freed pointer.
MemorySafe == pc \notin Faults

\* Every tuple in memory has exactly one owner - the stash, one connection or
\* the handler - and no owner points to freed memory: what an INP takes is
\* neither lost, nor leaked, nor handed out twice, whatever is sent when.
SoleOwner ==
  /\ \A i \in DOMAIN tuple_stash :
       /\ heap[tuple_stash[i].data] # NULL
       /\ ~InConnection(tuple_stash[i].data)
       /\ ~InHandler(tuple_stash[i].data)
       /\ \A j \in DOMAIN tuple_stash :
            tuple_stash[i].data = tuple_stash[j].data => i = j
  /\ \A i \in DOMAIN active_connections :
       active_connections[i].data # NULL =>
         /\ heap[active_connections[i].data] # NULL
         /\ ~InHandler(active_connections[i].data)
         /\ \A j \in DOMAIN active_connections :
              active_connections[i].data = active_connections[j].data => i = j
  /\ \A b \in Block : heap[b] # NULL => InStash(b) \/ InConnection(b) \/ InHandler(b)

\* A tuple stays in memory while it is in the stash: a client that reads it
\* without removing it (RD, RDP) does not take it away from the others.
StashedTuplesLive == \A i \in DOMAIN tuple_stash : heap[tuple_stash[i].data] # NULL

\* No client is left waiting for a tuple that is in the space: a queued
\* template matches nothing in the stash (server_process_in, server_process_rd
\* against server_process_out).
StandingMatch ==
  \A i \in DOMAIN tuple_queue, j \in DOMAIN tuple_stash :
    heap[tuple_stash[j].data] # NULL =>
      ~(/\ Len(tuple_queue[i].template) = tuple_stash[j].size
        /\ ts_is_matching_tuple(tuple_queue[i].template, heap[tuple_stash[j].data]))

\* The gauges server_print_metrics prints count what the lists hold.
MetricsAgree ==
  /\ currently_stashed_tuples = Len(tuple_stash)
  /\ currently_queued_tuples = Len(tuple_queue)

\* No reply is ever sent a second time: with the interval as long as the
\* period of server_current_time_ms the sweep finds nothing due.
NoReplyResent == \A i \in DOMAIN active_connections : active_connections[i].counter = 0

\* No reply is sent again more than max_resend_count times.
ResendBounded ==
  \A i \in DOMAIN active_connections : active_connections[i].counter <= MaxResend

\* A tuple that left the stash with a client never comes back to it, even if
\* the client never acknowledges it.
TakenStaysTaken ==
  [][\A b \in Block : InConnection(b) /\ ~InStash(b) => ~InStash(b)']_vars

\* What the server started it finishes: process_out and the sweep end, and the
\* thread reads the next message, unless a fault stops it.
LoopContinues == pc \in {"out", "resend", "sweep"} ~> (pc = "receive" \/ Halted)
=============================================================================
