------------------------- MODULE LossySystemProofs -------------------------
(***************************************************************************)
(* What the composed system promises when datagrams may be lost, as a      *)
(* theorem: for every set of clients, their programs and number of calls,  *)
(* every number of repeats, and with any number of datagrams lost.         *)
(*                                                                         *)
(* The core is that a client and the server exchange one thing at a time:  *)
(* nothing carries an identification, so that an answer is known to belong *)
(* to its request only because nothing else of the client is under way.    *)
(***************************************************************************)
EXTENDS LossySystem, TupleSpaceSystemProofs

\* What one exchange at a time rests on: an answer comes within ack_await_time or
\* not at all, which the client waits for; only the server answers; and what
\* could not be sent is not under way.
OneAtATime == Timely /\ ~Strangers /\ ~SendMayFail /\ AckAwaitTime > 0

-----------------------------------------------------------------------------
(***************************************************************************)
(* The server's steps, as the clients see them.                            *)
(***************************************************************************)
\* The size that goes with a pointer is that of its tuple.
SizesRight ==
  /\ \A i \in DOMAIN tuple_stash : tuple_stash[i].size = Len(heap[tuple_stash[i].data])
  /\ pc = "out" => handler.size = Len(heap[handler.data])

ServerFacts ==
  TypeOK /\ tuple_queue = <<>> /\ Ownership /\ pc \notin Faults /\ SizesRight

LEMMA StashLive == TypeOK /\ Ownership => StashedTuplesLive
BY OwnershipIsSoleOwner DEF SoleOwner, StashedTuplesLive

LEMMA StashLiveNext == TypeOK' /\ Ownership' => StashedTuplesLive'
BY StashLive, PTL

\* What a step does to the heap keeps the tuples that stay in memory.
LEMMA StashedTuplesKept ==
  ASSUME OnlyInp, QuietRatio, TypeOK, tuple_queue = <<>>, Ownership, [Next]_vars, TypeOK',
         Ownership', UNCHANGED tuple_stash, NEW i \in DOMAIN tuple_stash
  PROVE  heap'[tuple_stash[i].data] = heap[tuple_stash[i].data]
<1>1. tuple_stash[i].data \in Block /\ heap'[tuple_stash[i].data] # NULL
  BY EntryTypes, StashLiveNext DEF StashedTuplesLive
<1>2. ASSUME NEW data, heap' = Freed(data)
      PROVE  heap'[tuple_stash[i].data] = heap[tuple_stash[i].data]
  BY <1>1, <1>2 DEF Freed
<1>3. ASSUME NEW b \in Block, NEW tuple \in Tuple, Unused(b), heap' = [heap EXCEPT ![b] = tuple]
      PROVE  heap'[tuple_stash[i].data] = heap[tuple_stash[i].data]
  BY <1>1, <1>3 DEF Unused, TypeOK
<1> QED
  BY <1>2, <1>3, HeapSteps

LEMMA SizesRightStep ==
  ASSUME OnlyInp, QuietRatio, ServerFacts, [Next]_vars, TypeOK', Ownership'
  PROVE  SizesRight'
<1> USE DEF ServerFacts
<1>1. \A i \in DOMAIN tuple_stash' : tuple_stash'[i].size = Len(heap'[tuple_stash'[i].data])
  <2>1. CASE UNCHANGED tuple_stash
    <3>1. \A i \in DOMAIN tuple_stash : heap'[tuple_stash[i].data] = heap[tuple_stash[i].data]
      BY <2>1, StashedTuplesKept
    <3> QED
      BY <2>1, <3>1 DEF SizesRight
  <2>2. ASSUME NEW k \in DOMAIN tuple_stash, tuple_stash' = RemoveAt(tuple_stash, k), UNCHANGED heap
        PROVE  \A i \in DOMAIN tuple_stash' :
                 tuple_stash'[i].size = Len(heap'[tuple_stash'[i].data])
    <3>1. tuple_stash \in Seq(Stashed)
      BY DEF TypeOK
    <3>2. \A i \in DOMAIN tuple_stash' : \E j \in DOMAIN tuple_stash : tuple_stash'[i] = tuple_stash[j]
      BY <2>2, <3>1, RemoveAtMembers
    <3> QED
      BY <2>2, <3>2 DEF SizesRight
  <2>3. CASE /\ pc = "out" /\ SaveTuple
             /\ tuple_stash' = Cons([data |-> handler.data, size |-> handler.size], tuple_stash)
    <3> DEFINE entry == [data |-> handler.data, size |-> handler.size]
    <3>1. tuple_stash \in Seq(Stashed) /\ entry \in Stashed
      BY <2>3 DEF TypeOK, Stashed
    <3>2. UNCHANGED heap
      BY <2>3 DEF SaveTuple
    <3>3. entry.size = Len(heap[entry.data])
      BY <2>3 DEF SizesRight
    <3> HIDE DEF entry
    <3>4. \A i \in DOMAIN tuple_stash' :
            \/ tuple_stash'[i] = entry
            \/ \E j \in DOMAIN tuple_stash : tuple_stash'[i] = tuple_stash[j]
      <4>1. tuple_stash' = Cons(entry, tuple_stash)
        BY <2>3 DEF entry
      <4> QED
        BY <3>1, <4>1, ConsMembers
    <3> QED
      BY <3>2, <3>3, <3>4 DEF SizesRight
  <2> QED
    BY <2>1, <2>2, <2>3, StashSteps
<1>2. pc' = "out" => handler'.size = Len(heap'[handler'.data])
  <2>1. ASSUME NEW c \in Client, NEW t \in Tuple, ReadTuple(c, t)
        PROVE  handler'.size = Len(heap'[handler'.data])
    BY <2>1 DEF ReadTuple, TypeOK
  <2>2. ~RedirectTuple
    BY DEF RedirectTuple
  <2>3. CASE UNCHANGED vars \/ Tick
    BY <2>3 DEF vars, spaceVars, Tick, SizesRight
  <2>4. ASSUME NEW kind, NEW c, NEW u, server_process_get(kind, c, u)
        PROVE  pc' # "out"
    BY <2>4 DEF server_process_get, ReadFreedTuple, TakeTuple, CopyTuple, QueueTemplate, Refuse,
                Return, Fault
  <2>5. \A c : server_ack_cb(c) => pc' # "out"
    BY DEF server_ack_cb, PointerFault, Fault, Return
  <2>6. ReadNothing \/ SaveTuple \/ (\E c \in Client : server_ack_cb_unknown(c))
          \/ BeginSweep \/ EndSweep \/ Stop => pc' # "out"
    BY DEF ReadNothing, SaveTuple, server_ack_cb_unknown, BeginSweep, EndSweep, Stop, Return
  <2> QED
    BY <2>1, <2>2, <2>3, <2>4, <2>5, <2>6, NothingDue
    DEF Next, ts_server_get_message, server_process_out, server_resend_tuple_for_connections,
        StayHalted
<1> QED
  BY <1>1, <1>2 DEF SizesRight

LEMMA ServerFactsInvariant ==
  ASSUME OnlyInp, QuietRatio
  PROVE  SystemSpec => []ServerFacts
<1>1. Init => SizesRight
  BY DEF Init, SizesRight
<1>2. ServerFacts /\ [Next]_vars /\ TypeOK' /\ Ownership' => SizesRight'
  BY SizesRightStep
<1> QED
  BY <1>1, <1>2, SystemRunsServer, TypeCorrect, OwnershipInvariant, AnsweredInvariant, PTL
  DEF Spec, ServerFacts

\* What a step does to the datagrams under way, to the space and to the histories.
Moves(d, S) ==
  /\ d \in BagToSet(net)
  /\ \A e : CopiesOf(e, net') =
              CopiesOf(e, net) - (IF e = d THEN 1 ELSE 0) + (IF e \in S THEN 1 ELSE 0)

Adds(S) == \A e : CopiesOf(e, net') = CopiesOf(e, net) + (IF e \in S THEN 1 ELSE 0)

SpaceKept == \A t \in Tuple : Copies(t)' = Copies(t)

NothingServed == \A x \in Client : PutFor(x) = <<>> /\ TakenFor(x) = <<>>

NobodyRefused == \A x \in Client : ~Contains(sent', Tell("lack", x))

Suits(u, t) == Len(u) = Len(t) /\ ts_is_matching_tuple(u, t)

\* A SEND TUPLE is read.
Accepts(c, t) ==
  /\ pc = "receive" /\ Moves(SendTuple(c, t), {})
  /\ pc' = "out" /\ handler'.sender = c /\ heap'[handler'.data] = t
  /\ SpaceKept /\ NothingServed /\ NobodyRefused

\* An INP takes a tuple.
Hands(c, u, t) ==
  /\ pc = "receive" /\ Moves(GetTuple(c, "inp", u), {Carrying(c, t)})
  /\ pc' = "resend"
  /\ Suits(u, t) /\ Copies(t) > 0
  /\ \A x \in Tuple : Copies(x)' = Copies(x) - (IF x = t THEN 1 ELSE 0)
  /\ \A x \in Client : PutFor(x) = <<>> /\ TakenFor(x) = IF x = c THEN <<t>> ELSE <<>>
  /\ NobodyRefused

\* An INP is refused.
Refuses(c, u) ==
  /\ pc = "receive" /\ Moves(GetTuple(c, "inp", u), {Tell("lack", c), Tell("await", c)})
  /\ pc' = "resend"
  /\ \A t \in Tuple : Copies(t) > 0 => ~Suits(u, t)
  /\ SpaceKept /\ NothingServed
  /\ \A x \in Client : Contains(sent', Tell("lack", x)) <=> x = c

\* An acknowledgement is acknowledged.
Confirms(c) ==
  /\ pc = "receive" /\ Moves(ReceivedMsg(c), {Tell("ack", c)})
  /\ pc' = "resend"
  /\ SpaceKept /\ NothingServed /\ NobodyRefused

\* The tuple is stashed.
Saves(c, t) ==
  /\ pc = "out" /\ handler.sender = c /\ heap[handler.data] = t /\ Adds({Tell("ack", c)})
  /\ pc' = "resend"
  /\ \A x \in Tuple : Copies(x)' = Copies(x) + (IF x = t THEN 1 ELSE 0)
  /\ \A x \in Client : PutFor(x) = (IF x = c THEN <<t>> ELSE <<>>) /\ TakenFor(x) = <<>>
  /\ NobodyRefused

\* The sweep finds nothing due.
Rests ==
  /\ pc \in {"resend", "sweep"} /\ pc' \in {"sweep", "receive"} /\ Adds({})
  /\ SpaceKept /\ NothingServed /\ NobodyRefused

LEMMA DeliverMoves ==
  ASSUME NetType, NEW d \in BagToSet(net), Deliver(net (-) SetToBag({d}))
  PROVE  Moves(d, ToSet(sent'))
BY NetReadsAndSends DEF Deliver, Moves

LEMMA DeliverAdds ==
  ASSUME NetType, Deliver(net)
  PROVE  Adds(ToSet(sent'))
BY BagGains DEF Deliver, NetType, Adds

LEMMA StashKept ==
  ASSUME OnlyInp, QuietRatio, ServerFacts, ServerFacts', [Next]_vars, UNCHANGED tuple_stash
  PROVE  SpaceKept /\ NothingServed
<1>1. \A i \in DOMAIN tuple_stash : heap'[tuple_stash[i].data] = heap[tuple_stash[i].data]
  BY StashedTuplesKept DEF ServerFacts
<1>2. SpaceKept
  BY <1>1 DEF SpaceKept, Copies
<1>3. Len(tuple_stash) \in Nat
  BY DEF ServerFacts, TypeOK
<1>4. NothingServed
  BY <1>3 DEF NothingServed, PutFor, TakenFor
<1> QED
  BY <1>2, <1>4

\* Only a refusal says "lack".
LEMMA SaysNothing == sent' = <<>> => NobodyRefused /\ ToSet(sent') = {}
BY DEF NobodyRefused, Contains, ToSet

LEMMA SaysOne ==
  ASSUME NEW d, sent' = <<d>>, d.type # "lack"
  PROVE  NobodyRefused /\ ToSet(sent') = {d}
BY DEF NobodyRefused, Contains, ToSet, Tell

LEMMA CopiesPositive ==
  ASSUME ServerFacts, NEW t
  PROVE  Copies(t) > 0 <=> \E i \in DOMAIN tuple_stash : heap[tuple_stash[i].data] = t
<1> DEFINE where == {i \in DOMAIN tuple_stash : heap[tuple_stash[i].data] = t}
<1>1. tuple_stash \in Seq(Stashed)
  BY DEF ServerFacts, TypeOK
<1>2. where \in SUBSET (1 .. Len(tuple_stash)) /\ Len(tuple_stash) \in Nat
  BY <1>1
<1>3. Copies(t) = Cardinality(where)
  BY DEF Copies
<1>4. where = {} <=> ~\E i \in DOMAIN tuple_stash : heap[tuple_stash[i].data] = t
  OBVIOUS
<1> HIDE DEF where
<1>5. IsFiniteSet(1 .. Len(tuple_stash))
  BY <1>2, FS_Interval
<1>6. IsFiniteSet(where)
  BY <1>2, <1>5, FS_Subset
<1>7. Cardinality(where) \in Nat
  BY <1>6, FS_CardinalityType
<1>8. Cardinality(where) = 0 <=> where = {}
  BY <1>6, FS_EmptySet
<1> QED
  BY <1>3, <1>4, <1>7, <1>8

\* INP finds a tuple that suits it and takes it.
LEMMA TakeHands ==
  ASSUME OnlyInp, QuietRatio, ServerFacts, ServerFacts', NetType, NEW c \in Client,
         NEW u \in Template, GetTuple(c, "inp", u) \in BagToSet(net), TakeTuple("inp", c, u),
         Deliver(net (-) SetToBag({GetTuple(c, "inp", u)}))
  PROVE  \E t \in Tuple : Hands(c, u, t)
<1> USE DEF ServerFacts
<1>1. PICK i \in DOMAIN tuple_stash :
        /\ pc = "receive" /\ pc' = "resend" /\ UNCHANGED heap
        /\ server_get_data_node(u, i) /\ heap[tuple_stash[i].data] # NULL
        /\ tuple_stash' = RemoveAt(tuple_stash, i)
        /\ active_connections' = server_add_connection_node(active_connections, c,
             tuple_stash[i].data, tuple_stash[i].size, TRUE, FALSE)
        /\ sent' = <<Reply(tuple_stash[i].data, c)>>
  BY DEF TakeTuple, Unlinked, Return
<1> DEFINE t == heap[tuple_stash[i].data]
<1>2. tuple_stash[i].data \in Block /\ tuple_stash[i].size \in Nat
  BY EntryTypes
<1>3. t \in Tuple /\ Suits(u, t)
  BY <1>1, <1>2 DEF TypeOK, server_get_data_node, Stops, Suits, SizesRight
<1>4. Copies(t) > 0
  BY CopiesPositive
<1>5. \A x \in Tuple : Copies(x)' = Copies(x) - (IF x = t THEN 1 ELSE 0)
  BY <1>1, CopiesUnlinked
<1>6. Len(tuple_stash') < Len(tuple_stash)
  <2>1. tuple_stash \in Seq(Stashed) /\ Len(tuple_stash) \in Nat
    BY DEF TypeOK
  <2>2. Len(RemoveAt(tuple_stash, i)) = Len(tuple_stash) - 1
    BY <2>1, RemoveAtProperties
  <2> QED
    BY <1>1, <2>1, <2>2
<1>7. active_connections'[1].client = c /\ active_connections'[1].data = tuple_stash[i].data
  <2> DEFINE node == [client |-> c, data |-> tuple_stash[i].data, size |-> tuple_stash[i].size,
                      counter |-> 0, time |-> clock, insert |-> TRUE, ping |-> FALSE]
  <2>1. node \in Connection
    BY <1>2, NullAssumption DEF TypeOK, Connection
  <2>2. active_connections' = Cons(node, active_connections)
    BY <1>1 DEF server_add_connection_node
  <2>3. active_connections \in Seq(Connection)
    BY DEF TypeOK
  <2>4. node.client = c /\ node.data = tuple_stash[i].data
    OBVIOUS
  <2> HIDE DEF node
  <2>5. Cons(node, active_connections)[1] = node
    BY <2>1, <2>3, ConsProperties
  <2> QED
    BY <2>2, <2>4, <2>5
<1>8. \A x \in Client : PutFor(x) = <<>> /\ TakenFor(x) = IF x = c THEN <<t>> ELSE <<>>
  BY <1>1, <1>6, <1>7 DEF PutFor, TakenFor
<1>9. sent' = <<Carrying(c, t)>> /\ Carrying(c, t).type # "lack"
  BY <1>1 DEF Reply, Carrying
<1>10. NobodyRefused /\ Moves(GetTuple(c, "inp", u), {Carrying(c, t)})
  BY <1>9, SaysOne, DeliverMoves
<1> HIDE DEF t
<1> QED
  BY <1>1, <1>3, <1>4, <1>5, <1>8, <1>10 DEF Hands

\* INP finds none that suits it.
LEMMA RefuseRefuses ==
  ASSUME OnlyInp, QuietRatio, ServerFacts, ServerFacts', NetType, [Next]_vars, NEW c \in Client,
         NEW u \in Template, GetTuple(c, "inp", u) \in BagToSet(net), Refuse("inp", c, u),
         Deliver(net (-) SetToBag({GetTuple(c, "inp", u)}))
  PROVE  Refuses(c, u)
<1>1. /\ pc = "receive" /\ pc' = "resend" /\ UNCHANGED tuple_stash /\ NoDataNode(u)
      /\ sent' = <<Tell("lack", c), Tell("await", c)>>
  BY DEF Refuse, Return
<1>2. ToSet(sent') = {Tell("lack", c), Tell("await", c)}
  BY <1>1 DEF ToSet
<1>3. \A x \in Client : Contains(sent', Tell("lack", x)) <=> x = c
  BY <1>1 DEF Contains, Tell
<1>4. ASSUME NEW t \in Tuple, Copies(t) > 0, Suits(u, t)
      PROVE  FALSE
  <2>1. PICK i \in DOMAIN tuple_stash : heap[tuple_stash[i].data] = t
    BY <1>4, CopiesPositive
  <2>2. tuple_stash[i].size = Len(t)
    BY <2>1 DEF ServerFacts, SizesRight
  <2> QED
    BY <1>1, <1>4, <2>1, <2>2 DEF NoDataNode, Stops, Suits
<1>5. SpaceKept /\ NothingServed
  BY <1>1, StashKept
<1>6. Moves(GetTuple(c, "inp", u), {Tell("lack", c), Tell("await", c)})
  BY <1>2, DeliverMoves
<1> QED
  BY <1>1, <1>3, <1>4, <1>5, <1>6 DEF Refuses

\* OUT stashes its tuple: no template waits for it.
LEMMA SaveSaves ==
  ASSUME OnlyInp, QuietRatio, ServerFacts, ServerFacts', NetType, SaveTuple, Deliver(net)
  PROVE  \E c \in Client, t \in Tuple : Saves(c, t)
<1> USE DEF ServerFacts
<1> DEFINE c == handler.sender
           t == heap[handler.data]
           entry == [data |-> handler.data, size |-> handler.size]
<1>1. /\ pc = "out" /\ pc' = "resend" /\ UNCHANGED heap
      /\ tuple_stash' = Cons(entry, tuple_stash) /\ sent' = <<Tell("ack", c)>>
  BY DEF SaveTuple, Return, server_insert_data_tuple
<1>2. c \in Client /\ handler.data \in Block /\ handler.size \in Nat
  BY <1>1 DEF TypeOK
<1>3. t \in Tuple
  <2>1. InHandler(handler.data)
    BY <1>1 DEF InHandler
  <2> QED
    BY <1>2, <2>1 DEF Ownership, TypeOK
<1>4. entry \in Stashed /\ entry.data = handler.data
  BY <1>2 DEF Stashed
<1>5. tuple_stash \in Seq(Stashed) /\ Len(tuple_stash) \in Nat
  BY DEF TypeOK
<1>6. Len(tuple_stash') > Len(tuple_stash) /\ ~(Len(tuple_stash') < Len(tuple_stash))
  <2> HIDE DEF entry
  <2>1. Len(Cons(entry, tuple_stash)) = Len(tuple_stash) + 1
    BY <1>4, <1>5, ConsProperties
  <2> QED
    BY <1>1, <1>5, <2>1
<1>7. \A x \in Tuple : Copies(x)' = Copies(x) + (IF x = t THEN 1 ELSE 0)
  BY <1>1, <1>4, CopiesLinked
<1>8. \A x \in Client : PutFor(x) = (IF x = c THEN <<t>> ELSE <<>>) /\ TakenFor(x) = <<>>
  BY <1>1, <1>6 DEF PutFor, TakenFor
<1>9. NobodyRefused /\ ToSet(sent') = {Tell("ack", c)}
  <2>1. Tell("ack", c).type # "lack"
    BY DEF Tell
  <2> QED
    BY <1>1, <2>1, SaysOne
<1>10. Adds({Tell("ack", c)})
  BY <1>9, DeliverAdds
<1>11. Saves(c, t)
  BY <1>1, <1>7, <1>8, <1>9, <1>10 DEF Saves
<1> QED
  BY <1>2, <1>3, <1>11

LEMMA ServerActs ==
  ASSUME OnlyInp, QuietRatio, ServerFacts, ServerFacts', NetType, ServerWorks
  PROVE  \/ \E c \in Client, t \in Tuple : Accepts(c, t) \/ Saves(c, t)
         \/ \E c \in Client, u \in Template, t \in Tuple : Hands(c, u, t)
         \/ \E c \in Client, u \in Template : Refuses(c, u)
         \/ \E c \in Client : Confirms(c)
         \/ Rests
<1>1. [Next]_vars
  BY SystemStepIsServerStep DEF SystemNext
<1>2. CASE ReadSend
  <2>1. PICK c \in Client, t \in Tuple :
          /\ SendTuple(c, t) \in BagToSet(net) /\ ReadTuple(c, t)
          /\ Deliver(net (-) SetToBag({SendTuple(c, t)}))
    BY <1>2 DEF ReadSend, Arrived
  <2>2. /\ pc = "receive" /\ pc' = "out" /\ handler'.sender = c /\ heap'[handler'.data] = t
        /\ UNCHANGED tuple_stash /\ sent' = <<>>
    BY <2>1 DEF ReadTuple, ServerFacts, TypeOK
  <2>3. Accepts(c, t)
    BY <1>1, <2>1, <2>2, StashKept, SaysNothing, DeliverMoves DEF Accepts
  <2> QED
    BY <2>3
<1>3. CASE ReadGet
  <2>1. PICK c \in Client, kind \in Requests, u \in Template :
          /\ GetTuple(c, kind, u) \in BagToSet(net) /\ server_process_get(kind, c, u)
          /\ Deliver(net (-) SetToBag({GetTuple(c, kind, u)}))
    BY <1>3 DEF ReadGet, Arrived
  <2>2. kind = "inp"
    BY DEF OnlyInp
  <2>3. TakeTuple("inp", c, u) \/ Refuse("inp", c, u)
    <3>1. ~ReadFreedTuple(kind, u)
      BY DEF ReadFreedTuple, Fault, ServerFacts, Faults
    <3>2. ~CopyTuple(kind, c, u) /\ ~QueueTemplate(kind, c, u)
      BY <2>2 DEF CopyTuple, QueueTemplate
    <3> QED
      BY <2>1, <2>2, <3>1, <3>2 DEF server_process_get
  <2>4. (\E t \in Tuple : Hands(c, u, t)) \/ Refuses(c, u)
    BY <1>1, <2>1, <2>2, <2>3, TakeHands, RefuseRefuses
  <2> QED
    BY <2>4
<1>4. CASE ReadAck
  <2>1. PICK c \in Client :
          /\ ReceivedMsg(c) \in BagToSet(net)
          /\ server_ack_cb(c) \/ server_ack_cb_unknown(c)
          /\ Deliver(net (-) SetToBag({ReceivedMsg(c)}))
    BY <1>4 DEF ReadAck, Arrived
  <2>2. pc = "receive" /\ pc' = "resend" /\ UNCHANGED tuple_stash /\ sent' = <<Tell("ack", c)>>
    <3>1. CASE server_ack_cb(c)
      BY <3>1 DEF server_ack_cb, Fault, Return, PointerFault, ServerFacts, Faults
    <3>2. CASE server_ack_cb_unknown(c)
      BY <3>2 DEF server_ack_cb_unknown, Return, spaceVars
    <3> QED
      BY <2>1, <3>1, <3>2
  <2>3. Tell("ack", c).type # "lack"
    BY DEF Tell
  <2>4. Confirms(c)
    BY <1>1, <2>1, <2>2, <2>3, StashKept, SaysOne, DeliverMoves DEF Confirms
  <2> QED
    BY <2>4
<1>5. CASE PlaceTuple
  <2>1. ~RedirectTuple
    BY DEF RedirectTuple, ServerFacts
  <2> QED
    BY <1>5, <2>1, SaveSaves DEF PlaceTuple
<1>6. CASE Sweep
  <2>1. BeginSweep \/ EndSweep
    BY <1>6, NothingDue DEF Sweep, server_resend_tuple_for_connections, ServerFacts
  <2>2. /\ pc \in {"resend", "sweep"} /\ pc' \in {"sweep", "receive"}
        /\ UNCHANGED tuple_stash /\ sent' = <<>>
    BY <2>1 DEF BeginSweep, EndSweep, spaceVars
  <2>3. Deliver(net)
    BY <1>6 DEF Sweep
  <2> QED
    BY <1>1, <2>2, <2>3, StashKept, SaysNothing, DeliverAdds DEF Rests
<1> QED
  BY <1>2, <1>3, <1>4, <1>5, <1>6 DEF ServerWorks

-----------------------------------------------------------------------------
(***************************************************************************)
(* One exchange at a time.                                                 *)
(***************************************************************************)
\* What may be under way between the server and a client: what the client sent,
\* unless nobody reads it any more, and the server's answers.
Traffic(c) ==
       {d \in ToServer : ~Halted /\ d.from = c}
  \cup {d \in Message : d.to = c /\ d.type # "await"}

\* At most one of S is under way, of an S that has one member at most.
Only(c, S) == \A e \in Traffic(c) : CopiesOf(e, net) <= IF e \in S THEN 1 ELSE 0

Working(c) == pc = "out" /\ handler.sender = c

AnswerTo(c, d) ==
  IF request[c].kind = "out"
  THEN d = Tell("ack", c)
  ELSE \/ d = Tell("lack", c)
       \/ \E t \in Tuple : Suits(Span(request[c]), t) /\ d = Carrying(c, t)

OfExchange(c, d) ==
  \/ client_pc[c] = "await" /\ (d = Request(c) \/ AnswerTo(c, d))
  \/ client_pc[c] = "await_ack" /\ d \in {ReceivedMsg(c), Tell("ack", c)}

OneExchange(c) ==
  \/ ~Working(c) /\ Only(c, {})
  \/ /\ Working(c) /\ Only(c, {})
     /\ client_pc[c] = "await"
     /\ request[c].kind = "out" /\ heap[handler.data] = Span(request[c])
  \/ ~Working(c) /\ \E d : Only(c, {d}) /\ OfExchange(c, d)

NoStrangers == BagToSet(net) \subseteq ToServer \cup Message

ContextFits(c) ==
  client_pc[c] \in {"ack", "await_ack"} =>
    request[c].kind # "out" /\ \E d : AnswerTo(c, d) /\ context[c] = Recorded(d)

LEMMA TwoWays ==
  /\ \A d \in ToServer : "from" \in DOMAIN d /\ "to" \notin DOMAIN d
  /\ \A d \in Message : "to" \in DOMAIN d /\ "from" \notin DOMAIN d
  /\ ToServer \cap Message = {}
<1>1. \A d \in ToServer : "from" \in DOMAIN d /\ "to" \notin DOMAIN d
  BY DEF ToServer, SendTuple, GetTuple, ReceivedMsg
<1>2. \A d \in Message : "to" \in DOMAIN d /\ "from" \notin DOMAIN d
  BY DEF Message
<1> QED
  BY <1>1, <1>2

\* Whose a datagram is.
LEMMA Mine ==
  ASSUME NEW c \in Client
  PROVE  /\ \A t \in Tuple : SendTuple(c, t) \in ToServer /\ SendTuple(c, t).from = c
         /\ \A u \in Template, k \in Requests :
              GetTuple(c, k, u) \in ToServer /\ GetTuple(c, k, u).from = c
         /\ ReceivedMsg(c) \in ToServer /\ ReceivedMsg(c).from = c
         /\ \A t \in Tuple : /\ Carrying(c, t) \in Message
                             /\ Carrying(c, t).to = c /\ Carrying(c, t).type = "tuple"
         /\ \A type \in {"lack", "await", "ack"} :
              Tell(type, c) \in Message /\ Tell(type, c).to = c /\ Tell(type, c).type = type
BY DEF SendTuple, GetTuple, ReceivedMsg, Carrying, Tell, ToServer, Message

\* A datagram of one client is not traffic of another.
LEMMA NotMine ==
  ASSUME NEW c \in Client, NEW x \in Client, x # c, NEW d,
         \/ d \in ToServer /\ d.from = c
         \/ d \in Message /\ d.to = c
  PROVE  d \notin Traffic(x)
BY TwoWays DEF Traffic

LEMMA ExchangeKept ==
  ASSUME NetType, NetType', NEW c \in Client, OneExchange(c),
         client_pc'[c] = client_pc[c], request'[c] = request[c], Halted => Halted',
         \A e \in Traffic(c) : CopiesOf(e, net') <= CopiesOf(e, net),
         Working(c) <=> Working(c)', Working(c) => heap'[handler'.data] = heap[handler.data]
  PROVE  OneExchange(c)'
<1>1. Traffic(c)' \subseteq Traffic(c)
  BY DEF Traffic
<1>2. \A e : CopiesOf(e, net) \in Nat /\ CopiesOf(e, net') \in Nat
  BY CopiesType DEF NetType
<1>3. \A S : Only(c, S) => Only(c, S)'
  BY <1>1, <1>2 DEF Only
<1>4. \A d : OfExchange(c, d) => OfExchange(c, d)'
  BY DEF OfExchange, AnswerTo, Request
<1>5. CASE ~Working(c) /\ Only(c, {})
  BY <1>3, <1>5 DEF OneExchange
<1>6. CASE /\ Working(c) /\ Only(c, {})
           /\ client_pc[c] = "await"
           /\ request[c].kind = "out" /\ heap[handler.data] = Span(request[c])
  BY <1>3, <1>6 DEF OneExchange
<1>7. CASE ~Working(c) /\ \E d : Only(c, {d}) /\ OfExchange(c, d)
  <2>1. PICK d : Only(c, {d}) /\ OfExchange(c, d)
    BY <1>7
  <2>2. Only(c, {d})' /\ OfExchange(c, d)'
    BY <1>3, <1>4, <2>1
  <2> QED
    BY <1>7, <2>2 DEF OneExchange
<1> QED
  BY <1>5, <1>6, <1>7 DEF OneExchange

\* What arrives is all there is.
LEMMA ExchangeOf ==
  ASSUME NetType, NEW c \in Client, OneExchange(c), NEW d \in BagToSet(net), d \in Traffic(c)
  PROVE  Only(c, {d}) /\ ~Working(c) /\ OfExchange(c, d)
<1>1. CopiesOf(d, net) \in Nat /\ CopiesOf(d, net) > 0
  BY CopiesType DEF NetType
<1>2. ~Only(c, {})
  BY <1>1 DEF Only
<1>3. PICK e : Only(c, {e}) /\ OfExchange(c, e) /\ ~Working(c)
  BY <1>2 DEF OneExchange
<1>4. d = e
  BY <1>1, <1>3 DEF Only
<1> QED
  BY <1>3, <1>4

\* The last of it leaves.
LEMMA ExchangeEnds ==
  ASSUME NetType, NetType', NEW c \in Client, NEW d, Only(c, {d}), Halted => Halted',
         \A e \in Traffic(c) : CopiesOf(e, net') = CopiesOf(e, net) - (IF e = d THEN 1 ELSE 0)
  PROVE  Only(c, {})'
<1>1. Traffic(c)' \subseteq Traffic(c)
  BY DEF Traffic
<1>2. \A e : CopiesOf(e, net) \in Nat /\ CopiesOf(e, net') \in Nat
  BY CopiesType DEF NetType
<1> QED
  BY <1>1, <1>2 DEF Only

LEMMA ExchangeAnswered ==
  ASSUME NetType, NetType', NEW c \in Client, NEW d, Only(c, {d}), Halted => Halted', NEW a,
         \A e \in Traffic(c) :
           CopiesOf(e, net') =
             CopiesOf(e, net) - (IF e = d THEN 1 ELSE 0) + (IF e = a THEN 1 ELSE 0)
  PROVE  Only(c, {a})'
<1>1. Traffic(c)' \subseteq Traffic(c)
  BY DEF Traffic
<1>2. \A e : CopiesOf(e, net) \in Nat /\ CopiesOf(e, net') \in Nat
  BY CopiesType DEF NetType
<1> QED
  BY <1>1, <1>2 DEF Only

LEMMA ExchangeBegins ==
  ASSUME NetType, NetType', NEW c \in Client, Only(c, {}), Halted => Halted', NEW a,
         \A e \in Traffic(c) : CopiesOf(e, net') = CopiesOf(e, net) + (IF e = a THEN 1 ELSE 0)
  PROVE  Only(c, {a})'
<1>1. Traffic(c)' \subseteq Traffic(c)
  BY DEF Traffic
<1>2. \A e : CopiesOf(e, net) \in Nat /\ CopiesOf(e, net') \in Nat
  BY CopiesType DEF NetType
<1> QED
  BY <1>1, <1>2 DEF Only

\* The server's steps.
ServerLeavesClients == UNCHANGED <<client_pc, request, context, repeats, result, calls>>

LEMMA AcceptsExchange ==
  ASSUME NetType, NetType', ServerLeavesClients, NEW c \in Client, OneExchange(c),
         NEW x \in Client, NEW t \in Tuple, Accepts(x, t)
  PROVE  OneExchange(c)'
<1> DEFINE d == SendTuple(x, t)
<1>1. /\ pc = "receive" /\ pc' = "out" /\ handler'.sender = x /\ heap'[handler'.data] = t
      /\ d \in BagToSet(net)
      /\ \A e : CopiesOf(e, net') = CopiesOf(e, net) - (IF e = d THEN 1 ELSE 0)
  BY CopiesType DEF Accepts, Moves, NetType
<1>2. ~Halted /\ ~Halted' /\ ~Working(c)
  BY <1>1 DEF Halted, Faults, Working
<1>3. CASE x # c
  <2>1. \A e : CopiesOf(e, net) \in Nat
    BY CopiesType DEF NetType
  <2>2. \A e \in Traffic(c) : CopiesOf(e, net') <= CopiesOf(e, net)
    BY <1>1, <2>1
  <2>3. ~Working(c)'
    BY <1>1, <1>3 DEF Working
  <2> QED
    BY <1>2, <2>2, <2>3, ExchangeKept DEF ServerLeavesClients
<1>4. CASE x = c
  <2>1. d \in Traffic(c)
    BY <1>2, <1>4, Mine DEF Traffic
  <2>2. Only(c, {d}) /\ OfExchange(c, d)
    BY <1>1, <2>1, ExchangeOf
  <2>3. client_pc[c] = "await" /\ d = Request(c)
    BY <2>2 DEF OfExchange, AnswerTo, SendTuple, Tell, Carrying, ReceivedMsg
  <2>4. request[c].kind = "out" /\ Span(request[c]) = t
    BY <2>3 DEF Request, SendTuple, GetTuple
  <2>5. Only(c, {})'
    BY <1>1, <1>2, <2>2, ExchangeEnds
  <2>6. Working(c)'
    BY <1>1, <1>4 DEF Working
  <2>7. client_pc'[c] = "await" /\ request'[c].kind = "out" /\ Span(request[c])' = t
    BY <2>3, <2>4 DEF ServerLeavesClients, Span
  <2> QED
    BY <1>1, <2>5, <2>6, <2>7 DEF OneExchange
<1> QED
  BY <1>3, <1>4

\* An answer takes the place of what it answers.
LEMMA AnswersExchange ==
  ASSUME NetType, NetType', ServerLeavesClients, NEW c \in Client, OneExchange(c),
         ~Halted, ~Halted', pc # "out", pc' # "out", NEW x \in Client,
         NEW d \in ToServer, d.from = x, NEW a \in Message, a.to = x, a.type # "await",
         OfExchange(x, d) => OfExchange(x, a), d \in BagToSet(net),
         \A e \in Traffic(c) :
           CopiesOf(e, net') =
             CopiesOf(e, net) - (IF e = d THEN 1 ELSE 0) + (IF e = a THEN 1 ELSE 0)
  PROVE  OneExchange(c)'
<1>1. ~Working(c) /\ ~Working(c)'
  BY DEF Working
<1>2. CASE x # c
  <2>1. d \notin Traffic(c) /\ a \notin Traffic(c)
    BY <1>2, NotMine
  <2>2. \A e : CopiesOf(e, net) \in Nat
    BY CopiesType DEF NetType
  <2>3. \A e \in Traffic(c) : CopiesOf(e, net') <= CopiesOf(e, net)
    BY <2>1, <2>2
  <2> QED
    BY <1>1, <2>3, ExchangeKept DEF ServerLeavesClients
<1>3. CASE x = c
  <2>1. d \in Traffic(c)
    BY <1>3 DEF Traffic
  <2>2. Only(c, {d}) /\ OfExchange(c, d)
    BY <2>1, ExchangeOf
  <2>3. OfExchange(c, a)'
    BY <1>3, <2>2 DEF OfExchange, AnswerTo, Request, ServerLeavesClients
  <2>4. Only(c, {a})'
    BY <2>2, ExchangeAnswered
  <2> QED
    BY <1>1, <2>3, <2>4 DEF OneExchange
<1> QED
  BY <1>2, <1>3

LEMMA HandsExchange ==
  ASSUME NetType, NetType', ServerLeavesClients, NEW c \in Client, OneExchange(c), "inp" \in Requests,
         NEW x \in Client, NEW u \in Template, NEW t \in Tuple, Hands(x, u, t)
  PROVE  OneExchange(c)'
<1> DEFINE d == GetTuple(x, "inp", u)
           a == Carrying(x, t)
<1>1. /\ pc = "receive" /\ pc' = "resend" /\ Suits(u, t) /\ d \in BagToSet(net)
      /\ \A e : CopiesOf(e, net') =
                  CopiesOf(e, net) - (IF e = d THEN 1 ELSE 0) + (IF e = a THEN 1 ELSE 0)
  BY DEF Hands, Moves
<1>2. ~Halted /\ ~Halted'
  BY <1>1 DEF Halted, Faults
<1>3. /\ d \in ToServer /\ d.from = x
      /\ a \in Message /\ a.to = x /\ a.type # "await"
  BY Mine
<1>4. OfExchange(x, d) => OfExchange(x, a)
  <2> SUFFICES ASSUME OfExchange(x, d) PROVE OfExchange(x, a)
    OBVIOUS
  <2>1. client_pc[x] = "await" /\ d = Request(x)
    BY DEF OfExchange, AnswerTo, GetTuple, Tell, Carrying, ReceivedMsg
  <2>2. request[x].kind # "out" /\ Span(request[x]) = u
    BY <2>1 DEF Request, SendTuple, GetTuple
  <2> QED
    BY <1>1, <2>1, <2>2 DEF OfExchange, AnswerTo
<1> QED
  BY <1>1, <1>2, <1>3, <1>4, AnswersExchange

LEMMA RefusesExchange ==
  ASSUME NetType, NetType', ServerLeavesClients, NEW c \in Client, OneExchange(c), "inp" \in Requests,
         NEW x \in Client, NEW u \in Template, Refuses(x, u)
  PROVE  OneExchange(c)'
<1> DEFINE d == GetTuple(x, "inp", u)
           a == Tell("lack", x)
<1>1. /\ pc = "receive" /\ pc' = "resend" /\ d \in BagToSet(net)
      /\ \A e : CopiesOf(e, net') = CopiesOf(e, net) - (IF e = d THEN 1 ELSE 0)
                                      + (IF e \in {a, Tell("await", x)} THEN 1 ELSE 0)
  BY DEF Refuses, Moves
<1>2. ~Halted /\ ~Halted'
  BY <1>1 DEF Halted, Faults
<1>3. /\ d \in ToServer /\ d.from = x
      /\ a \in Message /\ a.to = x /\ a.type # "await"
  BY Mine
<1>4. Tell("await", x) \notin Traffic(c)
  BY Mine, TwoWays DEF Traffic
<1>5. \A e \in Traffic(c) :
        CopiesOf(e, net') =
          CopiesOf(e, net) - (IF e = d THEN 1 ELSE 0) + (IF e = a THEN 1 ELSE 0)
  BY <1>1, <1>4
<1>6. OfExchange(x, d) => OfExchange(x, a)
  <2> SUFFICES ASSUME OfExchange(x, d) PROVE OfExchange(x, a)
    OBVIOUS
  <2>1. client_pc[x] = "await" /\ d = Request(x)
    BY DEF OfExchange, AnswerTo, GetTuple, Tell, Carrying, ReceivedMsg
  <2>2. request[x].kind # "out"
    BY <2>1 DEF Request, SendTuple, GetTuple
  <2> QED
    BY <2>1, <2>2 DEF OfExchange, AnswerTo
<1> QED
  BY <1>1, <1>2, <1>3, <1>5, <1>6, AnswersExchange

LEMMA ConfirmsExchange ==
  ASSUME NetType, NetType', ServerLeavesClients, NEW c \in Client, OneExchange(c),
         NEW x \in Client, Confirms(x)
  PROVE  OneExchange(c)'
<1> DEFINE d == ReceivedMsg(x)
           a == Tell("ack", x)
<1>1. /\ pc = "receive" /\ pc' = "resend" /\ d \in BagToSet(net)
      /\ \A e : CopiesOf(e, net') =
                  CopiesOf(e, net) - (IF e = d THEN 1 ELSE 0) + (IF e = a THEN 1 ELSE 0)
  BY DEF Confirms, Moves
<1>2. ~Halted /\ ~Halted'
  BY <1>1 DEF Halted, Faults
<1>3. /\ d \in ToServer /\ d.from = x
      /\ a \in Message /\ a.to = x /\ a.type # "await"
  BY Mine
<1>4. OfExchange(x, d) => OfExchange(x, a)
  BY DEF OfExchange, AnswerTo, ReceivedMsg, Tell, Carrying, Request, SendTuple, GetTuple
<1> QED
  BY <1>1, <1>2, <1>3, <1>4, AnswersExchange

LEMMA SavesExchange ==
  ASSUME NetType, NetType', ServerLeavesClients, NEW c \in Client, OneExchange(c),
         NEW x \in Client, NEW t \in Tuple, Saves(x, t)
  PROVE  OneExchange(c)'
<1> DEFINE a == Tell("ack", x)
<1>1. /\ pc = "out" /\ pc' = "resend" /\ handler.sender = x
      /\ \A e : CopiesOf(e, net') = CopiesOf(e, net) + (IF e = a THEN 1 ELSE 0)
  BY DEF Saves, Adds
<1>2. ~Halted /\ ~Halted' /\ ~Working(c)' /\ (Working(c) <=> x = c)
  BY <1>1 DEF Halted, Faults, Working
<1>3. CASE x # c
  <2>1. a \notin Traffic(c)
    BY <1>3, NotMine, Mine
  <2>2. \A e : CopiesOf(e, net) \in Nat
    BY CopiesType DEF NetType
  <2>3. \A e \in Traffic(c) : CopiesOf(e, net') <= CopiesOf(e, net)
    BY <1>1, <2>1, <2>2
  <2> QED
    BY <1>2, <1>3, <2>3, ExchangeKept DEF ServerLeavesClients
<1>4. CASE x = c
  <2>1. Only(c, {}) /\ client_pc[c] = "await" /\ request[c].kind = "out"
    BY <1>2, <1>4 DEF OneExchange
  <2>2. OfExchange(c, a)'
    BY <1>4, <2>1 DEF OfExchange, AnswerTo, ServerLeavesClients
  <2>3. Only(c, {a})'
    BY <1>1, <1>2, <2>1, ExchangeBegins
  <2> QED
    BY <1>2, <2>2, <2>3 DEF OneExchange
<1> QED
  BY <1>3, <1>4

LEMMA RestsExchange ==
  ASSUME NetType, NetType', ServerLeavesClients, NEW c \in Client, OneExchange(c), Rests
  PROVE  OneExchange(c)'
<1>1. /\ pc \in {"resend", "sweep"} /\ pc' \in {"sweep", "receive"}
      /\ \A e : CopiesOf(e, net') = CopiesOf(e, net) + 0
  BY DEF Rests, Adds
<1>2. ~Halted /\ ~Halted' /\ ~Working(c) /\ ~Working(c)'
  BY <1>1 DEF Halted, Faults, Working
<1>3. \A e : CopiesOf(e, net) \in Nat
  BY CopiesType DEF NetType
<1>4. \A e \in Traffic(c) : CopiesOf(e, net') <= CopiesOf(e, net)
  BY <1>1, <1>3
<1> QED
  BY <1>2, <1>4, ExchangeKept DEF ServerLeavesClients

\* The server reads only requests the clients may send.
LEMMA InpIsRead ==
  ASSUME NetType, NEW x \in Client, NEW u \in Template, GetTuple(x, "inp", u) \in BagToSet(net)
  PROVE  "inp" \in Requests
<1> DEFINE d == GetTuple(x, "inp", u)
<1>1. "from" \in DOMAIN d /\ d.type = "get" /\ d.kind = "inp"
  BY DEF GetTuple
<1>2. \A y : "from" \notin DOMAIN Tell("stranger", y)
  BY DEF Tell
<1>3. d \in ToServer
  BY <1>1, <1>2, TwoWays DEF NetType, Datagrams
<1> HIDE DEF d
<1> QED
  BY <1>1, <1>3 DEF ToServer, GetTuple, SendTuple, ReceivedMsg

LEMMA ServerExchanges ==
  ASSUME OnlyInp, QuietRatio, ServerFacts, ServerFacts', NetType, NetType', ServerLeavesClients,
         ServerWorks, NEW c \in Client, OneExchange(c)
  PROVE  OneExchange(c)'
<1>1. ASSUME NEW x \in Client, NEW u \in Template, NEW t \in Tuple, Hands(x, u, t)
      PROVE  OneExchange(c)'
  BY <1>1, InpIsRead, HandsExchange DEF Hands, Moves
<1>2. ASSUME NEW x \in Client, NEW u \in Template, Refuses(x, u)
      PROVE  OneExchange(c)'
  BY <1>2, InpIsRead, RefusesExchange DEF Refuses, Moves
<1> QED
  BY <1>1, <1>2, ServerActs, AcceptsExchange, ConfirmsExchange, SavesExchange, RestsExchange

\* The clients' steps.
LEMMA ClientTouchesNet ==
  ASSUME ClientType, NetType, NEW x \in Client, ClientStep(x) \/ WindowEnds(x)
  PROVE  \/ net' = net
         \/ \E d \in ToServer : d.from = x /\ net' = net (+) SetToBag({d})
         \/ \E d \in Inbox(x) : net' = net (-) SetToBag({d})
<1>1. CASE Call(x) \/ SendAckFails(x) \/ WindowEnds(x)
  BY <1>1 DEF Call, SendAckFails, WindowEnds
<1>2. CASE SendRequest(x) \/ SendRequestFails(x)
  <2>1. Request(x) \in ToServer /\ Request(x).from = x
    BY <1>2, RequestType DEF SendRequest, SendRequestFails, Request, SendTuple, GetTuple
  <2> QED
    BY <1>2, <2>1 DEF SendRequest, SendRequestFails
<1>3. CASE SendAck(x)
  BY <1>3, Mine DEF SendAck
<1>4. CASE ReceiveAck(x) \/ ReceiveAnswer(x) \/ ReceiveAckOfAck(x)
  BY <1>4 DEF ReceiveAck, ReceiveAnswer, ReceiveAckOfAck
<1> QED
  BY <1>1, <1>2, <1>3, <1>4 DEF ClientStep

LEMMA OthersExchange ==
  ASSUME ClientType, NetType, NetType', NoStrangers, UNCHANGED vars, NEW c \in Client,
         OneExchange(c), NEW x \in Client, x # c, ClientStep(x) \/ WindowEnds(x)
  PROVE  OneExchange(c)'
<1>1. client_pc'[c] = client_pc[c] /\ request'[c] = request[c]
  BY OthersKeep
<1>2. \A e : CopiesOf(e, net) \in Nat
  BY CopiesType DEF NetType
<1>3. \A e \in Traffic(c) : CopiesOf(e, net') <= CopiesOf(e, net)
  <2>1. CASE net' = net
    BY <1>2, <2>1
  <2>2. ASSUME NEW d \in ToServer, d.from = x, net' = net (+) SetToBag({d})
        PROVE  \A e \in Traffic(c) : CopiesOf(e, net') <= CopiesOf(e, net)
    <3>1. d \notin Traffic(c)
      BY <2>2, NotMine
    <3>2. \A e : CopiesOf(e, net') = CopiesOf(e, net) + (IF e \in {d} THEN 1 ELSE 0)
      BY <2>2, BagGains DEF NetType
    <3> QED
      BY <1>2, <3>1, <3>2
  <2>3. ASSUME NEW d \in Inbox(x), net' = net (-) SetToBag({d})
        PROVE  \A e \in Traffic(c) : CopiesOf(e, net') <= CopiesOf(e, net)
    <3>1. d \in BagToSet(net)
      BY DEF Inbox
    <3>2. \A e : CopiesOf(e, net') = CopiesOf(e, net) - (IF e = d THEN 1 ELSE 0)
      BY <2>3, <3>1, BagLoses DEF NetType
    <3> QED
      BY <1>2, <3>2
  <2> QED
    BY <2>1, <2>2, <2>3, ClientTouchesNet
<1>4. /\ Halted <=> Halted'
      /\ Working(c) <=> Working(c)'
      /\ handler' = handler /\ heap' = heap
  BY DEF Halted, Working, vars, spaceVars
<1> QED
  BY <1>1, <1>3, <1>4, ExchangeKept

\* What reaches a client is "await" or the one thing under way.
LEMMA Reaches ==
  ASSUME NetType, NoStrangers, NEW c \in Client, OneExchange(c), NEW d \in Inbox(c)
  PROVE  /\ d \in BagToSet(net) /\ d \in Message
         /\ d.type # "await" =>
              d \in Traffic(c) /\ Only(c, {d}) /\ ~Working(c) /\ OfExchange(c, d)
<1>1. d \in BagToSet(net) /\ "to" \in DOMAIN d /\ d.to = c
  BY DEF Inbox
<1>2. d \in Message
  BY <1>1, TwoWays DEF NoStrangers
<1>3. d.type # "await" => d \in Traffic(c)
  BY <1>1, <1>2 DEF Traffic
<1> QED
  BY <1>1, <1>2, <1>3, ExchangeOf

LEMMA OwnExchange ==
  ASSUME OneAtATime, ClientType, NetType, NetType', NoStrangers, UNCHANGED vars, NEW c \in Client,
         OneExchange(c), ClientStep(c) \/ (~UnderWay(c) /\ WindowEnds(c))
  PROVE  OneExchange(c)'
<1>1. /\ Halted <=> Halted'
      /\ Working(c) <=> Working(c)'
      /\ handler' = handler /\ heap' = heap
  BY DEF Halted, Working, vars, spaceVars
<1>2. \A e : CopiesOf(e, net) \in Nat /\ (e \in BagToSet(net) <=> CopiesOf(e, net) > 0)
  BY CopiesType DEF NetType
<1>3. Traffic(c)' = Traffic(c)
  BY <1>1 DEF Traffic
<1>4. ASSUME ~Working(c), Only(c, {}), UNCHANGED net
      PROVE  OneExchange(c)'
  BY <1>1, <1>3, <1>4 DEF Only, OneExchange
<1>5. ASSUME NEW d, ~Working(c), Only(c, {}), net' = net (+) SetToBag({d}), OfExchange(c, d)'
      PROVE  OneExchange(c)'
  <2>1. \A e : CopiesOf(e, net') = CopiesOf(e, net) + (IF e \in {d} THEN 1 ELSE 0)
    BY <1>5, BagGains DEF NetType
  <2>2. Only(c, {d})'
    BY <1>1, <1>5, <2>1, ExchangeBegins
  <2> QED
    BY <1>1, <1>5, <2>2 DEF OneExchange
<1>6. ASSUME NEW d \in Inbox(c), net' = net (-) SetToBag({d}),
             d.type = "await" => client_pc'[c] = client_pc[c] /\ request'[c] = request[c]
      PROVE  OneExchange(c)'
  <2>1. \A e : CopiesOf(e, net') = CopiesOf(e, net) - (IF e = d THEN 1 ELSE 0)
    BY <1>6, BagLoses DEF NetType, Inbox
  <2>2. CASE d.type = "await"
    <3>1. \A e \in Traffic(c) : CopiesOf(e, net') <= CopiesOf(e, net)
      BY <1>2, <2>1
    <3> QED
      BY <1>1, <1>6, <2>2, <3>1, ExchangeKept
  <2>3. CASE d.type # "await"
    <3>1. Only(c, {d}) /\ ~Working(c)
      BY <2>3, Reaches
    <3>2. Only(c, {})'
      BY <1>1, <2>1, <3>1, ExchangeEnds
    <3> QED
      BY <1>1, <3>1, <3>2 DEF OneExchange
  <2> QED
    BY <2>2, <2>3
<1>7. client_pc[c] \notin {"await", "await_ack"} => ~Working(c) /\ Only(c, {})
  BY DEF OneExchange, OfExchange
<1>8. CASE Call(c)
  BY <1>4, <1>7, <1>8 DEF Call
<1>9. CASE SendRequest(c)
  <2>1. client_pc[c] = "send" /\ net' = net (+) SetToBag({Request(c)}) /\ UNCHANGED request
    BY <1>9 DEF SendRequest
  <2>2. client_pc'[c] = "await"
    BY <1>9 DEF SendRequest, Goto, ClientType, OneAtATime
  <2>3. OfExchange(c, Request(c))'
    BY <2>1, <2>2 DEF OfExchange, Request
  <2>4. Request(c)' = Request(c)
    BY <2>1 DEF Request
  <2> QED
    BY <1>5, <1>7, <2>1, <2>3, <2>4
<1>10. CASE SendAck(c)
  <2>1. client_pc[c] = "ack" /\ net' = net (+) SetToBag({ReceivedMsg(c)})
    BY <1>10 DEF SendAck
  <2>2. client_pc'[c] = "await_ack"
    BY <1>10 DEF SendAck, Goto, ClientType
  <2>3. OfExchange(c, ReceivedMsg(c))'
    BY <2>2 DEF OfExchange
  <2> QED
    BY <1>5, <1>7, <2>1, <2>3
<1>11. CASE ReceiveAck(c) \/ ReceiveAnswer(c) \/ ReceiveAckOfAck(c)
  BY <1>6, <1>11 DEF ReceiveAck, ReceiveAnswer, ReceiveAckOfAck, Acknowledges
<1>12. CASE SendRequestFails(c) \/ SendAckFails(c)
  BY <1>12 DEF SendRequestFails, SendAckFails, OneAtATime
<1>13. CASE ~UnderWay(c) /\ WindowEnds(c)
  <2>1. UNCHANGED net
    BY <1>13 DEF WindowEnds
  <2>2. ~Working(c) /\ Inbox(c) = {}
    BY <1>13 DEF UnderWay, Working
  <2>3. \A e \in Traffic(c) : e \notin BagToSet(net)
    <3>1. ASSUME NEW e \in Message, e.to = c, e \in BagToSet(net)
          PROVE  FALSE
      BY <2>2, <3>1, TwoWays DEF Inbox
    <3>2. ASSUME NEW e \in ToServer, ~Halted, e.from = c, e \in BagToSet(net)
          PROVE  FALSE
      BY <1>13, <3>2, TwoWays DEF UnderWay
    <3> QED
      BY <3>1, <3>2 DEF Traffic
  <2>4. Only(c, {})
    BY <1>2, <2>3 DEF Only
  <2> QED
    BY <1>4, <2>1, <2>2, <2>4
<1> QED
  BY <1>8, <1>9, <1>10, <1>11, <1>12, <1>13 DEF ClientStep

\* What a client holds once it acknowledges, and since when.
LEMMA ContextComes ==
  ASSUME ClientType, NetType, NoStrangers, NEW c \in Client, OneExchange(c),
         NEW x \in Client, ClientStep(x) \/ WindowEnds(x), client_pc'[c] \in {"ack", "await_ack"}
  PROVE  /\ request'[c] = request[c]
         /\ \/ client_pc[c] \in {"ack", "await_ack"} /\ context'[c] = context[c]
            \/ /\ request[c].kind # "out"
               /\ \E d \in BagToSet(net) : AnswerTo(c, d) /\ context'[c] = Recorded(d)
<1>1. CASE x # c
  BY <1>1, OthersKeep
<1>2. CASE x = c /\ ReceiveAnswer(c)
  <2>1. PICK d \in Inbox(c) :
          \/ d.type = "await" /\ UNCHANGED <<client_pc, context>>
          \/ d.type # "await" /\ context' = [context EXCEPT ![c] = Recorded(d)]
    BY <1>2 DEF ReceiveAnswer
  <2>2. client_pc[c] = "await" /\ request[c].kind # "out" /\ UNCHANGED request
    BY <1>2 DEF ReceiveAnswer
  <2>3. d.type # "await" /\ context'[c] = Recorded(d)
    BY <2>1, <2>2 DEF ClientType
  <2>4. OfExchange(c, d) /\ d \in Message /\ d \in BagToSet(net)
    BY <2>3, Reaches
  <2>5. d # Request(c)
    BY <2>2, <2>4, RequestType, TwoWays
  <2>6. AnswerTo(c, d)
    BY <2>2, <2>4, <2>5 DEF OfExchange
  <2> QED
    BY <2>2, <2>3, <2>4, <2>6
<1>3. CASE x = c /\ (Call(c) \/ SendRequest(c) \/ SendRequestFails(c) \/ ReceiveAck(c))
  <2>1. client_pc[c] \notin {"ack", "await_ack"}
    BY <1>3 DEF Call, SendRequest, SendRequestFails, ReceiveAck
  <2>2. client_pc'[c] \in {"idle", "send", "await", client_pc[c]}
    BY <1>3 DEF Call, SendRequest, SendRequestFails, ReceiveAck, Finish, Enter, Goto, ClientType
  <2> QED
    BY <2>1, <2>2
<1>4. CASE x = c /\ (SendAck(c) \/ SendAckFails(c) \/ ReceiveAckOfAck(c) \/ WindowEnds(c))
  <2>1. UNCHANGED request
    BY <1>4 DEF SendAck, SendAckFails, ReceiveAckOfAck, WindowEnds
  <2>2. client_pc[c] \in {"ack", "await_ack"} /\ UNCHANGED context
    BY <1>4 DEF SendAck, SendAckFails, ReceiveAckOfAck, WindowEnds, Windows, Finish, Goto, ClientType
  <2> QED
    BY <2>1, <2>2
<1> QED
  BY <1>1, <1>2, <1>3, <1>4 DEF ClientStep

LEMMA ContextFitsStep ==
  ASSUME ClientType, NetType, NoStrangers, NEW c \in Client, OneExchange(c), ContextFits(c),
         NEW x \in Client, ClientStep(x) \/ WindowEnds(x)
  PROVE  ContextFits(c)'
<1> SUFFICES ASSUME client_pc'[c] \in {"ack", "await_ack"}
             PROVE  request'[c].kind # "out" /\ \E d : AnswerTo(c, d)' /\ context'[c] = Recorded(d)
  BY DEF ContextFits
<1>1. request'[c] = request[c]
  BY ContextComes
<1>2. request[c].kind # "out" /\ \E d : AnswerTo(c, d) /\ context'[c] = Recorded(d)
  BY ContextComes DEF ContextFits
<1>3. \A d : AnswerTo(c, d) => AnswerTo(c, d)'
  BY <1>1 DEF AnswerTo
<1> QED
  BY <1>1, <1>2, <1>3

\* The invariant: at most one exchange of each client is under way.
Exchanges == \A c \in Client : OneExchange(c) /\ ContextFits(c)

LEMMA NoStrangersStep ==
  ASSUME ~Strangers, SystemTypes, TypeOK', NoStrangers, [SystemNext]_systemVars
  PROVE  NoStrangers'
<1> USE DEF SystemTypes
<1>1. ASSUME NEW d \in BagToSet(net), net' = net (-) SetToBag({d})
      PROVE  BagToSet(net') \subseteq BagToSet(net)
  BY <1>1, BagLoses DEF NetType
<1>2. ASSUME NEW S, net' = net (+) SetToBag(S)
      PROVE  BagToSet(net') = BagToSet(net) \cup S
  BY <1>2, BagGains DEF NetType
<1>3. CASE ServerWorks
  <2>1. ASSUME NEW d \in BagToSet(net), Deliver(net (-) SetToBag({d}))
        PROVE  BagToSet(net') \subseteq BagToSet(net) \cup ToSet(sent')
    <3> DEFINE left == net (-) SetToBag({d})
    <3>1. IsABag(left) /\ BagToSet(left) \subseteq BagToSet(net)
      BY BagLoses DEF NetType
    <3>2. net' = left (+) SetToBag(ToSet(sent'))
      BY <2>1 DEF Deliver
    <3> HIDE DEF left
    <3>3. BagToSet(left (+) SetToBag(ToSet(sent'))) = BagToSet(left) \cup ToSet(sent')
      BY <3>1, BagGains
    <3> QED
      BY <3>1, <3>2, <3>3
  <2>2. BagToSet(net') \subseteq BagToSet(net) \cup ToSet(sent')
    BY <1>2, <1>3, <2>1, ServerWorksOnNet DEF ReadSend, ReadGet, ReadAck, Arrived
  <2> QED
    BY <1>3, <2>2, ServerWorksOnNet DEF NoStrangers
<1>4. CASE \E c \in Client : ClientRuns(c) \/ TimesOut(c)
  <2>1. PICK c \in Client : ClientStep(c) \/ WindowEnds(c)
    BY <1>4 DEF ClientRuns, TimesOut
  <2>2. \/ net' = net
        \/ \E d \in ToServer : net' = net (+) SetToBag({d})
        \/ \E d \in BagToSet(net) : net' = net (-) SetToBag({d})
    BY <2>1, ClientTouchesNet DEF Inbox
  <2> QED
    BY <1>1, <1>2, <2>2 DEF NoStrangers
<1>5. CASE Lose
  BY <1>1, <1>5 DEF Lose, NoStrangers
<1>6. CASE ServerStops \/ UNCHANGED systemVars
  BY <1>6 DEF ServerStops, systemVars, clientVars, NoStrangers
<1> QED
  BY <1>3, <1>4, <1>5, <1>6 DEF SystemNext, StrangerSends

LEMMA ExchangesStep ==
  ASSUME OneAtATime, OnlyInp, QuietRatio, ServerFacts, ServerFacts', SystemTypes, SystemTypes',
         NoStrangers, Exchanges, [SystemNext]_systemVars
  PROVE  Exchanges'
<1> SUFFICES ASSUME NEW c \in Client PROVE OneExchange(c)' /\ ContextFits(c)'
  BY DEF Exchanges
<1> USE DEF SystemTypes
<1>1. OneExchange(c) /\ ContextFits(c)
  BY DEF Exchanges
<1>2. ASSUME UNCHANGED <<client_pc, request, context>>
      PROVE  ContextFits(c)'
  BY <1>1, <1>2 DEF ContextFits, AnswerTo
<1>3. CASE ServerWorks
  <2>1. TypeOK'
    BY DEF ServerFacts
  <2>2. ServerLeavesClients
    BY <1>3, <2>1, ServerWorksOnNet DEF ServerLeavesClients
  <2> QED
    BY <1>1, <1>2, <1>3, <2>2, ServerExchanges DEF ServerLeavesClients
<1>4. CASE ServerStops
  <2>1. UNCHANGED <<client_pc, request, context, net>>
    BY <1>4 DEF ServerStops, clientVars
  <2>2. ~Working(c) /\ ~Working(c)' /\ Halted'
    BY <1>4 DEF ServerStops, Stop, Working, Halted
  <2>3. \A e : CopiesOf(e, net) \in Nat
    BY CopiesType DEF NetType
  <2>4. \A e \in Traffic(c) : CopiesOf(e, net') <= CopiesOf(e, net)
    BY <2>1, <2>3
  <2> QED
    BY <1>1, <1>2, <2>1, <2>2, <2>4, ExchangeKept
<1>5. ASSUME NEW x \in Client, ClientRuns(x) \/ TimesOut(x)
      PROVE  OneExchange(c)' /\ ContextFits(c)'
  <2>1. UNCHANGED vars /\ (ClientStep(x) \/ (~UnderWay(x) /\ WindowEnds(x)))
    BY <1>5 DEF ClientRuns, TimesOut, OneAtATime
  <2>2. ContextFits(c)'
    BY <1>1, <2>1, ContextFitsStep
  <2>3. OneExchange(c)'
    BY <1>1, <2>1, OthersExchange, OwnExchange
  <2> QED
    BY <2>2, <2>3
<1>6. CASE Lose \/ UNCHANGED systemVars
  <2>1. UNCHANGED <<vars, client_pc, request, context>>
    BY <1>6 DEF Lose, systemVars, clientVars
  <2>2. /\ Halted <=> Halted'
        /\ Working(c) <=> Working(c)'
        /\ handler' = handler /\ heap' = heap
    BY <2>1 DEF Halted, Working, vars, spaceVars
  <2>3. \A e : CopiesOf(e, net) \in Nat
    BY CopiesType DEF NetType
  <2>4. \A e \in Traffic(c) : CopiesOf(e, net') <= CopiesOf(e, net)
    <3>1. CASE Lose
      <4>1. PICK d \in BagToSet(net) : net' = net (-) SetToBag({d})
        BY <3>1 DEF Lose
      <4>2. \A e : CopiesOf(e, net') = CopiesOf(e, net) - (IF e = d THEN 1 ELSE 0)
        BY <4>1, BagLoses DEF NetType
      <4> QED
        BY <2>3, <4>2
    <3>2. CASE UNCHANGED systemVars
      BY <2>3, <3>2 DEF systemVars, clientVars
    <3> QED
      BY <1>6, <3>1, <3>2
  <2> QED
    BY <1>1, <1>2, <2>1, <2>2, <2>4, ExchangeKept
<1> QED
  BY <1>3, <1>4, <1>5, <1>6 DEF SystemNext, StrangerSends, OneAtATime

LEMMA ExchangesInit == SystemInit => NoStrangers /\ Exchanges
<1> SUFFICES ASSUME SystemInit PROVE NoStrangers /\ Exchanges
  OBVIOUS
<1>1. IsABag(net) /\ \A d : CopiesOf(d, net) = 0
  BY BagOfNone DEF SystemInit, ClientInit
<1>2. BagToSet(net) = {}
  <2>1. \A d : d \in BagToSet(net) <=> CopiesOf(d, net) > 0
    BY <1>1, CopiesType
  <2> QED
    BY <1>1, <2>1
<1>3. NoStrangers
  BY <1>2 DEF NoStrangers
<1>4. \A c \in Client : ~Working(c) /\ Only(c, {}) /\ client_pc[c] = "idle"
  BY <1>1 DEF SystemInit, Init, ClientInit, Working, Only
<1> QED
  BY <1>3, <1>4 DEF Exchanges, OneExchange, ContextFits

LEMMA ExchangesInvariant ==
  ASSUME OneAtATime, OnlyInp, QuietRatio
  PROVE  SystemSpec => [](NoStrangers /\ Exchanges)
<1>1. /\ ServerFacts /\ ServerFacts' /\ TypeOK' /\ SystemTypes /\ SystemTypes' /\ NoStrangers /\ Exchanges
      /\ [SystemNext]_systemVars
      => NoStrangers' /\ Exchanges'
  BY NoStrangersStep, ExchangesStep DEF OneAtATime
<1> QED
  BY <1>1, ExchangesInit, ServerFactsInvariant, SystemTypesInvariant, PTL DEF SystemSpec

\* What a client returns is what its request asked for.
LEMMA ContextSuits ==
  ASSUME NEW c \in Client, ContextFits(c), client_pc[c] \in {"ack", "await_ack"}
  PROVE  /\ request[c].kind # "out"
         /\ context[c].tuple # NULL => Suits(Span(request[c]), context[c].tuple)
<1>1. PICK d : AnswerTo(c, d) /\ context[c] = Recorded(d) /\ request[c].kind # "out"
  BY DEF ContextFits
<1>2. CASE d = Tell("lack", c)
  <2>1. d.type = "lack"
    BY <1>2 DEF Tell
  <2>2. Recorded(d).tuple = NULL
    BY <2>1 DEF Recorded, NoContext
  <2> QED
    BY <1>1, <2>2
<1>3. ASSUME NEW t \in Tuple, Suits(Span(request[c]), t), d = Carrying(c, t)
      PROVE  context[c].tuple = t
  BY <1>1, <1>3 DEF Carrying, Recorded, NoContext
<1> QED
  BY <1>1, <1>2, <1>3 DEF AnswerTo

LEMMA AnswersFitStep ==
  ASSUME ClientType, ContextFresh, Exchanges, AnswersFit,
         NEW x \in Client, ClientStep(x) \/ WindowEnds(x)
  PROVE  AnswersFit'
<1> DEFINE Fit(c) == result[c].tuple # NULL =>
                       request[c].kind # "out" /\ Suits(Span(request[c]), result[c].tuple)
<1>1. AnswersFit <=> \A c \in Client : Fit(c)
  BY DEF AnswersFit, Suits
<1>2. AnswersFit' <=> \A c \in Client : Fit(c)'
  BY DEF AnswersFit, Suits
<1>3. ASSUME NEW c \in Client, result'[c].tuple = NULL
      PROVE  Fit(c)'
  BY <1>3
<1>4. ASSUME NEW c \in Client, result'[c] = result[c], request'[c] = request[c]
      PROVE  Fit(c)'
  BY <1>1, <1>4
<1>5. ASSUME NEW c \in Client, c # x
      PROVE  Fit(c)'
  BY <1>4, <1>5, OthersKeep
<1>6. ASSUME request'[x] = request[x], result'[x] = Outcome(request[x], context[x]),
             client_pc[x] \in {"ack", "await_ack"}
      PROVE  Fit(x)'
  <2>1. request[x].kind # "out" /\ (context[x].tuple # NULL => Suits(Span(request[x]), context[x].tuple))
    BY <1>6, ContextSuits DEF Exchanges
  <2>2. result'[x].tuple \in {NULL, context[x].tuple}
    BY <1>6, OutcomeTuple
  <2> QED
    BY <1>6, <2>1, <2>2 DEF Suits, Span
<1>7. ASSUME result'[x] = GivenUp(x), client_pc[x] \notin {"ack", "await_ack"}
      PROVE  result'[x].tuple = NULL
  BY <1>7, NothingGivenUp DEF ContextFresh
<1>8. \A error : Returns(error).tuple = NULL
  BY DEF Returns
<1>9. CASE Call(x)
  <2>1. result'[x].tuple = NULL
    BY <1>8, <1>9 DEF Call, Finish, ClientType
  <2> QED
    BY <1>2, <1>3, <1>5, <2>1
<1>10. CASE ~Call(x)
  <2>1. request'[x] = request[x]
    BY <1>10 DEF ClientStep, SendRequest, SendRequestFails, ReceiveAck, ReceiveAnswer, SendAck,
                 SendAckFails, ReceiveAckOfAck, WindowEnds
  <2>2. \/ result'[x] = result[x]
        \/ result'[x] = Returns("no_error")
        \/ result'[x] = GivenUp(x) /\ client_pc[x] \notin {"ack", "await_ack"}
        \/ result'[x] = Outcome(request[x], context[x]) /\ client_pc[x] \in {"ack", "await_ack"}
    <3>1. CASE SendRequest(x) \/ SendRequestFails(x)
      BY <3>1 DEF SendRequest, SendRequestFails, Finish, ClientType
    <3>2. CASE ReceiveAck(x) \/ ReceiveAnswer(x)
      BY <3>2 DEF ReceiveAck, ReceiveAnswer, Finish, ClientType
    <3>3. CASE SendAck(x) \/ SendAckFails(x) \/ ReceiveAckOfAck(x)
      BY <3>3 DEF SendAck, SendAckFails, ReceiveAckOfAck, Finish, ClientType
    <3>4. CASE WindowEnds(x)
      BY <3>4 DEF WindowEnds, Windows, Finish, ClientType
    <3> QED
      BY <1>10, <3>1, <3>2, <3>3, <3>4 DEF ClientStep
  <2>3. Fit(x)'
    BY <1>3, <1>4, <1>6, <1>7, <1>8, <2>1, <2>2
  <2> QED
    BY <1>2, <1>5, <2>3
<1> QED
  BY <1>9, <1>10

\* When nothing arrives late, the tuple an INP returns is one that this INP asked for: its
\* size and fields suit the template, although no datagram says which request it
\* answers and any of them may be lost (ts_client_send_get_await_tuple and in_cb).
THEOREM InpReturnsWhatItAsked ==
  ASSUME OneAtATime, OnlyInp, QuietRatio PROVE SystemSpec => []AnswersFit
<1>1. SystemInit => AnswersFit
  BY DEF SystemInit, ClientInit, AnswersFit, Returns
<1>2. SystemTypes /\ TypeOK' /\ ContextFresh /\ Exchanges /\ AnswersFit /\ [SystemNext]_systemVars
        => AnswersFit'
  <2> SUFFICES ASSUME SystemTypes, TypeOK', ContextFresh, Exchanges, AnswersFit,
                      [SystemNext]_systemVars
               PROVE  AnswersFit'
    OBVIOUS
  <2>1. CASE \E c \in Client : ClientRuns(c) \/ TimesOut(c)
    BY <2>1, AnswersFitStep DEF ClientRuns, TimesOut, SystemTypes
  <2>2. CASE ~\E c \in Client : ClientRuns(c) \/ TimesOut(c)
    <3>1. UNCHANGED <<request, result>>
      BY <2>2, ServerWorksOnNet DEF SystemNext, ServerStops, Lose, StrangerSends, systemVars, clientVars
    <3> QED
      BY <3>1 DEF AnswersFit
  <2> QED
    BY <2>1, <2>2
<1>3. OnlyTakes
  BY DEF OnlyInp, OnlyTakes
<1> QED
  BY <1>1, <1>2, <1>3, ExchangesInvariant, SystemTypesInvariant, ConservedInvariant, PTL DEF SystemSpec

-----------------------------------------------------------------------------
(***************************************************************************)
(* The histories of the operations under way.                              *)
(***************************************************************************)
ServingType == served \in [Client -> Seq(Tuple)] /\ refused \in [Client -> BOOLEAN]

ServedTo(c, t) == \E i \in DOMAIN served[c] : served[c][i] = t

\* The history knows what the answers under way say, and the one that arrived.
HistoryKnows(c) ==
  /\ client_pc[c] = "idle" => served[c] = <<>> /\ refused[c] = FALSE
  /\ client_pc[c] = "await" /\ Tell("ack", c) \in BagToSet(net) => served[c] # <<>>
  /\ \A t \in Tuple : Carrying(c, t) \in BagToSet(net) => ServedTo(c, t)
  /\ Tell("lack", c) \in BagToSet(net) => refused[c] = TRUE
  /\ client_pc[c] \in {"ack", "await_ack"} =>
       /\ context[c].response = "lack" => refused[c] = TRUE
       /\ context[c].response = "tuple" => ServedTo(c, context[c].tuple)

\* The sendings a request has left, the copies of it under way, and the refusals
\* that will buy a request another sending.
Left(c) ==
  IF client_pc[c] = "send" THEN repeats[c]
  ELSE IF client_pc[c] = "await" THEN repeats[c] - 1 ELSE 0

Asking(c) == IF client_pc[c] \in {"send", "await"} THEN CopiesOf(Request(c), net) ELSE 0

Waits(c) == CopiesOf(Tell("await", c), net)

Busy(c) == IF Working(c) THEN 1 ELSE 0

\* An OUT is served at most once per sending.
PutsBounded(c) ==
  client_pc[c] \in {"send", "await"} /\ request[c].kind = "out" =>
    Len(served[c]) + Asking(c) + Busy(c) + Left(c) <= MaxRepeats

\* An INP also once for every refusal of the client that is still under way.
TakesBounded(c) ==
  client_pc[c] \in {"send", "await"} /\ request[c].kind # "out" =>
    Len(served[c]) + Asking(c) + Waits(c) + Left(c) <= MaxRepeats + calls[c] - 1

\* Each call leaves at most one of them behind.
WaitsBounded(c) ==
  /\ client_pc[c] # "idle" => calls[c] >= 1
  /\ Waits(c) + (IF client_pc[c] = "send" THEN 1 ELSE Asking(c)) <= calls[c]

Bounded(c) == ~Halted => PutsBounded(c) /\ TakesBounded(c) /\ WaitsBounded(c)

Histories == \A c \in Client : HistoryKnows(c) /\ Bounded(c)

LEMMA NothingJoins ==
  ASSUME NEW S, NEW s \in Seq(S), NEW a, NEW b, a = <<>>, b = <<>>
  PROVE  s \o a \o b = s
BY ConcatEmptySeq

LEMMA OneJoins ==
  ASSUME NEW S, NEW s \in Seq(S), NEW t \in S, NEW a, NEW b,
         \/ a = <<t>> /\ b = <<>>
         \/ a = <<>> /\ b = <<t>>
  PROVE  s \o a \o b = Append(s, t)
<1>1. s \o <<t>> = Append(s, t) /\ Append(s, t) \in Seq(S)
  BY AppendIsConcat, AppendProperties
<1>2. s \o <<>> = s /\ Append(s, t) \o <<>> = Append(s, t)
  BY <1>1, ConcatEmptySeq
<1> QED
  BY <1>1, <1>2

\* What a step adds to the histories.
LEMMA ServesNobody ==
  ASSUME ServingType, Serve, NothingServed
  PROVE  served' = served
<1>1. \A c \in Client : served[c] \o PutFor(c) \o TakenFor(c) = served[c]
  BY NothingJoins DEF ServingType, NothingServed
<1> QED
  BY <1>1 DEF Serve, ServingType

LEMMA ServesOne ==
  ASSUME ServingType, Serve, NEW c \in Client, NEW t \in Tuple,
         \A x \in Client :
           \/ x # c /\ PutFor(x) = <<>> /\ TakenFor(x) = <<>>
           \/ x = c /\ PutFor(x) = <<t>> /\ TakenFor(x) = <<>>
           \/ x = c /\ PutFor(x) = <<>> /\ TakenFor(x) = <<t>>
  PROVE  served' = [served EXCEPT ![c] = Append(@, t)]
<1>1. \A x \in Client : x # c => served[x] \o PutFor(x) \o TakenFor(x) = served[x]
  BY NothingJoins DEF ServingType
<1>2. served[c] \o PutFor(c) \o TakenFor(c) = Append(served[c], t)
  BY OneJoins DEF ServingType
<1>3. served' = [x \in Client |-> IF x = c THEN Append(served[c], t) ELSE served[x]]
  BY <1>1, <1>2 DEF Serve
<1> QED
  BY <1>3 DEF ServingType

LEMMA RefusesNobody ==
  ASSUME ServingType, Serve, NobodyRefused
  PROVE  refused' = refused
<1>1. \A c \in Client : (refused[c] \/ Contains(sent', Tell("lack", c))) <=> refused[c]
  BY DEF NobodyRefused
<1>2. \A c \in Client : refused'[c] = refused[c]
  <2> TAKE c \in Client
  <2>1. refused'[c] = (refused[c] \/ Contains(sent', Tell("lack", c)))
    BY DEF Serve
  <2>2. refused[c] \in BOOLEAN
    BY DEF ServingType
  <2> QED
    BY <1>1, <2>1, <2>2
<1>3. refused' = [c \in Client |-> refused'[c]]
  BY DEF Serve
<1> QED
  BY <1>2, <1>3, Zenon DEF ServingType

\* What is under way afterwards was there before, or was added.
LEMMA OnlyAdded ==
  ASSUME NetType, NetType', NEW S, Adds(S) \/ \E d : Moves(d, S)
  PROVE  BagToSet(net') \subseteq BagToSet(net) \cup S
<1>1. \A e : CopiesOf(e, net) \in Nat /\ (e \in BagToSet(net) <=> CopiesOf(e, net) > 0)
  BY CopiesType DEF NetType
<1>2. \A e : CopiesOf(e, net') \in Nat /\ (e \in BagToSet(net') <=> CopiesOf(e, net') > 0)
  BY CopiesType DEF NetType
<1>3. \A e : e \notin S => CopiesOf(e, net') <= CopiesOf(e, net)
  BY <1>1, <1>2 DEF Adds, Moves
<1> QED
  BY <1>1, <1>2, <1>3

\* The requests and the refusals under way.
LEMMA CountsMove ==
  ASSUME ClientType, NetType, NetType', ServerLeavesClients, NEW c \in Client,
         NEW S \in SUBSET Message, NEW d \in ToServer, Moves(d, S)
  PROVE  /\ Asking(c)' = Asking(c) - IF client_pc[c] \in {"send", "await"} /\ d = Request(c)
                                     THEN 1 ELSE 0
         /\ Waits(c)' = Waits(c) + IF Tell("await", c) \in S THEN 1 ELSE 0
<1>1. \A e : CopiesOf(e, net) \in Nat /\ CopiesOf(e, net') \in Nat
  BY CopiesType DEF NetType
<1>2. Tell("await", c) # d
  BY Mine, TwoWays
<1>3. client_pc[c] \in {"send", "await"} => Request(c) \notin S
  BY RequestType, TwoWays
<1>4. Request(c)' = Request(c)
  BY DEF Request, ServerLeavesClients
<1>5. \A e : CopiesOf(e, net') =
               CopiesOf(e, net) - (IF e = d THEN 1 ELSE 0) + (IF e \in S THEN 1 ELSE 0)
  BY DEF Moves
<1>6. Waits(c)' = Waits(c) + IF Tell("await", c) \in S THEN 1 ELSE 0
  BY <1>1, <1>2, <1>5 DEF Waits
<1>7. Asking(c)' = Asking(c) - IF client_pc[c] \in {"send", "await"} /\ d = Request(c)
                               THEN 1 ELSE 0
  BY <1>1, <1>3, <1>4, <1>5 DEF Asking, ServerLeavesClients
<1> QED
  BY <1>6, <1>7

LEMMA CountsAdd ==
  ASSUME ClientType, NetType, NetType', ServerLeavesClients, NEW c \in Client,
         NEW S \in SUBSET Message, Adds(S), Tell("await", c) \notin S
  PROVE  Asking(c)' = Asking(c) /\ Waits(c)' = Waits(c)
<1>1. \A e : CopiesOf(e, net) \in Nat
  BY CopiesType DEF NetType
<1>2. client_pc[c] \in {"send", "await"} => Request(c) \notin S
  BY RequestType, TwoWays
<1>3. Request(c)' = Request(c)
  BY DEF Request, ServerLeavesClients
<1>4. \A e : e \notin S => CopiesOf(e, net') = CopiesOf(e, net)
  BY <1>1 DEF Adds
<1> QED
  BY <1>2, <1>3, <1>4 DEF Asking, Waits, ServerLeavesClients

LEMMA CountsType ==
  ASSUME ServingType, NetType, NEW c \in Client
  PROVE  Len(served[c]) \in Nat /\ Asking(c) \in Nat /\ Waits(c) \in Nat /\ Busy(c) \in Nat
BY CopiesType DEF ServingType, NetType, Asking, Waits, Busy

LEMMA LeftType ==
  ASSUME ClientType, RepeatsLeft, NEW c \in Client
  PROVE  Left(c) \in Nat
BY DEF ClientType, RepeatsLeft, Left

\* Serving a client costs it a sending or a refusal.
Costs(c) ==
  /\ Len(served'[c]) + Asking(c)' + Busy(c)' <= Len(served[c]) + Asking(c) + Busy(c)
  /\ request[c].kind # "out" =>
       Len(served'[c]) + Asking(c)' + Waits(c)' <= Len(served[c]) + Asking(c) + Waits(c)
  /\ Waits(c)' + Asking(c)' <= Waits(c) + Asking(c)
  /\ client_pc[c] = "send" => Waits(c)' <= Waits(c)

LeavesClient(c) ==
  /\ client_pc'[c] = client_pc[c] /\ request'[c] = request[c]
  /\ repeats'[c] = repeats[c] /\ calls'[c] = calls[c]

LEMMA BoundedKept ==
  ASSUME ClientType, RepeatsLeft, ServingType, ServingType', NetType, NetType',
         ~Halted, NEW c \in Client, LeavesClient(c), Bounded(c), Costs(c)
  PROVE  Bounded(c)'
<1>1. /\ Len(served[c]) \in Nat /\ Asking(c) \in Nat /\ Waits(c) \in Nat /\ Busy(c) \in Nat
      /\ Left(c) \in Nat
  BY CountsType, LeftType
<1>2. Len(served'[c]) \in Nat /\ Asking(c)' \in Nat /\ Waits(c)' \in Nat /\ Busy(c)' \in Nat
  BY CopiesType DEF ServingType, NetType, Asking, Waits, Busy
<1>3. Left(c)' = Left(c) /\ calls'[c] = calls[c] /\ request'[c] = request[c] /\ client_pc'[c] = client_pc[c]
  BY DEF Left, LeavesClient
<1>4. calls[c] \in Nat /\ MaxRepeats \in Nat
  BY ClientAssumption DEF ClientType
<1>5. PutsBounded(c) /\ TakesBounded(c) /\ WaitsBounded(c)
  BY DEF Bounded
<1> DEFINE n == Len(served[c])
           m == Len(served'[c])
           asking == Asking(c)
           waits == Waits(c)
           busy == Busy(c)
           left == Left(c)
<1>9. /\ n \in Nat /\ asking \in Nat /\ waits \in Nat /\ busy \in Nat /\ left \in Nat
      /\ m \in Nat /\ asking' \in Nat /\ waits' \in Nat /\ busy' \in Nat
  BY <1>1, <1>2
<1>6. PutsBounded(c)'
  <2> SUFFICES ASSUME client_pc[c] \in {"send", "await"}, request[c].kind = "out"
               PROVE  m + asking' + busy' + left <= MaxRepeats
    BY <1>3 DEF PutsBounded
  <2>1. n + asking + busy + left <= MaxRepeats /\ m + asking' + busy' <= n + asking + busy
    BY <1>5 DEF PutsBounded, Costs
  <2> HIDE DEF n, m, asking, waits, busy, left
  <2> QED
    BY <1>4, <1>9, <2>1
<1>7. TakesBounded(c)'
  <2> SUFFICES ASSUME client_pc[c] \in {"send", "await"}, request[c].kind # "out"
               PROVE  m + asking' + waits' + left <= MaxRepeats + calls[c] - 1
    BY <1>3 DEF TakesBounded
  <2>1. /\ n + asking + waits + left <= MaxRepeats + calls[c] - 1
        /\ m + asking' + waits' <= n + asking + waits
    BY <1>5 DEF TakesBounded, Costs
  <2> HIDE DEF n, m, asking, waits, busy, left
  <2> QED
    BY <1>4, <1>9, <2>1
<1>8. WaitsBounded(c)'
  BY <1>1, <1>2, <1>3, <1>4, <1>5 DEF WaitsBounded, Costs
<1> QED
  BY <1>6, <1>7, <1>8 DEF Bounded

\* Serving a client, and answering it, is known to its history.
LEMMA HistoryKept ==
  ASSUME ServerLeavesClients, ServingType, NEW c \in Client, HistoryKnows(c),
         \/ served'[c] = served[c]
         \/ client_pc[c] = "await" /\ \E t \in Tuple : served'[c] = Append(served[c], t),
         refused'[c] = refused[c] \/ (client_pc[c] = "await" /\ refused'[c] = TRUE),
         Tell("ack", c) \in BagToSet(net') =>
           Tell("ack", c) \in BagToSet(net) \/ client_pc[c] # "await" \/ served'[c] # <<>>,
         Tell("lack", c) \in BagToSet(net') => Tell("lack", c) \in BagToSet(net) \/ refused'[c] = TRUE,
         \A t \in Tuple : Carrying(c, t) \in BagToSet(net') =>
                            Carrying(c, t) \in BagToSet(net) \/ ServedTo(c, t)'
  PROVE  HistoryKnows(c)'
<1>1. served[c] \in Seq(Tuple)
  BY DEF ServingType
<1>2. ASSUME NEW t \in Tuple, served'[c] = Append(served[c], t)
      PROVE  served'[c] # <<>> /\ \A u : ServedTo(c, u) => ServedTo(c, u)'
  <2>1. Append(served[c], t) # <<>>
    BY <1>1, AppendProperties
  <2>2. \A i \in DOMAIN served[c] : i \in DOMAIN Append(served[c], t)
                                     /\ Append(served[c], t)[i] = served[c][i]
    BY <1>1
  <2> QED
    BY <1>2, <2>1, <2>2 DEF ServedTo
<1>3. \A u : ServedTo(c, u) => ServedTo(c, u)'
  BY <1>2 DEF ServedTo
<1>4. served[c] # <<>> => served'[c] # <<>>
  BY <1>2
<1>5. UNCHANGED <<client_pc, request, context>>
  BY DEF ServerLeavesClients
<1>6. client_pc'[c] = "idle" => served'[c] = <<>> /\ refused'[c] = FALSE
  BY <1>5 DEF HistoryKnows
<1>7. client_pc'[c] = "await" /\ Tell("ack", c) \in BagToSet(net') => served'[c] # <<>>
  BY <1>4, <1>5 DEF HistoryKnows
<1>8. \A t \in Tuple : Carrying(c, t) \in BagToSet(net') => ServedTo(c, t)'
  BY <1>3 DEF HistoryKnows
<1>9. Tell("lack", c) \in BagToSet(net') => refused'[c] = TRUE
  BY DEF HistoryKnows
<1>10. client_pc'[c] \in {"ack", "await_ack"} =>
         /\ context'[c].response = "lack" => refused'[c] = TRUE
         /\ context'[c].response = "tuple" => ServedTo(c, context[c].tuple)'
  BY <1>3, <1>5 DEF HistoryKnows
<1> QED
  BY <1>5, <1>6, <1>7, <1>8, <1>9, <1>10 DEF HistoryKnows

\* Which operation a request the server reads belongs to.
LEMMA ReadsRequest ==
  ASSUME NetType, NEW c \in Client, OneExchange(c), ~Halted
  PROVE  /\ \A t \in Tuple : SendTuple(c, t) \in BagToSet(net) =>
              /\ client_pc[c] = "await" /\ SendTuple(c, t) = Request(c)
              /\ request[c].kind = "out" /\ Span(request[c]) = t
         /\ \A u \in Template, kind \in Requests : GetTuple(c, kind, u) \in BagToSet(net) =>
              /\ client_pc[c] = "await" /\ GetTuple(c, kind, u) = Request(c)
              /\ request[c].kind # "out" /\ request[c].kind = kind /\ Span(request[c]) = u
         /\ ReceivedMsg(c) \in BagToSet(net) => client_pc[c] = "await_ack"
<1>1. ASSUME NEW d \in BagToSet(net), d \in ToServer, d.from = c
      PROVE  OfExchange(c, d) /\ ~AnswerTo(c, d) /\ d # Tell("ack", c)
  <2>1. d \in Traffic(c)
    BY <1>1 DEF Traffic
  <2>2. OfExchange(c, d)
    BY <2>1, ExchangeOf
  <2>3. ~AnswerTo(c, d) /\ d # Tell("ack", c)
    BY <1>1, Mine, TwoWays DEF AnswerTo
  <2> QED
    BY <2>2, <2>3
<1>2. ASSUME NEW t \in Tuple, SendTuple(c, t) \in BagToSet(net)
      PROVE  /\ client_pc[c] = "await" /\ SendTuple(c, t) = Request(c)
             /\ request[c].kind = "out" /\ Span(request[c]) = t
  <2>1. client_pc[c] = "await" /\ SendTuple(c, t) = Request(c)
    BY <1>1, <1>2, Mine DEF OfExchange, SendTuple, ReceivedMsg
  <2> QED
    BY <2>1 DEF Request, SendTuple, GetTuple
<1>3. ASSUME NEW u \in Template, NEW kind \in Requests, GetTuple(c, kind, u) \in BagToSet(net)
      PROVE  /\ client_pc[c] = "await" /\ GetTuple(c, kind, u) = Request(c)
             /\ request[c].kind # "out" /\ request[c].kind = kind /\ Span(request[c]) = u
  <2>1. client_pc[c] = "await" /\ GetTuple(c, kind, u) = Request(c)
    BY <1>1, <1>3, Mine DEF OfExchange, GetTuple, ReceivedMsg
  <2> QED
    BY <2>1 DEF Request, SendTuple, GetTuple
<1>4. ASSUME ReceivedMsg(c) \in BagToSet(net)
      PROVE  client_pc[c] = "await_ack"
  <2>1. ReceivedMsg(c) # Request(c)
    BY DEF Request, SendTuple, GetTuple, ReceivedMsg
  <2> QED
    BY <1>1, <1>4, <2>1, Mine DEF OfExchange
<1> QED
  BY <1>2, <1>3, <1>4

\* What the server's steps do to the histories.
LEMMA AcceptsHistory ==
  ASSUME SystemTypes, SystemTypes', RepeatsLeft, ServingType, ServingType', ServerLeavesClients,
         Exchanges, Histories, Serve, NEW x \in Client, NEW t \in Tuple, Accepts(x, t)
  PROVE  Histories'
<1> SUFFICES ASSUME NEW c \in Client PROVE HistoryKnows(c)' /\ Bounded(c)'
  BY DEF Histories
<1> USE DEF SystemTypes
<1> DEFINE d == SendTuple(x, t)
<1>1. /\ pc = "receive" /\ pc' = "out" /\ handler'.sender = x
      /\ Moves(d, {}) /\ NothingServed /\ NobodyRefused
  BY DEF Accepts
<1>2. ~Halted /\ ~Working(c) /\ (Working(c)' <=> c = x)
  BY <1>1 DEF Halted, Faults, Working
<1>3. UNCHANGED <<served, refused>>
  BY <1>1, ServesNobody, RefusesNobody
<1>4. BagToSet(net') \subseteq BagToSet(net)
  BY <1>1, OnlyAdded
<1>5. HistoryKnows(c)'
  BY <1>3, <1>4, HistoryKept DEF Histories
<1>6. d \in ToServer /\ d \in BagToSet(net)
  BY <1>1, Mine DEF Moves
<1>7. c = x => client_pc[c] = "await" /\ d = Request(c)
  BY <1>2, <1>6, ReadsRequest DEF Exchanges
<1>8. /\ Asking(c)' = Asking(c) - IF client_pc[c] \in {"send", "await"} /\ d = Request(c)
                                  THEN 1 ELSE 0
      /\ Waits(c)' = Waits(c) + 0
  <2>1. Tell("await", c) \notin {}
    OBVIOUS
  <2> HIDE DEF d
  <2> QED
    BY <1>1, <1>6, CountsMove
<1>9. Costs(c)
  <2>1. Len(served[c]) \in Nat /\ Asking(c) \in Nat /\ Waits(c) \in Nat
    BY CountsType
  <2>2. Busy(c) = 0 /\ Busy(c)' = IF c = x THEN 1 ELSE 0
    BY <1>2 DEF Busy
  <2> HIDE DEF d
  <2> QED
    BY <1>3, <1>7, <1>8, <2>1, <2>2 DEF Costs
<1>10. Bounded(c)'
  BY <1>2, <1>9, BoundedKept DEF Histories, ServerLeavesClients, LeavesClient
<1> QED
  BY <1>5, <1>10

LEMMA HandsHistory ==
  ASSUME SystemTypes, SystemTypes', RepeatsLeft, ServingType, ServingType', ServerLeavesClients,
         Exchanges, Histories, Serve, "inp" \in Requests, NEW x \in Client, NEW u \in Template,
         NEW t \in Tuple, Hands(x, u, t)
  PROVE  Histories'
<1> SUFFICES ASSUME NEW c \in Client PROVE HistoryKnows(c)' /\ Bounded(c)'
  BY DEF Histories
<1> USE DEF SystemTypes
<1> DEFINE d == GetTuple(x, "inp", u)
           a == Carrying(x, t)
<1>1. pc = "receive" /\ pc' = "resend" /\ Moves(d, {a}) /\ NobodyRefused
  BY DEF Hands
<1>2. ~Halted /\ ~Working(c) /\ ~Working(c)'
  BY <1>1 DEF Halted, Faults, Working
<1>3. served' = [served EXCEPT ![x] = Append(@, t)] /\ UNCHANGED refused
  <2>1. served' = [served EXCEPT ![x] = Append(@, t)]
    BY ServesOne DEF Hands
  <2> QED
    BY <1>1, <2>1, RefusesNobody
<1>4. /\ c = x => served'[c] = Append(served[c], t)
      /\ c # x => served'[c] = served[c]
  BY <1>3 DEF ServingType
<1>5. BagToSet(net') \subseteq BagToSet(net) \cup {a}
  BY <1>1, OnlyAdded
<1>6. d \in ToServer /\ d \in BagToSet(net) /\ a \in Message /\ a.to = x /\ a.type = "tuple"
  BY <1>1, Mine DEF Moves
<1>7. c = x => client_pc[c] = "await" /\ d = Request(c)
  BY <1>2, <1>6, ReadsRequest DEF Exchanges
<1>8. HistoryKnows(c)'
  <2>1. /\ Tell("ack", c) \in BagToSet(net') => Tell("ack", c) \in BagToSet(net)
        /\ Tell("lack", c) \in BagToSet(net') => Tell("lack", c) \in BagToSet(net)
    BY <1>5, <1>6 DEF Tell
  <2>2. ASSUME NEW y \in Tuple, Carrying(c, y) \in BagToSet(net')
        PROVE  Carrying(c, y) \in BagToSet(net) \/ ServedTo(c, y)'
    <3>1. CASE Carrying(c, y) = a
      <4>1. c = x /\ y = t
        BY <3>1 DEF Carrying
      <4>2. served[c] \in Seq(Tuple)
        BY DEF ServingType
      <4>3. Len(served[c]) + 1 \in DOMAIN Append(served[c], t)
            /\ Append(served[c], t)[Len(served[c]) + 1] = t
        BY <4>2
      <4> QED
        BY <1>4, <4>1, <4>3 DEF ServedTo
    <3> QED
      BY <1>5, <2>2, <3>1
  <2>3. HistoryKnows(c)
    BY DEF Histories
  <2> HIDE DEF d, a
  <2> QED
    BY <1>3, <1>4, <1>7, <2>1, <2>2, <2>3, HistoryKept
<1>9. /\ Asking(c)' = Asking(c) - IF client_pc[c] \in {"send", "await"} /\ d = Request(c)
                                  THEN 1 ELSE 0
      /\ Waits(c)' = Waits(c) + 0
  <2>1. Tell("await", c) \notin {a} /\ {a} \in SUBSET Message
    BY <1>6 DEF Tell
  <2> HIDE DEF d, a
  <2> QED
    BY <1>1, <1>6, <2>1, CountsMove
<1>10. Costs(c)
  <2>1. Len(served[c]) \in Nat /\ Asking(c) \in Nat /\ Waits(c) \in Nat
    BY CountsType
  <2>2. Busy(c) = 0 /\ Busy(c)' = 0
    BY <1>2 DEF Busy
  <2>3. Len(served'[c]) = Len(served[c]) + IF c = x THEN 1 ELSE 0
    BY <1>4, <2>1 DEF ServingType
  <2>4. CASE c = x
    <3>1. Asking(c)' = Asking(c) - 1 /\ Waits(c)' = Waits(c) /\ Len(served'[c]) = Len(served[c]) + 1
      BY <1>7, <1>9, <2>1, <2>3, <2>4
    <3> QED
      BY <2>1, <2>2, <3>1 DEF Costs
  <2>5. CASE c # x
    <3>1. Asking(c)' <= Asking(c) /\ Waits(c)' = Waits(c) /\ Len(served'[c]) = Len(served[c])
      BY <1>9, <2>1, <2>3, <2>5
    <3>2. Asking(c)' \in Int
      BY <1>9, <2>1
    <3>3. \A n, asking, waits, less \in Int :
            less <= asking =>
              /\ n + less + 0 <= n + asking + 0
              /\ n + less + waits <= n + asking + waits
              /\ waits + less <= waits + asking
      OBVIOUS
    <3> QED
      BY <2>1, <2>2, <3>1, <3>2, <3>3 DEF Costs
  <2> QED
    BY <2>4, <2>5
<1>11. Bounded(c)'
  BY <1>2, <1>10, BoundedKept DEF Histories, ServerLeavesClients, LeavesClient
<1> QED
  BY <1>8, <1>11

LEMMA RefusesHistory ==
  ASSUME SystemTypes, SystemTypes', RepeatsLeft, ServingType, ServingType', ServerLeavesClients,
         Exchanges, Histories, Serve, "inp" \in Requests, NEW x \in Client, NEW u \in Template,
         Refuses(x, u)
  PROVE  Histories'
<1> SUFFICES ASSUME NEW c \in Client PROVE HistoryKnows(c)' /\ Bounded(c)'
  BY DEF Histories
<1> USE DEF SystemTypes
<1> DEFINE d == GetTuple(x, "inp", u)
           a == Tell("lack", x)
           w == Tell("await", x)
<1>1. /\ pc = "receive" /\ pc' = "resend" /\ Moves(d, {a, w}) /\ NothingServed
      /\ \A y \in Client : Contains(sent', Tell("lack", y)) <=> y = x
  BY DEF Refuses
<1>2. ~Halted /\ ~Working(c) /\ ~Working(c)'
  BY <1>1 DEF Halted, Faults, Working
<1>3. served' = served
  BY <1>1, ServesNobody
<1>4. /\ c = x => refused'[c] = TRUE
      /\ c # x => refused'[c] = refused[c]
  <2>1. refused'[c] = (refused[c] \/ Contains(sent', Tell("lack", c)))
    BY DEF Serve
  <2>2. refused[c] \in BOOLEAN
    BY DEF ServingType
  <2> QED
    BY <1>1, <2>1, <2>2
<1>5. BagToSet(net') \subseteq BagToSet(net) \cup {a, w}
  BY <1>1, OnlyAdded
<1>6. /\ d \in ToServer /\ d \in BagToSet(net)
      /\ a \in Message /\ a.to = x /\ a.type = "lack"
      /\ w \in Message /\ w.to = x /\ w.type = "await"
  BY <1>1, Mine DEF Moves
<1>7. c = x => client_pc[c] = "await" /\ d = Request(c)
  BY <1>2, <1>6, ReadsRequest DEF Exchanges
<1>8. HistoryKnows(c)'
  <2>1. /\ Tell("ack", c) \in BagToSet(net') => Tell("ack", c) \in BagToSet(net)
        /\ Tell("lack", c) \in BagToSet(net') => Tell("lack", c) \in BagToSet(net) \/ c = x
    BY <1>5 DEF Tell
  <2>2. \A y \in Tuple : Carrying(c, y) \in BagToSet(net') => Carrying(c, y) \in BagToSet(net)
    BY <1>5, <1>6 DEF Carrying
  <2>3. HistoryKnows(c)
    BY DEF Histories
  <2> HIDE DEF d, a, w
  <2> QED
    BY <1>3, <1>4, <1>7, <2>1, <2>2, <2>3, HistoryKept
<1>9. /\ Asking(c)' = Asking(c) - IF client_pc[c] \in {"send", "await"} /\ d = Request(c)
                                  THEN 1 ELSE 0
      /\ Waits(c)' = Waits(c) + IF c = x THEN 1 ELSE 0
  <2>1. {a, w} \in SUBSET Message /\ (Tell("await", c) \in {a, w} <=> c = x)
    BY <1>6 DEF Tell
  <2> HIDE DEF d, a, w
  <2> QED
    BY <1>1, <1>6, <2>1, CountsMove
<1>10. Costs(c)
  <2>1. Len(served[c]) \in Nat /\ Asking(c) \in Nat /\ Waits(c) \in Nat /\ served' = served
    BY <1>3, CountsType
  <2>2. Busy(c) = 0 /\ Busy(c)' = 0
    BY <1>2 DEF Busy
  <2>3. CASE c = x
    <3>1. Asking(c)' = Asking(c) - 1 /\ Waits(c)' = Waits(c) + 1 /\ client_pc[c] = "await"
      BY <1>7, <1>9, <2>1, <2>3
    <3> QED
      BY <2>1, <2>2, <3>1 DEF Costs
  <2>4. CASE c # x
    <3>1. Asking(c)' <= Asking(c) /\ Asking(c)' \in Int /\ Waits(c)' = Waits(c)
      BY <1>9, <2>1, <2>4
    <3> QED
      BY <2>1, <2>2, <3>1 DEF Costs
  <2> QED
    BY <2>3, <2>4
<1>11. Bounded(c)'
  BY <1>2, <1>10, BoundedKept DEF Histories, ServerLeavesClients, LeavesClient
<1> QED
  BY <1>8, <1>11

LEMMA ConfirmsHistory ==
  ASSUME SystemTypes, SystemTypes', RepeatsLeft, ServingType, ServingType', ServerLeavesClients,
         Exchanges, Histories, Serve, NEW x \in Client, Confirms(x)
  PROVE  Histories'
<1> SUFFICES ASSUME NEW c \in Client PROVE HistoryKnows(c)' /\ Bounded(c)'
  BY DEF Histories
<1> USE DEF SystemTypes
<1> DEFINE d == ReceivedMsg(x)
           a == Tell("ack", x)
<1>1. /\ pc = "receive" /\ pc' = "resend" /\ Moves(d, {a}) /\ NothingServed /\ NobodyRefused
  BY DEF Confirms
<1>2. ~Halted /\ ~Working(c) /\ ~Working(c)'
  BY <1>1 DEF Halted, Faults, Working
<1>3. UNCHANGED <<served, refused>>
  BY <1>1, ServesNobody, RefusesNobody
<1>4. BagToSet(net') \subseteq BagToSet(net) \cup {a}
  BY <1>1, OnlyAdded
<1>5. d \in ToServer /\ d \in BagToSet(net) /\ a \in Message /\ a.type = "ack"
  BY <1>1, Mine DEF Moves
<1>6. c = x => client_pc[c] = "await_ack"
  BY <1>2, <1>5, ReadsRequest DEF Exchanges
<1>7. HistoryKnows(c)'
  <2>1. /\ Tell("ack", c) \in BagToSet(net') => Tell("ack", c) \in BagToSet(net) \/ c = x
        /\ Tell("lack", c) \in BagToSet(net') => Tell("lack", c) \in BagToSet(net)
    BY <1>4 DEF Tell
  <2>2. \A y \in Tuple : Carrying(c, y) \in BagToSet(net') => Carrying(c, y) \in BagToSet(net)
    BY <1>4, <1>5 DEF Carrying
  <2>3. HistoryKnows(c)
    BY DEF Histories
  <2> HIDE DEF d, a
  <2> QED
    BY <1>3, <1>6, <2>1, <2>2, <2>3, HistoryKept
<1>8. /\ Asking(c)' = Asking(c) - IF client_pc[c] \in {"send", "await"} /\ d = Request(c)
                                  THEN 1 ELSE 0
      /\ Waits(c)' = Waits(c) + 0
  <2>1. Tell("await", c) \notin {a} /\ {a} \in SUBSET Message
    BY <1>5 DEF Tell
  <2> HIDE DEF d, a
  <2> QED
    BY <1>1, <1>5, <2>1, CountsMove
<1>9. Costs(c)
  <2>1. Len(served[c]) \in Nat /\ Asking(c) \in Nat /\ Waits(c) \in Nat /\ served' = served
    BY <1>3, CountsType
  <2>2. Busy(c) = 0 /\ Busy(c)' = 0
    BY <1>2 DEF Busy
  <2>3. Asking(c)' <= Asking(c) /\ Asking(c)' \in Int /\ Waits(c)' = Waits(c)
    BY <1>8, <2>1
  <2> QED
    BY <2>1, <2>2, <2>3 DEF Costs
<1>10. Bounded(c)'
  BY <1>2, <1>9, BoundedKept DEF Histories, ServerLeavesClients, LeavesClient
<1> QED
  BY <1>7, <1>10

LEMMA SavesHistory ==
  ASSUME SystemTypes, SystemTypes', RepeatsLeft, ServingType, ServingType', ServerLeavesClients,
         Exchanges, Histories, Serve, NEW x \in Client, NEW t \in Tuple, Saves(x, t)
  PROVE  Histories'
<1> SUFFICES ASSUME NEW c \in Client PROVE HistoryKnows(c)' /\ Bounded(c)'
  BY DEF Histories
<1> USE DEF SystemTypes
<1> DEFINE a == Tell("ack", x)
<1>1. pc = "out" /\ pc' = "resend" /\ handler.sender = x /\ Adds({a}) /\ NobodyRefused
  BY DEF Saves
<1>2. ~Halted /\ (Working(c) <=> c = x) /\ ~Working(c)'
  BY <1>1 DEF Halted, Faults, Working
<1>3. served' = [served EXCEPT ![x] = Append(@, t)] /\ UNCHANGED refused
  <2>1. served' = [served EXCEPT ![x] = Append(@, t)]
    BY ServesOne DEF Saves
  <2> QED
    BY <1>1, <2>1, RefusesNobody
<1>4. /\ c = x => served'[c] = Append(served[c], t)
      /\ c # x => served'[c] = served[c]
  BY <1>3 DEF ServingType
<1>5. BagToSet(net') \subseteq BagToSet(net) \cup {a}
  BY <1>1, OnlyAdded
<1>6. a \in Message /\ a.type = "ack"
  BY Mine
<1>7. c = x => client_pc[c] = "await"
  BY <1>2 DEF Exchanges, OneExchange
<1>8. c = x => served'[c] # <<>>
  BY <1>4, AppendProperties DEF ServingType
<1>9. HistoryKnows(c)'
  <2>1. /\ Tell("ack", c) \in BagToSet(net') => Tell("ack", c) \in BagToSet(net) \/ c = x
        /\ Tell("lack", c) \in BagToSet(net') => Tell("lack", c) \in BagToSet(net)
    BY <1>5 DEF Tell
  <2>2. \A y \in Tuple : Carrying(c, y) \in BagToSet(net') => Carrying(c, y) \in BagToSet(net)
    BY <1>5, <1>6 DEF Carrying
  <2>3. HistoryKnows(c)
    BY DEF Histories
  <2> HIDE DEF a
  <2> QED
    BY <1>3, <1>4, <1>7, <1>8, <2>1, <2>2, <2>3, HistoryKept
<1>10. Asking(c)' = Asking(c) /\ Waits(c)' = Waits(c)
  <2>1. Tell("await", c) \notin {a} /\ {a} \in SUBSET Message
    BY <1>6 DEF Tell
  <2> HIDE DEF a
  <2> QED
    BY <1>1, <2>1, CountsAdd
<1>11. Costs(c)
  <2>1. Len(served[c]) \in Nat /\ Asking(c) \in Nat /\ Waits(c) \in Nat
    BY CountsType
  <2>2. Busy(c) = (IF c = x THEN 1 ELSE 0) /\ Busy(c)' = 0
    BY <1>2 DEF Busy
  <2>3. Len(served'[c]) = Len(served[c]) + IF c = x THEN 1 ELSE 0
    BY <1>4, <2>1 DEF ServingType
  <2>4. CASE c = x
    <3>1. request[c].kind = "out"
      BY <1>2, <2>4 DEF Exchanges, OneExchange
    <3> QED
      BY <1>10, <2>1, <2>2, <2>3, <2>4, <3>1 DEF Costs
  <2>5. CASE c # x
    BY <1>10, <2>1, <2>2, <2>3, <2>5 DEF Costs
  <2> QED
    BY <2>4, <2>5
<1>12. Bounded(c)'
  BY <1>2, <1>11, BoundedKept DEF Histories, ServerLeavesClients, LeavesClient
<1> QED
  BY <1>9, <1>12

LEMMA RestsHistory ==
  ASSUME SystemTypes, SystemTypes', RepeatsLeft, ServingType, ServingType', ServerLeavesClients,
         Histories, Serve, Rests
  PROVE  Histories'
<1> SUFFICES ASSUME NEW c \in Client PROVE HistoryKnows(c)' /\ Bounded(c)'
  BY DEF Histories
<1> USE DEF SystemTypes
<1>1. /\ pc \in {"resend", "sweep"} /\ pc' \in {"sweep", "receive"}
      /\ Adds({}) /\ NothingServed /\ NobodyRefused
  BY DEF Rests
<1>2. ~Halted /\ ~Working(c) /\ ~Working(c)'
  BY <1>1 DEF Halted, Faults, Working
<1>3. UNCHANGED <<served, refused>>
  BY <1>1, ServesNobody, RefusesNobody
<1>4. BagToSet(net') \subseteq BagToSet(net)
  BY <1>1, OnlyAdded
<1>5. HistoryKnows(c)'
  BY <1>3, <1>4, HistoryKept DEF Histories
<1>6. Asking(c)' = Asking(c) /\ Waits(c)' = Waits(c)
  BY <1>1, CountsAdd
<1>7. Costs(c)
  <2>1. Len(served[c]) \in Nat /\ Asking(c) \in Nat /\ Waits(c) \in Nat
    BY CountsType
  <2>2. Busy(c) = 0 /\ Busy(c)' = 0
    BY <1>2 DEF Busy
  <2> QED
    BY <1>3, <1>6, <2>1, <2>2 DEF Costs
<1>8. Bounded(c)'
  BY <1>2, <1>7, BoundedKept DEF Histories, ServerLeavesClients, LeavesClient
<1> QED
  BY <1>5, <1>8

LEMMA ServerHistories ==
  ASSUME OnlyInp, QuietRatio, ServerFacts, ServerFacts', SystemTypes, SystemTypes', RepeatsLeft,
         ServingType, ServingType', ServerLeavesClients, Exchanges, Histories, ServerWorks, Serve
  PROVE  Histories'
<1>1. NetType
  BY DEF SystemTypes
<1>2. ASSUME NEW x \in Client, NEW u \in Template, NEW t \in Tuple, Hands(x, u, t)
      PROVE  Histories'
  BY <1>1, <1>2, InpIsRead, HandsHistory DEF Hands, Moves
<1>3. ASSUME NEW x \in Client, NEW u \in Template, Refuses(x, u)
      PROVE  Histories'
  BY <1>1, <1>3, InpIsRead, RefusesHistory DEF Refuses, Moves
<1> QED
  BY <1>1, <1>2, <1>3, ServerActs, AcceptsHistory, SavesHistory, ConfirmsHistory, RestsHistory

\* The clients' steps.
LEMMA ForgetKeeps ==
  ASSUME ServingType, Forget
  PROVE  /\ ServingType'
         /\ \A c \in Client :
              /\ client_pc'[c] # "idle" => served'[c] = served[c] /\ refused'[c] = refused[c]
              /\ client_pc'[c] = "idle" => served'[c] = <<>> /\ refused'[c] = FALSE
<1>1. <<>> \in Seq(Tuple)
  BY EmptySeq
<1>2. \A c \in Client :
        /\ client_pc'[c] # "idle" => served'[c] = served[c]
        /\ client_pc'[c] = "idle" => served'[c] = <<>>
  BY DEF Forget
<1>3. \A c \in Client : refused[c] \in BOOLEAN
  BY DEF ServingType
<1>4. \A c \in Client :
        /\ client_pc'[c] # "idle" => refused'[c] = refused[c]
        /\ client_pc'[c] = "idle" => refused'[c] = FALSE
  BY <1>3, Zenon DEF Forget
<1>5. served' \in [Client -> Seq(Tuple)]
  BY <1>1 DEF Forget, ServingType
<1>6. refused' \in [Client -> BOOLEAN]
  BY Zenon DEF Forget, ServingType
<1> QED
  BY <1>2, <1>4, <1>5, <1>6 DEF ServingType

\* Between two exchanges nothing of a client is under way.
Silent(c) == ~Working(c) /\ \A d \in Traffic(c) : CopiesOf(d, net) = 0

LEMMA SilentBetween ==
  NetType /\ Exchanges =>
    \A c \in Client : client_pc[c] \notin {"await", "await_ack"} => Silent(c)
<1> SUFFICES ASSUME NetType, Exchanges, NEW c \in Client, client_pc[c] \notin {"await", "await_ack"}
             PROVE  Silent(c)
  OBVIOUS
<1>1. ~Working(c) /\ Only(c, {})
  BY DEF Exchanges, OneExchange, OfExchange
<1>2. \A d : CopiesOf(d, net) \in Nat
  BY CopiesType DEF NetType
<1> QED
  BY <1>1, <1>2 DEF Silent, Only

LEMMA SilentBetweenNext ==
  NetType' /\ Exchanges' =>
    (\A c \in Client : client_pc[c] \notin {"await", "await_ack"} => Silent(c))'
BY SilentBetween, PTL

LEMMA MessagesLeave ==
  ASSUME ClientType, NetType, NetType', NEW x \in Client, ClientStep(x) \/ WindowEnds(x)
  PROVE  /\ \A d \in Message : CopiesOf(d, net') <= CopiesOf(d, net)
         /\ \A d \in ToServer : d.from # x => CopiesOf(d, net') = CopiesOf(d, net)
         /\ BagToSet(net') \cap Message \subseteq BagToSet(net)
<1>1. \A e : CopiesOf(e, net) \in Nat /\ (e \in BagToSet(net) <=> CopiesOf(e, net) > 0)
  BY CopiesType DEF NetType
<1>2. \A e : CopiesOf(e, net') \in Nat /\ (e \in BagToSet(net') <=> CopiesOf(e, net') > 0)
  BY CopiesType DEF NetType
<1>3. /\ \A d \in Message : CopiesOf(d, net') <= CopiesOf(d, net)
      /\ \A d \in ToServer : d.from # x => CopiesOf(d, net') = CopiesOf(d, net)
  <2>1. CASE net' = net
    BY <1>1, <2>1
  <2>2. ASSUME NEW d \in ToServer, d.from = x, net' = net (+) SetToBag({d})
        PROVE  /\ \A e \in Message : CopiesOf(e, net') <= CopiesOf(e, net)
               /\ \A e \in ToServer : e.from # x => CopiesOf(e, net') = CopiesOf(e, net)
    <3>1. d \notin Message
      BY <2>2, TwoWays
    <3>2. \A e : CopiesOf(e, net') = CopiesOf(e, net) + (IF e \in {d} THEN 1 ELSE 0)
      BY <2>2, BagGains DEF NetType
    <3> QED
      BY <1>1, <2>2, <3>1, <3>2
  <2>3. ASSUME NEW d \in Inbox(x), net' = net (-) SetToBag({d})
        PROVE  /\ \A e \in Message : CopiesOf(e, net') <= CopiesOf(e, net)
               /\ \A e \in ToServer : e.from # x => CopiesOf(e, net') = CopiesOf(e, net)
    <3>1. d \in BagToSet(net) /\ d \notin ToServer
      BY TwoWays DEF Inbox
    <3>2. \A e : CopiesOf(e, net') = CopiesOf(e, net) - (IF e = d THEN 1 ELSE 0)
      BY <2>3, <3>1, BagLoses DEF NetType
    <3> QED
      BY <1>1, <3>1, <3>2
  <2> QED
    BY <2>1, <2>2, <2>3, ClientTouchesNet
<1> QED
  BY <1>1, <1>2, <1>3

LEMMA ClientKnows ==
  ASSUME SystemTypes, SystemTypes', NoStrangers, Exchanges, Exchanges', Histories, ServingType,
         Forget, NEW x \in Client, ClientStep(x) \/ WindowEnds(x), NEW c \in Client
  PROVE  HistoryKnows(c)'
<1> USE DEF SystemTypes
<1>1. HistoryKnows(c)
  BY DEF Histories
<1>2. /\ client_pc'[c] # "idle" => served'[c] = served[c] /\ refused'[c] = refused[c]
      /\ client_pc'[c] = "idle" => served'[c] = <<>> /\ refused'[c] = FALSE
  BY ForgetKeeps
<1>3. \A d \in Message : d \in BagToSet(net') => d \in BagToSet(net)
  BY MessagesLeave
<1>4. ASSUME client_pc'[c] \notin {"await", "await_ack"}, NEW d \in Message, d.to = c, d.type # "await"
      PROVE  d \notin BagToSet(net')
  <2>1. Silent(c)'
    BY <1>4, SilentBetweenNext
  <2>2. d \in Traffic(c)'
    BY <1>4 DEF Traffic
  <2>3. CopiesOf(d, net') = 0
    BY <2>1, <2>2 DEF Silent
  <2> QED
    BY <2>3, CopiesType DEF NetType
<1>5. client_pc'[c] = "await" => client_pc[c] \in {"send", "await"}
  BY OthersKeep DEF ClientStep, Call, SendRequest, SendRequestFails, ReceiveAck, ReceiveAnswer,
       SendAck, SendAckFails, ReceiveAckOfAck, WindowEnds, Enter, Finish, Goto, ClientType, Windows
<1>6. client_pc'[c] = "await" /\ Tell("ack", c) \in BagToSet(net') => served'[c] # <<>>
  <2> SUFFICES ASSUME client_pc'[c] = "await", Tell("ack", c) \in BagToSet(net')
               PROVE  served'[c] # <<>>
    OBVIOUS
  <2>1. Tell("ack", c) \in BagToSet(net)
    BY <1>3, Mine
  <2>2. client_pc[c] # "send"
    <3>1. Tell("ack", c) \in Traffic(c)
      BY Mine DEF Traffic
    <3>2. CopiesOf(Tell("ack", c), net) > 0
      BY <2>1, CopiesType DEF NetType
    <3> QED
      BY <3>1, <3>2, SilentBetween DEF Silent
  <2> QED
    BY <1>1, <1>2, <1>5, <2>1, <2>2 DEF HistoryKnows
<1>7. \A t \in Tuple : Carrying(c, t) \in BagToSet(net') => ServedTo(c, t)'
  <2> SUFFICES ASSUME NEW t \in Tuple, Carrying(c, t) \in BagToSet(net')
               PROVE  ServedTo(c, t)'
    OBVIOUS
  <2>1. client_pc'[c] # "idle"
    BY <1>4, Mine
  <2>2. ServedTo(c, t)
    BY <1>1, <1>3, Mine DEF HistoryKnows
  <2> QED
    BY <1>2, <2>1, <2>2 DEF ServedTo
<1>8. Tell("lack", c) \in BagToSet(net') => refused'[c] = TRUE
  <2> SUFFICES ASSUME Tell("lack", c) \in BagToSet(net')
               PROVE  refused'[c] = TRUE
    OBVIOUS
  <2>1. client_pc'[c] # "idle"
    BY <1>4, Mine
  <2>2. refused[c] = TRUE
    BY <1>1, <1>3, Mine DEF HistoryKnows
  <2> QED
    BY <1>2, <2>1, <2>2
<1>9. client_pc'[c] \in {"ack", "await_ack"} =>
        /\ context'[c].response = "lack" => refused'[c] = TRUE
        /\ context'[c].response = "tuple" => ServedTo(c, context[c].tuple)'
  <2> SUFFICES ASSUME client_pc'[c] \in {"ack", "await_ack"}
               PROVE  /\ context'[c].response = "lack" => refused[c] = TRUE
                      /\ context'[c].response = "tuple" => ServedTo(c, context'[c].tuple)
    BY <1>2 DEF ServedTo
  <2>1. CASE client_pc[c] \in {"ack", "await_ack"} /\ context'[c] = context[c]
    BY <1>1, <2>1 DEF HistoryKnows
  <2>2. ASSUME NEW d \in BagToSet(net), AnswerTo(c, d), request[c].kind # "out", context'[c] = Recorded(d)
        PROVE  /\ context'[c].response = "lack" => refused[c] = TRUE
               /\ context'[c].response = "tuple" => ServedTo(c, context'[c].tuple)
    <3>1. CASE d = Tell("lack", c)
      <4>1. refused[c] = TRUE
        BY <1>1, <3>1 DEF HistoryKnows
      <4>2. context'[c].response = "lack"
        BY <2>2, <3>1 DEF Recorded, Tell, NoContext
      <4> QED
        BY <4>1, <4>2
    <3>2. ASSUME NEW t \in Tuple, d = Carrying(c, t)
          PROVE  context'[c].response = "tuple" /\ context'[c].tuple = t /\ ServedTo(c, t)
      <4>1. ServedTo(c, t)
        BY <1>1, <3>2 DEF HistoryKnows
      <4> QED
        BY <2>2, <3>2, <4>1 DEF Recorded, Carrying, NoContext
    <3> QED
      BY <2>2, <3>1, <3>2 DEF AnswerTo
  <2>3. OneExchange(c)
    BY DEF Exchanges
  <2> QED
    BY <2>1, <2>2, <2>3, ContextComes
<1> QED
  BY <1>2, <1>6, <1>7, <1>8, <1>9 DEF HistoryKnows

LEMMA OthersBounded ==
  ASSUME SystemTypes, SystemTypes', RepeatsLeft, UNCHANGED vars, ~Halted, Histories,
         ServingType, ServingType', Forget, NEW x \in Client, ClientStep(x) \/ WindowEnds(x),
         NEW c \in Client, c # x
  PROVE  Bounded(c)'
<1> USE DEF SystemTypes
<1>1. LeavesClient(c)
  BY OthersKeep DEF LeavesClient
<1>2. served'[c] = served[c]
  BY <1>1, ForgetKeeps DEF LeavesClient, Histories, HistoryKnows
<1>3. Busy(c)' = Busy(c)
  BY DEF Busy, Working, vars
<1>4. Waits(c)' <= Waits(c)
  BY MessagesLeave, Mine DEF Waits
<1>5. Asking(c)' = Asking(c)
  <2>1. Request(c)' = Request(c)
    BY <1>1 DEF Request, LeavesClient
  <2>2. client_pc[c] \in {"send", "await"} => Request(c) \in ToServer /\ Request(c).from = c
    BY RequestType DEF Request, SendTuple, GetTuple
  <2>3. client_pc[c] \in {"send", "await"} => CopiesOf(Request(c), net') = CopiesOf(Request(c), net)
    BY <2>2, MessagesLeave
  <2> QED
    BY <1>1, <2>1, <2>3 DEF Asking, LeavesClient
<1>6. /\ Len(served[c]) \in Nat /\ Asking(c) \in Nat /\ Waits(c) \in Nat /\ Busy(c) \in Nat
  BY CountsType
<1>7. Waits(c)' \in Nat
  BY CopiesType DEF NetType, Waits
<1>8. Costs(c)
  BY <1>2, <1>3, <1>4, <1>5, <1>6, <1>7 DEF Costs
<1> QED
  BY <1>1, <1>8, BoundedKept DEF Histories

\* The ways a client goes on.
LEMMA GoesOn ==
  ASSUME OneAtATime, ClientType, NEW c \in Client, ClientStep(c) \/ WindowEnds(c)
  PROVE  \/ /\ client_pc[c] = "idle" /\ client_pc'[c] = "send"
            /\ repeats'[c] = MaxRepeats /\ calls'[c] = calls[c] + 1
         \/ /\ client_pc[c] = "send" /\ client_pc'[c] = "await"
            /\ UNCHANGED <<request, repeats, calls>>
            /\ net' = net (+) SetToBag({Request(c)})
         \/ /\ client_pc[c] = "await" /\ UNCHANGED <<client_pc, request, repeats, calls>>
            /\ \E d \in Inbox(c) : net' = net (-) SetToBag({d})
         \/ /\ client_pc[c] = "await" /\ UNCHANGED <<client_pc, request, calls>>
            /\ request[c].kind # "out"
            /\ repeats'[c] = IF repeats[c] = 0 THEN 0 ELSE repeats[c] + 1
            /\ \E d \in Inbox(c) : d.type = "await" /\ net' = net (-) SetToBag({d})
         \/ /\ client_pc[c] = "await" /\ client_pc'[c] = "send"
            /\ UNCHANGED <<request, calls, net>> /\ WindowEnds(c)
            /\ repeats'[c] = IF repeats[c] = 0 THEN 0 ELSE repeats[c] - 1
         \/ /\ client_pc'[c] \notin {"send", "await"}
            /\ client_pc'[c] = "idle" \/ client_pc[c] # "idle"
            /\ calls'[c] >= calls[c]
<1> USE DEF ClientType
<1>1. CASE Call(c)
  BY <1>1 DEF Call, Enter, Finish, Goto
<1>2. CASE SendRequest(c)
  BY <1>2 DEF SendRequest, Goto, OneAtATime
<1>3. CASE ReceiveAck(c)
  <2>1. client_pc[c] = "await" /\ UNCHANGED <<request, calls>>
    BY <1>3 DEF ReceiveAck
  <2>2. \/ client_pc'[c] = "idle"
        \/ UNCHANGED <<client_pc, repeats>> /\ \E d \in Inbox(c) : net' = net (-) SetToBag({d})
    BY <1>3 DEF ReceiveAck, Finish, Goto
  <2>3. calls'[c] >= calls[c]
    BY <2>1
  <2> QED
    BY <2>1, <2>2, <2>3
<1>4. CASE ReceiveAnswer(c)
  <2>1. PICK d \in Inbox(c) :
          /\ net' = net (-) SetToBag({d})
          /\ \/ /\ d.type = "await"
                /\ repeats' = [repeats EXCEPT ![c] = IF @ = 0 THEN 0 ELSE @ + 1]
                /\ UNCHANGED <<client_pc, context>>
             \/ /\ d.type # "await"
                /\ context' = [context EXCEPT ![c] = Recorded(d)]
                /\ Enter(c, "ack")
    BY <1>4 DEF ReceiveAnswer
  <2>2. client_pc[c] = "await" /\ request[c].kind # "out" /\ UNCHANGED <<request, calls>>
    BY <1>4 DEF ReceiveAnswer
  <2>3. CASE d.type = "await"
    BY <2>1, <2>2, <2>3
  <2>4. CASE d.type # "await"
    BY <2>1, <2>2, <2>4 DEF Enter, Goto
  <2> QED
    BY <2>3, <2>4
<1>5. CASE SendAck(c) \/ ReceiveAckOfAck(c)
  <2>1. client_pc[c] \in {"ack", "await_ack"} /\ calls'[c] >= calls[c]
    BY <1>5 DEF SendAck, ReceiveAckOfAck
  <2>2. client_pc'[c] \in {"idle", "await_ack"}
    BY <1>5 DEF SendAck, ReceiveAckOfAck, Finish, Goto
  <2> QED
    BY <2>1, <2>2
<1>6. CASE WindowEnds(c)
  <2>1. CASE LastRepeat(c)
    BY <1>6, <2>1 DEF WindowEnds, Finish, Goto, Windows
  <2>2. CASE ~LastRepeat(c)
    <3>1. /\ client_pc[c] \in {"await", "await_ack"} /\ UNCHANGED <<request, calls, net>>
          /\ client_pc'[c] = IF client_pc[c] = "await" THEN "send" ELSE "ack"
          /\ repeats'[c] = IF repeats[c] = 0 THEN 0 ELSE repeats[c] - 1
      BY <1>6, <2>2 DEF WindowEnds, Goto, Windows
    <3>2. calls'[c] >= calls[c]
      BY <3>1
    <3>3. CASE client_pc[c] = "await"
      BY <1>6, <3>1, <3>3
    <3>4. CASE client_pc[c] = "await_ack"
      BY <3>1, <3>2, <3>4
    <3> QED
      BY <3>1, <3>3, <3>4
  <2> QED
    BY <2>1, <2>2
<1> QED
  BY <1>1, <1>2, <1>3, <1>4, <1>5, <1>6
  DEF ClientStep, SendRequestFails, SendAckFails, OneAtATime

\* Before it sends, and after it waited in vain, a client has nothing under way.
LEMMA AsksNothing ==
  ASSUME SystemTypes, NEW c \in Client, ~Halted, client_pc[c] \in {"send", "await"},
         Silent(c) \/ ~UnderWay(c)
  PROVE  Asking(c) = 0 /\ ~Working(c) /\ (~UnderWay(c) => Waits(c) = 0)
<1>1. \A d : CopiesOf(d, net) \in Nat /\ (CopiesOf(d, net) > 0 <=> d \in BagToSet(net))
  BY CopiesType DEF SystemTypes, NetType
<1>2. Request(c) \in ToServer /\ Request(c).from = c
  BY RequestType DEF SystemTypes, Request, SendTuple, GetTuple
<1>3. CASE Silent(c)
  <2>1. Request(c) \in Traffic(c)
    BY <1>2 DEF Traffic
  <2>2. Asking(c) = 0 /\ ~Working(c)
    BY <1>3, <2>1 DEF Silent, Asking
  <2>3. ~UnderWay(c) => Tell("await", c) \notin BagToSet(net)
    BY Mine, TwoWays DEF UnderWay, Inbox
  <2> QED
    BY <1>1, <2>2, <2>3 DEF Waits
<1>4. CASE ~UnderWay(c)
  <2>1. Request(c) \notin BagToSet(net) /\ Tell("await", c) \notin BagToSet(net) /\ ~Working(c)
    BY <1>2, <1>4, Mine, TwoWays DEF UnderWay, Inbox, Working
  <2> QED
    BY <1>1, <2>1 DEF Asking, Waits
<1> QED
  BY <1>3, <1>4

LEMMA AsksNothingNext ==
  ASSUME NEW c \in Client
  PROVE  (SystemTypes /\ ~Halted /\ client_pc[c] = "send" /\ Silent(c))'
           => (Asking(c) = 0 /\ ~Working(c))'
<1>1. SystemTypes /\ ~Halted /\ client_pc[c] = "send" /\ Silent(c) => Asking(c) = 0 /\ ~Working(c)
  BY AsksNothing
<1> QED
  BY <1>1, PTL

\* A new call has every sending before it, and the refusals of earlier ones.
LEMMA CallBounded ==
  ASSUME SystemTypes, SystemTypes', ServingType', UNCHANGED vars, ~Halted, NEW c \in Client,
         Bounded(c), Silent(c)', served'[c] = <<>>, Waits(c)' <= Waits(c),
         client_pc[c] = "idle", client_pc'[c] = "send",
         repeats'[c] = MaxRepeats, calls'[c] = calls[c] + 1
  PROVE  Bounded(c)'
<1>1. Asking(c)' = 0 /\ ~Working(c)'
  BY AsksNothingNext DEF vars, Halted
<1>2. Waits(c) \in Nat /\ Waits(c)' \in Nat /\ calls[c] \in Nat /\ MaxRepeats \in Nat
  BY CopiesType, ClientAssumption DEF SystemTypes, ClientType, NetType, Waits
<1>3. Waits(c) <= calls[c]
  BY <1>2 DEF Bounded, WaitsBounded, Asking
<1>4. Len(served'[c]) = 0 /\ Busy(c)' = 0 /\ Left(c)' = MaxRepeats
  BY <1>1 DEF Busy, Left
<1>5. PutsBounded(c)'
  BY <1>1, <1>2, <1>4 DEF PutsBounded
<1>6. TakesBounded(c)'
  BY <1>1, <1>2, <1>3, <1>4 DEF TakesBounded
<1>7. WaitsBounded(c)'
  BY <1>1, <1>2, <1>3 DEF WaitsBounded
<1> QED
  BY <1>5, <1>6, <1>7 DEF Bounded

\* Sending spends one.
LEMMA SendBounded ==
  ASSUME SystemTypes, SystemTypes', RepeatsLeft, ServingType, UNCHANGED vars, ~Halted,
         NEW c \in Client, Bounded(c), Silent(c), served'[c] = served[c],
         client_pc[c] = "send", client_pc'[c] = "await",
         UNCHANGED <<request, repeats, calls>>, net' = net (+) SetToBag({Request(c)})
  PROVE  Bounded(c)'
<1>1. Asking(c) = 0 /\ ~Working(c) /\ ~Working(c)'
  BY AsksNothing DEF Working, vars
<1>2. \A d : CopiesOf(d, net') = CopiesOf(d, net) + (IF d \in {Request(c)} THEN 1 ELSE 0)
  BY BagGains DEF SystemTypes, NetType
<1>3. Asking(c)' = 1
  <2>1. Request(c)' = Request(c)
    BY DEF Request
  <2>2. CopiesOf(Request(c), net) = 0
    BY <1>1 DEF Asking
  <2> QED
    BY <1>2, <2>1, <2>2 DEF Asking
<1>4. Waits(c)' = Waits(c)
  <2>1. Tell("await", c) # Request(c)
    BY RequestType, Mine, TwoWays DEF SystemTypes
  <2>2. CopiesOf(Tell("await", c), net) \in Nat
    BY CopiesType DEF SystemTypes, NetType
  <2> QED
    BY <1>2, <2>1, <2>2 DEF Waits
<1>5. repeats[c] \in Nat /\ repeats[c] >= 1 /\ Left(c) = repeats[c] /\ Left(c)' = repeats[c] - 1
  BY DEF SystemTypes, ClientType, RepeatsLeft, Left
<1>6. Busy(c) = 0 /\ Busy(c)' = 0
  BY <1>1 DEF Busy
<1>7. Waits(c) \in Nat /\ calls[c] \in Nat /\ MaxRepeats \in Nat /\ Len(served[c]) \in Nat
  BY CopiesType, ClientAssumption DEF SystemTypes, ClientType, NetType, ServingType, Waits
<1>8. PutsBounded(c)'
  BY <1>1, <1>3, <1>5, <1>6, <1>7 DEF Bounded, PutsBounded
<1>9. TakesBounded(c)'
  BY <1>1, <1>3, <1>4, <1>5, <1>7 DEF Bounded, TakesBounded
<1>10. WaitsBounded(c)'
  BY <1>3, <1>4, <1>7 DEF Bounded, WaitsBounded
<1> QED
  BY <1>8, <1>9, <1>10 DEF Bounded

\* A refusal that arrives buys another.
LEMMA AwaitBounded ==
  ASSUME SystemTypes, SystemTypes', RepeatsLeft, ServingType, UNCHANGED vars, ~Halted,
         NEW c \in Client, Bounded(c), served'[c] = served[c],
         client_pc[c] = "await", UNCHANGED <<client_pc, request, calls>>, request[c].kind # "out",
         repeats'[c] = (IF repeats[c] = 0 THEN 0 ELSE repeats[c] + 1),
         NEW d \in Inbox(c), d = Tell("await", c), net' = net (-) SetToBag({d})
  PROVE  Bounded(c)'
<1>1. d = Tell("await", c) /\ d \in Message
  BY Mine
<1>2. \A e : CopiesOf(e, net') = CopiesOf(e, net) - (IF e = d THEN 1 ELSE 0)
  BY BagLoses DEF SystemTypes, NetType, Inbox
<1>3. Waits(c)' = Waits(c) - 1
  BY <1>1, <1>2 DEF Waits
<1>4. Asking(c)' = Asking(c)
  <2>1. Request(c)' = Request(c)
    BY DEF Request
  <2>2. d # Request(c)
    BY <1>1, RequestType, TwoWays DEF SystemTypes
  <2>3. CopiesOf(Request(c), net) \in Nat
    BY CopiesType DEF SystemTypes, NetType
  <2>4. CopiesOf(Request(c), net') = CopiesOf(Request(c), net)
    <3>1. CopiesOf(Request(c), net') =
            CopiesOf(Request(c), net) - (IF Request(c) = d THEN 1 ELSE 0)
      BY <1>2
    <3> QED
      BY <2>2, <2>3, <3>1
  <2> QED
    BY <2>1, <2>4 DEF Asking
<1>5. repeats[c] \in Nat /\ repeats[c] >= 1 /\ Left(c) = repeats[c] - 1 /\ Left(c)' = repeats[c]
  BY DEF SystemTypes, ClientType, RepeatsLeft, Left
<1>6. Waits(c) \in Nat /\ calls[c] \in Nat /\ MaxRepeats \in Nat /\ Len(served[c]) \in Nat
      /\ Asking(c) \in Nat
  BY CopiesType, ClientAssumption DEF SystemTypes, ClientType, NetType, ServingType, Waits, Asking
<1>7. PutsBounded(c)'
  BY DEF PutsBounded
<1>8. TakesBounded(c)'
  <2> DEFINE n == Len(served[c])
             asking == Asking(c)
             waits == Waits(c)
             left == repeats[c]
             m == MaxRepeats + calls[c] - 1
  <2>1. n + asking + waits + (left - 1) <= m
    BY <1>5 DEF Bounded, TakesBounded
  <2>2. n \in Nat /\ asking \in Nat /\ waits \in Nat /\ left \in Nat /\ m \in Int
    BY <1>5, <1>6
  <2>3. n + asking + (waits - 1) + left <= m
    <3> HIDE DEF n, asking, waits, left, m
    <3> QED
      BY <2>1, <2>2
  <2>4. Len(served[c]) + Asking(c)' + Waits(c)' + Left(c)' <= MaxRepeats + calls[c] - 1
    BY <1>3, <1>4, <1>5, <2>3
  <2> QED
    BY <2>4 DEF TakesBounded
<1>9. WaitsBounded(c)'
  BY <1>3, <1>4, <1>6 DEF Bounded, WaitsBounded
<1> QED
  BY <1>7, <1>8, <1>9 DEF Bounded

\* A window that ends in vain has spent its sending.
LEMMA WindowBounded ==
  ASSUME SystemTypes, SystemTypes', RepeatsLeft, ServingType, UNCHANGED vars, ~Halted,
         NEW c \in Client, Bounded(c), served'[c] = served[c], ~UnderWay(c),
         client_pc[c] = "await", client_pc'[c] = "send", UNCHANGED <<request, calls, net>>,
         repeats'[c] = IF repeats[c] = 0 THEN 0 ELSE repeats[c] - 1
  PROVE  Bounded(c)'
<1>1. Asking(c) = 0 /\ ~Working(c) /\ Waits(c) = 0
  BY AsksNothing
<1>2. Asking(c)' = 0 /\ Waits(c)' = 0 /\ Busy(c)' = 0 /\ Busy(c) = 0
  BY <1>1 DEF Asking, Waits, Busy, Working, Request, vars
<1>3. repeats[c] \in Nat /\ repeats[c] >= 1 /\ Left(c) = repeats[c] - 1 /\ Left(c)' = repeats[c] - 1
  BY DEF SystemTypes, ClientType, RepeatsLeft, Left
<1>4. calls[c] \in Nat /\ MaxRepeats \in Nat /\ Len(served[c]) \in Nat
  BY ClientAssumption DEF SystemTypes, ClientType, ServingType
<1>5. PutsBounded(c)'
  BY <1>1, <1>2, <1>3, <1>4 DEF Bounded, PutsBounded
<1>6. TakesBounded(c)'
  BY <1>1, <1>2, <1>3, <1>4 DEF Bounded, TakesBounded
<1>7. WaitsBounded(c)'
  BY <1>1, <1>2, <1>4 DEF Bounded, WaitsBounded
<1> QED
  BY <1>5, <1>6, <1>7 DEF Bounded

\* One that asks for nothing any more may only leave refusals behind.
LEMMA DoneBounded ==
  ASSUME SystemTypes, SystemTypes', NEW c \in Client, Bounded(c), ~Halted, Waits(c)' <= Waits(c),
         client_pc'[c] \notin {"send", "await"},
         client_pc'[c] = "idle" \/ client_pc[c] # "idle", calls'[c] >= calls[c]
  PROVE  Bounded(c)'
<1>1. Waits(c) \in Nat /\ Waits(c)' \in Nat /\ Asking(c) \in Nat
      /\ calls[c] \in Nat /\ calls'[c] \in Nat
  BY CopiesType DEF SystemTypes, ClientType, NetType, Waits, Asking
<1>2. Asking(c)' = 0
  BY DEF Asking
<1>3. PutsBounded(c)' /\ TakesBounded(c)'
  BY DEF PutsBounded, TakesBounded
<1>4. WaitsBounded(c)'
  BY <1>1, <1>2 DEF Bounded, WaitsBounded
<1> QED
  BY <1>3, <1>4 DEF Bounded

\* A datagram that is dropped changes nothing.
LEMMA DropBounded ==
  ASSUME SystemTypes, SystemTypes', RepeatsLeft, ServingType, ServingType', UNCHANGED vars, ~Halted,
         NEW c \in Client, Bounded(c), served'[c] = served[c], Waits(c)' <= Waits(c),
         UNCHANGED <<client_pc, request, repeats, calls>>,
         NEW d \in Inbox(c), net' = net (-) SetToBag({d})
  PROVE  Bounded(c)'
<1> USE DEF SystemTypes
<1>1. d \in BagToSet(net) /\ d \notin ToServer
  BY TwoWays DEF Inbox
<1>2. \A e : CopiesOf(e, net') = CopiesOf(e, net) - (IF e = d THEN 1 ELSE 0)
  BY <1>1, BagLoses DEF NetType
<1>3. Asking(c)' = Asking(c)
  <2>1. Request(c)' = Request(c)
    BY DEF Request
  <2>2. client_pc[c] \in {"send", "await"} => CopiesOf(Request(c), net') = CopiesOf(Request(c), net)
    <3>1. client_pc[c] \in {"send", "await"} => d # Request(c)
      BY <1>1, RequestType
    <3>2. CopiesOf(Request(c), net) \in Nat
      BY CopiesType DEF NetType
    <3> QED
      BY <1>2, <3>1, <3>2
  <2> QED
    BY <2>1, <2>2 DEF Asking
<1>4. Len(served[c]) \in Nat /\ Asking(c) \in Nat /\ Waits(c) \in Nat /\ Busy(c) \in Nat
  BY CountsType
<1>5. Waits(c)' \in Nat
  BY CopiesType DEF NetType, Waits
<1>6. Busy(c)' = Busy(c)
  BY DEF Busy, Working, vars
<1>7. Costs(c)
  BY <1>3, <1>4, <1>5, <1>6 DEF Costs
<1> QED
  BY <1>7, BoundedKept DEF LeavesClient

BareAwaits == \A d \in BagToSet(net) \cap Message : d.type = "await" => d = Tell("await", d.to)

LEMMA OwnBounded ==
  ASSUME OneAtATime, SystemTypes, SystemTypes', RepeatsLeft, UNCHANGED vars, ~Halted, NoStrangers,
         BareAwaits, Exchanges, Exchanges', Histories, ServingType, ServingType', Forget,
         NEW c \in Client, ClientStep(c) \/ (~UnderWay(c) /\ WindowEnds(c))
  PROVE  Bounded(c)'
<1>1. ClientType /\ NetType /\ NetType' /\ Bounded(c) /\ HistoryKnows(c)
  BY DEF SystemTypes, Histories
<1>2. /\ client_pc'[c] # "idle" => served'[c] = served[c]
      /\ client_pc[c] = "idle" => served[c] = <<>>
  BY <1>1, ForgetKeeps DEF HistoryKnows
<1>3. Waits(c)' <= Waits(c)
  BY <1>1, MessagesLeave, Mine DEF Waits
<1>4. /\ client_pc[c] = "send" => Silent(c)
      /\ client_pc'[c] = "send" => Silent(c)'
  BY <1>1, SilentBetween, SilentBetweenNext
<1>5. \A d \in Inbox(c) : d.type = "await" => d = Tell("await", c)
  <2> SUFFICES ASSUME NEW d \in Inbox(c), d.type = "await" PROVE d = Tell("await", c)
    OBVIOUS
  <2>1. d \in BagToSet(net) /\ d.to = c /\ d \in Message
    BY TwoWays DEF Inbox, NoStrangers
  <2> QED
    BY <2>1 DEF BareAwaits
<1>6. CASE /\ client_pc[c] = "idle" /\ client_pc'[c] = "send"
           /\ repeats'[c] = MaxRepeats /\ calls'[c] = calls[c] + 1
  BY <1>1, <1>2, <1>3, <1>4, <1>6, CallBounded
<1>7. CASE /\ client_pc[c] = "send" /\ client_pc'[c] = "await"
           /\ UNCHANGED <<request, repeats, calls>>
           /\ net' = net (+) SetToBag({Request(c)})
  BY <1>1, <1>2, <1>4, <1>7, SendBounded
<1>8. CASE /\ client_pc[c] = "await" /\ UNCHANGED <<client_pc, request, repeats, calls>>
           /\ \E d \in Inbox(c) : net' = net (-) SetToBag({d})
  BY <1>1, <1>2, <1>3, <1>8, DropBounded
<1>9. CASE /\ client_pc[c] = "await" /\ UNCHANGED <<client_pc, request, calls>>
           /\ request[c].kind # "out"
           /\ repeats'[c] = IF repeats[c] = 0 THEN 0 ELSE repeats[c] + 1
           /\ \E d \in Inbox(c) : d.type = "await" /\ net' = net (-) SetToBag({d})
  BY <1>1, <1>2, <1>5, <1>9, AwaitBounded
<1>10. CASE /\ client_pc[c] = "await" /\ client_pc'[c] = "send"
            /\ UNCHANGED <<request, calls, net>> /\ WindowEnds(c)
            /\ repeats'[c] = IF repeats[c] = 0 THEN 0 ELSE repeats[c] - 1
  <2>1. ~ClientStep(c)
    BY <1>10 DEF ClientStep, Call, SendRequest, SendRequestFails, ReceiveAck, ReceiveAnswer,
                 SendAck, SendAckFails, ReceiveAckOfAck, Finish, Enter, Goto, SystemTypes, ClientType
  <2> QED
    BY <1>1, <1>2, <1>10, <2>1, WindowBounded
<1>11. CASE /\ client_pc'[c] \notin {"send", "await"}
            /\ client_pc'[c] = "idle" \/ client_pc[c] # "idle"
            /\ calls'[c] >= calls[c]
  BY <1>1, <1>3, <1>11, DoneBounded
<1> QED
  BY <1>1, <1>6, <1>7, <1>8, <1>9, <1>10, <1>11, GoesOn

\* What the server's step adds to the histories and to the datagrams under way.
LEMMA ServingTypeStep ==
  ASSUME OnlyInp, QuietRatio, ServerFacts, ServerFacts', NetType, ServingType, ServerWorks, Serve
  PROVE  ServingType'
<1>1. refused' \in [Client -> BOOLEAN]
  BY Zenon DEF Serve
<1>2. served' \in [Client -> Seq(Tuple)]
  <2>1. ASSUME NEW c \in Client, NEW t \in Tuple, served' = [served EXCEPT ![c] = Append(@, t)]
        PROVE  served' \in [Client -> Seq(Tuple)]
    <3>1. Append(served[c], t) \in Seq(Tuple)
      BY AppendProperties DEF ServingType
    <3> QED
      BY <2>1, <3>1 DEF ServingType
  <2>2. ASSUME NEW c \in Client, NEW t \in Tuple, Saves(c, t)
        PROVE  served' = [served EXCEPT ![c] = Append(@, t)]
    <3>1. \A x \in Client : PutFor(x) = (IF x = c THEN <<t>> ELSE <<>>) /\ TakenFor(x) = <<>>
      BY <2>2 DEF Saves
    <3> QED
      BY <3>1, ServesOne
  <2>3. ASSUME NEW c \in Client, NEW u, NEW t \in Tuple, Hands(c, u, t)
        PROVE  served' = [served EXCEPT ![c] = Append(@, t)]
    <3>1. \A x \in Client : PutFor(x) = <<>> /\ TakenFor(x) = IF x = c THEN <<t>> ELSE <<>>
      BY <2>3 DEF Hands
    <3> QED
      BY <3>1, ServesOne
  <2>4. CASE NothingServed
    BY <2>4, ServesNobody DEF ServingType
  <2> QED
    BY <2>1, <2>2, <2>3, <2>4, ServerActs DEF Accepts, Refuses, Confirms, Rests
<1> QED
  BY <1>1, <1>2 DEF ServingType

LEMMA BareAwaitsStep ==
  ASSUME OnlyInp, QuietRatio, ~Strangers, ServerFacts, ServerFacts', SystemTypes, SystemTypes',
         NoStrangers, BareAwaits, [SystemNext]_systemVars
  PROVE  BareAwaits'
<1> USE DEF SystemTypes
<1>1. ASSUME BagToSet(net') \cap Message \subseteq BagToSet(net)
      PROVE  BareAwaits'
  BY <1>1 DEF BareAwaits
<1>2. CASE ServerWorks
  <2>1. \A c, t : Carrying(c, t).type # "await"
    BY DEF Carrying
  <2>2. \A type, c : Tell(type, c).type = "await" => Tell(type, c) = Tell("await", Tell(type, c).to)
    BY DEF Tell
  <2>3. ASSUME NEW c \in Client, NEW t \in Tuple, Accepts(c, t)
        PROVE  BareAwaits'
    <3>1. BagToSet(net') \subseteq BagToSet(net)
      BY <2>3, OnlyAdded DEF Accepts
    <3> QED
      BY <1>1, <3>1
  <2>4. ASSUME NEW c \in Client, NEW u \in Template, NEW t \in Tuple, Hands(c, u, t)
        PROVE  BareAwaits'
    <3>1. BagToSet(net') \subseteq BagToSet(net) \cup {Carrying(c, t)}
      BY <2>4, OnlyAdded DEF Hands
    <3>2. \A d \in {Carrying(c, t)} : d.type = "await" => d = Tell("await", d.to)
      BY <2>1
    <3> QED
      BY <3>1, <3>2 DEF BareAwaits
  <2>5. ASSUME NEW c \in Client, NEW u \in Template, Refuses(c, u)
        PROVE  BareAwaits'
    <3>1. BagToSet(net') \subseteq BagToSet(net) \cup {Tell("lack", c), Tell("await", c)}
      BY <2>5, OnlyAdded DEF Refuses
    <3>2. \A d \in {Tell("lack", c), Tell("await", c)} : d.type = "await" => d = Tell("await", d.to)
      BY <2>2
    <3> QED
      BY <3>1, <3>2 DEF BareAwaits
  <2>6. ASSUME NEW c \in Client, Confirms(c)
        PROVE  BareAwaits'
    <3>1. BagToSet(net') \subseteq BagToSet(net) \cup {Tell("ack", c)}
      BY <2>6, OnlyAdded DEF Confirms
    <3>2. \A d \in {Tell("ack", c)} : d.type = "await" => d = Tell("await", d.to)
      BY <2>2
    <3> QED
      BY <3>1, <3>2 DEF BareAwaits
  <2>7. ASSUME NEW c \in Client, NEW t \in Tuple, Saves(c, t)
        PROVE  BareAwaits'
    <3>1. BagToSet(net') \subseteq BagToSet(net) \cup {Tell("ack", c)}
      BY <2>7, OnlyAdded DEF Saves
    <3>2. \A d \in {Tell("ack", c)} : d.type = "await" => d = Tell("await", d.to)
      BY <2>2
    <3> QED
      BY <3>1, <3>2 DEF BareAwaits
  <2>8. CASE Rests
    <3>1. BagToSet(net') \subseteq BagToSet(net)
      BY <2>8, OnlyAdded DEF Rests
    <3> QED
      BY <1>1, <3>1
  <2> QED
    BY <1>2, <2>3, <2>4, <2>5, <2>6, <2>7, <2>8, ServerActs
<1>3. CASE \E c \in Client : ClientRuns(c) \/ TimesOut(c)
  BY <1>1, <1>3, MessagesLeave DEF ClientRuns, TimesOut
<1>4. CASE Lose
  BY <1>1, <1>4, BagLoses DEF Lose, NetType
<1>5. CASE ServerStops \/ UNCHANGED systemVars
  BY <1>5 DEF ServerStops, systemVars, clientVars, BareAwaits
<1> QED
  BY <1>2, <1>3, <1>4, <1>5 DEF SystemNext, StrangerSends

\* The steps that serve nobody: the server stops, or a datagram is lost.
LEMMA IdleHistories ==
  ASSUME SystemTypes, SystemTypes', RepeatsLeft, ServingType, Histories, UNCHANGED servingVars,
         ServerStops \/ Lose \/ UNCHANGED systemVars
  PROVE  Histories'
<1> SUFFICES ASSUME NEW c \in Client PROVE HistoryKnows(c)' /\ Bounded(c)'
  BY DEF Histories
<1> USE DEF SystemTypes
<1>1. ServerLeavesClients /\ UNCHANGED <<served, refused>>
  BY DEF ServerStops, Lose, systemVars, clientVars, servingVars, ServerLeavesClients
<1>2. \A e : CopiesOf(e, net) \in Nat /\ (e \in BagToSet(net) <=> CopiesOf(e, net) > 0)
  BY CopiesType DEF NetType
<1>3. \A e : CopiesOf(e, net') \in Nat /\ (e \in BagToSet(net') <=> CopiesOf(e, net') > 0)
  BY CopiesType DEF NetType
<1>4. \A e : CopiesOf(e, net') <= CopiesOf(e, net)
  <2>1. CASE net' = net
    BY <1>2, <2>1
  <2>2. CASE Lose
    <3>1. PICK d \in BagToSet(net) : net' = net (-) SetToBag({d})
      BY <2>2 DEF Lose
    <3>2. \A e : CopiesOf(e, net') = CopiesOf(e, net) - (IF e = d THEN 1 ELSE 0)
      BY <3>1, BagLoses DEF NetType
    <3> QED
      BY <1>2, <3>2
  <2> QED
    BY <2>1, <2>2 DEF ServerStops, systemVars, clientVars
<1>5. BagToSet(net') \subseteq BagToSet(net)
  BY <1>2, <1>3, <1>4
<1>6. HistoryKnows(c)'
  BY <1>1, <1>5, HistoryKept DEF Histories
<1>7. Bounded(c)'
  <2>1. CASE ServerStops \/ Halted
    <3>1. Halted'
      BY <2>1 DEF ServerStops, Stop, Halted, Lose, vars, spaceVars, systemVars
    <3> QED
      BY <3>1 DEF Bounded
  <2>2. CASE ~ServerStops /\ ~Halted
    <3>1. UNCHANGED vars
      BY <2>2 DEF Lose, systemVars
    <3>2. Busy(c)' = Busy(c)
      BY <3>1 DEF Busy, Working, vars
    <3>3. Request(c)' = Request(c) /\ LeavesClient(c)
      BY <1>1 DEF Request, ServerLeavesClients, LeavesClient
    <3>4. Waits(c)' <= Waits(c) /\ Asking(c)' <= Asking(c)
      BY <1>1, <1>4, <3>3 DEF Waits, Asking, ServerLeavesClients
    <3>5. Len(served[c]) \in Nat /\ Asking(c) \in Nat /\ Waits(c) \in Nat /\ Busy(c) \in Nat
      BY CountsType
    <3>6. Asking(c)' \in Nat /\ Waits(c)' \in Nat
      BY <1>3 DEF Asking, Waits
    <3>7. Costs(c)
      <4>1. \A n, asking, waits, busy, a, w \in Nat :
              a <= asking /\ w <= waits =>
                /\ n + a + busy <= n + asking + busy
                /\ n + a + w <= n + asking + waits
                /\ w + a <= waits + asking
        OBVIOUS
      <4>2. served'[c] = served[c]
        BY <1>1
      <4> QED
        BY <3>2, <3>4, <3>5, <3>6, <4>1, <4>2 DEF Costs
    <3>8. ServingType'
      BY <1>1 DEF ServingType
    <3> QED
      BY <2>2, <3>3, <3>7, <3>8, BoundedKept DEF Histories
  <2> QED
    BY <2>1, <2>2
<1> QED
  BY <1>6, <1>7

LossyVars == <<systemVars, servingVars>>

LEMMA LossyRunsSystem == LossySpec => SystemSpec
<1>1. LossyInit => SystemInit
  BY DEF LossyInit
<1>2. [LossyNext]_<<systemVars, servingVars>> => [SystemNext]_systemVars
  BY DEF LossyNext, SystemNext
<1> QED
  BY <1>1, <1>2, PTL DEF LossySpec, SystemSpec

LEMMA HistoriesStep ==
  ASSUME OneAtATime, OnlyInp, QuietRatio, ServerFacts, ServerFacts', SystemTypes, SystemTypes',
         NoStrangers, Exchanges, Exchanges', RepeatsLeft, BareAwaits, ServingType, Histories,
         [LossyNext]_LossyVars
  PROVE  ServingType' /\ Histories'
<1>1. CASE ServerWorks /\ Serve
  <2>1. ServerLeavesClients
    BY <1>1, ServerWorksOnNet DEF ServerLeavesClients, ServerFacts
  <2>2. ServingType'
    BY <1>1, ServingTypeStep DEF SystemTypes
  <2> QED
    BY <1>1, <2>1, <2>2, ServerHistories
<1>2. ASSUME NEW x \in Client, ClientRuns(x) \/ TimesOut(x), Forget
      PROVE  ServingType' /\ Histories'
  <2>1. UNCHANGED vars /\ (ClientStep(x) \/ (~UnderWay(x) /\ WindowEnds(x)))
    BY <1>2 DEF ClientRuns, TimesOut, OneAtATime
  <2>2. ServingType'
    BY <1>2, ForgetKeeps
  <2>3. \A c \in Client : HistoryKnows(c)'
    BY <1>2, <2>1, ClientKnows
  <2>4. ASSUME NEW c \in Client, ~Halted
        PROVE  Bounded(c)'
    BY <1>2, <2>1, <2>2, <2>4, OthersBounded, OwnBounded
  <2>5. ASSUME NEW c \in Client, Halted
        PROVE  Bounded(c)'
    BY <2>1, <2>5 DEF Halted, Bounded, vars
  <2> QED
    BY <2>2, <2>3, <2>4, <2>5 DEF Histories
<1>3. CASE (Lose \/ StrangerSends \/ ServerStops) /\ UNCHANGED servingVars
  <2>1. ServingType'
    BY <1>3 DEF ServingType, servingVars
  <2>2. ~StrangerSends
    BY DEF StrangerSends, OneAtATime
  <2> QED
    BY <1>3, <2>1, <2>2, IdleHistories
<1>4. CASE UNCHANGED LossyVars
  <2>1. ServingType' /\ UNCHANGED systemVars /\ UNCHANGED servingVars
    BY <1>4 DEF LossyVars, ServingType, servingVars
  <2> QED
    BY <2>1, IdleHistories
<1> QED
  BY <1>1, <1>2, <1>3, <1>4 DEF LossyNext

LEMMA HistoriesInit == LossyInit => ServingType /\ BareAwaits /\ Histories
<1> SUFFICES ASSUME LossyInit PROVE ServingType /\ BareAwaits /\ Histories
  OBVIOUS
<1>1. /\ SystemInit /\ ClientInit
      /\ served = [c \in Client |-> <<>>] /\ refused = [c \in Client |-> FALSE]
  BY DEF LossyInit, SystemInit
<1>2. IsABag(net) /\ \A d : CopiesOf(d, net) = 0
  BY <1>1, BagOfNone DEF ClientInit
<1>3. BagToSet(net) = {}
  <2>1. \A d : d \in BagToSet(net) <=> CopiesOf(d, net) > 0
    BY <1>2, CopiesType
  <2> QED
    BY <1>2, <2>1
<1>4. ServingType
  <2>1. <<>> \in Seq(Tuple)
    BY EmptySeq
  <2> QED
    BY <1>1, <2>1 DEF ServingType
<1>5. \A c \in Client : client_pc[c] = "idle" /\ calls[c] = 0
  BY <1>1 DEF ClientInit
<1>6. ASSUME NEW c \in Client PROVE HistoryKnows(c) /\ Bounded(c)
  <2>1. HistoryKnows(c)
    BY <1>1, <1>3, <1>5 DEF HistoryKnows
  <2>2. PutsBounded(c) /\ TakesBounded(c)
    BY <1>5 DEF PutsBounded, TakesBounded
  <2>3. WaitsBounded(c)
    BY <1>2, <1>5 DEF WaitsBounded, Waits, Asking
  <2> QED
    BY <2>1, <2>2, <2>3 DEF Bounded
<1> QED
  BY <1>3, <1>4, <1>6 DEF BareAwaits, Histories

\* Everything the refinement needs to know of a reachable state.
Reachable ==
  /\ ServerFacts /\ SystemTypes /\ NoStrangers /\ Exchanges /\ RepeatsLeft /\ ContextFresh
  /\ ServingType /\ BareAwaits /\ Histories

LEMMA ReachableInvariant ==
  ASSUME OneAtATime, OnlyInp, QuietRatio, MaxRepeats > 0
  PROVE  LossySpec => []Reachable
<1> DEFINE Known == ServerFacts /\ SystemTypes /\ NoStrangers /\ Exchanges /\ RepeatsLeft
           Served == ServingType /\ BareAwaits /\ Histories
<1>1. LossySpec => [](Known /\ ContextFresh)
  <2>1. OnlyTakes
    BY DEF OnlyInp, OnlyTakes
  <2> QED
    BY <2>1, LossyRunsSystem, ServerFactsInvariant, SystemTypesInvariant, ExchangesInvariant,
       AccountedInvariant, ConservedInvariant, PTL
<1>2. LossyInit => Served
  BY HistoriesInit
<1>3. Known /\ Known' /\ Served /\ [LossyNext]_LossyVars => Served'
  <2> SUFFICES ASSUME Known, Known', Served, [LossyNext]_LossyVars
               PROVE  Served'
    OBVIOUS
  <2>1. [SystemNext]_systemVars
    BY DEF LossyNext, SystemNext, LossyVars
  <2>2. BareAwaits'
    BY <2>1, BareAwaitsStep DEF OneAtATime
  <2>3. ServingType' /\ Histories'
    BY HistoriesStep
  <2> QED
    BY <2>2, <2>3
<1>4. Known /\ ContextFresh /\ Served => Reachable
  BY DEF Reachable
<1> HIDE DEF Known, Served
<1> QED
  BY <1>1, <1>2, <1>3, <1>4, PTL DEF LossySpec, LossyVars

-----------------------------------------------------------------------------
(***************************************************************************)
(* The refinement: each step of the system is one of LossySpace or none.   *)
(***************************************************************************)
Space == [t \in Tuple |-> Copies(t)]
Calling == [c \in Client |-> AbstractCall(c)]

AbstractResult(c) ==
  IF client_pc[c] = "idle" THEN Abstract(result[c]) ELSE [status |-> "pending", tuple |-> NULL]

Results == [c \in Client |-> AbstractResult(c)]

\* The variables of LossySpace are these, and its matching is the server's.
LEMMA Mapped ==
  /\ Promise!LossyInit <=> /\ Space = [t \in Tuple |-> 0]
                           /\ Calling = [c \in Client |-> NULL]
                           /\ served = [c \in Client |-> <<>>]
                           /\ refused = [c \in Client |-> FALSE]
                           /\ Results = [c \in Client |-> Promise!Answer(NULL)]
  /\ UNCHANGED <<Space, Calling, served, refused, Results>> => UNCHANGED Promise!lossyVars
  /\ \A c, t : Promise!Fits(c, t) <=> Space[t] > 0 /\ Suits(Calling[c].tuple, t)
BY DEF Promise!LossyInit, Promise!lossyVars, Promise!Fits, Promise!ts_is_matching_tuple,
       Promise!ts_compare_tuple_fields, ts_is_matching_tuple, ts_compare_tuple_fields,
       Space, Calling, Results, AbstractResult, Suits

\* A client in the middle of an operation has that one under way.
LEMMA CallingIs ==
  ASSUME OnlyInp, ClientType, NEW c \in Client
  PROVE  /\ client_pc[c] = "idle" => Calling[c] = NULL
         /\ client_pc[c] # "idle" =>
              /\ Calling[c] # NULL /\ Calling[c] \in Promise!Operations
              /\ Calling[c].kind = request[c].kind /\ Calling[c].tuple = Span(request[c])
              /\ request[c].kind \in {"out", "inp"}
<1>1. client_pc[c] = "idle" => Calling[c] = NULL
  BY DEF Calling, AbstractCall
<1>2. ASSUME client_pc[c] # "idle"
      PROVE  /\ Calling[c] = [kind |-> request[c].kind, tuple |-> Span(request[c])]
             /\ request[c].kind \in {"out", "inp"}
             /\ Span(request[c]) \in IF request[c].kind = "out" THEN Tuple ELSE Template
  <2>1. request[c] \in Program[c] /\ Refusal(request[c]) = {}
    BY <1>2 DEF ClientType
  <2>2. request[c].kind \in {"out", "inp"}
    BY <2>1, ClientAssumption DEF OnlyInp
  <2>3. Span(request[c]) \in IF request[c].kind = "out" THEN Tuple ELSE Template
    BY <2>1, ProgramAssumption
  <2> QED
    BY <1>2, <2>2, <2>3 DEF Calling, AbstractCall
<1>3. ASSUME client_pc[c] # "idle"
      PROVE  Calling[c] \in Promise!Operations
  BY <1>2, <1>3 DEF Promise!Operations, Promise!OutOf, Promise!InpOf
<1> QED
  BY <1>1, <1>2, <1>3, NoneAssumption

LEMMA CallingIsNext ==
  ASSUME OnlyInp, NEW c \in Client
  PROVE  ClientType' =>
           (/\ client_pc[c] = "idle" => Calling[c] = NULL
            /\ client_pc[c] # "idle" =>
                 /\ Calling[c] # NULL /\ Calling[c] \in Promise!Operations
                 /\ Calling[c].kind = request[c].kind /\ Calling[c].tuple = Span(request[c])
                 /\ request[c].kind \in {"out", "inp"})'
<1>1. ClientType =>
        /\ client_pc[c] = "idle" => Calling[c] = NULL
        /\ client_pc[c] # "idle" =>
             /\ Calling[c] # NULL /\ Calling[c] \in Promise!Operations
             /\ Calling[c].kind = request[c].kind /\ Calling[c].tuple = Span(request[c])
             /\ request[c].kind \in {"out", "inp"}
  BY CallingIs
<1> QED
  BY <1>1, PTL

LEMMA MapsInit == LossyInit => Promise!LossyInit
<1> SUFFICES ASSUME LossyInit PROVE Promise!LossyInit
  OBVIOUS
<1>1. /\ tuple_stash = <<>> /\ client_pc = [c \in Client |-> "idle"]
      /\ result = [c \in Client |-> Returns("no_error")]
      /\ served = [c \in Client |-> <<>>] /\ refused = [c \in Client |-> FALSE]
  BY DEF LossyInit, SystemInit, Init, ClientInit
<1>2. \A t \in Tuple : Copies(t) = 0
  <2>1. \A t : {i \in DOMAIN tuple_stash : heap[tuple_stash[i].data] = t} = {}
    BY <1>1
  <2> QED
    BY <2>1, FS_EmptySet DEF Copies
<1>3. \A c \in Client : AbstractResult(c) = Promise!Answer(NULL)
  BY <1>1 DEF AbstractResult, Abstract, Returns, Promise!Answer
<1>4. Space = [t \in Tuple |-> 0] /\ Calling = [c \in Client |-> NULL]
  BY <1>1, <1>2 DEF Space, Calling, AbstractCall
<1>5. Results = [c \in Client |-> Promise!Answer(NULL)]
  BY <1>3 DEF Results
<1> QED
  BY <1>1, <1>4, <1>5, Mapped

LEMMA SpaceChanges ==
  ASSUME NEW t \in Tuple, NEW n, \A x \in Tuple : Copies(x)' = IF x = t THEN n ELSE Copies(x)
  PROVE  Space' = [Space EXCEPT ![t] = n]
<1>1. Space' = [x \in Tuple |-> Copies(x)'] /\ Space = [x \in Tuple |-> Copies(x)]
  BY DEF Space
<1> QED
  BY <1>1

\* The server's steps.  A client it works for has the operation under way.
LEMMA SavesPuts ==
  ASSUME OnlyInp, Reachable, ServerLeavesClients, Serve, NEW c \in Client, NEW t \in Tuple, Saves(c, t)
  PROVE  Promise!Puts(c)
<1> USE DEF Reachable, SystemTypes
<1>1. /\ pc = "out" /\ handler.sender = c /\ heap[handler.data] = t /\ NobodyRefused
      /\ \A x \in Tuple : Copies(x)' = Copies(x) + (IF x = t THEN 1 ELSE 0)
      /\ \A x \in Client : PutFor(x) = (IF x = c THEN <<t>> ELSE <<>>) /\ TakenFor(x) = <<>>
  BY DEF Saves
<1>2. client_pc[c] = "await" /\ request[c].kind = "out" /\ Span(request[c]) = t
  BY <1>1 DEF Exchanges, OneExchange, Working
<1>3. Promise!Doing(c, "out") /\ Calling[c].tuple = t
  <2>1. Calling[c] # NULL /\ Calling[c].kind = "out" /\ Calling[c].tuple = t
    BY <1>2, CallingIs
  <2> QED
    BY <2>1 DEF Promise!Doing, Calling
<1>4. Len(served[c]) < MaxRepeats
  <2>1. Len(served[c]) \in Nat /\ Asking(c) \in Nat /\ Left(c) \in Nat /\ MaxRepeats \in Nat
    BY CountsType, LeftType, ClientAssumption
  <2>2. Busy(c) = 1 /\ ~Halted
    BY <1>1 DEF Busy, Working, Halted, Faults
  <2>3. Len(served[c]) + Asking(c) + 1 + Left(c) <= MaxRepeats
    BY <1>2, <2>2 DEF Histories, Bounded, PutsBounded
  <2> QED
    BY <2>1, <2>3
<1>5. Space' = [Space EXCEPT ![t] = @ + 1]
  <2>1. \A x \in Tuple : Copies(x) \in Nat
    BY CopiesNumber DEF CopiesInNat, ServerFacts
  <2>2. \A x \in Tuple : Copies(x)' = IF x = t THEN Copies(t) + 1 ELSE Copies(x)
    BY <1>1, <2>1
  <2> QED
    BY <2>2, SpaceChanges DEF Space
<1>6. served' = [served EXCEPT ![c] = Append(@, t)]
  BY <1>1, ServesOne
<1>7. refused' = refused
  BY <1>1, RefusesNobody
<1>8. Calling' = Calling /\ Results' = Results
  BY DEF ServerLeavesClients, Calling, Results, AbstractCall, AbstractResult
<1> QED
  BY <1>3, <1>4, <1>5, <1>6, <1>7, <1>8
  DEF Promise!Puts, Promise!Serves, Space, Calling, Results, AbstractResult

LEMMA HandsTakes ==
  ASSUME OnlyInp, Reachable, ServerLeavesClients, Serve,
         NEW c \in Client, NEW u \in Template, NEW t \in Tuple, Hands(c, u, t)
  PROVE  Promise!Takes(c)
<1> USE DEF Reachable, SystemTypes
<1>1. /\ pc = "receive" /\ GetTuple(c, "inp", u) \in BagToSet(net) /\ NobodyRefused
      /\ Suits(u, t) /\ Copies(t) > 0
      /\ \A x \in Tuple : Copies(x)' = Copies(x) - (IF x = t THEN 1 ELSE 0)
      /\ \A x \in Client : PutFor(x) = <<>> /\ TakenFor(x) = IF x = c THEN <<t>> ELSE <<>>
  BY DEF Hands, Moves
<1>2. ~Halted /\ "inp" \in Requests
  BY <1>1, InpIsRead DEF Halted, Faults
<1>3. /\ client_pc[c] = "await" /\ GetTuple(c, "inp", u) = Request(c)
      /\ request[c].kind = "inp" /\ Span(request[c]) = u
  BY <1>1, <1>2, ReadsRequest DEF Exchanges
<1>4. Promise!Doing(c, "inp") /\ Calling[c].tuple = u
  <2>1. Calling[c] # NULL /\ Calling[c].kind = "inp" /\ Calling[c].tuple = u
    BY <1>3, CallingIs
  <2> QED
    BY <2>1 DEF Promise!Doing, Calling
<1>5. Len(served[c]) < MaxRepeats + MaxCalls[c] - 1
  <2>1. /\ Len(served[c]) \in Nat /\ Asking(c) \in Nat /\ Waits(c) \in Nat /\ Left(c) \in Nat
        /\ MaxRepeats \in Nat /\ calls[c] \in Nat /\ MaxCalls[c] \in Nat /\ calls[c] <= MaxCalls[c]
    BY CountsType, LeftType, ClientAssumption DEF ClientType
  <2>2. Asking(c) >= 1
    BY <1>1, <1>3, CopiesType DEF Asking, NetType
  <2>3. Len(served[c]) + Asking(c) + Waits(c) + Left(c) <= MaxRepeats + calls[c] - 1
    BY <1>2, <1>3 DEF Histories, Bounded, TakesBounded
  <2>4. \A n, asking, waits, left, m, called, max \in Nat :
          /\ n + asking + waits + left <= m + called - 1
          /\ asking >= 1 /\ called <= max
          => n < m + max - 1
    OBVIOUS
  <2> QED
    BY <2>1, <2>2, <2>3, <2>4
<1>6. Space' = [Space EXCEPT ![t] = @ - 1]
  <2>1. \A x \in Tuple : Copies(x) \in Nat
    BY CopiesNumber DEF CopiesInNat, ServerFacts
  <2>2. \A x \in Tuple : Copies(x)' = IF x = t THEN Copies(t) - 1 ELSE Copies(x)
    BY <1>1, <2>1
  <2> QED
    BY <2>2, SpaceChanges DEF Space
<1>7. Promise!Fits(c, t)
  BY <1>1, <1>4, Mapped DEF Space
<1>8. served' = [served EXCEPT ![c] = Append(@, t)]
  BY <1>1, ServesOne
<1>9. refused' = refused
  BY <1>1, RefusesNobody
<1>10. Calling' = Calling /\ Results' = Results
  BY DEF ServerLeavesClients, Calling, Results, AbstractCall, AbstractResult
<1>11. Promise!Serves(c, t)
  BY <1>8, <1>9, <1>10 DEF Promise!Serves, Calling, Results, AbstractResult
<1> QED
  BY <1>4, <1>5, <1>6, <1>7, <1>11 DEF Promise!Takes, Space

LEMMA RefusesFindsNone ==
  ASSUME OnlyInp, Reachable, ServerLeavesClients, Serve,
         NEW c \in Client, NEW u \in Template, Refuses(c, u)
  PROVE  Promise!FindsNone(c)
<1> USE DEF Reachable, SystemTypes
<1>1. /\ pc = "receive" /\ GetTuple(c, "inp", u) \in BagToSet(net) /\ SpaceKept /\ NothingServed
      /\ \A t \in Tuple : Copies(t) > 0 => ~Suits(u, t)
      /\ \A x \in Client : Contains(sent', Tell("lack", x)) <=> x = c
  BY DEF Refuses, Moves
<1>2. ~Halted /\ "inp" \in Requests
  BY <1>1, InpIsRead DEF Halted, Faults
<1>3. client_pc[c] = "await" /\ request[c].kind = "inp" /\ Span(request[c]) = u
  BY <1>1, <1>2, ReadsRequest DEF Exchanges
<1>4. Promise!Doing(c, "inp") /\ Calling[c].tuple = u
  <2>1. Calling[c] # NULL /\ Calling[c].kind = "inp" /\ Calling[c].tuple = u
    BY <1>3, CallingIs
  <2> QED
    BY <2>1 DEF Promise!Doing, Calling
<1>5. \A t \in Tuple : ~Promise!Fits(c, t)
  BY <1>1, <1>4, Mapped DEF Space
<1>6. refused' = [refused EXCEPT ![c] = TRUE]
  <2>1. \A x \in Client : refused'[x] = (refused[x] \/ Contains(sent', Tell("lack", x)))
    BY DEF Serve
  <2>2. refused'[c] = TRUE
    BY <1>1, <2>1
  <2>3. \A x \in Client : x # c => refused'[x] = refused[x]
    <3> TAKE x \in Client
    <3>1. refused[x] \in BOOLEAN
      BY DEF ServingType
    <3> QED
      BY <1>1, <2>1, <3>1
  <2>4. refused' = [x \in Client |-> refused'[x]]
    BY DEF Serve
  <2>5. refused' = [x \in Client |-> IF x = c THEN TRUE ELSE refused[x]]
    BY <2>2, <2>3, <2>4, Zenon
  <2> QED
    BY <2>5, Zenon DEF ServingType
<1>7. served' = served /\ Space' = Space
  BY <1>1, ServesNobody DEF SpaceKept, Space
<1>8. Calling' = Calling /\ Results' = Results
  BY DEF ServerLeavesClients, Calling, Results, AbstractCall, AbstractResult
<1> QED
  BY <1>4, <1>5, <1>6, <1>7, <1>8 DEF Promise!FindsNone, Space, Calling, Results, AbstractResult

\* A step that serves nobody and leaves the clients alone is none of LossySpace.
LEMMA Stutters ==
  ASSUME UNCHANGED <<client_pc, request, result, served, refused>>, SpaceKept
  PROVE  UNCHANGED Promise!lossyVars
<1>1. Space' = Space
  BY DEF SpaceKept, Space
<1>2. Calling' = Calling /\ Results' = Results
  BY DEF Calling, Results, AbstractCall, AbstractResult
<1> QED
  BY <1>1, <1>2, Mapped

LEMMA ServerMaps ==
  ASSUME OnlyInp, QuietRatio, Reachable, Reachable', ServerWorks, Serve
  PROVE  [Promise!LossyNext]_(Promise!lossyVars)
<1> USE DEF Reachable, SystemTypes
<1>1. ServerLeavesClients
  BY ServerWorksOnNet DEF ServerLeavesClients, ServerFacts
<1>2. UNCHANGED <<client_pc, request, result>>
  BY <1>1 DEF ServerLeavesClients
<1>3. ASSUME SpaceKept, NothingServed, NobodyRefused
      PROVE  UNCHANGED Promise!lossyVars
  BY <1>2, <1>3, ServesNobody, RefusesNobody, Stutters
<1>4. \A c \in Client : Promise!Puts(c) \/ Promise!Takes(c) \/ Promise!FindsNone(c) => Promise!LossyNext
  BY DEF Promise!LossyNext, Promise!SpaceWorks
<1>5. CASE \E c \in Client, t \in Tuple : Saves(c, t)
  BY <1>1, <1>4, <1>5, SavesPuts
<1>6. CASE \E c \in Client, u \in Template, t \in Tuple : Hands(c, u, t)
  BY <1>1, <1>4, <1>6, HandsTakes
<1>7. CASE \E c \in Client, u \in Template : Refuses(c, u)
  BY <1>1, <1>4, <1>7, RefusesFindsNone
<1>8. CASE \/ \E c \in Client, t \in Tuple : Accepts(c, t)
           \/ \E c \in Client : Confirms(c)
           \/ Rests
  BY <1>3, <1>8 DEF Accepts, Confirms, Rests
<1> QED
  BY <1>5, <1>6, <1>7, <1>8, ServerActs

\* The clients' steps.  What an acknowledged answer lets an INP return.
LEMMA OutcomeAllowed ==
  ASSUME OnlyInp, Reachable, NEW c \in Client, client_pc[c] \in {"ack", "await_ack"}
  PROVE  Abstract(Outcome(request[c], context[c])) \in Promise!Answers(c) \cup {Promise!Failed}
<1> USE DEF Reachable, SystemTypes
<1>1. /\ request[c].kind # "out" /\ request[c].kind \in {"out", "inp"}
      /\ Calling[c].kind = request[c].kind
      /\ \E d : AnswerTo(c, d) /\ context[c] = Recorded(d)
  BY CallingIs DEF Exchanges, ContextFits
<1>2. /\ context[c].response = "lack" => refused[c] = TRUE
      /\ context[c].response = "tuple" => ServedTo(c, context[c].tuple)
  BY DEF Histories, HistoryKnows
<1>3. Promise!Answers(c) = {Promise!Answer(served[c][i]) : i \in DOMAIN served[c]}
                             \cup (IF refused[c] THEN {Promise!Answer(NULL)} ELSE {})
  BY <1>1 DEF Promise!Answers, Calling
<1>4. ~Blocking(request[c])
  BY <1>1 DEF Blocking
<1>5. PICK d : AnswerTo(c, d) /\ context[c] = Recorded(d)
  BY <1>1
<1>6. CASE d = Tell("lack", c)
  <2>1. context[c].error = "no_error" /\ context[c].response = "lack"
    BY <1>5, <1>6 DEF Recorded, Tell, NoContext
  <2>2. Outcome(request[c], context[c]) = Returns("no_error")
    BY <1>4, <2>1 DEF Outcome
  <2>3. Abstract(Outcome(request[c], context[c])) = Promise!Answer(NULL)
    BY <2>2 DEF Abstract, Returns, Promise!Answer
  <2> QED
    BY <1>2, <1>3, <2>1, <2>3
<1>7. ASSUME NEW t \in Tuple, d = Carrying(c, t)
      PROVE  Abstract(Outcome(request[c], context[c])) \in Promise!Answers(c) \cup {Promise!Failed}
  <2>1. context[c].error = "no_error" /\ context[c].response = "tuple" /\ context[c].tuple = t
    BY <1>5, <1>7 DEF Recorded, Carrying, NoContext
  <2>2. CASE t[1] = IdField(request[c].app)
    <3>1. Outcome(request[c], context[c]) = [error |-> "no_error", tuple |-> t]
      BY <2>1, <2>2 DEF Outcome
    <3>2. Abstract(Outcome(request[c], context[c])) = Promise!Answer(t)
      BY <3>1 DEF Abstract, Promise!Answer
    <3>3. PICK i \in DOMAIN served[c] : served[c][i] = t
      BY <1>2, <2>1 DEF ServedTo
    <3> QED
      BY <1>3, <3>2, <3>3
  <2>3. CASE t[1] # IdField(request[c].app)
    <3>1. Outcome(request[c], context[c]) = Returns("invalid_response_protocol")
      BY <2>1, <2>3 DEF Outcome
    <3> QED
      BY <3>1 DEF Abstract, Returns, Promise!Failed
  <2> QED
    BY <2>2, <2>3
<1> QED
  BY <1>1, <1>5, <1>6, <1>7 DEF AnswerTo

LEMMA GivenUpFails ==
  ASSUME OnlyInp, Reachable, NEW c \in Client, client_pc[c] \in {"send", "await"}
  PROVE  Abstract(GivenUp(c)) = Promise!Failed
<1>1. context[c] = NoContext
  BY DEF Reachable, ContextFresh
<1>2. Outcome(request[c], context[c]) = Returns("invalid_response_protocol")
  BY <1>1 DEF Outcome, NoContext
<1> QED
  BY <1>2 DEF GivenUp, Abstract, Returns, Promise!Failed

\* An OUT that was acknowledged was served.
LEMMA AckServed ==
  ASSUME OneAtATime, OnlyInp, Reachable, NEW c \in Client, ReceiveAck(c), client_pc'[c] = "idle"
  PROVE  /\ result'[c] = Returns("no_error")
         /\ Promise!Answer(NULL) \in Promise!Answers(c)
<1> USE DEF Reachable, SystemTypes
<1>1. client_pc[c] = "await" /\ request[c].kind = "out"
  BY DEF ReceiveAck
<1>2. PICK d \in Inbox(c) : \E known \in FromServer(d) :
                              IF known /\ Acknowledges(d)
                              THEN Finish(c, Returns("no_error"))
                              ELSE UNCHANGED <<client_pc, repeats, context, result>>
  BY DEF ReceiveAck
<1>3. Acknowledges(d) /\ Finish(c, Returns("no_error"))
  BY <1>1, <1>2
<1>4. d.type = "ack" /\ result'[c] = Returns("no_error")
  BY <1>3 DEF Acknowledges, Finish, ClientType
<1>5. d \in BagToSet(net) /\ d \in Message /\ OfExchange(c, d)
  BY <1>4, Reaches DEF Exchanges
<1>6. d = Tell("ack", c)
  BY <1>1, <1>5, RequestType, TwoWays DEF OfExchange, AnswerTo
<1>7. served[c] # <<>> /\ served[c] \in Seq(Tuple)
  BY <1>1, <1>5, <1>6 DEF Histories, HistoryKnows, ServingType
<1>8. 1 \in DOMAIN served[c]
  BY <1>7
<1>9. Calling[c].kind = "out"
  BY <1>1, CallingIs
<1>10. Promise!Answers(c) = {Promise!Answer(NULL) : i \in DOMAIN served[c]}
  BY <1>9 DEF Promise!Answers, Calling
<1> QED
  BY <1>4, <1>8, <1>10

\* How an operation begins, goes on, and ends.
LEMMA ClientMaps ==
  ASSUME OneAtATime, OnlyInp, Reachable, NEW x \in Client, ClientStep(x) \/ WindowEnds(x)
  PROVE  \/ /\ client_pc[x] = "idle" /\ client_pc'[x] # "idle"
         \/ /\ client_pc[x] = "idle" /\ client_pc'[x] = "idle"
            /\ Abstract(result'[x]) = Promise!Failed
         \/ /\ client_pc[x] # "idle" /\ client_pc'[x] # "idle" /\ request'[x] = request[x]
         \/ /\ client_pc[x] # "idle" /\ client_pc'[x] = "idle"
            /\ Abstract(result'[x]) \in Promise!Answers(x) \cup {Promise!Failed}
<1> USE DEF Reachable, SystemTypes
<1>1. CASE Call(x)
  <2>1. client_pc[x] = "idle"
    BY <1>1 DEF Call
  <2>2. \/ client_pc'[x] = "send"
        \/ \E op : \E error \in Refusal(op) : Finish(x, Returns(error))
    BY <1>1 DEF Call, Enter, Goto, ClientType
  <2>3. ASSUME NEW op, NEW error \in Refusal(op), Finish(x, Returns(error))
        PROVE  client_pc'[x] = "idle" /\ Abstract(result'[x]) = Promise!Failed
    <3>1. error # "no_error"
      BY DEF Refusal
    <3>2. client_pc'[x] = "idle" /\ result'[x] = Returns(error)
      BY <2>3 DEF Finish, Goto, ClientType
    <3> QED
      BY <3>1, <3>2 DEF Abstract, Returns, Promise!Failed
  <2> QED
    BY <2>1, <2>2, <2>3
<1>2. CASE ~Call(x) /\ client_pc'[x] # "idle"
  <2>1. client_pc[x] # "idle" /\ request'[x] = request[x]
    BY <1>2 DEF ClientStep, SendRequest, SendRequestFails, ReceiveAck, ReceiveAnswer, SendAck,
                SendAckFails, ReceiveAckOfAck, WindowEnds, Windows
  <2> QED
    BY <1>2, <2>1
<1>3. CASE ~Call(x) /\ client_pc'[x] = "idle"
  <2>1. client_pc[x] # "idle"
    BY <1>3 DEF ClientStep, SendRequest, SendRequestFails, ReceiveAck, ReceiveAnswer, SendAck,
                SendAckFails, ReceiveAckOfAck, WindowEnds, Windows
  <2>2. Abstract(result'[x]) \in Promise!Answers(x) \cup {Promise!Failed}
    <3>1. CASE ReceiveAck(x)
      <4>1. Abstract(result'[x]) = Promise!Answer(NULL)
        BY <1>3, <3>1, AckServed DEF Abstract, Returns, Promise!Answer
      <4> QED
        BY <1>3, <3>1, <4>1, AckServed
    <3>2. CASE ReceiveAckOfAck(x)
      <4>1. client_pc[x] = "await_ack" /\ result'[x] = Outcome(request[x], context[x])
        BY <1>3, <3>2 DEF ReceiveAckOfAck, Finish, ClientType
      <4> QED
        BY <4>1, OutcomeAllowed
    <3>3. CASE WindowEnds(x)
      <4>1. \/ client_pc[x] = "await" /\ result'[x] = GivenUp(x)
            \/ client_pc[x] = "await_ack" /\ result'[x] = Outcome(request[x], context[x])
        BY <1>3, <3>3 DEF WindowEnds, Windows, Finish, Goto, ClientType
      <4> QED
        BY <4>1, OutcomeAllowed, GivenUpFails
    <3>4. ~SendRequest(x) /\ ~ReceiveAnswer(x) /\ ~SendAck(x)
      <4>1. ~SendRequest(x) /\ ~SendAck(x)
        BY <1>3 DEF SendRequest, SendAck, Goto, ClientType, OneAtATime
      <4>2. ReceiveAnswer(x) => client_pc'[x] \in {"await", "ack"}
        BY DEF ReceiveAnswer, Goto, Enter, ClientType
      <4> QED
        BY <1>3, <4>1, <4>2
    <3>5. ~SendRequestFails(x) /\ ~SendAckFails(x)
      BY DEF SendRequestFails, SendAckFails, OneAtATime
    <3> QED
      BY <1>3, <3>1, <3>2, <3>3, <3>4, <3>5 DEF ClientStep
  <2> QED
    BY <1>3, <2>1, <2>2
<1> QED
  BY <1>1, <1>2, <1>3

LEMMA SameValues ==
  ASSUME NEW S, NEW T, NEW f \in [S -> T], NEW g \in [S -> T], \A x \in S : g[x] = f[x]
  PROVE  g = f
OBVIOUS

LEMMA ClientStepMaps ==
  ASSUME OneAtATime, OnlyInp, Reachable, Reachable', UNCHANGED vars, Forget,
         NEW x \in Client, ClientStep(x) \/ WindowEnds(x)
  PROVE  [Promise!LossyNext]_(Promise!lossyVars)
<1> USE DEF Reachable, SystemTypes
<1>1. Space' = Space
  BY DEF Space, Copies, vars, spaceVars
<1>2. ASSUME NEW c \in Client, c # x
      PROVE  /\ AbstractCall(c)' = AbstractCall(c) /\ AbstractResult(c)' = AbstractResult(c)
             /\ served'[c] = served[c] /\ refused'[c] = refused[c]
  <2>1. client_pc'[c] = client_pc[c] /\ request'[c] = request[c] /\ result'[c] = result[c]
    BY <1>2, OthersKeep
  <2>2. client_pc[c] = "idle" => served[c] = <<>> /\ refused[c] = FALSE
    BY DEF Histories, HistoryKnows
  <2> QED
    BY <2>1, <2>2, ForgetKeeps DEF AbstractCall, AbstractResult
<1>3. /\ Calling' = [Calling EXCEPT ![x] = AbstractCall(x)']
      /\ Results' = [Results EXCEPT ![x] = AbstractResult(x)']
  <2>1. /\ Calling' = [c \in Client |-> AbstractCall(c)'] /\ Calling = [c \in Client |-> AbstractCall(c)]
        /\ Results' = [c \in Client |-> AbstractResult(c)']
        /\ Results = [c \in Client |-> AbstractResult(c)]
    BY DEF Calling, Results
  <2> QED
    BY <1>2, <2>1
<1>4. /\ served' = [served EXCEPT ![x] = served'[x]]
      /\ refused' = [refused EXCEPT ![x] = refused'[x]]
  <2>1. \A c \in Client : c # x => served'[c] = served[c]
    BY <1>2
  <2>2. \A c \in Client : c # x => refused'[c] = refused[c]
    BY <1>2
  <2>3. served' = [served EXCEPT ![x] = served'[x]]
    BY <2>1 DEF ServingType
  <2>4. refused' = [refused EXCEPT ![x] = refused'[x]]
    BY <2>2, Zenon DEF ServingType
  <2> QED
    BY <2>3, <2>4
<1>5. /\ client_pc'[x] # "idle" => served'[x] = served[x] /\ refused'[x] = refused[x]
      /\ client_pc'[x] = "idle" => served'[x] = <<>> /\ refused'[x] = FALSE
      /\ client_pc[x] = "idle" => served[x] = <<>> /\ refused[x] = FALSE
  BY ForgetKeeps DEF Histories, HistoryKnows
<1>6. client_pc[x] = "idle" \/ client_pc'[x] # "idle" => UNCHANGED <<served, refused>>
  <2> SUFFICES ASSUME client_pc[x] = "idle" \/ client_pc'[x] # "idle"
               PROVE  UNCHANGED <<served, refused>>
    OBVIOUS
  <2>1. served'[x] = served[x] /\ refused'[x] = refused[x]
    BY <1>5
  <2>2. \A c \in Client : served'[c] = served[c] /\ refused'[c] = refused[c]
    BY <1>2, <2>1
  <2>3. served' = served
    BY <2>2 DEF ServingType
  <2>4. refused' = refused
    <3>1. refused \in [Client -> BOOLEAN] /\ refused' \in [Client -> BOOLEAN]
      BY DEF ServingType
    <3> QED
      BY <2>2, <3>1, SameValues
  <2> QED
    BY <2>3, <2>4
<1>7. CASE client_pc[x] = "idle" /\ client_pc'[x] # "idle"
  <2>1. Calling[x] = NULL /\ Calling'[x] \in Promise!Operations
    BY <1>7, CallingIs, CallingIsNext
  <2>2. PICK op \in Promise!Operations : op = AbstractCall(x)'
    BY <2>1 DEF Calling
  <2>3. AbstractResult(x)' = Promise!Pending
    BY <1>7 DEF AbstractResult, Promise!Pending
  <2>4. Promise!Asks(x, op)
    BY <1>1, <1>3, <1>6, <1>7, <2>1, <2>2, <2>3
    DEF Promise!Asks, Space, Calling, Results, AbstractResult
  <2> QED
    BY <2>4 DEF Promise!LossyNext
<1>8. CASE client_pc[x] = "idle" /\ client_pc'[x] = "idle" /\ Abstract(result'[x]) = Promise!Failed
  <2>1. Calling[x] = NULL /\ AbstractCall(x)' = NULL /\ AbstractResult(x)' = Promise!Failed
    BY <1>8, CallingIs DEF AbstractCall, AbstractResult, Abstract
  <2>2. Calling' = Calling
    BY <1>3, <2>1 DEF Calling
  <2>3. Promise!IsRefused(x)
    BY <1>1, <1>3, <1>6, <1>8, <2>1, <2>2
    DEF Promise!IsRefused, Space, Calling, Results, AbstractResult
  <2> QED
    BY <2>3 DEF Promise!LossyNext
<1>9. CASE client_pc[x] # "idle" /\ client_pc'[x] # "idle" /\ request'[x] = request[x]
  <2>1. AbstractCall(x)' = AbstractCall(x) /\ AbstractResult(x)' = AbstractResult(x)
    BY <1>9 DEF AbstractCall, AbstractResult
  <2>2. Calling' = Calling /\ Results' = Results
    BY <1>3, <2>1 DEF Calling, Results
  <2> QED
    BY <1>1, <1>6, <1>9, <2>2, Mapped
<1>10. CASE /\ client_pc[x] # "idle" /\ client_pc'[x] = "idle"
            /\ Abstract(result'[x]) \in Promise!Answers(x) \cup {Promise!Failed}
  <2>1. /\ Calling[x] # NULL /\ AbstractCall(x)' = NULL
        /\ AbstractResult(x)' \in Promise!Answers(x) \cup {Promise!Failed}
    BY <1>10, CallingIs DEF AbstractCall, AbstractResult, Abstract
  <2>2. served' = [served EXCEPT ![x] = <<>>] /\ refused' = [refused EXCEPT ![x] = FALSE]
    BY <1>4, <1>5, <1>10
  <2>3. Promise!Returns(x)
    BY <1>1, <1>3, <2>1, <2>2 DEF Promise!Returns, Space, Calling, Results, AbstractResult
  <2> QED
    BY <2>3 DEF Promise!LossyNext
<1> QED
  BY <1>7, <1>8, <1>9, <1>10, ClientMaps

\* Whatever datagrams are lost, an operation returns only what the server did for it while
\* it was under way: an OUT reports success only after at least one and at most
\* max_number_of_repeats copies were stashed for it, an INP a tuple only if it was taken from
\* the stash for this INP, and none only if none was there at some moment since
\* its call (server_process_requests.c, and the loops of tuple_space_network.c).
THEOREM ImplementsLossy ==
  ASSUME OneAtATime, OnlyInp, QuietRatio, MaxRepeats > 0
  PROVE  LossySpec => ImplementsLossySpace
<1>1. LossyInit => Promise!LossyInit
  BY MapsInit
<1>2. Reachable /\ Reachable' /\ [LossyNext]_LossyVars => [Promise!LossyNext]_(Promise!lossyVars)
  <2> SUFFICES ASSUME Reachable, Reachable', [LossyNext]_LossyVars
               PROVE  [Promise!LossyNext]_(Promise!lossyVars)
    OBVIOUS
  <2>1. CASE ServerWorks /\ Serve
    BY <2>1, ServerMaps
  <2>2. ASSUME NEW x \in Client, ClientRuns(x) \/ TimesOut(x), Forget
        PROVE  [Promise!LossyNext]_(Promise!lossyVars)
    BY <2>2, ClientStepMaps DEF ClientRuns, TimesOut
  <2>3. CASE \/ (Lose \/ StrangerSends \/ ServerStops) /\ UNCHANGED servingVars
             \/ UNCHANGED LossyVars
    <3>1. UNCHANGED <<client_pc, request, result, served, refused, heap, tuple_stash>>
      BY <2>3 DEF Lose, StrangerSends, ServerStops, Stop, LossyVars, servingVars, systemVars,
                  clientVars, vars, spaceVars
    <3>2. SpaceKept
      BY <3>1 DEF SpaceKept, Copies
    <3> QED
      BY <3>1, <3>2, Stutters
  <2> QED
    BY <2>1, <2>2, <2>3 DEF LossyNext
<1> QED
  BY <1>1, <1>2, ReachableInvariant, PTL
  DEF LossySpec, ImplementsLossySpace, Promise!LossySpec, LossyVars
============
