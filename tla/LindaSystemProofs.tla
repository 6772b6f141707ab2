------------------------- MODULE LindaSystemProofs -------------------------
(***************************************************************************)
(* When no datagram is lost or late, the composed system is a Linda space: *)
(* a theorem, for every set of clients and their programs.  Beyond the     *)
(* invariants of the lossy system it takes one more: as long as the server *)
(* runs, whoever waits has its request or its answer under way.            *)
(***************************************************************************)
EXTENDS LossySystemProofs

\* No datagram is lost, and the device tells that the server's acknowledgement
\* is the server's.
NothingLost == MaxLost = 0 /\ CanReceiveIp

-----------------------------------------------------------------------------
(***************************************************************************)
(* Nobody is forgotten.                                                    *)
(***************************************************************************)
Remembered(c) ==
  client_pc[c] = "await" =>
    Working(c) \/ \E d \in BagToSet(net) : d = Request(c) \/ AnswerTo(c, d)

NobodyForgotten == ~Halted => \A c \in Client : Remembered(c)

LEMMA AnswerIsMessage ==
  ASSUME NEW c \in Client, NEW d, AnswerTo(c, d)
  PROVE  /\ d \in Message /\ d.to = c /\ d.type # "await"
         /\ request[c].kind = "out" => d.type = "ack"
         /\ request[c].kind # "out" => d.type \in {"tuple", "lack"}
<1>1. \A type \in {"lack", "ack"} :
        Tell(type, c) \in Message /\ Tell(type, c).to = c /\ Tell(type, c).type = type
  BY Mine
<1>2. \A t \in Tuple : /\ Carrying(c, t) \in Message
                       /\ Carrying(c, t).to = c /\ Carrying(c, t).type = "tuple"
  BY Mine
<1> QED
  BY <1>1, <1>2 DEF AnswerTo

\* What a server's step takes and adds.
LEMMA WhatMoves ==
  ASSUME NetType, NetType', NEW d, NEW S, Moves(d, S)
  PROVE  /\ \A e \in BagToSet(net) : e # d => e \in BagToSet(net')
         /\ S \subseteq BagToSet(net')
         /\ \A e \in BagToSet(net') : e \notin S => e \in BagToSet(net)
<1>1. \A e : CopiesOf(e, net) \in Nat /\ (e \in BagToSet(net) <=> CopiesOf(e, net) > 0)
  BY CopiesType DEF NetType
<1>2. \A e : CopiesOf(e, net') \in Nat /\ (e \in BagToSet(net') <=> CopiesOf(e, net') > 0)
  BY CopiesType DEF NetType
<1>3. /\ d \in BagToSet(net)
      /\ \A e : CopiesOf(e, net') =
                  CopiesOf(e, net) - (IF e = d THEN 1 ELSE 0) + (IF e \in S THEN 1 ELSE 0)
  BY DEF Moves
<1>4. ASSUME NEW e \in BagToSet(net), e # d
      PROVE  e \in BagToSet(net')
  BY <1>1, <1>2, <1>3, <1>4
<1>5. ASSUME NEW e \in S
      PROVE  e \in BagToSet(net')
  BY <1>1, <1>2, <1>3
<1>6. ASSUME NEW e \in BagToSet(net'), e \notin S
      PROVE  e \in BagToSet(net)
  BY <1>1, <1>2, <1>3, <1>6
<1> QED
  BY <1>4, <1>5, <1>6

LEMMA WhatAdds ==
  ASSUME NetType, NetType', NEW S, Adds(S)
  PROVE  BagToSet(net') = BagToSet(net) \cup S
<1>1. \A e : CopiesOf(e, net) \in Nat /\ (e \in BagToSet(net) <=> CopiesOf(e, net) > 0)
  BY CopiesType DEF NetType
<1>2. \A e : CopiesOf(e, net') \in Nat /\ (e \in BagToSet(net') <=> CopiesOf(e, net') > 0)
  BY CopiesType DEF NetType
<1>3. \A e : e \in BagToSet(net') <=> e \in BagToSet(net) \/ e \in S
  BY <1>1, <1>2 DEF Adds
<1> QED
  BY <1>3

\* A step that leaves the request and its answers where they are.
LEMMA RememberedStays ==
  ASSUME NEW c \in Client, Remembered(c),
         client_pc'[c] = client_pc[c], request'[c] = request[c], Working(c) => Working(c)',
         \A e \in BagToSet(net) : e = Request(c) \/ AnswerTo(c, e) => e \in BagToSet(net')
  PROVE  Remembered(c)'
<1>1. Request(c)' = Request(c)
  BY DEF Request
<1>2. \A d : AnswerTo(c, d) => AnswerTo(c, d)'
  BY DEF AnswerTo
<1> QED
  BY <1>1, <1>2 DEF Remembered

\* The server takes the request of one client, which is not another's, nor an answer.
LEMMA ServerForgetsNoOther ==
  ASSUME ClientType, NetType, NetType', ServerLeavesClients, NEW c \in Client, Remembered(c),
         ~Working(c), NEW d \in ToServer, d.from # c, NEW S, Moves(d, S)
  PROVE  Remembered(c)'
<1>1. /\ client_pc'[c] = client_pc[c] /\ request'[c] = request[c]
  BY DEF ServerLeavesClients
<1>2. CASE client_pc[c] = "await"
  <2>1. Request(c).from = c
    BY DEF Request, SendTuple, GetTuple
  <2>2. d # Request(c) /\ ~AnswerTo(c, d)
    BY <2>1, AnswerIsMessage, TwoWays
  <2>3. \A e \in BagToSet(net) : e = Request(c) \/ AnswerTo(c, e) => e \in BagToSet(net')
    BY <2>2, WhatMoves
  <2> QED
    BY <1>1, <2>3, RememberedStays
<1>3. CASE client_pc[c] # "await"
  BY <1>1, <1>3 DEF Remembered
<1> QED
  BY <1>2, <1>3

LEMMA ServerRemembers ==
  ASSUME OnlyInp, QuietRatio, ServerFacts, ServerFacts', ClientType, NetType, NetType',
         ServerLeavesClients, ServerWorks, NEW c \in Client, OneExchange(c), Remembered(c)
  PROVE  Remembered(c)'
<1>1. client_pc'[c] = client_pc[c] /\ request'[c] = request[c]
  BY DEF ServerLeavesClients
<1>2. ASSUME NEW e \in BagToSet(net'), AnswerTo(c, e)
      PROVE  Remembered(c)'
  <2>1. AnswerTo(c, e)'
    BY <1>1, <1>2 DEF AnswerTo
  <2> QED
    BY <1>2, <2>1 DEF Remembered
<1>3. ASSUME NEW x \in Client, NEW t \in Tuple, Accepts(x, t)
      PROVE  Remembered(c)'
  <2>1. /\ pc = "receive" /\ pc' = "out" /\ handler'.sender = x
        /\ Moves(SendTuple(x, t), {})
    BY <1>3 DEF Accepts
  <2>2. CASE x = c
    BY <2>1, <2>2 DEF Remembered, Working
  <2>3. CASE x # c
    <3>1. ~Working(c) /\ SendTuple(x, t) \in ToServer /\ SendTuple(x, t).from # c
      BY <2>1, <2>3, Mine DEF Working
    <3> QED
      BY <2>1, <3>1, ServerForgetsNoOther
  <2> QED
    BY <2>2, <2>3
<1>4. ASSUME NEW x \in Client, NEW u \in Template, NEW t \in Tuple, Hands(x, u, t)
      PROVE  Remembered(c)'
  <2>1. /\ pc = "receive" /\ Suits(u, t) /\ GetTuple(x, "inp", u) \in BagToSet(net)
        /\ Moves(GetTuple(x, "inp", u), {Carrying(x, t)})
    BY <1>4 DEF Hands, Moves
  <2>2. ~Halted /\ "inp" \in Requests /\ ~Working(c)
    BY <2>1, InpIsRead DEF Halted, Faults, Working
  <2>3. CASE x = c
    <3>1. request[c].kind # "out" /\ Span(request[c]) = u
      BY <2>1, <2>2, <2>3, ReadsRequest
    <3>2. AnswerTo(c, Carrying(c, t))
      BY <2>1, <3>1 DEF AnswerTo
    <3>3. Carrying(c, t) \in BagToSet(net')
      BY <2>1, <2>3, WhatMoves
    <3> QED
      BY <1>2, <3>2, <3>3
  <2>4. CASE x # c
    <3>1. GetTuple(x, "inp", u) \in ToServer /\ GetTuple(x, "inp", u).from # c
      BY <2>2, <2>4, Mine
    <3> QED
      BY <2>1, <2>2, <3>1, ServerForgetsNoOther
  <2> QED
    BY <2>3, <2>4
<1>5. ASSUME NEW x \in Client, NEW u \in Template, Refuses(x, u)
      PROVE  Remembered(c)'
  <2>1. /\ pc = "receive" /\ GetTuple(x, "inp", u) \in BagToSet(net)
        /\ Moves(GetTuple(x, "inp", u), {Tell("lack", x), Tell("await", x)})
    BY <1>5 DEF Refuses, Moves
  <2>2. ~Halted /\ "inp" \in Requests /\ ~Working(c)
    BY <2>1, InpIsRead DEF Halted, Faults, Working
  <2>3. CASE x = c
    <3>1. request[c].kind # "out"
      BY <2>1, <2>2, <2>3, ReadsRequest
    <3>2. AnswerTo(c, Tell("lack", c))
      BY <3>1 DEF AnswerTo
    <3>3. Tell("lack", c) \in BagToSet(net')
      BY <2>1, <2>3, WhatMoves
    <3> QED
      BY <1>2, <3>2, <3>3
  <2>4. CASE x # c
    <3>1. GetTuple(x, "inp", u) \in ToServer /\ GetTuple(x, "inp", u).from # c
      BY <2>2, <2>4, Mine
    <3> QED
      BY <2>1, <2>2, <3>1, ServerForgetsNoOther
  <2> QED
    BY <2>3, <2>4
<1>6. ASSUME NEW x \in Client, Confirms(x)
      PROVE  Remembered(c)'
  <2>1. /\ pc = "receive" /\ ReceivedMsg(x) \in BagToSet(net)
        /\ Moves(ReceivedMsg(x), {Tell("ack", x)})
    BY <1>6 DEF Confirms, Moves
  <2>2. ~Halted /\ ~Working(c)
    BY <2>1 DEF Halted, Faults, Working
  <2>3. CASE x = c
    <3>1. client_pc[c] = "await_ack"
      BY <2>1, <2>2, <2>3, ReadsRequest
    <3> QED
      BY <1>1, <3>1 DEF Remembered
  <2>4. CASE x # c
    <3>1. ReceivedMsg(x) \in ToServer /\ ReceivedMsg(x).from # c
      BY <2>4, Mine
    <3> QED
      BY <2>1, <2>2, <3>1, ServerForgetsNoOther
  <2> QED
    BY <2>3, <2>4
<1>7. ASSUME NEW x \in Client, NEW t \in Tuple, Saves(x, t)
      PROVE  Remembered(c)'
  <2>1. /\ pc = "out" /\ handler.sender = x /\ BagToSet(net') = BagToSet(net) \cup {Tell("ack", x)}
    BY <1>7, WhatAdds DEF Saves
  <2>2. CASE x = c
    <3>1. request[c].kind = "out"
      BY <2>1, <2>2 DEF OneExchange, Working
    <3>2. AnswerTo(c, Tell("ack", c))
      BY <3>1 DEF AnswerTo
    <3> QED
      BY <1>2, <2>1, <2>2, <3>2
  <2>3. CASE x # c
    <3>1. ~Working(c)
      BY <2>1, <2>3 DEF Working
    <3> QED
      BY <1>1, <2>1, <3>1, RememberedStays
  <2> QED
    BY <2>2, <2>3
<1>8. CASE Rests
  <2>1. ~Working(c) /\ BagToSet(net') = BagToSet(net) \cup {}
    BY <1>8, WhatAdds DEF Rests, Working
  <2> QED
    BY <1>1, <2>1, RememberedStays
<1> QED
  BY <1>3, <1>4, <1>5, <1>6, <1>7, <1>8, ServerActs

\* What a waiting client makes of a datagram: it drops the AWAITING of an earlier
\* refusal, and anything else is its answer.
LEMMA AckComes ==
  ASSUME NothingLost, ClientType, NetType, NoStrangers, NEW c \in Client, OneExchange(c),
         ReceiveAck(c)
  PROVE  \E d \in Inbox(c) :
           /\ net' = net (-) SetToBag({d})
           /\ \/ /\ d.type = "await" /\ UNCHANGED <<client_pc, request, context, result>>
              \/ AnswerTo(c, d) /\ d = Tell("ack", c) /\ Finish(c, Returns("no_error"))
<1>1. client_pc[c] = "await" /\ request[c].kind = "out" /\ UNCHANGED request
  BY DEF ReceiveAck
<1>2. PICK d \in Inbox(c) :
        /\ net' = net (-) SetToBag({d})
        /\ \E known \in FromServer(d) :
             IF known /\ Acknowledges(d)
             THEN Finish(c, Returns("no_error"))
             ELSE UNCHANGED <<client_pc, repeats, context, result>>
  BY DEF ReceiveAck
<1>3. d \in Message /\ (d.type # "await" => OfExchange(c, d))
  BY Reaches
<1>4. FromServer(d) = {TRUE}
  <2>1. d.type # "stranger"
    BY <1>3 DEF Message
  <2> QED
    BY <2>1 DEF FromServer, NothingLost
<1>5. CASE d.type = "await"
  <2>1. ~Acknowledges(d)
    BY <1>5 DEF Acknowledges
  <2> QED
    BY <1>1, <1>2, <1>5, <2>1
<1>6. CASE d.type # "await"
  <2>1. AnswerTo(c, d) /\ d = Tell("ack", c)
    BY <1>1, <1>3, <1>6, RequestType, TwoWays DEF OfExchange, AnswerTo
  <2>2. Acknowledges(d)
    BY <2>1 DEF Acknowledges, Tell
  <2> QED
    BY <1>2, <1>4, <2>1, <2>2
<1> QED
  BY <1>5, <1>6

LEMMA AnswerComes ==
  ASSUME ClientType, NetType, NoStrangers, NEW c \in Client, OneExchange(c), ReceiveAnswer(c)
  PROVE  \E d \in Inbox(c) :
           /\ net' = net (-) SetToBag({d})
           /\ \/ /\ d.type = "await" /\ UNCHANGED <<client_pc, request, context, result>>
              \/ /\ AnswerTo(c, d) /\ UNCHANGED <<request, result>>
                 /\ client_pc'[c] = "ack" /\ context'[c] = Recorded(d)
<1>1. client_pc[c] = "await" /\ request[c].kind # "out" /\ UNCHANGED <<request, result>>
  BY DEF ReceiveAnswer
<1>2. PICK d \in Inbox(c) :
        /\ net' = net (-) SetToBag({d})
        /\ \/ d.type = "await" /\ UNCHANGED <<client_pc, context>>
           \/ /\ d.type # "await" /\ context' = [context EXCEPT ![c] = Recorded(d)]
              /\ Enter(c, "ack")
  BY DEF ReceiveAnswer
<1>3. d \in Message /\ (d.type # "await" => OfExchange(c, d))
  BY Reaches
<1>4. CASE d.type = "await"
  BY <1>1, <1>2, <1>4
<1>5. CASE d.type # "await"
  <2>1. AnswerTo(c, d)
    BY <1>1, <1>3, <1>5, RequestType, TwoWays DEF OfExchange
  <2>2. client_pc'[c] = "ack" /\ context'[c] = Recorded(d)
    BY <1>2, <1>5 DEF Enter, Goto, ClientType
  <2> QED
    BY <1>1, <1>2, <2>1, <2>2
<1> QED
  BY <1>4, <1>5

LEMMA OthersRemembered ==
  ASSUME ClientType, NetType, NetType', UNCHANGED vars, NEW c \in Client, Remembered(c),
         NEW x \in Client, x # c, ClientStep(x) \/ WindowEnds(x)
  PROVE  Remembered(c)'
<1>1. client_pc'[c] = client_pc[c] /\ request'[c] = request[c]
  BY OthersKeep
<1>2. Working(c) <=> Working(c)'
  BY DEF Working, vars, spaceVars
<1>3. CASE client_pc[c] = "await"
  <2>1. Request(c).from = c /\ Request(c) \in ToServer
    BY <1>3, RequestType DEF Request, SendTuple, GetTuple
  <2>2. ASSUME NEW e \in BagToSet(net), e = Request(c) \/ AnswerTo(c, e)
        PROVE  e \in BagToSet(net')
    <3>1. e \notin Inbox(x)
      BY <2>1, <2>2, AnswerIsMessage, TwoWays DEF Inbox
    <3>2. CASE net' = net
      BY <3>2
    <3>3. ASSUME NEW d, net' = net (+) SetToBag({d})
          PROVE  e \in BagToSet(net')
      BY <3>3, BagGains DEF NetType
    <3>4. ASSUME NEW d \in Inbox(x), net' = net (-) SetToBag({d})
          PROVE  e \in BagToSet(net')
      <4>1. CopiesOf(e, net') = CopiesOf(e, net) - (IF e = d THEN 1 ELSE 0)
        BY <3>4, BagLoses DEF NetType, Inbox
      <4>2. CopiesOf(e, net') = CopiesOf(e, net) /\ CopiesOf(e, net) > 0
        BY <3>1, <4>1, CopiesType DEF NetType
      <4> QED
        BY <4>2, CopiesType DEF NetType
    <3> QED
      BY <3>2, <3>3, <3>4, ClientTouchesNet
  <2> QED
    BY <1>1, <1>2, <2>2, RememberedStays
<1>4. CASE client_pc[c] # "await"
  BY <1>1, <1>4 DEF Remembered
<1> QED
  BY <1>3, <1>4

LEMMA OwnRemembered ==
  ASSUME OneAtATime, NothingLost, ClientType, NetType, NetType', NoStrangers, UNCHANGED vars,
         NEW c \in Client, OneExchange(c), Remembered(c), ClientStep(c) \/ WindowEnds(c)
  PROVE  Remembered(c)'
<1> SUFFICES ASSUME client_pc'[c] = "await" PROVE Remembered(c)'
  BY DEF Remembered
<1>1. Working(c) <=> Working(c)'
  BY DEF Working, vars, spaceVars
<1>2. ASSUME NEW d \in Inbox(c), net' = net (-) SetToBag({d}), d.type = "await",
             UNCHANGED <<client_pc, request>>
      PROVE  Remembered(c)'
  <2>1. client_pc[c] = "await"
    BY <1>2
  <2>2. Request(c) # d
    BY <1>2, <2>1, RequestType, TwoWays DEF Inbox
  <2>3. ASSUME NEW e \in BagToSet(net), e = Request(c) \/ AnswerTo(c, e)
        PROVE  e \in BagToSet(net')
    <3>1. e # d
      BY <1>2, <2>2, <2>3, AnswerIsMessage
    <3>2. CopiesOf(e, net') = CopiesOf(e, net) /\ CopiesOf(e, net) > 0
      BY <1>2, <3>1, BagLoses, CopiesType DEF NetType, Inbox
    <3> QED
      BY <3>2, CopiesType DEF NetType
  <2> QED
    BY <1>1, <1>2, <2>3, RememberedStays
<1>3. CASE SendRequest(c)
  <2>1. net' = net (+) SetToBag({Request(c)}) /\ UNCHANGED request
    BY <1>3 DEF SendRequest
  <2>2. Request(c) \in BagToSet(net') /\ Request(c)' = Request(c)
    BY <2>1, BagGains DEF NetType, Request
  <2> QED
    BY <2>2 DEF Remembered
<1>4. CASE ReceiveAck(c)
  <2>1. ASSUME Finish(c, Returns("no_error")) PROVE FALSE
    BY <2>1 DEF Finish, Goto, ClientType
  <2> QED
    BY <1>2, <1>4, <2>1, AckComes
<1>5. CASE ReceiveAnswer(c)
  BY <1>2, <1>5, AnswerComes
<1>6. ~Call(c) /\ ~SendAck(c) /\ ~ReceiveAckOfAck(c) /\ ~WindowEnds(c)
  BY DEF Call, SendAck, ReceiveAckOfAck, WindowEnds, Windows, Enter, Finish, Goto, ClientType
<1>7. ~SendRequestFails(c) /\ ~SendAckFails(c)
  BY DEF SendRequestFails, SendAckFails, OneAtATime
<1> QED
  BY <1>3, <1>4, <1>5, <1>6, <1>7 DEF ClientStep

LEMMA NobodyForgottenStep ==
  ASSUME OneAtATime, OnlyInp, QuietRatio, NothingLost, ServerFacts, ServerFacts', SystemTypes,
         SystemTypes', NoStrangers, Exchanges, lost = 0, NobodyForgotten, [SystemNext]_systemVars
  PROVE  lost' = 0 /\ NobodyForgotten'
<1> USE DEF SystemTypes
<1>1. ~Lose
  BY DEF Lose, NothingLost
<1>2. lost' = 0
  BY <1>1, ServerWorksOnNet
  DEF SystemNext, ServerFacts, ServerStops, historyVars, ClientRuns, TimesOut, Observed, StrangerSends,
      systemVars
<1>3. ASSUME ~Halted', NEW c \in Client
      PROVE  Remembered(c)'
  <2>1. CASE ServerWorks
    <3>1. ServerLeavesClients
      BY <2>1, ServerWorksOnNet DEF ServerLeavesClients, ServerFacts
    <3>2. ~Halted
      BY <2>1, ServerActs DEF Accepts, Saves, Hands, Refuses, Confirms, Rests, Halted, Faults
    <3> QED
      BY <2>1, <3>1, <3>2, ServerRemembers DEF Exchanges, NobodyForgotten
  <2>2. ~ServerStops
    BY <1>3 DEF ServerStops, Stop, Halted
  <2>3. ASSUME NEW x \in Client, ClientRuns(x) \/ TimesOut(x)
        PROVE  Remembered(c)'
    <3>1. UNCHANGED vars /\ (ClientStep(x) \/ WindowEnds(x))
      BY <2>3 DEF ClientRuns, TimesOut
    <3>2. ~Halted
      BY <1>3, <3>1 DEF Halted, vars
    <3>3. Remembered(c) /\ OneExchange(c)
      BY <3>2 DEF NobodyForgotten, Exchanges
    <3> QED
      BY <3>1, <3>3, OwnRemembered, OthersRemembered
  <2>4. CASE UNCHANGED systemVars
    <3>1. UNCHANGED <<vars, client_pc, request, net>>
      BY <2>4 DEF systemVars, clientVars
    <3>2. ~Halted /\ (Working(c) <=> Working(c)')
      BY <1>3, <3>1 DEF Halted, Working, vars, spaceVars
    <3>3. Remembered(c)
      BY <3>2 DEF NobodyForgotten
    <3> QED
      BY <3>1, <3>2, <3>3, RememberedStays
  <2> QED
    BY <1>1, <2>1, <2>2, <2>3, <2>4 DEF SystemNext, StrangerSends, OneAtATime
<1> QED
  BY <1>2, <1>3 DEF NobodyForgotten

\* Everything the refinement needs to know of a reachable state.
LindaReachable ==
  /\ ServerFacts /\ SystemTypes /\ NoStrangers /\ Exchanges /\ ContextFresh
  /\ NobodyForgotten

LEMMA LindaReachableInvariant ==
  ASSUME OneAtATime, OnlyInp, QuietRatio, NothingLost
  PROVE  SystemSpec => [](LindaReachable /\ lost = 0)
<1> DEFINE Known == ServerFacts /\ SystemTypes /\ NoStrangers /\ Exchanges
           Kept == lost = 0 /\ NobodyForgotten
<1>1. SystemSpec => [](Known /\ ContextFresh)
  <2>1. OnlyTakes
    BY DEF OnlyInp, OnlyTakes
  <2> QED
    BY <2>1, ServerFactsInvariant, SystemTypesInvariant, ExchangesInvariant, ConservedInvariant, PTL
<1>2. SystemInit => Kept
  BY DEF SystemInit, ClientInit, NobodyForgotten, Remembered
<1>3. Known /\ Known' /\ Kept /\ [SystemNext]_systemVars => Kept'
  BY NobodyForgottenStep
<1>4. Known /\ ContextFresh /\ Kept => LindaReachable /\ lost = 0
  BY DEF LindaReachable
<1> HIDE DEF Known, Kept
<1> QED
  BY <1>1, <1>2, <1>3, <1>4, PTL DEF SystemSpec

-----------------------------------------------------------------------------
(***************************************************************************)
(* The answer under way.                                                   *)
(***************************************************************************)
LEMMA AnsweringIs ==
  ASSUME NEW c \in Client
  PROVE  NetType /\ ClientType /\ NoStrangers /\ OneExchange(c) /\ client_pc[c] = "await" =>
           /\ \A d : d \in Answering(c) <=> d \in BagToSet(net) /\ AnswerTo(c, d)
           /\ \A d, e \in Answering(c) : d = e
<1> SUFFICES ASSUME NetType, ClientType, NoStrangers, OneExchange(c), client_pc[c] = "await"
             PROVE  /\ \A d : d \in Answering(c) <=> d \in BagToSet(net) /\ AnswerTo(c, d)
                    /\ \A d, e \in Answering(c) : d = e
  OBVIOUS
<1>1. ASSUME NEW d \in Answering(c)
      PROVE  d \in BagToSet(net) /\ AnswerTo(c, d) /\ d \in Traffic(c) /\ Only(c, {d})
  <2>1. d \in Inbox(c) /\ d.type \in {"ack", "tuple", "lack"}
    BY DEF Answering
  <2>2. /\ d \in BagToSet(net) /\ d \in Message
        /\ d \in Traffic(c) /\ Only(c, {d}) /\ OfExchange(c, d)
    BY <2>1, Reaches
  <2>3. d # Request(c)
    BY <2>2, RequestType, TwoWays
  <2> QED
    BY <2>2, <2>3 DEF OfExchange
<1>2. ASSUME NEW d \in BagToSet(net), AnswerTo(c, d)
      PROVE  d \in Answering(c)
  <2>1. d \in Inbox(c)
    BY <1>2, AnswerIsMessage, TwoWays DEF Inbox
  <2>2. d.type \in IF request[c].kind = "out" THEN {"ack"} ELSE {"tuple", "lack"}
    BY <1>2, AnswerIsMessage
  <2> QED
    BY <2>1, <2>2 DEF Answering
<1>3. ASSUME NEW d \in Answering(c), NEW e \in Answering(c)
      PROVE  d = e
  <2>1. CopiesOf(e, net) > 0 /\ CopiesOf(e, net) \in Nat
    BY <1>1, CopiesType DEF NetType
  <2> QED
    BY <1>1, <2>1 DEF Only
<1> QED
  BY <1>1, <1>2, <1>3

LEMMA AnsweringIsNext ==
  ASSUME NEW c \in Client
  PROVE  (NetType /\ ClientType /\ NoStrangers /\ OneExchange(c) /\ client_pc[c] = "await" =>
           /\ \A d : d \in Answering(c) <=> d \in BagToSet(net) /\ AnswerTo(c, d)
           /\ \A d, e \in Answering(c) : d = e)'
BY AnsweringIs, PTL

\* What an operation in its window will return.
LEMMA AwaitedAnswer ==
  ASSUME NetType, ClientType, NoStrangers, NEW c \in Client, OneExchange(c), client_pc[c] = "await"
  PROVE  /\ \A d \in BagToSet(net) : AnswerTo(c, d) => AbstractAnswer(c) = Linda!Answer(d.tuple)
         /\ (\A d \in BagToSet(net) : ~AnswerTo(c, d)) => AbstractAnswer(c) = Linda!Pending
<1>1. /\ \A d : d \in Answering(c) <=> d \in BagToSet(net) /\ AnswerTo(c, d)
      /\ \A d, e \in Answering(c) : d = e
  BY AnsweringIs
<1>2. AbstractAnswer(c) = IF Answering(c) # {}
                          THEN [status |-> "done", tuple |-> (CHOOSE d \in Answering(c) : TRUE).tuple]
                          ELSE [status |-> "pending", tuple |-> NULL]
  BY DEF AbstractAnswer
<1>3. ASSUME NEW d \in BagToSet(net), AnswerTo(c, d)
      PROVE  AbstractAnswer(c) = Linda!Answer(d.tuple)
  <2>1. d \in Answering(c)
    BY <1>1, <1>3
  <2>2. (CHOOSE e \in Answering(c) : TRUE) \in Answering(c)
    BY <2>1
  <2>3. (CHOOSE e \in Answering(c) : TRUE) = d
    BY <1>1, <2>1, <2>2
  <2> QED
    BY <1>2, <2>1, <2>3 DEF Linda!Answer
<1>4. ASSUME \A d \in BagToSet(net) : ~AnswerTo(c, d)
      PROVE  AbstractAnswer(c) = Linda!Pending
  <2>1. Answering(c) = {}
    BY <1>1, <1>4
  <2> QED
    BY <1>2, <2>1 DEF Linda!Pending
<1> QED
  BY <1>3, <1>4

LEMMA AwaitedAnswerNext ==
  ASSUME NEW c \in Client
  PROVE  (NetType /\ ClientType /\ NoStrangers /\ OneExchange(c) /\ client_pc[c] = "await" =>
           /\ \A d \in BagToSet(net) : AnswerTo(c, d) => AbstractAnswer(c) = Linda!Answer(d.tuple)
           /\ (\A d \in BagToSet(net) : ~AnswerTo(c, d)) => AbstractAnswer(c) = Linda!Pending)'
<1>1. NetType /\ ClientType /\ NoStrangers /\ OneExchange(c) /\ client_pc[c] = "await" =>
        /\ \A d \in BagToSet(net) : AnswerTo(c, d) => AbstractAnswer(c) = Linda!Answer(d.tuple)
        /\ (\A d \in BagToSet(net) : ~AnswerTo(c, d)) => AbstractAnswer(c) = Linda!Pending
  BY AwaitedAnswer
<1> QED
  BY <1>1, PTL

\* The answer stays what it is as long as the client and its answers do.
LEMMA AnswerStays ==
  ASSUME LindaReachable, LindaReachable', NEW c \in Client,
         client_pc'[c] = client_pc[c], request'[c] = request[c],
         context'[c] = context[c], result'[c] = result[c],
         client_pc[c] = "await" =>
           \A d : AnswerTo(c, d) => (d \in BagToSet(net) <=> d \in BagToSet(net'))
  PROVE  AbstractAnswer(c)' = AbstractAnswer(c)
<1> USE DEF LindaReachable, SystemTypes, Exchanges
<1>1. CASE client_pc[c] # "await"
  BY <1>1 DEF AbstractAnswer
<1>2. CASE client_pc[c] = "await"
  <2>1. \A d : AnswerTo(c, d)' <=> AnswerTo(c, d)
    BY DEF AnswerTo
  <2>2. /\ \A d \in BagToSet(net') : AnswerTo(c, d)' => AbstractAnswer(c)' = Linda!Answer(d.tuple)
        /\ (\A d \in BagToSet(net') : ~AnswerTo(c, d)') => AbstractAnswer(c)' = Linda!Pending
    BY <1>2, AwaitedAnswerNext DEF Linda!Answer, Linda!Pending
  <2>3. /\ \A d \in BagToSet(net) : AnswerTo(c, d) => AbstractAnswer(c) = Linda!Answer(d.tuple)
        /\ (\A d \in BagToSet(net) : ~AnswerTo(c, d)) => AbstractAnswer(c) = Linda!Pending
    BY <1>2, AwaitedAnswer
  <2> QED
    BY <1>2, <2>1, <2>2, <2>3
<1> QED
  BY <1>1, <1>2

\* A tuple that suits what was asked for begins with the connection id.
LEMMA SuitableBegins ==
  ASSUME NEW c \in Client, NEW op \in Program[c], NEW t \in Tuple, Suits(Span(op), t)
  PROVE  t[1] = IdField(op.app)
<1>1. t \in Seq(Field) /\ ts_does_all_fields_of_tuple_contain_data(t)
  BY MessagesAssumption
<1>2. op.fields \in Seq(Field) /\ op.app \in Value
  BY ClientAssumption
<1>3. IdField(op.app) \in Field
  BY <1>2 DEF IdField, Field, FieldType
<1>4. /\ Span(op) \in Seq(Field) /\ Len(Span(op)) \in Nat /\ Len(Span(op)) >= 1
      /\ Span(op)[1] = IdField(op.app)
  BY <1>2, <1>3 DEF Span
<1>5. 1 \in DOMAIN Span(op) /\ 1 \in DOMAIN t /\ t[1] \in Field
  <2>1. Len(t) = Len(Span(op)) /\ Len(t) \in Nat
    BY <1>1 DEF Suits
  <2>2. 1 \in 1 .. Len(t)
    BY <1>4, <2>1
  <2> QED
    BY <1>1, <1>4, <2>1, <2>2, ElementOfSeq
<1>6. t[1].hasData
  BY <1>1, <1>5 DEF ts_does_all_fields_of_tuple_contain_data
<1>7. t[1].type = "uint" /\ t[1].value = op.app
  BY <1>4, <1>5 DEF Suits, ts_is_matching_tuple, ts_compare_tuple_fields, IdField
<1> QED
  BY <1>5, <1>6, <1>7 DEF IdField, Field

\* An INP returns what the answer it recorded says.
LEMMA OutcomeIsAnswer ==
  ASSUME OnlyInp, ClientType, NEW c \in Client, client_pc[c] # "idle", request[c].kind # "out",
         NEW d, AnswerTo(c, d)
  PROVE  Abstract(Outcome(request[c], Recorded(d))) = Linda!Answer(d.tuple)
<1>1. request[c] \in Program[c] /\ request[c].kind = "inp" /\ ~Blocking(request[c])
  BY CallingIs DEF ClientType, Blocking
<1>2. CASE d = Tell("lack", c)
  <2>1. /\ Recorded(d).error = "no_error" /\ Recorded(d).response = "lack" /\ d.tuple = NULL
    BY <1>2 DEF Recorded, Tell, NoContext
  <2>2. Outcome(request[c], Recorded(d)) = Returns("no_error")
    BY <1>1, <2>1 DEF Outcome
  <2> QED
    BY <2>1, <2>2 DEF Abstract, Returns, Linda!Answer
<1>3. ASSUME NEW t \in Tuple, Suits(Span(request[c]), t), d = Carrying(c, t)
      PROVE  Abstract(Outcome(request[c], Recorded(d))) = Linda!Answer(d.tuple)
  <2>1. /\ Recorded(d).error = "no_error" /\ Recorded(d).response = "tuple"
        /\ Recorded(d).tuple = t /\ d.tuple = t
    BY <1>3 DEF Recorded, Carrying, NoContext
  <2>2. t[1] = IdField(request[c].app)
    BY <1>1, <1>3, SuitableBegins
  <2>3. Outcome(request[c], Recorded(d)) = [error |-> "no_error", tuple |-> t]
    BY <2>1, <2>2 DEF Outcome
  <2> QED
    BY <2>1, <2>3 DEF Abstract, Linda!Answer
<1> QED
  BY <1>2, <1>3 DEF AnswerTo

-----------------------------------------------------------------------------
(***************************************************************************)
(* The refinement: each step of the system is one of LindaSpace or none.   *)
(***************************************************************************)
Told == [c \in Client |-> AbstractAnswer(c)]

\* The variables of LindaSpace are these, and its matching is the server's.
LEMMA LindaMapped ==
  /\ (Space = [t \in Tuple |-> 0] /\ Calling = [c \in Client |-> NULL]
       /\ Told = [c \in Client |-> Linda!Answer(NULL)] /\ pc # "stopped")
       => Linda!LindaInit
  /\ (UNCHANGED <<Space, Calling, Told>> /\ (pc' = "stopped" <=> pc = "stopped"))
       => UNCHANGED Linda!lindaVars
  /\ \A c, t : Linda!Fits(c, t) <=> Space[t] > 0 /\ Suits(Calling[c].tuple, t)
<1>1. (Space = [t \in Tuple |-> 0] /\ Calling = [c \in Client |-> NULL]
       /\ Told = [c \in Client |-> Linda!Answer(NULL)] /\ pc # "stopped")
      => Linda!LindaInit
  BY DEF Linda!LindaInit, Space, Calling, Told
<1>2. (UNCHANGED <<Space, Calling, Told>> /\ (pc' = "stopped" <=> pc = "stopped"))
        => UNCHANGED Linda!lindaVars
  BY DEF Linda!lindaVars, Space, Calling, Told
<1>3. \A c, t : Linda!Fits(c, t) <=> Space[t] > 0 /\ Suits(Calling[c].tuple, t)
  BY DEF Linda!Fits, Linda!ts_is_matching_tuple, Linda!ts_compare_tuple_fields,
         ts_is_matching_tuple, ts_compare_tuple_fields, Space, Calling, Suits
<1> QED
  BY <1>1, <1>2, <1>3

LEMMA LindaMapsInit == SystemInit => Linda!LindaInit
<1> SUFFICES ASSUME SystemInit PROVE Linda!LindaInit
  OBVIOUS
<1>1. /\ tuple_stash = <<>> /\ pc = "receive" /\ client_pc = [c \in Client |-> "idle"]
      /\ result = [c \in Client |-> Returns("no_error")]
  BY DEF SystemInit, Init, ClientInit
<1>2. \A t \in Tuple : Copies(t) = 0
  <2>1. \A t : {i \in DOMAIN tuple_stash : heap[tuple_stash[i].data] = t} = {}
    BY <1>1
  <2> QED
    BY <2>1, FS_EmptySet DEF Copies
<1>3. \A c \in Client : AbstractAnswer(c) = Linda!Answer(NULL)
  BY <1>1 DEF AbstractAnswer, Abstract, Returns, Linda!Answer
<1>4. Space = [t \in Tuple |-> 0] /\ Calling = [c \in Client |-> NULL]
  BY <1>1, <1>2 DEF Space, Calling, AbstractCall
<1>5. Told = [c \in Client |-> Linda!Answer(NULL)]
  BY <1>3 DEF Told
<1> QED
  BY <1>1, <1>4, <1>5, LindaMapped

LEMMA ToldChanges ==
  ASSUME NEW x \in Client,
         \A c \in Client : c # x => AbstractAnswer(c)' = AbstractAnswer(c)
  PROVE  Told' = [Told EXCEPT ![x] = AbstractAnswer(x)']
<1>1. Told' = [c \in Client |-> AbstractAnswer(c)'] /\ Told = [c \in Client |-> AbstractAnswer(c)]
  BY DEF Told
<1> QED
  BY <1>1

\* The server's steps.
LEMMA ServerAnswersOthers ==
  ASSUME LindaReachable, LindaReachable', ServerLeavesClients, NEW c \in Client,
         NEW S, Adds(S) \/ \E d \in ToServer : Moves(d, S),
         client_pc[c] = "await" => \A e \in S : ~AnswerTo(c, e)
  PROVE  AbstractAnswer(c)' = AbstractAnswer(c)
<1> USE DEF LindaReachable, SystemTypes
<1>1. ASSUME client_pc[c] = "await", NEW e, AnswerTo(c, e)
      PROVE  e \in BagToSet(net) <=> e \in BagToSet(net')
  <2>1. e \notin S /\ e \notin ToServer
    BY <1>1, AnswerIsMessage, TwoWays
  <2>2. CASE Adds(S)
    BY <2>1, <2>2, WhatAdds
  <2>3. ASSUME NEW d \in ToServer, Moves(d, S)
        PROVE  e \in BagToSet(net) <=> e \in BagToSet(net')
    BY <2>1, <2>3, WhatMoves
  <2> QED
    BY <2>2, <2>3
<1> QED
  BY <1>1, AnswerStays DEF ServerLeavesClients

\* As long as the request is all there is of the exchange, there is no answer.
LEMMA NotAnsweredYet ==
  ASSUME LindaReachable, NEW c \in Client, client_pc[c] = "await",
         NEW S \in SUBSET ToServer, Only(c, S)
  PROVE  AbstractAnswer(c) = Linda!Pending
<1> USE DEF LindaReachable, SystemTypes, Exchanges
<1>1. ASSUME NEW d \in BagToSet(net), AnswerTo(c, d)
      PROVE  FALSE
  <2>1. d \in Traffic(c) /\ d \notin S
    BY <1>1, AnswerIsMessage, TwoWays DEF Traffic
  <2>2. CopiesOf(d, net) > 0 /\ CopiesOf(d, net) \in Nat
    BY <1>1, CopiesType DEF NetType
  <2> QED
    BY <2>1, <2>2 DEF Only
<1> QED
  BY <1>1, AwaitedAnswer

\* The answer the server's step puts under way is the operation's.
LEMMA AnsweredNow ==
  ASSUME LindaReachable', ServerLeavesClients, NEW c \in Client, client_pc[c] = "await",
         NEW d \in BagToSet(net'), AnswerTo(c, d)
  PROVE  AbstractAnswer(c)' = Linda!Answer(d.tuple)
<1>1. client_pc'[c] = "await" /\ AnswerTo(c, d)'
  BY DEF ServerLeavesClients, AnswerTo
<1>2. \A e \in BagToSet(net') : AnswerTo(c, e)' => AbstractAnswer(c)' = Linda!Answer(e.tuple)
  BY <1>1, AwaitedAnswerNext DEF LindaReachable, SystemTypes, Exchanges, Linda!Answer
<1> QED
  BY <1>1, <1>2

\* A message to one client answers no other.
LEMMA AnswersNoOther ==
  ASSUME NEW c \in Client, NEW x \in Client, x # c, NEW d, d.to = x
  PROVE  ~AnswerTo(c, d)
BY AnswerIsMessage

LEMMA SavesPutsTuple ==
  ASSUME OnlyInp, LindaReachable, LindaReachable', ServerLeavesClients,
         NEW c \in Client, NEW t \in Tuple, Saves(c, t)
  PROVE  Linda!Puts(c)
<1> USE DEF LindaReachable, SystemTypes
<1>1. /\ pc = "out" /\ pc' = "resend" /\ handler.sender = c /\ heap[handler.data] = t
      /\ Adds({Tell("ack", c)})
      /\ \A x \in Tuple : Copies(x)' = Copies(x) + (IF x = t THEN 1 ELSE 0)
  BY DEF Saves
<1>2. /\ client_pc[c] = "await" /\ request[c].kind = "out" /\ Span(request[c]) = t
      /\ Only(c, {})
  BY <1>1 DEF Exchanges, OneExchange, Working
<1>3. Calling[c] # NULL /\ Calling[c].kind = "out" /\ Calling[c].tuple = t
  BY <1>2, CallingIs
<1>4. AbstractAnswer(c) = Linda!Pending
  BY <1>2, NotAnsweredYet
<1>5. AbstractAnswer(c)' = Linda!Answer(NULL)
  <2>1. Tell("ack", c) \in BagToSet(net') /\ AnswerTo(c, Tell("ack", c))
    BY <1>1, <1>2, WhatAdds DEF AnswerTo
  <2>2. AbstractAnswer(c)' = Linda!Answer(Tell("ack", c).tuple)
    BY <1>2, <2>1, AnsweredNow
  <2> QED
    BY <2>2 DEF Tell
<1>6. \A x \in Client : x # c => AbstractAnswer(x)' = AbstractAnswer(x)
  <2>1. Tell("ack", c).to = c
    BY Mine
  <2> QED
    BY <1>1, <2>1, AnswersNoOther, ServerAnswersOthers
<1>7. Told' = [Told EXCEPT ![c] = Linda!Answer(NULL)]
  BY <1>5, <1>6, ToldChanges
<1>8. Space' = [Space EXCEPT ![t] = @ + 1]
  <2>1. \A x \in Tuple : Copies(x) \in Nat
    BY CopiesNumber DEF CopiesInNat, ServerFacts
  <2>2. \A x \in Tuple : Copies(x)' = IF x = t THEN Copies(t) + 1 ELSE Copies(x)
    BY <1>1, <2>1
  <2> QED
    BY <2>2, SpaceChanges DEF Space
<1>9. Calling' = Calling
  BY DEF ServerLeavesClients, Calling, AbstractCall
<1>10. Linda!Waits(c, "out")
  BY <1>1, <1>3, <1>4 DEF Linda!Waits, Calling
<1> QED
  BY <1>1, <1>3, <1>7, <1>8, <1>9, <1>10 DEF Linda!Puts, Space, Calling, Told

LEMMA HandsTakesTuple ==
  ASSUME OnlyInp, LindaReachable, LindaReachable', ServerLeavesClients,
         NEW c \in Client, NEW u \in Template, NEW t \in Tuple, Hands(c, u, t)
  PROVE  Linda!Takes(c)
<1> USE DEF LindaReachable, SystemTypes
<1>1. /\ pc = "receive" /\ pc' = "resend" /\ GetTuple(c, "inp", u) \in BagToSet(net)
      /\ Moves(GetTuple(c, "inp", u), {Carrying(c, t)})
      /\ Suits(u, t) /\ Copies(t) > 0
      /\ \A x \in Tuple : Copies(x)' = Copies(x) - (IF x = t THEN 1 ELSE 0)
  BY DEF Hands, Moves
<1>2. ~Halted /\ "inp" \in Requests
  BY <1>1, InpIsRead DEF Halted, Faults
<1>3. client_pc[c] = "await" /\ request[c].kind = "inp" /\ Span(request[c]) = u
  BY <1>1, <1>2, ReadsRequest DEF Exchanges
<1>4. Calling[c] # NULL /\ Calling[c].kind = "inp" /\ Calling[c].tuple = u
  BY <1>3, CallingIs
<1>5. GetTuple(c, "inp", u) \in ToServer /\ GetTuple(c, "inp", u).from = c
  BY <1>2, Mine
<1>6. AbstractAnswer(c) = Linda!Pending
  <2>1. GetTuple(c, "inp", u) \in Traffic(c)
    BY <1>2, <1>5 DEF Traffic
  <2>2. Only(c, {GetTuple(c, "inp", u)})
    BY <1>1, <2>1, ExchangeOf DEF Exchanges
  <2> QED
    BY <1>3, <1>5, <2>2, NotAnsweredYet
<1>7. AbstractAnswer(c)' = Linda!Answer(t)
  <2>1. Carrying(c, t) \in BagToSet(net') /\ AnswerTo(c, Carrying(c, t))
    BY <1>1, <1>3, WhatMoves DEF AnswerTo
  <2>2. AbstractAnswer(c)' = Linda!Answer(Carrying(c, t).tuple)
    BY <1>3, <2>1, AnsweredNow
  <2> QED
    BY <2>2 DEF Carrying
<1>8. \A x \in Client : x # c => AbstractAnswer(x)' = AbstractAnswer(x)
  <2>1. Carrying(c, t).to = c
    BY Mine
  <2> QED
    BY <1>1, <1>5, <2>1, AnswersNoOther, ServerAnswersOthers
<1>9. Told' = [Told EXCEPT ![c] = Linda!Answer(t)]
  BY <1>7, <1>8, ToldChanges
<1>10. Space' = [Space EXCEPT ![t] = @ - 1]
  <2>1. \A x \in Tuple : Copies(x) \in Nat
    BY CopiesNumber DEF CopiesInNat, ServerFacts
  <2>2. \A x \in Tuple : Copies(x)' = IF x = t THEN Copies(t) - 1 ELSE Copies(x)
    BY <1>1, <2>1
  <2> QED
    BY <2>2, SpaceChanges DEF Space
<1>11. Linda!Fits(c, t)
  BY <1>1, <1>4, LindaMapped DEF Space
<1>12. Calling' = Calling
  BY DEF ServerLeavesClients, Calling, AbstractCall
<1>13. Linda!Waits(c, "inp")
  BY <1>1, <1>4, <1>6 DEF Linda!Waits, Calling
<1> QED
  BY <1>1, <1>9, <1>10, <1>11, <1>12, <1>13 DEF Linda!Takes, Space, Calling, Told

LEMMA RefusalFindsNone ==
  ASSUME OnlyInp, LindaReachable, LindaReachable', ServerLeavesClients,
         NEW c \in Client, NEW u \in Template, Refuses(c, u)
  PROVE  Linda!FindsNone(c)
<1> USE DEF LindaReachable, SystemTypes
<1>1. /\ pc = "receive" /\ pc' = "resend" /\ GetTuple(c, "inp", u) \in BagToSet(net)
      /\ Moves(GetTuple(c, "inp", u), {Tell("lack", c), Tell("await", c)})
      /\ \A t \in Tuple : Copies(t) > 0 => ~Suits(u, t)
      /\ SpaceKept
  BY DEF Refuses, Moves
<1>2. ~Halted /\ "inp" \in Requests
  BY <1>1, InpIsRead DEF Halted, Faults
<1>3. client_pc[c] = "await" /\ request[c].kind = "inp" /\ Span(request[c]) = u
  BY <1>1, <1>2, ReadsRequest DEF Exchanges
<1>4. Calling[c] # NULL /\ Calling[c].kind = "inp" /\ Calling[c].tuple = u
  BY <1>3, CallingIs
<1>5. GetTuple(c, "inp", u) \in ToServer /\ GetTuple(c, "inp", u).from = c
  BY <1>2, Mine
<1>6. AbstractAnswer(c) = Linda!Pending
  <2>1. GetTuple(c, "inp", u) \in Traffic(c)
    BY <1>2, <1>5 DEF Traffic
  <2>2. Only(c, {GetTuple(c, "inp", u)})
    BY <1>1, <2>1, ExchangeOf DEF Exchanges
  <2> QED
    BY <1>3, <1>5, <2>2, NotAnsweredYet
<1>7. AbstractAnswer(c)' = Linda!Answer(NULL)
  <2>1. Tell("lack", c) \in BagToSet(net') /\ AnswerTo(c, Tell("lack", c))
    BY <1>1, <1>3, WhatMoves DEF AnswerTo
  <2>2. AbstractAnswer(c)' = Linda!Answer(Tell("lack", c).tuple)
    BY <1>3, <2>1, AnsweredNow
  <2> QED
    BY <2>2 DEF Tell
<1>8. \A x \in Client : x # c => AbstractAnswer(x)' = AbstractAnswer(x)
  <2>1. \A d \in {Tell("lack", c), Tell("await", c)} : d.to = c
    BY Mine
  <2> QED
    BY <1>1, <1>5, <2>1, AnswersNoOther, ServerAnswersOthers
<1>9. Told' = [Told EXCEPT ![c] = Linda!Answer(NULL)]
  BY <1>7, <1>8, ToldChanges
<1>10. Space' = Space
  BY <1>1 DEF SpaceKept, Space
<1>11. \A t \in Tuple : ~Linda!Fits(c, t)
  BY <1>1, <1>4, LindaMapped DEF Space
<1>12. Calling' = Calling
  BY DEF ServerLeavesClients, Calling, AbstractCall
<1>13. Linda!Waits(c, "inp")
  BY <1>1, <1>4, <1>6 DEF Linda!Waits, Calling
<1> QED
  BY <1>1, <1>9, <1>10, <1>11, <1>12, <1>13 DEF Linda!FindsNone, Space, Calling, Told

LEMMA LindaServerMaps ==
  ASSUME OnlyInp, QuietRatio, LindaReachable, LindaReachable', ServerWorks
  PROVE  [Linda!LindaNext]_(Linda!lindaVars)
<1> USE DEF LindaReachable, SystemTypes
<1>1. ServerLeavesClients
  BY ServerWorksOnNet DEF ServerLeavesClients, ServerFacts
<1>2. \A c \in Client : Linda!Puts(c) \/ Linda!Takes(c) \/ Linda!FindsNone(c) => Linda!LindaNext
  BY DEF Linda!LindaNext
<1>3. ASSUME SpaceKept, pc # "stopped", pc' # "stopped",
             \A c \in Client : AbstractAnswer(c)' = AbstractAnswer(c)
      PROVE  UNCHANGED Linda!lindaVars
  <2>1. Space' = Space
    BY <1>3 DEF SpaceKept, Space
  <2>2. Calling' = Calling
    BY <1>1 DEF ServerLeavesClients, Calling, AbstractCall
  <2>3. Told' = Told
    BY <1>3 DEF Told
  <2> QED
    BY <1>3, <2>1, <2>2, <2>3, LindaMapped
<1>4. CASE \E c \in Client, t \in Tuple : Saves(c, t)
  BY <1>1, <1>2, <1>4, SavesPutsTuple
<1>5. CASE \E c \in Client, u \in Template, t \in Tuple : Hands(c, u, t)
  BY <1>1, <1>2, <1>5, HandsTakesTuple
<1>6. CASE \E c \in Client, u \in Template : Refuses(c, u)
  BY <1>1, <1>2, <1>6, RefusalFindsNone
<1>7. ASSUME NEW x \in Client, NEW t \in Tuple, Accepts(x, t)
      PROVE  UNCHANGED Linda!lindaVars
  <2>1. /\ pc = "receive" /\ pc' = "out" /\ SpaceKept /\ Moves(SendTuple(x, t), {})
        /\ SendTuple(x, t) \in ToServer
    BY <1>7, Mine DEF Accepts
  <2> QED
    BY <1>1, <1>3, <2>1, ServerAnswersOthers
<1>8. ASSUME NEW x \in Client, Confirms(x)
      PROVE  UNCHANGED Linda!lindaVars
  <2>1. /\ pc = "receive" /\ pc' = "resend" /\ SpaceKept
        /\ Moves(ReceivedMsg(x), {Tell("ack", x)}) /\ ReceivedMsg(x) \in ToServer
        /\ ReceivedMsg(x) \in BagToSet(net)
    BY <1>8, Mine DEF Confirms, Moves
  <2>2. client_pc[x] = "await_ack"
    <3>1. ~Halted
      BY <2>1 DEF Halted, Faults
    <3> QED
      BY <2>1, <3>1, ReadsRequest DEF Exchanges
  <2>3. Tell("ack", x).to = x
    BY Mine
  <2>4. \A c \in Client : client_pc[c] = "await" => ~AnswerTo(c, Tell("ack", x))
    BY <2>2, <2>3, AnswersNoOther
  <2> QED
    BY <1>1, <1>3, <2>1, <2>4, ServerAnswersOthers
<1>9. CASE Rests
  <2>1. pc # "stopped" /\ pc' # "stopped" /\ SpaceKept /\ Adds({})
    BY <1>9 DEF Rests
  <2> QED
    BY <1>1, <1>3, <2>1, ServerAnswersOthers
<1> QED
  BY <1>4, <1>5, <1>6, <1>7, <1>8, <1>9, ServerActs

\* The clients' steps: how an operation begins, goes on and ends.
Begins(x) ==
  client_pc[x] = "idle" /\ client_pc'[x] # "idle" /\ AbstractAnswer(x)' = Linda!Pending

Rejected(x) ==
  client_pc[x] = "idle" /\ client_pc'[x] = "idle" /\ AbstractAnswer(x)' = Linda!Failed

Continues(x) ==
  /\ client_pc[x] # "idle" /\ client_pc'[x] # "idle" /\ request'[x] = request[x]
  /\ AbstractAnswer(x)' = AbstractAnswer(x)

Ends(x) ==
  /\ client_pc[x] # "idle" /\ client_pc'[x] = "idle"
  /\ AbstractAnswer(x)' = AbstractAnswer(x) /\ AbstractAnswer(x) # Linda!Pending

Abandons(x) ==
  /\ client_pc[x] # "idle" /\ client_pc'[x] = "idle" /\ pc = "stopped"
  /\ AbstractAnswer(x) = Linda!Pending /\ AbstractAnswer(x)' = Linda!Failed

LEMMA CallAnswers ==
  ASSUME ClientType, NEW x \in Client, Call(x)
  PROVE  Begins(x) \/ Rejected(x)
<1>1. client_pc[x] = "idle"
  BY DEF Call
<1>2. \/ client_pc'[x] = "send"
      \/ \E op : \E error \in Refusal(op) : Finish(x, Returns(error))
  BY DEF Call, Enter, Goto, ClientType
<1>3. CASE client_pc'[x] = "send"
  BY <1>1, <1>3 DEF Begins, AbstractAnswer, Linda!Pending
<1>4. ASSUME NEW op, NEW error \in Refusal(op), Finish(x, Returns(error))
      PROVE  Rejected(x)
  <2>1. error # "no_error"
    BY DEF Refusal
  <2>2. client_pc'[x] = "idle" /\ result'[x] = Returns(error)
    BY <1>4 DEF Finish, Goto, ClientType
  <2>3. AbstractAnswer(x)' = Linda!Failed
    BY <2>1, <2>2 DEF AbstractAnswer, Abstract, Returns, Linda!Failed
  <2> QED
    BY <1>1, <2>2, <2>3 DEF Rejected
<1> QED
  BY <1>2, <1>3, <1>4

\* Nothing of an earlier operation is taken for the answer of this one.
LEMMA SendAnswers ==
  ASSUME OneAtATime, LindaReachable, LindaReachable', NEW x \in Client, SendRequest(x)
  PROVE  Continues(x)
<1> USE DEF LindaReachable, SystemTypes
<1>1. /\ client_pc[x] = "send" /\ client_pc'[x] = "await" /\ request'[x] = request[x]
      /\ net' = net (+) SetToBag({Request(x)})
  BY DEF SendRequest, Goto, ClientType, OneAtATime
<1>2. \A d \in Traffic(x) : CopiesOf(d, net) = 0
  BY <1>1, SilentBetween DEF Silent
<1>3. ASSUME NEW e \in BagToSet(net'), AnswerTo(x, e)
      PROVE  FALSE
  <2>1. e \in Traffic(x)
    BY <1>3, AnswerIsMessage DEF Traffic
  <2>2. e # Request(x)
    BY <1>1, <1>3, AnswerIsMessage, RequestType, TwoWays
  <2>3. CopiesOf(e, net') = CopiesOf(e, net) + (IF e \in {Request(x)} THEN 1 ELSE 0)
    BY <1>1, BagGains DEF NetType
  <2>4. CopiesOf(e, net') = 0
    BY <1>2, <2>1, <2>2, <2>3
  <2> QED
    BY <2>4, CopiesType DEF NetType
<1>4. AbstractAnswer(x)' = Linda!Pending
  <2>1. \A e \in BagToSet(net') : ~AnswerTo(x, e)'
    BY <1>1, <1>3 DEF AnswerTo
  <2> QED
    BY <1>1, <2>1, AwaitedAnswerNext DEF Exchanges, Linda!Pending
<1>5. AbstractAnswer(x) = Linda!Pending
  BY <1>1 DEF AbstractAnswer, Linda!Pending
<1> QED
  BY <1>1, <1>4, <1>5 DEF Continues

LEMMA DropAnswers ==
  ASSUME LindaReachable, LindaReachable', NEW x \in Client, client_pc[x] = "await",
         NEW d \in Inbox(x), net' = net (-) SetToBag({d}), d.type = "await",
         UNCHANGED <<client_pc, request, context, result>>
  PROVE  Continues(x)
<1> USE DEF LindaReachable, SystemTypes
<1>1. ASSUME NEW e, AnswerTo(x, e)
      PROVE  e \in BagToSet(net) <=> e \in BagToSet(net')
  <2>1. e # d
    BY <1>1, AnswerIsMessage
  <2>2. CopiesOf(e, net') = CopiesOf(e, net)
    <3>1. CopiesOf(e, net') = CopiesOf(e, net) - (IF e = d THEN 1 ELSE 0)
      BY BagLoses DEF NetType, Inbox
    <3> QED
      BY <2>1, <3>1, CopiesType DEF NetType
  <2> QED
    BY <2>2, CopiesType DEF NetType
<1>2. AbstractAnswer(x)' = AbstractAnswer(x)
  BY <1>1, AnswerStays
<1> QED
  BY <1>2 DEF Continues

LEMMA AckAnswers ==
  ASSUME NothingLost, LindaReachable, LindaReachable', NEW x \in Client, ReceiveAck(x)
  PROVE  Continues(x) \/ Ends(x)
<1> USE DEF LindaReachable, SystemTypes
<1>1. client_pc[x] = "await" /\ OneExchange(x)
  BY DEF ReceiveAck, Exchanges
<1>2. PICK d \in Inbox(x) :
        /\ net' = net (-) SetToBag({d})
        /\ \/ /\ d.type = "await" /\ UNCHANGED <<client_pc, request, context, result>>
           \/ AnswerTo(x, d) /\ d = Tell("ack", x) /\ Finish(x, Returns("no_error"))
  BY <1>1, AckComes
<1>3. CASE d.type = "await" /\ UNCHANGED <<client_pc, request, context, result>>
  BY <1>1, <1>2, <1>3, DropAnswers
<1>4. CASE AnswerTo(x, d) /\ d = Tell("ack", x) /\ Finish(x, Returns("no_error"))
  <2>1. AbstractAnswer(x) = Linda!Answer(NULL)
    <3>1. d \in BagToSet(net) /\ d.tuple = NULL
      BY <1>4 DEF Inbox, Tell
    <3> QED
      BY <1>1, <1>4, <3>1, AwaitedAnswer
  <2>2. client_pc'[x] = "idle" /\ result'[x] = Returns("no_error")
    BY <1>4 DEF Finish, Goto, ClientType
  <2>3. AbstractAnswer(x)' = Linda!Answer(NULL)
    BY <2>2 DEF AbstractAnswer, Abstract, Returns, Linda!Answer
  <2>4. Linda!Answer(NULL) # Linda!Pending
    BY DEF Linda!Answer, Linda!Pending
  <2> QED
    BY <1>1, <2>1, <2>2, <2>3, <2>4 DEF Ends
<1> QED
  BY <1>2, <1>3, <1>4

LEMMA ReplyAnswers ==
  ASSUME OnlyInp, LindaReachable, LindaReachable', NEW x \in Client, ReceiveAnswer(x)
  PROVE  Continues(x)
<1> USE DEF LindaReachable, SystemTypes
<1>1. client_pc[x] = "await" /\ request[x].kind # "out" /\ OneExchange(x)
  BY DEF ReceiveAnswer, Exchanges
<1>2. PICK d \in Inbox(x) :
        /\ net' = net (-) SetToBag({d})
        /\ \/ /\ d.type = "await" /\ UNCHANGED <<client_pc, request, context, result>>
           \/ /\ AnswerTo(x, d) /\ UNCHANGED <<request, result>>
              /\ client_pc'[x] = "ack" /\ context'[x] = Recorded(d)
  BY <1>1, AnswerComes
<1>3. CASE d.type = "await" /\ UNCHANGED <<client_pc, request, context, result>>
  BY <1>1, <1>2, <1>3, DropAnswers
<1>4. CASE /\ AnswerTo(x, d) /\ UNCHANGED <<request, result>>
           /\ client_pc'[x] = "ack" /\ context'[x] = Recorded(d)
  <2>1. AbstractAnswer(x) = Linda!Answer(d.tuple)
    <3>1. d \in BagToSet(net)
      BY DEF Inbox
    <3> QED
      BY <1>1, <1>4, <3>1, AwaitedAnswer
  <2>2. AbstractAnswer(x)' = Abstract(Outcome(request[x], Recorded(d)))
    BY <1>4 DEF AbstractAnswer
  <2>3. AbstractAnswer(x)' = Linda!Answer(d.tuple)
    BY <1>1, <1>4, <2>2, OutcomeIsAnswer
  <2> QED
    BY <1>1, <1>4, <2>1, <2>3 DEF Continues
<1> QED
  BY <1>2, <1>3, <1>4

\* Once it is acknowledged, an answer is what the operation returns.
LEMMA OutcomeStays ==
  ASSUME LindaReachable, NEW x \in Client, client_pc[x] \in {"ack", "await_ack"}, UNCHANGED request,
         \/ client_pc'[x] \in {"ack", "await_ack"} /\ context'[x] = context[x]
         \/ Finish(x, Outcome(request[x], context[x]))
  PROVE  Continues(x) \/ Ends(x)
<1>1. AbstractAnswer(x) = Abstract(Outcome(request[x], context[x]))
  BY DEF AbstractAnswer
<1>2. CASE client_pc'[x] \in {"ack", "await_ack"} /\ context'[x] = context[x]
  <2>1. AbstractAnswer(x)' = Abstract(Outcome(request[x], context[x]))
    BY <1>2 DEF AbstractAnswer
  <2> QED
    BY <1>1, <1>2, <2>1 DEF Continues
<1>3. CASE Finish(x, Outcome(request[x], context[x]))
  <2>1. client_pc'[x] = "idle" /\ result'[x] = Outcome(request[x], context[x])
    BY <1>3 DEF Finish, Goto, LindaReachable, SystemTypes, ClientType
  <2>2. AbstractAnswer(x)' = Abstract(Outcome(request[x], context[x]))
    BY <2>1 DEF AbstractAnswer
  <2>3. AbstractAnswer(x) # Linda!Pending
    BY <1>1 DEF Abstract, Linda!Pending
  <2> QED
    BY <1>1, <2>1, <2>2, <2>3 DEF Ends
<1> QED
  BY <1>2, <1>3

\* A window in which nothing is under way any more ends without an answer only
\* when the server has stopped.
LEMMA WindowAnswers ==
  ASSUME LindaReachable, NEW x \in Client, ~UnderWay(x), WindowEnds(x)
  PROVE  Continues(x) \/ Ends(x) \/ Abandons(x)
<1> USE DEF LindaReachable, SystemTypes
<1>1. UNCHANGED <<request, net>> /\ client_pc[x] \in {"await", "await_ack"}
  BY DEF WindowEnds, Windows
<1>2. CASE client_pc[x] = "await_ack"
  <2>1. \/ client_pc'[x] = "ack" /\ context'[x] = context[x]
        \/ Finish(x, Outcome(request[x], context[x]))
    BY <1>2 DEF WindowEnds, Goto, ClientType
  <2> QED
    BY <1>1, <1>2, <2>1, OutcomeStays
<1>3. CASE client_pc[x] = "await"
  <2>1. ASSUME NEW d \in BagToSet(net), AnswerTo(x, d)
        PROVE  FALSE
    <3>1. d \in Inbox(x)
      BY <2>1, AnswerIsMessage, TwoWays DEF Inbox
    <3> QED
      BY <3>1 DEF UnderWay
  <2>2. AbstractAnswer(x) = Linda!Pending
    BY <1>3, <2>1, AwaitedAnswer DEF Exchanges
  <2>3. CASE ~LastRepeat(x)
    <3>1. client_pc'[x] = "send"
      BY <1>3, <2>3 DEF WindowEnds, Goto, ClientType
    <3>2. AbstractAnswer(x)' = Linda!Pending
      BY <3>1 DEF AbstractAnswer, Linda!Pending
    <3> QED
      BY <1>1, <1>3, <2>2, <3>1, <3>2 DEF Continues
  <2>4. CASE LastRepeat(x)
    <3>1. client_pc'[x] = "idle" /\ result'[x] = GivenUp(x)
      BY <1>3, <2>4 DEF WindowEnds, Finish, Goto, ClientType
    <3>2. Abstract(GivenUp(x)) = Linda!Failed
      <4>1. context[x] = NoContext
        BY <1>3 DEF ContextFresh
      <4>2. Outcome(request[x], context[x]) = Returns("invalid_response_protocol")
        BY <4>1 DEF Outcome, NoContext
      <4> QED
        BY <4>2 DEF GivenUp, Abstract, Returns, Linda!Failed
    <3>3. AbstractAnswer(x)' = Linda!Failed
      BY <3>1, <3>2 DEF AbstractAnswer
    <3>4. Halted
      <4>1. ~(~Halted /\ \E d \in BagToSet(net) : "from" \in DOMAIN d /\ d.from = x) /\ ~Working(x)
        BY DEF UnderWay, Working
      <4>2. Request(x) \in ToServer /\ Request(x).from = x
        BY <1>3, RequestType DEF Request, SendTuple, GetTuple
      <4>3. "from" \in DOMAIN Request(x)
        BY <4>2, TwoWays
      <4>4. ~Halted => Remembered(x)
        BY DEF NobodyForgotten
      <4> QED
        BY <1>3, <2>1, <4>1, <4>2, <4>3, <4>4 DEF Remembered
    <3>5. pc = "stopped"
      BY <3>4 DEF ServerFacts, Halted
    <3> QED
      BY <1>3, <2>2, <3>1, <3>3, <3>5 DEF Abandons
  <2> QED
    BY <2>3, <2>4
<1> QED
  BY <1>1, <1>2, <1>3

LEMMA ClientAnswers ==
  ASSUME OneAtATime, OnlyInp, NothingLost, LindaReachable, LindaReachable', NEW x \in Client,
         ClientStep(x) \/ (~UnderWay(x) /\ WindowEnds(x))
  PROVE  Begins(x) \/ Rejected(x) \/ Continues(x) \/ Ends(x) \/ Abandons(x)
<1>1. ClientType
  BY DEF LindaReachable, SystemTypes
<1>2. CASE SendAck(x)
  <2>1. /\ client_pc[x] = "ack" /\ client_pc'[x] = "await_ack" /\ context'[x] = context[x]
        /\ UNCHANGED request
    BY <1>1, <1>2 DEF SendAck, Goto, ClientType
  <2> QED
    BY <2>1, OutcomeStays
<1>3. CASE ReceiveAckOfAck(x)
  <2>1. /\ client_pc[x] = "await_ack" /\ UNCHANGED request
        /\ \/ UNCHANGED <<client_pc, context>>
           \/ Finish(x, Outcome(request[x], context[x]))
    BY <1>3 DEF ReceiveAckOfAck
  <2> QED
    BY <2>1, OutcomeStays
<1>4. ~SendRequestFails(x) /\ ~SendAckFails(x)
  BY DEF SendRequestFails, SendAckFails, OneAtATime
<1> QED
  BY <1>1, <1>2, <1>3, <1>4, CallAnswers, SendAnswers, AckAnswers, ReplyAnswers, WindowAnswers
  DEF ClientStep

LEMMA OthersAnswers ==
  ASSUME LindaReachable, LindaReachable', NEW x \in Client, ClientStep(x) \/ WindowEnds(x),
         NEW c \in Client, c # x
  PROVE  AbstractAnswer(c)' = AbstractAnswer(c) /\ AbstractCall(c)' = AbstractCall(c)
<1> USE DEF LindaReachable, SystemTypes
<1>1. /\ client_pc'[c] = client_pc[c] /\ request'[c] = request[c]
      /\ context'[c] = context[c] /\ result'[c] = result[c]
  BY OthersKeep
<1>2. ASSUME NEW e, AnswerTo(c, e)
      PROVE  e \in BagToSet(net) <=> e \in BagToSet(net')
  <2>1. e \notin Inbox(x) /\ e \notin ToServer
    BY <1>2, AnswerIsMessage, TwoWays DEF Inbox
  <2>2. CASE net' = net
    BY <2>2
  <2>3. ASSUME NEW d \in ToServer, net' = net (+) SetToBag({d})
        PROVE  e \in BagToSet(net) <=> e \in BagToSet(net')
    BY <2>1, <2>3, BagGains DEF NetType
  <2>4. ASSUME NEW d \in Inbox(x), net' = net (-) SetToBag({d})
        PROVE  e \in BagToSet(net) <=> e \in BagToSet(net')
    <3>1. CopiesOf(e, net') = CopiesOf(e, net) - (IF e = d THEN 1 ELSE 0)
      BY <2>4, BagLoses DEF NetType, Inbox
    <3>2. CopiesOf(e, net') = CopiesOf(e, net)
      BY <2>1, <3>1, CopiesType DEF NetType
    <3> QED
      BY <3>2, CopiesType DEF NetType
  <2> QED
    BY <2>2, <2>3, <2>4, ClientTouchesNet
<1>3. AbstractAnswer(c)' = AbstractAnswer(c)
  BY <1>1, <1>2, AnswerStays
<1> QED
  BY <1>1, <1>3 DEF AbstractCall

LEMMA LindaClientMaps ==
  ASSUME OneAtATime, OnlyInp, NothingLost, LindaReachable, LindaReachable', UNCHANGED vars,
         NEW x \in Client, ClientStep(x) \/ (~UnderWay(x) /\ WindowEnds(x))
  PROVE  [Linda!LindaNext]_(Linda!lindaVars)
<1> USE DEF LindaReachable, SystemTypes
<1>1. Space' = Space /\ pc' = pc
  BY DEF Space, Copies, vars, spaceVars
<1>2. \A c \in Client :
        c # x => AbstractCall(c)' = AbstractCall(c) /\ AbstractAnswer(c)' = AbstractAnswer(c)
  BY OthersAnswers
<1>3. /\ Calling' = [Calling EXCEPT ![x] = AbstractCall(x)']
      /\ Told' = [Told EXCEPT ![x] = AbstractAnswer(x)']
  <2>1. Calling' = [c \in Client |-> AbstractCall(c)'] /\ Calling = [c \in Client |-> AbstractCall(c)]
    BY DEF Calling
  <2> QED
    BY <1>2, <2>1, ToldChanges
<1>4. CASE Begins(x)
  <2>1. Calling[x] = NULL /\ AbstractAnswer(x)' = Linda!Pending
    BY <1>4, CallingIs DEF Begins
  <2>2. AbstractCall(x)' \in    {[kind |-> "out", tuple |-> t] : t \in Tuple}
                           \cup {[kind |-> "inp", tuple |-> t] : t \in Template}
    <3>1. client_pc'[x] # "idle"
      BY <1>4 DEF Begins
    <3>2. Calling'[x] \in Promise!Operations
      BY <3>1, CallingIsNext
    <3>3. Calling'[x] = AbstractCall(x)'
      BY DEF Calling
    <3> QED
      BY <3>2, <3>3 DEF Promise!Operations, Promise!OutOf, Promise!InpOf
  <2>3. Linda!Calls(x)
    BY <1>1, <1>3, <2>1, <2>2 DEF Linda!Calls, Space, Calling, Told
  <2> QED
    BY <2>3 DEF Linda!LindaNext
<1>5. CASE Rejected(x)
  <2>1. Calling[x] = NULL /\ AbstractCall(x)' = NULL /\ AbstractAnswer(x)' = Linda!Failed
    BY <1>5, CallingIs DEF Rejected, AbstractCall
  <2>2. Calling' = Calling
    BY <1>3, <2>1 DEF Calling
  <2>3. Linda!IsRefused(x)
    BY <1>1, <1>3, <2>1, <2>2 DEF Linda!IsRefused, Space, Calling, Told
  <2> QED
    BY <2>3 DEF Linda!LindaNext
<1>6. CASE Continues(x)
  <2>1. AbstractCall(x)' = AbstractCall(x) /\ AbstractAnswer(x)' = AbstractAnswer(x)
    BY <1>6 DEF Continues, AbstractCall
  <2>2. Calling' = Calling /\ Told' = Told
    BY <1>3, <2>1 DEF Calling, Told
  <2> QED
    BY <1>1, <2>2, LindaMapped
<1>7. CASE Ends(x)
  <2>1. Calling[x] # NULL /\ AbstractCall(x)' = NULL
    BY <1>7, CallingIs DEF Ends, AbstractCall
  <2>2. Told' = Told /\ Told[x] # Linda!Pending
    BY <1>3, <1>7 DEF Ends, Told
  <2>3. Linda!IsAnswered(x)
    BY <1>1, <1>3, <2>1, <2>2 DEF Linda!IsAnswered, Space, Calling, Told
  <2> QED
    BY <2>3 DEF Linda!LindaNext
<1>8. CASE Abandons(x)
  <2>1. Calling[x] # NULL /\ AbstractCall(x)' = NULL
    BY <1>8, CallingIs DEF Abandons, AbstractCall
  <2>2. /\ pc = "stopped" /\ Told[x] = Linda!Pending
        /\ AbstractAnswer(x)' = Linda!Failed
    BY <1>8 DEF Abandons, Told
  <2>3. Linda!GivesUp(x)
    BY <1>1, <1>3, <2>1, <2>2 DEF Linda!GivesUp, Space, Calling, Told
  <2> QED
    BY <2>3 DEF Linda!LindaNext
<1> QED
  BY <1>4, <1>5, <1>6, <1>7, <1>8, ClientAnswers

\* A stop of the server in the middle of anything, or no step.
LEMMA LindaStops ==
  ASSUME LindaReachable, LindaReachable', ServerStops \/ UNCHANGED systemVars
  PROVE  [Linda!LindaNext]_(Linda!lindaVars)
<1>1. UNCHANGED <<heap, tuple_stash, client_pc, request, context, result, net>>
  BY DEF ServerStops, Stop, systemVars, clientVars, vars, spaceVars
<1>2. Space' = Space
  BY <1>1 DEF Space, Copies
<1>3. Calling' = Calling
  BY <1>1 DEF Calling, AbstractCall
<1>4. Told' = Told
  <2>1. \A c \in Client : AbstractAnswer(c)' = AbstractAnswer(c)
    BY <1>1, AnswerStays
  <2> QED
    BY <2>1 DEF Told
<1>5. CASE ServerStops
  <2>1. pc # "stopped" /\ pc' = "stopped"
    BY <1>5 DEF ServerStops, Stop, Halted
  <2>2. Linda!GoesDown
    BY <1>2, <1>3, <1>4, <2>1 DEF Linda!GoesDown, Space, Calling, Told
  <2> QED
    BY <2>2 DEF Linda!LindaNext
<1>6. CASE UNCHANGED systemVars
  <2>1. pc' = pc
    BY <1>6 DEF systemVars, vars
  <2> QED
    BY <1>2, <1>3, <1>4, <2>1, LindaMapped
<1> QED
  BY <1>5, <1>6

\* When every datagram arrives within ack_await_time, and the device tells who sent
\* it, out and inp are atomic and take effect exactly once, for any number of
\* clients: the retries, the two answers of a refused INP and the acknowledgements
\* of tuple_space_network.c are invisible, and a well-formed operation fails only once the
\* server has stopped (server_process_requests.c, tuple_space_client_api.c).
THEOREM SystemIsLindaSpace ==
  ASSUME OneAtATime, OnlyInp, QuietRatio, NothingLost
  PROVE  SystemSpec => ImplementsLinda
<1>1. SystemInit => Linda!LindaInit
  BY LindaMapsInit
<1>2. /\ LindaReachable /\ lost = 0 /\ LindaReachable'
      /\ [SystemNext]_systemVars
      => [Linda!LindaNext]_(Linda!lindaVars)
  <2> SUFFICES ASSUME LindaReachable, lost = 0, LindaReachable', [SystemNext]_systemVars
               PROVE  [Linda!LindaNext]_(Linda!lindaVars)
    OBVIOUS
  <2>1. CASE ServerWorks
    BY <2>1, LindaServerMaps
  <2>2. ASSUME NEW x \in Client, ClientRuns(x) \/ TimesOut(x)
        PROVE  [Linda!LindaNext]_(Linda!lindaVars)
    <3>1. UNCHANGED vars /\ (ClientStep(x) \/ (~UnderWay(x) /\ WindowEnds(x)))
      BY <2>2 DEF ClientRuns, TimesOut, OneAtATime
    <3> QED
      BY <3>1, LindaClientMaps
  <2>3. ~Lose /\ ~StrangerSends
    BY DEF Lose, StrangerSends, NothingLost, OneAtATime
  <2> QED
    BY <2>1, <2>2, <2>3, LindaStops DEF SystemNext
<1> QED
  BY <1>1, <1>2, LindaReachableInvariant, PTL DEF SystemSpec, ImplementsLinda, Linda!LindaSpec
=============================================================================
