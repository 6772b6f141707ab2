------------------------ MODULE ServerMetricsProofs ------------------------
(***************************************************************************)
(* The totals the server prints explain each other, for every set of       *)
(* clients, blocks, tuples and templates, all four requests and every      *)
(* interval of the sweep.                                                  *)
(***************************************************************************)
EXTENDS ServerMetrics, TupleSpaceServerProofs

\* The server beside the totals is the server.
LEMMA MetricsRunServer == MetricsSpec => Spec
<1>1. MetricsInit => Init
  BY DEF MetricsInit
<1>2. [MetricsNext]_<<vars, metrics>> => [Next]_vars
  <2> SUFFICES ASSUME [MetricsNext]_<<vars, metrics>> PROVE [Next]_vars
    OBVIOUS
  <2>1. CASE MessageRead
    <3>1. CASE NothingRead \/ FailureRead
      BY <3>1 DEF NothingRead, FailureRead, Next, ts_server_get_message
    <3>2. ASSUME NEW kind \in RequestKinds, NEW c \in Client, NEW t \in Template,
                 GetRead(kind, c, t)
          PROVE  Next
      BY <3>2 DEF GetRead, server_process_get, Next, ts_server_get_message
    <3>3. CASE \E c \in Client, t \in Tuple : SendRead(c, t)
      BY <3>3 DEF SendRead, Next, ts_server_get_message
    <3>4. CASE \E c \in Client : AckRead(c)
      BY <3>4 DEF AckRead, Next, ts_server_get_message
    <3> QED
      BY <2>1, <3>1, <3>2, <3>3, <3>4 DEF MessageRead
  <2>2. CASE TuplePlaced
    BY <2>2 DEF TuplePlaced, server_process_out, Next
  <2>3. CASE OtherStep
    BY <2>3 DEF OtherStep, Next
  <2>4. CASE UNCHANGED <<vars, metrics>>
    BY <2>4
  <2> QED
    BY <2>1, <2>2, <2>3, <2>4 DEF MetricsNext
<1> QED
  BY <1>1, <1>2, PTL DEF MetricsSpec, Spec

-----------------------------------------------------------------------------
(***************************************************************************)
(* What a step counts, and what it does to the queue.                      *)
(***************************************************************************)
Answered(kind) ==
  Count(Received(kind) \cup Sent) /\ Len(tuple_queue') = Len(tuple_queue)

QueuedFor(kind) == IF kind \in {"in", "rd"} THEN 1 ELSE 0

NotAnswered(kind) ==
  Count(Received(kind) \cup Missed(kind)) /\ Len(tuple_queue') = Len(tuple_queue) + QueuedFor(kind)

LEMMA GetSteps ==
  ASSUME TypeOK, NEW kind \in RequestKinds, NEW c \in Client, NEW t \in Template,
         GetRead(kind, c, t), pc' \notin Faults
  PROVE  Answered(kind) \/ NotAnswered(kind)
<1>1. CASE /\ TakeTuple(kind, c, t) \/ CopyTuple(kind, c, t)
           /\ Count(Received(kind) \cup Sent)
  BY <1>1 DEF TakeTuple, CopyTuple, Answered
<1>2. CASE QueueTemplate(kind, c, t) /\ Count(Received(kind) \cup Missed(kind))
  <2> DEFINE entry == [template |-> t, client |-> c, remove |-> kind = "in"]
  <2>1. entry \in Waiting /\ tuple_queue \in Seq(Waiting)
    BY DEF Waiting, TypeOK
  <2>2. tuple_queue' = Cons(entry, tuple_queue) /\ kind \in {"in", "rd"}
    BY <1>2 DEF QueueTemplate, server_insert_template_tuple
  <2> HIDE DEF entry
  <2>3. Len(tuple_queue') = Len(tuple_queue) + 1
    BY <2>1, <2>2, ConsProperties
  <2> QED
    BY <1>2, <2>2, <2>3 DEF NotAnswered, QueuedFor
<1>3. CASE Refuse(kind, c, t) /\ Count(Received(kind) \cup Missed(kind))
  <2>1. tuple_queue' = tuple_queue /\ kind \notin {"in", "rd"}
    BY <1>3 DEF Refuse
  <2>2. Len(tuple_queue) \in Nat
    BY DEF TypeOK
  <2> QED
    BY <1>3, <2>1, <2>2 DEF NotAnswered, QueuedFor
<1>4. ~ReadFreedTuple(kind, t)
  BY DEF ReadFreedTuple, Fault, Faults
<1> QED
  BY <1>1, <1>2, <1>3, <1>4 DEF GetRead

LEMMA AccountedSteps ==
  ASSUME TypeOK, [MetricsNext]_<<vars, metrics>>, pc' \notin Faults
  PROVE  /\ pc \notin Faults
         /\ \/ /\ \/ UNCHANGED metrics
                  \/ \E failure \in FailureCounter : Count({failure})
                  \/ Count(Received("out"))
               /\ Len(tuple_queue') = Len(tuple_queue)
            \/ \E kind \in RequestKinds : Answered(kind) \/ NotAnswered(kind)
            \/ Count(Redirected) /\ Len(tuple_queue') = Len(tuple_queue) - 1
<1>1. CASE NothingRead \/ FailureRead
  BY <1>1 DEF NothingRead, FailureRead, ReadNothing, spaceVars, Faults
<1>2. ASSUME NEW kind \in RequestKinds, NEW c \in Client, NEW t \in Template,
             GetRead(kind, c, t)
      PROVE  pc \notin Faults /\ (Answered(kind) \/ NotAnswered(kind))
  <2>1. pc = "receive"
    BY <1>2 DEF GetRead, TakeTuple, CopyTuple, QueueTemplate, Refuse, ReadFreedTuple
  <2> QED
    BY <1>2, <2>1, GetSteps DEF Faults
<1>3. CASE \E c \in Client, t \in Tuple : SendRead(c, t)
  BY <1>3 DEF SendRead, ReadTuple, Faults
<1>4. CASE \E c \in Client : AckRead(c)
  BY <1>4 DEF AckRead, server_ack_cb, server_ack_cb_unknown, spaceVars, Faults
<1>5. CASE TuplePlaced
  <2>1. CASE RedirectTuple /\ Count(Redirected)
    <3>1. PICK i \in DOMAIN tuple_queue : tuple_queue' = RemoveAt(tuple_queue, i)
      BY <2>1 DEF RedirectTuple
    <3>2. Len(tuple_queue') = Len(tuple_queue) - 1
      BY <3>1, RemoveAtProperties DEF TypeOK
    <3> QED
      BY <2>1, <3>2 DEF RedirectTuple, Faults
  <2>2. CASE SaveTuple /\ UNCHANGED metrics
    BY <2>2 DEF SaveTuple, Faults
  <2> QED
    BY <1>5, <2>1, <2>2 DEF TuplePlaced
<1>6. CASE OtherStep
  <2>1. UNCHANGED <<metrics, tuple_queue>>
    BY <1>6 DEF OtherStep, server_resend_tuple_for_connections, BeginSweep, ResendTuple,
                RejectTuple, RepeatAnswer, EndSweep, Stop, Tick, StayHalted, spaceVars, vars
  <2>2. pc \notin Faults
    BY <1>6 DEF OtherStep, server_resend_tuple_for_connections, BeginSweep, ResendTuple,
                RejectTuple, RepeatAnswer, EndSweep, Stop, Tick, StayHalted, Halted, vars, Faults
  <2> QED
    BY <2>1, <2>2
<1>7. CASE UNCHANGED <<vars, metrics>>
  BY <1>7 DEF vars, spaceVars
<1> QED
  BY <1>1, <1>2, <1>3, <1>4, <1>5, <1>6, <1>7 DEF MetricsNext, MessageRead

-----------------------------------------------------------------------------
(***************************************************************************)
(* The totals.                                                             *)
(***************************************************************************)
LEMMA CountTypes ==
  ASSUME MetricsTypeOK, NEW counters, Count(counters)
  PROVE  /\ MetricsTypeOK'
         /\ \A m \in Counter \cup FailureCounter :
              metrics'[m] = metrics[m] + (IF m \in counters THEN 1 ELSE 0)
BY DEF MetricsTypeOK, Count

NameOf(kind) ==
  CASE kind = "in"  -> "total_in_messages"
    [] kind = "inp" -> "total_inp_messages"
    [] kind = "rd"  -> "total_rd_messages"
    [] kind = "rdp" -> "total_rdp_messages"

MissNameOf(kind) ==
  CASE kind = "in"  -> "total_queued_in_messages"
    [] kind = "rd"  -> "total_queued_rd_messages"
    [] kind = "inp" -> "total_rejected_inp_messages"
    [] kind = "rdp" -> "total_rejected_rdp_messages"

\* AnswersAccounted of totals and of a length of the queue, the sums reduced.
Balanced(total, queued) ==
  /\ total["total_received_messages"] =
       total["total_out_messages"] + total["total_in_messages"] + total["total_inp_messages"]
       + total["total_rd_messages"] + total["total_rdp_messages"]
  /\ total["total_send_mesages"] =
       total["total_inp_messages"] - total["total_rejected_inp_messages"]
       + (total["total_rdp_messages"] - total["total_rejected_rdp_messages"])
       + total["total_in_messages"] + total["total_rd_messages"] - queued
  /\ total["total_rejected_inp_messages"] <= total["total_inp_messages"]
  /\ total["total_rejected_rdp_messages"] <= total["total_rdp_messages"]
  /\ total["total_queued_in_messages"] <= total["total_in_messages"]
  /\ total["total_queued_rd_messages"] <= total["total_rd_messages"]

Accounted == Balanced(metrics, Len(tuple_queue))

\* What was queued cancels out.
LEMMA QueuedCancels ==
  ASSUME NEW a \in Int, NEW b \in Int, NEW e \in Int, NEW f \in Int, NEW g \in Int, NEW h \in Int,
         NEW q \in Int
  PROVE  a + b + e + f - q = a + b + (e - g) + (f - h) + (g + h) - q
OBVIOUS

LEMMA AtMostLeaves ==
  ASSUME NEW a \in Int, NEW b \in Int, b <= a PROVE a - b \in Int /\ a - b >= 0
OBVIOUS

LEMMA AccountedAnswers ==
  ASSUME TypeOK, MetricsTypeOK, Accounted
  PROVE  AnswersAccounted
<1>1. \A m \in Counter : metrics[m] \in Int
  BY DEF MetricsTypeOK
<1>2. Len(tuple_queue) \in Int
  BY DEF TypeOK
<1>3. /\ AcceptedInp \in Int /\ AcceptedRdp \in Int
      /\ AcceptedInp >= 0 /\ AcceptedRdp >= 0 /\ InOnSpot >= 0 /\ RdOnSpot >= 0
  BY <1>1, AtMostLeaves
  DEF Accounted, Balanced, AcceptedInp, AcceptedRdp, InOnSpot, RdOnSpot, Counter
<1>4. metrics["total_send_mesages"] =
        AcceptedInp + AcceptedRdp + metrics["total_in_messages"] + metrics["total_rd_messages"]
        - Len(tuple_queue)
  BY DEF Accounted, Balanced, AcceptedInp, AcceptedRdp
<1>5. metrics["total_send_mesages"] =
        AcceptedInp + AcceptedRdp + InOnSpot + RdOnSpot + QueuedSoFar - Len(tuple_queue)
  <2> DEFINE ins == metrics["total_in_messages"]
             rds == metrics["total_rd_messages"]
             waitIns == metrics["total_queued_in_messages"]
             waitRds == metrics["total_queued_rd_messages"]
  <2>1. ins \in Int /\ rds \in Int /\ waitIns \in Int /\ waitRds \in Int
    BY <1>1 DEF Counter
  <2>2. /\ InOnSpot = ins - waitIns /\ RdOnSpot = rds - waitRds
        /\ QueuedSoFar = waitIns + waitRds
    BY DEF InOnSpot, RdOnSpot, QueuedSoFar
  <2>3. metrics["total_send_mesages"] = AcceptedInp + AcceptedRdp + ins + rds - Len(tuple_queue)
    BY <1>4
  <2> HIDE DEF ins, rds, waitIns, waitRds
  <2>4. AcceptedInp + AcceptedRdp + ins + rds - Len(tuple_queue) =
          AcceptedInp + AcceptedRdp + (ins - waitIns) + (rds - waitRds) + (waitIns + waitRds)
          - Len(tuple_queue)
    BY <1>2, <1>3, <2>1, QueuedCancels
  <2> QED
    BY <2>2, <2>3, <2>4
<1> QED
  BY <1>3, <1>5 DEF Accounted, Balanced, AnswersAccounted

\* Balanced is linear.
LEMMA SumsOfFive ==
  ASSUME NEW s \in Int, NEW a \in Int, NEW b \in Int, NEW c \in Int, NEW d \in Int, NEW e \in Int,
         NEW t \in Int, NEW u \in Int, NEW v \in Int, NEW w \in Int, NEW x \in Int, NEW y \in Int,
         s = a + b + c + d + e, t = u + v + w + x + y
  PROVE  s + t = (a + u) + (b + v) + (c + w) + (d + x) + (e + y)
OBVIOUS

LEMMA SumsOfAnswers ==
  ASSUME NEW s \in Int, NEW a \in Int, NEW b \in Int, NEW c \in Int, NEW d \in Int, NEW e \in Int,
         NEW f \in Int, NEW q \in Int,
         NEW t \in Int, NEW u \in Int, NEW v \in Int, NEW w \in Int, NEW x \in Int, NEW y \in Int,
         NEW z \in Int, NEW r \in Int,
         s = a - b + (c - d) + e + f - q, t = u - v + (w - x) + y + z - r
  PROVE  s + t = (a + u) - (b + v) + ((c + w) - (d + x)) + (e + y) + (f + z) - (q + r)
OBVIOUS

LEMMA SumsAtMost ==
  ASSUME NEW a \in Int, NEW b \in Int, NEW c \in Int, NEW d \in Int, a <= b, c <= d
  PROVE  a + c <= b + d
OBVIOUS

LEMMA BalancedAdds ==
  ASSUME NEW total \in [Counter -> Int], NEW plus \in [Counter -> Int], NEW after,
         \A m \in Counter : after[m] = total[m] + plus[m],
         NEW queued \in Int, NEW more \in Int, Balanced(total, queued), Balanced(plus, more)
  PROVE  Balanced(after, queued + more)
<1>1. \A m \in Counter : total[m] \in Int /\ plus[m] \in Int
  OBVIOUS
<1>2. /\ total["total_received_messages"] + plus["total_received_messages"] =
           (total["total_out_messages"] + plus["total_out_messages"])
           + (total["total_in_messages"] + plus["total_in_messages"])
           + (total["total_inp_messages"] + plus["total_inp_messages"])
           + (total["total_rd_messages"] + plus["total_rd_messages"])
           + (total["total_rdp_messages"] + plus["total_rdp_messages"])
  BY <1>1, SumsOfFive DEF Balanced, Counter
<1>3. total["total_send_mesages"] + plus["total_send_mesages"] =
        (total["total_inp_messages"] + plus["total_inp_messages"])
        - (total["total_rejected_inp_messages"] + plus["total_rejected_inp_messages"])
        + ((total["total_rdp_messages"] + plus["total_rdp_messages"])
           - (total["total_rejected_rdp_messages"] + plus["total_rejected_rdp_messages"]))
        + (total["total_in_messages"] + plus["total_in_messages"])
        + (total["total_rd_messages"] + plus["total_rd_messages"]) - (queued + more)
  BY <1>1, SumsOfAnswers DEF Balanced, Counter
<1>4. \A kind \in RequestKinds :
        total[MissNameOf(kind)] + plus[MissNameOf(kind)] <= total[NameOf(kind)] + plus[NameOf(kind)]
  BY <1>1, SumsAtMost DEF Balanced, Counter, RequestKinds, MissNameOf, NameOf
<1> QED
  BY <1>2, <1>3, <1>4 DEF Balanced, Counter, RequestKinds, MissNameOf, NameOf

LEMMA CountKeepsAccounted ==
  ASSUME TypeOK, MetricsTypeOK, Accounted, NEW counters, Count(counters),
         NEW queued \in Int, Len(tuple_queue') = Len(tuple_queue) + queued,
         \/ counters \subseteq FailureCounter /\ queued = 0
         \/ counters = Received("out") /\ queued = 0
         \/ counters = Redirected /\ queued = -1
         \/ \E kind \in RequestKinds :
              \/ counters = Received(kind) \cup Sent /\ queued = 0
              \/ counters = Received(kind) \cup Missed(kind) /\ queued = QueuedFor(kind)
  PROVE  MetricsTypeOK' /\ Accounted'
<1>1. /\ MetricsTypeOK'
      /\ \A m \in Counter \cup FailureCounter :
           metrics'[m] = metrics[m] + (IF m \in counters THEN 1 ELSE 0)
  BY CountTypes
<1>2. Len(tuple_queue) \in Nat
  BY DEF TypeOK
<1>3. \A m \in Counter : metrics[m] \in Nat
  BY DEF MetricsTypeOK
<1> DEFINE plus == [m \in Counter |-> IF m \in counters THEN 1 ELSE 0]
<1>4. \A m \in Counter : metrics'[m] = metrics[m] + plus[m] /\ plus[m] \in {0, 1}
  BY <1>1
<1>5. Balanced(plus, queued)
  <2>1. CASE counters \subseteq FailureCounter /\ queued = 0
    <3>1. \A m \in Counter : plus[m] = 0
      BY <2>1 DEF Counter, FailureCounter
    <3> QED
      BY <2>1, <3>1 DEF Balanced, Counter
  <2>2. CASE counters = Received("out") /\ queued = 0
    <3>1. counters = {"total_received_messages", "total_out_messages"}
      BY <2>2 DEF Received
    <3> QED
      BY <2>2, <3>1 DEF Balanced, Counter
  <2>3. CASE counters = Redirected /\ queued = -1
    BY <2>3 DEF Redirected, Sent, Balanced, Counter
  <2>4. ASSUME NEW kind \in RequestKinds, counters = Received(kind) \cup Sent, queued = 0
        PROVE  Balanced(plus, queued)
    <3>1. counters = {"total_received_messages", "total_send_mesages", NameOf(kind)}
      BY <2>4 DEF Received, Sent, NameOf, RequestKinds
    <3> QED
      BY <2>4, <3>1 DEF NameOf, RequestKinds, Balanced, Counter
  <2>5. ASSUME NEW kind \in RequestKinds, counters = Received(kind) \cup Missed(kind),
               queued = QueuedFor(kind)
        PROVE  Balanced(plus, queued)
    <3>1. counters = {"total_received_messages", NameOf(kind), MissNameOf(kind)}
      BY <2>5 DEF Received, Missed, NameOf, MissNameOf, RequestKinds
    <3> QED
      BY <2>5, <3>1 DEF NameOf, MissNameOf, QueuedFor, RequestKinds, Balanced, Counter
  <2> QED
    BY <2>1, <2>2, <2>3, <2>4, <2>5
<1> HIDE DEF plus
<1> DEFINE total == [m \in Counter |-> metrics[m]]
<1>6. Balanced(total, Len(tuple_queue))
  BY DEF Accounted, Balanced, Counter
<1>7. /\ total \in [Counter -> Int] /\ plus \in [Counter -> Int]
      /\ \A m \in Counter : metrics'[m] = total[m] + plus[m]
      /\ Len(tuple_queue) \in Int
  BY <1>2, <1>3, <1>4 DEF plus
<1> HIDE DEF total
<1>8. Accounted'
  BY <1>5, <1>6, <1>7, BalancedAdds DEF Accounted
<1> QED
  BY <1>1, <1>8

(***************************************************************************)
(* Up to a fault the totals of server_print_metrics explain each other: no *)
(* handler of server_process_requests.c forgets to count a message or      *)
(* counts it twice, on any of its paths, whatever is read when.            *)
(***************************************************************************)
THEOREM TotalsExplainEachOther == MetricsSpec => []AnswersAccounted
<1> DEFINE IInv == MetricsTypeOK /\ (pc \notin Faults => Accounted)
<1>1. MetricsInit => IInv
  BY DEF MetricsInit, Init, MetricsTypeOK, Accounted, Balanced, Counter
<1>2. TypeOK /\ IInv /\ [MetricsNext]_<<vars, metrics>> => IInv'
  <2> SUFFICES ASSUME TypeOK, IInv, [MetricsNext]_<<vars, metrics>> PROVE IInv'
    OBVIOUS
  <2>1. MetricsTypeOK'
    <3>1. UNCHANGED metrics \/ \E counters : Count(counters)
      BY DEF MetricsNext, MessageRead, NothingRead, FailureRead, GetRead, SendRead, AckRead,
             TuplePlaced, OtherStep
    <3> QED
      BY <3>1, CountTypes DEF MetricsTypeOK
  <2>2. ASSUME pc' \notin Faults PROVE Accounted'
    <3>1. Accounted /\ Len(tuple_queue) \in Nat
      BY <2>2, AccountedSteps DEF TypeOK
    <3>2. CASE UNCHANGED metrics /\ Len(tuple_queue') = Len(tuple_queue)
      BY <3>1, <3>2 DEF Accounted, Balanced
    <3>3. CASE /\ \/ \E failure \in FailureCounter : Count({failure})
                  \/ Count(Received("out"))
               /\ Len(tuple_queue') = Len(tuple_queue)
      <4>1. Len(tuple_queue') = Len(tuple_queue) + 0
        BY <3>1, <3>3
      <4>2. PICK counters : /\ Count(counters)
                            /\ counters \subseteq FailureCounter \/ counters = Received("out")
        BY <3>3
      <4> QED
        BY <3>1, <4>1, <4>2, CountKeepsAccounted
    <3>4. ASSUME NEW kind \in RequestKinds, Answered(kind) PROVE Accounted'
      <4>1. Len(tuple_queue') = Len(tuple_queue) + 0
        BY <3>1, <3>4 DEF Answered
      <4> QED
        BY <3>1, <3>4, <4>1, CountKeepsAccounted DEF Answered
    <3>5. ASSUME NEW kind \in RequestKinds, NotAnswered(kind) PROVE Accounted'
      <4>1. QueuedFor(kind) \in Int
        BY DEF QueuedFor
      <4> QED
        BY <3>1, <3>5, <4>1, CountKeepsAccounted DEF NotAnswered
    <3>6. CASE Count(Redirected) /\ Len(tuple_queue') = Len(tuple_queue) - 1
      <4>1. Len(tuple_queue') = Len(tuple_queue) + (-1) /\ -1 \in Int
        BY <3>1, <3>6
      <4> QED
        BY <3>1, <3>6, <4>1, CountKeepsAccounted
    <3> QED
      BY <2>2, <3>2, <3>3, <3>4, <3>5, <3>6, AccountedSteps
  <2> QED
    BY <2>1, <2>2
<1>3. TypeOK /\ IInv => AnswersAccounted
  BY AccountedAnswers DEF AnswersAccounted
<1> QED
  BY <1>1, <1>2, <1>3, MetricsRunServer, TypeCorrect, PTL DEF MetricsSpec

-----------------------------------------------------------------------------
(***************************************************************************)
(* Where the tuples are.                                                   *)
(***************************************************************************)
Placing == IF pc = "out" THEN 1 ELSE 0

RemovingWaiters == {entry \in Waiting : entry.remove}

Marked(counters, m) == IF m \in counters THEN 1 ELSE 0

\* What is counted agrees with a stash, a handler and clients that wait to remove
\* a tuple that are longer by s, p and w.
Agrees(counters, s, p, w) ==
  Marked(counters, "total_out_messages") =
    s + p + (Marked(counters, "total_inp_messages")
             - Marked(counters, "total_rejected_inp_messages"))
    + Marked(counters, "total_in_messages") - w

Shifts(counters, s, p, w) ==
  /\ Count(counters) \/ (counters = {} /\ UNCHANGED metrics)
  /\ Len(tuple_stash') = Len(tuple_stash) + s
  /\ Placing' = Placing + p
  /\ InWaiting' = InWaiting + w
  /\ Agrees(counters, s, p, w)

LEMMA InWaitingCounts ==
  ASSUME TypeOK
  PROVE  /\ InWaiting = Cardinality(Where(tuple_queue, RemovingWaiters))
         /\ InWaiting \in Nat /\ Len(tuple_stash) \in Nat /\ Placing \in Nat
<1>1. \A k \in DOMAIN tuple_queue : tuple_queue[k] \in Waiting
  BY DEF TypeOK
<1>2. {k \in DOMAIN tuple_queue : tuple_queue[k].remove} = Where(tuple_queue, RemovingWaiters)
  BY <1>1 DEF Where, RemovingWaiters
<1>3. InWaiting = Cardinality(Where(tuple_queue, RemovingWaiters))
  BY <1>2 DEF InWaiting
<1>4. tuple_queue \in Seq(Waiting)
  BY DEF TypeOK
<1>5. Cardinality(Where(tuple_queue, RemovingWaiters)) \in Nat
  BY <1>4, WhereFinite
<1> QED
  BY <1>3, <1>5 DEF TypeOK, Placing

LEMMA NothingPlaced ==
  ASSUME TypeOK, NEW counters, Count(counters) \/ (counters = {} /\ UNCHANGED metrics),
         Agrees(counters, 0, 0, 0), UNCHANGED <<tuple_stash, tuple_queue>>, Placing' = Placing
  PROVE  Shifts(counters, 0, 0, 0)
<1>1. InWaiting' = InWaiting
  BY DEF InWaiting
<1>2. /\ Len(tuple_stash') = Len(tuple_stash) + 0 /\ Placing' = Placing + 0
      /\ InWaiting' = InWaiting + 0
  BY <1>1, InWaitingCounts
<1> QED
  BY <1>2 DEF Shifts

LEMMA GetShifts ==
  ASSUME TypeOK, NEW kind \in RequestKinds, NEW c \in Client, NEW t \in Template,
         GetRead(kind, c, t), pc' \notin Faults
  PROVE  \E counters : \E s, p, w \in {-1, 0, 1} : Shifts(counters, s, p, w)
<1> USE DEF RequestKinds
<1>1. CASE TakeTuple(kind, c, t) /\ Count(Received(kind) \cup Sent)
  <2>1. PICK i \in DOMAIN tuple_stash : tuple_stash' = RemoveAt(tuple_stash, i)
    BY <1>1 DEF TakeTuple, Unlinked
  <2>2. Len(tuple_stash') = Len(tuple_stash) + (-1)
    BY <2>1, RemoveAtProperties DEF TypeOK
  <2>3. InWaiting' = InWaiting + 0 /\ Placing' = Placing + 0
    BY <1>1, InWaitingCounts DEF TakeTuple, InWaiting, Placing, Return
  <2>4. Shifts(Received(kind) \cup Sent, -1, 0, 0)
    <3>1. kind \in {"in", "inp"}
      BY <1>1 DEF TakeTuple
    <3>2. Agrees(Received(kind) \cup Sent, -1, 0, 0)
      BY <3>1 DEF Received, Sent, Agrees, Marked
    <3> QED
      BY <1>1, <2>2, <2>3, <3>2 DEF Shifts
  <2> QED
    BY <2>4
<1>2. CASE CopyTuple(kind, c, t) /\ Count(Received(kind) \cup Sent)
  <2>1. kind \in {"rd", "rdp"} /\ UNCHANGED <<tuple_stash, tuple_queue>>
    BY <1>2 DEF CopyTuple
  <2>2. Placing' = Placing
    BY <1>2 DEF CopyTuple, Placing, Return
  <2>3. Agrees(Received(kind) \cup Sent, 0, 0, 0)
    BY <2>1 DEF Received, Sent, Agrees, Marked
  <2>4. Shifts(Received(kind) \cup Sent, 0, 0, 0)
    BY <1>2, <2>1, <2>2, <2>3, NothingPlaced
  <2> QED
    BY <2>4
<1>3. CASE QueueTemplate(kind, c, t) /\ Count(Received(kind) \cup Missed(kind))
  <2> DEFINE entry == [template |-> t, client |-> c, remove |-> kind = "in"]
             waits == IF entry \in RemovingWaiters THEN 1 ELSE 0
  <2>1. tuple_queue' = Cons(entry, tuple_queue) /\ kind \in {"in", "rd"}
        /\ UNCHANGED tuple_stash
    BY <1>3 DEF QueueTemplate, server_insert_template_tuple
  <2>2. entry \in Waiting /\ tuple_queue \in Seq(Waiting)
    BY DEF Waiting, TypeOK
  <2>3. waits = IF kind = "in" THEN 1 ELSE 0
    BY <2>2 DEF RemovingWaiters
  <2> HIDE DEF entry
  <2>4. Cardinality(Where(tuple_queue', RemovingWaiters)) =
          Cardinality(Where(tuple_queue, RemovingWaiters)) + waits
    BY <2>1, <2>2, WhereCons
  <2> HIDE DEF waits
  <2>6. InWaiting' = InWaiting + waits
    <3>1. tuple_queue' \in Seq(Waiting)
      BY <2>1, <2>2, ConsProperties
    <3>2. \A k \in DOMAIN tuple_queue' : tuple_queue'[k] \in Waiting
      BY <3>1
    <3>3. {k \in DOMAIN tuple_queue' : tuple_queue'[k].remove}
            = Where(tuple_queue', RemovingWaiters)
      BY <3>2 DEF Where, RemovingWaiters
    <3> QED
      BY <2>4, <3>3, InWaitingCounts DEF InWaiting
  <2>7. Len(tuple_stash') = Len(tuple_stash) + 0 /\ Placing' = Placing + 0
    BY <1>3, <2>1, InWaitingCounts DEF QueueTemplate, Placing, Return
  <2>8. Agrees(Received(kind) \cup Missed(kind), 0, 0, waits)
    BY <2>1, <2>3 DEF Received, Missed, Agrees, Marked
  <2>9. Shifts(Received(kind) \cup Missed(kind), 0, 0, waits)
    BY <1>3, <2>6, <2>7, <2>8 DEF Shifts
  <2> QED
    BY <2>3, <2>9
<1>4. CASE Refuse(kind, c, t) /\ Count(Received(kind) \cup Missed(kind))
  <2>1. kind \in {"inp", "rdp"} /\ UNCHANGED <<tuple_stash, tuple_queue>>
    BY <1>4 DEF Refuse
  <2>2. Placing' = Placing
    BY <1>4 DEF Refuse, Placing, Return
  <2>3. Agrees(Received(kind) \cup Missed(kind), 0, 0, 0)
    BY <2>1 DEF Received, Missed, Agrees, Marked
  <2>4. Shifts(Received(kind) \cup Missed(kind), 0, 0, 0)
    BY <1>4, <2>1, <2>2, <2>3, NothingPlaced
  <2> QED
    BY <2>4
<1>5. ~ReadFreedTuple(kind, t)
  BY DEF ReadFreedTuple, Fault, Faults
<1> QED
  BY <1>1, <1>2, <1>3, <1>4, <1>5 DEF GetRead

LEMMA PlaceShifts ==
  ASSUME TypeOK, TuplePlaced
  PROVE  \E counters : \E s, p, w \in {-1, 0, 1} : Shifts(counters, s, p, w)
<1>1. CASE RedirectTuple /\ Count(Redirected)
  <2>1. PICK i \in DOMAIN tuple_queue :
          /\ tuple_queue' = RemoveAt(tuple_queue, i)
          /\ \/ tuple_queue[i].remove /\ pc' = "resend"
             \/ ~tuple_queue[i].remove /\ pc' = pc
    BY <1>1 DEF RedirectTuple, Return
  <2> DEFINE leaves == IF tuple_queue[i] \in RemovingWaiters THEN 1 ELSE 0
  <2>2. tuple_queue \in Seq(Waiting) /\ tuple_queue[i] \in Waiting
    BY DEF TypeOK
  <2>3. leaves = IF tuple_queue[i].remove THEN 1 ELSE 0
    BY <2>2 DEF RemovingWaiters
  <2>4. Cardinality(Where(tuple_queue', RemovingWaiters)) =
          Cardinality(Where(tuple_queue, RemovingWaiters)) - leaves
    BY <2>1, <2>2, WhereRemoveAt
  <2>5. InWaiting' = InWaiting + (-leaves)
    <3>1. tuple_queue' \in Seq(Waiting)
      BY <2>1, <2>2, RemoveAtProperties
    <3>2. \A k \in DOMAIN tuple_queue' : tuple_queue'[k] \in Waiting
      BY <3>1
    <3>3. {k \in DOMAIN tuple_queue' : tuple_queue'[k].remove}
            = Where(tuple_queue', RemovingWaiters)
      BY <3>2 DEF Where, RemovingWaiters
    <3>4. leaves \in {0, 1}
      OBVIOUS
    <3> HIDE DEF leaves
    <3> QED
      BY <2>4, <3>3, <3>4, InWaitingCounts DEF InWaiting
  <2>6. Placing' = Placing + (-leaves)
    BY <1>1, <2>1, <2>3 DEF RedirectTuple, Placing
  <2>7. leaves \in {0, 1}
    OBVIOUS
  <2> HIDE DEF leaves
  <2>8. Len(tuple_stash') = Len(tuple_stash) + 0
    BY <1>1, InWaitingCounts DEF RedirectTuple
  <2>9. Agrees(Redirected, 0, -leaves, -leaves)
    BY <2>7 DEF Agrees, Marked, Redirected, Sent
  <2>10. Shifts(Redirected, 0, -leaves, -leaves)
    BY <1>1, <2>5, <2>6, <2>8, <2>9 DEF Shifts
  <2>11. -leaves \in {-1, 0, 1}
    BY <2>7
  <2> QED
    BY <2>10, <2>11
<1>2. CASE SaveTuple /\ UNCHANGED metrics
  <2> DEFINE entry == [data |-> handler.data, size |-> handler.size]
  <2>1. tuple_stash' = Cons(entry, tuple_stash) /\ entry \in Stashed
    BY <1>2 DEF SaveTuple, server_insert_data_tuple, TypeOK, Stashed
  <2> HIDE DEF entry
  <2>2. Len(tuple_stash') = Len(tuple_stash) + 1
    BY <2>1, ConsProperties DEF TypeOK
  <2>3. Placing' = Placing + (-1) /\ InWaiting' = InWaiting + 0
    BY <1>2, InWaitingCounts DEF SaveTuple, Placing, InWaiting, Return
  <2>4. Agrees({}, 1, -1, 0)
    BY DEF Agrees, Marked
  <2>5. Shifts({}, 1, -1, 0)
    BY <1>2, <2>2, <2>3, <2>4 DEF Shifts
  <2> QED
    BY <2>5
<1> QED
  BY <1>1, <1>2 DEF TuplePlaced

LEMMA PlacedSteps ==
  ASSUME QuietRatio, TypeOK, [MetricsNext]_<<vars, metrics>>, pc' \notin Faults
  PROVE  \E counters : \E s, p, w \in {-1, 0, 1} : Shifts(counters, s, p, w)
<1>1. CASE NothingRead \/ FailureRead
  <2>1. UNCHANGED <<tuple_stash, tuple_queue>> /\ Placing' = Placing
    BY <1>1 DEF NothingRead, FailureRead, ReadNothing, spaceVars, Placing, Return
  <2>2. PICK counters : /\ Count(counters) \/ (counters = {} /\ UNCHANGED metrics)
                        /\ counters \subseteq FailureCounter
    <3>1. CASE NothingRead
      <4> WITNESS {}
      <4> QED
        BY <3>1 DEF NothingRead
    <3>2. CASE FailureRead
      <4>1. PICK failure \in FailureCounter : Count({failure})
        BY <3>2 DEF FailureRead
      <4>2. {failure} \subseteq FailureCounter
        OBVIOUS
      <4> QED
        BY <4>1, <4>2
    <3> QED
      BY <1>1, <3>1, <3>2
  <2>3. Agrees(counters, 0, 0, 0)
    BY <2>2 DEF Agrees, Marked, FailureCounter
  <2>4. Shifts(counters, 0, 0, 0)
    BY <2>1, <2>2, <2>3, NothingPlaced
  <2> QED
    BY <2>4
<1>2. ASSUME NEW kind \in RequestKinds, NEW c \in Client, NEW t \in Template,
             GetRead(kind, c, t)
      PROVE  \E counters : \E s, p, w \in {-1, 0, 1} : Shifts(counters, s, p, w)
  BY <1>2, GetShifts
<1>3. ASSUME NEW c \in Client, NEW t \in Tuple, SendRead(c, t)
      PROVE  \E counters : \E s, p, w \in {-1, 0, 1} : Shifts(counters, s, p, w)
  <2>1. Placing' = Placing + 1 /\ InWaiting' = InWaiting + 0
        /\ Len(tuple_stash') = Len(tuple_stash) + 0
    BY <1>3, InWaitingCounts DEF SendRead, ReadTuple, Placing, InWaiting
  <2>2. Received("out") = {"total_received_messages", "total_out_messages"}
    BY DEF Received
  <2>3. Agrees(Received("out"), 0, 1, 0)
    BY <2>2 DEF Agrees, Marked
  <2>4. Shifts(Received("out"), 0, 1, 0)
    BY <1>3, <2>1, <2>3 DEF Shifts, SendRead
  <2> QED
    BY <2>4
<1>4. CASE TuplePlaced
  BY <1>4, PlaceShifts
<1>5. CASE (\E c \in Client : AckRead(c)) \/ OtherStep \/ UNCHANGED <<vars, metrics>>
  <2>1. UNCHANGED <<metrics, tuple_stash, tuple_queue>>
    <3>1. CASE \E c \in Client : AckRead(c)
      BY <3>1 DEF AckRead, server_ack_cb, server_ack_cb_unknown, spaceVars
    <3>2. CASE OtherStep
      BY <3>2, NothingDue DEF OtherStep, server_resend_tuple_for_connections, BeginSweep,
         EndSweep, Stop, Tick, StayHalted, vars, spaceVars
    <3> QED
      BY <1>5, <3>1, <3>2 DEF vars, spaceVars
  <2>2. Placing' = Placing
    <3>1. ASSUME NEW c \in Client, AckRead(c) PROVE Placing' = Placing
      <4>1. pc = "receive" /\ (pc' = "resend" \/ pc' \in Faults)
        BY <3>1, FaultTypes DEF AckRead, server_ack_cb, server_ack_cb_unknown, Return
      <4> QED
        BY <4>1 DEF Placing, Faults
    <3>2. CASE OtherStep
      BY <3>2, NothingDue DEF OtherStep, server_resend_tuple_for_connections, BeginSweep,
         EndSweep, Stop, Tick, StayHalted, vars, Placing
    <3> QED
      BY <1>5, <3>1, <3>2 DEF vars, Placing
  <2>3. Agrees({}, 0, 0, 0)
    BY DEF Agrees, Marked
  <2>4. Shifts({}, 0, 0, 0)
    BY <2>1, <2>2, <2>3, NothingPlaced
  <2> QED
    BY <2>4
<1> QED
  BY <1>1, <1>2, <1>3, <1>4, <1>5 DEF MetricsNext, MessageRead

\* The sum is linear.
LEMMA SumsOfPlaces ==
  ASSUME NEW o \in Int, NEW s \in Int, NEW p \in Int, NEW i \in Int, NEW r \in Int, NEW n \in Int,
         NEW w \in Int, o = s + p + (i - r) + n - w,
         NEW o2 \in Int, NEW s2 \in Int, NEW p2 \in Int, NEW i2 \in Int, NEW r2 \in Int,
         NEW n2 \in Int, NEW w2 \in Int, o2 = s2 + p2 + (i2 - r2) + n2 - w2
  PROVE  o + o2 = (s + s2) + (p + p2) + ((i + i2) - (r + r2)) + (n + n2) - (w + w2)
OBVIOUS

TuplesPlaced ==
  metrics["total_out_messages"] =
    Len(tuple_stash) + Placing
    + (metrics["total_inp_messages"] - metrics["total_rejected_inp_messages"])
    + metrics["total_in_messages"] - InWaiting

LEMMA ShiftsKeepPlaced ==
  ASSUME TypeOK, MetricsTypeOK, TuplesPlaced, NEW counters,
         NEW s \in {-1, 0, 1}, NEW p \in {-1, 0, 1}, NEW w \in {-1, 0, 1},
         Shifts(counters, s, p, w)
  PROVE  TuplesPlaced'
<1> DEFINE on(m) == Marked(counters, m)
<1>1. \A m \in Counter : metrics'[m] = metrics[m] + on(m)
  <2>1. CASE Count(counters)
    BY <2>1, CountTypes DEF Marked
  <2>2. CASE counters = {} /\ UNCHANGED metrics
    BY <2>2 DEF Marked, MetricsTypeOK
  <2> QED
    BY <2>1, <2>2 DEF Shifts
<1>2. \A m \in Counter : metrics[m] \in Int /\ on(m) \in Int
  BY DEF MetricsTypeOK, Marked
<1>3. Len(tuple_stash) \in Int /\ Placing \in Int /\ InWaiting \in Int
      /\ s \in Int /\ p \in Int /\ w \in Int
  BY InWaitingCounts
<1>4. on("total_out_messages") =
        s + p + (on("total_inp_messages") - on("total_rejected_inp_messages"))
        + on("total_in_messages") - w
  BY DEF Shifts, Agrees
<1> HIDE DEF on
<1>5. metrics["total_out_messages"] + on("total_out_messages") =
        (Len(tuple_stash) + s) + (Placing + p)
        + ((metrics["total_inp_messages"] + on("total_inp_messages"))
           - (metrics["total_rejected_inp_messages"] + on("total_rejected_inp_messages")))
        + (metrics["total_in_messages"] + on("total_in_messages")) - (InWaiting + w)
  <2> DEFINE out == metrics["total_out_messages"]
             inp == metrics["total_inp_messages"]
             rejected == metrics["total_rejected_inp_messages"]
             in == metrics["total_in_messages"]
             outOn == on("total_out_messages")
             inpOn == on("total_inp_messages")
             rejectedOn == on("total_rejected_inp_messages")
             inOn == on("total_in_messages")
  <2>1. /\ out \in Int /\ inp \in Int /\ rejected \in Int /\ in \in Int
        /\ outOn \in Int /\ inpOn \in Int /\ rejectedOn \in Int /\ inOn \in Int
    BY <1>2 DEF Counter
  <2>2. out = Len(tuple_stash) + Placing + (inp - rejected) + in - InWaiting
    BY DEF TuplesPlaced
  <2>3. outOn = s + p + (inpOn - rejectedOn) + inOn - w
    BY <1>4
  <2> HIDE DEF out, inp, rejected, in, outOn, inpOn, rejectedOn, inOn
  <2>4. out + outOn = (Len(tuple_stash) + s) + (Placing + p)
                      + ((inp + inpOn) - (rejected + rejectedOn)) + (in + inOn) - (InWaiting + w)
    BY <1>3, <2>1, <2>2, <2>3, SumsOfPlaces
  <2> QED
    BY <2>4 DEF out, inp, rejected, in, outOn, inpOn, rejectedOn, inOn
<1>6. Len(tuple_stash') = Len(tuple_stash) + s /\ Placing' = Placing + p
      /\ InWaiting' = InWaiting + w
  BY DEF Shifts
<1> QED
  BY <1>1, <1>5, <1>6 DEF TuplesPlaced, Counter

(***************************************************************************)
(* Under the shipped ratio of interval and clock every tuple a client sent *)
(* is accounted for, up to a fault: it is in the stash, in process_out, or *)
(* counted as handed to one client that removes it.  (With a shorter       *)
(* interval the sweep stashes again what nobody counts.)                   *)
(***************************************************************************)
THEOREM EveryTupleAccounted == ASSUME QuietRatio PROVE MetricsSpec => []TuplesAccounted
<1> DEFINE IInv == MetricsTypeOK /\ (pc \notin Faults => TuplesPlaced)
<1>1. MetricsInit => IInv
  <2> SUFFICES ASSUME MetricsInit PROVE IInv
    OBVIOUS
  <2>1. {k \in DOMAIN tuple_queue : tuple_queue[k].remove} = {}
    BY DEF MetricsInit, Init
  <2>2. InWaiting = 0
    BY <2>1, FS_EmptySet DEF InWaiting
  <2>3. Len(tuple_stash) = 0 /\ Placing = 0 /\ MetricsTypeOK
        /\ \A m \in Counter : metrics[m] = 0
    BY DEF MetricsInit, Init, Placing, MetricsTypeOK
  <2> QED
    BY <2>2, <2>3 DEF TuplesPlaced, Counter
<1>2. TypeOK /\ IInv /\ [MetricsNext]_<<vars, metrics>> => IInv'
  <2> SUFFICES ASSUME TypeOK, IInv, [MetricsNext]_<<vars, metrics>> PROVE IInv'
    OBVIOUS
  <2>1. MetricsTypeOK'
    <3>1. UNCHANGED metrics \/ \E counters : Count(counters)
      BY DEF MetricsNext, MessageRead, NothingRead, FailureRead, GetRead, SendRead, AckRead,
             TuplePlaced, OtherStep
    <3> QED
      BY <3>1, CountTypes DEF MetricsTypeOK
  <2>2. ASSUME pc' \notin Faults PROVE TuplesPlaced'
    BY <2>2, AccountedSteps, PlacedSteps, ShiftsKeepPlaced
  <2> QED
    BY <2>1, <2>2
<1>3. IInv => TuplesAccounted
  BY DEF TuplesAccounted, TuplesPlaced, Placing, AcceptedInp
<1> QED
  BY <1>1, <1>2, <1>3, MetricsRunServer, TypeCorrect, PTL DEF MetricsSpec
=============================================================================
