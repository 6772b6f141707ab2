---------------------------- MODULE ServerMetrics ----------------------------
(***************************************************************************)
(* The totals of server_metrics.h beside the server: what each handler     *)
(* counts of the messages it reads and answers.  server_print_metrics      *)
(* prints them once a second, some as differences; the two gauges are      *)
(* those of TupleSpaceServer.  The accumulated lengths are left out.       *)
(***************************************************************************)
EXTENDS TupleSpaceServer

CONSTANT MaxMessages   \* bound: a datagram is read only while fewer were counted

ASSUME MessagesBound == MaxMessages \in Nat

VARIABLE metrics

Counter ==
  {"total_received_messages", "total_send_mesages", "total_out_messages",
   "total_in_messages", "total_inp_messages", "total_rd_messages", "total_rdp_messages",
   "total_rejected_inp_messages", "total_rejected_rdp_messages",
   "total_queued_in_messages", "total_queued_rd_messages"}

\* What is counted of a datagram that is no message, or a malformed one.
FailureCounter ==
  {"total_errors", "total_serialization_issues", "total_invalid_get_tuples",
   "total_invalid_send_tuples"}

MetricsInit == Init /\ metrics = [m \in Counter \cup FailureCounter |-> 0]

-----------------------------------------------------------------------------
Count(counters) ==
  metrics' = [m \in DOMAIN metrics |-> metrics[m] + (IF m \in counters THEN 1 ELSE 0)]

\* server_get_tuple_cb.
Received(kind) ==
  {"total_received_messages",
   CASE kind = "in"  -> "total_in_messages"
     [] kind = "inp" -> "total_inp_messages"
     [] kind = "rd"  -> "total_rd_messages"
     [] kind = "rdp" -> "total_rdp_messages"
     [] kind = "out" -> "total_out_messages"}

Sent == {"total_send_mesages"}

\* A tuple is sent to a client that waits, and as if that were not counted.
Redirected_Uncounted == {}

Redirected == Sent

\* A GET that finds nothing, and as if both kinds of refusal were counted as one.
Missed_OneRefusal(kind) ==
  CASE kind = "in"  -> {"total_queued_in_messages"}
    [] kind = "rd"  -> {"total_queued_rd_messages"}
    [] OTHER        -> {"total_rejected_rdp_messages"}

Missed(kind) ==
  CASE kind = "in"  -> {"total_queued_in_messages"}
    [] kind = "rd"  -> {"total_queued_rd_messages"}
    [] kind = "inp" -> {"total_rejected_inp_messages"}
    [] kind = "rdp" -> {"total_rejected_rdp_messages"}

Counted(counters) == FoldSet(LAMBDA m, sum : sum + metrics[m], 0, counters)

HasBudget ==
  Counted(FailureCounter \cup {"total_received_messages"}) < MaxMessages

\* recv_cb returned nothing.
NothingRead == ReadNothing /\ UNCHANGED metrics

\* server_error_cb, server_serialization_issue_cb and the two invalid_invariant
\* callbacks.
FailureRead ==
  /\ HasBudget /\ ReadNothing
  /\ \E failure \in FailureCounter : Count({failure})

GetRead(kind, client, template) ==
  /\ HasBudget
  /\ \/ (TakeTuple(kind, client, template) \/ CopyTuple(kind, client, template))
          /\ Count(Received(kind) \cup Sent)
     \/ (QueueTemplate(kind, client, template) \/ Refuse(kind, client, template))
          /\ Count(Received(kind) \cup Missed(kind))
     \/ ReadFreedTuple(kind, template) /\ Count(Received(kind))

SendRead(client, tuple) ==
  HasBudget /\ ReadTuple(client, tuple) /\ Count(Received("out"))

AckRead(client) ==
  (server_ack_cb(client) \/ server_ack_cb_unknown(client)) /\ UNCHANGED metrics

MessageRead ==
  \/ NothingRead \/ FailureRead
  \/ \E kind \in RequestKinds, c \in Client, t \in Template : GetRead(kind, c, t)
  \/ \E c \in Client, t \in Tuple : SendRead(c, t)
  \/ \E c \in Client : AckRead(c)

TuplePlaced ==
  \/ RedirectTuple /\ Count(Redirected)
  \/ SaveTuple /\ UNCHANGED metrics

\* The sweep counts nothing: what it sends again is not in the totals.
OtherStep ==
  /\ server_resend_tuple_for_connections \/ Stop \/ Tick \/ StayHalted
  /\ UNCHANGED metrics

MetricsNext == MessageRead \/ TuplePlaced \/ OtherStep

MetricsSpec == MetricsInit /\ [][MetricsNext]_<<vars, metrics>>

-----------------------------------------------------------------------------
(***************************************************************************)
(* The differences server_print_metrics prints, in the integers: where one *)
(* were negative the size_t would wrap.                                    *)
(***************************************************************************)
AcceptedInp  == metrics["total_inp_messages"] - metrics["total_rejected_inp_messages"]
AcceptedRdp  == metrics["total_rdp_messages"] - metrics["total_rejected_rdp_messages"]
InOnSpot     == metrics["total_in_messages"] - metrics["total_queued_in_messages"]
RdOnSpot     == metrics["total_rd_messages"] - metrics["total_queued_rd_messages"]
QueuedSoFar  == metrics["total_queued_in_messages"] + metrics["total_queued_rd_messages"]
InWaiting    == Cardinality({k \in DOMAIN tuple_queue : tuple_queue[k].remove})

MetricsTypeOK == metrics \in [Counter \cup FailureCounter -> Nat]

\* Up to a fault the totals explain each other: every message received is of one
\* kind, and every tuple sent answered a GET on the spot or one that was queued
\* and is no more.
AnswersAccounted ==
  pc \notin Faults =>
    /\ metrics["total_received_messages"] =
         metrics["total_out_messages"] + metrics["total_in_messages"]
         + metrics["total_inp_messages"] + metrics["total_rd_messages"]
         + metrics["total_rdp_messages"]
    /\ metrics["total_send_mesages"] =
         AcceptedInp + AcceptedRdp + InOnSpot + RdOnSpot + QueuedSoFar - Len(tuple_queue)
    /\ AcceptedInp >= 0 /\ AcceptedRdp >= 0 /\ InOnSpot >= 0 /\ RdOnSpot >= 0

\* Up to a fault, every tuple received is in the stash, in process_out, or went to
\* one client that removes it: to an INP that was not refused, or to an IN that
\* does not wait, or no more.
TuplesAccounted ==
  pc \notin Faults =>
    metrics["total_out_messages"] =
      Len(tuple_stash) + (IF pc = "out" THEN 1 ELSE 0)
      + AcceptedInp + metrics["total_in_messages"] - InWaiting
=============================================================================
