# Tuple space: a verification project

The repository is a tuple space for small devices: a UDP server that keeps
tuples (`src/server`), a client library in C (`src/libts`, packaged for Arduino in
`src/Libts-arduino`) and two applications on three devices (`src/*.ino`). This
directory holds its TLA+ model, the TLC runs that check it and the theorems TLAPS
proves about it.

## 1. Inventory

| Component | State it keeps | Operations | Talks to |
|---|---|---|---|
| Tuples and matching (`libts/common/tuple_space.c`) | none | build a field, read it, match a template | everything |
| Server loop (`server/server.c`) | `IsWorking`, all of `server_data_t` | read one datagram, dispatch its callback, sweep the unacknowledged replies | device, handlers |
| Request handlers (`server/server_process_requests.c`) | none of their own | IN, INP, RD, RDP, OUT | stash, queue, connections, device |
| Stash and queue (`server/server_tuple_space.c`) | 16 lists each, one per tuple size | insert at the head, search, unlink | handlers, sweep |
| Active connections (`server/server_active_connections.c`) | a list of replies not acknowledged yet | add, remove, find by address | handlers, `server_ack_cb`, sweep |
| Metrics and log (`server/server_metrics.c`, `server_log.c`) | 19 counters | count, print; `server_current_time_ms` | handlers, sweep |
| Protocol (`libts/common/tuple_space_network.c`) | the client's repeat count, waiting time and delay flag | server: decode and dispatch; client: send, wait, repeat, acknowledge | devices |
| Client API (`tuple_space_client_api.c`) | the response of the request under way | `ts_application_out/in/inp/rd/rdp` | protocol |
| Serialization (`tuple_space_serialization.c`, `tuple_space_protocol.c`) | none | tuples and message types to bytes and back | protocol |
| Allocators (`tuple_space_unix_alloc.c`, `tuple_space_block_memory_resource.c`) | the heap; a bump pointer | allocate, free | protocol, applications |
| Devices (`unix`, `zsut_vm`) | a UDP socket | send, receive without blocking, clock | protocol |
| Applications (`master_node.ino`, `worker_node*.ino`) | loop state, counters, result table | check numbers for primality; count direction changes of the workers' pins | client API |

### How they interact

The server is one thread. Each turn of its loop reads at most one datagram, runs
the handler of its message to the end, then walks the active connections. A client
is one thread too: it sends a request, waits a time for an answer, repeats the
request a number of times, and acknowledges a reply until the server acknowledges
that. The exchange is

- OUT: `SEND TUPLE` -> `ACK`
- IN, INP, RD, RDP: `GET TUPLE` -> `TUPLE`, or `AWAITING`, or `LACK` and then
  `AWAITING`; then `ACK` -> `ACK`

and UDP may lose, repeat, delay or reorder any of it. Acknowledgements carry no
identification: the server matches them by address, the client takes the next
datagram for the answer.

What server components share is memory. A received tuple is one array from
`malloc`; the stash, a connection and the handler pass pointers to it around, and
each of several paths frees it. Who owns a tuple, and when, is the heart of the
server.

### What is hard

- requests, retries and acknowledgements in orders nobody wrote a test for, each
  moving pointers between the stash, the connections and the heap;
- acknowledgements applied to another reply than the one they answer;
- the resend sweep: a list modified while it is walked, an interval compared with a
  clock that starts over every second;
- IN and RD against OUT: the one searches the stash before queueing, the other the
  queue before stashing, with swapped arguments, over buckets by size;
- a blocking IN that polls, and leaves a template behind per window;
- applications that count answers without knowing which round or number they belong to;
- client retries of a request that was already served, clocks that wrap, answers
  read by a later request.

`PROJECT.json` lists these as hazards, each at its line, with the property that
covers it or the reason why none does yet.

### What makes each component correct

- Matching: a template matches exactly the tuples with the same types and, where it
  has values, the same values.
- Stash and queue: no template waits while a matching tuple lies in the stash.
- Memory: each tuple in memory has one owner; no pointer outlives its block; a read
  without removal leaves the tuple to the others.
- Connections and sweep: a reply is repeated a bounded number of times; a tuple that
  was taken is either with its taker or back in the stash, never both.
- Metrics: the gauges equal what they count; the totals explain each other and the lists.
- Server loop: every handler and every sweep ends.
- Client: an OUT that reports success put its tuple into the space, at most once per
  sending; an INP returns what it asked for, and nothing that another application got or
  that is still in the space; every operation returns.
- The system: seen from the applications, a bag of tuples with atomic operations.
- Serialization: what is read is what was passed; refused is what does not fit.
- Block memory: no routine of an application asks for more than the block holds.
- Applications: what the master prints is right for every number, every round ends, and
  every change of a worker's pins is counted once, with one pin wired as what it was.

## 2. Modules

| Module | Models |
|---|---|
| `TupleSpace` | fields, tuples, templates, `ts_is_matching_tuple`: pure definitions |
| `TupleSpaceProtocol` | the messages between clients and server |
| `TupleSpaceServer` | the server: loop, handlers, lists, acknowledgements, sweep, clock, heap |
| `TupleSpaceClient` | the client library: operations, results, the send-wait-repeat loops, the datagrams under way |
| `TupleSpaceSystem` | server and clients over UDP |
| `LindaSpace` | what the system promises: a bag of tuples with atomic `out` and `inp` |
| `LossySpace` | what it promises when datagrams may be lost: an operation may be served once per sending, an INP once more for each earlier call, and returns one of its servings or fails |
| `LossySystem` | the composed system with the history of what the server did for each operation, mapped to `LossySpace` |
| `BlockMemory` | the applications' allocator, and what an operation demands of it |
| `MasterWorker` | the two applications of the master and the workers, on `LossySpace` |
| `ServerMetrics` | the server with the totals of `server_metrics.h` |
| `TupleSpaceSerialization` | messages as bytes, both ways, between machines |
| `MCTupleSpaceServer`, `MCTupleSpaceSystem`, `MCLossySystem`, `MCMasterWorker`, `MCServerMetrics`, `MCTupleSpaceSerialization` | small instances for TLC |
| `DataLemmas` | facts about linking in (`Cons`) and unlinking (`RemoveAt`) list nodes, positions of a list, bags of datagrams, sums over a finite set and how a cardinality changes; induction over naturals, said of sets, and the functions it defines |
| `TupleSpaceServerProofs` | type correctness; no resend, and how many there may be; gauges; no client left waiting; ownership, memory safety, what is taken stays taken |
| `TupleSpaceSystemProofs` | the composed system implements the open server, and inherits its theorems; type correctness; the copies of an OUT; no tuple is delivered twice |
| `LossySystemProofs` | an INP returns what it asked for; the composed system implements `LossySpace` |
| `LindaSystemProofs` | without loss the composed system implements `LindaSpace` |
| `ServerMetricsProofs` | the totals explain each other and account for every tuple |
| `TupleSpaceSerializationProofs` | what is decoded is what was encoded; what fits is sent; answers are sent |
| `MasterWorkerProofs` | trial division finds the primes; the master notes no false prime; the blocks suffice; without faults, changes balance and prints are right |

`TupleSpaceServer` and `TupleSpaceClient` both extend `TupleSpaceProtocol`;
`TupleSpaceSystem` extends the two and instantiates `LindaSpace` under a refinement
mapping; `LossySystem` extends that and instantiates `LossySpace` in the same way.
`MasterWorker` extends `LossySpace`, the promise, instead of the system: what the
applications may see is what the refinement shows. `ServerMetrics` extends
`TupleSpaceServer`. `TupleSpaceSerialization` stands by itself: it justifies that the others carry
tuples as values.

### State of `TupleSpaceServer` and the code

| Variable | Code |
|---|---|
| `pc` | the point of the loop: `receive` before `ts_server_get_message`, `out` in the loop of `server_process_out`, `resend` before and `sweep` inside `server_resend_tuple_for_connections`; `stopped` after SIGINT; a fault is final |
| `heap` | one block per received tuple; `NULL` means free |
| `tuple_stash`, `tuple_queue`, `active_connections` | the lists of `server_data_t`, head first; an entry holds the pointer and the size |
| `handler` | the arguments of `server_process_out` |
| `clock` | what `server_current_time_ms` returns: a value modulo `ClockPeriod` |
| `cursor`, `current_time` | the loop pointer of the sweep, as a position, and its local time |
| `currently_stashed_tuples`, `currently_queued_tuples` | the two gauges, unsigned and wrapping at `CounterMax` |
| `sent` | the datagrams the last step gave to the device: the interface to the clients |

Each handler is one action, with all it sends and changes, because the thread runs it
to the end and nothing else shares its state. The two loops whose length depends on
data, in `server_process_out` and in the sweep, take one step per iteration, and
`Tick` may happen between any two steps: the code reads the clock inside both.

One list stands for the sixteen buckets of the stash and of the queue: tuples of
different sizes never match, and the order within a bucket is kept.

The environment is open. At the head of the loop any message of any client may be
read, at any time and any number of times. That contains every loss, repetition,
delay and reordering UDP can cause and every retry of a client, so that a safety
property of this model holds of any composition with clients. `Requests` restricts
which kinds of `GET TUPLE` the clients use at all: the two applications only use INP
and OUT, the library offers all four.

### State of `TupleSpaceClient` and the code

| Variable | Code |
|---|---|
| `client_pc` | where the client's thread is: `idle` in the application; `send` and `await` in the loop of a request, before and after its `send_cb`; `ack` and `await_ack` in `ts_client_to_server_resolve_ack` |
| `request` | the arguments of the operation under way |
| `repeats` | the loop variable of that name |
| `context` | `ts_application_local_context_t`, which the callbacks fill |
| `result` | what the last operation returned; the tuple still has the id in front, which the code strips |
| `net` | the datagrams under way and in the receive buffers, a bag |

An action is one datagram received or sent, or the end of a window. The comparison of
clocks (`network.c:367`, `:421`, `:476`) is not kept: a window may end at any time, which
covers every clock. `had_got_delay_message` is set and reset within one reception.
`ts_application_send_template` assigns where it means to compare (`client_api.c:106`), so
what the loop returned is lost; `Outcome` therefore looks at the context only, as the
code does.

### The composition

`ReadSend`, `ReadGet` and `ReadAck` are the server's handlers, each with the datagram it
consumes; `PlaceTuple` and `Sweep` its other steps. What a step leaves in `sent` joins
`net`. Two kinds of server steps are left out, because they change nothing a client can
see: a turn that reads nothing, and `Tick`, for with the shipped ratio of interval and
clock the sweep never finds anything due (theorem `NoResend`). `saved`, `got`,
`asked` are history, counted per tuple; a tuple counts as `saved` when it is stashed or
redirected to a client that waits.

How bad the network is, is a parameter:

- `MaxLost`: how many datagrams may be lost, `NULL` for any number.
- `Timely`: an answer comes within `ack_await_time` or not at all; a window then ends only
  when nothing of its client is under way. Without it, it may end at any time, and
  every datagram may arrive as late as it likes, in any order.
- `Strangers`: other hosts send to the clients.
- `MayStop`: the server may be interrupted (SIGINT).
- `CanReceiveIp`: the device reports the sender (unix), or leaves the caller's variables as
  they were (zsut); the comparison with the server's address (`network.c:344`, `:428`) is
  then a nondeterministic choice.
- `SendMayFail`: `send_cb` may return 0, whether the datagram left or not: the unix device
  returns 0 when it did not leave, the ZSUT device returns the length as one byte, which is
  0 for the 256 bytes that did.

### The refinement

An operation takes effect in `LindaSpace` when its answer leaves the server: `call` is the
request under way, `answer` is pending until a datagram that answers it is on its way
and is then what the operation will return, `space` counts the tuples the stash points to,
`down` is a stopped server. Retries, acknowledgements and the second answer of a refusal
are stutters. The abstract space allows an operation to fail only when the space is down
or the call is ill-formed.

When datagrams may be lost the promise is weaker. `LossySystem` keeps, for every operation
under way, which tuples the server put or took for it and whether it was refused; the
history ends with the operation. In `LossySpace` an operation is served any number of
times up to a limit, each serving acts on the bag at once, and it returns the answer of one
of its servings, or an error. An OUT may be served `MaxRepeats` times, an INP of a client once
more for each call the client made before: an AWAITING that a refusal left behind raises the
repeats of a later INP, and several may have been left when it comes. The limit per client is
what makes the promise true for any number of calls; with one more for all, as two calls
suggest, it is false of three.

### `MasterWorker`

| Variable | Code |
|---|---|
| `device_pc` | the operation the device's thread called last; it goes on when that has returned |
| `app_state`, `next`, `workers_responses`, `workers_responds_clock` | the statics of `application_one_routine` of the master (`next` is `i`) |
| `first_counter`, `second_counter` | those of its `application_two_routine` |
| `status` | the static of the workers' `application_two_routine`: the word of 16 pins read last |
| `pointer` | that of the device's `MemoryResource` |
| `changes`, `faults` | how often a worker's pins changed, how often the network went wrong: bounds and conditions |
| `shifts` | history: how often a word that is not 0 was followed by another that is not 0 |

A device is one thread: setup, then a loop that runs application 1, frees the block, runs
application 2 and frees the block. An action is all a thread does between two
operations; it consumes the answer of the last one and calls the next, so that the order of
the two applications, the early returns and the resets of the block are those of the code.
The space works in between. `faults` counts the servings that repeat one and the operations
that fail; with none, the space is exact. Field values of `Uint` are the numbers,
those of `Bool` 0 and 1. A worker reads a word of 16 bits, a bit for each pin; what changes is
the word, and what is told is the old word as a `bool` (`ToBool`): 0 only for the word 0.
`PinWords` bounds the changes, giving for each of a worker's the set of words it may be to.

`BlockMemory` adds up what one routine allocates: the array of pointers of a request, then
the fields and the strings of its answer. `is_prime` and `is_not_prime` are asked for in one
block. The Arduino package, which the applications link, is the common sources unchanged
but for `TS_MEMORY_RESOURCE_SIZE`: 700 there, 512 in `libts`.

### `ServerMetrics`

Each action of the server with what it counts. `ReadNothing` is split: a datagram that is
malformed, cannot be decoded or is no message counts as a failure, an empty socket counts
nothing. A `GET TUPLE` whose search follows a freed pointer counts as received and no
more. What the sweep sends again is in no total.

### `TupleSpaceSerialization`

A value is the sequence of its bytes and a datagram a sequence of bytes, flags and
header included. A client's message is encoded, decoded by the server, answered, and the
answer decoded by a client that may run on another machine. A machine's byte order is
how `Memory` lays out a number. Datagrams that the library does not write are not
modelled.

### Undefined behaviour

Following a null pointer or one to a freed block stops the model in a fault, at the
step where the code first follows it. A block is handed out by `malloc` again only
when no list points to it, so a stale pointer is always noticed when followed rather
than hidden by reuse. `MemorySafe` says no fault is reached; the other properties are
about the states up to a fault.

`server_find_connection_node` compares a port with an IP address
(`server_active_connections.c:63`); the model does as written (`FoundAsWritten`).
Templates' arrays and the strings inside fields are not in the heap of the model.

## 3. Runs

| Run | Instance | Checks |
|---|---|---|
| `ShippedApps` | INP only, 2 clients, 3 blocks, 2 tuples, 2 templates, 3 pending, period 2, interval 2 | `MemorySafe`, `SoleOwner`, `NoReplyResent`, `TakenStaysTaken` |
| `AllRequests` | all four requests, 2 clients, 2 blocks, 2 tuples, 2 templates, 3 pending | `TypeOK`, `StandingMatch`, `MetricsAgree` |
| `ShortInterval` | all four requests, 2 clients, 2 blocks, period 3, interval 0, one resend, counters that wrap at 1; fair | `ResendBounded`, `LoopContinues` |
| `ReadTakesAway` | RD only, 2 clients, 2 blocks | `StashedTuplesLive`, which the code violates |
| `Linda` | 2 clients that both put and take, 2 operations each, 2 tuples, 4 blocks; timely, nothing lost, server may stop | `ImplementsLinda` |
| `ServerMayStop` | a master that puts and a worker that takes, 1 and 2 operations; timely, one datagram lost, server may stop; fair | `CallsReturn` |
| `LossyNetwork` | two ZSUT devices, 1 OUT on the one, 2 operations of OUT and INP on the other; timely, lossy | `SystemTypeOK`, `AnswersFit`, `NoDoubleDelivery`, `ImplementsLossySpace` |
| `LateNetwork` | one unix device, 2 operations, the second may be IN; delay and reordering without limit, strangers, sendings that fail or seem to | `NoDoubleDelivery`, `CopiesBounded` |
| `Bytes` | 655 messages around the limits of 256 bytes and 16 fields, two machines of either byte order | `ArrivesAsSent`, `SentIfItFits`, `AnswerIsSent` |
| `Applications` | master and two workers, numbers 2 to 4; a pin that rises and then falls, or a second that rises (words 0, 1, then 0 or 3); no fault; fair | `DirectionsBalance`, `PrintedRight`, `RoundEnds` |
| `ApplicationsLossy` | the same without changes of pins, one fault, 166 bytes | `MasterWorkerTypeOK`, `NoFalsePrime`, `MemoryFits` |
| `Metrics` | all four requests, 2 clients, 2 blocks, 1 tuple, 5 datagrams counted, 4 pending | `AnswersAccounted`, `TuplesAccounted` |

- `MemorySafe`: no step of the server follows a null or a freed pointer, when clients
  only use INP and OUT. The refusal of an INP is the delicate one: its connection
  holds a null pointer, and only the size 0 kept with it makes its acknowledgement
  harmless.
- `SoleOwner`: every tuple in memory belongs to exactly one of the stash, a
  connection and the handler, and none of them points to freed memory. Nothing is
  lost, leaked, or handed out twice by the server, also when a late acknowledgement
  hits a newer reply and when the sweep rejects replies.
- `NoReplyResent`, `TakenStaysTaken`: what the numbers in `server.c` amount to.
  `server_current_time_ms` is `tv_usec / 1000`, between 0 and 999, and the interval is
  1000: nothing ever becomes due, no reply is sent twice, and a tuple whose taker never
  answers does not return. The ratio is kept in the model (interval 2, period 2).
- `StandingMatch`: a queued template matches no tuple that lies in the stash. It holds
  while nothing is due; a rejected tuple is put back without a look at the queue.
- `MetricsAgree`: the gauges equal the lengths of the lists, also for the paths that
  redirect a tuple or queue a template.
- `ResendBounded`: `resend_counter` never exceeds `MAX_ACK_REPLIES`, were the interval
  ever reached.
- `LoopContinues`: `process_out` and the sweep end in `receive`, unless a fault stops
  the server.
- `ReadTakesAway` is a finding: RD answers with a pointer to the stashed tuple and the
  client's acknowledgement frees it (`server.c:113`). The protocol drawing says
  "Rm - remove from tuple space when returned" (`specs/client_to_server.drawio:727`),
  so a request without Rm should leave the tuple. TLC shows OUT, RD, ACK.

- `ImplementsLinda`: with a network that answers in time, what the applications see is a
  bag of tuples with atomic operations, although every exchange takes four to five
  datagrams and a refused INP is answered twice.
- `CallsReturn`: every operation returns, also when a datagram is lost or the server is
  interrupted in the middle of it. It needs the losses to end: the second answer of a
  refusal, AWAITING, raises the repeats left (`network.c:481`), so that an INP all of whose
  LACKs are lost and none of whose AWAITINGs is repeats for ever. The code names no limit
  that this would break.
- `AnswersFit`: the tuple an INP returns is one it asked for. Answers carry no
  identification, so this rests on the network being timely, and on the loop that
  acknowledges a reply swallowing the second answer of a refusal.
- `NoDoubleDelivery`: no copy of a tuple reaches two applications, or reaches one and stays
  in the space; also with loss, with arbitrary delay, and with the sender's address
  unknown. (A tuple whose reply is lost reaches nobody: that is how the code is, and
  `TakenStaysTaken` says so.)
- `ImplementsLossySpace`: whatever is lost, an operation returns only what the server did for
  it while it was under way. An OUT that reports success has put its tuple into the space,
  an INP returns a tuple only if it was taken for this INP, and "none" only if there was
  none at some moment since its call. It needs a timely network: the acknowledgement
  of an OUT and of an acknowledgement are the same byte, and a late one confirms the wrong
  request.
- `CopiesBounded`: an OUT leaves at most `max_number_of_repeats` copies of its tuple. It may
  leave more than one when acknowledgements are lost, as the code has no identification to
  tell a repetition from a second OUT; and when it is redirected to a waiting IN, for then
  it is never acknowledged at all. The log's "not saving" holds of the one sending.
- `ArrivesAsSent`, `SentIfItFits`, `AnswerIsSent`: encoding and decoding agree, between byte
  orders; a message is refused exactly when it does not fit; the server can send on every
  tuple it accepted.

- `DirectionsBalance`: without faults, changes counted, in the space and on their way add up to
  what happened at the pins: rises less falls are the number of workers with a pin up, but for
  the shifts. The comment of the report (`worker_node.ino:117-118`) defines `change = 0` as 0 -> 1
  and `change = 1` as 1 -> 0. With one pin that is what is sent. With more it is not: the routine
  compares whole words and passes the old one as a `bool`, so that a second pin that rises
  (0x1 -> 0x3) is told as 1 -> 0 and printed as such by the master. The model converts as the
  code does, `shifts` counts these changes, and the property says that they are all by which
  the counts are off. The run reaches a rise, a fall and a shift.
- `PrintedRight`: without faults the table the master prints is right for every number,
  although answers are counted and not numbers, and one may be taken while the call that put
  it has not returned.
- `RoundEnds`: without faults every round ends. With a fault it may not: a lost answer is
  never asked for again, and a duplicated one can carry the count past N - 1, for it is
  compared with `==` after up to two increments.
- `NoFalsePrime`: with faults, the table may lack a prime but never has one too many.
- `MemoryFits`: 166 bytes suffice on a 64-bit host, where pointers are largest (a device's
  are smaller); 166 is the least that do, so that the property is about the sum and
  not about a round number. A late answer to another application, which is decoded before it
  is dropped, would come on top; the block has 512 or 700.
- `AnswersAccounted`, `TuplesAccounted`: the totals of the metrics explain each other, the
  length of the queue and of the stash; no printed difference is negative. The second
  rests on nothing being due: the sweep's reject puts a tuple back that was counted as gone.

### Bounds and why they suffice

- `Block`: tuples in memory. Three let one tuple be stashed while another is with a
  connection and a third in the handler; every property relates at most two owners.
  An OUT is read only while a block is free. Blocks are interchangeable, hence the
  symmetry; no liveness is checked under symmetry.
- `MaxPending`: a GET is read only while fewer entries are connected or queued. RDP
  adds two at once and `process_out` one, so lists exceed it and three already give a
  client two connections at once, which is what misdirected acknowledgements need.
- `Client`: two addresses; the code distinguishes only "same" and "different".
- `Tuple`, `Template`: two tuples, a template for one of them and one for both, so that
  a search can skip an entry, and match a later one.
- `ClockPeriod`, `ResendInterval`: the ratio decides. 2 and 2 stand for 1000 and 1000;
  3 and 0 let a connection be due after one tick and not due after the wrap.
- `MaxCalls`: two operations per client are one that leaves something behind and one that
  meets it: the hazards are about an answer, a copy or an acknowledgement of one
  operation in the next. In the runs with loss the device that only puts gets one.
- `MaxRepeats` 2 instead of 5: a first sending and a repetition; both ends of the loop
  condition are reached.
- `AckAwaitTime` 1: only zero and not zero matter, as windows end at any time.
- In the composed system the clock stands still at period 1 and interval 0, the smallest
  numbers with the shipped ratio.
- `MasterWorker`: 2, 3 and 4 are two primes, one of which is a square's root, and that square;
  two workers can answer in either order and hold tasks of two rounds. One fault is a
  duplicated task, a duplicated answer, a lost one, or a failed sending. `MaxPuts` 2, and
  `MaxTakes` 2 for every client, let an operation be served twice.
- `Metrics`: five datagrams queue a template, redirect a tuple to it and still read, take or
  refuse.
- `Bytes` uses the code's own sizes; strings have the lengths around those that fill the
  buffer in each of the three kinds of message that carry a tuple.
- The runs of the composed system and of the bytes may stop, when the clients have
  made their calls, hence `CHECK_DEADLOCK FALSE`.
- `MaxResend` 1 instead of 5, `CounterMax` small: both ends of the comparison and of the
  wrap are reached.

### Fairness

`FairSpec` has weak fairness of `server_process_out` and of the sweep, for the only
thread keeps running: neither blocks, as the socket does not. Nothing is assumed of
reading messages, of clients or of time.

`FairSystemSpec` has weak fairness of the server's work, of each client's steps and of the
end of each client's windows. All three are threads that poll a socket that does not
block, and a clock that goes on; a datagram in the buffer is read by one of the next
polls. It also makes an idle application call, which `CallsReturn` does not need, and it
assumes nothing of loss or of the stop.

`FairMasterWorkerSpec` has weak fairness of each device's steps and of the space's work for
each of its operations: the loops go on, and operations return (`CallsReturn`). Nothing is
assumed of the pins.

## 4. Theorems

Proved for every set of clients, blocks, tuples and templates and for all numbers,
from the assumptions stated in `TupleSpaceProtocol`, `TupleSpaceServer`, `TupleSpaceClient` and
`LossySpace` (messages are well formed, the programs are sequences of operations, `NULL` is none
of them, the numbers are naturals and the clock period is positive; `NoneAssumption` of
`LossySystem` repeats the third for the operations of the instance), and for the applications
those of `MasterWorker` (the master is no worker, the workers are finitely many, the tuples are
those the two applications use, their names differ, a word of pins has 16 bits). The theorems about bytes rest on
`SerializationAssumption` (the buffer holds a header, a tuple has at most 16 fields, as many as the four
bits for their number can say) and on `RequestsAssumption`: requests are those the client library's
own guards let through (`ts_out`, `ts_inp` and the others of `client_api.c`).

| Theorem | Condition | States |
|---|---|---|
| `TypeCorrect` | | `Spec => []TypeOK` |
| `NoResend` | `QuietRatio` | `Spec => []NoReplyResent` |
| `GaugesAgree` | `QuietRatio` | `Spec /\ []Countable => []MetricsAgree` |
| `NoClientLeftWaiting` | `QuietRatio` | `Spec => []StandingMatch` |
| `InpKeepsOneOwner` | `OnlyInp` | `Spec => []SoleOwner` |
| `InpIsMemorySafe` | `OnlyInp`, `QuietRatio` | `Spec => []MemorySafe` |
| `TakenNeverReturns` | `OnlyInp`, `QuietRatio` | `Spec => TakenStaysTaken` |
| `SystemRunsServer` | | `SystemSpec => Spec` |
| `SystemKeepsOneOwner` | `OnlyInp` | `SystemSpec => []SoleOwner` |
| `SystemIsMemorySafe` | `OnlyInp`, `QuietRatio` | `SystemSpec => []MemorySafe` |
| `ResendsBounded` | | `Spec => []ResendBounded` |
| `SystemTypeCorrect` | | `SystemSpec => []SystemTypeOK` |
| `OutLeavesFewCopies` | `MaxRepeats > 0` | `SystemSpec => []CopiesBounded` |
| `NoTupleDeliveredTwice` | `OnlyTakes`, `QuietRatio` | `SystemSpec => []NoDoubleDelivery` |
| `InpReturnsWhatItAsked` | `OneAtATime`, `OnlyInp`, `QuietRatio` | `SystemSpec => []AnswersFit` |
| `ImplementsLossy` | the same, `MaxRepeats > 0` | `LossySpec => ImplementsLossySpace` |
| `SystemIsLindaSpace` | `OneAtATime`, `OnlyInp`, `QuietRatio`, `NothingLost` | `SystemSpec => ImplementsLinda` |
| `TotalsExplainEachOther` | | `MetricsSpec => []AnswersAccounted` |
| `EveryTupleAccounted` | `QuietRatio` | `MetricsSpec => []TuplesAccounted` |
| `TrialDivision` | | `FoundPrime(v) <=> IsPrime(v)` for every natural `v` |
| `ApplicationsTypeCorrect` | | `MasterWorkerSpec => []MasterWorkerTypeOK` |
| `NoNumberFalselyPrime` | | `MasterWorkerSpec => []NoFalsePrime` |
| `BlocksSuffice` | `RoomEnough` | `MasterWorkerSpec => []MemoryFits` |
| `ChangesBalance` | | `MasterWorkerSpec => []DirectionsBalance` |
| `OnePinBalance` | `OnePin` | the same without the shifts: rises less falls are the pins up |
| `PrintsRight` | | `MasterWorkerSpec => PrintedRight` |
| `MessagesArriveAsSent` | `ShortStrings` | `SerializationSpec => []ArrivesAsSent` |
| `MessagesAreSentIfTheyFit` | `ShortStrings` | `SerializationSpec => []SentIfItFits` |
| `AnswersAreSent` | `ShortStrings` | `SerializationSpec => []AnswerIsSent` |

`QuietRatio` is `ResendInterval >= ClockPeriod - 1`, which 1000 and 1000 satisfy;
`OnlyInp` is `Requests \subseteq {"inp"}`, which the applications satisfy; `OnlyTakes` also
allows IN, and excludes the requests that leave the tuple where it is; `Countable`
says the lists are no longer than a `size_t` can count. `MaxRepeats > 0` excludes the loop that
repeats for ever, which `max_number_of_repeats` 0 selects and which promises no bound.
`OneAtATime` is `Timely /\ ~Strangers /\ ~SendMayFail /\ AckAwaitTime > 0`: an answer comes within
the window or not at all, nobody else answers, what is reported as not sent was not sent, and
the client does wait. Each is needed, because datagrams carry no identification: without it an
answer can meet another request, and `LateNetwork` does not claim what these theorems say.
In the first two of them any number of datagrams may be lost, the server may stop, and whether the
device knows the sender's address is left open. `NothingLost` is `MaxLost = 0 /\ CanReceiveIp`:
no datagram is lost, and the device reports the sender, as the unix one does. Without the
first an OUT whose acknowledgement is lost is served again; without the second the client may
itself drop the acknowledgement, as the address it compares was never written, with the same
effect. The server may still stop at any moment. The `Linda` run satisfies all four conditions.
`ShortStrings`: no string of a request has 65536 characters or more. `strlen` goes into 16 bits
before it is compared with the room left, so that a string of 65536 passes as empty; without the
condition all three statements are false.
`OnePin` says that a worker reads 0 and at most one other word, as with one pin; then no change is a shift. Without
it `ChangesBalance` is all that can be said, and the `Applications` run, which reads 0x1 and then 0x3,
is outside it.
`RoomEnough` says of each routine that its requests and the answers it may get fit the block
together; the `Applications` runs have the least block that satisfies it on a 64-bit host,
166 bytes, and the code's have 512 and 700.

The arguments:

- `TypeOK` is inductive as it stands. It carries one fact beyond types: a connection
  that asks for its tuple to be put back holds one.
- `NothingDue`: under `QuietRatio` both times are below the period, so no connection is
  due, and three of the sweep's actions never happen. `ConnectionSteps` then says of
  every step what it does to the connections, and `NoReplyResent` follows with the
  invariant that every connection has counter 0.
- `StashSteps`, `QueueSteps`, `HeapSteps` say what a step does to each list, its gauge
  and the heap; `MetricsAgree` and `StandingMatch` are inductive given `TypeOK` and these.
- `SoleOwner` speaks of positions; the inductive invariant `Ownership` says the same of
  pointers (`Points`, `Distinct` in `DataLemmas`): the pointers in each list are distinct,
  stash, connections and handler share none, and a block is in use exactly when one of
  them points to it. Together with an empty queue, which keeps `process_out` from
  redirecting, it is preserved by each action: take moves a pointer, refuse adds a null
  one, read adds a fresh block, an acknowledgement drops a pointer with its block,
  save and reject move one to the stash.
- `MemorySafe` adds that a connection with a null pointer has size 0.

- `SystemRunsServer`: each step of the composed system is a step of the open server or
  leaves its variables alone, so every theorem about the server holds of it, for any
  number of clients, any programs and any network.
- `TotalsExplainEachOther`: what each step adds to the totals, and what it does to the length
  of the queue, satisfies the same linear equations as the totals themselves (`Balanced`); the
  equations add up. The only step that breaks them is a search that follows a freed pointer,
  which is a fault. It needs no ratio of interval and clock, for the sweep counts nothing.
- `NoNumberFalselyPrime` holds because no tuple lies (`Honest`: a tuple named "is_prime"
  carries a prime), wherever it is: in the space, in a call, served, or answered. A number
  a worker reports is the one it was given, so the invariant also says that what is served and
  answered at a place has the name asked for there (`ClientFits`), which is how a payload is
  known to be a number. Limits on servings and faults play no part. What a worker finds is
  prime by `TrialDivision`, whose core is `a * a <= a * b`.
- `ResendBounded`: a connection is due only while its counter is below the maximum, at the
  moment the sweep compares; the cursor and the connections do not change in between.
- `SystemTypeOK` needs one fact beyond types about the datagrams: what is under way to a client
  or to the server is a message of the protocol, as is what the last step sent.
- `CopiesBounded`: a copy of `t` may still come from a sending the client's loop has left, from a
  `SEND TUPLE` under way, or from the tuple `process_out` is placing. These and `saved[t]` together
  never exceed `MaxRepeats * asked[t]` (`Accounted`): a sending moves one from the first to the
  second, reading it to the third, placing it to `saved`; only the call adds, and it adds
  `MaxRepeats`. The sum over clients is that of `DataLemmas`. No network can break this, as
  none invents a request.
- `NoDoubleDelivery`: what was returned, what lies in the stash, what is on its way in a reply and what a
  client that acknowledges holds are together at most `saved[t]` (`Conserved`), and every step moves
  a copy from one to another or drops it: `process_inp` sends what it unlinks, `process_out` does
  not link what it redirects, a client returns a reply once. With RD or RDP the first would
  fail; with a connection that is due the sweep would link again what was sent. `QueueRemoves` says
  that what waits in the queue takes.
- `AnswersFit` and `ImplementsLossySpace` rest on the same invariant, `Exchanges`: of each client at
  most one datagram of an exchange is under way, in one direction or the other (`OneExchange`), it
  is the request the client waits on or an answer to it, and a tuple in the context or in a
  reply suits the request (`ContextFits`). Only the AWAITING of a refusal stands outside, since it
  answers nothing. A server step takes that datagram and puts at most its answer in its place
  (`ServerActs`: it accepts, saves, hands out, refuses, confirms or rests), which needs
  `ServerFacts`: the sizes recorded with pointers are right, so that a search finds what matches,
  and no fault has happened.
- `ImplementsLossySpace` adds the history: an answer under way or in the context stands in `served`
  or `refused` (`HistoryKnows`), and how often the operation was served, with the sending that is
  under way and the sendings the loop has left, is within the limit (`Bounded`). For an INP the
  AWAITINGs under way count as well, as each may add a sending, and those that wait unread are at
  most one for each call that has ended (`WaitsBounded`). Then the initial states map to the initial
  state (`MapsInit`), and a step maps to one step: placing a tuple to `Puts`, handing one out to
  `Takes`, a refusal to `FindsNone`, for as the search stops at the first that matches, none of the
  stash does; the end of an operation to `Returns`, the call to `Asks` or `IsRefused`; the rest stutters.
- `ImplementsLinda` needs, besides `Exchanges`, that nobody is forgotten (`NobodyForgotten`): as long
  as the server runs, a client in its window has its request or its answer under way, or the
  server is placing its tuple. Hence a timely window ends unanswered only when the server has
  stopped: no request is sent a second time before, and a well-formed operation fails only then
  (`WindowAnswers`). By `Exchanges` at most one answer is under way, so that the one the mapping
  chooses is the answer (`AwaitedAnswer`), and what INP makes of it is what it says, as a tuple
  that suits the template begins with the connection id that in_impl compares
  (`SuitableBegins`, `OutcomeIsAnswer`). The step that puts the answer under way is the atomic one:
  `Puts`, `Takes` or `FindsNone`; from there on it changes its place, the net, the context, the
  result, and not its value (`AnswerStays`, `OutcomeStays`).
- `TuplesAccounted` joins the linear equations of the totals with how each step changes the
  length of the stash; under `QuietRatio` the two steps that put a rejected tuple back are gone.
- `MasterWorkerTypeOK`: inductive together with what a device at a place has asked for
  (`Exchange`).
- `MemoryFits`: the pointer of a device is at most what the routine up to its place
  allocates (`Footing`). The reset at the end of a routine brings it back to 0.
- `DirectionsBalance`: as long as no fault happened, a call is served once (`Exact`) and a tuple is
  carried by the space or by one call. A balance per kind of tuple (`Balanced`) follows: the
  changes at the pins are those counted, those in the space and those calls hold. A rise is a call
  with `Message2(0)` and one worker more with a pin up, a fall one with `Message2(1)` and one
  worker less, a shift one with `Message2(1)` and one more of `shifts` (`UpChanges`). For
  `OnePinBalance`, no word a worker may still read is a shift (`NoShift`), so that `shifts` stays 0.
- `PrintedRight`: while there is no fault, a number the master has asked for in this round and
  whose answer it has not had is carried exactly once, as the task or as its answer, and one it has not
  asked for is not carried at all (`TableRight`). The count is then that of the numbers answered,
  N - 1 of them are all, and the table has a 1 exactly at the primes among them. That the answer
  of each is right needs `TrialDivision` in both directions and the invariant `Honest` above.

- `ArrivesAsSent`, `SentIfItFits`, `AnswerIsSent`: `Image` says once what the bytes of a field are and
  `SizeOf` how many a tuple has. One induction shows that the writing loop, as long as the tuple fits,
  leaves the images one after the other and nothing else (`TupleIsWritten`), and refuses otherwise;
  another that the reading loop finds the fields in bytes laid out so (`TupleIsRead`), whatever
  unused bits the writer left and whatever the two machines' byte orders, as reversing twice is
  nothing (`WireOrder`). The loops are recursive functions (`Written`, `Decoding`), not `RECURSIVE` operators, and the
  induction principle is stated of sets of naturals (`UpwardInduction`), which first-order provers
  can use. `SerializationInv` adds that the datagram under way is one such encoding of the message.

Only model-checked: `LoopContinues`, `CallsReturn` and `RoundEnds`, because liveness is out of
the prover's reach. Every other property of the passing runs is a theorem, for the conditions in
the table. `ReadTakesAway` refutes what it is about.

## 5. Not modelled, and why

See `components` in `PROJECT.json`. What is printed, metrics, tuples and the applications'
remarks, is output; of the metrics the two accumulated lengths are left out as well. Of the
devices only what they do to datagrams is modelled; `src/libts/zsut_vm` never sets
`clock_cb` and its Arduino copy assigns a member that does not exist, so that a client
needs the unix device or a corrected one. The Arduino package repeats the common sources:
it is mapped only where the applications use it. Replies and requests that cannot be
decoded are counted but not carried as bytes; the 16 bits of a string's length beyond what a
buffer holds are left out.

RD and RDP are in the server's and in the client's modules, and the server's runs use
them; the runs of the composed system use OUT and INP, as the applications do, and IN where
the network is at its worst. The acknowledgement of a redirected reply then follows a null
or a freed pointer, as in `AllRequests`: a fault in which those behaviours end. No line of
the repository says otherwise, so it is described here and not stated as a violation.

Waiting templates are served latest first, so that a client may wait for ever while others
are served; no property is stated for or against it.

## 6. Plan

Done: the server, its proofs, its totals; the client, the composed system and what it promises
with and without loss, proved; the serialization and its proofs; the allocator and the applications.

1. The clock of the loops at 32 bits: that a client waits its window except near the wrap.
2. Decoding of datagrams the library does not write, and what a failed decoding frees.
