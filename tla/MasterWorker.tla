---------------------------- MODULE MasterWorker ----------------------------
(***************************************************************************)
(* The applications (src/master_node.ino, src/worker_node*.ino) over a     *)
(* tuple space that may lose datagrams.                                    *)
(*                                                                         *)
(* Application 1: the master puts the numbers 2 .. N, the workers take     *)
(* them and put "is_prime" or "is_not_prime", the master collects N - 1    *)
(* answers, prints and starts again.  Application 2: a worker puts a tuple *)
(* when its pins change and the master counts by direction.  Each device   *)
(* is one thread that runs the two in turn; an action is all it does       *)
(* between two operations on the space.                                    *)
(*                                                                         *)
(* The space is LossySpace: faults counts the servings that repeat one and *)
(* the operations that fail.  Without a fault the space is exact.          *)
(***************************************************************************)
EXTENDS LossySpace, BlockMemory

CONSTANTS
  Master, Worker,   \* the devices: an address, a set of addresses
  N,                \* kApplication1N
  check_if_prime, is_prime, is_not_prime, direction_changed,   \* names of tuples
  PinWords,         \* bound: what each change of a worker's pins may be read as
  MaxFaults         \* bound: how many faults the network has

ASSUME ApplicationsAssumption ==
  /\ Master \notin Worker /\ IsFiniteSet(Worker)
  /\ Client = Worker \cup {Master}
  /\ N \in Nat /\ N >= 2
  /\ MaxFaults \in Nat

\* What ZsutDigitalRead returns: a bit for each pin.
Word == 0 .. 2^16 - 1

ASSUME PinsAssumption == PinWords \in [Worker -> Seq(SUBSET Word)]

VARIABLES
  device_pc,               \* Client -> the operation its thread called last
  app_state,               \* the master's statics: kSendRequest or kAquireResponse
  next,                    \* the next number to ask for
  workers_responses,       \* number -> what was answered, 0 being "not prime"
  workers_responds_clock,  \* answers received
  first_counter, second_counter,
  status,                  \* Worker -> the word its pins were last read as
  pointer,                 \* Client -> the memory resource's pointer
  changes,                 \* Worker -> changes of its pins so far
  shifts,                  \* history: changes from pins that are up to other pins
  faults                   \* faults so far

masterVars == <<app_state, next, workers_responses, workers_responds_clock>>
counterVars == <<first_counter, second_counter>>
pinVars == <<status, changes, shifts>>
appVars == <<device_pc, masterVars, counterVars, pinVars, pointer>>
allVars == <<lossyVars, appVars, faults>>

Numbers == 2 .. N

-----------------------------------------------------------------------------
(***************************************************************************)
(* The tuples: the connection's id, a name and a value.                    *)
(***************************************************************************)
Uint(v, hasData) == [type |-> "uint", hasData |-> hasData, value |-> v]
Bool(v, hasData) == [type |-> "bool", hasData |-> hasData, value |-> v]
Name(v)          == [type |-> "string", hasData |-> TRUE, value |-> v]

Message1(name, v) == <<Uint(1, TRUE), Name(name), Uint(v, TRUE)>>
Any1(name)        == <<Uint(1, TRUE), Name(name), Uint(0, FALSE)>>
Message2(v)       == <<Uint(2, TRUE), Name(direction_changed), Bool(v, TRUE)>>
Any2              == <<Uint(2, TRUE), Name(direction_changed), Bool(0, FALSE)>>

AppTuple ==
       {Message1(name, v) : name \in {check_if_prime, is_prime, is_not_prime}, v \in Numbers}
  \cup {Message2(v) : v \in {0, 1}}

AppTemplate == {Any1(name) : name \in {check_if_prime, is_prime, is_not_prime}} \cup {Any2}

\* The devices have the space to themselves, and the four names differ.
ASSUME TuplesAssumption ==
  /\ Tuple = AppTuple /\ Template = AppTemplate
  /\ is_prime \notin {check_if_prime, is_not_prime, direction_changed}
  /\ direction_changed \notin {check_if_prime, is_not_prime}
  /\ check_if_prime # is_not_prime

\* What the loop of is_prime finds, and as if it compared i * i < value.
FoundPrime_NoSquares(value) == \A d \in 2 .. value : d * d < value => value % d # 0

FoundPrime(value) == \A d \in 2 .. value : d * d <= value => value % d # 0

NoResponses == [n \in Numbers |-> 0]

\* The first turn of a loop starts as after one that found nothing.
MasterWorkerInit ==
  /\ LossyInit
  /\ device_pc = [c \in Client |-> IF c = Master THEN "direction" ELSE "state"]
  /\ app_state = "kSendRequest" /\ next = 2
  /\ workers_responses = NoResponses /\ workers_responds_clock = 0
  /\ first_counter = 0 /\ second_counter = 0
  /\ status = [w \in Worker |-> 0]
  /\ changes = [w \in Worker |-> 0] /\ shifts = 0
  /\ pointer = [c \in Client |-> 0]
  /\ faults = 0

-----------------------------------------------------------------------------
(***************************************************************************)
(* Steps of a device's thread.  device_pc is the operation it called last; *)
(* the step is taken when that has returned, and answer is what it         *)
(* returned.                                                               *)
(***************************************************************************)
After(c, place) == device_pc[c] = place /\ call[c] = NULL

\* The operation allocates its request; what is in use before it stays.
Calls(c, place, op, used) ==
  /\ Asks(c, op)
  /\ device_pc' = [device_pc EXCEPT ![c] = place]
  /\ pointer' = [pointer EXCEPT ![c] = allocation_cb(used, SpanBytes(op.tuple))]

\* An INP returned a tuple; it lies behind its request in the block.
Got(c) == answer[c].tuple # NULL

Used(c) == IF Got(c) THEN allocation_cb(pointer[c], TupleBytes(answer[c].tuple)) ELSE pointer[c]

Payload(c) == answer[c].tuple[3].value

\* kSendRequest, when the number is past the last, and as if it were one later
\* or one earlier.
AllAsked_OneTooMany(number) == number > N + 1
AllAsked_OneTooFew(number) == number >= N

AllAsked(number) == number > N

SendRequest ==
  /\ app_state = "kSendRequest"
  /\ Calls(Master, "request", OutOf(Message1(check_if_prime, next)), FreeBlock(pointer[Master]))
  /\ IF AllAsked(next + 1)
     THEN app_state' = "kAquireResponse" /\ next' = 2
     ELSE next' = next + 1 /\ UNCHANGED app_state

AquireResponse ==
  /\ app_state = "kAquireResponse"
  /\ Calls(Master, "prime", InpOf(Any1(is_prime)), FreeBlock(pointer[Master]))
  /\ UNCHANGED <<app_state, next>>

\* The end of application_two_routine, which counts, and the next turn of the loop.
CountDirection ==
  /\ After(Master, "direction")
  /\ first_counter'  = first_counter + (IF Got(Master) /\ Payload(Master) = 0 THEN 1 ELSE 0)
  /\ second_counter' = second_counter + (IF Got(Master) /\ Payload(Master) # 0 THEN 1 ELSE 0)
  /\ SendRequest \/ AquireResponse
  /\ UNCHANGED <<workers_responses, workers_responds_clock, pinVars>>

\* An answer is noted for its number; answers are counted, not numbers.
Recorded(value) ==
  IF Got(Master) THEN [workers_responses EXCEPT ![Payload(Master)] = value]
  ELSE workers_responses

Counted == workers_responds_clock + (IF Got(Master) THEN 1 ELSE 0)

PrimeResponse ==
  /\ After(Master, "prime")
  /\ workers_responses' = Recorded(1)
  /\ workers_responds_clock' = Counted
  /\ Calls(Master, "not_prime", InpOf(Any1(is_not_prime)), Used(Master))
  /\ UNCHANGED <<app_state, next, counterVars, pinVars>>

\* application_two_get_tuple, in a block of its own.
AquireDirection == Calls(Master, "direction", InpOf(Any2), FreeBlock(pointer[Master]))

\* workers_responds_clock == sizeof(workers_responses), and as if one answer less
\* were enough.
AllAnswered_OneTooFew(count) == count = N - 2

AllAnswered(count) == count = N - 1

Prints == After(Master, "not_prime") /\ AllAnswered(Counted)

NotPrimeResponse ==
  /\ After(Master, "not_prime")
  /\ IF AllAnswered(Counted)
     THEN /\ app_state' = "kSendRequest"
          /\ workers_responses' = NoResponses
          /\ workers_responds_clock' = 0
     ELSE /\ workers_responses' = Recorded(0)
          /\ workers_responds_clock' = Counted
          /\ UNCHANGED app_state
  /\ AquireDirection
  /\ UNCHANGED <<next, counterVars, pinVars>>

RequestSent ==
  /\ After(Master, "request")
  /\ AquireDirection
  /\ UNCHANGED <<masterVars, counterVars, pinVars>>

MasterSteps == CountDirection \/ PrimeResponse \/ NotPrimeResponse \/ RequestSent

GetTask(w) ==
  Calls(w, "task", InpOf(Any1(check_if_prime)), FreeBlock(pointer[w]))

SendResult(w) ==
  /\ After(w, "task") /\ Got(w)
  /\ LET value == Payload(w) IN
     Calls(w, "result",
           OutOf(Message1(IF FoundPrime(value) THEN is_prime ELSE is_not_prime, value)),
           Used(w))
  /\ UNCHANGED pinVars

\* A word of pins as the bool it is passed as: is any pin up?
ToBool(word) == IF word = 0 THEN 0 ELSE 1

\* What a change is told as: the word before it as a bool, and as if the new.
Direction_New(old, new) == ToBool(new)

Direction(old, new) == ToBool(old)

\* application_two_routine, when the word of the pins has changed; otherwise the
\* next turn of the loop asks for a task.
ReadPin(w) ==
  /\ After(w, "result") \/ (After(w, "task") /\ ~Got(w))
  /\ \/ /\ changes[w] < Len(PinWords[w])
        /\ \E new_status \in PinWords[w][changes[w] + 1] \ {status[w]} :
             /\ Calls(w, "state", OutOf(Message2(Direction(status[w], new_status))),
                      FreeBlock(pointer[w]))
             /\ status' = [status EXCEPT ![w] = new_status]
             /\ shifts' = shifts + ToBool(status[w]) * ToBool(new_status)
        /\ changes' = [changes EXCEPT ![w] = @ + 1]
     \/ GetTask(w) /\ UNCHANGED pinVars

StateSent(w) == After(w, "state") /\ GetTask(w) /\ UNCHANGED pinVars

WorkerSteps(w) ==
  (SendResult(w) \/ ReadPin(w) \/ StateSent(w)) /\ UNCHANGED <<masterVars, counterVars>>

-----------------------------------------------------------------------------
(***************************************************************************)
(* The space between two steps of a device.                                *)
(***************************************************************************)
FirstServing(c) == served[c] = <<>> /\ ~refused[c]

Operates(c) == FirstServing(c) /\ SpaceWorks(c) /\ UNCHANGED faults

Finishes(c) == Returns(c) /\ answer'[c] # Failed /\ UNCHANGED faults

\* A retry is served although an earlier sending was, or the client gives up.
Fault(c) ==
  /\ faults < MaxFaults /\ faults' = faults + 1
  /\ \/ ~FirstServing(c) /\ SpaceWorks(c)
     \/ Returns(c) /\ answer'[c] = Failed

DeviceSteps(c) ==
  /\ \/ c = Master /\ MasterSteps
     \/ c \in Worker /\ WorkerSteps(c)
  /\ UNCHANGED faults

SpaceSteps(c) == (Operates(c) \/ Finishes(c) \/ Fault(c)) /\ UNCHANGED appVars

MasterWorkerNext == \E c \in Client : DeviceSteps(c) \/ SpaceSteps(c)

MasterWorkerSpec == MasterWorkerInit /\ [][MasterWorkerNext]_allVars

\* Every device keeps running, and every operation returns.
FairMasterWorkerSpec ==
  /\ MasterWorkerSpec
  /\ \A c \in Client :
       /\ WF_allVars(DeviceSteps(c))
       /\ WF_allVars((Operates(c) \/ Finishes(c)) /\ UNCHANGED appVars)

-----------------------------------------------------------------------------
(***************************************************************************)
(* Properties.                                                             *)
(***************************************************************************)
IsPrime(v) == \A a, b \in 2 .. v : a * b # v

MasterWorkerTypeOK ==
  /\ LossyTypeOK
  /\ device_pc[Master] \in {"request", "prime", "not_prime", "direction"}
  /\ \A w \in Worker : device_pc[w] \in {"task", "result", "state"}
  /\ app_state \in {"kSendRequest", "kAquireResponse"}
  /\ next \in Numbers
  /\ workers_responses \in [Numbers -> {0, 1}]
  /\ workers_responds_clock \in Nat /\ first_counter \in Nat /\ second_counter \in Nat
  /\ status \in [Worker -> Word]
  /\ changes \in [Worker -> Nat] /\ shifts \in Nat
  /\ pointer \in [Client -> Nat] /\ faults \in Nat

\* A number is never noted as prime that is not, whatever the network loses or
\* repeats, and although the workers' answers of two rounds may mix.
NoFalsePrime == \A n \in Numbers : workers_responses[n] = 1 => IsPrime(n)

\* What the master prints is right for every number, as long as nothing went
\* wrong on the network: no number is printed before its answer came, and none
\* keeps what an earlier round noted.
PrintedRight ==
  [][Prints /\ faults = 0 => \A n \in Numbers : Recorded(0)[n] = 1 <=> IsPrime(n)]_allVars

\* No routine of a device asks its block of memory for more than there is.
MemoryFits ==
  \A c \in Client : (IF call[c] = NULL THEN Used(c) ELSE pointer[c]) <= MemorySize

\* Changes of direction reported and not counted: in the space, on their way into
\* it, or on their way to the master.
OnTheWay(v) ==
  LET t == Message2(v) IN
    space[t]
  + Cardinality({w \in Worker : call[w] = OutOf(t) /\ served[w] = <<>>})
  + Cardinality({k \in DOMAIN served[Master] : served[Master][k] = t})
  + (IF After(Master, "direction") /\ answer[Master] = Answer(t)
     THEN 1 ELSE 0)

\* Without faults no change is lost or counted twice: rises less falls are the
\* number of workers with a pin up, but for the shifts.  A shift, from one word that
\* is not 0 to another, is told and counted as a fall, 1 -> 0, even when a pin rose
\* (0x1 -> 0x3); the counts are those of the comment at worker_node.ino:117 only
\* where at most one pin is wired.
DirectionsBalance ==
  faults = 0 =>
    first_counter + OnTheWay(0) + shifts =
      second_counter + OnTheWay(1) + Cardinality({w \in Worker : status[w] # 0})

\* Without faults every round ends: the master comes to print its table.
RoundEnds ==
  app_state = "kAquireResponse" ~> app_state = "kSendRequest" \/ faults > 0
=============================================================================
