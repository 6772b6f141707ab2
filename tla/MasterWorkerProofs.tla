------------------------- MODULE MasterWorkerProofs -------------------------
(***************************************************************************)
(* The applications, for every number N, every set of workers and every    *)
(* number of faults of the network: no number is noted as prime that is    *)
(* not, and a block of memory of the right size is enough.  While the      *)
(* network makes no mistake, every number is somewhere in the round        *)
(* exactly once, so that what the master prints is right; and so is every  *)
(* change of a worker's pins, so that the counts balance.                  *)
(***************************************************************************)
EXTENDS MasterWorker, DataLemmas

USE ApplicationsAssumption DEF Numbers

-----------------------------------------------------------------------------
(***************************************************************************)
(* The loop of is_prime.                                                   *)
(***************************************************************************)
\* A number divides its multiples, and what it divides is a multiple.
LEMMA Divides == ASSUME NEW a \in Nat, NEW b \in Nat, a > 0 PROVE (a * b) % a = 0
BY SMTT(20)

LEMMA Quotient ==
  ASSUME NEW v \in Nat, NEW d \in Nat, d > 0, v % d = 0
  PROVE  \E q \in Nat : v = d * q
<1>1. v \div d \in Nat /\ v = d * (v \div d)
  BY SMTT(20)
<1> QED
  BY <1>1

LEMMA SquareOfSmaller == ASSUME NEW a \in Nat, NEW b \in Nat, a <= b PROVE a * a <= a * b
BY SMTT(20)

\* It is enough to try the divisors up to the square root (is_prime of
\* worker_node.ino): the loop lets a number pass exactly when it is prime.
THEOREM TrialDivision == ASSUME NEW v \in Nat PROVE FoundPrime(v) <=> IsPrime(v)
<1>1. ASSUME FoundPrime(v), NEW a \in 2 .. v, NEW b \in 2 .. v, a * b = v PROVE FALSE
  <2>1. ASSUME NEW c \in 2 .. v, NEW d \in 2 .. v, c * d = v, c <= d PROVE FALSE
    <3>1. c * c <= v
      BY <2>1, SquareOfSmaller
    <3>2. c \in Nat /\ d \in Nat /\ c > 0
      OBVIOUS
    <3>3. (c * d) % c = 0
      BY <3>2, Divides
    <3>4. v % c = 0
      BY <2>1, <3>3
    <3> QED
      BY <3>1, <3>4, <1>1 DEF FoundPrime
  <2>2. a <= b \/ (b <= a /\ b * a = v)
    BY <1>1
  <2> QED
    BY <2>1, <2>2, <1>1
<1>2. ASSUME IsPrime(v), NEW d \in 2 .. v, d * d <= v, v % d = 0 PROVE FALSE
  <2>1. d \in Nat /\ d > 0
    OBVIOUS
  <2>2. PICK q \in Nat : v = d * q
    BY <1>2, <2>1, Quotient
  <2>3. q >= d
    <3> SUFFICES ASSUME q < d PROVE FALSE
      BY <2>1, <2>2
    <3>1. q + 1 <= d /\ q + 1 \in Nat
      BY <2>1, <2>2
    <3>2. d * q < d * d
      BY <2>1, <2>2, <3>1, SMTT(20)
    <3> QED
      BY <1>2, <2>1, <2>2, <3>2
  <2>4. q <= v
    BY <2>1, <2>2, SMTT(20)
  <2>5. q \in 2 .. v
    BY <2>1, <2>2, <2>3, <2>4
  <2> QED
    BY <1>2, <2>2, <2>5 DEF IsPrime
<1> QED
  BY <1>1, <1>2 DEF FoundPrime, IsPrime

-----------------------------------------------------------------------------
(***************************************************************************)
(* The first inductive invariant: no tuple lies, wherever it is; and where *)
(* a device stands says what it asked for, and so what it may get.         *)
(***************************************************************************)
MasterPlace == {"request", "prime", "not_prime", "direction"}
WorkerPlace == {"task", "result", "state"}
Place       == MasterPlace \cup WorkerPlace

PlacesOf(c) == IF c = Master THEN MasterPlace ELSE WorkerPlace

Statics ==
  /\ app_state \in {"kSendRequest", "kAquireResponse"}
  /\ next \in Numbers
  /\ workers_responses \in [Numbers -> {0, 1}]
  /\ workers_responds_clock \in Nat
  /\ first_counter \in Nat /\ second_counter \in Nat
  /\ status \in [Worker -> Word]
  /\ changes \in [Worker -> Nat] /\ shifts \in Nat
  /\ faults \in Nat

Places ==
  /\ device_pc \in [Client -> Place] /\ \A c \in Client : device_pc[c] \in PlacesOf(c)
  /\ pointer \in [Client -> Nat]

Typed == LossyTypeOK /\ Places /\ Statics

\* Where a device asks for a tuple, and the name of the tuple.
Asking == {"prime", "not_prime", "direction", "task"}

NameAt(place) ==
  IF place = "prime" THEN is_prime
  ELSE IF place = "not_prime" THEN is_not_prime
  ELSE IF place = "direction" THEN direction_changed
  ELSE check_if_prime

WantedAt(place) == IF place = "direction" THEN Any2 ELSE Any1(NameAt(place))

\* The names of the tuples a device takes or puts at a place: it reports its pin
\* from one place only.
FitsName(place, name) ==
  IF place \in Asking THEN name = NameAt(place) ELSE name = direction_changed => place = "state"

FitsPlace(place, op) ==
  IF place \in Asking THEN op = InpOf(WantedAt(place))
  ELSE op.kind = "out" /\ FitsName(place, op.tuple[2].value)

Honest(t) ==
  /\ t[2].value = is_prime => IsPrime(t[3].value)
  /\ t[2].value = is_not_prime => ~IsPrime(t[3].value)

SpaceHonest == \A t \in Tuple : space[t] > 0 => Honest(t)

\* What a client puts, was served, and was answered.
ClientHonest(c) ==
  /\ Doing(c, "out") => Honest(call[c].tuple)
  /\ \A i \in DOMAIN served[c] : Honest(served[c][i])
  /\ answer[c].tuple # NULL => Honest(answer[c].tuple)

ClientFits(c) ==
  /\ call[c] = NULL => served[c] = <<>> /\ ~refused[c]
  /\ call[c] # NULL => FitsPlace(device_pc[c], call[c]) /\ answer[c].tuple = NULL
  /\ \A i \in DOMAIN served[c] : FitsName(device_pc[c], served[c][i][2].value)
  /\ answer[c].tuple # NULL =>
       device_pc[c] \in Asking /\ FitsName(device_pc[c], answer[c].tuple[2].value)

Exchange == SpaceHonest /\ \A c \in Client : ClientHonest(c) /\ ClientFits(c)

HonestApplications == Typed /\ Exchange /\ NoFalsePrime

-----------------------------------------------------------------------------
(***************************************************************************)
(* Tuples and operations.                                                  *)
(***************************************************************************)
LEMMA TupleForms ==
  ASSUME NEW t \in Tuple
  PROVE  \/ \E name \in {check_if_prime, is_prime, is_not_prime}, v \in Numbers :
              t = Message1(name, v)
         \/ \E v \in {0, 1} : t = Message2(v)
BY TuplesAssumption DEF AppTuple

LEMMA MessageFields ==
  ASSUME NEW name, NEW v
  PROVE  /\ Message1(name, v)[2].value = name /\ Message1(name, v)[3].value = v
         /\ Message2(v)[2].value = direction_changed /\ Message2(v)[3].value = v
BY DEF Message1, Message2, Name, Uint, Bool

LEMMA NamesDiffer ==
  /\ is_prime # check_if_prime /\ is_prime # is_not_prime /\ is_prime # direction_changed
  /\ direction_changed # check_if_prime /\ direction_changed # is_not_prime
  /\ check_if_prime # is_not_prime
BY TuplesAssumption

\* A tuple is known by its name and its value.
LEMMA ByName ==
  ASSUME NEW t \in Tuple
  PROVE  /\ \A name \in {check_if_prime, is_prime, is_not_prime} :
              t[2].value = name => t[3].value \in Numbers /\ t = Message1(name, t[3].value)
         /\ t[2].value = direction_changed => t[3].value \in {0, 1} /\ t = Message2(t[3].value)
         /\ t # NULL
<1>1. t # NULL
  BY NothingAssumption
<1>2. CASE \E name \in {check_if_prime, is_prime, is_not_prime}, v \in Numbers :
             t = Message1(name, v)
  BY <1>1, <1>2, MessageFields, NamesDiffer
<1>3. CASE \E v \in {0, 1} : t = Message2(v)
  BY <1>1, <1>3, MessageFields, NamesDiffer
<1> QED
  BY <1>2, <1>3, TupleForms

LEMMA MessagesAreTuples ==
  /\ \A name \in {check_if_prime, is_prime, is_not_prime}, v \in Numbers :
       Message1(name, v) \in Tuple
  /\ \A v \in {0, 1} : Message2(v) \in Tuple
BY TuplesAssumption DEF AppTuple

\* A tuple that matches has the name asked for.
LEMMA MatchesName ==
  ASSUME NEW place \in Asking, NEW t, ts_is_matching_tuple(WantedAt(place), t)
  PROVE  FitsName(place, t[2].value)
<1>1. 2 \in DOMAIN WantedAt(place) /\ WantedAt(place)[2] = Name(NameAt(place))
  BY DEF WantedAt, Any1, Any2, NameAt
<1> QED
  BY <1>1 DEF ts_is_matching_tuple, ts_compare_tuple_fields, Name, FitsName

LEMMA OperationForms ==
  /\ \A place \in Asking : InpOf(WantedAt(place)) \in Operations
  /\ \A t \in Tuple : OutOf(t) \in Operations
<1>1. \A place \in Asking : WantedAt(place) \in AppTemplate
  BY DEF Asking, WantedAt, NameAt, AppTemplate
<1> QED
  BY <1>1, TuplesAssumption DEF Operations

LEMMA OperationFields ==
  /\ \A op \in Operations :
       \/ op.kind = "out" /\ op.tuple \in Tuple /\ op = OutOf(op.tuple)
       \/ op.kind = "inp" /\ op.tuple \in Template /\ op = InpOf(op.tuple)
  /\ \A t : OutOf(t).kind = "out" /\ OutOf(t).tuple = t
  /\ \A t : InpOf(t).kind = "inp" /\ InpOf(t).tuple = t
  /\ NULL \notin Operations
BY NothingAssumption DEF Operations, OutOf, InpOf

LEMMA AnswerForms ==
  ASSUME LossyTypeOK, NEW c \in Client, answer[c].tuple # NULL
  PROVE  answer[c].tuple \in Tuple /\ answer[c] = Answer(answer[c].tuple)
BY DEF LossyTypeOK, Pending, Failed, Answer

-----------------------------------------------------------------------------
(***************************************************************************)
(* What a step does to the exchange between one device and the space.      *)
(***************************************************************************)
\* A device that asks honestly, and for what its place says.
LEMMA AskStep ==
  ASSUME LossyTypeOK, Places, Exchange, NEW c \in Client, NEW place \in PlacesOf(c),
         NEW op \in Operations, NEW used \in Nat, Calls(c, place, op, used),
         FitsPlace(place, op), op.kind = "out" => Honest(op.tuple)
  PROVE  LossyTypeOK' /\ Exchange'
<1>1. /\ call[c] = NULL
      /\ call' = [call EXCEPT ![c] = op]
      /\ answer' = [answer EXCEPT ![c] = Pending]
      /\ device_pc' = [device_pc EXCEPT ![c] = place]
      /\ UNCHANGED <<space, served, refused>>
  BY DEF Calls, Asks
<1>2. LossyTypeOK'
  BY <1>1 DEF LossyTypeOK
<1>3. SpaceHonest'
  BY <1>1 DEF Exchange, SpaceHonest, Honest, IsPrime
<1>4. ASSUME NEW d \in Client PROVE ClientHonest(d)' /\ ClientFits(d)'
  <2>1. CASE d = c
    <3>1. served[d] = <<>>
      BY <1>1, <2>1 DEF Exchange, ClientFits
    <3>2. /\ call'[d] = op /\ answer'[d].tuple = NULL /\ device_pc'[d] = place
          /\ served'[d] = <<>>
      BY <1>1, <2>1, <3>1 DEF LossyTypeOK, Places, Pending
    <3>3. Doing(d, "out")' => Honest(call'[d].tuple)
      BY <3>2 DEF Doing
    <3>4. ClientHonest(d)'
      BY <3>2, <3>3 DEF ClientHonest, Honest, IsPrime
    <3>5. call'[d] # NULL
      BY <3>2, OperationFields
    <3>6. ClientFits(d)'
      BY <3>2, <3>5 DEF ClientFits, FitsPlace, FitsName
    <3> QED
      BY <3>4, <3>6
  <2>2. CASE d # c
    <3>1. /\ call'[d] = call[d] /\ answer'[d] = answer[d] /\ device_pc'[d] = device_pc[d]
          /\ served'[d] = served[d] /\ refused'[d] = refused[d]
      BY <1>1, <2>2 DEF LossyTypeOK, Places
    <3>2. ClientHonest(d) /\ ClientFits(d)
      BY DEF Exchange
    <3> QED
      BY <3>1, <3>2 DEF ClientHonest, ClientFits, FitsPlace, Doing, Honest, IsPrime
  <2> QED
    BY <2>1, <2>2
<1> QED
  BY <1>2, <1>3, <1>4 DEF Exchange

\* The tuple a serving appends is honest, and is what was asked for.
LEMMA ServeStep ==
  ASSUME LossyTypeOK, Exchange, UNCHANGED device_pc, NEW c \in Client, NEW t \in Tuple,
         call[c] # NULL, Serves(c, t), Honest(t), FitsName(device_pc[c], t[2].value)
  PROVE  \A d \in Client : ClientHonest(d)' /\ ClientFits(d)'
<1>1. served' = [served EXCEPT ![c] = Append(@, t)] /\ UNCHANGED <<call, refused, answer>>
  BY DEF Serves
<1> TAKE d \in Client
<1>2. ClientHonest(d) /\ ClientFits(d)
  BY DEF Exchange
<1>3. CASE d = c
  <2>1. served[c] \in Seq(Tuple) /\ served'[d] = Append(served[c], t)
    BY <1>1, <1>3 DEF LossyTypeOK
  <2>2. \A i \in DOMAIN served'[d] :
          (i \in DOMAIN served[d] /\ served'[d][i] = served[d][i]) \/ served'[d][i] = t
    BY <2>1, <1>3
  <2>3. \A i \in DOMAIN served'[d] : Honest(served'[d][i])
    BY <1>2, <2>2 DEF ClientHonest
  <2>4. /\ Doing(d, "out")' => Honest(call'[d].tuple)
        /\ answer'[d].tuple # NULL => Honest(answer'[d].tuple)
    BY <1>1, <1>2 DEF ClientHonest, Doing
  <2>5. ClientHonest(d)'
    BY <2>3, <2>4 DEF ClientHonest, Honest, IsPrime
  <2>6. ClientFits(d)'
    BY <1>1, <1>2, <1>3, <2>2 DEF ClientFits, FitsPlace, FitsName
  <2> QED
    BY <2>5, <2>6
<1>4. CASE d # c
  <2>1. served'[d] = served[d]
    BY <1>1, <1>4 DEF LossyTypeOK
  <2>2. ClientHonest(d)'
    <3>1. /\ Doing(d, "out")' => Honest(call'[d].tuple)
          /\ \A i \in DOMAIN served'[d] : Honest(served'[d][i])
          /\ answer'[d].tuple # NULL => Honest(answer'[d].tuple)
      BY <1>1, <1>2, <2>1 DEF ClientHonest, Doing
    <3> QED
      BY <3>1 DEF ClientHonest, Honest, IsPrime
  <2>3. ClientFits(d)'
    BY <1>1, <1>2, <2>1 DEF ClientFits, FitsPlace, FitsName
  <2> QED
    BY <2>2, <2>3
<1> QED
  BY <1>3, <1>4

LEMMA PutStep ==
  ASSUME LossyTypeOK, Exchange, UNCHANGED device_pc, NEW c \in Client, Puts(c)
  PROVE  LossyTypeOK' /\ Exchange'
<1> DEFINE t == call[c].tuple
<1>1. /\ call[c] # NULL /\ call[c].kind = "out"
      /\ space' = [space EXCEPT ![t] = @ + 1]
      /\ Serves(c, t)
  BY DEF Puts, Doing
<1>2. t \in Tuple
  BY <1>1, OperationFields DEF LossyTypeOK
<1>3. Honest(t)
  BY <1>1 DEF Exchange, ClientHonest, Doing
<1>4. FitsName(device_pc[c], t[2].value)
  <2>1. FitsPlace(device_pc[c], call[c])
    BY <1>1 DEF Exchange, ClientFits
  <2>2. device_pc[c] \notin Asking
    BY <1>1, <2>1 DEF FitsPlace, InpOf
  <2> QED
    BY <2>1, <2>2 DEF FitsPlace
<1>5. \A d \in Client : ClientHonest(d)' /\ ClientFits(d)'
  BY <1>1, <1>2, <1>3, <1>4, ServeStep
<1>6. LossyTypeOK'
  BY <1>1, <1>2 DEF LossyTypeOK, Serves
<1>7. SpaceHonest'
  <2>1. space \in [Tuple -> Nat]
    BY DEF LossyTypeOK
  <2> SUFFICES ASSUME NEW u \in Tuple, space'[u] > 0 PROVE Honest(u)
    BY DEF SpaceHonest, Honest, IsPrime
  <2>2. CASE u = t
    BY <2>2, <1>3
  <2>3. CASE u # t
    BY <2>1, <2>3, <1>1 DEF Exchange, SpaceHonest
  <2> QED
    BY <2>2, <2>3
<1> QED
  BY <1>5, <1>6, <1>7 DEF Exchange

LEMMA TakeStep ==
  ASSUME LossyTypeOK, Exchange, UNCHANGED device_pc, NEW c \in Client, Takes(c)
  PROVE  LossyTypeOK' /\ Exchange'
<1>1. PICK t \in Tuple : Fits(c, t) /\ space' = [space EXCEPT ![t] = @ - 1] /\ Serves(c, t)
  BY DEF Takes
<1>2. call[c] # NULL /\ space[t] > 0 /\ ts_is_matching_tuple(call[c].tuple, t)
  BY <1>1 DEF Takes, Doing, Fits
<1>3. Honest(t)
  BY <1>2 DEF Exchange, SpaceHonest
<1>4. FitsName(device_pc[c], t[2].value)
  <2>1. FitsPlace(device_pc[c], call[c]) /\ call[c].kind = "inp"
    BY <1>2 DEF Exchange, ClientFits, Takes, Doing
  <2>2. device_pc[c] \in Asking /\ call[c] = InpOf(WantedAt(device_pc[c]))
    BY <2>1 DEF FitsPlace
  <2>3. call[c].tuple = WantedAt(device_pc[c])
    BY <2>2, OperationFields
  <2>4. ts_is_matching_tuple(WantedAt(device_pc[c]), t)
    BY <1>2, <2>3
  <2> QED
    BY <2>2, <2>4, MatchesName
<1>5. \A d \in Client : ClientHonest(d)' /\ ClientFits(d)'
  BY <1>1, <1>2, <1>3, <1>4, ServeStep
<1>6. space' \in [Tuple -> Nat] /\ \A u \in Tuple : space'[u] <= space[u]
  BY <1>1, <1>2 DEF LossyTypeOK
<1>7. LossyTypeOK'
  BY <1>1, <1>6 DEF LossyTypeOK, Serves
<1>8. SpaceHonest'
  <2>1. \A u \in Tuple : space'[u] > 0 => space[u] > 0
    BY <1>6 DEF LossyTypeOK
  <2> QED
    BY <2>1 DEF Exchange, SpaceHonest, Honest, IsPrime
<1> QED
  BY <1>5, <1>7, <1>8 DEF Exchange

LEMMA FindsNoneStep ==
  ASSUME LossyTypeOK, Exchange, UNCHANGED device_pc, NEW c \in Client, FindsNone(c)
  PROVE  LossyTypeOK' /\ Exchange'
<1>1. call[c] # NULL
  BY DEF FindsNone, Doing
<1>2. refused' = [refused EXCEPT ![c] = TRUE] /\ UNCHANGED <<space, call, served, answer>>
  BY DEF FindsNone
<1>3. LossyTypeOK'
  BY <1>2 DEF LossyTypeOK
<1>4. SpaceHonest'
  BY <1>2 DEF Exchange, SpaceHonest, Honest, IsPrime
<1>5. ASSUME NEW d \in Client PROVE ClientHonest(d)' /\ ClientFits(d)'
  <2>1. ClientHonest(d) /\ ClientFits(d)
    BY DEF Exchange
  <2>2. call[d] = NULL => refused'[d] = refused[d]
    BY <1>1, <1>2 DEF LossyTypeOK
  <2>3. ClientHonest(d)'
    BY <1>2, <2>1 DEF ClientHonest, Doing, Honest, IsPrime
  <2>4. ClientFits(d)'
    BY <1>2, <2>1, <2>2 DEF ClientFits, FitsPlace, FitsName
  <2> QED
    BY <2>3, <2>4
<1> QED
  BY <1>3, <1>4, <1>5 DEF Exchange

\* An answer is one of the servings.
LEMMA ReturnStep ==
  ASSUME LossyTypeOK, Exchange, UNCHANGED device_pc, NEW c \in Client, Returns(c)
  PROVE  LossyTypeOK' /\ Exchange'
<1>1. PICK res \in Answers(c) \cup {Failed} : answer' = [answer EXCEPT ![c] = res]
  BY DEF Returns
<1>2. /\ call[c] # NULL
      /\ call' = [call EXCEPT ![c] = NULL]
      /\ served' = [served EXCEPT ![c] = <<>>]
      /\ refused' = [refused EXCEPT ![c] = FALSE]
      /\ UNCHANGED space
  BY DEF Returns
<1>3. \/ res.tuple = NULL
      \/ call[c].kind # "out" /\ \E i \in DOMAIN served[c] : res.tuple = served[c][i]
  BY DEF Answers, Answer, Failed
<1>4. res \in {Pending, Failed} \cup {Answer(t) : t \in Tuple \cup {NULL}}
  BY DEF Answers, LossyTypeOK
<1>5. LossyTypeOK'
  BY <1>1, <1>2, <1>4 DEF LossyTypeOK
<1>6. SpaceHonest'
  BY <1>2 DEF Exchange, SpaceHonest, Honest, IsPrime
<1>7. ASSUME NEW d \in Client PROVE ClientHonest(d)' /\ ClientFits(d)'
  <2>1. ClientHonest(d) /\ ClientFits(d)
    BY DEF Exchange
  <2>2. CASE d = c
    <3>1. /\ call'[d] = NULL /\ served'[d] = <<>> /\ ~refused'[d] /\ answer'[d] = res
          /\ device_pc'[d] = device_pc[d]
      BY <1>1, <1>2, <2>2 DEF LossyTypeOK
    <3>2. ClientHonest(d)'
      BY <1>3, <2>1, <2>2, <3>1 DEF ClientHonest, Doing, Honest, IsPrime
    <3>3. device_pc[d] \notin Asking => call[d].kind = "out"
      BY <1>2, <2>1, <2>2 DEF ClientFits, FitsPlace, FitsName
    <3>4. ClientFits(d)'
      BY <1>3, <2>1, <2>2, <3>1, <3>3 DEF ClientFits, FitsName
    <3> QED
      BY <3>2, <3>4
  <2>3. CASE d # c
    <3>1. /\ call'[d] = call[d] /\ served'[d] = served[d] /\ answer'[d] = answer[d]
          /\ refused'[d] = refused[d]
      BY <1>1, <1>2, <2>3 DEF LossyTypeOK
    <3> QED
      BY <2>1, <3>1 DEF ClientHonest, ClientFits, FitsPlace, Doing, Honest, IsPrime
  <2> QED
    BY <2>2, <2>3
<1> QED
  BY <1>5, <1>6, <1>7 DEF Exchange

-----------------------------------------------------------------------------
(***************************************************************************)
(* What an answer takes of the block.                                      *)
(***************************************************************************)
\* The fold over a tuple of three fields: it is what a function that computes
\* itself must be.
LEMMA BytesOfThree ==
  ASSUME NEW a, NEW b, NEW c,
         StringBytes(a) \in Nat, StringBytes(b) \in Nat, StringBytes(c) \in Nat
  PROVE  TupleBytes(<<a, b, c>>) =
           FieldSize * 3 + (StringBytes(a) + StringBytes(b) + StringBytes(c))
<1> DEFINE t        == <<a, b, c>>
           Sum(f)   == [s \in SUBSET (1 .. 3) |->
                          IF s = {} THEN 0 ELSE f[s \ {Max(s)}] + StringBytes(t[Max(s)])]
           fold     == CHOOSE f : f = Sum(f)
           Of(i, s) == IF i \in s THEN StringBytes(t[i]) ELSE 0
           sum      == [s \in SUBSET (1 .. 3) |-> Of(1, s) + Of(2, s) + Of(3, s)]
<1>1. TupleBytes(t) = FieldSize * 3 + fold[1 .. 3]
  <2>1. DOMAIN <<a, b, c>> = 1 .. 3 /\ Len(<<a, b, c>>) = 3
    OBVIOUS
  <2> QED
    BY <2>1, Zenon DEF TupleBytes, FoldLeft, MapThenFoldSet
<1>2. ASSUME NEW s \in SUBSET (1 .. 3), s # {} PROVE Max(s) \in s /\ Max(s) \in 1 .. 3
  <2>1. \E x \in s : \A y \in s : x >= y
    <3>1. \A y \in s : y = 1 \/ y = 2 \/ y = 3
      OBVIOUS
    <3>2. CASE 3 \in s
      BY <3>1, <3>2
    <3>3. CASE 3 \notin s /\ 2 \in s
      BY <3>1, <3>3
    <3>4. CASE 3 \notin s /\ 2 \notin s
      <4>1. 1 \in s
        BY <1>2, <3>1, <3>4
      <4> QED
        BY <3>1, <3>4, <4>1
    <3> QED
      BY <3>2, <3>3, <3>4
  <2> QED
    BY <2>1 DEF Max
<1>3. \A s \in SUBSET (1 .. 3), i \in 1 .. 3 : Of(i, s) \in Nat
  OBVIOUS
<1>4. ASSUME NEW s \in SUBSET (1 .. 3), s # {}
      PROVE  sum[s] = sum[s \ {Max(s)}] + StringBytes(t[Max(s)])
  <2> DEFINE m == Max(s)
             r == s \ {m}
  <2>1. m \in s /\ m \in 1 .. 3
    BY <1>2, <1>4
  <2> HIDE DEF m
  <2>2. r \in SUBSET (1 .. 3)
    OBVIOUS
  <2>3. Of(m, s) = StringBytes(t[m]) /\ Of(m, r) = 0
    BY <2>1
  <2>4. \A i \in 1 .. 3 : i # m => Of(i, s) = Of(i, r)
    BY <2>1
  <2>5. sum[s] = Of(1, s) + Of(2, s) + Of(3, s) /\ sum[r] = Of(1, r) + Of(2, r) + Of(3, r)
    BY <2>2
  <2> HIDE DEF Of, sum, t, r
  <2>6. sum[s] = sum[r] + StringBytes(t[m])
    BY <2>1, <2>2, <2>3, <2>4, <2>5, <1>3
  <2> QED
    BY <2>6 DEF m, r
<1>5. sum = Sum(sum)
  <2>1. sum = [s \in SUBSET (1 .. 3) |-> sum[s]]
    OBVIOUS
  <2>2. \A s \in SUBSET (1 .. 3) :
          sum[s] = IF s = {} THEN 0 ELSE sum[s \ {Max(s)}] + StringBytes(t[Max(s)])
    <3>1. sum[{}] = 0
      OBVIOUS
    <3> HIDE DEF sum, t
    <3> QED
      BY <1>4, <3>1
  <2> HIDE DEF sum, t
  <2> QED
    BY <2>1, <2>2, Zenon
<1>6. fold = Sum(fold)
  <2> HIDE DEF Sum, sum
  <2> QED
    BY <1>5
<1> HIDE DEF fold
<1>7. /\ fold[{}] = 0
      /\ \A s \in SUBSET (1 .. 3) :
           s # {} => fold[s] = fold[s \ {Max(s)}] + StringBytes(t[Max(s)])
  <2> HIDE DEF t
  <2> QED
    BY <1>6
<1>8. Max({1}) = 1 /\ Max({1, 2}) = 2 /\ Max(1 .. 3) = 3
  BY DEF Max
<1>9. {1} \ {1} = {} /\ {1, 2} \ {2} = {1} /\ (1 .. 3) \ {3} = {1, 2}
  OBVIOUS
<1>10. /\ fold[{1}] = fold[{}] + StringBytes(a)
       /\ fold[{1, 2}] = fold[{1}] + StringBytes(b)
       /\ fold[1 .. 3] = fold[{1, 2}] + StringBytes(c)
  <2>1. /\ {1} \in SUBSET (1 .. 3) /\ {1, 2} \in SUBSET (1 .. 3)
        /\ {1} # {} /\ {1, 2} # {} /\ (1 .. 3) # {}
    OBVIOUS
  <2>2. t[1] = a /\ t[2] = b /\ t[3] = c
    OBVIOUS
  <2> HIDE DEF t
  <2>3. /\ fold[{1}] = fold[{1} \ {Max({1})}] + StringBytes(t[Max({1})])
        /\ fold[{1, 2}] = fold[{1, 2} \ {Max({1, 2})}] + StringBytes(t[Max({1, 2})])
        /\ fold[1 .. 3] = fold[(1 .. 3) \ {Max(1 .. 3)}] + StringBytes(t[Max(1 .. 3)])
    BY <1>7, <2>1, Zenon
  <2> QED
    BY <1>8, <1>9, <2>2, <2>3
<1>11. fold[1 .. 3] = StringBytes(a) + StringBytes(b) + StringBytes(c)
  BY <1>7, <1>10
<1> QED
  BY <1>1, <1>11

\* The bytes of a request, and of an answer by its name.
Requesting      == PointerSize * 3
Answering(name) == FieldSize * 3 + StringSize[name]

LEMMA Sizes ==
  /\ Requesting \in Nat
  /\ \A t \in Tuple : /\ SpanBytes(t) = Requesting /\ t[2].value \in Value
                      /\ TupleBytes(t) = Answering(t[2].value)
                      /\ TupleBytes(t) \in Nat
  /\ \A place \in Asking : SpanBytes(WantedAt(place)) = Requesting
<1>1. PointerSize \in Nat /\ FieldSize \in Nat /\ StringSize \in [Value -> Nat]
  BY SizesAssumption
<1>2. Requesting \in Nat
  BY <1>1 DEF Requesting
<1>3. ASSUME NEW t \in Tuple
      PROVE  /\ SpanBytes(t) = Requesting /\ t[2].value \in Value
             /\ TupleBytes(t) = Answering(t[2].value) /\ TupleBytes(t) \in Nat
  <2>1. PICK a, b, c : /\ t = <<a, b, c>>
                       /\ a.type # "string" /\ c.type # "string"
                       /\ b.type = "string" /\ b.hasData
    BY TupleForms DEF Message1, Message2, Uint, Bool, Name
  <2>2. b.value \in Value
    <3>1. t \in Seq(Field) /\ Len(t) = 3 /\ t[2] = b
      BY <2>1, MessagesAssumption
    <3>2. 2 \in 1..Len(t)
      BY <3>1
    <3>3. b \in Field
      BY <3>1, <3>2, ElementOfSeq
    <3> QED
      BY <3>3 DEF Field
  <2>3. StringBytes(a) = 0 /\ StringBytes(c) = 0 /\ StringBytes(b) = StringSize[b.value]
    BY <2>1 DEF StringBytes
  <2>4. StringSize[b.value] \in Nat
    BY <1>1, <2>2
  <2>5. TupleBytes(<<a, b, c>>) = FieldSize * 3 + StringSize[b.value]
    BY <2>3, <2>4, BytesOfThree
  <2>6. SpanBytes(t) = Requesting
    BY <2>1 DEF SpanBytes, Requesting
  <2>7. FieldSize * 3 + StringSize[b.value] \in Nat
    BY <1>1, <2>4
  <2>8. t[2].value = b.value
    BY <2>1
  <2> QED
    BY <2>1, <2>2, <2>5, <2>6, <2>7, <2>8 DEF Answering
<1>4. ASSUME NEW place \in Asking PROVE SpanBytes(WantedAt(place)) = Requesting
  BY DEF WantedAt, Any1, Any2, SpanBytes, Requesting
<1> QED
  BY <1>2, <1>3, <1>4

-----------------------------------------------------------------------------
(***************************************************************************)
(* The devices' steps.                                                     *)
(***************************************************************************)
\* Where a device stands says what it got.
LEMMA GotByPlace ==
  ASSUME LossyTypeOK, Exchange, NEW c \in Client, Got(c)
  PROVE  /\ answer[c].tuple \in Tuple /\ answer[c].tuple[2].value = NameAt(device_pc[c])
         /\ device_pc[c] \in Asking
         /\ device_pc[c] = "direction" =>
              Payload(c) \in {0, 1} /\ answer[c].tuple = Message2(Payload(c))
         /\ device_pc[c] # "direction" =>
              /\ Payload(c) \in Numbers
              /\ answer[c].tuple = Message1(NameAt(device_pc[c]), Payload(c))
         /\ device_pc[c] = "prime" => IsPrime(Payload(c))
         /\ device_pc[c] = "not_prime" => ~IsPrime(Payload(c))
<1> DEFINE t == answer[c].tuple
<1>1. t # NULL
  BY DEF Got
<1>2. t \in Tuple
  BY <1>1, AnswerForms
<1>3. device_pc[c] \in Asking /\ t[2].value = NameAt(device_pc[c]) /\ Honest(t)
  BY <1>1 DEF Exchange, ClientFits, ClientHonest, FitsName
<1>4. CASE device_pc[c] = "direction"
  <2>1. t[2].value = direction_changed
    BY <1>3, <1>4 DEF NameAt
  <2> QED
    BY <1>2, <1>3, <1>4, <2>1, ByName DEF Payload
<1>5. CASE device_pc[c] # "direction"
  <2>1. NameAt(device_pc[c]) \in {check_if_prime, is_prime, is_not_prime}
    BY <1>5 DEF NameAt
  <2>2. Payload(c) \in Numbers /\ t = Message1(NameAt(device_pc[c]), Payload(c))
    BY <1>2, <1>3, <2>1, ByName DEF Payload
  <2>3. /\ device_pc[c] = "prime" => IsPrime(Payload(c))
        /\ device_pc[c] = "not_prime" => ~IsPrime(Payload(c))
    BY <1>3 DEF Honest, Payload, NameAt
  <2> QED
    BY <1>2, <1>3, <1>5, <2>2, <2>3
<1> QED
  BY <1>4, <1>5

\* An answer lies behind what was in use.
LEMMA UsedByPlace ==
  ASSUME LossyTypeOK, Places, Exchange, NEW c \in Client
  PROVE  /\ Used(c) \in Nat /\ pointer[c] \in Nat
         /\ Got(c) => Used(c) = pointer[c] + Answering(NameAt(device_pc[c]))
         /\ ~Got(c) => Used(c) = pointer[c]
<1>1. pointer[c] \in Nat
  BY DEF Places
<1>2. CASE Got(c)
  <2> DEFINE t == answer[c].tuple
  <2>1. t \in Tuple /\ t[2].value = NameAt(device_pc[c])
    BY <1>2, GotByPlace
  <2>2. TupleBytes(t) \in Nat /\ TupleBytes(t) = Answering(NameAt(device_pc[c]))
    BY <2>1, Sizes
  <2>3. Used(c) = pointer[c] + TupleBytes(t)
    BY <1>2 DEF Used, allocation_cb
  <2> HIDE DEF t
  <2> QED
    BY <1>1, <1>2, <2>2, <2>3
<1>3. CASE ~Got(c)
  BY <1>1, <1>3 DEF Used
<1> QED
  BY <1>2, <1>3

\* What a worker answers is honest.
LEMMA HonestMessages ==
  /\ \A v \in Numbers : Honest(Message1(check_if_prime, v))
  /\ \A v \in Numbers :
       Honest(Message1(IF FoundPrime(v) THEN is_prime ELSE is_not_prime, v))
  /\ \A v \in {0, 1} : Honest(Message2(v))
<1>1. \A v \in Numbers : FoundPrime(v) <=> IsPrime(v)
  BY TrialDivision
<1>2. ASSUME NEW v \in Numbers
      PROVE  Honest(Message1(IF FoundPrime(v) THEN is_prime ELSE is_not_prime, v))
  <2>1. CASE FoundPrime(v)
    BY <1>1, <2>1, MessageFields, NamesDiffer DEF Honest
  <2>2. CASE ~FoundPrime(v)
    BY <1>1, <2>2, MessageFields, NamesDiffer DEF Honest
  <2> QED
    BY <2>1, <2>2
<1> QED
  BY <1>2, MessageFields, NamesDiffer DEF Honest

\* What a device may ask for, going to a place, with a part of its block in use.
Sound(c, place, op, used) ==
  /\ FitsPlace(place, op)
  /\ op.kind = "out" => Honest(op.tuple)
  /\ SpanBytes(op.tuple) = Requesting
  /\ \/ used = 0 /\ place \notin {"not_prime", "result"}
     \/ used = Used(c) /\ device_pc[c] = "prime" /\ place = "not_prime"
     \/ used = Used(c) /\ device_pc[c] = "task" /\ place = "result"

SoundCall(c) ==
  \E place \in PlacesOf(c), op \in Operations, used \in Nat :
    Calls(c, place, op, used) /\ Sound(c, place, op, used)

LEMMA OutIsSound ==
  ASSUME NEW c \in Client, NEW place \in PlacesOf(c) \ Asking, NEW t \in Tuple, Honest(t),
         FitsName(place, t[2].value), NEW used \in Nat, Calls(c, place, OutOf(t), used),
         \/ used = 0 /\ place # "result"
         \/ used = Used(c) /\ device_pc[c] = "task" /\ place = "result"
  PROVE  SoundCall(c)
<1> DEFINE op == OutOf(t)
<1>1. op \in Operations /\ op.kind = "out" /\ op.tuple = t
  BY OperationForms, OperationFields
<1>2. SpanBytes(op.tuple) = Requesting
  BY <1>1, Sizes
<1>3. Calls(c, place, op, used)
  OBVIOUS
<1> HIDE DEF op
<1>4. FitsPlace(place, op)
  BY <1>1 DEF FitsPlace
<1>5. Sound(c, place, op, used)
  BY <1>1, <1>2, <1>4 DEF Sound, Asking
<1> QED
  BY <1>1, <1>3, <1>5 DEF SoundCall

LEMMA InpIsSound ==
  ASSUME NEW c \in Client, NEW place \in PlacesOf(c) \cap Asking, NEW used \in Nat,
         Calls(c, place, InpOf(WantedAt(place)), used),
         \/ used = 0 /\ place # "not_prime"
         \/ used = Used(c) /\ device_pc[c] = "prime" /\ place = "not_prime"
  PROVE  SoundCall(c)
<1> DEFINE op == InpOf(WantedAt(place))
<1>1. op \in Operations /\ op.kind = "inp" /\ op.tuple = WantedAt(place)
  BY OperationForms, OperationFields
<1>2. SpanBytes(op.tuple) = Requesting
  BY <1>1, Sizes
<1>3. Calls(c, place, op, used) /\ FitsPlace(place, op)
  BY DEF FitsPlace
<1> HIDE DEF op
<1>4. Sound(c, place, op, used)
  BY <1>1, <1>2, <1>3 DEF Sound, Asking
<1> QED
  BY <1>1, <1>3, <1>4 DEF SoundCall

\* Every step of a device's thread ends in such a call.
LEMMA DeviceCalls ==
  ASSUME LossyTypeOK, Places, Statics, Exchange, NEW c \in Client, DeviceSteps(c)
  PROVE  SoundCall(c)
<1>1. Used(c) \in Nat /\ FreeBlock(pointer[c]) = 0
  BY UsedByPlace DEF FreeBlock
<1>2. ASSUME c = Master, SendRequest PROVE SoundCall(c)
  <2> DEFINE t == Message1(check_if_prime, next)
  <2>1. t \in Tuple /\ Honest(t)
    BY MessagesAreTuples, HonestMessages DEF Statics
  <2>2. Calls(c, "request", OutOf(t), 0)
    BY <1>1, <1>2 DEF SendRequest
  <2>3. "request" \in PlacesOf(c) \ Asking
    BY <1>2 DEF PlacesOf, MasterPlace, Asking
  <2>4. FitsName("request", t[2].value)
    BY MessageFields, NamesDiffer DEF FitsName, Asking
  <2> HIDE DEF t
  <2> QED
    BY <2>1, <2>2, <2>3, <2>4, OutIsSound
<1>3. ASSUME c = Master, AquireResponse PROVE SoundCall(c)
  <2>1. WantedAt("prime") = Any1(is_prime)
    BY DEF WantedAt, NameAt
  <2>2. Calls(c, "prime", InpOf(WantedAt("prime")), 0)
    BY <1>1, <1>3, <2>1 DEF AquireResponse
  <2>3. "prime" \in PlacesOf(c) \cap Asking
    BY <1>3 DEF PlacesOf, MasterPlace, Asking
  <2> QED
    BY <2>2, <2>3, InpIsSound
<1>4. ASSUME c = Master, PrimeResponse PROVE SoundCall(c)
  <2>1. WantedAt("not_prime") = Any1(is_not_prime)
    BY DEF WantedAt, NameAt
  <2>2. Calls(c, "not_prime", InpOf(WantedAt("not_prime")), Used(c)) /\ device_pc[c] = "prime"
    BY <1>4, <2>1 DEF PrimeResponse, After
  <2>3. "not_prime" \in PlacesOf(c) \cap Asking
    BY <1>4 DEF PlacesOf, MasterPlace, Asking
  <2> QED
    BY <1>1, <2>2, <2>3, InpIsSound
<1>5. ASSUME c = Master, AquireDirection PROVE SoundCall(c)
  <2>1. WantedAt("direction") = Any2
    BY DEF WantedAt
  <2>2. Calls(c, "direction", InpOf(WantedAt("direction")), 0)
    BY <1>1, <1>5, <2>1 DEF AquireDirection
  <2>3. "direction" \in PlacesOf(c) \cap Asking
    BY <1>5 DEF PlacesOf, MasterPlace, Asking
  <2> QED
    BY <2>2, <2>3, InpIsSound
<1>6. ASSUME c \in Worker, GetTask(c) PROVE SoundCall(c)
  <2>1. WantedAt("task") = Any1(check_if_prime)
    BY DEF WantedAt, NameAt
  <2>2. Calls(c, "task", InpOf(WantedAt("task")), 0)
    BY <1>1, <1>6, <2>1 DEF GetTask
  <2>3. "task" \in PlacesOf(c) \cap Asking
    BY <1>6 DEF PlacesOf, WorkerPlace, Asking
  <2> QED
    BY <2>2, <2>3, InpIsSound
<1>7. ASSUME c \in Worker, SendResult(c) PROVE SoundCall(c)
  <2> DEFINE t == Message1(IF FoundPrime(Payload(c)) THEN is_prime ELSE is_not_prime, Payload(c))
  <2>1. device_pc[c] = "task" /\ Got(c)
    BY <1>7 DEF SendResult, After
  <2>2. Payload(c) \in Numbers
    BY <2>1, GotByPlace
  <2>3. t \in Tuple
    BY <2>2, MessagesAreTuples
  <2>4. Honest(t)
    BY <2>2, HonestMessages
  <2>5. Calls(c, "result", OutOf(t), Used(c))
    BY <1>7 DEF SendResult
  <2>6. "result" \in PlacesOf(c) \ Asking
    BY <1>7 DEF PlacesOf, WorkerPlace, Asking
  <2>7. FitsName("result", t[2].value)
    BY MessageFields, NamesDiffer DEF FitsName, Asking
  <2> HIDE DEF t
  <2> QED
    BY <1>1, <2>1, <2>3, <2>4, <2>5, <2>6, <2>7, OutIsSound
<1>8. ASSUME c \in Worker,
             Calls(c, "state", OutOf(Message2(ToBool(status[c]))), FreeBlock(pointer[c]))
      PROVE  SoundCall(c)
  <2> DEFINE t == Message2(ToBool(status[c]))
  <2>1. ToBool(status[c]) \in {0, 1}
    BY DEF ToBool
  <2>2. t \in Tuple /\ Honest(t)
    BY <2>1, MessagesAreTuples, HonestMessages
  <2>3. Calls(c, "state", OutOf(t), 0)
    BY <1>1, <1>8
  <2>4. "state" \in PlacesOf(c) \ Asking
    BY <1>8 DEF PlacesOf, WorkerPlace, Asking
  <2>5. FitsName("state", t[2].value)
    BY DEF FitsName, Asking
  <2> HIDE DEF t
  <2> QED
    BY <2>2, <2>3, <2>4, <2>5, OutIsSound
<1>9. CASE c = Master /\ MasterSteps
  BY <1>2, <1>3, <1>4, <1>5, <1>9
  DEF MasterSteps, CountDirection, NotPrimeResponse, RequestSent
<1>10. CASE c \in Worker /\ WorkerSteps(c)
  BY <1>6, <1>7, <1>8, <1>10 DEF WorkerSteps, ReadPin, StateSent, Direction
<1> QED
  BY <1>9, <1>10 DEF DeviceSteps

LEMMA DeviceKeepsExchange ==
  ASSUME LossyTypeOK, Places, Statics, Exchange, NEW c \in Client, DeviceSteps(c)
  PROVE  LossyTypeOK' /\ Places' /\ Exchange'
<1>1. PICK place \in PlacesOf(c), op \in Operations, used \in Nat :
        Calls(c, place, op, used) /\ Sound(c, place, op, used)
  BY DeviceCalls DEF SoundCall
<1>2. LossyTypeOK' /\ Exchange'
  BY <1>1, AskStep DEF Sound
<1>3. used + Requesting \in Nat
  BY Sizes
<1>4. device_pc' = [device_pc EXCEPT ![c] = place] /\ pointer' = [pointer EXCEPT ![c] = used + Requesting]
  BY <1>1 DEF Calls, Sound, allocation_cb
<1>5. place \in Place
  BY DEF PlacesOf, Place
<1>6. Places'
  BY <1>3, <1>4, <1>5 DEF Places
<1> QED
  BY <1>2, <1>6

\* What ReadPin does to the pins of a worker that reads new_status.
PinReads(w, new_status) ==
  /\ changes[w] < Len(PinWords[w])
  /\ new_status \in PinWords[w][changes[w] + 1] \ {status[w]}
  /\ status' = [status EXCEPT ![w] = new_status]
  /\ shifts' = shifts + ToBool(status[w]) * ToBool(new_status)
  /\ changes' = [changes EXCEPT ![w] = @ + 1]

\* A worker's step leaves the pins alone or reads a word.
LEMMA WorkerPins ==
  ASSUME Statics, NEW w \in Worker, WorkerSteps(w)
  PROVE  UNCHANGED pinVars \/ \E new_status \in Word : PinReads(w, new_status)
<1>1. CASE UNCHANGED pinVars
  BY <1>1
<1>2. ASSUME changes[w] < Len(PinWords[w]),
             NEW new_status \in PinWords[w][changes[w] + 1] \ {status[w]},
             status' = [status EXCEPT ![w] = new_status],
             shifts' = shifts + ToBool(status[w]) * ToBool(new_status),
             changes' = [changes EXCEPT ![w] = @ + 1]
      PROVE  \E new \in Word : PinReads(w, new)
  <2>1. PinWords[w] \in Seq(SUBSET Word) /\ changes[w] \in Nat
    BY PinsAssumption DEF Statics
  <2>2. changes[w] + 1 \in 1 .. Len(PinWords[w])
    BY <1>2, <2>1
  <2>3. PinWords[w][changes[w] + 1] \in SUBSET Word
    BY <2>1, <2>2
  <2>4. new_status \in Word
    BY <2>3
  <2> QED
    BY <1>2, <2>4 DEF PinReads
<1> QED
  BY <1>1, <1>2 DEF WorkerSteps, SendResult, ReadPin, StateSent

\* Of the other variables, the table of answers is the one that may go wrong.
LEMMA DeviceKeepsStatics ==
  ASSUME HonestApplications, NEW c \in Client, DeviceSteps(c)
  PROVE  Statics' /\ NoFalsePrime'
<1>1. LossyTypeOK /\ Places /\ Statics /\ Exchange /\ NoFalsePrime
  BY DEF HonestApplications, Typed
<1>2. UNCHANGED faults
  BY DEF DeviceSteps
<1>3. CASE c \in Worker /\ WorkerSteps(c)
  <2>1. UNCHANGED <<masterVars, counterVars>>
    BY <1>3 DEF WorkerSteps
  <2>2. status' \in [Worker -> Word] /\ changes' \in [Worker -> Nat] /\ shifts' \in Nat
    <3>1. CASE UNCHANGED pinVars
      BY <1>1, <3>1 DEF pinVars, Statics
    <3>2. ASSUME NEW new_status \in Word, PinReads(c, new_status)
          PROVE  status' \in [Worker -> Word] /\ changes' \in [Worker -> Nat] /\ shifts' \in Nat
      <4>1. changes[c] + 1 \in Nat /\ shifts + ToBool(status[c]) * ToBool(new_status) \in Nat
        BY <1>1, <1>3 DEF Statics, ToBool
      <4> QED
        BY <1>1, <3>2, <4>1 DEF Statics, PinReads
    <3> QED
      BY <1>1, <1>3, <3>1, <3>2, WorkerPins
  <2> QED
    BY <1>1, <1>2, <2>1, <2>2 DEF Statics, NoFalsePrime, IsPrime, masterVars, counterVars
<1>4. ASSUME CountDirection PROVE Statics' /\ NoFalsePrime'
  <2>1. UNCHANGED <<workers_responses, workers_responds_clock, status, changes, shifts>>
    BY <1>4 DEF CountDirection, pinVars
  <2>2. first_counter' \in Nat /\ second_counter' \in Nat
    BY <1>1, <1>4 DEF CountDirection, Statics
  <2>3. next' \in Numbers /\ app_state' \in {"kSendRequest", "kAquireResponse"}
    BY <1>1, <1>4 DEF CountDirection, SendRequest, AquireResponse, AllAsked, Statics
  <2> QED
    BY <1>1, <1>2, <2>1, <2>2, <2>3 DEF Statics, NoFalsePrime, IsPrime
<1>5. ASSUME c = Master, PrimeResponse PROVE Statics' /\ NoFalsePrime'
  <2>1. device_pc[c] = "prime" /\ UNCHANGED <<app_state, next, counterVars, pinVars>>
    BY <1>5 DEF PrimeResponse, After
  <2>2. Got(c) => Payload(c) \in Numbers /\ IsPrime(Payload(c))
    BY <1>1, <2>1, GotByPlace
  <2>3. workers_responses' = Recorded(1) /\ workers_responds_clock' = Counted
    BY <1>5 DEF PrimeResponse
  <2>4. workers_responses' \in [Numbers -> {0, 1}] /\ workers_responds_clock' \in Nat
    BY <1>1, <1>5, <2>2, <2>3 DEF Recorded, Counted, Statics
  <2>5. NoFalsePrime'
    BY <1>1, <1>5, <2>2, <2>3 DEF Recorded, Statics, NoFalsePrime, IsPrime
  <2> QED
    BY <1>1, <1>2, <2>1, <2>4, <2>5 DEF Statics, counterVars, pinVars
<1>6. ASSUME c = Master, NotPrimeResponse PROVE Statics' /\ NoFalsePrime'
  <2>1. device_pc[c] = "not_prime" /\ UNCHANGED <<next, counterVars, pinVars>>
    BY <1>6 DEF NotPrimeResponse, After
  <2>2. Got(c) => Payload(c) \in Numbers
    BY <1>1, <2>1, GotByPlace
  <2>3. /\ workers_responses' \in {NoResponses, Recorded(0)}
        /\ workers_responds_clock' \in {0, Counted}
        /\ app_state' \in {"kSendRequest", app_state}
    BY <1>6 DEF NotPrimeResponse
  <2>4. workers_responses' \in [Numbers -> {0, 1}] /\ workers_responds_clock' \in Nat
    BY <1>1, <1>6, <2>2, <2>3 DEF NoResponses, Recorded, Counted, Statics
  <2>5. \A n \in Numbers : workers_responses'[n] = 1 => workers_responses[n] = 1
    BY <1>1, <1>6, <2>2, <2>3 DEF NoResponses, Recorded, Statics
  <2>6. NoFalsePrime'
    BY <1>1, <2>5 DEF NoFalsePrime, IsPrime
  <2> QED
    BY <1>1, <1>2, <2>1, <2>3, <2>4, <2>6 DEF Statics, counterVars, pinVars
<1>7. ASSUME RequestSent PROVE Statics' /\ NoFalsePrime'
  <2>1. UNCHANGED <<masterVars, counterVars, pinVars>>
    BY <1>7 DEF RequestSent
  <2> QED
    BY <1>1, <1>2, <2>1 DEF Statics, NoFalsePrime, IsPrime, masterVars, counterVars, pinVars
<1> QED
  BY <1>3, <1>4, <1>5, <1>6, <1>7 DEF DeviceSteps, MasterSteps

LEMMA SpaceKeepsHonest ==
  ASSUME HonestApplications, NEW c \in Client, SpaceSteps(c)
  PROVE  HonestApplications'
<1>1. UNCHANGED appVars
  BY DEF SpaceSteps
<1>2. UNCHANGED <<device_pc, pointer, masterVars, counterVars, pinVars>>
  BY <1>1 DEF appVars
<1>3. Puts(c) \/ Takes(c) \/ FindsNone(c) \/ Returns(c)
  BY DEF SpaceSteps, Operates, Finishes, Fault, SpaceWorks
<1>4. LossyTypeOK' /\ Exchange'
  BY <1>2, <1>3, PutStep, TakeStep, FindsNoneStep, ReturnStep DEF HonestApplications, Typed
<1>5. faults' \in Nat
  BY DEF SpaceSteps, Operates, Finishes, Fault, HonestApplications, Typed, Statics
<1>6. Statics' /\ Places' /\ NoFalsePrime'
  BY <1>2, <1>5
  DEF HonestApplications, Typed, Statics, Places, NoFalsePrime, IsPrime,
      masterVars, counterVars, pinVars
<1> QED
  BY <1>4, <1>6 DEF HonestApplications, Typed

LEMMA HonestStutter == HonestApplications /\ UNCHANGED allVars => HonestApplications'
<1> SUFFICES ASSUME HonestApplications, UNCHANGED allVars PROVE HonestApplications'
  OBVIOUS
<1>1. /\ UNCHANGED <<space, call, served, refused, answer>>
      /\ UNCHANGED <<device_pc, app_state, next, workers_responses, workers_responds_clock>>
      /\ UNCHANGED <<first_counter, second_counter, status, changes, shifts, pointer, faults>>
  BY DEF allVars, lossyVars, appVars, masterVars, counterVars, pinVars
<1>2. LossyTypeOK'
  BY <1>1 DEF HonestApplications, Typed, LossyTypeOK
<1>3. Places' /\ Statics' /\ NoFalsePrime'
  BY <1>1 DEF HonestApplications, Typed, Places, Statics, NoFalsePrime, IsPrime
<1>4. SpaceHonest'
  BY <1>1 DEF HonestApplications, Exchange, SpaceHonest, Honest, IsPrime
<1>5. ASSUME NEW d \in Client PROVE ClientHonest(d)' /\ ClientFits(d)'
  <2>1. ClientHonest(d) /\ ClientFits(d)
    BY DEF HonestApplications, Exchange
  <2>2. ClientHonest(d)'
    BY <1>1, <2>1 DEF ClientHonest, Doing, Honest, IsPrime
  <2>3. ClientFits(d)'
    BY <1>1, <2>1 DEF ClientFits, FitsPlace, FitsName
  <2> QED
    BY <2>2, <2>3
<1> QED
  BY <1>2, <1>3, <1>4, <1>5 DEF HonestApplications, Typed, Exchange

LEMMA NextHonest == HonestApplications /\ [MasterWorkerNext]_allVars => HonestApplications'
<1> SUFFICES ASSUME HonestApplications, [MasterWorkerNext]_allVars PROVE HonestApplications'
  OBVIOUS
<1>1. ASSUME NEW c \in Client, DeviceSteps(c) PROVE HonestApplications'
  <2>1. LossyTypeOK' /\ Places' /\ Exchange'
    BY <1>1, DeviceKeepsExchange DEF HonestApplications, Typed
  <2>2. Statics' /\ NoFalsePrime'
    BY <1>1, DeviceKeepsStatics
  <2> QED
    BY <2>1, <2>2 DEF HonestApplications, Typed
<1> QED
  BY <1>1, SpaceKeepsHonest, HonestStutter DEF MasterWorkerNext

LEMMA InitHonest == MasterWorkerInit => HonestApplications
<1> SUFFICES ASSUME MasterWorkerInit PROVE HonestApplications
  OBVIOUS
<1>1. /\ LossyInit
      /\ device_pc = [c \in Client |-> IF c = Master THEN "direction" ELSE "state"]
      /\ pointer = [c \in Client |-> 0]
      /\ workers_responses = NoResponses
  BY DEF MasterWorkerInit
<1>2. LossyTypeOK
  <2>1. Answer(NULL) \in {Answer(t) : t \in Tuple \cup {NULL}}
    OBVIOUS
  <2>2. answer \in [Client -> {Pending, Failed} \cup {Answer(t) : t \in Tuple \cup {NULL}}]
    BY <1>1, <2>1, Zenon DEF LossyInit
  <2> QED
    BY <1>1, <2>2 DEF LossyInit, LossyTypeOK
<1>3. Places
  BY <1>1 DEF Places, PlacesOf, Place, MasterPlace, WorkerPlace
<1>4. Statics
  BY DEF MasterWorkerInit, Statics, NoResponses, Word
<1>5. SpaceHonest
  BY <1>1 DEF LossyInit, SpaceHonest
<1>6. ASSUME NEW c \in Client PROVE ClientHonest(c) /\ ClientFits(c)
  <2>1. call[c] = NULL /\ served[c] = <<>> /\ ~refused[c] /\ answer[c].tuple = NULL
    BY <1>1 DEF LossyInit, Answer
  <2> QED
    BY <2>1 DEF ClientHonest, ClientFits, Doing
<1>7. NoFalsePrime
  BY <1>1 DEF NoFalsePrime, NoResponses
<1> QED
  BY <1>2, <1>3, <1>4, <1>5, <1>6, <1>7 DEF HonestApplications, Typed, Exchange

LEMMA AlwaysHonest == MasterWorkerSpec => []HonestApplications
BY InitHonest, NextHonest, PTL DEF MasterWorkerSpec

-----------------------------------------------------------------------------
(***************************************************************************)
(* Every variable of the devices (the statics of src/master_node.ino and   *)
(* src/worker_node.ino) keeps its type.                                    *)
(***************************************************************************)
THEOREM ApplicationsTypeCorrect == MasterWorkerSpec => []MasterWorkerTypeOK
<1>1. HonestApplications => MasterWorkerTypeOK
  BY DEF HonestApplications, Typed, Statics, Places, PlacesOf, MasterPlace, WorkerPlace,
         MasterWorkerTypeOK
<1> QED
  BY <1>1, AlwaysHonest, PTL

\* The master notes no number as prime that is not (workers_responses of
\* application_one_routine), whatever the network loses or repeats: for every
\* number of workers and every kApplication1N.
THEOREM NoNumberFalselyPrime == MasterWorkerSpec => []NoFalsePrime
<1>1. HonestApplications => NoFalsePrime
  BY DEF HonestApplications
<1> QED
  BY <1>1, AlwaysHonest, PTL

-----------------------------------------------------------------------------
(***************************************************************************)
(* The blocks of memory.  A device frees its block before every routine;   *)
(* the routines that ask twice keep what the first answer took.            *)
(***************************************************************************)
\* The most a device has in use where it stands, and the most it may get there.
MostUsed(place) ==
  IF place = "not_prime" THEN Requesting + Answering(is_prime) + Requesting
  ELSE IF place = "result" THEN Requesting + Answering(check_if_prime) + Requesting
  ELSE Requesting

MostGot(place) == IF place \in Asking THEN Answering(NameAt(place)) ELSE 0

\* TS_MEMORY_RESOURCE_SIZE is enough for the requests and the answers of every
\* routine.
RoomEnough == \A place \in Place : MostUsed(place) + MostGot(place) <= MemorySize

Footing == \A c \in Client : pointer[c] <= MostUsed(device_pc[c])

LEMMA AnsweringType ==
  \A name \in {check_if_prime, is_prime, is_not_prime, direction_changed} : Answering(name) \in Nat
<1>1. \A t \in Tuple : Answering(t[2].value) \in Nat
  BY Sizes
<1>2. 2 \in Numbers
  OBVIOUS
<1>3. ASSUME NEW name \in {check_if_prime, is_prime, is_not_prime} PROVE Answering(name) \in Nat
  <2>1. Message1(name, 2) \in Tuple /\ Message1(name, 2)[2].value = name
    BY <1>2, MessagesAreTuples, MessageFields
  <2> QED
    BY <1>1, <2>1
<1>4. Message2(0) \in Tuple /\ Message2(0)[2].value = direction_changed
  BY MessagesAreTuples, MessageFields
<1> QED
  BY <1>1, <1>3, <1>4

LEMMA MostType ==
  /\ \A place \in Place : MostUsed(place) \in Nat /\ MostGot(place) \in Nat
  /\ \A place \in Place : MostUsed(place) >= Requesting
<1>1. Requesting \in Nat
  BY Sizes
<1>2. Answering(is_prime) \in Nat /\ Answering(check_if_prime) \in Nat
  BY AnsweringType
<1>3. \A place \in Place : MostGot(place) \in Nat
  BY AnsweringType DEF MostGot, NameAt
<1> HIDE DEF Place
<1>4. \A place \in Place : MostUsed(place) \in Nat /\ MostUsed(place) >= Requesting
  BY <1>1, <1>2 DEF MostUsed
<1> QED
  BY <1>3, <1>4

LEMMA DeviceKeepsFooting ==
  ASSUME HonestApplications, Footing, NEW c \in Client, DeviceSteps(c)
  PROVE  Footing'
<1>1. LossyTypeOK /\ Places /\ Statics /\ Exchange
  BY DEF HonestApplications, Typed
<1>2. PICK place \in PlacesOf(c), op \in Operations, used \in Nat :
        Calls(c, place, op, used) /\ Sound(c, place, op, used)
  BY <1>1, DeviceCalls DEF SoundCall
<1>3. /\ device_pc' = [device_pc EXCEPT ![c] = place]
      /\ pointer' = [pointer EXCEPT ![c] = used + Requesting]
  BY <1>2 DEF Calls, Sound, allocation_cb
<1>4. place \in Place /\ Requesting \in Nat
  BY Sizes DEF PlacesOf, Place
<1>5. used + Requesting <= MostUsed(place)
  <2>1. CASE used = 0
    BY <1>4, <2>1, MostType
  <2>2. CASE /\ used = Used(c)
             /\ \/ device_pc[c] = "prime" /\ place = "not_prime"
                \/ device_pc[c] = "task" /\ place = "result"
    <3> DEFINE took == Answering(NameAt(device_pc[c]))
    <3>1. pointer[c] <= Requesting /\ pointer[c] \in Nat
      BY <1>1, <2>2, UsedByPlace DEF Footing, MostUsed
    <3>2. took \in Nat /\ MostUsed(place) = Requesting + took + Requesting
      BY <2>2, AnsweringType DEF NameAt, MostUsed
    <3>3. Used(c) \in {pointer[c], pointer[c] + took}
      BY <1>1, UsedByPlace
    <3> HIDE DEF took
    <3> QED
      BY <1>4, <2>2, <3>1, <3>2, <3>3
  <2> QED
    BY <1>2, <2>1, <2>2 DEF Sound
<1> SUFFICES ASSUME NEW d \in Client PROVE pointer'[d] <= MostUsed(device_pc'[d])
  BY DEF Footing, MostUsed, Requesting, Answering
<1>6. CASE d = c
  <2>1. pointer'[d] = used + Requesting /\ device_pc'[d] = place
    BY <1>1, <1>3, <1>6 DEF Places
  <2> QED
    BY <1>5, <2>1
<1>7. CASE d # c
  <2>1. /\ pointer'[d] = pointer[d] /\ device_pc'[d] = device_pc[d]
        /\ pointer[d] <= MostUsed(device_pc[d])
    BY <1>1, <1>3, <1>7 DEF Places, Footing
  <2> QED
    BY <2>1
<1> QED
  BY <1>6, <1>7

LEMMA NextFooting ==
  HonestApplications /\ Footing /\ [MasterWorkerNext]_allVars => Footing'
<1> SUFFICES ASSUME HonestApplications, Footing, [MasterWorkerNext]_allVars PROVE Footing'
  OBVIOUS
<1>1. ASSUME UNCHANGED <<device_pc, pointer>> PROVE Footing'
  BY <1>1 DEF Footing, MostUsed, Requesting, Answering
<1>2. ASSUME NEW c \in Client, SpaceSteps(c) PROVE Footing'
  BY <1>1, <1>2 DEF SpaceSteps, appVars
<1>3. CASE UNCHANGED allVars
  BY <1>1, <1>3 DEF allVars, appVars
<1> QED
  BY <1>2, <1>3, DeviceKeepsFooting DEF MasterWorkerNext

\* Where a device stands, its block holds what it has in use and what it may get
\* (ts_memory_resource_allocate of the applications never runs past the end), if
\* the block has the size of the longest routine.
THEOREM BlocksSuffice == ASSUME RoomEnough PROVE MasterWorkerSpec => []MemoryFits
<1>1. MasterWorkerInit => Footing
  <2> SUFFICES ASSUME MasterWorkerInit, NEW c \in Client PROVE pointer[c] <= MostUsed(device_pc[c])
    BY DEF Footing
  <2>1. pointer[c] = 0 /\ device_pc[c] \in Place
    BY DEF MasterWorkerInit, Place, MasterPlace, WorkerPlace
  <2>2. MostUsed(device_pc[c]) \in Nat
    BY <2>1, MostType
  <2> HIDE DEF MasterWorkerInit
  <2> QED
    BY <2>1, <2>2
<1>2. HonestApplications /\ Footing => MemoryFits
  <2> SUFFICES ASSUME HonestApplications, Footing, NEW c \in Client
               PROVE  (IF call[c] = NULL THEN Used(c) ELSE pointer[c]) <= MemorySize
    BY DEF MemoryFits
  <2> DEFINE place == device_pc[c]
  <2>1. LossyTypeOK /\ Places /\ Exchange
    BY DEF HonestApplications, Typed
  <2>2. place \in Place /\ MostUsed(place) \in Nat /\ MostGot(place) \in Nat
    BY <2>1, MostType DEF Places
  <2>3. MostUsed(place) + MostGot(place) <= MemorySize /\ MemorySize \in Nat
    BY <2>2, SizesAssumption DEF RoomEnough
  <2>4. pointer[c] <= MostUsed(place) /\ pointer[c] \in Nat
    BY <2>1, UsedByPlace DEF Footing
  <2>5. Used(c) \in {pointer[c], pointer[c] + MostGot(place)}
    <3>1. Got(c) => place \in Asking
      BY <2>1, GotByPlace
    <3> QED
      BY <2>1, <3>1, UsedByPlace DEF MostGot
  <2> HIDE DEF place
  <2> QED
    BY <2>2, <2>3, <2>4, <2>5
<1> QED
  BY <1>1, <1>2, NextFooting, AlwaysHonest, PTL DEF MasterWorkerSpec

-----------------------------------------------------------------------------
(***************************************************************************)
(* Counting tuples while the network makes no mistake.  A tuple is in the  *)
(* space, on its way into it, or on its way to the device that took it;    *)
(* the space moves it from one place to the other, and only the devices    *)
(* make tuples and consume them.                                           *)
(***************************************************************************)
Holds(c, t) ==
  IF call[c] = NULL THEN answer[c].tuple = t
  ELSE IF call[c].kind = "out" THEN call[c] = OutOf(t) /\ served[c] = <<>>
  ELSE served[c] = <<t>>

Holders(t) == {c \in Client : Holds(c, t)}

Carried(t) == space[t] + Cardinality(Holders(t))

\* An operation was served once, or told that there is nothing.
Exact == \A c \in Client : Len(served[c]) <= 1 /\ (served[c] # <<>> => ~refused[c])

LEMMA ClientsFinite == IsFiniteSet(Client)
BY FS_AddElement

LEMMA CarriedType ==
  ASSUME LossyTypeOK, NEW t \in Tuple
  PROVE  space[t] \in Nat /\ Cardinality(Holders(t)) \in Nat /\ Carried(t) \in Nat
<1>1. IsFiniteSet(Holders(t))
  BY ClientsFinite, FS_Subset DEF Holders
<1>2. Cardinality(Holders(t)) \in Nat
  BY <1>1, FS_CardinalityType
<1> QED
  BY <1>2 DEF Carried, LossyTypeOK

\* What changes when one client's part of the exchange does.
LEMMA HoldersChange ==
  ASSUME NEW t \in Tuple, NEW c \in Client,
         \A d \in Client :
           d # c => call'[d] = call[d] /\ served'[d] = served[d] /\ answer'[d] = answer[d]
  PROVE  /\ Cardinality(Holders(t)) \in Nat /\ Cardinality(Holders(t))' \in Nat
         /\ Cardinality(Holders(t))' + (IF Holds(c, t) THEN 1 ELSE 0) =
              Cardinality(Holders(t)) + (IF Holds(c, t)' THEN 1 ELSE 0)
<1> DEFINE A == Holders(t)
           B == Holders(t)'
<1>1. A \in SUBSET Client /\ B \in SUBSET Client
  BY DEF Holders
<1>2. ASSUME NEW d \in Client, d # c PROVE d \in A <=> d \in B
  BY <1>2 DEF Holders, Holds
<1>3. (c \in A <=> Holds(c, t)) /\ (c \in B <=> Holds(c, t)')
  BY DEF Holders
<1> HIDE DEF A, B
<1>4. /\ Cardinality(A) \in Nat /\ Cardinality(B) \in Nat
      /\ Cardinality(B) + (IF c \in A THEN 1 ELSE 0) = Cardinality(A) + (IF c \in B THEN 1 ELSE 0)
  BY <1>1, <1>2, ClientsFinite, CardinalityChanges
<1> QED
  BY <1>3, <1>4 DEF A, B

\* A call consumes what the last one got, and makes what it puts.
LEMMA CallCarries ==
  ASSUME LossyTypeOK, Exchange, Exact, NEW c \in Client, NEW place, NEW op \in Operations,
         NEW used, Calls(c, place, op, used)
  PROVE  /\ Exact'
         /\ \A t \in Tuple :
              /\ Carried(t) \in Nat /\ Carried(t)' \in Nat
              /\ Carried(t)' + (IF answer[c].tuple = t THEN 1 ELSE 0) =
                   Carried(t) + (IF op = OutOf(t) THEN 1 ELSE 0)
<1>1. /\ call[c] = NULL
      /\ call' = [call EXCEPT ![c] = op]
      /\ answer' = [answer EXCEPT ![c] = Pending]
      /\ UNCHANGED <<space, served, refused>>
  BY DEF Calls, Asks
<1>2. call'[c] = op /\ op # NULL /\ served'[c] = <<>>
  BY <1>1, OperationFields DEF LossyTypeOK, Exchange, ClientFits
<1>3. \A d \in Client :
        d # c => call'[d] = call[d] /\ served'[d] = served[d] /\ answer'[d] = answer[d]
  BY <1>1 DEF LossyTypeOK
<1>4. ASSUME NEW t \in Tuple
      PROVE  /\ Carried(t) \in Nat /\ Carried(t)' \in Nat
             /\ Carried(t)' + (IF answer[c].tuple = t THEN 1 ELSE 0) =
                  Carried(t) + (IF op = OutOf(t) THEN 1 ELSE 0)
  <2>1. Holds(c, t) <=> answer[c].tuple = t
    BY <1>1 DEF Holds
  <2>2. Holds(c, t)' <=> op = OutOf(t)
    <3>1. op.kind = "out" => (op = OutOf(t) <=> Holds(c, t)')
      BY <1>2 DEF Holds, OutOf
    <3>2. op.kind # "out" => op # OutOf(t) /\ ~Holds(c, t)'
      BY <1>2, OperationFields DEF Holds
    <3> QED
      BY <3>1, <3>2
  <2>3. /\ Cardinality(Holders(t)) \in Nat /\ Cardinality(Holders(t))' \in Nat
        /\ Cardinality(Holders(t))' + (IF Holds(c, t) THEN 1 ELSE 0) =
             Cardinality(Holders(t)) + (IF Holds(c, t)' THEN 1 ELSE 0)
    BY <1>3, HoldersChange
  <2>4. space'[t] = space[t] /\ space[t] \in Nat
    BY <1>1, CarriedType
  <2>5. Carried(t)' = space'[t] + Cardinality(Holders(t))'
    BY DEF Carried
  <2> QED
    BY <2>1, <2>2, <2>3, <2>4, <2>5 DEF Carried
<1>5. Exact'
  BY <1>1 DEF Exact
<1> QED
  BY <1>4, <1>5

\* Without a fault the space only moves tuples.
LEMMA SpaceCarries ==
  ASSUME LossyTypeOK, Exchange, Exact, NEW c \in Client, Operates(c) \/ Finishes(c)
  PROVE  Exact' /\ \A t \in Tuple : Carried(t)' = Carried(t)
<1> DEFINE Moved(t) == space'[t] + (IF Holds(c, t)' THEN 1 ELSE 0) =
                         space[t] + (IF Holds(c, t) THEN 1 ELSE 0)
           Others == \A d \in Client :
             d # c => /\ call'[d] = call[d] /\ served'[d] = served[d] /\ answer'[d] = answer[d]
                      /\ refused'[d] = refused[d]
           ExactHere == Len(served'[c]) <= 1 /\ (served'[c] # <<>> => ~refused'[c])
<1>1. ASSUME Others, ExactHere, \A t \in Tuple : space'[t] \in Nat /\ Moved(t)
      PROVE  Exact' /\ \A t \in Tuple : Carried(t)' = Carried(t)
  <2>1. Exact'
    BY <1>1 DEF Exact
  <2>2. ASSUME NEW t \in Tuple PROVE Carried(t)' = Carried(t)
    <3>1. /\ Cardinality(Holders(t)) \in Nat /\ Cardinality(Holders(t))' \in Nat
          /\ Cardinality(Holders(t))' + (IF Holds(c, t) THEN 1 ELSE 0) =
               Cardinality(Holders(t)) + (IF Holds(c, t)' THEN 1 ELSE 0)
      BY <1>1, HoldersChange
    <3>2. space[t] \in Nat /\ space'[t] \in Nat /\ Moved(t)
      BY <1>1, CarriedType
    <3>3. Carried(t)' = space'[t] + Cardinality(Holders(t))'
      BY DEF Carried
    <3> QED
      BY <3>1, <3>2, <3>3 DEF Carried
  <2> QED
    BY <2>1, <2>2
<1>2. call[c] \in Operations \cup {NULL} /\ served[c] \in Seq(Tuple) /\ space \in [Tuple -> Nat]
  BY DEF LossyTypeOK
<1>3. CASE FirstServing(c) /\ Puts(c)
  <2> DEFINE u == call[c].tuple
  <2>1. /\ call[c] # NULL /\ call[c].kind = "out" /\ served[c] = <<>> /\ ~refused[c]
        /\ space' = [space EXCEPT ![u] = @ + 1]
        /\ served' = [served EXCEPT ![c] = Append(@, u)]
        /\ UNCHANGED <<call, refused, answer>>
    BY <1>3 DEF Puts, Doing, Serves, FirstServing
  <2>2. u \in Tuple /\ call[c] = OutOf(u)
    BY <1>2, <2>1, OperationFields
  <2>3. served'[c] = <<u>> /\ <<u>> # <<>>
    BY <2>1 DEF LossyTypeOK
  <2>4. ASSUME NEW t \in Tuple PROVE space'[t] \in Nat /\ Moved(t)
    <3>1. Holds(c, t) <=> t = u
      BY <2>1, <2>2, OperationFields DEF Holds
    <3>2. ~Holds(c, t)'
      BY <2>1, <2>3 DEF Holds
    <3>3. space[t] \in Nat /\ space'[t] = IF t = u THEN space[t] + 1 ELSE space[t]
      BY <1>2, <2>1, <2>2
    <3> QED
      BY <3>1, <3>2, <3>3
  <2>5. Others /\ ExactHere
    BY <2>1, <2>3 DEF LossyTypeOK
  <2> QED
    BY <1>1, <2>4, <2>5
<1>4. CASE FirstServing(c) /\ Takes(c)
  <2>1. PICK u \in Tuple : /\ space[u] > 0
                           /\ space' = [space EXCEPT ![u] = @ - 1]
                           /\ served' = [served EXCEPT ![c] = Append(@, u)]
                           /\ UNCHANGED <<call, refused, answer>>
    BY <1>4 DEF Takes, Fits, Serves
  <2>2. call[c] # NULL /\ call[c].kind = "inp" /\ served[c] = <<>> /\ ~refused[c]
    BY <1>4 DEF Takes, Doing, FirstServing
  <2>3. served'[c] = <<u>>
    BY <2>1, <2>2 DEF LossyTypeOK
  <2>4. ASSUME NEW t \in Tuple PROVE space'[t] \in Nat /\ Moved(t)
    <3>1. ~Holds(c, t)
      BY <2>2 DEF Holds
    <3>2. Holds(c, t)' <=> t = u
      BY <2>1, <2>2, <2>3 DEF Holds
    <3>3. space[t] \in Nat /\ space'[t] = IF t = u THEN space[t] - 1 ELSE space[t]
      BY <1>2, <2>1
    <3> QED
      BY <2>1, <3>1, <3>2, <3>3
  <2>5. Others /\ ExactHere
    BY <2>1, <2>2, <2>3 DEF LossyTypeOK
  <2> QED
    BY <1>1, <2>4, <2>5
<1>5. CASE FirstServing(c) /\ FindsNone(c)
  <2>1. /\ refused' = [refused EXCEPT ![c] = TRUE] /\ UNCHANGED <<space, call, served, answer>>
        /\ served[c] = <<>>
    BY <1>5 DEF FindsNone, FirstServing
  <2>2. ASSUME NEW t \in Tuple PROVE space'[t] \in Nat /\ Moved(t)
    BY <1>2, <2>1 DEF Holds
  <2>3. Others /\ ExactHere
    BY <2>1 DEF LossyTypeOK
  <2> QED
    BY <1>1, <2>2, <2>3
<1>6. CASE Finishes(c)
  <2>1. PICK res \in Answers(c) \cup {Failed} : answer' = [answer EXCEPT ![c] = res]
    BY <1>6 DEF Finishes, Returns
  <2>2. /\ call[c] # NULL
        /\ call' = [call EXCEPT ![c] = NULL]
        /\ served' = [served EXCEPT ![c] = <<>>]
        /\ refused' = [refused EXCEPT ![c] = FALSE]
        /\ UNCHANGED space
    BY <1>6 DEF Finishes, Returns
  <2>3. answer'[c] = res /\ call'[c] = NULL /\ served'[c] = <<>>
    BY <2>1, <2>2 DEF LossyTypeOK
  <2>4. res \in Answers(c)
    BY <1>6, <2>1, <2>3 DEF Finishes
  <2>5. ASSUME NEW t \in Tuple PROVE Holds(c, t) <=> Holds(c, t)'
    <3>1. Holds(c, t)' <=> res.tuple = t
      BY <2>3 DEF Holds
    <3>2. t # NULL
      BY NothingAssumption
    <3>3. CASE call[c].kind = "out"
      BY <2>2, <2>4, <3>1, <3>2, <3>3 DEF Answers, Answer, Holds
    <3>4. CASE call[c].kind # "out" /\ served[c] = <<>>
      BY <2>2, <2>4, <3>1, <3>2, <3>4 DEF Answers, Answer, Holds
    <3>5. CASE call[c].kind # "out" /\ served[c] # <<>>
      <4>1. ~refused[c] /\ Len(served[c]) = 1
        <5>1. Len(served[c]) \in Nat /\ Len(served[c]) # 0
          BY <1>2, <3>5, EmptySeq
        <5>2. Len(served[c]) <= 1 /\ ~refused[c]
          BY <3>5 DEF Exact
        <5>3. \A n \in Nat : n # 0 /\ n <= 1 => n = 1
          OBVIOUS
        <5> QED
          BY <5>1, <5>2, <5>3
      <4>2. served[c] = <<served[c][1]>> /\ DOMAIN served[c] = {1}
        BY <1>2, <4>1
      <4>3. res.tuple = served[c][1]
        BY <2>4, <3>5, <4>1, <4>2 DEF Answers, Answer
      <4>4. Holds(c, t) <=> served[c][1] = t
        BY <2>2, <3>5, <4>2 DEF Holds
      <4> QED
        BY <3>1, <4>3, <4>4
    <3> QED
      BY <3>3, <3>4, <3>5
  <2>6. ASSUME NEW t \in Tuple PROVE space'[t] \in Nat /\ Moved(t)
    BY <1>2, <2>2, <2>5
  <2>7. Others /\ ExactHere
    BY <2>1, <2>2, <2>3 DEF LossyTypeOK
  <2> QED
    BY <1>1, <2>6, <2>7
<1> QED
  BY <1>3, <1>4, <1>5, <1>6 DEF Operates, SpaceWorks

\* As long as there was no fault, a step of the space was one of these.
LEMMA FaultFree ==
  ASSUME faults \in Nat, NEW c \in Client, SpaceSteps(c), faults' = 0
  PROVE  Operates(c) \/ Finishes(c)
BY DEF SpaceSteps, Fault

\* A step of a device consumes what it got and makes what it puts.
LEMMA DeviceCarries ==
  ASSUME HonestApplications, Exact, NEW c \in Client, DeviceSteps(c)
  PROVE  /\ Exact' /\ call[c] = NULL
         /\ \A t \in Tuple :
              /\ Carried(t) \in Nat /\ Carried(t)' \in Nat
              /\ Carried(t)' + (IF answer[c].tuple = t THEN 1 ELSE 0) =
                   Carried(t) + (IF call'[c] = OutOf(t) THEN 1 ELSE 0)
<1>1. LossyTypeOK /\ Places /\ Statics /\ Exchange
  BY DEF HonestApplications, Typed
<1>2. PICK place \in PlacesOf(c), op \in Operations, used \in Nat :
        Calls(c, place, op, used) /\ Sound(c, place, op, used)
  BY <1>1, DeviceCalls DEF SoundCall
<1>3. call'[c] = op /\ call[c] = NULL
  BY <1>1, <1>2 DEF Calls, Asks, LossyTypeOK
<1> QED
  BY <1>1, <1>2, <1>3, CallCarries

\* What the operation under way is, after a call.
LEMMA CallIs ==
  ASSUME LossyTypeOK, NEW c \in Client, NEW place, NEW op, NEW used, Calls(c, place, op, used)
  PROVE  call'[c] = op
BY DEF LossyTypeOK, Calls, Asks

-----------------------------------------------------------------------------
(***************************************************************************)
(* The balance of the changes of direction.                                *)
(***************************************************************************)
Up == {w \in Worker : status[w] # 0}

Balanced ==
  first_counter + Carried(Message2(0)) + shifts =
    second_counter + Carried(Message2(1)) + Cardinality(Up)

BalancedWithoutFaults == faults = 0 => Exact /\ Balanced

\* Where no change of direction is asked for, none was got.
LEMMA NotThere ==
  ASSUME LossyTypeOK, Exchange, NEW c \in Client, NEW t \in Tuple,
         device_pc[c] \notin Asking \/ t[2].value # NameAt(device_pc[c])
  PROVE  answer[c].tuple # t
<1>1. t # NULL
  BY NothingAssumption
<1> QED
  BY <1>1 DEF Exchange, ClientFits, FitsName

LEMMA UpType == Cardinality(Up) \in Nat
<1>1. IsFiniteSet(Up)
  BY FS_Subset DEF Up
<1> QED
  BY <1>1, FS_CardinalityType

\* A worker with a pin up is one more after a rise, one less after a fall, and the
\* same after a shift.
LEMMA UpChanges ==
  ASSUME Statics, NEW w \in Worker, NEW new_status, status' = [status EXCEPT ![w] = new_status]
  PROVE  /\ Cardinality(Up)' \in Nat
         /\ Cardinality(Up)' + ToBool(status[w]) = Cardinality(Up) + ToBool(new_status)
<1> DEFINE A == Up
           B == Up'
<1>1. A \in SUBSET Worker /\ B \in SUBSET Worker
  BY DEF Up
<1>2. status'[w] = new_status
  BY DEF Statics
<1>3. \A x \in Worker : x # w => (x \in A <=> x \in B)
  BY DEF Up, Statics
<1>4. (w \in A <=> status[w] # 0) /\ (w \in B <=> new_status # 0)
  BY <1>2 DEF Up
<1> HIDE DEF A, B
<1>5. /\ Cardinality(A) \in Nat /\ Cardinality(B) \in Nat
      /\ Cardinality(B) + (IF w \in A THEN 1 ELSE 0) = Cardinality(A) + (IF w \in B THEN 1 ELSE 0)
  BY <1>1, <1>3, CardinalityChanges
<1>6. Cardinality(B) + ToBool(status[w]) = Cardinality(A) + ToBool(new_status)
  BY <1>4, <1>5 DEF ToBool
<1> QED
  BY <1>5, <1>6 DEF A, B

LEMMA DeviceBalances ==
  ASSUME HonestApplications, Exact, Balanced, NEW c \in Client, DeviceSteps(c)
  PROVE  Balanced'
<1> DEFINE m0 == Message2(0)
           m1 == Message2(1)
<1>1. LossyTypeOK /\ Places /\ Statics /\ Exchange
  BY DEF HonestApplications, Typed
<1>2. m0 \in Tuple /\ m1 \in Tuple
  BY MessagesAreTuples
<1>3. m0 # m1 /\ m0[2].value = direction_changed /\ m1[2].value = direction_changed
  BY MessageFields DEF Message2, Bool
<1> HIDE DEF m0, m1
<1>4. /\ Carried(m0) \in Nat /\ Carried(m0)' \in Nat
      /\ Carried(m1) \in Nat /\ Carried(m1)' \in Nat
      /\ Carried(m0)' + (IF answer[c].tuple = m0 THEN 1 ELSE 0) =
           Carried(m0) + (IF call'[c] = OutOf(m0) THEN 1 ELSE 0)
      /\ Carried(m1)' + (IF answer[c].tuple = m1 THEN 1 ELSE 0) =
           Carried(m1) + (IF call'[c] = OutOf(m1) THEN 1 ELSE 0)
  BY <1>2, DeviceCarries
<1>5. /\ first_counter \in Nat /\ second_counter \in Nat
      /\ shifts \in Nat /\ Cardinality(Up) \in Nat
  BY <1>1, UpType DEF Statics
<1>6. first_counter + Carried(m0) + shifts = second_counter + Carried(m1) + Cardinality(Up)
  BY DEF Balanced, m0, m1
<1>7. ASSUME first_counter' + Carried(m0)' + shifts' =
               second_counter' + Carried(m1)' + Cardinality(Up)'
      PROVE  Balanced'
  BY <1>7 DEF Balanced, m0, m1, Message2, Uint, Name, Bool
<1>8. device_pc[c] # "direction" => answer[c].tuple # m0 /\ answer[c].tuple # m1
  <2>1. device_pc[c] # "direction" => NameAt(device_pc[c]) # direction_changed
    BY NamesDiffer DEF NameAt
  <2> QED
    BY <1>1, <1>2, <1>3, <2>1, NotThere
\* A call that puts no change of direction.
<1>9. ASSUME NEW op, call'[c] = op, op.kind # "out" \/ op.tuple[2].value # direction_changed
      PROVE  call'[c] # OutOf(m0) /\ call'[c] # OutOf(m1)
  BY <1>3, <1>9, OperationFields
\* Neither got nor put, and nothing counted.
<1>10. ASSUME answer[c].tuple # m0, answer[c].tuple # m1,
              call'[c] # OutOf(m0), call'[c] # OutOf(m1), UNCHANGED <<counterVars, pinVars>>
       PROVE  Balanced'
  <2>1. UNCHANGED <<first_counter, second_counter, shifts>> /\ Cardinality(Up)' = Cardinality(Up)
    BY <1>10 DEF counterVars, pinVars, Up
  <2> QED
    BY <1>4, <1>5, <1>6, <1>7, <1>10, <2>1
<1>11. CASE c = Master /\ CountDirection
  <2>1. device_pc[c] = "direction" /\ UNCHANGED <<status, shifts>>
    BY <1>11 DEF CountDirection, After, pinVars
  <2>2. call'[c] \in {OutOf(Message1(check_if_prime, next)), InpOf(Any1(is_prime))}
    BY <1>1, <1>11, CallIs DEF CountDirection, SendRequest, AquireResponse
  <2>3. call'[c] # OutOf(m0) /\ call'[c] # OutOf(m1)
    <3>1. call'[c].kind # "out" \/ call'[c].tuple[2].value # direction_changed
      BY <2>2, OperationFields, MessageFields, NamesDiffer
    <3> QED
      BY <3>1, <1>9
  <2>4. Cardinality(Up)' = Cardinality(Up)
    BY <2>1 DEF Up
  <2>5. CASE ~Got(c)
    <3>1. answer[c].tuple # m0 /\ answer[c].tuple # m1
      BY <1>2, <2>5, NothingAssumption DEF Got
    <3>2. UNCHANGED <<first_counter, second_counter>>
      BY <1>1, <1>11, <2>5 DEF CountDirection, Statics
    <3> QED
      BY <1>4, <1>5, <1>6, <1>7, <2>1, <2>3, <2>4, <3>1, <3>2
  <2>6. CASE Got(c)
    <3>1. Payload(c) \in {0, 1} /\ answer[c].tuple = Message2(Payload(c))
      BY <1>1, <2>1, <2>6, GotByPlace
    <3>2. CASE Payload(c) = 0
      <4>1. answer[c].tuple = m0 /\ answer[c].tuple # m1
        BY <1>3, <3>1, <3>2 DEF m0
      <4>2. first_counter' = first_counter + 1 /\ second_counter' = second_counter
        BY <1>1, <1>11, <2>6, <3>2 DEF CountDirection, Statics
      <4> QED
        BY <1>4, <1>5, <1>6, <1>7, <2>1, <2>3, <2>4, <4>1, <4>2
    <3>3. CASE Payload(c) = 1
      <4>1. answer[c].tuple = m1 /\ answer[c].tuple # m0
        BY <1>3, <3>1, <3>3 DEF m1
      <4>2. first_counter' = first_counter /\ second_counter' = second_counter + 1
        BY <1>1, <1>11, <2>6, <3>3 DEF CountDirection, Statics
      <4> QED
        BY <1>4, <1>5, <1>6, <1>7, <2>1, <2>3, <2>4, <4>1, <4>2
    <3> QED
      BY <3>1, <3>2, <3>3
  <2> QED
    BY <2>5, <2>6
<1>12. CASE c = Master /\ (PrimeResponse \/ NotPrimeResponse \/ RequestSent)
  <2>1. device_pc[c] # "direction" /\ UNCHANGED <<counterVars, pinVars>>
    BY <1>12 DEF PrimeResponse, NotPrimeResponse, RequestSent, After
  <2>2. call'[c] \in {InpOf(Any1(is_not_prime)), InpOf(Any2)}
    BY <1>1, <1>12, CallIs DEF PrimeResponse, NotPrimeResponse, RequestSent, AquireDirection
  <2>3. call'[c].kind # "out"
    BY <2>2, OperationFields
  <2> QED
    BY <1>8, <1>9, <1>10, <2>1, <2>3
<1>13. CASE c \in Worker /\ WorkerSteps(c)
  <2>1. UNCHANGED counterVars /\ device_pc[c] # "direction"
    BY <1>1, <1>13 DEF WorkerSteps, Places, PlacesOf, WorkerPlace
  <2>2. answer[c].tuple # m0 /\ answer[c].tuple # m1
    BY <1>8, <2>1
  <2>3. ASSUME GetTask(c), UNCHANGED pinVars PROVE Balanced'
    <3>1. call'[c] = InpOf(Any1(check_if_prime))
      BY <1>1, <2>3, CallIs DEF GetTask
    <3>2. call'[c].kind # "out"
      BY <3>1, OperationFields
    <3> QED
      BY <1>9, <1>10, <2>1, <2>2, <2>3, <3>2
  <2>4. ASSUME SendResult(c) PROVE Balanced'
    <3> DEFINE name == IF FoundPrime(Payload(c)) THEN is_prime ELSE is_not_prime
    <3>1. call'[c] = OutOf(Message1(name, Payload(c))) /\ UNCHANGED pinVars
      BY <1>1, <2>4, CallIs DEF SendResult
    <3>2. name # direction_changed
      BY NamesDiffer
    <3> HIDE DEF name
    <3>3. call'[c].tuple[2].value # direction_changed
      BY <3>1, <3>2, OperationFields, MessageFields
    <3> QED
      BY <1>9, <1>10, <2>1, <2>2, <3>1, <3>3
  <2>5. ASSUME NEW new_status, new_status # status[c],
               Calls(c, "state", OutOf(Message2(ToBool(status[c]))), FreeBlock(pointer[c])),
               status' = [status EXCEPT ![c] = new_status],
               shifts' = shifts + ToBool(status[c]) * ToBool(new_status)
        PROVE  Balanced'
    <3>1. call'[c] = OutOf(Message2(ToBool(status[c])))
      BY <1>1, <2>5, CallIs
    <3>2. /\ Cardinality(Up)' \in Nat
          /\ Cardinality(Up)' + ToBool(status[c]) = Cardinality(Up) + ToBool(new_status)
      BY <1>1, <1>13, <2>5, UpChanges
    <3>3. UNCHANGED <<first_counter, second_counter>> /\ ToBool(new_status) \in {0, 1}
      BY <2>1 DEF counterVars, ToBool
    <3>4. CASE ToBool(status[c]) = 0
      <4>1. call'[c] = OutOf(m0) /\ call'[c] # OutOf(m1)
        BY <1>3, <3>1, <3>4, OperationFields DEF m0
      <4>2. ToBool(new_status) = 1
        BY <2>5, <3>4 DEF ToBool
      <4>3. shifts' = shifts /\ Cardinality(Up)' = Cardinality(Up) + 1
        BY <1>5, <2>5, <3>2, <3>4, <4>2
      <4> QED
        BY <1>4, <1>5, <1>6, <1>7, <2>2, <3>3, <4>1, <4>3
    <3>5. CASE ToBool(status[c]) = 1
      <4>1. call'[c] = OutOf(m1) /\ call'[c] # OutOf(m0)
        BY <1>3, <3>1, <3>5, OperationFields DEF m1
      <4>2. /\ shifts' = shifts + ToBool(new_status)
            /\ Cardinality(Up)' + 1 = Cardinality(Up) + ToBool(new_status)
        BY <1>5, <2>5, <3>2, <3>3, <3>5
      <4> QED
        BY <1>4, <1>5, <1>6, <1>7, <2>2, <3>2, <3>3, <4>1, <4>2
    <3> QED
      BY <3>4, <3>5 DEF ToBool
  <2> QED
    BY <1>13, <2>3, <2>4, <2>5 DEF WorkerSteps, ReadPin, StateSent, Direction
<1> QED
  BY <1>11, <1>12, <1>13 DEF DeviceSteps, MasterSteps

LEMMA NextBalanced ==
  HonestApplications /\ BalancedWithoutFaults /\ [MasterWorkerNext]_allVars
    => BalancedWithoutFaults'
<1> SUFFICES ASSUME HonestApplications, BalancedWithoutFaults, [MasterWorkerNext]_allVars,
                    faults' = 0
             PROVE  Exact' /\ Balanced'
  BY DEF BalancedWithoutFaults
<1>1. LossyTypeOK /\ Exchange /\ faults \in Nat
  BY DEF HonestApplications, Typed, Statics
<1>2. ASSUME NEW c \in Client, DeviceSteps(c) PROVE Exact' /\ Balanced'
  <2>1. Exact /\ Balanced
    BY <1>2 DEF DeviceSteps, BalancedWithoutFaults
  <2> QED
    BY <1>2, <2>1, DeviceCarries, DeviceBalances
<1>3. ASSUME NEW c \in Client, SpaceSteps(c) PROVE Exact' /\ Balanced'
  <2>1. Operates(c) \/ Finishes(c)
    BY <1>1, <1>3, FaultFree
  <2>2. Exact /\ Balanced
    BY <2>1 DEF Operates, Finishes, BalancedWithoutFaults
  <2>3. Exact' /\ \A t \in Tuple : Carried(t)' = Carried(t)
    BY <1>1, <2>1, <2>2, SpaceCarries
  <2>4. UNCHANGED <<first_counter, second_counter, status, shifts>>
    BY <1>3 DEF SpaceSteps, appVars, counterVars, pinVars
  <2>5. Carried(Message2(0))' = Carried(Message2(0)) /\ Carried(Message2(1))' = Carried(Message2(1))
    <3> DEFINE m0 == Message2(0)
               m1 == Message2(1)
    <3>1. m0 \in Tuple /\ m1 \in Tuple
      BY MessagesAreTuples
    <3> HIDE DEF m0, m1
    <3>2. Carried(m0)' = Carried(m0) /\ Carried(m1)' = Carried(m1)
      BY <2>3, <3>1
    <3> QED
      BY <3>2 DEF m0, m1, Message2, Uint, Name, Bool
  <2> QED
    BY <2>2, <2>3, <2>4, <2>5 DEF Balanced, Up
<1>4. CASE UNCHANGED allVars
  <2>1. /\ UNCHANGED <<space, call, served, refused, answer>>
        /\ UNCHANGED <<first_counter, second_counter, status, shifts, faults>>
    BY <1>4 DEF allVars, lossyVars, appVars, counterVars, pinVars
  <2>2. Exact /\ Balanced
    BY <2>1 DEF BalancedWithoutFaults
  <2> QED
    BY <2>1, <2>2
    DEF Exact, Balanced, Carried, Holders, Holds, OutOf, Up, Message2, Uint, Name, Bool
<1> QED
  BY <1>2, <1>3, <1>4 DEF MasterWorkerNext

\* The places a change of direction can be in are those the property counts.
LEMMA OnTheWayIsCarried ==
  ASSUME HonestApplications, Exact, NEW v \in {0, 1}
  PROVE  OnTheWay(v) = Carried(Message2(v))
<1> DEFINE t     == Message2(v)
           put   == {w \in Worker : call[w] = OutOf(t) /\ served[w] = <<>>}
           taken == {k \in DOMAIN served[Master] : served[Master][k] = t}
           got   == After(Master, "direction") /\ answer[Master] = Answer(t)
<1>1. LossyTypeOK /\ Places /\ Exchange
  BY DEF HonestApplications, Typed
<1>2. t \in Tuple /\ t[2].value = direction_changed
  BY MessagesAreTuples, MessageFields
<1> HIDE DEF t
<1>3. OutOf(t) \in Operations /\ OutOf(t) # NULL /\ t # NULL
  BY <1>2, OperationForms, NothingAssumption
<1>4. ASSUME NEW w \in Worker PROVE Holds(w, t) <=> w \in put
  <2>1. device_pc[w] \in WorkerPlace
    BY <1>1 DEF Places, PlacesOf
  <2>2. NameAt(device_pc[w]) # direction_changed
    BY <2>1, NamesDiffer DEF NameAt, WorkerPlace
  <2>3. answer[w].tuple # t
    BY <1>1, <1>2, <2>2, NotThere
  <2>4. ASSUME call[w] # NULL, call[w].kind # "out" PROVE served[w] # <<t>>
    <3>1. FitsPlace(device_pc[w], call[w])
      BY <1>1, <2>4 DEF Exchange, ClientFits
    <3>2. device_pc[w] \in Asking
      BY <2>4, <3>1 DEF FitsPlace
    <3>3. \A i \in DOMAIN served[w] : FitsName(device_pc[w], served[w][i][2].value)
      BY <1>1 DEF Exchange, ClientFits
    <3> QED
      BY <1>2, <2>2, <3>2, <3>3 DEF FitsName
  <2> QED
    BY <1>3, <2>3, <2>4, OperationFields DEF Holds
<1>5. /\ IsFiniteSet(taken) /\ Cardinality(taken) \in Nat
      /\ Cardinality(taken) + (IF got THEN 1 ELSE 0) = IF Holds(Master, t) THEN 1 ELSE 0
  <2>1. served[Master] \in Seq(Tuple)
    BY <1>1 DEF LossyTypeOK
  <2>2. device_pc[Master] \in MasterPlace
    BY <1>1 DEF Places, PlacesOf
  <2>3. \A i \in DOMAIN served[Master] : FitsName(device_pc[Master], served[Master][i][2].value)
    BY <1>1 DEF Exchange, ClientFits
  <2>4. ASSUME taken = {}, got <=> Holds(Master, t)
        PROVE  /\ IsFiniteSet(taken) /\ Cardinality(taken) \in Nat
               /\ Cardinality(taken) + (IF got THEN 1 ELSE 0) =
                    IF Holds(Master, t) THEN 1 ELSE 0
    <3>1. IsFiniteSet(taken) /\ Cardinality(taken) = 0
      BY <2>4, FS_EmptySet
    <3> QED
      BY <2>4, <3>1
  <2>5. CASE call[Master] = NULL
    <3>1. served[Master] = <<>>
      BY <1>1, <2>5 DEF Exchange, ClientFits
    <3>2. Holds(Master, t) <=> answer[Master].tuple = t
      BY <2>5 DEF Holds
    <3>3. answer[Master].tuple = t => answer[Master] = Answer(t)
      BY <1>1, <1>3, AnswerForms
    <3>4. answer[Master].tuple = t => device_pc[Master] = "direction"
      <4>1. device_pc[Master] # "direction" => NameAt(device_pc[Master]) # direction_changed
        BY NamesDiffer DEF NameAt
      <4> QED
        BY <1>1, <1>2, <4>1, NotThere
    <3>5. taken = {}
      BY <3>1
    <3>6. got <=> Holds(Master, t)
      BY <2>5, <3>2, <3>3, <3>4 DEF After, Answer
    <3> QED
      BY <2>4, <3>5, <3>6
  <2>6. CASE call[Master] # NULL /\ call[Master].kind = "out"
    <3>1. FitsPlace(device_pc[Master], call[Master])
      BY <1>1, <2>6 DEF Exchange, ClientFits
    <3>2. device_pc[Master] \notin Asking /\ device_pc[Master] # "state"
      BY <2>2, <2>6, <3>1, OperationFields DEF FitsPlace, MasterPlace
    <3>3. call[Master] # OutOf(t)
      BY <1>2, <3>1, <3>2, OperationFields DEF FitsPlace, FitsName
    <3>4. taken = {}
      BY <1>2, <2>3, <3>2 DEF FitsName
    <3>5. ~got /\ ~Holds(Master, t)
      BY <2>6, <3>3 DEF After, Holds
    <3> QED
      BY <2>4, <3>4, <3>5
  <2>7. CASE call[Master] # NULL /\ call[Master].kind # "out"
    <3>1. ~got /\ (Holds(Master, t) <=> served[Master] = <<t>>)
      BY <2>7 DEF After, Holds
    <3>2. CASE served[Master] = <<t>>
      <4>1. taken = {1}
        BY <3>2
      <4> HIDE DEF taken
      <4>2. IsFiniteSet(taken) /\ Cardinality(taken) = 1
        BY <4>1, FS_Singleton
      <4> QED
        BY <3>1, <3>2, <4>2
    <3>3. CASE served[Master] # <<t>>
      <4>1. Len(served[Master]) <= 1 /\ Len(served[Master]) \in Nat
        BY <2>1 DEF Exact
      <4>2. \A k \in DOMAIN served[Master] : k = 1 /\ Len(served[Master]) = 1
        <5> TAKE k \in DOMAIN served[Master]
        <5>1. k \in 1 .. Len(served[Master])
          BY <2>1
        <5>2. \A n \in Nat : \A i \in 1 .. n : n <= 1 => i = 1 /\ n = 1
          OBVIOUS
        <5> QED
          BY <4>1, <5>1, <5>2
      <4>3. taken = {}
        <5> SUFFICES ASSUME NEW k \in DOMAIN served[Master], served[Master][k] = t PROVE FALSE
          OBVIOUS
        <5>1. Len(served[Master]) = 1 /\ served[Master][1] = t
          BY <4>2
        <5> QED
          BY <2>1, <3>3, <5>1
      <4> QED
        BY <2>4, <3>1, <3>3, <4>3
    <3> QED
      BY <3>2, <3>3
  <2> QED
    BY <2>5, <2>6, <2>7
<1>6. /\ IsFiniteSet(put) /\ Cardinality(put) \in Nat
      /\ Cardinality(Holders(t)) = Cardinality(put) + (IF Holds(Master, t) THEN 1 ELSE 0)
  <2>1. IsFiniteSet(put) /\ put \in SUBSET Worker
    BY FS_Subset
  <2>2. Cardinality(put) \in Nat
    BY <2>1, FS_CardinalityType
  <2>3. Holders(t) = IF Holds(Master, t) THEN put \cup {Master} ELSE put
    BY <1>4 DEF Holders
  <2> HIDE DEF put
  <2>4. Cardinality(put \cup {Master}) = Cardinality(put) + 1
    BY <2>1, FS_AddElement
  <2> QED
    BY <2>1, <2>2, <2>3, <2>4
<1>7. OnTheWay(v) = space[t] + Cardinality(put) + Cardinality(taken) + (IF got THEN 1 ELSE 0)
  BY DEF OnTheWay, t
<1>8. space[t] \in Nat /\ Carried(t) = space[t] + Cardinality(Holders(t))
  BY <1>1, <1>2 DEF LossyTypeOK, Carried
<1>9. OnTheWay(v) = Carried(t)
  <2> HIDE DEF put, taken, got
  <2> QED
    BY <1>5, <1>6, <1>7, <1>8
<1> QED
  BY <1>9 DEF t

LEMMA InitCarriesNothing ==
  ASSUME MasterWorkerInit
  PROVE  Exact /\ \A t \in Tuple : Carried(t) = 0
<1>1. \A c \in Client : call[c] = NULL /\ served[c] = <<>> /\ answer[c].tuple = NULL
  BY DEF MasterWorkerInit, LossyInit, Answer
<1>2. Exact
  BY <1>1 DEF Exact
<1>3. ASSUME NEW t \in Tuple PROVE Carried(t) = 0
  <2>1. t # NULL
    BY NothingAssumption
  <2>2. Holders(t) = {}
    BY <1>1, <2>1 DEF Holders, Holds
  <2>3. space[t] = 0
    BY DEF MasterWorkerInit, LossyInit
  <2> QED
    BY <2>2, <2>3, FS_EmptySet DEF Carried
<1> QED
  BY <1>2, <1>3

LEMMA AlwaysBalanced == MasterWorkerSpec => [](HonestApplications /\ BalancedWithoutFaults)
<1>1. MasterWorkerInit => BalancedWithoutFaults
  <2> SUFFICES ASSUME MasterWorkerInit PROVE Exact /\ Balanced
    BY DEF BalancedWithoutFaults
  <2>1. Exact /\ Carried(Message2(0)) = 0 /\ Carried(Message2(1)) = 0
    BY InitCarriesNothing, MessagesAreTuples
  <2>2. Up = {} /\ first_counter = 0 /\ second_counter = 0 /\ shifts = 0
    BY DEF MasterWorkerInit, Up
  <2> QED
    BY <2>1, <2>2, FS_EmptySet DEF Balanced
<1> QED
  BY <1>1, NextBalanced, AlwaysHonest, PTL DEF MasterWorkerSpec

\* As long as the network makes no mistake, the master has counted every change
\* of a worker's pins, or will: what it has not counted (first_counter and
\* second_counter of application_two_routine) is on its way, once.  What it counts
\* as a fall is a fall to no pin up, or a shift.
THEOREM ChangesBalance == MasterWorkerSpec => []DirectionsBalance
<1>1. HonestApplications /\ BalancedWithoutFaults => DirectionsBalance
  BY OnTheWayIsCarried DEF BalancedWithoutFaults, Balanced, DirectionsBalance, Up
<1> QED
  BY <1>1, AlwaysBalanced, PTL

\* At most one pin of a worker is wired: it reads 0 and at most one other word.
OnePin ==
  \A w \in Worker : \E bit \in Word : \A k \in DOMAIN PinWords[w] : PinWords[w][k] \subseteq {0, bit}

\* No word it may still read is a shift.
NoShift ==
  /\ shifts = 0
  /\ \A w \in Worker : \A k \in DOMAIN PinWords[w] : \A v \in PinWords[w][k] :
       status[w] = 0 \/ v = 0 \/ v = status[w]

LEMMA NextKeepsNoShift ==
  OnePin /\ HonestApplications /\ NoShift /\ [MasterWorkerNext]_allVars => NoShift'
<1> SUFFICES ASSUME OnePin, Statics, NoShift, [MasterWorkerNext]_allVars PROVE NoShift'
  BY DEF HonestApplications, Typed
<1>1. CASE UNCHANGED pinVars
  BY <1>1 DEF pinVars, NoShift
<1>2. ASSUME NEW c \in Worker, NEW new_status \in Word, PinReads(c, new_status)
      PROVE  NoShift'
  <2>1. PICK bit \in Word : \A k \in DOMAIN PinWords[c] : PinWords[c][k] \subseteq {0, bit}
    BY DEF OnePin
  <2>2. changes[c] + 1 \in DOMAIN PinWords[c]
    BY <1>2, PinsAssumption DEF PinReads, Statics
  <2>3. new_status \in {0, bit} /\ (status[c] = 0 \/ new_status = 0)
    BY <1>2, <2>1, <2>2 DEF PinReads, NoShift
  <2>4. shifts' = 0
    BY <1>2, <2>3 DEF PinReads, NoShift, ToBool
  <2>5. ASSUME NEW w \in Worker, NEW k \in DOMAIN PinWords[w], NEW v \in PinWords[w][k]
        PROVE  status'[w] = 0 \/ v = 0 \/ v = status'[w]
    <3>1. CASE w = c
      BY <1>2, <2>1, <2>3, <2>5, <3>1 DEF PinReads, Statics
    <3>2. CASE w # c
      BY <1>2, <2>5, <3>2 DEF PinReads, Statics, NoShift
    <3> QED
      BY <3>1, <3>2
  <2> QED
    BY <2>4, <2>5 DEF NoShift
<1>3. UNCHANGED pinVars \/ \E c \in Worker : WorkerSteps(c)
  BY DEF MasterWorkerNext, DeviceSteps, SpaceSteps, MasterSteps, CountDirection, PrimeResponse,
         NotPrimeResponse, RequestSent, appVars, allVars
<1> QED
  BY <1>1, <1>2, <1>3, WorkerPins

\* Where at most one pin of a worker is wired, the counts are what the comment of
\* application_two_send_state says: rises, 0 -> 1, less falls, 1 -> 0, are the number
\* of pins that are up.
THEOREM OnePinBalance ==
  ASSUME OnePin
  PROVE  MasterWorkerSpec =>
           [](faults = 0 =>
                first_counter + OnTheWay(0) = second_counter + OnTheWay(1) + Cardinality(Up))
<1> DEFINE Balance ==
             faults = 0 =>
               first_counter + OnTheWay(0) = second_counter + OnTheWay(1) + Cardinality(Up)
<1>1. MasterWorkerInit => NoShift
  BY DEF MasterWorkerInit, NoShift
<1>2. HonestApplications /\ NoShift /\ [MasterWorkerNext]_allVars => NoShift'
  BY NextKeepsNoShift
<1>3. HonestApplications /\ NoShift /\ BalancedWithoutFaults => Balance
  <2> SUFFICES ASSUME HonestApplications, NoShift, Exact, Balanced PROVE Balance
    BY DEF BalancedWithoutFaults
  <2>1. OnTheWay(0) = Carried(Message2(0)) /\ OnTheWay(1) = Carried(Message2(1))
    BY OnTheWayIsCarried
  <2>2. first_counter \in Nat /\ Carried(Message2(0)) \in Nat
    BY MessagesAreTuples, CarriedType DEF HonestApplications, Typed, Statics
  <2>3. shifts = 0
    BY DEF NoShift
  <2> QED
    BY <2>1, <2>2, <2>3 DEF Balanced
<1> QED
  BY <1>1, <1>2, <1>3, AlwaysBalanced, PTL DEF MasterWorkerSpec

-----------------------------------------------------------------------------
(***************************************************************************)
(* A round of the primality application.  A number that was asked for and  *)
(* is not answered is in one place: as the task, or as its answer.         *)
(***************************************************************************)
NumberName == {check_if_prime, is_prime, is_not_prime}

InRound(n) ==
  Carried(Message1(check_if_prime, n)) + Carried(Message1(is_prime, n))
    + Carried(Message1(is_not_prime, n))

Asked(n) == app_state = "kSendRequest" => n < next

Answered == {n \in Numbers : Asked(n) /\ InRound(n) = 0}

\* The table and the count say which numbers are answered, and how.
TableRight ==
  /\ \A n \in Numbers : InRound(n) <= 1 /\ (~Asked(n) => InRound(n) = 0)
  /\ workers_responds_clock = Cardinality(Answered)
  /\ \A n \in Numbers : workers_responses[n] = 1 <=> n \in Answered /\ IsPrime(n)

\* Nothing is answered while the master asks; it looks for answers, and starts at
\* the first number, only after it asked for all.
PhaseRight ==
  /\ app_state = "kSendRequest" => workers_responds_clock = 0
  /\ device_pc[Master] \in {"prime", "not_prime"} => app_state = "kAquireResponse"
  /\ app_state = "kAquireResponse" => next = 2

RoundsWithoutFaults == faults = 0 => Exact /\ TableRight /\ PhaseRight

LEMMA AnsweredFinite ==
  /\ IsFiniteSet(Numbers) /\ Cardinality(Numbers) = N - 1
  /\ \A S \in SUBSET Numbers : IsFiniteSet(S) /\ Cardinality(S) \in Nat
<1>1. IsFiniteSet(2 .. N) /\ Cardinality(2 .. N) = N - 2 + 1
  BY FS_Interval
<1>2. ASSUME NEW S \in SUBSET Numbers PROVE IsFiniteSet(S) /\ Cardinality(S) \in Nat
  BY <1>1, FS_Subset, FS_CardinalityType
<1> QED
  BY <1>1, <1>2

LEMMA InRoundType ==
  ASSUME LossyTypeOK, NEW n \in Numbers
  PROVE  InRound(n) \in Nat
<1>1. \A name \in NumberName : Message1(name, n) \in Tuple
  BY MessagesAreTuples DEF NumberName
<1>2. \A name \in NumberName : Carried(Message1(name, n)) \in Nat
  BY <1>1, CarriedType
<1> QED
  BY <1>2 DEF InRound, NumberName

\* What a device got or puts, of a number.
GotNumber(c, n)  == \E name \in NumberName : answer[c].tuple = Message1(name, n)
PutsNumber(c, n) == \E name \in NumberName : call'[c] = OutOf(Message1(name, n))

LEMMA DeviceRounds ==
  ASSUME HonestApplications, Exact, NEW c \in Client, DeviceSteps(c), NEW n \in Numbers
  PROVE  /\ InRound(n) \in Nat /\ InRound(n)' \in Nat
         /\ InRound(n)' + (IF GotNumber(c, n) THEN 1 ELSE 0) =
              InRound(n) + (IF PutsNumber(c, n) THEN 1 ELSE 0)
<1> DEFINE a == Message1(check_if_prime, n)
           b == Message1(is_prime, n)
           d == Message1(is_not_prime, n)
<1>1. a \in Tuple /\ b \in Tuple /\ d \in Tuple
  BY MessagesAreTuples
<1>2. a # b /\ a # d /\ b # d
  BY MessageFields, NamesDiffer
<1> HIDE DEF a, b, d
<1>3. OutOf(a) # OutOf(b) /\ OutOf(a) # OutOf(d) /\ OutOf(b) # OutOf(d)
  BY <1>2, OperationFields
<1>4. \A t \in {a, b, d} :
        /\ Carried(t) \in Nat /\ Carried(t)' \in Nat
        /\ Carried(t)' + (IF answer[c].tuple = t THEN 1 ELSE 0) =
             Carried(t) + (IF call'[c] = OutOf(t) THEN 1 ELSE 0)
  BY <1>1, DeviceCarries
<1>5. /\ InRound(n) = Carried(a) + Carried(b) + Carried(d)
      /\ InRound(n)' = Carried(a)' + Carried(b)' + Carried(d)'
  BY DEF InRound, a, b, d, Message1, Uint, Name
<1>6. /\ GotNumber(c, n) <=> answer[c].tuple \in {a, b, d}
      /\ PutsNumber(c, n) <=> call'[c] \in {OutOf(a), OutOf(b), OutOf(d)}
  BY DEF GotNumber, PutsNumber, NumberName, a, b, d
<1>7. /\ (IF GotNumber(c, n) THEN 1 ELSE 0) =
           (IF answer[c].tuple = a THEN 1 ELSE 0) + (IF answer[c].tuple = b THEN 1 ELSE 0)
             + (IF answer[c].tuple = d THEN 1 ELSE 0)
      /\ (IF PutsNumber(c, n) THEN 1 ELSE 0) =
           (IF call'[c] = OutOf(a) THEN 1 ELSE 0) + (IF call'[c] = OutOf(b) THEN 1 ELSE 0)
             + (IF call'[c] = OutOf(d) THEN 1 ELSE 0)
  BY <1>2, <1>3, <1>6
<1> QED
  BY <1>4, <1>5, <1>7

\* A device that got a number: where, and which.
LEMMA GotNumberByPlace ==
  ASSUME LossyTypeOK, Exchange, NEW c \in Client, NEW n \in Numbers
  PROVE  GotNumber(c, n) <=> Got(c) /\ device_pc[c] # "direction" /\ Payload(c) = n
<1>1. \A name \in NumberName :
        /\ Message1(name, n) \in Tuple /\ Message1(name, n) # NULL
        /\ Message1(name, n)[2].value = name /\ Message1(name, n)[3].value = n
  BY MessagesAreTuples, MessageFields, NothingAssumption DEF NumberName
<1>2. ASSUME GotNumber(c, n) PROVE Got(c) /\ device_pc[c] # "direction" /\ Payload(c) = n
  <2>1. PICK name \in NumberName : answer[c].tuple = Message1(name, n)
    BY <1>2 DEF GotNumber
  <2>2. Got(c) /\ Payload(c) = n /\ answer[c].tuple[2].value = name
    BY <1>1, <2>1 DEF Got, Payload
  <2>3. name = NameAt(device_pc[c])
    BY <2>2, GotByPlace
  <2>4. device_pc[c] # "direction"
    BY <2>3, NamesDiffer DEF NameAt, NumberName
  <2> QED
    BY <2>2, <2>4
<1>3. ASSUME Got(c), device_pc[c] # "direction", Payload(c) = n PROVE GotNumber(c, n)
  <2>1. answer[c].tuple = Message1(NameAt(device_pc[c]), n)
    BY <1>3, GotByPlace
  <2>2. NameAt(device_pc[c]) \in NumberName
    BY <1>3 DEF NameAt, NumberName
  <2> QED
    BY <2>1, <2>2 DEF GotNumber
<1> QED
  BY <1>2, <1>3

\* The numbers answered once the answer that just came is noted.
Noted == Answered \cup (IF Got(Master) THEN {Payload(Master)} ELSE {})

LEMMA NotedRight ==
  ASSUME HonestApplications, TableRight, PhaseRight, call[Master] = NULL,
         device_pc[Master] \in {"prime", "not_prime"}
  PROVE  /\ app_state = "kAquireResponse" /\ next = 2
         /\ Noted \in SUBSET Numbers /\ Counted = Cardinality(Noted)
         /\ \A n \in Numbers :
              Recorded(IF device_pc[Master] = "prime" THEN 1 ELSE 0)[n] = 1
                <=> n \in Noted /\ IsPrime(n)
<1> DEFINE value == IF device_pc[Master] = "prime" THEN 1 ELSE 0
<1>1. LossyTypeOK /\ Statics /\ Exchange
  BY DEF HonestApplications, Typed
<1>2. app_state = "kAquireResponse" /\ next = 2
  BY DEF PhaseRight
<1>3. Answered \in SUBSET Numbers /\ workers_responds_clock = Cardinality(Answered)
  BY DEF Answered, TableRight
<1>4. \A n \in Numbers : workers_responses[n] = 1 <=> n \in Answered /\ IsPrime(n)
  BY DEF TableRight
<1>5. CASE ~Got(Master)
  BY <1>2, <1>3, <1>4, <1>5, AnsweredFinite DEF Noted, Counted, Recorded
<1>6. CASE Got(Master)
  <2> DEFINE v == Payload(Master)
  <2>1. v \in Numbers /\ (IsPrime(v) <=> value = 1)
    BY <1>1, <1>6, GotByPlace
  <2>2. GotNumber(Master, v)
    BY <1>1, <1>6, <2>1, GotNumberByPlace
  <2>3. PICK name \in NumberName : answer[Master].tuple = Message1(name, v)
    BY <2>2 DEF GotNumber
  <2>4. Carried(Message1(name, v)) > 0
    <3> DEFINE t == Message1(name, v)
    <3>1. t \in Tuple
      BY <2>1, MessagesAreTuples DEF NumberName
    <3>2. Holds(Master, t)
      BY <2>3 DEF Holds
    <3> HIDE DEF t
    <3>3. Holders(t) # {} /\ IsFiniteSet(Holders(t))
      BY <3>2, ClientsFinite, FS_Subset DEF Holders
    <3>4. Cardinality(Holders(t)) # 0
      BY <3>3, FS_EmptySet
    <3>5. Cardinality(Holders(t)) > 0 /\ space[t] \in Nat
      BY <1>1, <3>1, <3>4, CarriedType
    <3>6. Carried(t) > 0
      BY <1>1, <3>1, <3>5, CarriedType DEF Carried
    <3> QED
      BY <3>6 DEF t
  <2> HIDE DEF v
  <2>5. InRound(v) > 0
    <3>1. \A m \in NumberName : Message1(m, v) \in Tuple
      BY <2>1, MessagesAreTuples DEF NumberName
    <3>2. \A m \in NumberName : Carried(Message1(m, v)) \in Nat
      BY <1>1, <3>1, CarriedType
    <3> QED
      BY <2>4, <3>2 DEF InRound, NumberName
  <2>6. v \notin Answered
    BY <2>5 DEF Answered
  <2>7. Noted = Answered \cup {v} /\ Counted = workers_responds_clock + 1
    BY <1>1, <1>6 DEF Noted, Counted, v
  <2>8. Cardinality(Answered \cup {v}) = Cardinality(Answered) + 1
    BY <1>3, <2>6, AnsweredFinite, FS_AddElement
  <2>9. Recorded(value) = [workers_responses EXCEPT ![v] = value]
    BY <1>6 DEF Recorded, v
  <2>10. ASSUME NEW n \in Numbers PROVE Recorded(value)[n] = 1 <=> n \in Noted /\ IsPrime(n)
    <3>1. CASE n = v
      BY <1>1, <2>1, <2>7, <2>9, <3>1 DEF Statics
    <3>2. CASE n # v
      BY <1>1, <1>4, <2>7, <2>9, <3>2 DEF Statics
    <3> QED
      BY <3>1, <3>2
  <2> QED
    BY <1>2, <1>3, <2>1, <2>7, <2>8, <2>10
<1> QED
  BY <1>5, <1>6

\* When the master prints, every number is noted.
LEMMA AllNoted ==
  ASSUME HonestApplications, TableRight, PhaseRight, Prints
  PROVE  Noted = Numbers
<1>1. call[Master] = NULL /\ device_pc[Master] = "not_prime" /\ Counted = N - 1
  BY DEF Prints, After, AllAnswered
<1>2. Noted \in SUBSET Numbers /\ Counted = Cardinality(Noted)
  BY <1>1, NotedRight
<1> QED
  BY <1>1, <1>2, AnsweredFinite, FS_Subset

\* A step that moves no number out of the round or into it.
LEMMA SameRound ==
  ASSUME TableRight, \A n \in Numbers : InRound(n)' = InRound(n), UNCHANGED masterVars
  PROVE  TableRight'
<1>1. UNCHANGED <<app_state, next, workers_responses, workers_responds_clock>>
  BY DEF masterVars
<1>2. \A n \in Numbers : Asked(n)' <=> Asked(n)
  BY <1>1 DEF Asked
<1>3. Answered' = Answered
  BY <1>2 DEF Answered
<1>4. \A n \in Numbers : InRound(n)' <= 1 /\ (~Asked(n)' => InRound(n)' = 0)
  BY <1>2 DEF TableRight
<1> QED
  BY <1>1, <1>3, <1>4 DEF TableRight, IsPrime

\* The answer that came leaves the round.
LEMMA NotedRound ==
  ASSUME HonestApplications, Exact, TableRight, PhaseRight, PrimeResponse \/ NotPrimeResponse,
         DeviceSteps(Master)
  PROVE  /\ \A n \in Numbers : InRound(n)' = IF n \in Noted THEN 0 ELSE 1
         /\ UNCHANGED next
<1>1. LossyTypeOK /\ Exchange
  BY DEF HonestApplications, Typed
<1>2. /\ call[Master] = NULL /\ device_pc[Master] \in {"prime", "not_prime"}
      /\ UNCHANGED next
  BY DEF PrimeResponse, NotPrimeResponse, After
<1>3. call'[Master] \in {InpOf(Any1(is_not_prime)), InpOf(Any2)}
  BY <1>1, CallIs DEF PrimeResponse, NotPrimeResponse, AquireDirection
<1>4. app_state = "kAquireResponse"
  BY <1>2 DEF PhaseRight
<1> SUFFICES ASSUME NEW n \in Numbers PROVE InRound(n)' = IF n \in Noted THEN 0 ELSE 1
  BY <1>2
<1>5. /\ InRound(n) \in Nat /\ InRound(n)' \in Nat
      /\ InRound(n)' + (IF GotNumber(Master, n) THEN 1 ELSE 0) =
           InRound(n) + (IF PutsNumber(Master, n) THEN 1 ELSE 0)
  BY DeviceRounds
<1>6. ~PutsNumber(Master, n)
  BY <1>3, OperationFields DEF PutsNumber
<1>7. GotNumber(Master, n) <=> Got(Master) /\ Payload(Master) = n
  BY <1>1, <1>2, GotNumberByPlace
<1>8. InRound(n) <= 1 /\ (n \in Answered <=> InRound(n) = 0)
  BY <1>4 DEF TableRight, Answered, Asked
<1>9. n \in Noted <=> n \in Answered \/ (Got(Master) /\ Payload(Master) = n)
  BY DEF Noted
<1> QED
  BY <1>5, <1>6, <1>7, <1>8, <1>9

\* The master asks for the next number: one more is in the round, none is answered.
LEMMA RequestRound ==
  ASSUME HonestApplications, Exact, TableRight, PhaseRight, CountDirection, SendRequest,
         DeviceSteps(Master)
  PROVE  TableRight' /\ PhaseRight'
<1>1. LossyTypeOK /\ Places /\ Statics /\ Exchange
  BY DEF HonestApplications, Typed
<1>2. /\ app_state = "kSendRequest" /\ device_pc[Master] = "direction"
      /\ UNCHANGED <<workers_responses, workers_responds_clock>>
      /\ device_pc' = [device_pc EXCEPT ![Master] = "request"]
  BY DEF SendRequest, CountDirection, After, Calls
<1>3. workers_responds_clock = 0
  BY <1>2 DEF PhaseRight
<1>4. Answered = {}
  <2>1. IsFiniteSet(Answered) /\ Cardinality(Answered) = 0
    BY <1>3, AnsweredFinite DEF TableRight, Answered
  <2> QED
    BY <2>1, FS_EmptySet
<1>5. next \in Numbers /\ N \in Nat
  BY <1>1 DEF Statics
<1>6. \/ app_state' = "kAquireResponse" /\ next' = 2 /\ next = N
      \/ app_state' = "kSendRequest" /\ next' = next + 1
  BY <1>2, <1>5 DEF SendRequest, AllAsked
<1>7. \A n \in Numbers : Asked(n)' <=> n <= next
  BY <1>5, <1>6 DEF Asked
<1>8. ASSUME NEW n \in Numbers PROVE InRound(n)' = IF n <= next THEN 1 ELSE 0
  <2>1. /\ InRound(n) \in Nat /\ InRound(n)' \in Nat
        /\ InRound(n)' + (IF GotNumber(Master, n) THEN 1 ELSE 0) =
             InRound(n) + (IF PutsNumber(Master, n) THEN 1 ELSE 0)
    BY DeviceRounds
  <2>2. ~GotNumber(Master, n)
    BY <1>1, <1>2, GotNumberByPlace
  <2>3. PutsNumber(Master, n) <=> n = next
    <3>1. call'[Master] = OutOf(Message1(check_if_prime, next))
      BY <1>1, CallIs DEF SendRequest
    <3>2. PutsNumber(Master, n) <=>
            \E name \in NumberName : Message1(check_if_prime, next) = Message1(name, n)
      BY <3>1, OperationFields DEF PutsNumber
    <3> QED
      BY <3>2, MessageFields DEF NumberName
  <2>4. InRound(n) = IF n < next THEN 1 ELSE 0
    BY <1>2, <1>4, <2>1 DEF TableRight, Answered, Asked
  <2> QED
    BY <1>5, <2>1, <2>2, <2>3, <2>4
<1>9. Answered' = {}
  BY <1>7, <1>8 DEF Answered
<1>10. \A n \in Numbers : InRound(n)' <= 1 /\ (~Asked(n)' => InRound(n)' = 0)
  BY <1>7, <1>8
<1>11. \A n \in Numbers : workers_responses'[n] # 1
  BY <1>2, <1>4 DEF TableRight
<1>12. workers_responds_clock' = Cardinality(Answered')
  BY <1>2, <1>3, <1>9, FS_EmptySet
<1>13. TableRight'
  BY <1>9, <1>10, <1>11, <1>12 DEF TableRight, IsPrime
<1>14. PhaseRight'
  <2>1. device_pc'[Master] = "request"
    BY <1>1, <1>2 DEF Places
  <2> QED
    BY <1>2, <1>3, <1>6, <2>1 DEF PhaseRight
<1> QED
  BY <1>13, <1>14

\* An answer is noted; with the last of them the next round begins.
LEMMA AnswerRound ==
  ASSUME HonestApplications, Exact, TableRight, PhaseRight, PrimeResponse \/ NotPrimeResponse,
         DeviceSteps(Master)
  PROVE  TableRight' /\ PhaseRight'
<1>1. LossyTypeOK /\ Places /\ Statics
  BY DEF HonestApplications, Typed
<1>2. call[Master] = NULL /\ device_pc[Master] \in {"prime", "not_prime"}
  BY DEF PrimeResponse, NotPrimeResponse, After
<1> DEFINE noted == Recorded(IF device_pc[Master] = "prime" THEN 1 ELSE 0)
<1>3. /\ app_state = "kAquireResponse" /\ next = 2
      /\ Noted \in SUBSET Numbers /\ Counted = Cardinality(Noted)
      /\ \A n \in Numbers : noted[n] = 1 <=> n \in Noted /\ IsPrime(n)
  BY <1>2, NotedRight
<1>4. /\ \A n \in Numbers : InRound(n)' = IF n \in Noted THEN 0 ELSE 1
      /\ UNCHANGED next
  BY NotedRound
<1>5. device_pc'[Master] \in {"not_prime", "direction"}
  BY <1>1 DEF PrimeResponse, NotPrimeResponse, AquireDirection, Calls, Places
<1>6. ASSUME workers_responses' = noted, workers_responds_clock' = Counted, UNCHANGED app_state
      PROVE  TableRight' /\ PhaseRight'
  <2>1. \A n \in Numbers : Asked(n)'
    BY <1>3, <1>6 DEF Asked
  <2>2. Answered' = Noted
    BY <1>3, <1>4, <2>1 DEF Answered
  <2>3. \A n \in Numbers : InRound(n)' <= 1 /\ (~Asked(n)' => InRound(n)' = 0)
    BY <1>4, <2>1
  <2>4. \A n \in Numbers : workers_responses'[n] = 1 <=> n \in Answered' /\ IsPrime(n)
    BY <1>3, <1>6, <2>2
  <2>5. TableRight'
    <3> HIDE DEF noted
    <3> QED
      BY <1>3, <1>6, <2>2, <2>3, <2>4 DEF TableRight, IsPrime
  <2> QED
    BY <1>3, <1>4, <1>6, <2>5 DEF PhaseRight
<1>7. CASE PrimeResponse
  <2>1. workers_responses' = noted /\ workers_responds_clock' = Counted /\ UNCHANGED app_state
    BY <1>7 DEF PrimeResponse, After
  <2> QED
    BY <1>6, <2>1
<1>8. CASE NotPrimeResponse /\ ~AllAnswered(Counted)
  <2>1. workers_responses' = noted /\ workers_responds_clock' = Counted /\ UNCHANGED app_state
    BY <1>8 DEF NotPrimeResponse, After
  <2> QED
    BY <1>6, <2>1
<1>9. CASE NotPrimeResponse /\ AllAnswered(Counted)
  <2>1. /\ app_state' = "kSendRequest" /\ workers_responses' = NoResponses
        /\ workers_responds_clock' = 0 /\ device_pc'[Master] = "direction"
    BY <1>1, <1>9 DEF NotPrimeResponse, AquireDirection, Calls, Places
  <2>2. Noted = Numbers
    <3>1. Prints
      BY <1>9 DEF NotPrimeResponse, Prints
    <3> QED
      BY <3>1, AllNoted
  <2>3. \A n \in Numbers : InRound(n)' = 0 /\ ~Asked(n)'
    BY <1>3, <1>4, <2>1, <2>2 DEF Asked
  <2>4. Answered' = {}
    BY <2>3 DEF Answered
  <2>5. workers_responds_clock' = Cardinality(Answered')
    BY <2>1, <2>4, FS_EmptySet
  <2>6. \A n \in Numbers : workers_responses'[n] # 1
    BY <2>1 DEF NoResponses
  <2>7. TableRight'
    BY <2>3, <2>4, <2>5, <2>6 DEF TableRight, IsPrime
  <2> QED
    BY <1>3, <1>4, <2>1, <2>7 DEF PhaseRight
<1> QED
  BY <1>7, <1>8, <1>9

\* A worker that answers puts the number it took, and another step moves none.
LEMMA WorkerRound ==
  ASSUME HonestApplications, Exact, TableRight, PhaseRight, NEW c \in Worker, WorkerSteps(c),
         DeviceSteps(c)
  PROVE  TableRight' /\ PhaseRight'
<1>1. LossyTypeOK /\ Places /\ Statics /\ Exchange /\ c # Master
  BY DEF HonestApplications, Typed
<1>2. UNCHANGED masterVars
  BY DEF WorkerSteps
<1>3. ASSUME NEW n \in Numbers PROVE InRound(n)' = InRound(n)
  <2>1. /\ InRound(n) \in Nat /\ InRound(n)' \in Nat
        /\ InRound(n)' + (IF GotNumber(c, n) THEN 1 ELSE 0) =
             InRound(n) + (IF PutsNumber(c, n) THEN 1 ELSE 0)
    BY DeviceRounds
  <2>2. CASE SendResult(c)
    <3> DEFINE v    == Payload(c)
               name == IF FoundPrime(v) THEN is_prime ELSE is_not_prime
    <3>1. device_pc[c] = "task" /\ Got(c)
      BY <2>2 DEF SendResult, After
    <3>2. GotNumber(c, n) <=> v = n
      BY <1>1, <3>1, GotNumberByPlace
    <3>3. call'[c] = OutOf(Message1(name, v))
      BY <1>1, <2>2, CallIs DEF SendResult
    <3>4. name \in NumberName
      BY DEF NumberName
    <3> HIDE DEF name, v
    <3>5. PutsNumber(c, n) <=> \E m \in NumberName : Message1(name, v) = Message1(m, n)
      BY <3>3, OperationFields DEF PutsNumber
    <3>6. PutsNumber(c, n) <=> v = n
      BY <3>4, <3>5, MessageFields
    <3> QED
      BY <2>1, <3>2, <3>6
  <2>3. CASE ReadPin(c) \/ StateSent(c)
    <3>1. ~Got(c)
      BY <1>1, <2>3, GotByPlace DEF ReadPin, StateSent, After, Asking
    <3>2. call'[c] \in {InpOf(Any1(check_if_prime)), OutOf(Message2(ToBool(status[c])))}
      BY <1>1, <2>3, CallIs DEF ReadPin, StateSent, GetTask, Direction
    <3>3. ~PutsNumber(c, n)
      BY <3>2, OperationFields, MessageFields, NamesDiffer DEF PutsNumber, NumberName
    <3>4. ~GotNumber(c, n)
      BY <1>1, <3>1, GotNumberByPlace
    <3> QED
      BY <2>1, <3>3, <3>4
  <2> QED
    BY <2>2, <2>3 DEF WorkerSteps
<1>4. TableRight'
  BY <1>2, <1>3, SameRound
<1>5. device_pc'[Master] = device_pc[Master]
  <2>1. PICK place \in PlacesOf(c), op \in Operations, used \in Nat :
          Calls(c, place, op, used) /\ Sound(c, place, op, used)
    BY <1>1, DeviceCalls DEF SoundCall
  <2> QED
    BY <1>1, <2>1 DEF Calls, Places
<1> QED
  BY <1>2, <1>4, <1>5 DEF PhaseRight, masterVars

LEMMA MasterRound ==
  ASSUME HonestApplications, Exact, TableRight, PhaseRight, MasterSteps, DeviceSteps(Master)
  PROVE  TableRight' /\ PhaseRight'
<1>1. LossyTypeOK /\ Places /\ Statics /\ Exchange
  BY DEF HonestApplications, Typed
\* No number got and none put.
<1>2. ASSUME NEW op, call'[Master] = InpOf(op),
             ~Got(Master) \/ device_pc[Master] = "direction", UNCHANGED masterVars
      PROVE  TableRight'
  <2>1. ASSUME NEW n \in Numbers PROVE InRound(n)' = InRound(n)
    <3>1. /\ InRound(n) \in Nat /\ InRound(n)' \in Nat
          /\ InRound(n)' + (IF GotNumber(Master, n) THEN 1 ELSE 0) =
               InRound(n) + (IF PutsNumber(Master, n) THEN 1 ELSE 0)
      BY DeviceRounds
    <3>2. ~GotNumber(Master, n)
      BY <1>1, <1>2, GotNumberByPlace
    <3>3. ~PutsNumber(Master, n)
      BY <1>2, OperationFields DEF PutsNumber
    <3> QED
      BY <3>1, <3>2, <3>3
  <2> QED
    BY <1>2, <2>1, SameRound
<1>3. CASE CountDirection /\ AquireResponse
  <2>1. /\ call'[Master] = InpOf(Any1(is_prime)) /\ device_pc[Master] = "direction"
        /\ UNCHANGED masterVars /\ app_state = "kAquireResponse"
    BY <1>1, <1>3, CallIs DEF CountDirection, AquireResponse, After, masterVars
  <2>2. TableRight'
    BY <1>2, <2>1
  <2> QED
    BY <2>1, <2>2 DEF PhaseRight, masterVars
<1>4. CASE RequestSent
  <2>1. /\ call'[Master] = InpOf(Any2) /\ device_pc[Master] = "request"
        /\ UNCHANGED masterVars /\ device_pc'[Master] = "direction"
    BY <1>1, <1>4, CallIs DEF RequestSent, AquireDirection, After, Calls, Places
  <2>2. ~Got(Master)
    BY <1>1, <2>1, GotByPlace DEF Asking
  <2>3. TableRight'
    BY <1>2, <2>1, <2>2
  <2> QED
    BY <2>1, <2>3 DEF PhaseRight, masterVars
<1>5. CASE CountDirection /\ SendRequest
  BY <1>5, RequestRound
<1>6. CASE PrimeResponse \/ NotPrimeResponse
  BY <1>6, AnswerRound
<1> QED
  BY <1>3, <1>4, <1>5, <1>6 DEF MasterSteps, CountDirection

LEMMA NextRounds ==
  HonestApplications /\ RoundsWithoutFaults /\ [MasterWorkerNext]_allVars => RoundsWithoutFaults'
<1> SUFFICES ASSUME HonestApplications, RoundsWithoutFaults, [MasterWorkerNext]_allVars,
                    faults' = 0
             PROVE  Exact' /\ TableRight' /\ PhaseRight'
  BY DEF RoundsWithoutFaults
<1>1. LossyTypeOK /\ Exchange /\ faults \in Nat
  BY DEF HonestApplications, Typed, Statics
<1>2. ASSUME NEW c \in Client, DeviceSteps(c) PROVE Exact' /\ TableRight' /\ PhaseRight'
  <2>1. Exact /\ TableRight /\ PhaseRight
    BY <1>2 DEF DeviceSteps, RoundsWithoutFaults
  <2>2. Exact'
    BY <1>2, <2>1, DeviceCarries
  <2>3. TableRight' /\ PhaseRight'
    BY <1>2, <2>1, MasterRound, WorkerRound DEF DeviceSteps
  <2> QED
    BY <2>2, <2>3
<1>3. ASSUME NEW c \in Client, SpaceSteps(c) PROVE Exact' /\ TableRight' /\ PhaseRight'
  <2>1. Operates(c) \/ Finishes(c)
    BY <1>1, <1>3, FaultFree
  <2>2. Exact /\ TableRight /\ PhaseRight
    BY <2>1 DEF Operates, Finishes, RoundsWithoutFaults
  <2>3. Exact' /\ \A t \in Tuple : Carried(t)' = Carried(t)
    BY <1>1, <2>1, <2>2, SpaceCarries
  <2>4. UNCHANGED masterVars /\ UNCHANGED device_pc
    BY <1>3 DEF SpaceSteps, appVars
  <2>5. ASSUME NEW n \in Numbers PROVE InRound(n)' = InRound(n)
    <3> DEFINE a == Message1(check_if_prime, n)
               b == Message1(is_prime, n)
               d == Message1(is_not_prime, n)
    <3>1. a \in Tuple /\ b \in Tuple /\ d \in Tuple
      BY MessagesAreTuples
    <3> HIDE DEF a, b, d
    <3>2. Carried(a)' = Carried(a) /\ Carried(b)' = Carried(b) /\ Carried(d)' = Carried(d)
      BY <2>3, <3>1
    <3>3. /\ InRound(n) = Carried(a) + Carried(b) + Carried(d)
          /\ InRound(n)' = Carried(a)' + Carried(b)' + Carried(d)'
      BY DEF InRound, a, b, d, Message1, Uint, Name
    <3> QED
      BY <3>2, <3>3
  <2>6. TableRight'
    BY <2>2, <2>4, <2>5, SameRound
  <2> QED
    BY <2>2, <2>3, <2>4, <2>6 DEF PhaseRight, masterVars
<1>4. CASE UNCHANGED allVars
  <2>1. /\ UNCHANGED <<space, call, served, refused, answer>>
        /\ UNCHANGED masterVars /\ UNCHANGED <<device_pc, faults>>
    BY <1>4 DEF allVars, lossyVars, appVars
  <2>2. Exact /\ TableRight /\ PhaseRight
    BY <2>1 DEF RoundsWithoutFaults
  <2>3. \A n \in Numbers : InRound(n)' = InRound(n)
    BY <2>1 DEF InRound, Carried, Holders, Holds, OutOf, Message1, Uint, Name
  <2>4. TableRight'
    BY <2>1, <2>2, <2>3, SameRound
  <2> QED
    BY <2>1, <2>2, <2>4 DEF Exact, PhaseRight, masterVars
<1> QED
  BY <1>2, <1>3, <1>4 DEF MasterWorkerNext

LEMMA InitRounds == MasterWorkerInit => RoundsWithoutFaults
<1> SUFFICES ASSUME MasterWorkerInit PROVE Exact /\ TableRight /\ PhaseRight
  BY DEF RoundsWithoutFaults
<1>1. Exact /\ \A n \in Numbers : InRound(n) = 0
  BY InitCarriesNothing, MessagesAreTuples DEF InRound
<1>2. /\ app_state = "kSendRequest" /\ next = 2 /\ workers_responses = NoResponses
      /\ workers_responds_clock = 0 /\ device_pc[Master] = "direction"
  BY DEF MasterWorkerInit
<1>3. \A n \in Numbers : ~Asked(n)
  BY <1>2 DEF Asked
<1>4. Answered = {} /\ Cardinality(Answered) = 0
  BY <1>3, FS_EmptySet DEF Answered
<1>5. TableRight
  BY <1>1, <1>2, <1>3, <1>4 DEF TableRight, NoResponses
<1> QED
  BY <1>1, <1>2, <1>5 DEF PhaseRight

\* As long as the network makes no mistake, the table the master prints in
\* kAquireResponse (application_one_routine) is right for every number: of every
\* round, for every kApplication1N and every number of workers.
THEOREM PrintsRight == MasterWorkerSpec => PrintedRight
<1>1. HonestApplications /\ RoundsWithoutFaults =>
        (Prints /\ faults = 0 => \A n \in Numbers : Recorded(0)[n] = 1 <=> IsPrime(n))
  <2> SUFFICES ASSUME HonestApplications, RoundsWithoutFaults, Prints, faults = 0
               PROVE  \A n \in Numbers : Recorded(0)[n] = 1 <=> IsPrime(n)
    OBVIOUS
  <2>1. TableRight /\ PhaseRight /\ call[Master] = NULL /\ device_pc[Master] = "not_prime"
    BY DEF RoundsWithoutFaults, Prints, After
  <2>2. Noted = Numbers
    BY <2>1, AllNoted
  <2>3. \A n \in Numbers : Recorded(0)[n] = 1 <=> n \in Noted /\ IsPrime(n)
    BY <2>1, NotedRight
  <2> QED
    BY <2>2, <2>3
<1> QED
  BY <1>1, InitRounds, NextRounds, AlwaysHonest, PTL DEF MasterWorkerSpec, PrintedRight
=============================================================================
