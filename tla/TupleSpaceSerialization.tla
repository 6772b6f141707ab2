----------------------- MODULE TupleSpaceSerialization -----------------------
(***************************************************************************)
(* Messages as bytes: libts/common/tuple_space_serialization.c,            *)
(* tuple_space_protocol.c and the encoding and decoding that               *)
(* tuple_space_network.c makes of them.  The other modules carry tuples as *)
(* values; this one shows what is behind that.                             *)
(*                                                                         *)
(* A value is the sequence of its bytes: four of a number, the least       *)
(* significant first; the characters of a string; one of a bool; none in a *)
(* field without data.  A buffer is what has been written of it; <<>> is   *)
(* the 0 the code returns when something does not fit.                     *)
(***************************************************************************)
EXTENDS TupleSpace, SequencesExt

CONSTANTS
  BufferSize,    \* TS_BUFFER_SIZE
  MaxTupleSize,  \* TS_MAX_TUPLE_SIZE
  Host,          \* the machines of the system
  BigEndian,     \* those among them that keep the most significant byte first
  Requests,      \* the messages the clients have to send
  Garbage        \* what the upper half of an uninitialised byte may hold

ASSUME SerializationAssumption ==
  /\ BufferSize \in Nat /\ BufferSize >= 2  \* the bytes before the tuple
  /\ MaxTupleSize \in 1 .. 16
  /\ BigEndian \subseteq Host /\ Garbage \subseteq 0 .. 15

VARIABLES
  host,      \* the machines the client and the server run on
  writer,    \* who has the word
  turn,      \* what happens next to the message
  message,   \* what the writer passes to the library
  datagram,  \* what it made of it
  read       \* what the other side decoded; NULL before

serializationVars == <<host, writer, turn, message, datagram, read>>

Nothing == [type |-> "nothing", kind |-> "none", tuple |-> <<>>]

-----------------------------------------------------------------------------
(***************************************************************************)
(* Fields.                                                                 *)
(***************************************************************************)
TypeCode ==
  [invalid |-> 0, uint |-> 1, int |-> 2, float |-> 3, string |-> 4, bool |-> 5]

NumberType == {"uint", "int", "float"}

\* The flags byte: the type, and the topmost bit when the field contains data.
Flags(field) == TypeCode[field.type] + IF field.hasData THEN 128 ELSE 0

\* The number of that value as a machine holds it, and back.
Memory(h, bytes) == IF h \in BigEndian THEN Reverse(bytes) ELSE bytes

\* Numbers travel with the least significant byte first, and as if they
\* were copied the way they lie.
ts_endianaware_memcpy_Plain(h, bytes) == bytes

ts_endianaware_memcpy(h, bytes) == IF h \in BigEndian THEN Reverse(bytes) ELSE bytes

TwoBytes(n) == <<n % 256, n \div 256>>

\* The length of a string is a ts_ushort_t, which has so many values.
UShortValues == 65536

StringLength(string) == Len(string) % UShortValues

\* The room a string asks for, and as if its length took none.
StringRoom_NoLength(string) == StringLength(string)

StringRoom(string) == StringLength(string) + 2

\* The data after the flags byte; <<>> if the room left is too small.
FieldData(h, field, room) ==
  CASE field.type \in NumberType /\ room >= 4 ->
         ts_endianaware_memcpy(h, Memory(h, field.value))
    [] field.type = "string" /\ room >= StringRoom(field.value) ->
         ts_endianaware_memcpy(h, Memory(h, TwoBytes(StringLength(field.value))))
           \o SubSeq(field.value, 1, StringLength(field.value))
    [] OTHER -> <<>>

\* A bool lies in the flags byte itself.
ts_serialize_tuple_field(h, field, room) ==
  LET data == FieldData(h, field, room - 1) IN
  CASE room = 0 -> <<>>
    [] room > 0 /\ ~field.hasData -> <<Flags(field)>>
    [] room > 0 /\ field.hasData /\ field.type = "bool" ->
         <<Flags(field) + IF field.value # <<0>> THEN 64 ELSE 0>>
    [] room > 0 /\ field.hasData /\ field.type # "bool" ->
         IF data = <<>> THEN <<>> ELSE <<Flags(field)>> \o data

-----------------------------------------------------------------------------
(***************************************************************************)
(* Tuples.                                                                 *)
(***************************************************************************)
\* What is written after each field, and whether all of them have fitted.
Written(h, tuple, room) ==
  LET after[i \in 0 .. Len(tuple)] ==
        IF i = 0 THEN [bytes |-> <<>>, fits |-> TRUE]
        ELSE LET before == after[i - 1]
                 bytes  == ts_serialize_tuple_field(h, tuple[i], room - Len(before.bytes))
             IN [bytes |-> before.bytes \o bytes, fits |-> before.fits /\ bytes # <<>>]
  IN after

ts_serialize_tuple(h, tuple, room) ==
  LET all == Written(h, tuple, room)[Len(tuple)] IN
  IF Len(tuple) <= MaxTupleSize /\ all.fits THEN all.bytes ELSE <<>>

TypeOfCode(code) == CHOOSE type \in FieldType : TypeCode[type] = code

NoField == [type |-> "invalid", hasData |-> FALSE, value |-> <<>>]

\* The field that starts at a place of the buffer, and where the next one does;
\* 0 if the buffer ends too early.
ts_deserialize_tuple_field(h, buffer, place) ==
  LET left    == Len(buffer) - place
      flags   == buffer[place]
      code    == flags % 64
      From(n) == SubSeq(buffer, place + 1, place + n)
      length  == LET bytes == Memory(h, ts_endianaware_memcpy(h, From(2)))
                 IN bytes[1] + 256 * bytes[2]
      Gives(type, hasData, value, next) ==
        [field |-> [type |-> type, hasData |-> hasData, value |-> value], next |-> next]
      Fails == [field |-> NoField, next |-> 0]
  IN
  IF left < 0 THEN Fails
  ELSE IF flags < 128 THEN Gives(TypeOfCode(code), FALSE, <<>>, place + 1)
  ELSE CASE code \in {1, 2, 3} /\ left >= 4 ->
              Gives(TypeOfCode(code), TRUE,
                    Memory(h, ts_endianaware_memcpy(h, From(4))), place + 5)
         [] code = 4 /\ left >= 2 ->
              IF left - 2 < length THEN Fails
              ELSE Gives("string", TRUE,
                         SubSeq(buffer, place + 3, place + 2 + length), place + 3 + length)
         [] code = 5 -> Gives("bool", TRUE, <<(flags \div 64) % 2>>, place + 1)
         [] OTHER    -> Fails

\* What is decoded after each of the fields from a place of the buffer on.
Decoding(h, buffer, size, start) ==
  LET after[i \in 0 .. size] ==
        IF i = 0 THEN [tuple |-> <<>>, next |-> start]
        ELSE LET before == after[i - 1]
                 one    == ts_deserialize_tuple_field(h, buffer, before.next)
             IN IF before.next = 0 THEN before
                ELSE [tuple |-> Append(before.tuple, one.field), next |-> one.next]
  IN after

\* The fields; <<>> if they are not all there.
ts_deserialize_tuple(h, buffer, size, start) ==
  LET all == Decoding(h, buffer, size, start)[size] IN
  IF all.next = 0 THEN <<>> ELSE all.tuple

-----------------------------------------------------------------------------
(***************************************************************************)
(* Messages.  The first byte holds the type in its lower half and the size *)
(* of the tuple less one in the upper one, which a message without a tuple *)
(* leaves as it found it.  GET TUPLE has a byte of flags next.             *)
(***************************************************************************)
TypesFrom(who) ==
  IF who = "client" THEN <<"send", "get", "ack">> ELSE <<"tuple", "lack", "ack", "await">>

MessageCode(who, type) == CHOOSE i \in DOMAIN TypesFrom(who) : TypesFrom(who)[i] = type

\* Bit 0 of the flags asks to remove the tuple, bit 1 to wait for it.
Kinds == <<"rdp", "inp", "rd", "in">>

KindCode(kind) == (CHOOSE i \in DOMAIN Kinds : Kinds[i] = kind) - 1

CarriesTuple(type) == type \in {"send", "get", "tuple"}

\* The bytes before the tuple, and as if a TUPLE had flags as well.
Prefix_LikeGet(msg) == IF msg.type = "send" THEN 1 ELSE 2

Prefix(msg) == IF msg.type = "get" THEN 2 ELSE 1

\* What may be handed to the device; <<>> when the library refuses.
Datagrams(h, who, msg) ==
  LET code   == MessageCode(who, msg.type)
      header == 16 * (Len(msg.tuple) - 1) + code
      flags  == IF msg.type = "get" THEN <<KindCode(msg.kind)>> ELSE <<>>
      tuple  == ts_serialize_tuple(h, msg.tuple, BufferSize - Prefix(msg))
  IN
  CASE ~CarriesTuple(msg.type) -> {<<16 * upper + code>> : upper \in Garbage}
    [] CarriesTuple(msg.type) /\ (Len(msg.tuple) \notin 1 .. 16 \/ tuple = <<>>) -> {<<>>}
    [] CarriesTuple(msg.type) /\ Len(msg.tuple) \in 1 .. 16 /\ tuple # <<>> ->
         {<<header>> \o flags \o tuple}

\* A tuple in which data is missing, or a template in which none is, is dropped.
WellFormed(type, tuple) ==
  tuple # <<>> /\ (ts_does_all_fields_of_tuple_contain_data(tuple) <=> type # "get")

\* The fields the functions of libts/common/tuple_space.c make.
Byte == 0 .. 255

FieldToSend ==
  {f \in [type : NumberType \cup {"string", "bool"}, hasData : BOOLEAN, value : Seq(Byte)] :
     /\ ~f.hasData => f.value = <<>>
     /\ f.hasData /\ f.type \in NumberType => Len(f.value) = 4
     /\ f.hasData /\ f.type = "bool" => f.value \in {<<0>>, <<1>>}}

\* What the functions of the client API let through: they put the id before
\* the fields, and refuse a tuple with a field without data and a template
\* with none, the empty one among them.
ASSUME RequestsAssumption ==
  /\ Requests \subseteq
            [type : {"send"}, kind : {"none"}, tuple : Seq(FieldToSend)]
       \cup [type : {"get"}, kind : {"rdp", "inp", "rd", "in"}, tuple : Seq(FieldToSend)]
       \cup [type : {"ack"}, kind : {"none"}, tuple : {<<>>}]
  /\ \A r \in Requests : /\ CarriesTuple(r.type) => WellFormed(r.type, r.tuple)
                         /\ r.type = "get" => Len(r.tuple) >= 2

\* The callback the other side ends in, and what it passes on.
Decoded(h, who, buffer) ==
  LET code  == buffer[1] % 16
      size  == buffer[1] \div 16 + 1
      type  == TypesFrom(who)[code]
      start == IF type = "get" THEN 3 ELSE 2
      tuple == ts_deserialize_tuple(h, buffer, size, start)
  IN
  CASE code \notin DOMAIN TypesFrom(who) -> Nothing
    [] code \in DOMAIN TypesFrom(who) /\ ~CarriesTuple(type) ->
         [Nothing EXCEPT !.type = type]
    [] code \in DOMAIN TypesFrom(who) /\ CarriesTuple(type) ->
         IF (type = "get" /\ size < 2) \/ ~WellFormed(type, tuple) THEN Nothing
         ELSE [type |-> type,
               kind |-> IF type = "get" THEN Kinds[(buffer[2] % 4) + 1] ELSE "none",
               tuple |-> tuple]

-----------------------------------------------------------------------------
(***************************************************************************)
(* A client's message reaches the server, which answers: a tuple it got    *)
(* goes on to whoever asks for it.                                         *)
(***************************************************************************)
Reader == IF writer = "client" THEN "server" ELSE "client"

SerializationInit ==
  /\ host \in [{"client", "server"} -> Host]
  /\ writer = "client" /\ turn = "write"
  /\ message \in Requests
  /\ datagram = <<>> /\ read = Nothing

Encode ==
  /\ turn = "write"
  /\ datagram' \in Datagrams(host[writer], writer, message)
  /\ turn' = IF datagram' = <<>> THEN "refused" ELSE "read"
  /\ UNCHANGED <<host, writer, message, read>>

Decode ==
  /\ turn = "read"
  /\ read' = Decoded(host[Reader], writer, datagram)
  /\ turn' = "process"
  /\ UNCHANGED <<host, writer, message, datagram>>

\* Another client may run on another machine.
Answer ==
  /\ turn = "process" /\ writer = "client"
  /\ \E type \in CASE read.type = "send" -> {"ack", "tuple"}
                   [] read.type = "get"  -> {"lack", "await"}
                   [] OTHER              -> {"ack"} :
       message' = [type |-> type, kind |-> "none",
                   tuple |-> IF type = "tuple" THEN read.tuple ELSE <<>>]
  /\ \E h \in Host : host' = [host EXCEPT !["client"] = h]
  /\ writer' = "server" /\ turn' = "write"
  /\ datagram' = <<>> /\ read' = Nothing

SerializationNext == Encode \/ Decode \/ Answer

SerializationSpec == SerializationInit /\ [][SerializationNext]_serializationVars

-----------------------------------------------------------------------------
(***************************************************************************)
(* Properties.                                                             *)
(***************************************************************************)
\* The other side reads what was passed to the library, between machines of
\* either byte order, on the first leg and when the tuple is passed on.
ArrivesAsSent == turn = "process" => read = message

\* The bytes a field takes.
FieldSize(field) ==
  CASE ~field.hasData \/ field.type = "bool"       -> 1
    [] field.hasData /\ field.type \in NumberType -> 5
    [] field.hasData /\ field.type = "string"     -> 3 + Len(field.value)

\* The bytes each beginning of a tuple takes.
SizeOf(tuple) ==
  LET upTo[i \in 0 .. Len(tuple)] == IF i = 0 THEN 0 ELSE upTo[i - 1] + FieldSize(tuple[i])
  IN upTo

Fits(msg) ==
  CarriesTuple(msg.type) =>
    /\ Len(msg.tuple) \in 1 .. MaxTupleSize
    /\ (IF msg.type = "get" THEN 2 ELSE 1) + SizeOf(msg.tuple)[Len(msg.tuple)] <= BufferSize

\* A message is sent if it fits into the buffer and refused if it does not;
\* nothing is written past the buffer's end.
SentIfItFits ==
  /\ turn = "read" => Fits(message) /\ Len(datagram) <= BufferSize
  /\ turn = "refused" => ~Fits(message)

\* The server can send on every tuple that it accepted.
AnswerIsSent == turn = "refused" => writer = "client"
=============================================================================
