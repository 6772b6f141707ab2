-------------------- MODULE TupleSpaceSerializationProofs --------------------
(***************************************************************************)
(* What is decoded is what was encoded, for every message of the client    *)
(* library, every size of the buffer and every mix of byte orders.  The    *)
(* bytes of a tuple are described once, by Image and SizeOf; one induction *)
(* shows that the writing loop leaves them in the buffer, another that the *)
(* reading loop finds the fields in them.                                  *)
(***************************************************************************)
EXTENDS TupleSpaceSerialization, DataLemmas

\* strlen goes into 16 bits before anything looks at it; no string of a
\* request is so long that this changes it.
ShortStrings ==
  \A r \in Requests : \A i \in DOMAIN r.tuple : Len(r.tuple[i].value) < UShortValues

ShortField == {field \in FieldToSend : Len(field.value) < UShortValues}

\* What a field is on the wire, whoever writes it: a byte of flags, in which
\* a bool is, and the data.
FirstByte(field) ==
  Flags(field) + IF field.hasData /\ field.type = "bool" /\ field.value # <<0>>
                 THEN 64 ELSE 0

DataOf(field) ==
  IF ~field.hasData \/ field.type = "bool" THEN <<>>
  ELSE IF field.type = "string" THEN TwoBytes(Len(field.value)) \o field.value
  ELSE field.value

Image(field) == <<FirstByte(field)>> \o DataOf(field)

(***************************************************************************)
(* Byte order: what one machine reverses any other reverses back.          *)
(***************************************************************************)
LEMMA ReverseTwice ==
  ASSUME NEW S, NEW s \in Seq(S)
  PROVE  Reverse(s) \in Seq(S) /\ Len(Reverse(s)) = Len(s) /\ Reverse(Reverse(s)) = s
<1>1. s \in [1 .. Len(s) -> S] /\ Len(s) \in Nat
  OBVIOUS
<1>2. Reverse(s) = [i \in 1 .. Len(s) |-> s[(Len(s) - i) + 1]]
  BY DEF Reverse
<1>3. \A i \in 1 .. Len(s) :
        (Len(s) - i) + 1 \in 1 .. Len(s) /\ (Len(s) - ((Len(s) - i) + 1)) + 1 = i
  BY <1>1
<1>4. Reverse(s) \in [1 .. Len(s) -> S]
  BY <1>1, <1>2, <1>3
<1>5. Reverse(s) \in Seq(S) /\ Len(Reverse(s)) = Len(s)
  BY <1>1, <1>4
<1>6. Reverse(Reverse(s)) = [i \in 1 .. Len(s) |-> Reverse(s)[(Len(s) - i) + 1]]
  BY <1>5 DEF Reverse
<1>7. \A i \in 1 .. Len(s) : Reverse(s)[(Len(s) - i) + 1] = s[i]
  BY <1>2, <1>3
<1>8. Reverse(Reverse(s)) = [i \in 1 .. Len(s) |-> s[i]]
  BY <1>6, <1>7, Zenon
<1> QED  BY <1>1, <1>5, <1>8

LEMMA WireOrder ==
  ASSUME NEW h, NEW S, NEW s \in Seq(S)
  PROVE  /\ ts_endianaware_memcpy(h, Memory(h, s)) = s
         /\ Memory(h, ts_endianaware_memcpy(h, s)) = s
BY ReverseTwice DEF ts_endianaware_memcpy, Memory

(***************************************************************************)
(* One field.                                                              *)
(***************************************************************************)
LEMMA FieldCases ==
  ASSUME NEW field \in ShortField
  PROVE  /\ field = [type |-> field.type, hasData |-> field.hasData, value |-> field.value]
         /\ field.hasData \in BOOLEAN
         /\ field.type \in {"uint", "int", "float", "string", "bool"}
         /\ Len(field.value) \in Nat /\ Len(field.value) < UShortValues
         /\ field.value \in Seq(Byte)
         /\ ~field.hasData => field.value = <<>>
         /\ field.hasData /\ field.type \in NumberType =>
              Len(field.value) = 4
         /\ field.hasData /\ field.type = "bool" =>
              field.value \in {<<0>>, <<1>>}
<1>1. /\ field \in [type : NumberType \cup {"string", "bool"}, hasData : BOOLEAN,
                    value : Seq(Byte)]
      /\ Len(field.value) < UShortValues
      /\ ~field.hasData => field.value = <<>>
      /\ field.hasData /\ field.type \in NumberType => Len(field.value) = 4
      /\ field.hasData /\ field.type = "bool" => field.value \in {<<0>>, <<1>>}
  BY DEF ShortField, FieldToSend
<1>2. field = [type |-> field.type, hasData |-> field.hasData, value |-> field.value]
  BY <1>1
<1>3. /\ field.type \in {"uint", "int", "float", "string", "bool"}
      /\ field.hasData \in BOOLEAN
      /\ field.value \in Seq(Byte)
      /\ Len(field.value) \in Nat
  BY <1>1 DEF NumberType
<1> QED  BY <1>1, <1>2, <1>3

LEMMA FlagsByte ==
  ASSUME NEW field \in ShortField
  PROVE  /\ Flags(field) \in Byte
         /\ TypeCode[field.type] \in 1 .. 5
         /\ Flags(field) = TypeCode[field.type] + IF field.hasData THEN 128 ELSE 0
         /\ TypeOfCode(TypeCode[field.type]) = field.type
<1>1. TypeCode[field.type] \in 1 .. 5
  BY FieldCases DEF TypeCode
<1>2. \A type \in FieldType : TypeCode[type] = TypeCode[field.type] => type = field.type
  BY FieldCases DEF TypeCode, FieldType
<1>3. field.type \in FieldType
  BY FieldCases DEF FieldType
<1>4. TypeOfCode(TypeCode[field.type]) = field.type
  BY <1>2, <1>3 DEF TypeOfCode
<1>5. Flags(field) = TypeCode[field.type] + IF field.hasData THEN 128 ELSE 0
  BY DEF Flags
<1>6. Flags(field) \in Byte
  <2>1. Flags(field) \in Nat /\ Flags(field) < 256
    BY <1>1, <1>5
  <2> QED  BY <2>1 DEF Byte
<1> QED  BY <1>1, <1>4, <1>5, <1>6

\* The bytes of a length.
LEMMA LengthBytes ==
  ASSUME NEW n \in Nat, n < UShortValues
  PROVE  /\ TwoBytes(n) \in Seq(Byte) /\ Len(TwoBytes(n)) = 2
         /\ TwoBytes(n)[1] + 256 * TwoBytes(n)[2] = n
         /\ n % UShortValues = n
<1>1. /\ n % 256 \in Nat /\ n % 256 < 256 /\ n \div 256 \in Nat /\ n \div 256 < 256
      /\ n = (n % 256) + 256 * (n \div 256)
  BY SMT DEF UShortValues
<1>2. n % UShortValues = n
  BY SMT DEF UShortValues
<1>3. n % 256 \in Byte /\ n \div 256 \in Byte
  BY <1>1, SMT DEF Byte
<1> HIDE DEF Byte
<1>4. TwoBytes(n) \in Seq(Byte) /\ Len(TwoBytes(n)) = 2
  BY <1>3 DEF TwoBytes
<1>5. TwoBytes(n)[1] + 256 * TwoBytes(n)[2] = n
  BY <1>1 DEF TwoBytes
<1> QED  BY <1>2, <1>4, <1>5

(***************************************************************************)
(* What stands where in the bytes of a field.                              *)
(***************************************************************************)
LEMMA ByteThenBytes ==
  ASSUME NEW S, NEW a \in S, NEW s \in Seq(S)
  PROVE  /\ <<a>> \o s \in Seq(S)
         /\ Len(<<a>> \o s) = 1 + Len(s)
         /\ (<<a>> \o s)[1] = a
         /\ \A k \in 1 .. Len(s) : (<<a>> \o s)[1 + k] = s[k]
<1>1. <<a>> \in Seq(S) /\ Len(<<a>>) = 1 /\ <<a>>[1] = a /\ Len(s) \in Nat
  OBVIOUS
<1>2. \A k \in 1 .. Len(s) : /\ 1 + k \in 1 .. 1 + Len(s) /\ ~(1 + k <= 1)
                             /\ (1 + k) - 1 = k
  BY <1>1
<1>3. 1 \in 1 .. 1 + Len(s)
  BY <1>1
<1> DEFINE c == <<a>> \o s
<1>4. c \in Seq(S) /\ Len(c) = 1 + Len(s)
  BY <1>1, ConcatProperties
<1>5. \A i \in 1 .. 1 + Len(s) : c[i] = IF i <= 1 THEN <<a>>[i] ELSE s[i - 1]
  BY <1>1, ConcatProperties
<1> HIDE DEF c
<1>6. c[1] = a
  BY <1>1, <1>3, <1>5
<1>7. \A k \in 1 .. Len(s) : c[1 + k] = s[k]
  BY <1>2, <1>5
<1> QED  BY <1>4, <1>6, <1>7 DEF c

LEMMA ByteThenByte ==
  ASSUME NEW S, NEW a \in S, NEW c \in S
  PROVE  <<a>> \o <<c>> = <<a, c>>
<1>1. <<c>> \in Seq(S) /\ Len(<<c>>) = 1 /\ <<c>>[1] = c
  OBVIOUS
<1> DEFINE all == <<a>> \o <<c>>
<1>2. <<a, c>> \in Seq(S) /\ Len(<<a, c>>) = 2 /\ <<a, c>>[1] = a /\ <<a, c>>[2] = c
  OBVIOUS
<1>3. /\ all \in Seq(S) /\ Len(all) = 1 + 1 /\ all[1] = a
      /\ \A k \in 1 .. 1 : all[1 + k] = <<c>>[k]
  BY <1>1, ByteThenBytes
<1> HIDE DEF all
<1>4. all[2] = c
  <2>1. 1 \in 1 .. 1 /\ 1 + 1 = 2
    OBVIOUS
  <2> QED  BY <1>1, <1>3, <2>1
<1>5. \A i \in 1 .. Len(all) : all[i] = <<a, c>>[i]
  BY <1>2, <1>3, <1>4
<1>6. all = <<a, c>>
  BY <1>2, <1>3, <1>5, SeqEqual
<1> QED  BY <1>6 DEF all

LEMMA TwoThenBytes ==
  ASSUME NEW S, NEW two \in Seq(S), Len(two) = 2, NEW s \in Seq(S)
  PROVE  /\ two \o s \in Seq(S)
         /\ Len(two \o s) = 2 + Len(s)
         /\ (two \o s)[1] = two[1] /\ (two \o s)[2] = two[2]
         /\ \A k \in 1 .. Len(s) : (two \o s)[2 + k] = s[k]
         /\ two \o s # <<>>
<1>1. Len(s) \in Nat
  OBVIOUS
<1> DEFINE c == two \o s
<1>2. /\ c \in Seq(S) /\ Len(c) = Len(two) + Len(s)
      /\ \A i \in 1 .. Len(two) + Len(s) :
           c[i] = IF i <= Len(two) THEN two[i] ELSE s[i - Len(two)]
  BY ConcatProperties, Zenon
<1> HIDE DEF c
<1>3. c \in Seq(S) /\ Len(c) = 2 + Len(s)
  BY <1>2
<1>4. \A i \in 1 .. 2 + Len(s) : c[i] = IF i <= 2 THEN two[i] ELSE s[i - 2]
  BY <1>2
<1>5. c[1] = two[1] /\ c[2] = two[2]
  BY <1>1, <1>4
<1>6. ASSUME NEW k \in 1 .. Len(s) PROVE c[2 + k] = s[k]
  <2>1. 2 + k \in 1 .. 2 + Len(s) /\ ~(2 + k <= 2) /\ (2 + k) - 2 = k
    BY <1>1
  <2> QED  BY <1>4, <2>1
<1>7. c # <<>>
  BY <1>1, <1>3
<1> QED  BY <1>3, <1>5, <1>6, <1>7 DEF c

LEMMA FirstByteProperties ==
  ASSUME NEW field \in ShortField
  PROVE  /\ FirstByte(field) \in Byte
         /\ field.hasData /\ field.type = "bool" =>
              FirstByte(field) = IF field.value # <<0>> THEN 197 ELSE 133
         /\ ~(field.hasData /\ field.type = "bool") => FirstByte(field) = Flags(field)
<1>1. CASE field.hasData /\ field.type = "bool"
  <2>1. Flags(field) = 133
    BY <1>1, FlagsByte DEF TypeCode
  <2>2. FirstByte(field) = IF field.value # <<0>> THEN 197 ELSE 133
    BY <1>1, <2>1 DEF FirstByte
  <2>3. 133 \in Byte /\ 197 \in Byte
    BY DEF Byte
  <2> QED  BY <1>1, <2>2, <2>3
<1>2. CASE ~(field.hasData /\ field.type = "bool")
  <2>1. Flags(field) \in Byte
    BY FlagsByte
  <2>2. Flags(field) \in Nat
    BY <2>1 DEF Byte
  <2>3. FirstByte(field) = Flags(field)
    BY <1>2, <2>2 DEF FirstByte
  <2> QED  BY <1>2, <2>1, <2>3
<1> QED  BY <1>1, <1>2

LEMMA DataProperties ==
  ASSUME NEW field \in ShortField
  PROVE  /\ DataOf(field) \in Seq(Byte)
         /\ Len(DataOf(field)) \in Nat
         /\ FieldSize(field) = 1 + Len(DataOf(field))
<1>1. CASE ~field.hasData \/ field.type = "bool"
  <2>1. DataOf(field) = <<>> /\ FieldSize(field) = 1
    BY <1>1 DEF DataOf, FieldSize, NumberType
  <2> QED  BY <2>1
<1>2. CASE field.hasData /\ field.type = "string"
  <2>1. Len(field.value) \in Nat /\ Len(field.value) < UShortValues /\ field.value \in Seq(Byte)
    BY FieldCases, Zenon
  <2>2. TwoBytes(Len(field.value)) \in Seq(Byte) /\ Len(TwoBytes(Len(field.value))) = 2
    BY <2>1, LengthBytes
  <2>3. DataOf(field) = TwoBytes(Len(field.value)) \o field.value
    BY <1>2 DEF DataOf
  <2>4. FieldSize(field) = 3 + Len(field.value)
    BY <1>2 DEF FieldSize, NumberType
  <2> DEFINE v   == field.value
             two == TwoBytes(Len(field.value))
  <2> HIDE DEF v, two
  <2>5. v \in Seq(Byte) /\ two \in Seq(Byte) /\ Len(two) = 2 /\ DataOf(field) = two \o v
    BY <2>1, <2>2, <2>3 DEF v, two
  <2>6. DataOf(field) \in Seq(Byte) /\ Len(DataOf(field)) = 2 + Len(v)
    BY <2>5, TwoThenBytes
  <2>7. Len(DataOf(field)) \in Nat /\ FieldSize(field) = 1 + Len(DataOf(field))
    BY <2>1, <2>4, <2>6 DEF v
  <2> QED  BY <2>6, <2>7
<1>3. CASE field.hasData /\ field.type \in NumberType
  <2>1. Len(field.value) = 4 /\ field.value \in Seq(Byte)
    BY <1>3, FieldCases
  <2>2. DataOf(field) = field.value
    BY <1>3 DEF DataOf, NumberType
  <2>3. FieldSize(field) = 5
    BY <1>3 DEF FieldSize, NumberType
  <2>4. Len(DataOf(field)) = 4
    BY <2>1, <2>2
  <2>5. Len(DataOf(field)) \in Nat /\ FieldSize(field) = 1 + Len(DataOf(field))
    BY <2>3, <2>4
  <2> QED  BY <2>1, <2>2, <2>5
<1> QED  BY <1>1, <1>2, <1>3, FieldCases DEF NumberType

LEMMA ImageProperties ==
  ASSUME NEW field \in ShortField
  PROVE  /\ Image(field) \in Seq(Byte)
         /\ FieldSize(field) \in Nat /\ FieldSize(field) >= 1
         /\ Len(Image(field)) = FieldSize(field)
         /\ Image(field) # <<>>
         /\ Image(field)[1] = FirstByte(field)
         /\ \A k \in 1 .. Len(DataOf(field)) : Image(field)[1 + k] = DataOf(field)[k]
<1>1. /\ FirstByte(field) \in Byte /\ DataOf(field) \in Seq(Byte)
      /\ Len(DataOf(field)) \in Nat /\ FieldSize(field) = 1 + Len(DataOf(field))
  BY FirstByteProperties, DataProperties
<1> DEFINE d == DataOf(field)
           f == FirstByte(field)
<1>2. Image(field) = <<f>> \o d
  BY DEF Image
<1> HIDE DEF d, f
<1>3. f \in Byte /\ d \in Seq(Byte) /\ Len(d) \in Nat /\ FieldSize(field) = 1 + Len(d)
  BY <1>1 DEF d, f
<1>4. /\ <<f>> \o d \in Seq(Byte) /\ Len(<<f>> \o d) = 1 + Len(d)
      /\ (<<f>> \o d)[1] = f /\ \A k \in 1 .. Len(d) : (<<f>> \o d)[1 + k] = d[k]
  BY <1>3, ByteThenBytes
<1>5. <<f>> \o d # <<>>
  BY <1>3, <1>4
<1>6. FieldSize(field) \in Nat /\ FieldSize(field) >= 1
  BY <1>3
<1> QED  BY <1>2, <1>3, <1>4, <1>5, <1>6 DEF d, f

\* A field is written if there is room for it, and nothing of it otherwise.
LEMMA FieldIsWritten ==
  ASSUME NEW h, NEW field \in ShortField, NEW room \in Nat
  PROVE  ts_serialize_tuple_field(h, field, room) =
           IF FieldSize(field) <= room THEN Image(field) ELSE <<>>
<1>1. /\ FieldSize(field) \in Nat /\ FieldSize(field) >= 1
      /\ field.value \in Seq(Byte) /\ Len(field.value) \in Nat
      /\ Len(field.value) < UShortValues
  BY ImageProperties, FieldCases
<1>2. Flags(field) \in Byte /\ <<Flags(field)>> \in Seq(Byte)
  BY FlagsByte
<1>3. CASE room = 0
  BY <1>1, <1>3 DEF ts_serialize_tuple_field
<1>4. CASE room > 0 /\ (~field.hasData \/ field.type = "bool")
  <2>1. DataOf(field) = <<>> /\ FieldSize(field) = 1
    BY <1>4 DEF DataOf, FieldSize, NumberType
  <2>2. FirstByte(field) \in Byte
    BY FirstByteProperties
  <2>3. Image(field) = <<FirstByte(field)>>
    BY <2>1, <2>2 DEF Image
  <2>4. ts_serialize_tuple_field(h, field, room) = <<FirstByte(field)>>
    <3>1. CASE ~field.hasData
      <4>1. ts_serialize_tuple_field(h, field, room) = <<Flags(field)>>
        BY <1>4, <3>1 DEF ts_serialize_tuple_field
      <4> QED  BY <3>1, <4>1, FirstByteProperties
    <3>2. CASE field.hasData /\ field.type = "bool"
      BY <1>4, <3>2 DEF ts_serialize_tuple_field, FirstByte
    <3> QED  BY <1>4, <3>1, <3>2
  <2> QED  BY <1>4, <2>1, <2>3, <2>4
<1>5. ASSUME room > 0, field.hasData, field.type # "bool",
             FieldData(h, field, room - 1) =
               IF FieldSize(field) <= room THEN DataOf(field) ELSE <<>>,
             DataOf(field) # <<>>
      PROVE  ts_serialize_tuple_field(h, field, room) =
               IF FieldSize(field) <= room THEN Image(field) ELSE <<>>
  <2>1. FirstByte(field) = Flags(field)
    BY <1>5, FirstByteProperties
  <2>2. ts_serialize_tuple_field(h, field, room) =
          IF FieldData(h, field, room - 1) = <<>> THEN <<>>
          ELSE <<Flags(field)>> \o FieldData(h, field, room - 1)
    BY <1>5 DEF ts_serialize_tuple_field
  <2> QED  BY <1>5, <2>1, <2>2, Zenon DEF Image
<1>6. CASE room > 0 /\ field.hasData /\ field.type = "string"
  <2>1. StringLength(field.value) = Len(field.value)
    BY <1>1, LengthBytes DEF StringLength
  <2>2. SubSeq(field.value, 1, StringLength(field.value)) = field.value
    BY <1>1, <2>1
  <2>3. /\ TwoBytes(Len(field.value)) \in Seq(Byte)
        /\ Len(TwoBytes(Len(field.value))) = 2
    BY <1>1, LengthBytes
  <2>4. ts_endianaware_memcpy(h, Memory(h, TwoBytes(StringLength(field.value)))) =
          TwoBytes(Len(field.value))
    BY <2>1, <2>3, WireOrder
  <2>5. DataOf(field) = TwoBytes(Len(field.value)) \o field.value
    BY <1>6 DEF DataOf
  <2>6. FieldData(h, field, room - 1) =
          IF room - 1 >= Len(field.value) + 2 THEN DataOf(field) ELSE <<>>
    BY <1>6, <2>1, <2>2, <2>4, <2>5 DEF FieldData, StringRoom, NumberType
  <2>7. DataOf(field) # <<>>
    BY <1>1, <2>3, <2>5, TwoThenBytes
  <2>8. FieldSize(field) = 3 + Len(field.value)
    BY <1>6 DEF FieldSize, NumberType
  <2>9. FieldSize(field) <= room <=> room - 1 >= Len(field.value) + 2
    BY <1>1, <2>8
  <2> QED  BY <1>5, <1>6, <2>6, <2>7, <2>9
<1>7. CASE room > 0 /\ field.hasData /\ field.type \in NumberType
  <2>1. Len(field.value) = 4 /\ field.type # "bool"
    BY <1>7, FieldCases DEF NumberType
  <2>2. ts_endianaware_memcpy(h, Memory(h, field.value)) = field.value
    BY <1>1, WireOrder
  <2>3. FieldData(h, field, room - 1) = IF room - 1 >= 4 THEN field.value ELSE <<>>
    BY <1>7, <2>2 DEF FieldData, NumberType
  <2>4. DataOf(field) = field.value /\ field.value # <<>>
    <3>1. DataOf(field) = field.value
      BY <1>7 DEF DataOf, NumberType
    <3>2. field.value # <<>>
      BY <2>1
    <3> QED  BY <3>1, <3>2
  <2>5. FieldSize(field) = 5
    BY <1>7 DEF FieldSize, NumberType
  <2>6. FieldSize(field) <= room <=> room - 1 >= 4
    BY <2>5
  <2> QED  BY <1>5, <1>7, <2>1, <2>3, <2>4, <2>6
<1> QED  BY <1>3, <1>4, <1>6, <1>7, FieldCases DEF NumberType

\* Bytes found at a place of a buffer.
LEMMA PartOfBuffer ==
  ASSUME NEW S, NEW buffer \in Seq(S), NEW v \in Seq(S), NEW p \in Nat,
         p + Len(v) <= Len(buffer),
         \A k \in 1 .. Len(v) : buffer[p + k] = v[k]
  PROVE  SubSeq(buffer, p + 1, p + Len(v)) = v
<1>1. Len(v) \in Nat /\ Len(buffer) \in Nat
  OBVIOUS
<1>2. \A i \in (p + 1) .. (p + Len(v)) : i \in 1 .. Len(buffer)
  BY <1>1
<1>3. \A i \in (p + 1) .. (p + Len(v)) : buffer[i] \in S
  BY <1>2, ElementOfSeq
<1> DEFINE part == SubSeq(buffer, p + 1, p + Len(v))
<1>4. /\ part \in Seq(S)
      /\ Len(part) = IF p + 1 <= p + Len(v) THEN p + Len(v) - (p + 1) + 1 ELSE 0
      /\ \A i \in 1 .. p + Len(v) - (p + 1) + 1 : part[i] = buffer[p + 1 + i - 1]
  <2>1. p + 1 \in Int /\ p + Len(v) \in Int
    BY <1>1
  <2> QED  BY <1>3, <2>1, SubSeqProperties
<1> HIDE DEF part
<1>5. Len(part) = Len(v) /\ \A i \in 1 .. Len(v) : part[i] = buffer[p + i]
  BY <1>1, <1>4
<1>6. \A i \in 1 .. Len(v) : part[i] = v[i]
  BY <1>5
<1>7. part = v
  BY <1>4, <1>5, <1>6, SeqEqual
<1> QED  BY <1>7 DEF part

\* The type and the flag of data come out of the first byte.
LEMMA FirstByteIsRead ==
  ASSUME NEW field \in ShortField
  PROVE  /\ FirstByte(field) < 128 <=> ~field.hasData
         /\ FirstByte(field) % 64 = TypeCode[field.type]
         /\ TypeOfCode(FirstByte(field) % 64) = field.type
         /\ field.hasData /\ field.type = "bool" =>
              field.value = <<(FirstByte(field) \div 64) % 2>>
<1>1. /\ TypeCode[field.type] \in 1 .. 5
      /\ Flags(field) = TypeCode[field.type] + IF field.hasData THEN 128 ELSE 0
      /\ TypeOfCode(TypeCode[field.type]) = field.type
  BY FlagsByte
<1>2. CASE field.hasData /\ field.type = "bool"
  <2>1. FirstByte(field) = IF field.value # <<0>> THEN 197 ELSE 133
    BY <1>2, FirstByteProperties
  <2>2. field.value \in {<<0>>, <<1>>}
    BY <1>2, FieldCases
  <2>3. <<0>> # <<1>>
    OBVIOUS
  <2>4. TypeCode[field.type] = 5
    BY <1>2 DEF TypeCode
  <2>5. 197 % 64 = 5 /\ 133 % 64 = 5 /\ (197 \div 64) % 2 = 1 /\ (133 \div 64) % 2 = 0
    BY SMT
  <2> QED  BY <1>1, <1>2, <2>1, <2>2, <2>3, <2>4, <2>5
<1>3. CASE ~(field.hasData /\ field.type = "bool")
  <2>1. FirstByte(field) = TypeCode[field.type] + IF field.hasData THEN 128 ELSE 0
    BY <1>1, <1>3, FirstByteProperties
  <2>2. \A c \in 1 .. 5 : c % 64 = c /\ (c + 128) % 64 = c /\ c < 128 /\ ~(c + 128 < 128)
    BY SMT
  <2>3. CASE field.hasData
    <3>1. FirstByte(field) = TypeCode[field.type] + 128
      BY <2>1, <2>3
    <3> QED  BY <1>1, <1>3, <2>2, <2>3, <3>1
  <2>4. CASE ~field.hasData
    <3>1. FirstByte(field) = TypeCode[field.type]
      BY <1>1, <2>1, <2>4
    <3> QED  BY <1>1, <1>3, <2>2, <2>4, <3>1
  <2> QED  BY <2>3, <2>4
<1> QED  BY <1>2, <1>3

\* The cases of the decoder that read data.
LEMMA NumberIsRead ==
  ASSUME NEW h, NEW buffer, NEW place, NEW code,
         buffer[place] % 64 = code, code \in {1, 2, 3}, ~(buffer[place] < 128),
         ~(Len(buffer) - place < 0), Len(buffer) - place >= 4
  PROVE  ts_deserialize_tuple_field(h, buffer, place) =
           [field |-> [type |-> TypeOfCode(code), hasData |-> TRUE,
                       value |-> Memory(h, ts_endianaware_memcpy(h,
                                     SubSeq(buffer, place + 1, place + 4)))],
            next |-> place + 5]
<1>1. code # 4 /\ code # 5
  OBVIOUS
<1> QED  BY <1>1, Zenon DEF ts_deserialize_tuple_field

\* A field that stands at a place of the buffer is read back from there.
LengthAt(h, buffer, place) ==
  LET bytes == Memory(h, ts_endianaware_memcpy(h, SubSeq(buffer, place + 1, place + 2)))
  IN bytes[1] + 256 * bytes[2]

LEMMA StringIsRead ==
  ASSUME NEW h, NEW buffer, NEW place,
         buffer[place] % 64 = 4, ~(buffer[place] < 128),
         ~(Len(buffer) - place < 0), Len(buffer) - place >= 2,
         ~((Len(buffer) - place) - 2 < LengthAt(h, buffer, place))
  PROVE  ts_deserialize_tuple_field(h, buffer, place) =
           [field |-> [type |-> "string", hasData |-> TRUE,
                       value |-> SubSeq(buffer, place + 3,
                                        place + 2 + LengthAt(h, buffer, place))],
            next |-> place + 3 + LengthAt(h, buffer, place)]
<1>1. 4 \notin {1, 2, 3} /\ 4 # 5
  OBVIOUS
<1> QED  BY <1>1, ZenonT(60) DEF ts_deserialize_tuple_field, LengthAt

LEMMA FieldIsRead ==
  ASSUME NEW h, NEW field \in ShortField, NEW buffer \in Seq(Byte), NEW place \in Nat,
         place >= 1, place + FieldSize(field) <= Len(buffer) + 1,
         \A k \in 1 .. FieldSize(field) : buffer[(place - 1) + k] = Image(field)[k]
  PROVE  ts_deserialize_tuple_field(h, buffer, place) =
           [field |-> field, next |-> place + FieldSize(field)]
<1> DEFINE data == DataOf(field)
           v    == field.value
<1>1. /\ data \in Seq(Byte) /\ Len(data) \in Nat /\ FieldSize(field) = 1 + Len(data)
      /\ Image(field)[1] = FirstByte(field)
      /\ \A k \in 1 .. Len(data) : Image(field)[1 + k] = data[k]
      /\ Len(buffer) \in Nat
  BY DataProperties, ImageProperties
<1>2. /\ field = [type |-> field.type, hasData |-> field.hasData, value |-> v]
      /\ v \in Seq(Byte) /\ Len(v) \in Nat /\ Len(v) < UShortValues
  BY FieldCases
<1>3. buffer[place] = FirstByte(field)
  <2>1. (place - 1) + 1 = place /\ 1 \in 1 .. FieldSize(field)
    BY <1>1
  <2> QED  BY <1>1, <2>1
<1>4. \A k \in 1 .. Len(data) : buffer[place + k] = data[k]
  <2>1. \A k \in 1 .. Len(data) :
          (place - 1) + (1 + k) = place + k /\ 1 + k \in 1 .. FieldSize(field)
    BY <1>1
  <2> QED  BY <1>1, <2>1
<1>5. place + Len(data) <= Len(buffer) /\ ~(Len(buffer) - place < 0)
  BY <1>1
<1>6. CASE ~field.hasData
  <2>1. data = <<>> /\ v = <<>>
    BY <1>6, FieldCases DEF DataOf
  <2>2. FirstByte(field) < 128 /\ TypeOfCode(FirstByte(field) % 64) = field.type
    BY <1>6, FirstByteIsRead
  <2>3. field = [type |-> field.type, hasData |-> FALSE, value |-> <<>>]
    BY <1>2, <1>6, <2>1, FieldCases
  <2>4. FieldSize(field) = 1
    BY <1>1, <2>1
  <2>5. ts_deserialize_tuple_field(h, buffer, place) =
          [field |-> [type |-> TypeOfCode(FirstByte(field) % 64), hasData |-> FALSE,
                      value |-> <<>>],
           next |-> place + 1]
    BY <1>3, <1>5, <2>2 DEF ts_deserialize_tuple_field
  <2> QED  BY <2>2, <2>3, <2>4, <2>5
<1>7. field.hasData => ~(FirstByte(field) < 128)
  BY FirstByteIsRead
<1>8. CASE field.hasData /\ field.type = "bool"
  <2>1. FirstByte(field) % 64 = 5
    BY <1>8, FirstByteIsRead DEF TypeCode
  <2>2. v = <<(FirstByte(field) \div 64) % 2>>
    BY <1>8, FirstByteIsRead
  <2>3. field = [type |-> "bool", hasData |-> TRUE,
                 value |-> <<(FirstByte(field) \div 64) % 2>>]
    BY <1>2, <1>8, <2>2, FieldCases
  <2>4. FieldSize(field) = 1
    BY <1>8 DEF FieldSize, NumberType
  <2>5. ts_deserialize_tuple_field(h, buffer, place) =
          [field |-> [type |-> "bool", hasData |-> TRUE,
                      value |-> <<(FirstByte(field) \div 64) % 2>>],
           next |-> place + 1]
    BY <1>3, <1>5, <1>7, <1>8, <2>1 DEF ts_deserialize_tuple_field
  <2> QED  BY <2>3, <2>4, <2>5
<1>9. CASE field.hasData /\ field.type \in NumberType
  <2>1. /\ FirstByte(field) % 64 = TypeCode[field.type]
        /\ TypeOfCode(FirstByte(field) % 64) = field.type
    BY FirstByteIsRead
  <2>2. TypeCode[field.type] \in {1, 2, 3}
    BY <1>9 DEF TypeCode, NumberType
  <2>3. data = v /\ Len(v) = 4
    BY <1>9, FieldCases DEF DataOf, NumberType
  <2>4. SubSeq(buffer, place + 1, place + 4) = v
    BY <1>2, <1>4, <1>5, <2>3, PartOfBuffer
  <2>5. Memory(h, ts_endianaware_memcpy(h, SubSeq(buffer, place + 1, place + 4))) = v
    BY <1>2, <2>4, WireOrder
  <2>6. Len(buffer) - place >= 4
    BY <1>1, <1>5, <2>3
  <2>7. FieldSize(field) = 5
    BY <1>1, <2>3
  <2>8. field = [type |-> field.type, hasData |-> TRUE, value |-> v]
    BY <1>2, <1>9, FieldCases
  <2>9. ts_deserialize_tuple_field(h, buffer, place) =
          [field |-> [type |-> TypeOfCode(FirstByte(field) % 64), hasData |-> TRUE,
                      value |-> Memory(h, ts_endianaware_memcpy(h,
                                    SubSeq(buffer, place + 1, place + 4)))],
           next |-> place + 5]
    <3> DEFINE code == FirstByte(field) % 64
    <3>1. buffer[place] % 64 = code /\ code \in {1, 2, 3} /\ ~(buffer[place] < 128)
      BY <1>3, <1>7, <1>9, <2>1, <2>2
    <3>2. ~(Len(buffer) - place < 0) /\ Len(buffer) - place >= 4
      BY <1>5, <2>6
    <3> HIDE DEF code
    <3>3. ts_deserialize_tuple_field(h, buffer, place) =
            [field |-> [type |-> TypeOfCode(code), hasData |-> TRUE,
                        value |-> Memory(h, ts_endianaware_memcpy(h,
                                      SubSeq(buffer, place + 1, place + 4)))],
             next |-> place + 5]
      BY <3>1, <3>2, NumberIsRead
    <3> QED  BY <3>3 DEF code
  <2> QED  BY <2>1, <2>5, <2>7, <2>8, <2>9
<1>10. CASE field.hasData /\ field.type = "string"
  <2> DEFINE two == TwoBytes(Len(v))
  <2>1. FirstByte(field) % 64 = 4
    BY <1>10, FirstByteIsRead DEF TypeCode
  <2>2. two \in Seq(Byte) /\ Len(two) = 2 /\ two[1] + 256 * two[2] = Len(v)
    BY <1>2, LengthBytes
  <2>3. data = two \o v
    BY <1>10 DEF DataOf
  <2> HIDE DEF two, data, v
  <2>4. /\ Len(data) = 2 + Len(v) /\ data[1] = two[1] /\ data[2] = two[2]
        /\ \A k \in 1 .. Len(v) : data[2 + k] = v[k]
    <3>1. two \in Seq(Byte) /\ Len(two) = 2 /\ v \in Seq(Byte)
      BY <1>2, <2>2
    <3>2. /\ Len(two \o v) = 2 + Len(v)
          /\ (two \o v)[1] = two[1] /\ (two \o v)[2] = two[2]
          /\ \A k \in 1 .. Len(v) : (two \o v)[2 + k] = v[k]
      BY <3>1, TwoThenBytes
    <3> QED  BY <2>3, <3>2
  <2>5. buffer[place + 1] = two[1] /\ buffer[place + 2] = two[2]
    <3>1. 1 \in 1 .. Len(data) /\ 2 \in 1 .. Len(data)
      BY <1>2, <2>4
    <3> QED  BY <1>4, <2>4, <3>1
  <2>6. SubSeq(buffer, place + 1, place + 2) = two
    <3>1. \A k \in 1 .. Len(two) : buffer[place + k] = two[k]
      BY <2>2, <2>5
    <3>2. place + Len(two) <= Len(buffer)
      BY <1>1, <1>2, <1>5, <2>2, <2>4
    <3>3. SubSeq(buffer, place + 1, place + Len(two)) = two
      BY <2>2, <3>1, <3>2, PartOfBuffer
    <3> QED  BY <2>2, <3>3
  <2>7. Memory(h, ts_endianaware_memcpy(h, SubSeq(buffer, place + 1, place + 2))) = two
    BY <2>2, <2>6, WireOrder
  <2>8. SubSeq(buffer, place + 3, place + 2 + Len(v)) = v
    <3>1. \A k \in 1 .. Len(v) : buffer[(place + 2) + k] = v[k]
      <4>1. \A k \in 1 .. Len(v) : 2 + k \in 1 .. Len(data) /\ place + (2 + k) = (place + 2) + k
        BY <1>2, <2>4
      <4> QED  BY <1>4, <2>4, <4>1
    <3>2. place + 2 \in Nat /\ (place + 2) + Len(v) <= Len(buffer)
      BY <1>1, <1>2, <1>5, <2>4
    <3>3. SubSeq(buffer, (place + 2) + 1, (place + 2) + Len(v)) = v
      BY <1>2, <3>1, <3>2, PartOfBuffer
    <3>4. (place + 2) + 1 = place + 3 /\ (place + 2) + Len(v) = place + 2 + Len(v)
      BY <1>2
    <3> QED  BY <3>3, <3>4
  <2>9. Len(buffer) - place >= 2 /\ ~((Len(buffer) - place) - 2 < Len(v))
    BY <1>1, <1>2, <1>5, <2>4
  <2>10. place + FieldSize(field) = place + 3 + Len(v)
    BY <1>1, <1>2, <2>4
  <2>11. field = [type |-> "string", hasData |-> TRUE, value |-> v]
    BY <1>2, <1>10, FieldCases
  <2>12. ts_deserialize_tuple_field(h, buffer, place) =
           [field |-> [type |-> "string", hasData |-> TRUE,
                       value |-> SubSeq(buffer, place + 3, place + 2 + Len(v))],
            next |-> place + 3 + Len(v)]
    <3>1. LengthAt(h, buffer, place) = Len(v)
      BY <2>2, <2>7 DEF LengthAt
    <3>2. /\ buffer[place] % 64 = 4 /\ ~(buffer[place] < 128)
          /\ ~(Len(buffer) - place < 0) /\ Len(buffer) - place >= 2
          /\ ~((Len(buffer) - place) - 2 < LengthAt(h, buffer, place))
      BY <1>3, <1>5, <1>7, <1>10, <2>1, <2>9, <3>1
    <3>3. ts_deserialize_tuple_field(h, buffer, place) =
            [field |-> [type |-> "string", hasData |-> TRUE,
                        value |-> SubSeq(buffer, place + 3,
                                         place + 2 + LengthAt(h, buffer, place))],
             next |-> place + 3 + LengthAt(h, buffer, place)]
      BY <3>2, StringIsRead
    <3> QED  BY <3>1, <3>3
  <2> QED  BY <2>8, <2>10, <2>11, <2>12
<1> QED  BY <1>6, <1>8, <1>9, <1>10, FieldCases DEF NumberType

(***************************************************************************)
(* Tuples: the loops over the fields.                                      *)
(***************************************************************************)
LEMMA SizeUnfolds ==
  ASSUME NEW tuple \in Seq(ShortField)
  PROVE  /\ SizeOf(tuple) \in [0 .. Len(tuple) -> Nat]
         /\ SizeOf(tuple)[0] = 0
         /\ \A i \in 1 .. Len(tuple) :
              SizeOf(tuple)[i] = SizeOf(tuple)[i - 1] + FieldSize(tuple[i])
<1> DEFINE n == Len(tuple)
           Body(f) == [i \in 0 .. n |-> IF i = 0 THEN 0 ELSE f[i - 1] + FieldSize(tuple[i])]
           step == [q \in Nat \X (1 .. n) |-> q[1] + FieldSize(tuple[q[2]])]
<1>1. n \in Nat /\ \A i \in 1 .. n : tuple[i] \in ShortField
  OBVIOUS
<1>2. \A i \in 1 .. n : FieldSize(tuple[i]) \in Nat
  BY <1>1, ImageProperties
<1> HIDE DEF n
<1>3. step \in [Nat \X (1 .. n) -> Nat]
  BY <1>2
<1>4. \A a \in Nat : \A i \in 1 .. n : step[<<a, i>>] = a + FieldSize(tuple[i])
  OBVIOUS
<1> HIDE DEF step
<1>5. PICK f \in [0 .. n -> Nat] : Recurs(f, n, 0, step)
  <2>1. 0 \in Nat
    OBVIOUS
  <2> QED  BY <1>1, <1>3, <2>1, RecursionHasSolution
<1>6. \A i \in 0 .. n : i # 0 => i \in 1 .. n /\ i - 1 \in 0 .. n
  BY <1>1
<1>7. \A i \in 0 .. n : i # 0 => f[i - 1] \in Nat
  BY <1>5, <1>6
<1>8. \A i \in 0 .. n : i # 0 => step[<<f[i - 1], i>>] = f[i - 1] + FieldSize(tuple[i])
  BY <1>4, <1>6, <1>7
<1>9. f = Body(f)
  BY <1>5, <1>8 DEF Recurs
<1>10. SizeOf(tuple) = CHOOSE g : g = Body(g)
  BY Zenon DEF SizeOf, n
<1>11. SizeOf(tuple) = Body(SizeOf(tuple))
  <2> HIDE DEF Body
  <2> QED  BY <1>9, <1>10, Zenon
<1> DEFINE s == SizeOf(tuple)
<1> HIDE DEF s
<1>12. s = [i \in 0 .. n |-> IF i = 0 THEN 0 ELSE s[i - 1] + FieldSize(tuple[i])]
  BY <1>11 DEF s
<1>13. s[0] = 0 /\ \A i \in 1 .. n : s[i] = s[i - 1] + FieldSize(tuple[i])
  <2>1. 0 \in 0 .. n /\ \A i \in 1 .. n : i \in 0 .. n /\ i # 0
    BY <1>1
  <2> QED  BY <1>12, <2>1
<1>14. 0 .. n \subseteq {i \in 0 .. n : s[i] \in Nat}
  <2> DEFINE T == {i \in 0 .. n : s[i] \in Nat}
  <2>1. 0 \in T
    BY <1>1, <1>13
  <2>2. ASSUME NEW i \in 0 .. n - 1, i \in T PROVE i + 1 \in T
    <3>1. i + 1 \in 1 .. n /\ (i + 1) - 1 = i /\ i + 1 \in 0 .. n
      BY <1>1
    <3>2. s[i + 1] = s[i] + FieldSize(tuple[i + 1])
      BY <1>13, <3>1
    <3> QED  BY <1>2, <2>2, <3>1, <3>2
  <2> HIDE DEF T
  <2>3. 0 .. n \subseteq T
    BY <1>1, <2>1, <2>2, UpwardInduction
  <2> QED  BY <2>3 DEF T
<1>15. s \in [0 .. n -> Nat]
  BY <1>12, <1>14
<1> QED  BY <1>13, <1>15 DEF s, n

\* No field takes away from the size.
LEMMA SizeGrows ==
  ASSUME NEW tuple \in Seq(ShortField)
  PROVE  \A j \in 0 .. Len(tuple) : \A i \in 0 .. j : SizeOf(tuple)[i] <= SizeOf(tuple)[j]
<1> DEFINE n == Len(tuple)
           s == SizeOf(tuple)
           T == {j \in 0 .. n : \A i \in 0 .. j : s[i] <= s[j]}
<1>1. n \in Nat /\ \A i \in 1 .. n : FieldSize(tuple[i]) \in Nat
  BY ImageProperties
<1>2. /\ s \in [0 .. n -> Nat]
      /\ \A i \in 1 .. n : s[i] = s[i - 1] + FieldSize(tuple[i])
  BY SizeUnfolds
<1> HIDE DEF n, s
<1>3. 0 \in T
  <2>1. s[0] \in Nat /\ \A i \in 0 .. 0 : i = 0
    BY <1>1, <1>2
  <2> QED  BY <1>1, <2>1
<1>4. ASSUME NEW j \in 0 .. n - 1, j \in T PROVE j + 1 \in T
  <2>1. j + 1 \in 1 .. n /\ (j + 1) - 1 = j /\ j + 1 \in 0 .. n /\ j \in 0 .. n
    BY <1>1
  <2>2. s[j + 1] = s[j] + FieldSize(tuple[j + 1]) /\ s[j] \in Nat /\ s[j + 1] \in Nat
    BY <1>2, <2>1
  <2>3. s[j] <= s[j + 1]
    BY <1>1, <2>1, <2>2
  <2>4. ASSUME NEW i \in 0 .. j + 1 PROVE s[i] <= s[j + 1]
    <3>1. CASE i = j + 1
      BY <2>2, <3>1
    <3>2. CASE i \in 0 .. j
      <4>1. i \in 0 .. n
        BY <1>1, <3>2
      <4>2. s[i] <= s[j] /\ s[i] \in Nat
        BY <1>2, <1>4, <3>2, <4>1
      <4> QED  BY <2>2, <2>3, <4>2
    <3> QED  BY <3>1, <3>2
  <2> QED  BY <2>1, <2>4
<1> HIDE DEF T
<1>5. 0 .. n \subseteq T
  BY <1>1, <1>3, <1>4, UpwardInduction
<1> QED  BY <1>5 DEF T, n, s

\* What the loop that writes adds for one field.
Adding(h, tuple, room, i) ==
  IF FieldSize(tuple[i]) <= room - Len(Written(h, tuple, room)[i - 1].bytes)
  THEN Image(tuple[i]) ELSE <<>>

LEMMA WrittenUnfolds ==
  ASSUME NEW h, NEW tuple \in Seq(ShortField), NEW room \in Nat
  PROVE  /\ Written(h, tuple, room)[0] = [bytes |-> <<>>, fits |-> TRUE]
         /\ \A i \in 0 .. Len(tuple) :
              /\ Written(h, tuple, room)[i].bytes \in Seq(Byte)
              /\ Len(Written(h, tuple, room)[i].bytes) <= room
              /\ Written(h, tuple, room)[i].fits \in BOOLEAN
         /\ \A i \in 1 .. Len(tuple) :
              Written(h, tuple, room)[i] =
                [bytes |-> Written(h, tuple, room)[i - 1].bytes \o Adding(h, tuple, room, i),
                 fits  |-> Written(h, tuple, room)[i - 1].fits
                             /\ Adding(h, tuple, room, i) # <<>>]
<1> DEFINE n == Len(tuple)
           V == {r \in [bytes : Seq(Byte), fits : BOOLEAN] : Len(r.bytes) <= room}
           New(r, i) == ts_serialize_tuple_field(h, tuple[i], room - Len(r.bytes))
           Next2(r, i) == [bytes |-> r.bytes \o New(r, i),
                           fits  |-> r.fits /\ New(r, i) # <<>>]
           base == [bytes |-> <<>>, fits |-> TRUE]
           Body(f) == [i \in 0 .. n |-> IF i = 0 THEN base ELSE Next2(f[i - 1], i)]
           step == [q \in V \X (1 .. n) |-> Next2(q[1], q[2])]
<1>1. n \in Nat /\ \A i \in 1 .. n : tuple[i] \in ShortField
  OBVIOUS
<1> HIDE DEF n
<1>2. ASSUME NEW r \in V, NEW i \in 1 .. n
      PROVE  /\ New(r, i) = IF FieldSize(tuple[i]) <= room - Len(r.bytes)
                            THEN Image(tuple[i]) ELSE <<>>
             /\ Next2(r, i) \in V
  <2>1. room - Len(r.bytes) \in Nat /\ r.bytes \in Seq(Byte) /\ Len(r.bytes) \in Nat
        /\ r.fits \in BOOLEAN
    OBVIOUS
  <2>2. tuple[i] \in ShortField
    BY <1>1
  <2>3. New(r, i) = IF FieldSize(tuple[i]) <= room - Len(r.bytes)
                    THEN Image(tuple[i]) ELSE <<>>
    BY <2>1, <2>2, FieldIsWritten
  <2>4. /\ Image(tuple[i]) \in Seq(Byte) /\ Len(Image(tuple[i])) = FieldSize(tuple[i])
        /\ FieldSize(tuple[i]) \in Nat
    BY <2>2, ImageProperties
  <2> DEFINE new == New(r, i)
             old == r.bytes
  <2>5. new \in Seq(Byte) /\ Len(new) \in Nat /\ Len(new) <= room - Len(old)
    <3>1. CASE FieldSize(tuple[i]) <= room - Len(r.bytes)
      <4>1. new = Image(tuple[i])
        BY <2>3, <3>1
      <4> HIDE DEF new
      <4> QED  BY <2>4, <3>1, <4>1
    <3>2. CASE ~(FieldSize(tuple[i]) <= room - Len(r.bytes))
      <4>1. new = <<>>
        BY <2>3, <3>2
      <4> HIDE DEF new
      <4> QED  BY <2>1, <4>1
    <3> QED  BY <3>1, <3>2
  <2>6. Next2(r, i) = [bytes |-> old \o new, fits |-> r.fits /\ new # <<>>]
    OBVIOUS
  <2> HIDE DEF new, old
  <2>7. old \o new \in Seq(Byte) /\ Len(old \o new) = Len(old) + Len(new)
    BY <2>1, <2>5, ConcatProperties DEF old
  <2>8. Len(old \o new) <= room
    BY <2>1, <2>5, <2>7 DEF old
  <2>9. [bytes |-> old \o new, fits |-> r.fits /\ new # <<>>] \in V
    BY <2>1, <2>7, <2>8
  <2> QED  BY <2>3, <2>6, <2>9
<1>3. base \in V
  OBVIOUS
<1> HIDE DEF V, Next2, New
<1>4. step \in [V \X (1 .. n) -> V]
  BY <1>2
<1>5. \A r \in V : \A i \in 1 .. n : step[<<r, i>>] = Next2(r, i)
  OBVIOUS
<1> HIDE DEF step, base
<1>6. PICK f \in [0 .. n -> V] : Recurs(f, n, base, step)
  BY <1>1, <1>3, <1>4, RecursionHasSolution
<1>7. \A i \in 0 .. n : i # 0 => i \in 1 .. n /\ i - 1 \in 0 .. n
  BY <1>1
<1>8. \A i \in 0 .. n : i # 0 => step[<<f[i - 1], i>>] = Next2(f[i - 1], i)
  BY <1>5, <1>6, <1>7
<1>9. f = Body(f)
  BY <1>6, <1>8 DEF Recurs
<1>10. Written(h, tuple, room) = CHOOSE g : g = Body(g)
  BY Zenon DEF Written, n, base, Next2, New
<1> DEFINE w == Written(h, tuple, room)
<1> HIDE DEF w
<1>11. w = Body(w)
  <2> HIDE DEF Body
  <2> QED  BY <1>9, <1>10, Zenon DEF w
<1>12. w[0] = base /\ \A i \in 1 .. n : w[i] = Next2(w[i - 1], i)
  <2>1. 0 \in 0 .. n /\ \A i \in 1 .. n : i \in 0 .. n /\ i # 0
    BY <1>1
  <2> QED  BY <1>11, <2>1
<1>13. \A i \in 0 .. n : w[i] \in V
  <2> DEFINE T == {i \in 0 .. n : w[i] \in V}
  <2>1. 0 \in T
    BY <1>1, <1>3, <1>12
  <2>2. ASSUME NEW i \in 0 .. n - 1, i \in T PROVE i + 1 \in T
    <3>1. i + 1 \in 1 .. n /\ (i + 1) - 1 = i /\ i + 1 \in 0 .. n
      BY <1>1
    <3>2. w[i + 1] = Next2(w[i], i + 1)
      BY <1>12, <3>1
    <3> QED  BY <1>2, <2>2, <3>1, <3>2
  <2> HIDE DEF T
  <2>3. 0 .. n \subseteq T
    BY <1>1, <2>1, <2>2, UpwardInduction
  <2> QED  BY <2>3 DEF T
<1>14. \A i \in 0 .. n : /\ w[i].bytes \in Seq(Byte) /\ Len(w[i].bytes) <= room
                         /\ w[i].fits \in BOOLEAN
  BY <1>13 DEF V
<1>15. \A i \in 1 .. n : New(w[i - 1], i) = Adding(h, tuple, room, i)
  <2>1. \A i \in 1 .. n : w[i - 1] \in V
    BY <1>1, <1>13
  <2> QED  BY <1>2, <2>1, Zenon DEF Adding, w
<1>16. \A i \in 1 .. n :
         w[i] = [bytes |-> w[i - 1].bytes \o New(w[i - 1], i),
                 fits |-> w[i - 1].fits /\ New(w[i - 1], i) # <<>>]
  BY <1>12, Zenon DEF Next2
<1> QED  BY <1>12, <1>14, <1>15, <1>16, Zenon DEF w, n, base

\* What is written is as long as the fields are, and a tuple fits if its
\* size does.
LEMMA WrittenIfItFits ==
  ASSUME NEW h, NEW tuple \in Seq(ShortField), NEW room \in Nat
  PROVE  \A i \in 0 .. Len(tuple) :
           /\ Written(h, tuple, room)[i].fits <=> SizeOf(tuple)[i] <= room
           /\ Written(h, tuple, room)[i].fits =>
                Len(Written(h, tuple, room)[i].bytes) = SizeOf(tuple)[i]
<1> DEFINE n == Len(tuple)
           s == SizeOf(tuple)
           w == Written(h, tuple, room)
           Adds(i) == Adding(h, tuple, room, i)
           Right(i) == /\ w[i].fits <=> s[i] <= room
                       /\ w[i].fits => Len(w[i].bytes) = s[i]
           T == {i \in 0 .. n : Right(i)}
<1>1. /\ n \in Nat
      /\ \A i \in 1 .. n : /\ FieldSize(tuple[i]) \in Nat /\ Image(tuple[i]) # <<>>
                           /\ Image(tuple[i]) \in Seq(Byte)
                           /\ Len(Image(tuple[i])) = FieldSize(tuple[i])
  BY ImageProperties
<1>2. /\ s \in [0 .. n -> Nat] /\ s[0] = 0
      /\ \A i \in 1 .. n : s[i] = s[i - 1] + FieldSize(tuple[i])
  BY SizeUnfolds
<1>3. /\ w[0] = [bytes |-> <<>>, fits |-> TRUE]
      /\ \A i \in 0 .. n : /\ w[i].bytes \in Seq(Byte) /\ Len(w[i].bytes) <= room
                           /\ w[i].fits \in BOOLEAN
      /\ \A i \in 1 .. n : w[i] = [bytes |-> w[i - 1].bytes \o Adds(i),
                                   fits  |-> w[i - 1].fits /\ Adds(i) # <<>>]
  BY WrittenUnfolds, Zenon
<1> HIDE DEF n, s, w
<1>4. 0 \in T
  <2>1. w[0].fits = TRUE /\ w[0].bytes = <<>>
    BY <1>3
  <2> QED  BY <1>1, <1>2, <2>1
<1>5. ASSUME NEW j \in 0 .. n - 1, j \in T PROVE j + 1 \in T
  <2>1. j + 1 \in 1 .. n /\ (j + 1) - 1 = j /\ j + 1 \in 0 .. n /\ j \in 0 .. n
    BY <1>1
  <2> DEFINE size == FieldSize(tuple[j + 1])
             old  == w[j].bytes
             new  == Adds(j + 1)
  <2>2. size \in Nat /\ s[j] \in Nat /\ s[j + 1] = s[j] + size
    BY <1>1, <1>2, <2>1
  <2>3. old \in Seq(Byte) /\ Len(old) \in Nat /\ Len(old) <= room
    BY <1>3, <2>1
  <2>4. new = IF size <= room - Len(old) THEN Image(tuple[j + 1]) ELSE <<>>
    BY <2>1, Zenon DEF Adding, w
  <2>5. w[j + 1] = [bytes |-> old \o new, fits |-> w[j].fits /\ new # <<>>]
    BY <1>3, <2>1, Zenon
  <2>6. /\ Image(tuple[j + 1]) # <<>> /\ Image(tuple[j + 1]) \in Seq(Byte)
        /\ Len(Image(tuple[j + 1])) = size
    BY <1>1, <2>1
  <2>7. w[j].fits <=> s[j] <= room
    BY <1>5
  <2>8. w[j].fits => Len(old) = s[j]
    BY <1>5
  <2> HIDE DEF size, old, new
  <2>9. w[j + 1].bytes = old \o new /\ (w[j + 1].fits <=> w[j].fits /\ new # <<>>)
    <3>1. w[j + 1].bytes = old \o new /\ w[j + 1].fits = (w[j].fits /\ new # <<>>)
      BY <2>5
    <3> QED  BY <3>1, Zenon
  <2>10. new # <<>> <=> size <= room - Len(old)
    BY <2>4, <2>6
  <2>11. CASE w[j].fits
    <3>1. size <= room - Len(old) <=> s[j + 1] <= room
      BY <2>2, <2>3, <2>8, <2>11
    <3>2. w[j + 1].fits <=> s[j + 1] <= room
      BY <2>9, <2>10, <2>11, <3>1
    <3>3. w[j + 1].fits => Len(w[j + 1].bytes) = s[j + 1]
      <4>1. SUFFICES ASSUME new # <<>> PROVE Len(old \o new) = s[j + 1]
        BY <2>9
      <4>2. new \in Seq(Byte) /\ Len(new) = size
        BY <2>4, <2>6, <2>10, <4>1
      <4>3. Len(old \o new) = Len(old) + Len(new)
        BY <2>3, <4>2, ConcatProperties
      <4> QED  BY <2>2, <2>8, <2>11, <4>2, <4>3
    <3> QED  BY <2>1, <3>2, <3>3
  <2>12. CASE ~w[j].fits
    <3>1. ~(s[j + 1] <= room)
      BY <2>2, <2>7, <2>12
    <3> QED  BY <2>1, <2>9, <2>12, <3>1
  <2> QED  BY <2>11, <2>12
<1> HIDE DEF T
<1>6. 0 .. n \subseteq T
  BY <1>1, <1>4, <1>5, UpwardInduction
<1> QED  BY <1>6 DEF T, n, s, w

\* Every field stands where the sizes of those before it put it.
LEMMA FieldsStandInOrder ==
  ASSUME NEW h, NEW tuple \in Seq(ShortField), NEW room \in Nat
  PROVE  \A j \in 0 .. Len(tuple) : Written(h, tuple, room)[j].fits =>
           \A i \in 1 .. j : \A k \in 1 .. FieldSize(tuple[i]) :
             Written(h, tuple, room)[j].bytes[SizeOf(tuple)[i - 1] + k] = Image(tuple[i])[k]
<1> DEFINE n == Len(tuple)
           s == SizeOf(tuple)
           w == Written(h, tuple, room)
           Adds(i) == Adding(h, tuple, room, i)
           Stand(j) == \A i \in 1 .. j : \A k \in 1 .. FieldSize(tuple[i]) :
                         w[j].bytes[s[i - 1] + k] = Image(tuple[i])[k]
           T == {j \in 0 .. n : w[j].fits => Stand(j)}
<1>1. /\ n \in Nat
      /\ \A i \in 1 .. n : /\ FieldSize(tuple[i]) \in Nat
                           /\ Image(tuple[i]) \in Seq(Byte)
                           /\ Len(Image(tuple[i])) = FieldSize(tuple[i])
  BY ImageProperties
<1>2. /\ s \in [0 .. n -> Nat] /\ s[0] = 0
      /\ \A i \in 1 .. n : s[i] = s[i - 1] + FieldSize(tuple[i])
  BY SizeUnfolds
<1>3. /\ \A i \in 0 .. n : w[i].bytes \in Seq(Byte)
      /\ \A i \in 1 .. n : w[i] = [bytes |-> w[i - 1].bytes \o Adds(i),
                                   fits  |-> w[i - 1].fits /\ Adds(i) # <<>>]
  BY WrittenUnfolds, Zenon
<1>4. \A i \in 0 .. n : w[i].fits => Len(w[i].bytes) = s[i]
  BY WrittenIfItFits
<1>5. \A j \in 0 .. n : \A i \in 0 .. j : s[i] <= s[j]
  BY SizeGrows
<1> HIDE DEF n, s, w
<1>6. 0 \in T
  BY <1>1
<1>7. ASSUME NEW j \in 0 .. n - 1, j \in T PROVE j + 1 \in T
  <2>1. j + 1 \in 1 .. n /\ (j + 1) - 1 = j /\ j + 1 \in 0 .. n /\ j \in 0 .. n
    BY <1>1
  <2> DEFINE old == w[j].bytes
             new == Adds(j + 1)
  <2>2. w[j + 1] = [bytes |-> old \o new, fits |-> w[j].fits /\ new # <<>>]
    BY <1>3, <2>1, Zenon
  <2>3. new # <<>> => new = Image(tuple[j + 1])
    BY Zenon DEF Adding
  <2>4. old \in Seq(Byte)
    BY <1>3, <2>1
  <2> HIDE DEF old, new
  <2>a. w[j + 1].bytes = old \o new /\ w[j + 1].fits = (w[j].fits /\ new # <<>>)
    BY <2>2
  <2>b. w[j + 1].fits => w[j].fits /\ new # <<>>
    BY <2>a, Zenon
  <2>5. SUFFICES ASSUME w[j].fits, new # <<>>, w[j + 1].bytes = old \o new
                 PROVE  Stand(j + 1)
    BY <2>1, <2>a, <2>b
  <2>6. /\ new = Image(tuple[j + 1]) /\ new \in Seq(Byte)
        /\ Len(new) = FieldSize(tuple[j + 1]) /\ Len(new) \in Nat
    BY <1>1, <2>1, <2>3, <2>5
  <2>7. Len(old) = s[j] /\ s[j] \in Nat
    BY <1>2, <1>4, <2>1, <2>5 DEF old
  <2>8. \A i \in 1 .. Len(old) + Len(new) :
          (old \o new)[i] = IF i <= Len(old) THEN old[i] ELSE new[i - Len(old)]
    BY <2>4, <2>6, ConcatProperties
  <2>9. Stand(j)
    BY <1>7, <2>5
  <2>10. ASSUME NEW i \in 1 .. j + 1, NEW k \in 1 .. FieldSize(tuple[i])
         PROVE  (old \o new)[s[i - 1] + k] = Image(tuple[i])[k]
    <3>1. CASE i = j + 1
      <4>1. i - 1 = j /\ k \in 1 .. Len(new) /\ s[i - 1] = Len(old)
        BY <2>1, <2>6, <2>7, <3>1
      <4>2. /\ Len(old) + k \in 1 .. Len(old) + Len(new) /\ ~(Len(old) + k <= Len(old))
            /\ (Len(old) + k) - Len(old) = k
        BY <2>6, <2>7, <4>1
      <4>3. (old \o new)[Len(old) + k] = new[k]
        BY <2>8, <4>2
      <4> QED  BY <2>6, <3>1, <4>1, <4>3
    <3>2. CASE i \in 1 .. j
      <4>1. i \in 1 .. n /\ i - 1 \in 0 .. n /\ i \in 0 .. j
        BY <1>1, <3>2
      <4>2. s[i - 1] \in Nat /\ s[i] = s[i - 1] + FieldSize(tuple[i]) /\ s[i] <= s[j]
        BY <1>2, <1>5, <2>1, <4>1
      <4>3. FieldSize(tuple[i]) \in Nat
        BY <1>1, <4>1
      <4>4. s[i - 1] + k \in 1 .. Len(old) + Len(new) /\ s[i - 1] + k <= Len(old)
        <5>1. \A at, size, all, more \in Nat : \A l \in 1 .. size :
                at + size <= all => at + l \in 1 .. all + more /\ at + l <= all
          OBVIOUS
        <5>2. /\ s[i - 1] \in Nat /\ FieldSize(tuple[i]) \in Nat /\ Len(old) \in Nat
              /\ Len(new) \in Nat /\ s[i - 1] + FieldSize(tuple[i]) <= Len(old)
          BY <2>6, <2>7, <4>2, <4>3
        <5> QED  BY <5>1, <5>2, Zenon
      <4>5. (old \o new)[s[i - 1] + k] = old[s[i - 1] + k]
        BY <2>8, <4>4
      <4> QED  BY <2>9, <3>2, <4>5 DEF old
    <3>3. i = j + 1 \/ i \in 1 .. j
      BY <2>1
    <3> QED  BY <3>1, <3>2, <3>3
  <2> QED  BY <2>5, <2>10
<1> HIDE DEF T
<1>8. 0 .. n \subseteq T
  BY <1>1, <1>6, <1>7, UpwardInduction
<1> QED  BY <1>8 DEF T, n, s, w

\* The whole tuple, or nothing of it.
LEMMA TupleIsWritten ==
  ASSUME NEW h, NEW tuple \in Seq(ShortField), NEW room \in Nat, tuple # <<>>,
         NEW b, b = ts_serialize_tuple(h, tuple, room)
  PROVE  /\ b # <<>> <=> /\ Len(tuple) <= MaxTupleSize
                         /\ SizeOf(tuple)[Len(tuple)] <= room
         /\ b # <<>> =>
              /\ b \in Seq(Byte) /\ Len(b) = SizeOf(tuple)[Len(tuple)]
              /\ \A i \in 1 .. Len(tuple) : \A k \in 1 .. FieldSize(tuple[i]) :
                   b[SizeOf(tuple)[i - 1] + k] = Image(tuple[i])[k]
<1> DEFINE n == Len(tuple)
           s == SizeOf(tuple)
           all == Written(h, tuple, room)[n]
<1>1. n \in Nat /\ n >= 1 /\ n \in 0 .. n /\ n \in 1 .. n /\ MaxTupleSize \in Nat
  BY SerializationAssumption
<1>2. s[n] \in Nat /\ s[n] >= 1
  <2>1. s[n] = s[n - 1] + FieldSize(tuple[n]) /\ n - 1 \in 0 .. n
    BY <1>1, SizeUnfolds
  <2>2. FieldSize(tuple[n]) \in Nat /\ FieldSize(tuple[n]) >= 1
    BY <1>1, ImageProperties
  <2>3. s[n - 1] \in Nat
    BY <2>1, SizeUnfolds
  <2> QED  BY <2>1, <2>2, <2>3
<1>3. /\ all.fits <=> s[n] <= room
      /\ all.fits => Len(all.bytes) = s[n]
  BY <1>1, WrittenIfItFits
<1>4. all.bytes \in Seq(Byte)
  BY <1>1, WrittenUnfolds
<1>5. all.fits => \A i \in 1 .. n : \A k \in 1 .. FieldSize(tuple[i]) :
                    all.bytes[s[i - 1] + k] = Image(tuple[i])[k]
  BY <1>1, FieldsStandInOrder
<1>6. b = IF n <= MaxTupleSize /\ all.fits THEN all.bytes ELSE <<>>
  BY Zenon DEF ts_serialize_tuple
<1> HIDE DEF n, s, all
<1>7. all.fits => all.bytes # <<>>
  BY <1>2, <1>3
<1>8. b # <<>> <=> n <= MaxTupleSize /\ all.fits
  BY <1>6, <1>7
<1>9. b # <<>> <=> n <= MaxTupleSize /\ s[n] <= room
  BY <1>3, <1>8
<1>10. b # <<>> => b = all.bytes /\ all.fits
  BY <1>6, <1>8
<1>11. b # <<>> =>
         /\ b \in Seq(Byte) /\ Len(b) = s[n]
         /\ \A i \in 1 .. n : \A k \in 1 .. FieldSize(tuple[i]) :
              b[s[i - 1] + k] = Image(tuple[i])[k]
  BY <1>3, <1>4, <1>5, <1>10
<1> QED  BY <1>9, <1>11 DEF n, s

\* The loop that reads finds every field and where the next one starts.
LEMMA TupleIsRead ==
  ASSUME NEW h, NEW tuple \in Seq(ShortField), NEW buffer \in Seq(Byte),
         NEW start \in Nat, start >= 1,
         start + SizeOf(tuple)[Len(tuple)] <= Len(buffer) + 1,
         \A i \in 1 .. Len(tuple) : \A k \in 1 .. FieldSize(tuple[i]) :
           buffer[(start - 1) + (SizeOf(tuple)[i - 1] + k)] = Image(tuple[i])[k]
  PROVE  ts_deserialize_tuple(h, buffer, Len(tuple), start) = tuple
<1> DEFINE n == Len(tuple)
           s == SizeOf(tuple)
           One(r) == ts_deserialize_tuple_field(h, buffer, r.next)
           Next2(r) == IF r.next = 0 THEN r
                       ELSE [tuple |-> Append(r.tuple, One(r).field), next |-> One(r).next]
           base == [tuple |-> <<>>, next |-> start]
           Body(f) == [i \in 0 .. n |-> IF i = 0 THEN base ELSE Next2(f[i - 1])]
           g == [i \in 0 .. n |-> [tuple |-> SubSeq(tuple, 1, i), next |-> start + s[i]]]
           d == Decoding(h, buffer, n, start)
<1>1. /\ n \in Nat /\ Len(buffer) \in Nat
      /\ \A i \in 1 .. n : tuple[i] \in ShortField /\ FieldSize(tuple[i]) \in Nat
  BY ImageProperties
<1>2. /\ s \in [0 .. n -> Nat] /\ s[0] = 0
      /\ \A i \in 1 .. n : s[i] = s[i - 1] + FieldSize(tuple[i])
      /\ \A i \in 0 .. n : s[i] <= s[n]
  <2>1. n \in 0 .. n
    BY <1>1
  <2> QED  BY <2>1, SizeUnfolds, SizeGrows
<1>a. /\ start + s[n] <= Len(buffer) + 1
      /\ \A i \in 1 .. n : \A k \in 1 .. FieldSize(tuple[i]) :
           buffer[(start - 1) + (s[i - 1] + k)] = Image(tuple[i])[k]
  OBVIOUS
<1>b. n = Len(tuple)
  OBVIOUS
<1> HIDE DEF n, s
<1>c. s[n] \in Nat
  BY <1>1, <1>2
<1>3. ASSUME NEW i \in 1 .. n
      PROVE  One(g[i - 1]) = [field |-> tuple[i], next |-> start + s[i]]
  <2>1. i - 1 \in 0 .. n /\ i \in 0 .. n
    BY <1>1
  <2>2. s[i - 1] \in Nat /\ s[i] = s[i - 1] + FieldSize(tuple[i]) /\ s[i] <= s[n] /\ s[n] \in Nat
    BY <1>1, <1>2, <1>c, <2>1
  <2> DEFINE place == start + s[i - 1]
  <2>3. /\ place \in Nat /\ place >= 1 /\ place + FieldSize(tuple[i]) <= Len(buffer) + 1
        /\ place + FieldSize(tuple[i]) = start + s[i]
    <3>1. \A a, z, m, f, l \in Nat :
            a >= 1 /\ a + m <= l + 1 /\ z + f <= m =>
              /\ a + z \in Nat /\ a + z >= 1 /\ (a + z) + f <= l + 1
              /\ (a + z) + f = a + (z + f)
      BY SMTT(20)
    <3>2. FieldSize(tuple[i]) \in Nat
      BY <1>1
    <3> HIDE DEF place
    <3>3. place = start + s[i - 1]
      BY DEF place
    <3>4. Len(buffer) \in Nat /\ start + s[n] <= Len(buffer) + 1
      BY <1>1, <1>a
    <3>5. s[i - 1] + FieldSize(tuple[i]) <= s[n]
      BY <2>2
    <3> DEFINE f == FieldSize(tuple[i])
               z == s[i - 1]
               m == s[n]
               l == Len(buffer)
    <3>6. f \in Nat /\ z \in Nat /\ m \in Nat /\ l \in Nat
      BY <1>c, <2>2, <3>2, <3>4
    <3>7. start + m <= l + 1 /\ z + f <= m /\ s[i] = z + f /\ place = start + z
      BY <2>2, <3>3, <3>4, <3>5
    <3> HIDE DEF f, z, m, l
    <3>8. start + z \in Nat /\ start + z >= 1 /\ (start + z) + f <= l + 1
          /\ (start + z) + f = start + (z + f)
      BY <3>1, <3>6, <3>7
    <3> QED  BY <3>7, <3>8 DEF f, l
  <2>4. \A k \in 1 .. FieldSize(tuple[i]) : buffer[(place - 1) + k] = Image(tuple[i])[k]
    <3>1. \A k \in 1 .. FieldSize(tuple[i]) :
            (place - 1) + k = (start - 1) + (s[i - 1] + k)
      BY <1>1, <2>2
    <3> QED  BY <1>a, <3>1
  <2>5. g[i - 1].next = place
    BY <2>1
  <2> HIDE DEF place, g
  <2>6. ts_deserialize_tuple_field(h, buffer, place) =
          [field |-> tuple[i], next |-> place + FieldSize(tuple[i])]
    BY <1>1, <2>3, <2>4, FieldIsRead
  <2> QED  BY <2>3, <2>5, <2>6
<1>4. ASSUME NEW i \in 1 .. n PROVE Next2(g[i - 1]) = g[i]
  <2>1. i - 1 \in 0 .. n /\ i \in 0 .. n
    BY <1>1
  <2>2. s[i - 1] \in Nat /\ start + s[i - 1] # 0
    BY <1>2, <2>1
  <2>3. g[i - 1].next # 0 /\ g[i - 1].tuple = SubSeq(tuple, 1, i - 1)
    BY <2>1, <2>2
  <2>4. Append(SubSeq(tuple, 1, i - 1), tuple[i]) = SubSeq(tuple, 1, i)
    BY <1>1, <1>b
  <2>5. g[i] = [tuple |-> SubSeq(tuple, 1, i), next |-> start + s[i]]
    BY <2>1
  <2>6. One(g[i - 1]).field = tuple[i] /\ One(g[i - 1]).next = start + s[i]
    <3> HIDE DEF g, One
    <3>1. One(g[i - 1]) = [field |-> tuple[i], next |-> start + s[i]]
      BY <1>3, Zenon
    <3> QED  BY <3>1
  <2> HIDE DEF g, One
  <2> QED  BY <2>3, <2>4, <2>5, <2>6
<1>5. g[0] = base
  BY <1>1, <1>2
<1>6. g = Body(g)
  <2>1. \A i \in 0 .. n : i # 0 => i \in 1 .. n
    BY <1>1
  <2>2. \A i \in 0 .. n : g[i] = IF i = 0 THEN base ELSE Next2(g[i - 1])
    <3> HIDE DEF g, base, Next2
    <3> QED  BY <1>4, <1>5, <2>1
  <2>3. g = [i \in 0 .. n |-> g[i]]
    OBVIOUS
  <2> HIDE DEF g, base, Next2
  <2> QED  BY <2>2, <2>3
<1>7. d = CHOOSE f : f = Body(f)
  BY Zenon DEF Decoding, n, s
<1> HIDE DEF d
<1>8. d = Body(d)
  <2> HIDE DEF Body, g
  <2> QED  BY <1>6, <1>7, Zenon
<1>9. d[0] = base /\ \A i \in 1 .. n : d[i] = Next2(d[i - 1])
  <2>1. 0 \in 0 .. n /\ \A i \in 1 .. n : i \in 0 .. n /\ i # 0
    BY <1>1
  <2> HIDE DEF Next2, base, n
  <2> QED  BY <1>8, <2>1
<1> HIDE DEF g, base, Next2
<1>10. \A i \in 0 .. n : d[i] = g[i]
  <2> DEFINE T == {i \in 0 .. n : d[i] = g[i]}
  <2>1. 0 \in T
    BY <1>1, <1>5, <1>9
  <2>2. ASSUME NEW i \in 0 .. n - 1, i \in T PROVE i + 1 \in T
    <3>1. i + 1 \in 1 .. n /\ (i + 1) - 1 = i /\ i + 1 \in 0 .. n
      BY <1>1
    <3>2. d[i + 1] = Next2(d[i]) /\ Next2(g[i]) = g[i + 1]
      BY <1>4, <1>9, <3>1
    <3> QED  BY <2>2, <3>1, <3>2
  <2> HIDE DEF T
  <2>3. 0 .. n \subseteq T
    BY <1>1, <2>1, <2>2, UpwardInduction
  <2> QED  BY <2>3 DEF T
<1>11. d[n] = [tuple |-> SubSeq(tuple, 1, n), next |-> start + s[n]]
  <2>1. n \in 0 .. n
    BY <1>1
  <2> QED  BY <1>10, <2>1 DEF g
<1>12. SubSeq(tuple, 1, n) = tuple
  BY DEF n
<1>13. start + s[n] # 0
  BY <1>c
<1>14. d[n].next # 0 /\ d[n].tuple = tuple
  BY <1>11, <1>12, <1>13
<1>15. ts_deserialize_tuple(h, buffer, n, start) = IF d[n].next = 0 THEN <<>> ELSE d[n].tuple
  BY Zenon DEF ts_deserialize_tuple, d, n
<1> QED  BY <1>14, <1>15, <1>b

(***************************************************************************)
(* Messages.                                                               *)
(***************************************************************************)
MessageOf(who) ==
  IF who = "client" THEN {"send", "get", "ack"} ELSE {"tuple", "lack", "ack", "await"}

\* What client and server pass to the library.
Sendable(who, m) ==
  /\ m = [type |-> m.type, kind |-> m.kind, tuple |-> m.tuple]
  /\ m.type \in MessageOf(who)
  /\ m.tuple \in Seq(ShortField)
  /\ CarriesTuple(m.type) => WellFormed(m.type, m.tuple)
  /\ ~CarriesTuple(m.type) => m.tuple = <<>>
  /\ m.type = "get" => m.kind \in {"rdp", "inp", "rd", "in"} /\ Len(m.tuple) >= 2
  /\ m.type # "get" => m.kind = "none"

LEMMA TypeIsRead ==
  ASSUME NEW who \in {"client", "server"}, NEW type \in MessageOf(who)
  PROVE  /\ MessageCode(who, type) \in 1 .. 4
         /\ MessageCode(who, type) \in DOMAIN TypesFrom(who)
         /\ TypesFrom(who)[MessageCode(who, type)] = type
<1>1. \E i \in DOMAIN TypesFrom(who) : TypesFrom(who)[i] = type
  <2>1. CASE who = "client"
    <3>1. TypesFrom(who) = <<"send", "get", "ack">>
      BY <2>1 DEF TypesFrom
    <3>2. type \in {"send", "get", "ack"}
      BY <2>1 DEF MessageOf
    <3> QED  BY <3>1, <3>2
  <2>2. CASE who = "server"
    <3>1. TypesFrom(who) = <<"tuple", "lack", "ack", "await">>
      BY <2>2 DEF TypesFrom
    <3>2. type \in {"tuple", "lack", "ack", "await"}
      BY <2>2 DEF MessageOf
    <3> QED  BY <3>1, <3>2
  <2> QED  BY <2>1, <2>2
<1>2. DOMAIN TypesFrom(who) \subseteq 1 .. 4
  BY DEF TypesFrom
<1>3. /\ MessageCode(who, type) \in DOMAIN TypesFrom(who)
      /\ TypesFrom(who)[MessageCode(who, type)] = type
  BY <1>1, Zenon DEF MessageCode
<1> QED  BY <1>2, <1>3

LEMMA KindIsRead ==
  ASSUME NEW kind \in {"rdp", "inp", "rd", "in"}
  PROVE  KindCode(kind) \in 0 .. 3 /\ Kinds[(KindCode(kind) % 4) + 1] = kind
<1> DEFINE code == CHOOSE i \in DOMAIN Kinds : Kinds[i] = kind
<1>1. \E i \in DOMAIN Kinds : Kinds[i] = kind
  BY DEF Kinds
<1>2. code \in DOMAIN Kinds /\ Kinds[code] = kind
  BY <1>1, Zenon
<1> HIDE DEF code
<1>3. code \in 1 .. 4
  BY <1>2 DEF Kinds
<1>4. \A c \in 1 .. 4 : c - 1 \in 0 .. 3 /\ ((c - 1) % 4) + 1 = c
  BY SMT
<1>5. KindCode(kind) = code - 1
  BY DEF KindCode, code
<1>6. KindCode(kind) \in 0 .. 3 /\ (KindCode(kind) % 4) + 1 = code
  BY <1>3, <1>4, <1>5
<1> QED  BY <1>2, <1>6

\* Size and type share a byte.
LEMMA HeaderIsRead ==
  ASSUME NEW n \in 1 .. 16, NEW code \in 1 .. 4
  PROVE  /\ 16 * (n - 1) + code \in Byte
         /\ (16 * (n - 1) + code) % 16 = code
         /\ (16 * (n - 1) + code) \div 16 = n - 1
<1>1. 16 * (n - 1) + code \in Nat /\ 16 * (n - 1) + code < 256
  OBVIOUS
<1>2. (16 * (n - 1) + code) % 16 = code
  BY SMT
<1>3. (16 * (n - 1) + code) \div 16 = n - 1
  BY SMT
<1>4. 16 * (n - 1) + code \in Byte
  BY <1>1, SMT DEF Byte
<1> QED  BY <1>2, <1>3, <1>4

\* A message that carries no tuple always fits.
LEMMA PlainMessageIsRead ==
  ASSUME NEW who \in {"client", "server"}, NEW m, Sendable(who, m), ~CarriesTuple(m.type),
         NEW h, NEW d \in Datagrams(h, who, m)
  PROVE  /\ d # <<>> /\ Fits(m) /\ Len(d) <= BufferSize
         /\ \A reader : Decoded(reader, who, d) = m
<1> DEFINE code == MessageCode(who, m.type)
<1>1. /\ code \in 1 .. 4 /\ code \in DOMAIN TypesFrom(who)
      /\ TypesFrom(who)[code] = m.type
  BY TypeIsRead DEF Sendable
<1>2. m.kind = "none" /\ m.tuple = <<>>
  BY DEF Sendable, CarriesTuple
<1>3. m = [type |-> m.type, kind |-> "none", tuple |-> <<>>]
  BY <1>2, Zenon DEF Sendable
<1> HIDE DEF code
<1>4. PICK upper \in Garbage : d = <<16 * upper + code>>
  BY DEF Datagrams, code
<1>5. upper \in Nat
  BY SerializationAssumption
<1>6. (16 * upper + code) % 16 = code
  BY <1>1, <1>5, SMT
<1>7. d[1] = 16 * upper + code /\ Len(d) = 1 /\ d # <<>>
  BY <1>4
<1>8. d[1] % 16 = code
  BY <1>6, <1>7
<1>9. ASSUME NEW reader PROVE Decoded(reader, who, d) = m
  <2>1. Decoded(reader, who, d) = [Nothing EXCEPT !.type = m.type]
    BY <1>1, <1>8, Zenon DEF Decoded
  <2>2. [Nothing EXCEPT !.type = m.type] = [type |-> m.type, kind |-> "none", tuple |-> <<>>]
    BY DEF Nothing
  <2> QED  BY <1>3, <2>1, <2>2
<1>10. Fits(m)
  BY Zenon DEF Fits
<1>11. Len(d) <= BufferSize
  BY <1>7, SerializationAssumption
<1> QED  BY <1>7, <1>9, <1>10, <1>11

\* What stands where in a datagram that carries a tuple.
LEMMA DatagramLayout ==
  ASSUME NEW header \in Byte, NEW b \in Seq(Byte), NEW k \in Byte, NEW p \in {1, 2},
         NEW flags, flags = (IF p = 2 THEN <<k>> ELSE <<>>),
         NEW d, d = (<<header>> \o flags) \o b
  PROVE  /\ d \in Seq(Byte) /\ Len(d) = p + Len(b) /\ d # <<>>
         /\ d[1] = header /\ (p = 2 => d[2] = k)
         /\ \A i \in 1 .. Len(b) : d[p + i] = b[i]
<1>1. Len(b) \in Nat
  OBVIOUS
<1>2. CASE p = 2
  <2> DEFINE two == <<header, k>>
  <2>1. <<header>> \o flags = two
    <3>1. flags = <<k>>
      BY <1>2, Zenon
    <3> QED  BY <3>1, ByteThenByte, Zenon
  <2>2. two \in Seq(Byte) /\ Len(two) = 2 /\ two[1] = header /\ two[2] = k
    OBVIOUS
  <2>3. d = two \o b
    BY <1>2, <2>1
  <2> HIDE DEF two
  <2> QED  BY <1>2, <2>2, <2>3, TwoThenBytes
<1>3. CASE p = 1
  <2>1. <<header>> \o flags = <<header>>
    BY <1>3
  <2>2. d = <<header>> \o b
    BY <1>3, <2>1
  <2>3. /\ d \in Seq(Byte) /\ Len(d) = 1 + Len(b) /\ d[1] = header
        /\ \A i \in 1 .. Len(b) : d[1 + i] = b[i]
    BY <2>2, ByteThenBytes
  <2>4. d # <<>>
    BY <1>1, <2>3
  <2> QED  BY <1>3, <2>2, <2>3, <2>4
<1> QED  BY <1>2, <1>3

\* A message with a tuple is sent if it fits, and then read as it was sent.
LEMMA CarryingMessageIsRead ==
  ASSUME NEW who \in {"client", "server"}, NEW m, Sendable(who, m), CarriesTuple(m.type),
         NEW h, NEW d \in Datagrams(h, who, m)
  PROVE  /\ d # <<>> <=> Fits(m)
         /\ d # <<>> => Len(d) <= BufferSize /\ \A reader : Decoded(reader, who, d) = m
<1> DEFINE code   == MessageCode(who, m.type)
           t      == m.tuple
           n      == Len(t)
           s      == SizeOf(t)
           p      == Prefix(m)
           room   == BufferSize - p
           b      == ts_serialize_tuple(h, t, room)
           k      == KindCode(m.kind)
           header == 16 * (n - 1) + code
           flags  == IF m.type = "get" THEN <<k>> ELSE <<>>
<1>1. /\ code \in 1 .. 4 /\ code \in DOMAIN TypesFrom(who)
      /\ TypesFrom(who)[code] = m.type
  BY TypeIsRead DEF Sendable
<1>2. /\ t \in Seq(ShortField) /\ t # <<>> /\ WellFormed(m.type, t)
      /\ m.type = "get" => n >= 2
  BY Zenon DEF Sendable, WellFormed
<1>3. n \in Nat /\ n >= 1
  BY <1>2
<1>4. p = (IF m.type = "get" THEN 2 ELSE 1) /\ p \in Nat /\ p + 0 = p
  BY DEF Prefix
<1>5. BufferSize \in Nat /\ BufferSize >= 2 /\ MaxTupleSize \in 1 .. 16
  BY SerializationAssumption
<1>6. room \in Nat
  BY <1>4, <1>5
<1>7. n \in 0 .. n /\ s[n] \in Nat
  BY <1>2, <1>3, SizeUnfolds
<1>8. /\ b # <<>> <=> n <= MaxTupleSize /\ s[n] <= room
      /\ b # <<>> => /\ b \in Seq(Byte) /\ Len(b) = s[n]
                     /\ \A i \in 1 .. n : \A j \in 1 .. FieldSize(t[i]) :
                          b[s[i - 1] + j] = Image(t[i])[j]
  <2> HIDE DEF t, room
  <2>1. t \in Seq(ShortField) /\ t # <<>> /\ room \in Nat
    BY <1>2, <1>6
  <2> QED  BY <2>1, TupleIsWritten
<1>9. Fits(m) <=> n \in 1 .. MaxTupleSize /\ p + s[n] <= BufferSize
  BY <1>4, Zenon DEF Fits
<1>10. b # <<>> <=> Fits(m)
  <2> HIDE DEF n, s, p, b
  <2>1. s[n] <= room <=> p + s[n] <= BufferSize
    BY <1>4, <1>5, <1>7
  <2>2. n <= MaxTupleSize <=> n \in 1 .. MaxTupleSize
    BY <1>3, <1>5
  <2> HIDE DEF room
  <2> QED  BY <1>8, <1>9, <2>1, <2>2
<1>11. CASE b = <<>>
  <2>1. d \in {<<>>}
    BY <1>11, Zenon DEF Datagrams
  <2> QED  BY <1>10, <1>11, <2>1
<1>12. CASE b # <<>>
  <2>1. n \in 1 .. 16
    <3> HIDE DEF n, b, s
    <3> QED  BY <1>3, <1>5, <1>8, <1>12
  <2>2. d \in {(<<header>> \o flags) \o b}
    BY <1>12, <2>1, Zenon DEF Datagrams
  <2>3. header \in Byte /\ header % 16 = code /\ header \div 16 = n - 1
    <3> HIDE DEF n, code
    <3> QED  BY <1>1, <2>1, HeaderIsRead
  <2>4. m.type = "get" => k \in Byte /\ Kinds[(k % 4) + 1] = m.kind
    <3>1. m.type = "get" => m.kind \in {"rdp", "inp", "rd", "in"}
      BY DEF Sendable
    <3>2. m.type = "get" => k \in 0 .. 3 /\ Kinds[(k % 4) + 1] = m.kind
      BY <3>1, KindIsRead
    <3>3. \A c \in 0 .. 3 : c \in Byte
      BY DEF Byte
    <3> HIDE DEF k
    <3> QED  BY <3>2, <3>3
  <2> DEFINE k1 == IF m.type = "get" THEN k ELSE 0
  <2>5. k1 \in Byte /\ flags = (IF m.type = "get" THEN <<k1>> ELSE <<>>)
    <3>1. 0 \in Byte
      BY DEF Byte
    <3> HIDE DEF k
    <3> QED  BY <2>4, <3>1
  <2> HIDE DEF code, t, n, s, p, room, b, k, header, flags, k1
  <2>6. d = (<<header>> \o flags) \o b
    BY <2>2
  <2>7. /\ d \in Seq(Byte) /\ Len(d) = p + Len(b) /\ d # <<>>
        /\ d[1] = header /\ (m.type = "get" => d[2] = k1)
        /\ \A i \in 1 .. Len(b) : d[p + i] = b[i]
    <3>1. p \in {1, 2} /\ (p = 2 <=> m.type = "get") /\ flags = (IF p = 2 THEN <<k1>> ELSE <<>>)
      BY <1>4, <2>5
    <3>2. b \in Seq(Byte)
      BY <1>8, <1>12
    <3>3. /\ d \in Seq(Byte) /\ Len(d) = p + Len(b) /\ d # <<>>
          /\ d[1] = header /\ (p = 2 => d[2] = k1)
          /\ \A i \in 1 .. Len(b) : d[p + i] = b[i]
      BY <2>3, <2>5, <2>6, <3>1, <3>2, DatagramLayout
    <3> QED  BY <3>1, <3>3
  <2>8. Len(b) = s[n] /\ s[n] <= room
    BY <1>8, <1>12
  <2>9. Len(d) <= BufferSize
    BY <1>4, <1>5, <1>7, <2>7, <2>8 DEF room
  <2>10. ASSUME NEW reader PROVE Decoded(reader, who, d) = m
    <3> DEFINE start == IF m.type = "get" THEN 3 ELSE 2
    <3>1. start = p + 1 /\ start \in Nat /\ start >= 1 /\ start - 1 = p
      BY <1>4
    <3>2. d[1] % 16 = code /\ d[1] \div 16 + 1 = n
      BY <1>3, <2>3, <2>7
    <3>3. ts_deserialize_tuple(reader, d, n, start) = t
      <4> HIDE DEF start
      <4>1. start + s[n] <= Len(d) + 1
        BY <1>4, <1>7, <2>7, <2>8, <3>1
      <4>2. ASSUME NEW i \in 1 .. n, NEW j \in 1 .. FieldSize(t[i])
            PROVE  d[(start - 1) + (s[i - 1] + j)] = Image(t[i])[j]
        <5>1. b[s[i - 1] + j] = Image(t[i])[j]
          BY <1>8, <1>12
        <5>2. s[i - 1] + j \in 1 .. Len(b)
          <6>1. i - 1 \in 0 .. n /\ i \in 0 .. n
            BY <1>3
          <6>2. /\ s[i - 1] \in Nat /\ s[i] = s[i - 1] + FieldSize(t[i])
                /\ s[i] <= s[n]
            BY <1>2, <1>7, <6>1, SizeUnfolds, SizeGrows DEF s, n
          <6>3. FieldSize(t[i]) \in Nat
            <7>1. t[i] \in ShortField
              BY <1>2 DEF n
            <7> QED  BY <7>1, ImageProperties
          <6> QED  BY <1>7, <2>8, <6>2, <6>3
        <5> QED  BY <2>7, <3>1, <5>1, <5>2
      <4>3. t \in Seq(ShortField) /\ d \in Seq(Byte) /\ start \in Nat \ {0}
        BY <1>2, <2>7, <3>1
      <4> HIDE DEF s, n
      <4>4. s = SizeOf(t) /\ n = Len(t)
        BY DEF s, n
      <4> QED  BY <3>1, <4>1, <4>2, <4>3, <4>4, TupleIsRead
    <3>4. ~(m.type = "get" /\ n < 2)
      BY <1>2, <1>3
    <3>5. Decoded(reader, who, d) =
            [type |-> m.type,
             kind |-> IF m.type = "get" THEN Kinds[(d[2] % 4) + 1] ELSE "none",
             tuple |-> t]
      BY <1>1, <1>2, <3>2, <3>3, <3>4, Zenon DEF Decoded
    <3>6. m.kind = IF m.type = "get" THEN Kinds[(d[2] % 4) + 1] ELSE "none"
      <4>1. m.type # "get" => m.kind = "none"
        BY DEF Sendable
      <4> QED  BY <2>4, <2>7, <4>1 DEF k1
    <3>7. m = [type |-> m.type, kind |-> m.kind, tuple |-> t]
      BY Zenon DEF Sendable, t
    <3> QED  BY <3>5, <3>6, <3>7
  <2> QED  BY <1>10, <1>12, <2>7, <2>9, <2>10
<1> QED  BY <1>11, <1>12

LEMMA DatagramIsRead ==
  ASSUME NEW who \in {"client", "server"}, NEW m, Sendable(who, m),
         NEW h, NEW d \in Datagrams(h, who, m)
  PROVE  /\ d # <<>> <=> Fits(m)
         /\ d # <<>> => Len(d) <= BufferSize /\ \A reader : Decoded(reader, who, d) = m
<1>1. CASE CarriesTuple(m.type)
  BY <1>1, CarryingMessageIsRead
<1>2. CASE ~CarriesTuple(m.type)
  BY <1>2, PlainMessageIsRead
<1> QED  BY <1>1, <1>2

(***************************************************************************)
(* The invariant: whoever has the word passes a message the library takes, *)
(* a datagram is one the writer's machine made of it, and the server never *)
(* has the word with a tuple that does not fit.                            *)
(***************************************************************************)
SerializationInv ==
  /\ host \in [{"client", "server"} -> Host]
  /\ writer \in {"client", "server"}
  /\ turn \in {"write", "read", "process", "refused"}
  /\ Sendable(writer, message)
  /\ turn = "read" => /\ datagram # <<>>
                      /\ \E h \in Host : datagram \in Datagrams(h, writer, message)
  /\ turn = "process" => read = message
  /\ turn \in {"read", "process"} => Fits(message)
  /\ turn = "refused" => ~Fits(message)
  /\ writer = "server" => Fits(message)

LEMMA RequestsAreSendable ==
  ASSUME ShortStrings, NEW r \in Requests
  PROVE  Sendable("client", r)
<1>1. r \in       [type : {"send"}, kind : {"none"}, tuple : Seq(FieldToSend)]
            \cup [type : {"get"}, kind : {"rdp", "inp", "rd", "in"}, tuple : Seq(FieldToSend)]
            \cup [type : {"ack"}, kind : {"none"}, tuple : {<<>>}]
  BY RequestsAssumption
<1>2. /\ CarriesTuple(r.type) => WellFormed(r.type, r.tuple)
      /\ r.type = "get" => Len(r.tuple) >= 2
  BY RequestsAssumption
<1>3. \A i \in DOMAIN r.tuple : Len(r.tuple[i].value) < UShortValues
  BY DEF ShortStrings
<1>4. /\ r = [type |-> r.type, kind |-> r.kind, tuple |-> r.tuple]
      /\ r.tuple \in Seq(FieldToSend)
      /\ r.type \in {"send", "get", "ack"}
      /\ r.type = "ack" => r.tuple = <<>>
      /\ r.type = "get" => r.kind \in {"rdp", "inp", "rd", "in"}
      /\ r.type # "get" => r.kind = "none"
  <2>1. CASE r \in [type : {"send"}, kind : {"none"}, tuple : Seq(FieldToSend)]
    BY <2>1
  <2>2. CASE r \in [type : {"get"}, kind : {"rdp", "inp", "rd", "in"},
                    tuple : Seq(FieldToSend)]
    BY <2>2
  <2>3. CASE r \in [type : {"ack"}, kind : {"none"}, tuple : {<<>>}]
    <3>1. r.tuple = <<>> /\ <<>> \in Seq(FieldToSend)
      BY <2>3
    <3> QED  BY <2>3, <3>1
  <2> QED  BY <1>1, <2>1, <2>2, <2>3
<1>5. r.tuple \in Seq(ShortField)
  <2>1. \A i \in 1 .. Len(r.tuple) : r.tuple[i] \in ShortField
    BY <1>3, <1>4 DEF ShortField
  <2> QED  BY <1>4, <2>1
<1>6. r.type \in MessageOf("client")
  BY <1>4 DEF MessageOf
<1>7. ~CarriesTuple(r.type) => r.tuple = <<>>
  BY <1>4 DEF CarriesTuple
<1> QED  BY <1>2, <1>4, <1>5, <1>6, <1>7, Zenon DEF Sendable

LEMMA InitSerializes ==
  ASSUME ShortStrings, SerializationInit
  PROVE  SerializationInv
<1> USE DEF SerializationInit
<1>1. Sendable("client", message)
  BY RequestsAreSendable
<1> QED  BY <1>1 DEF SerializationInv

LEMMA EncodeSerializes ==
  ASSUME SerializationInv, Encode
  PROVE  SerializationInv'
<1> USE DEF Encode
<1>1. /\ datagram' # <<>> <=> Fits(message)
      /\ writer \in {"client", "server"} /\ host[writer] \in Host
  BY DatagramIsRead DEF SerializationInv
<1>2. /\ host' = host /\ writer' = writer /\ message' = message
      /\ turn' = IF Fits(message) THEN "read" ELSE "refused"
  BY <1>1
<1>3. \E h \in Host : datagram' \in Datagrams(h, writer, message)
  BY <1>1
<1>4. writer = "server" => Fits(message)
  BY DEF SerializationInv
<1>5. Sendable(writer, message) /\ host \in [{"client", "server"} -> Host]
  BY DEF SerializationInv
<1> QED  BY <1>1, <1>2, <1>3, <1>4, <1>5 DEF SerializationInv

LEMMA DecodeSerializes ==
  ASSUME SerializationInv, Decode
  PROVE  SerializationInv'
<1> USE DEF Decode
<1>1. PICK h \in Host : datagram \in Datagrams(h, writer, message)
  BY DEF SerializationInv
<1>2. datagram # <<>> /\ Fits(message) /\ writer \in {"client", "server"}
      /\ Sendable(writer, message)
  BY DEF SerializationInv
<1>3. read' = message
  BY <1>1, <1>2, DatagramIsRead
<1>4. /\ host' = host /\ writer' = writer /\ message' = message /\ turn' = "process"
  OBVIOUS
<1> QED  BY <1>2, <1>3, <1>4 DEF SerializationInv

\* The tuple of a SEND TUPLE is as long in the TUPLE that passes it on.
LEMMA AnswerSerializes ==
  ASSUME SerializationInv, Answer
  PROVE  SerializationInv'
<1> USE DEF Answer
<1>1. /\ read = message /\ Sendable("client", message) /\ Fits(message)
      /\ host \in [{"client", "server"} -> Host]
  BY DEF SerializationInv
<1>2. host' \in [{"client", "server"} -> Host]
  BY <1>1
<1>3. /\ writer' = "server" /\ turn' = "write"
  OBVIOUS
<1>4. PICK type \in CASE read.type = "send" -> {"ack", "tuple"}
                      [] read.type = "get"  -> {"lack", "await"}
                      [] OTHER              -> {"ack"} :
        message' = [type |-> type, kind |-> "none",
                    tuple |-> IF type = "tuple" THEN read.tuple ELSE <<>>]
  BY Zenon
<1>5. /\ type \in {"ack", "tuple", "lack", "await"}
      /\ type = "tuple" => message.type = "send"
  BY <1>1, <1>4
<1>6. /\ message'.type = type /\ message'.kind = "none"
      /\ message'.tuple = IF type = "tuple" THEN message.tuple ELSE <<>>
      /\ message' = [type |-> message'.type, kind |-> message'.kind, tuple |-> message'.tuple]
  BY <1>1, <1>4
<1>7. CASE type = "tuple"
  <2>1. message.type = "send" /\ message'.tuple = message.tuple /\ message'.type = "tuple"
    BY <1>5, <1>6, <1>7
  <2>2. /\ message.tuple \in Seq(ShortField)
        /\ WellFormed("send", message.tuple)
    BY <1>1, <2>1 DEF Sendable, CarriesTuple
  <2>3. WellFormed("tuple", message'.tuple)
    BY <2>1, <2>2 DEF WellFormed
  <2>4. Fits(message')
    <3>1. CarriesTuple("send")
      BY DEF CarriesTuple
    <3> QED  BY <1>1, <2>1, <3>1 DEF Fits
  <2>5. Sendable("server", message')
    BY <1>6, <2>1, <2>2, <2>3 DEF Sendable, CarriesTuple, MessageOf
  <2> QED  BY <1>2, <1>3, <2>4, <2>5 DEF SerializationInv
<1>8. CASE type # "tuple"
  <2>1. message'.tuple = <<>> /\ message'.type \in {"ack", "lack", "await"}
    BY <1>5, <1>6, <1>8
  <2>2. ~CarriesTuple(message'.type)
    BY <2>1 DEF CarriesTuple
  <2>3. Fits(message')
    BY <2>2, Zenon DEF Fits
  <2>4. Sendable("server", message')
    BY <1>6, <2>1, <2>2 DEF Sendable, MessageOf
  <2> QED  BY <1>2, <1>3, <2>3, <2>4 DEF SerializationInv
<1> QED  BY <1>7, <1>8

\* In every run SerializationInv holds, if no string is longer than its length field can say.
THEOREM SerializationInvariant ==
  ASSUME ShortStrings
  PROVE  SerializationSpec => []SerializationInv
<1>1. SerializationInit => SerializationInv
  BY InitSerializes
<1>2. SerializationInv /\ [SerializationNext]_serializationVars => SerializationInv'
  <2> SUFFICES ASSUME SerializationInv, [SerializationNext]_serializationVars
               PROVE  SerializationInv'
    OBVIOUS
  <2>1. CASE Encode
    BY <2>1, EncodeSerializes
  <2>2. CASE Decode
    BY <2>2, DecodeSerializes
  <2>3. CASE Answer
    BY <2>3, AnswerSerializes
  <2>4. CASE UNCHANGED serializationVars
    BY <2>4 DEF SerializationInv, serializationVars
  <2> QED  BY <2>1, <2>2, <2>3, <2>4 DEF SerializationNext
<1> QED  BY <1>1, <1>2, PTL DEF SerializationSpec

\* What one machine encodes another decodes to the same message, whatever the
\* byte order of either, a tuple also when the server passes it on.
THEOREM MessagesArriveAsSent ==
  ASSUME ShortStrings
  PROVE  SerializationSpec => []ArrivesAsSent
<1>1. SerializationInv => ArrivesAsSent
  BY DEF SerializationInv, ArrivesAsSent
<1> QED  BY <1>1, SerializationInvariant, PTL

\* The library refuses what does not fit into a datagram and nothing else, and
\* writes no byte behind the end of the buffer.
THEOREM MessagesAreSentIfTheyFit ==
  ASSUME ShortStrings
  PROVE  SerializationSpec => []SentIfItFits
<1>1. SerializationInv => SentIfItFits
  <2> SUFFICES ASSUME SerializationInv
               PROVE  SentIfItFits
    OBVIOUS
  <2>1. ASSUME turn = "read" PROVE Len(datagram) <= BufferSize
    <3>1. PICK h \in Host : datagram \in Datagrams(h, writer, message)
      BY <2>1 DEF SerializationInv
    <3> QED  BY <2>1, <3>1, DatagramIsRead DEF SerializationInv
  <2> QED  BY <2>1 DEF SerializationInv, SentIfItFits
<1> QED  BY <1>1, SerializationInvariant, PTL

\* The server never refuses to pass on a tuple that it accepted.
THEOREM AnswersAreSent ==
  ASSUME ShortStrings
  PROVE  SerializationSpec => []AnswerIsSent
<1>1. SerializationInv => AnswerIsSent
  BY DEF SerializationInv, AnswerIsSent
<1> QED  BY <1>1, SerializationInvariant, PTL
=============================================================================
