---------------------- MODULE MCTupleSpaceSerialization ----------------------
(***************************************************************************)
(* Messages around the limits of the buffer and of the size of a tuple,    *)
(* with the sizes of the code.                                             *)
(***************************************************************************)
EXTENDS TupleSpaceSerialization

CONSTANTS little, big

FieldOf(type, value) == [type |-> type, hasData |-> TRUE, value |-> value]
NoData(type)        == [type |-> type, hasData |-> FALSE, value |-> <<>>]

Id        == FieldOf("uint", <<1, 0, 0, 0>>)
Chars(n)  == [i \in 1 .. n |-> 65]

\* With the id a string of 247 bytes fills the buffer of SEND TUPLE.
MCLength == {0, 1, 120, 122, 243, 244, 245, 246, 247, 248}

DataField ==
       {FieldOf("string", Chars(n)) : n \in MCLength}
  \cup {FieldOf(type, <<1, 2, 128, 255>>) : type \in NumberType}
  \cup {FieldOf("bool", <<0>>), FieldOf("bool", <<1>>)}

AnyField == {NoData("string"), NoData("uint"), NoData("bool")}

MCValue == {f.value : f \in DataField \cup AnyField} \cup {Id.value}

Rest(fields) == {<<f>> : f \in fields} \cup {<<f, g>> : f, g \in fields}

HasData(f) == f.hasData

Wide(n, last) == <<Id>> \o [i \in 1 .. n |-> FieldOf("bool", <<1>>)] \o <<last>>

MCRequests ==
       {[type |-> "send", kind |-> "none", tuple |-> <<Id>> \o rest] :
          rest \in Rest(DataField) \cup {<<>>}}
  \cup {[type |-> "get", kind |-> kind, tuple |-> <<Id>> \o rest] :
          kind \in {"in", "inp", "rd", "rdp"},
          rest \in {r \in Rest(DataField \cup AnyField) :
                      \E i \in DOMAIN r : ~HasData(r[i])}}
  \cup {[type |-> "send", kind |-> "none", tuple |-> Wide(n, FieldOf("bool", <<0>>))] :
          n \in {13, 14, 15}}
  \cup {[type |-> "get", kind |-> "inp", tuple |-> Wide(n, NoData("uint"))] :
          n \in {14, 15}}
  \cup {[type |-> "ack", kind |-> "none", tuple |-> <<>>]}
=============================================================================
