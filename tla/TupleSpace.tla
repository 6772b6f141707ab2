----------------------------- MODULE TupleSpace -----------------------------
(***************************************************************************)
(* The pure part of libts/common/tuple_space.c: fields, tuples, templates  *)
(* and the matching of a template against a tuple.                         *)
(*                                                                         *)
(* A field is the flags byte and the data union of ts_tuple_field_t: its   *)
(* type, whether it contains data, and the value.  A tuple is a sequence   *)
(* of fields that all contain data, a template one where some field does   *)
(* not.  Values are opaque; the float NaN, which C compares unequal to     *)
(* itself, is not among them.                                              *)
(***************************************************************************)
EXTENDS Naturals, Sequences

CONSTANT Value        \* the payloads a field can carry

FieldType == {"invalid", "uint", "int", "float", "bool", "string"}

Field == [type : FieldType, hasData : BOOLEAN, value : Value]

\* True for the sequences a SEND TUPLE message may carry.
ts_does_all_fields_of_tuple_contain_data(tuple) ==
  \A i \in DOMAIN tuple : tuple[i].hasData

\* The switch over the field type; its default case is "never equal".
ts_compare_tuple_fields(left, right) ==
  left.type # "invalid" /\ left.value = right.value

\* Types agree everywhere, values wherever the template has one.  The caller
\* only compares sequences of the same size, as the buckets of the server do.
ts_is_matching_tuple(template, data) ==
  \A i \in DOMAIN template :
    /\ template[i].type = data[i].type
    /\ template[i].hasData => ts_compare_tuple_fields(template[i], data[i])
=============================================================================
