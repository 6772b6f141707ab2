---------------------------- MODULE BlockMemory ----------------------------
(***************************************************************************)
(* libts/common/tuple_space_block_memory_resource.c: the allocator of the  *)
(* applications.  A block is what lies behind a pointer that only moves    *)
(* forward; nothing is given back before all is, and nothing compares the  *)
(* pointer with the size of the memory.                                    *)
(*                                                                         *)
(* The callers' demands are those of one operation of the client: the      *)
(* array of pointers a request is built in, and the tuple of its answer.   *)
(***************************************************************************)
EXTENDS TupleSpace, SequencesExt

CONSTANTS
  MemorySize,       \* TS_MEMORY_RESOURCE_SIZE
  PointerSize,      \* sizeof(ts_tuple_field_t*)
  FieldSize,        \* sizeof(ts_tuple_field_t)
  StringSize        \* Value -> strlen(value) + 1, for the values of string fields

ASSUME SizesAssumption ==
  MemorySize \in Nat /\ PointerSize \in Nat /\ FieldSize \in Nat /\ StringSize \in [Value -> Nat]

\* ts_memory_resource_free_block, and as if it left the pointer.
FreeBlock_Forgotten(pointer) == pointer

FreeBlock(pointer) == 0

allocation_cb(pointer, allocation_size) == pointer + allocation_size

\* The request carries the connection id in front of the application's fields.
SpanBytes(tuple) == PointerSize * Len(tuple)

StringBytes(field) ==
  IF field.type = "string" /\ field.hasData THEN StringSize[field.value] ELSE 0

\* The answer: an array of fields, then a copy of each string.
TupleBytes(tuple) ==
  FieldSize * Len(tuple) + FoldLeft(LAMBDA sum, field : sum + StringBytes(field), 0, tuple)
=============================================================================
