---------------------------- MODULE ProtoMessage ----------------------------
(***************************************************************************)
(* The shapes of message fields.  A message is a function from its field   *)
(* numbers to contents; a field has a cardinality and a sort:              *)
(*   One       a plain Go field, the content is a value of the sort;       *)
(*   Optional  a pointer, the content is a sequence of at most one value;  *)
(*   Repeated  a slice, the content is a sequence of values;               *)
(*   Choice    a variant of a oneof, like Optional, one of them at a time. *)
(* A sort is a scalar type, "text" (string or bytes), a type of the SDK    *)
(* with a codec of its own, or the name of a message of this repository.   *)
(* "External" is a message of another module, whose encoding is opaque.    *)
(***************************************************************************)
EXTENDS Integers, Sequences, TLC

One(sort) == [card |-> "one", sort |-> sort]
Optional(sort) == [card |-> "optional", sort |-> sort]
Repeated(sort) == [card |-> "repeated", sort |-> sort]
Choice(sort) == [card |-> "choice", sort |-> sort]

Uint64 == One("uint64")
Uint32 == One("uint32")
Enum == One("enum")
Bool == One("bool")
Text == One("text")
Dec == One("Dec")
Duration == One("Duration")
Time == One("Time")
External == One("External")
Packed == Repeated("packed")

\* A row of MarshalToSizedBuffer: the tag it writes and whether the statements
\* that write it stand under a test that the content is not empty.
NonZero(tag) == [tag |-> tag, always |-> FALSE]
Always(tag) == [tag |-> tag, always |-> TRUE]

\* A row of Size: the number of the field it counts and whether the statements
\* that count it stand under a test that the content is not empty.
CountSet(n) == [num |-> n, always |-> FALSE]
CountAlways(n) == [num |-> n, always |-> TRUE]

VarintSorts == {"uint64", "uint32", "enum", "bool", "packed"}
TextSorts == {"text", "Dec", "Duration", "Time"}
=============================================================================
