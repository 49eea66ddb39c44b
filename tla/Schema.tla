------------------------------- MODULE Schema -------------------------------
(***************************************************************************)
(* How the protobuf generator of the Node SDK (sdk/node/src/gen) declares   *)
(* the fields of a message.  Every generated file repeats the same seven    *)
(* functions per message (createBase, encode, decode, fromJSON, toJSON,     *)
(* create, fromPartial); what differs from one message to the next is only  *)
(* the table of its fields.  A message is therefore modelled by that table, *)
(* a set of the records below, and the functions are modelled once, for     *)
(* every table, in Wire.                                                    *)
(*                                                                         *)
(*   name  the property of the object (camelCase, as in the code)           *)
(*   slot  where the value lives: the property itself, or the oneof it is a *)
(*         case of                                                          *)
(*   num   the field number, kind its type (a scalar, an enum, or the name  *)
(*         of a message), rule how presence is kept                         *)
(***************************************************************************)
LOCAL INSTANCE Integers

\* if (message.x !== <zero>) write: the zero value is not sent.
Field(name, num, kind) ==
    [name |-> name, slot |-> name, num |-> num, kind |-> kind, rule |-> "implicit"]

\* if (message.x !== undefined) write: presence is kept.
Opt(name, num, kind) ==
    [name |-> name, slot |-> name, num |-> num, kind |-> kind, rule |-> "optional"]

\* for (const v of message.x) write
Rep(name, num, kind) ==
    [name |-> name, slot |-> name, num |-> num, kind |-> kind, rule |-> "repeated"]

\* Object.entries(message.x).forEach(write): a { [key: string]: string }
Dict(name, num) ==
    [name |-> name, slot |-> name, num |-> num, kind |-> "entry", rule |-> "map"]

\* switch (message.oneof?.$case) { case "x": write }
Case(oneof, name, num, kind) ==
    [name |-> name, slot |-> oneof, num |-> num, kind |-> kind, rule |-> "oneof"]

Varints == {"bool", "int32", "int64", "uint32", "uint64"}
Wide    == {"int64", "uint64"}      \* a bigint: BigInt.asIntN(64, ..) / asUintN
Whole   == {"int32", "uint32"}      \* a number that toJSON rounds
Scalars == Wide \cup Whole \cup {"bool", "string", "bytes", "double", "Date"}
=============================================================================
