-------------------------------- MODULE Wire --------------------------------
(***************************************************************************)
(* The generated message functions of sdk/node/src/gen: fromPartial,        *)
(* encode, decode, toJSON and fromJSON, for every message at once: the        *)
(* functions below are the text the generator repeats for each field table   *)
(* (module Schema).                                                          *)
(*                                                                         *)
(* One behaviour sends one message from a writer to a reader.  The two have  *)
(* the same table, or tables of two versions of the v1 schema, one of which  *)
(* has fields that the other does not know: plain or repeated fields, or     *)
(* variants of a oneof (CONTRIBUTING.md: "using only additive v1 changes and  *)
(* never reusing removed field numbers").                                    *)
(*                                                                         *)
(* A message maps each slot to the entries it holds, in order: exactly one   *)
(* for a plain field, at most one for an optional field or a oneof, any      *)
(* number for an array or a dictionary.  A bigint is an integer, of which     *)
(* int64 and uint64 have the usual halves; any other number counts halves,    *)
(* so that 1 is 0.5, which only a double may hold; a Date is its              *)
(* milliseconds, a Uint8Array the sequence of its octets.  A string, a bool,  *)
(* an enum and a nested message are integers, 0 for the zero value: a nested  *)
(* message is opaque, since its bytes are length-delimited and its own        *)
(* fields have a table of theirs.                                            *)
(***************************************************************************)
EXTENDS Schema, Integers, Sequences

CONSTANTS Pairs,           \* the tables of writer and reader, as [writer, reader]
          Partials(_),     \* the messages a caller may ask for, per table of a writer
          Enums,           \* for each enum, the numbers its conversions know
          Half             \* the number of values below zero of an int64 (2^63)

VARIABLES
    writer,    \* the table of the sending side
    reader,    \* the table of the receiving side
    channel,   \* "bytes" (encode, decode) or "json" (toJSON, fromJSON)
    upwards,   \* the writer emits its fields by ascending number, as this SDK does
    sent,      \* the message the sender built with fromPartial
    todo,      \* the fields encode has not reached
    wire,      \* the bytes, one token per field value
    json,      \* the JSON object, a set of members
    received,  \* the message the reader has built so far
    phase      \* "encode", "refused", "decode", "done"

vars == <<writer, reader, channel, upwards, sent, todo, wire, json, received, phase>>

-----------------------------------------------------------------------------
Width == 2 * Half     \* the number of values of a 64-bit varint

Slots(S) == {f.slot : f \in S}
Entry(f, key, v) == [num |-> f.num, key |-> key, val |-> v]

\* The entries of a slot belong to one field, the variant of a oneof that is set.
EntriesOf(f, m) == IF \E i \in DOMAIN m[f.slot] : m[f.slot][i].num = f.num THEN m[f.slot] ELSE <<>>

Zero(f) == IF f.kind = "bytes" THEN <<>> ELSE 0

\* createBaseX(): zero values, undefined, [] and {}.
Base(S) ==
    [s \in Slots(S) |-> LET f == CHOOSE f \in S : f.slot = s
                        IN IF f.rule = "implicit" THEN <<Entry(f, "", Zero(f))>> ELSE <<>>]

\* fromPartial (and create): what the caller leaves undefined gets its default.
FromPartial(S, partial) ==
    [s \in Slots(S) |-> IF s \in DOMAIN partial THEN partial[s] ELSE Base(S)[s]]

-----------------------------------------------------------------------------
(* encode and decode *)

WireType(f) == CASE f.kind \in Varints \cup DOMAIN Enums -> 0
                 [] f.kind = "double" -> 1
                 [] OTHER -> 2
Tag(f) == 8 * f.num + WireType(f)

\* toTimestamp and fromTimestamp: Math.trunc and a remainder with the sign of
\* the date, so a date before 1970 has nanoseconds below zero.
ToTimestamp(ms) ==
    LET abs  == IF ms < 0 THEN -ms ELSE ms
        sign == IF ms < 0 THEN -1 ELSE 1
    IN [seconds |-> sign * (abs \div 1000), nanos |-> sign * (abs % 1000) * 1000000]
FromTimestamp(t) ==
    LET sign == IF t.nanos < 0 THEN -1 ELSE 1
    IN t.seconds * 1000 + sign * ((sign * t.nanos) \div 1000000)

\* A varint keeps the low bits of the number, a negative one in two's complement:
\* a 64-bit value out of the range of its type would arrive as another one, which
\* encode checks for (BigInt.asIntN(64, v) !== v, BigInt.asUintN(64, v) !== v).
ToWire(f, v) == CASE f.kind = "Date" -> ToTimestamp(v)
                  [] f.kind \in Wide -> v % Width
                  [] OTHER -> v
FromWire(f, w) == CASE f.kind = "Date" -> FromTimestamp(w)
                    [] f.kind = "int64" /\ w >= Half -> w - Width
                    [] OTHER -> w

Fits(f, v) == /\ f.kind = "int64" => -Half <= v /\ v < Half
              /\ f.kind = "uint64" => 0 <= v /\ v < Width

\* Which entries of a field are written: a zero value only when presence counts.
HoldsZero(f, m) == EntriesOf(f, m) # <<>> /\ EntriesOf(f, m)[1].val = Zero(f)
BugWritten(f, m) ==
    IF f.rule \notin {"repeated", "map"} /\ HoldsZero(f, m) THEN <<>> ELSE EntriesOf(f, m)
Written(f, m) == IF f.rule = "implicit" /\ HoldsZero(f, m) THEN <<>> ELSE EntriesOf(f, m)

Tokens(f, m) ==
    LET w == Written(f, m)
    IN [i \in DOMAIN w |-> [tag |-> Tag(f), key |-> w[i].key, val |-> ToWire(f, w[i].val)]]

Foremost(f) == \A g \in todo : IF upwards THEN f.num <= g.num ELSE f.num >= g.num

\* One field of encode; a number that does not fit throws and nothing is sent.
EncodeField ==
    /\ channel = "bytes" /\ phase = "encode" /\ todo # {}
    /\ \E f \in todo :
         /\ Foremost(f)
         /\ IF \A i \in DOMAIN Written(f, sent) : Fits(f, Written(f, sent)[i].val)
            THEN /\ wire' = wire \o Tokens(f, sent)
                 /\ todo' = todo \ {f}
                 /\ UNCHANGED phase
            ELSE /\ phase' = "refused"
                 /\ UNCHANGED <<wire, todo>>
    /\ UNCHANGED <<writer, reader, channel, upwards, sent, json, received>>

Finish ==
    /\ channel = "bytes" /\ phase = "encode" /\ todo = {}
    /\ phase' = "decode"
    /\ received' = Base(reader)
    /\ UNCHANGED <<writer, reader, channel, upwards, sent, todo, wire, json>>

\* How decode puts a value into the message it is building: arrays grow, a
\* dictionary takes the last value of a key, everything else is overwritten.
SetKey(d, e) == IF \E i \in DOMAIN d : d[i].key = e.key
                THEN [i \in DOMAIN d |-> IF d[i].key = e.key THEN e ELSE d[i]]
                ELSE Append(d, e)
Store(f, e, m) ==
    CASE f.rule = "repeated" -> [m EXCEPT ![f.slot] = Append(@, e)]
      [] f.rule = "map" -> [m EXCEPT ![f.slot] = SetKey(@, e)]
      [] OTHER -> [m EXCEPT ![f.slot] = <<e>>]

\* The fields whose case in decode's switch accepts this tag: at most one.
Accepting(S, tok) == {f \in S : Tag(f) = tok.tag}

DecodeKnown ==
    /\ channel = "bytes" /\ phase = "decode" /\ wire # <<>>
    /\ \E f \in Accepting(reader, Head(wire)) :
          received' = Store(f, Entry(f, Head(wire).key, FromWire(f, Head(wire).val)), received)
    /\ wire' = Tail(wire)
    /\ UNCHANGED <<writer, reader, channel, upwards, sent, todo, json, phase>>

\* reader.skip(tag & 7): a field this side does not know.
BugSkip(w) == <<>>
Skip(w) == Tail(w)

DecodeUnknown ==
    /\ channel = "bytes" /\ phase = "decode" /\ wire # <<>>
    /\ Accepting(reader, Head(wire)) = {}
    /\ wire' = Skip(wire)
    /\ UNCHANGED <<writer, reader, channel, upwards, sent, todo, json, received, phase>>

DecodeEnd ==
    /\ channel = "bytes" /\ phase = "decode" /\ wire = <<>>
    /\ phase' = "done"
    /\ UNCHANGED <<writer, reader, channel, upwards, sent, todo, wire, json, received>>

-----------------------------------------------------------------------------
(* toJSON and fromJSON *)

\* The names of an enum stand for its numbers; the switch has a default case.
UNRECOGNIZED == -1
EnumToJSON(kind, v) == IF v \in Enums[kind] THEN v ELSE UNRECOGNIZED
EnumFromJSON(kind, x) == IF x \in Enums[kind] THEN x ELSE UNRECOGNIZED

\* v.toString() and BigInt(text): a 64-bit number is decimal text, a sign and the
\* digits, since a JSON number above 2^53 loses its last ones (as in the mutant).
ToDecimal(v) == [minus |-> v < 0, digits |-> IF v < 0 THEN -v ELSE v]
BugFromDecimal(t) ==
    LET number == IF t.digits > Half THEN 2 * (t.digits \div 2) ELSE t.digits
    IN IF t.minus THEN -number ELSE number
FromDecimal(t) == IF t.minus THEN -t.digits ELSE t.digits

\* Math.round, of a number in halves.
Round(v) == 2 * ((v + 1) \div 2)

\* date.toISOString() and new Date(text): the time of a day in UTC, and the day,
\* which the calendar's year, month and day name; days before 1970 are negative.
ToISO(ms) ==
    [day |-> ms \div 86400000, hour |-> (ms \div 3600000) % 24, minute |-> (ms \div 60000) % 60,
     second |-> (ms \div 1000) % 60, milli |-> ms % 1000]
FromISO(t) == (((t.day * 24 + t.hour) * 60 + t.minute) * 60 + t.second) * 1000 + t.milli

\* base64FromBytes and bytesFromBase64: four characters of six bits for three
\* octets, and "=" for those of the last four that hold no bit of any octet.
Padding == 64
Octet(b, i) == IF i <= Len(b) THEN b[i] ELSE 0
Character(b, q, j) ==
    CASE j = 0 -> Octet(b, 3 * q + 1) \div 4
      [] j = 1 -> (Octet(b, 3 * q + 1) % 4) * 16 + Octet(b, 3 * q + 2) \div 16
      [] j = 2 -> (Octet(b, 3 * q + 2) % 16) * 4 + Octet(b, 3 * q + 3) \div 64
      [] OTHER -> Octet(b, 3 * q + 3) % 64
ToBase64(b) ==
    [k \in 1 .. 4 * ((Len(b) + 2) \div 3) |->
        LET q == (k - 1) \div 4
            j == (k - 1) % 4
        IN IF 3 * q + j > Len(b) THEN Padding ELSE Character(b, q, j)]

\* Octet r of the three that the characters of group q hold; the last bits of it
\* are in the character after its first.
OctetOf(t, q, r) ==
    CASE r = 0 -> t[4 * q + 1] * 4 + t[4 * q + 2] \div 16
      [] r = 1 -> (t[4 * q + 2] % 16) * 16 + t[4 * q + 3] \div 4
      [] OTHER -> (t[4 * q + 3] % 4) * 64 + t[4 * q + 4]
FromBase64(t) ==
    [i \in {i \in 1 .. 3 * (Len(t) \div 4) : t[4 * ((i - 1) \div 3) + ((i - 1) % 3) + 2] # Padding} |->
        OctetOf(t, (i - 1) \div 3, (i - 1) % 3)]

\* A string, a bool, a double and a nested message's object are JSON values as
\* they are; Number, String and Boolean leave a value of their own type alone.
JsonValue(f, v) ==
    CASE f.kind \in DOMAIN Enums -> EnumToJSON(f.kind, v)
      [] f.kind \in Wide -> ToDecimal(v)
      [] f.kind \in Whole -> Round(v)
      [] f.kind = "Date" -> ToISO(v)
      [] f.kind = "bytes" -> ToBase64(v)
      [] OTHER -> v
FromJsonValue(f, x) ==
    CASE f.kind \in DOMAIN Enums -> EnumFromJSON(f.kind, x)
      [] f.kind \in Wide -> FromDecimal(x)
      [] f.kind = "Date" -> FromISO(x)
      [] f.kind = "bytes" -> FromBase64(x)
      [] OTHER -> x

\* toJSON leaves out what encode leaves out; a member is its field's number here.
JsonMembers(S, m) ==
    {[num |-> f.num, entries |-> LET w == Written(f, m)
                                 IN [i \in DOMAIN w |-> [w[i] EXCEPT !.val = JsonValue(f, @)]]]
        : f \in {g \in S : Written(g, m) # <<>>}}

ToJSON ==
    /\ channel = "json" /\ phase = "encode"
    /\ json' = JsonMembers(writer, sent)
    /\ phase' = "decode"
    /\ UNCHANGED <<writer, reader, channel, upwards, sent, todo, wire, received>>

\* isSet(object.x) ? ... : default; of a oneof, the first variant that is set.
FromJsonObject(S, o) ==
    [s \in Slots(S) |->
        LET cases == {f \in S : f.slot = s /\ \E x \in o : x.num = f.num}
        IN IF cases = {} THEN Base(S)[s]
           ELSE LET f == CHOOSE f \in cases : \A g \in cases : f.num <= g.num
                    x == CHOOSE x \in o : x.num = f.num
                IN [i \in DOMAIN x.entries |->
                       [x.entries[i] EXCEPT !.val = FromJsonValue(f, @)]]]

FromJSON ==
    /\ channel = "json" /\ phase = "decode"
    /\ received' = FromJsonObject(reader, json)
    /\ phase' = "done"
    /\ UNCHANGED <<writer, reader, channel, upwards, sent, todo, wire, json>>

-----------------------------------------------------------------------------
(* What is sent *)

\* A field's number is its own; only variants of a oneof share a slot.
Table(S) ==
    /\ \A f \in S : f.num \in Nat \ {0} /\ f.rule \in {"implicit", "optional", "repeated", "map", "oneof"}
    /\ \A f, g \in S : f # g =>
         f.num # g.num /\ (f.slot = g.slot => f.rule = "oneof" /\ g.rule = "oneof")

\* What a field may hold.
Value(f, v) ==
    /\ f.kind \in {"Date"} \cup Wide \cup Whole => v \in Int
    /\ f.kind \in Whole => v % 2 = 0
    /\ f.kind = "bytes" => v \in Seq(0 .. 255)
Holds(f, d) ==
    /\ d \in Seq({d[i] : i \in DOMAIN d})
    /\ \A i \in DOMAIN d : d[i] = Entry(f, d[i].key, d[i].val) /\ Value(f, d[i].val)
    /\ CASE f.rule = "implicit" -> Len(d) = 1 /\ d[1].key = ""
         [] f.rule \in {"optional", "oneof"} -> Len(d) <= 1 /\ \A i \in DOMAIN d : d[i].key = ""
         [] f.rule = "repeated" -> \A i \in DOMAIN d : d[i].key = ""
         [] OTHER -> \A i, j \in DOMAIN d : d[i].key = d[j].key => i = j
Partial(S, m) == \A s \in DOMAIN m : \E f \in S : f.slot = s /\ Holds(f, m[s])

ASSUME WireAssumption ==
    /\ \A p \in Pairs : Table(p.writer \cup p.reader) /\ \A m \in Partials(p.writer) : Partial(p.writer, m)
    /\ \A kind \in DOMAIN Enums : kind \notin Scalars /\ 0 \in Enums[kind]
    /\ Half \in Nat \ {0}

Init ==
    /\ \E p \in Pairs :
         /\ writer = p.writer /\ reader = p.reader
         /\ \E partial \in Partials(writer) : sent = FromPartial(writer, partial)
    /\ todo = writer
    /\ channel \in {"bytes", "json"}
    /\ upwards \in {TRUE, channel = "json"}
    /\ wire = <<>> /\ json = {}
    /\ received = <<>>
    /\ phase = "encode"

Next == EncodeField \/ Finish \/ DecodeKnown \/ DecodeUnknown \/ DecodeEnd \/ ToJSON \/ FromJSON

Spec == Init /\ [][Next]_vars

-----------------------------------------------------------------------------
(* Properties *)

\* What the reader must hold in slot s: what was sent, unless the sender filled
\* the slot with a variant the reader has never heard of, or has no such slot.
\* JSON names enum values, so one without a name comes back as UNRECOGNIZED, and
\* never as a value the reader does know.
Arriving(e) ==
    LET f == CHOOSE f \in reader : f.num = e.num
    IN IF channel = "json" /\ f.kind \in DOMAIN Enums /\ e.val \notin Enums[f.kind]
       THEN [e EXCEPT !.val = UNRECOGNIZED] ELSE e
Owed(s) ==
    IF s \in Slots(writer) /\ \A i \in DOMAIN sent[s] : \E f \in reader : f.num = sent[s][i].num
    THEN [i \in DOMAIN sent[s] |-> Arriving(sent[s][i])]
    ELSE Base(reader)[s]

\* Every value, of every message of the protocol, and also its presence arrives
\* in bytes as it was sent: "Optional fields use message presence or `optional`
\* when absence differs from zero/empty" (docs/runtime-architecture.md).  A
\* number that does not fit is refused rather than sent as another one.
ValuesSurviveBytes ==
    channel = "bytes" /\ phase = "done" /\ writer = reader => received = sent

\* "Old v1 SDK + newer v1 runtime must keep working" (docs/runtime-architecture.md)
\* and the reverse: a field, an array or an event variant that only one side knows
\* disturbs none of the values both know, wherever it lies in the bytes.
OtherVersionsUnderstood ==
    phase = "done" /\ writer # reader => \A s \in Slots(reader) : received[s] = Owed(s)

\* fromJSON reads what toJSON wrote, so JSON loses nothing either: decimal text keeps
\* a 64-bit number that no JSON number could, an ISO time a date before 1970, base64
\* every octet whatever their number.  Only an enum value without a name comes back
\* as UNRECOGNIZED.
JsonKeepsTheMessage ==
    channel = "json" /\ phase = "done" /\ writer = reader =>
        \A s \in Slots(reader) : received[s] = Owed(s)
=============================================================================
