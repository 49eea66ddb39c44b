----------------------------- MODULE Wire_proofs -----------------------------
(***************************************************************************)
(* What is proved of the generated message functions (module Wire): for     *)
(* every pair of tables, every message and every enum, what the reader has   *)
(* in the end is what it is owed.                                           *)
(*                                                                         *)
(* In bytes, the tokens of one field lie next to each other and in order,    *)
(* somewhere in the wire: at[f] says where.  Decoding takes them from the    *)
(* front, taken[f] of them so far, and what is taken is what the reader      *)
(* holds.  No token is anyone else's, since a tag tells the field's number.  *)
(***************************************************************************)
EXTENDS Wire, TLAPS

W(f) == Written(f, sent)

\* The two tables are versions of one; each slot sent holds entries of one field.
MessageInv ==
    /\ Table(writer \cup reader)
    /\ Half \in Nat \ {0}
    /\ \A kind \in DOMAIN Enums : kind \notin Scalars /\ 0 \in Enums[kind]
    /\ sent = [s \in Slots(writer) |-> sent[s]]
    /\ \A s \in Slots(writer) : \E f \in writer : f.slot = s /\ Holds(f, sent[s])

Items == {sent[s][i] : s \in Slots(writer), i \in Nat}
AllTokens == {Tokens(f, sent)[i] : f \in writer, i \in Nat}

\* In the bytes w, where the fields in D are written: of each of them taken[f]
\* tokens are read, and the others follow at[f].
WireInv(w, D, taken, at) ==
    /\ w \in Seq(AllTokens)
    /\ \A f \in writer : taken[f] <= Len(W(f))
    /\ \A f \in D : \A i \in taken[f] + 1 .. Len(W(f)) :
          at[f] + i \in 1 .. Len(w) /\ w[at[f] + i] = Tokens(f, sent)[i]
    /\ \A j \in 1 .. Len(w) : \E f \in D :
          \E i \in taken[f] + 1 .. Len(W(f)) : j = at[f] + i

\* d holds the first k entries that were written of f.
First(d, f, k) ==
    d \in Seq(Items) /\ Len(d) = k /\ \A i \in 1 .. k : d[i] = W(f)[i]

\* What the message m holds when taken[f] entries of each field f are read.
GotInv(m, taken) ==
    /\ m = [s \in Slots(reader) |-> m[s]]
    /\ \A s \in Slots(reader) :
          (\A f \in writer \cap reader : f.slot = s => taken[f] = 0) => m[s] = Base(reader)[s]
    /\ \A f \in writer \cap reader : taken[f] > 0 => First(m[f.slot], f, taken[f])

FitInv == todo \subseteq writer /\ \A f \in writer \ todo : \A i \in DOMAIN W(f) : Fits(f, W(f)[i].val)

NothingTaken == [f \in writer |-> 0]

EncodeInv ==
    phase = "encode" => \E at \in [writer -> Int] : WireInv(wire, writer \ todo, NothingTaken, at)
DecodeInv ==
    channel = "bytes" /\ phase = "decode" =>
        /\ todo = {}
        /\ \E taken \in [writer -> Nat], at \in [writer -> Int] :
              WireInv(wire, writer, taken, at) /\ GotInv(received, taken)
JsonInv == channel = "json" /\ phase = "decode" => json = JsonMembers(writer, sent)

\* What is owed has arrived, and nothing else is there.
Delivered(m) ==
    /\ m = [s \in Slots(reader) |-> m[s]]
    /\ \A s \in Slots(reader) : m[s] = Owed(s)
DoneInv == phase = "done" => Delivered(received)

IInv ==
    /\ MessageInv
    /\ channel \in {"bytes", "json"}
    /\ FitInv /\ EncodeInv /\ DecodeInv /\ JsonInv /\ DoneInv

-----------------------------------------------------------------------------
(* Sequences *)

LEMMA ShortSeq ==
    ASSUME NEW T, NEW d \in Seq(T)
    PROVE  /\ Len(d) \in Nat /\ DOMAIN d = 1 .. Len(d)
           /\ DOMAIN d = {} => d = <<>>
           /\ \A e : Len(d) = 1 /\ d[1] = e => d = <<e>>
OBVIOUS

LEMMA SameSeq ==
    ASSUME NEW T, NEW c \in Seq(T), NEW d \in Seq(T), Len(c) = Len(d),
           \A i \in 1 .. Len(d) : c[i] = d[i]
    PROVE  c = d
OBVIOUS

LEMMA SelfSeq ==
    ASSUME NEW d, d \in Seq({d[i] : i \in DOMAIN d})
    PROVE  \E T : d \in Seq(T)
OBVIOUS

LEMMA ElementOf ==
    ASSUME NEW T, NEW d \in Seq(T), NEW i \in 1 .. Len(d)
    PROVE  d[i] \in T
OBVIOUS

-----------------------------------------------------------------------------
(* Tables and tags *)

\* A number names one field of a table.
LEMMA OneField ==
    ASSUME NEW S, Table(S), NEW f \in S, NEW g \in S, f.num = g.num
    PROVE  f = g
BY DEF Table

\* So does a tag: it is eight times the number and a wire type below eight.
LEMMA OneTag ==
    ASSUME NEW S, Table(S), NEW f \in S, NEW g \in S, Tag(f) = Tag(g)
    PROVE  f = g
<1>1. WireType(f) \in 0 .. 2 /\ WireType(g) \in 0 .. 2
  BY DEF WireType
<1>2. f.num \in Nat /\ g.num \in Nat
  BY DEF Table
<1>3. f.num = g.num
  BY <1>1, <1>2 DEF Tag
<1> QED  BY <1>3, OneField

\* What a slot holds by default does not depend on which of its fields is asked.
LEMMA BaseOf ==
    ASSUME NEW S, Table(S), NEW f \in S
    PROVE  /\ f.slot \in Slots(S)
           /\ Base(S)[f.slot] = IF f.rule = "implicit" THEN <<Entry(f, "", Zero(f))>> ELSE <<>>
<1> DEFINE g == CHOOSE g \in S : g.slot = f.slot
<1>1. g \in S /\ g.slot = f.slot
  OBVIOUS
<1>2. f.slot \in Slots(S)
  BY DEF Slots
<1>3. Base(S)[f.slot] = IF g.rule = "implicit" THEN <<Entry(g, "", Zero(g))>> ELSE <<>>
  BY <1>2 DEF Base
<1>4. g = f \/ (g.rule = "oneof" /\ f.rule = "oneof")
  BY <1>1 DEF Table
<1> QED  BY <1>2, <1>3, <1>4

\* A value that fits is read as it was written; a date survives its conversion.
LEMMA DateSurvives ==
    ASSUME NEW ms \in Int
    PROVE  FromTimestamp(ToTimestamp(ms)) = ms
<1>1. CASE ms < 0
  <2> DEFINE a == -ms
  <2>1. a \in Nat /\ a > 0 /\ a = 1000 * (a \div 1000) + (a % 1000)
         /\ a % 1000 \in 0 .. 999 /\ a \div 1000 \in Int
    BY <1>1
  <2>2. ToTimestamp(ms) = [seconds |-> (-1) * (a \div 1000), nanos |-> (-1) * (a % 1000) * 1000000]
    BY <1>1 DEF ToTimestamp
  <2> DEFINE q == a \div 1000
  <2> DEFINE r == a % 1000
  <2> HIDE DEF q, r
  <2>3. ToTimestamp(ms).seconds = -q /\ ToTimestamp(ms).nanos = -(r * 1000000)
    BY <2>1, <2>2 DEF q, r
  <2>4. r \in 0 .. 999 /\ q \in Int /\ ms = -(1000 * q + r)
    BY <2>1 DEF q, r
  <2>5. (r * 1000000) \div 1000000 = r
    BY <2>4
  <2>6. CASE r = 0
    BY <2>3, <2>4, <2>5, <2>6 DEF FromTimestamp
  <2>7. CASE r > 0
    <3>1. FromTimestamp(ToTimestamp(ms)) = (-q) * 1000 + (-1) * (((-1) * (-(r * 1000000))) \div 1000000)
      BY <2>3, <2>4, <2>7 DEF FromTimestamp
    <3> QED  BY <3>1, <2>4, <2>5
  <2> QED  BY <2>4, <2>6, <2>7
<1>2. CASE ms >= 0
  <2>1. ms = 1000 * (ms \div 1000) + (ms % 1000) /\ ms % 1000 \in 0 .. 999 /\ ms \div 1000 \in Int
    BY <1>2
  <2> DEFINE q == ms \div 1000
  <2> DEFINE r == ms % 1000
  <2> HIDE DEF q, r
  <2>3. ToTimestamp(ms).seconds = q /\ ToTimestamp(ms).nanos = r * 1000000
    BY <1>2, <2>1 DEF ToTimestamp, q, r
  <2>4. r \in 0 .. 999 /\ q \in Int /\ ms = 1000 * q + r
    BY <2>1 DEF q, r
  <2>5. (r * 1000000) \div 1000000 = r
    BY <2>4
  <2> QED  BY <2>3, <2>4, <2>5 DEF FromTimestamp
<1> QED  BY <1>1, <1>2

\* The low bits of a number in either range tell it, given the type.
LEMMA LowBits ==
    ASSUME NEW v \in Int, NEW h \in Nat \ {0}
    PROVE  /\ 0 <= v /\ v < 2 * h => v % (2 * h) = v
           /\ -h <= v /\ v < 0 => v % (2 * h) = v + 2 * h
<1>1. ASSUME NEW w \in Int, NEW r \in Int, 0 <= r, r < w, v = r \/ v = r - w  PROVE  v % w = r
  <2>1. v = w * (v \div w) + (v % w) /\ v % w \in 0 .. (w - 1) /\ v \div w \in Int
    BY <1>1
  <2> DEFINE d == v \div w
  <2> DEFINE m == v % w
  <2> HIDE DEF d, m
  <2>2. v = w * d + m /\ m \in 0 .. (w - 1) /\ d \in Int
    BY <2>1 DEF d, m
  <2>3. CASE v = r
    <3>1. v \in 0 .. (w - 1) /\ w > 0
      BY <1>1, <2>3
    <3> QED  BY <2>3, <3>1
  <2>4. CASE v = r - w
    <3>1. v \in -w .. -1 /\ w > 0
      BY <1>1, <2>4
    <3> QED  BY <3>1, <2>4, <1>1
  <2> QED  BY <1>1, <2>3, <2>4
<1>2. 2 * h \in Int /\ (v < 0 => v + 2 * h \in Int /\ v = (v + 2 * h) - 2 * h)
  OBVIOUS
<1> QED  BY <1>1, <1>2

LEMMA ValueSurvives ==
    ASSUME NEW f, NEW v, Value(f, v), Fits(f, v), Half \in Nat \ {0}
    PROVE  FromWire(f, ToWire(f, v)) = v
<1>1. CASE f.kind = "Date"
  <2>0. f.kind \notin Wide
    BY <1>1 DEF Wide
  <2>1. ToWire(f, v) = ToTimestamp(v)
    BY <1>1, <2>0 DEF ToWire
  <2>2. FromWire(f, ToWire(f, v)) = FromTimestamp(ToTimestamp(v))
    BY <1>1, <2>1 DEF FromWire
  <2>3. v \in Int
    BY <1>1 DEF Value
  <2> QED  BY <2>2, <2>3, DateSurvives
<1>2. CASE f.kind \in Wide
  <2>1. f.kind # "Date" /\ v \in Int
    BY <1>2 DEF Wide, Value
  <2>2. ToWire(f, v) = v % Width
    BY <1>2, <2>1 DEF ToWire
  <2>3. CASE 0 <= v
    <3>1. v < Width
      BY <1>2, <2>1 DEF Wide, Fits, Width
    <3>2. v % Width = v
      BY <2>1, <2>3, <3>1, LowBits DEF Width
    <3>3. f.kind = "int64" => ~(v >= Half)
      BY <2>1 DEF Fits
    <3> QED  BY <1>2, <2>1, <2>2, <3>2, <3>3 DEF FromWire
  <2>4. CASE v < 0
    <3>1. f.kind = "int64" /\ -Half <= v
      BY <1>2, <2>1, <2>4 DEF Wide, Fits
    <3>2. v % Width = v + Width
      BY <2>1, <2>4, <3>1, LowBits DEF Width
    <3>3. v + Width >= Half /\ (v + Width) - Width = v
      BY <2>1, <3>1 DEF Width
    <3> QED  BY <2>2, <3>1, <3>2, <3>3 DEF FromWire
  <2> QED  BY <2>1, <2>3, <2>4
<1>3. CASE f.kind # "Date" /\ f.kind \notin Wide
  BY <1>3 DEF FromWire, ToWire, Wide
<1> QED  BY <1>1, <1>2, <1>3

-----------------------------------------------------------------------------
(* What is written *)

\* A slot holds the entries of one field, and all but a zero is written.
LEMMA Holder ==
    ASSUME MessageInv, NEW s \in Slots(writer)
    PROVE  \E g \in writer :
              /\ g.slot = s
              /\ Holds(g, sent[s])
              /\ \A f \in writer : f.slot = s /\ f # g => W(f) = <<>>
              /\ \/ W(g) = sent[s]
                 \/ W(g) = <<>> /\ g.rule = "implicit" /\ sent[s] = <<Entry(g, "", Zero(g))>>
<1>1. PICK g \in writer : g.slot = s /\ Holds(g, sent[s])
  BY DEF MessageInv
<1>2. \A i \in DOMAIN sent[s] : sent[s][i] = Entry(g, sent[s][i].key, sent[s][i].val)
  BY <1>1 DEF Holds
<1>2a. ASSUME NEW i \in DOMAIN sent[s]  PROVE  sent[s][i].num = g.num
  <2>1. sent[s][i] = Entry(g, sent[s][i].key, sent[s][i].val)
    BY <1>2
  <2>2. Entry(g, sent[s][i].key, sent[s][i].val).num = g.num
    BY DEF Entry
  <2> QED  BY <2>1, <2>2
<1>3. ASSUME NEW f \in writer, f.slot = s, f # g  PROVE  W(f) = <<>>
  <2>1. f.num # g.num
    BY <1>3 DEF MessageInv, Table
  <2>2. EntriesOf(f, sent) = <<>>
    BY <1>2a, <1>3, <2>1 DEF EntriesOf
  <2> QED  BY <2>2 DEF W, Written
<1>4. /\ DOMAIN sent[s] = 1 .. Len(sent[s])
      /\ DOMAIN sent[s] = {} => sent[s] = <<>>
      /\ \A e : Len(sent[s]) = 1 /\ sent[s][1] = e => sent[s] = <<e>>
  <2> DEFINE d == sent[s]
  <2>1. d \in Seq({d[i] : i \in DOMAIN d})
    BY <1>1 DEF Holds
  <2> HIDE DEF d
  <2>2. PICK T : d \in Seq(T)
    BY <2>1, SelfSeq
  <2>3. /\ DOMAIN d = 1 .. Len(d)
        /\ DOMAIN d = {} => d = <<>>
        /\ \A e : Len(d) = 1 /\ d[1] = e => d = <<e>>
    BY <2>2, ShortSeq
  <2> QED  BY <2>3 DEF d
<1>5. EntriesOf(g, sent) = sent[s]
  <2>1. CASE \E i \in DOMAIN sent[s] : sent[s][i].num = g.num
    BY <2>1, <1>1 DEF EntriesOf
  <2>2. CASE ~ \E i \in DOMAIN sent[s] : sent[s][i].num = g.num
    <3>1. DOMAIN sent[s] = {}
      BY <2>2, <1>2a
    <3>2. sent[s] = <<>>
      BY <3>1, <1>4
    <3> QED  BY <3>2, <2>2, <1>1 DEF EntriesOf
  <2> QED  BY <2>1, <2>2
<1>6. \/ W(g) = sent[s]
      \/ W(g) = <<>> /\ g.rule = "implicit" /\ sent[s] = <<Entry(g, "", Zero(g))>>
  <2>1. CASE g.rule = "implicit" /\ HoldsZero(g, sent)
    <3>1. Len(sent[s]) = 1 /\ sent[s][1].key = ""
      BY <2>1, <1>1 DEF Holds
    <3>2. sent[s][1].val = Zero(g)
      BY <2>1, <1>5 DEF HoldsZero
    <3>1a. Len(sent[s]) = 1 /\ DOMAIN sent[s] = 1 .. Len(sent[s])
      BY <3>1, <1>4
    <3>1b. 1 \in DOMAIN sent[s]
      BY <3>1a
    <3>3. sent[s][1] = Entry(g, "", Zero(g))
      BY <3>1, <3>1b, <3>2, <1>2
    <3>4. sent[s] = <<Entry(g, "", Zero(g))>>
      BY <3>1, <3>3, <1>4
    <3> QED  BY <2>1, <3>4 DEF W, Written
  <2>2. CASE ~(g.rule = "implicit" /\ HoldsZero(g, sent))
    BY <2>2, <1>5 DEF W, Written
  <2> QED  BY <2>1, <2>2
<1> QED  BY <1>1, <1>3, <1>6

\* What is written of a field are entries that the field may hold.
LEMMA WrittenHolds ==
    ASSUME MessageInv, NEW f \in writer
    PROVE  /\ W(f) = <<>> \/ (W(f) = sent[f.slot] /\ Holds(f, sent[f.slot]))
           /\ W(f) \in Seq(Items)
           /\ Len(W(f)) \in Nat
           /\ \A i \in 1 .. Len(W(f)) : W(f)[i] = Entry(f, W(f)[i].key, W(f)[i].val)
                                        /\ Value(f, W(f)[i].val)
<1>1. f.slot \in Slots(writer)
  BY DEF Slots
<1>2. W(f) = <<>> \/ (W(f) = sent[f.slot] /\ Holds(f, sent[f.slot]))
  BY <1>1, Holder
<1>3. CASE W(f) = <<>>
  BY <1>3
<1>4. CASE W(f) = sent[f.slot] /\ Holds(f, sent[f.slot])
  <2> DEFINE d == sent[f.slot]
  <2>1. W(f) \in Seq({W(f)[i] : i \in DOMAIN W(f)})
    <3>1. d \in Seq({d[i] : i \in DOMAIN d})
      BY <1>4 DEF Holds
    <3> QED  BY <1>4, <3>1
  <2>2. Len(W(f)) \in Nat /\ DOMAIN W(f) = 1 .. Len(W(f))
    BY <2>1
  <2>3. \A i \in 1 .. Len(W(f)) : W(f)[i] \in Items
    BY <1>1, <1>4, <2>2 DEF Items
  <2>4. W(f) \in Seq(Items)
    BY <2>1, <2>2, <2>3
  <2>5. \A i \in 1 .. Len(W(f)) : W(f)[i] = Entry(f, W(f)[i].key, W(f)[i].val)
                                  /\ Value(f, W(f)[i].val)
    BY <1>4, <2>2 DEF Holds
  <2> QED  BY <1>4, <2>2, <2>4, <2>5
<1> QED  BY <1>2, <1>3, <1>4

\* The tokens of a field are those entries, one token each.
LEMMA TokensOf ==
    ASSUME MessageInv, NEW f \in writer
    PROVE  /\ Tokens(f, sent) \in Seq(AllTokens)
           /\ Len(Tokens(f, sent)) = Len(W(f))
           /\ \A i \in 1 .. Len(W(f)) :
                 /\ Tokens(f, sent)[i].tag = Tag(f)
                 /\ Tokens(f, sent)[i].key = W(f)[i].key
                 /\ Tokens(f, sent)[i].val = ToWire(f, W(f)[i].val)
<1>1. W(f) \in Seq(Items) /\ Len(W(f)) \in Nat
  BY WrittenHolds
<1>2. DOMAIN W(f) = 1 .. Len(W(f))
  BY <1>1
<1>3. Tokens(f, sent) = [i \in 1 .. Len(W(f)) |->
          [tag |-> Tag(f), key |-> W(f)[i].key, val |-> ToWire(f, W(f)[i].val)]]
  BY <1>2 DEF Tokens, W
<1>4. \A i \in 1 .. Len(W(f)) : Tokens(f, sent)[i] \in AllTokens
  BY <1>1 DEF AllTokens
<1>5. Tokens(f, sent) \in Seq(AllTokens) /\ Len(Tokens(f, sent)) = Len(W(f))
  BY <1>1, <1>3, <1>4
<1> QED  BY <1>3, <1>5
-----------------------------------------------------------------------------
(* What is owed *)

\* How an entry of g arrives (Arriving, once the field is known).
Arrived(g, e) ==
    IF channel = "json" /\ g.kind \in DOMAIN Enums /\ e.val \notin Enums[g.kind]
    THEN [e EXCEPT !.val = UNRECOGNIZED] ELSE e

LEMMA BothTables ==
    ASSUME MessageInv
    PROVE  Table(writer) /\ Table(reader)
BY DEF MessageInv, Table

LEMMA ArrivingIs ==
    ASSUME MessageInv, NEW g \in writer \cap reader, NEW e, e.num = g.num
    PROVE  Arriving(e) = Arrived(g, e)
<1> DEFINE f == CHOOSE f \in reader : f.num = e.num
<1>1. f \in reader /\ f.num = e.num
  OBVIOUS
<1>2. f = g
  BY <1>1, BothTables, OneField
<1> QED  BY <1>2 DEF Arriving, Arrived

\* A slot is owed what was written of the one field both know, or its default.
LEMMA OwedIs ==
    ASSUME MessageInv, NEW s \in Slots(reader)
    PROVE  \/ /\ Owed(s) = Base(reader)[s]
              /\ \A f \in writer \cap reader : f.slot = s => W(f) = <<>>
           \/ \E g \in writer \cap reader :
                 /\ g.slot = s /\ W(g) # <<>>
                 /\ \A f \in writer : f.slot = s /\ f # g => W(f) = <<>>
                 /\ Owed(s) = [i \in DOMAIN W(g) |-> Arrived(g, W(g)[i])]
<1> DEFINE Known == \A i \in DOMAIN sent[s] : \E f \in reader : f.num = sent[s][i].num
<1>1. CASE s \notin Slots(writer)
  <2>1. Owed(s) = Base(reader)[s]
    BY <1>1 DEF Owed
  <2>2. \A f \in writer \cap reader : f.slot # s
    BY <1>1 DEF Slots
  <2> QED  BY <2>1, <2>2
<1>2. CASE s \in Slots(writer)
  <2>1. PICK g \in writer :
              /\ g.slot = s
              /\ Holds(g, sent[s])
              /\ \A f \in writer : f.slot = s /\ f # g => W(f) = <<>>
              /\ \/ W(g) = sent[s]
                 \/ W(g) = <<>> /\ g.rule = "implicit" /\ sent[s] = <<Entry(g, "", Zero(g))>>
    BY <1>2, Holder
  <2>2. ASSUME NEW i \in DOMAIN sent[s]  PROVE  sent[s][i].num = g.num
    <3>1. sent[s][i] = Entry(g, sent[s][i].key, sent[s][i].val)
      BY <2>1 DEF Holds
    <3>2. Entry(g, sent[s][i].key, sent[s][i].val).num = g.num
      BY DEF Entry
    <3> QED  BY <3>1, <3>2
  <2>3. CASE W(g) # <<>> /\ g \in reader
    <3>1. W(g) = sent[s]
      BY <2>1, <2>3
    <3>2. Known
      BY <2>2, <2>3
    <3>3. Owed(s) = [i \in DOMAIN sent[s] |-> Arriving(sent[s][i])]
      BY <1>2, <3>2 DEF Owed
    <3>4. \A i \in DOMAIN sent[s] : Arriving(sent[s][i]) = Arrived(g, sent[s][i])
      BY <2>2, <2>3, ArrivingIs
    <3>5. Owed(s) = [i \in DOMAIN W(g) |-> Arrived(g, W(g)[i])]
      BY <3>1, <3>3, <3>4
    <3> QED  BY <2>1, <2>3, <3>5
  <2>4. CASE W(g) # <<>> /\ g \notin reader
    <3>1. W(g) = sent[s]
      BY <2>1, <2>4
    <3>2. PICK i \in DOMAIN sent[s] : TRUE
      <4>1. DOMAIN W(g) = 1 .. Len(W(g)) /\ Len(W(g)) # 0
        BY <2>4, WrittenHolds
      <4> QED  BY <3>1, <4>1, WrittenHolds
    <3>3. \A f \in reader : f.num # g.num
      BY <2>4, OneField DEF MessageInv
    <3>4. ~Known
      BY <3>2, <3>3, <2>2
    <3>5. Owed(s) = Base(reader)[s]
      BY <3>4 DEF Owed
    <3> QED  BY <2>1, <2>4, <3>5
  <2>5. CASE W(g) = <<>>
    <3>1. \A f \in writer \cap reader : f.slot = s => W(f) = <<>>
      BY <2>1, <2>5
    <3>2. PICK h \in reader : h.slot = s
      BY DEF Slots
    <3>3. Base(reader)[s] = IF h.rule = "implicit" THEN <<Entry(h, "", Zero(h))>> ELSE <<>>
      BY <3>2, BaseOf, BothTables
    <3>4. h # g => h.rule = "oneof" /\ g.rule = "oneof"
      BY <2>1, <3>2 DEF MessageInv, Table
    <3>5. CASE sent[s] = <<>>
      <4>1. g.rule # "implicit"
        BY <2>1, <3>5 DEF Holds
      <4>2. Base(reader)[s] = <<>>
        BY <3>3, <3>4, <4>1
      <4>3. Known
        BY <3>5
      <4>4. Owed(s) = [i \in DOMAIN sent[s] |-> Arriving(sent[s][i])]
        BY <1>2, <4>3 DEF Owed
      <4>5. Owed(s) = <<>>
        BY <3>5, <4>4
      <4> QED  BY <3>1, <4>2, <4>5
    <3>6. CASE sent[s] # <<>>
      <4> DEFINE zero == Entry(g, "", Zero(g))
      <4>1. g.rule = "implicit" /\ sent[s] = <<zero>>
        BY <2>1, <2>5, <3>6
      <4>2. CASE g \in reader
        <5>1. h = g
          BY <3>4, <4>1
        <5>2. Base(reader)[s] = <<Entry(g, "", Zero(g))>>
          BY <3>3, <4>1, <5>1
        <5>3. Known
          BY <2>2, <4>2
        <5>4. Owed(s) = [i \in DOMAIN sent[s] |-> Arriving(sent[s][i])]
          BY <1>2, <5>3 DEF Owed
        <5>5. Arriving(zero) = zero
          <6>1. zero.num = g.num /\ zero.val = Zero(g)
            BY DEF Entry
          <6>2. Arriving(zero) = Arrived(g, zero)
            BY <4>2, <6>1, ArrivingIs
          <6>3. g.kind \in DOMAIN Enums => Zero(g) \in Enums[g.kind]
            BY DEF MessageInv, Scalars, Zero
          <6> QED  BY <6>1, <6>2, <6>3 DEF Arrived
        <5>6. Owed(s) = <<zero>>
          <6> HIDE DEF zero
          <6> QED  BY <4>1, <5>4, <5>5
        <5> QED  BY <3>1, <5>2, <5>6
      <4>3. CASE g \notin reader
        <5>1. 1 \in DOMAIN sent[s]
          <6> HIDE DEF zero
          <6> QED  BY <4>1
        <5>2. \A f \in reader : f.num # g.num
          BY <4>3, OneField DEF MessageInv
        <5>3. ~Known
          BY <5>1, <5>2, <2>2
        <5>4. Owed(s) = Base(reader)[s]
          BY <5>3 DEF Owed
        <5> QED  BY <3>1, <5>4
      <4> QED  BY <4>2, <4>3
    <3> QED  BY <3>5, <3>6
  <2> QED  BY <2>3, <2>4, <2>5
<1> QED  BY <1>1, <1>2
-----------------------------------------------------------------------------
(* Bytes *)

\* encode puts the tokens of a field behind what is there.
LEMMA AddTokens ==
    ASSUME MessageInv, NEW w, NEW D \in SUBSET writer, NEW at \in [writer -> Int],
           WireInv(w, D, NothingTaken, at), NEW f \in writer \ D
    PROVE  \E next \in [writer -> Int] :
              WireInv(w \o Tokens(f, sent), D \cup {f}, NothingTaken, next)
<1> DEFINE t == Tokens(f, sent)
<1> DEFINE next == [at EXCEPT ![f] = Len(w)]
<1> DEFINE w2 == w \o t
<1>1. t \in Seq(AllTokens) /\ Len(t) = Len(W(f)) /\ Len(W(f)) \in Nat
  BY TokensOf, WrittenHolds
<1>2. w \in Seq(AllTokens) /\ Len(w) \in Nat
  BY DEF WireInv
<1>3. next \in [writer -> Int] /\ next[f] = Len(w) /\ \A g \in D : next[g] = at[g]
  BY <1>2
<1>4. \A g \in writer : NothingTaken[g] = 0 /\ NothingTaken[g] <= Len(W(g))
  BY WrittenHolds DEF NothingTaken
<1>5. /\ w2 \in Seq(AllTokens) /\ Len(w2) = Len(w) + Len(W(f))
      /\ \A j \in 1 .. Len(w) : w2[j] = w[j]
      /\ \A i \in 1 .. Len(W(f)) : w2[Len(w) + i] = t[i]
  <2> HIDE DEF t
  <2> QED  BY <1>1, <1>2
<1> HIDE DEF t, next, w2
<1>6. ASSUME NEW g \in D \cup {f}, NEW i \in 1 .. Len(W(g))
      PROVE  next[g] + i \in 1 .. Len(w2) /\ w2[next[g] + i] = Tokens(g, sent)[i]
  <2>1. CASE g = f
    BY <2>1, <1>1, <1>2, <1>3, <1>5, <1>6 DEF t
  <2>2. CASE g # f
    <3>1. g \in D /\ g \in writer
      BY <2>2
    <3>2. at[g] + i \in 1 .. Len(w) /\ w[at[g] + i] = Tokens(g, sent)[i]
      <4>1. i \in NothingTaken[g] + 1 .. Len(W(g))
        BY <3>1, <1>4, <1>6
      <4> QED  BY <3>1, <4>1 DEF WireInv
    <3> QED  BY <3>1, <3>2, <1>1, <1>2, <1>3, <1>5
  <2> QED  BY <2>1, <2>2
<1>7. ASSUME NEW j \in 1 .. Len(w2)
      PROVE  \E g \in D \cup {f} : \E i \in 1 .. Len(W(g)) : j = next[g] + i
  <2>1. CASE j \in 1 .. Len(w)
    <3>1. PICK g \in D : \E i \in NothingTaken[g] + 1 .. Len(W(g)) : j = at[g] + i
      BY <2>1 DEF WireInv
    <3>2. NothingTaken[g] + 1 = 1
      BY <1>4
    <3> QED  BY <3>1, <3>2, <1>3
  <2>2. CASE j \notin 1 .. Len(w)
    <3>1. j - Len(w) \in 1 .. Len(W(f)) /\ j = next[f] + (j - Len(w))
      BY <2>2, <1>1, <1>2, <1>3, <1>5
    <3> QED  BY <3>1
  <2> QED  BY <2>1, <2>2
<1>8. \A g \in D \cup {f} : NothingTaken[g] + 1 .. Len(W(g)) = 1 .. Len(W(g))
  <2>1. D \cup {f} \subseteq writer
    OBVIOUS
  <2> QED  BY <2>1, <1>4
<1> DEFINE E == D \cup {f}
<1> HIDE DEF E
<1>8a. /\ \A g \in E : \A i \in NothingTaken[g] + 1 .. Len(W(g)) :
              next[g] + i \in 1 .. Len(w2) /\ w2[next[g] + i] = Tokens(g, sent)[i]
       /\ \A j \in 1 .. Len(w2) : \E g \in E :
              \E i \in NothingTaken[g] + 1 .. Len(W(g)) : j = next[g] + i
  BY <1>6, <1>7, <1>8 DEF E
<1>9. WireInv(w2, E, NothingTaken, next)
  BY <1>4, <1>5, <1>8a DEF WireInv
<1> QED  BY <1>3, <1>9 DEF E, w2, t

\* decode finds the next token of some field at the front, and no other's.
LEMMA TakeToken ==
    ASSUME MessageInv, NEW w, w # <<>>,
           NEW taken \in [writer -> Nat], NEW at \in [writer -> Int], WireInv(w, writer, taken, at)
    PROVE  \E g \in writer :
              /\ taken[g] + 1 \in 1 .. Len(W(g))
              /\ Head(w) = Tokens(g, sent)[taken[g] + 1]
              /\ \E next \in [writer -> Int] :
                    WireInv(Tail(w), writer, [taken EXCEPT ![g] = @ + 1], next)
<1>1. w \in Seq(AllTokens) /\ Len(w) \in Nat /\ Len(w) > 0
  BY DEF WireInv
<1>2. PICK g \in writer : \E i \in taken[g] + 1 .. Len(W(g)) : 1 = at[g] + i
  BY <1>1 DEF WireInv
<1>2a. PICK i \in taken[g] + 1 .. Len(W(g)) : 1 = at[g] + i
  BY <1>2
<1>3. \A f \in writer : Len(W(f)) \in Nat /\ taken[f] \in Nat /\ at[f] \in Int /\ taken[f] <= Len(W(f))
  BY WrittenHolds DEF WireInv
<1>4. i = taken[g] + 1
  <2>1. taken[g] + 1 \in taken[g] + 1 .. Len(W(g))
    BY <1>2a, <1>3
  <2>2. at[g] + (taken[g] + 1) \in 1 .. Len(w)
    BY <2>1 DEF WireInv
  <2> QED  BY <2>2, <1>1, <1>2a, <1>3
<1>5. taken[g] + 1 \in 1 .. Len(W(g)) /\ at[g] + (taken[g] + 1) = 1
  BY <1>2a, <1>3, <1>4
<1>6. Head(w) = Tokens(g, sent)[taken[g] + 1]
  <2>1. w[1] = Tokens(g, sent)[taken[g] + 1]
    BY <1>2a, <1>4, <1>5 DEF WireInv
  <2> QED  BY <2>1, <1>1
<1> DEFINE next == [f \in writer |-> at[f] - 1]
<1> DEFINE more == [taken EXCEPT ![g] = @ + 1]
<1> DEFINE w2 == Tail(w)
<1>7. /\ next \in [writer -> Int] /\ \A f \in writer : next[f] = at[f] - 1
      /\ more[g] = taken[g] + 1 /\ \A f \in writer : f # g => more[f] = taken[f]
  BY <1>3
<1>8. w2 \in Seq(AllTokens) /\ Len(w2) = Len(w) - 1 /\ \A j \in 1 .. Len(w2) : w2[j] = w[j + 1]
  BY <1>1
<1> HIDE DEF next, more, w2
<1>9. ASSUME NEW f \in writer  PROVE  more[f] <= Len(W(f))
  <2>1. CASE f = g
    BY <2>1, <1>3, <1>5, <1>7
  <2>2. CASE f # g
    BY <2>2, <1>3, <1>7
  <2> QED  BY <2>1, <2>2
<1>10. ASSUME NEW f \in writer, NEW k \in more[f] + 1 .. Len(W(f))
       PROVE  next[f] + k \in 1 .. Len(w2) /\ w2[next[f] + k] = Tokens(f, sent)[k]
  <2>1. k \in taken[f] + 1 .. Len(W(f)) /\ k \in 1 .. Len(W(f)) /\ (f = g => k # taken[g] + 1)
    BY <1>3, <1>7, <1>10
  <2>2. at[f] + k \in 1 .. Len(w) /\ w[at[f] + k] = Tokens(f, sent)[k]
    BY <2>1 DEF WireInv
  <2>3. at[f] + k # 1
    <3>1. CASE f = g
      BY <3>1, <2>1, <1>3, <1>5
    <3>2. CASE f # g
      <4>1. SUFFICES ASSUME at[f] + k = 1  PROVE FALSE
        OBVIOUS
      <4>2. Tokens(f, sent)[k] = Tokens(g, sent)[taken[g] + 1]
        <5>1. Head(w) = w[1]
          BY <1>1
        <5> QED  BY <5>1, <2>2, <4>1, <1>6
      <4>3. Tag(f) = Tag(g)
        <5>1. Tokens(f, sent)[k].tag = Tag(f)
          BY <2>1, TokensOf
        <5>2. Tokens(g, sent)[taken[g] + 1].tag = Tag(g)
          BY <1>5, TokensOf
        <5> QED  BY <5>1, <5>2, <4>2
      <4> QED  BY <4>3, <3>2, BothTables, OneTag
    <3> QED  BY <3>1, <3>2
  <2>4. k \in Int /\ next[f] + k = (at[f] + k) - 1
    BY <2>1, <1>3, <1>7
  <2>5. next[f] + k \in 1 .. Len(w2) /\ (next[f] + k) + 1 = at[f] + k
    <3> DEFINE p == at[f] + k
    <3>1. p \in Int /\ Len(w) \in Int /\ Len(w2) = Len(w) - 1
      BY <2>2, <1>1, <1>8
    <3> HIDE DEF p
    <3>2. p \in 1 .. Len(w) /\ p # 1 /\ next[f] + k = p - 1
      BY <2>2, <2>3, <2>4 DEF p
    <3>3. p - 1 \in 1 .. Len(w2) /\ (p - 1) + 1 = p
      BY <3>1, <3>2
    <3> QED  BY <3>2, <3>3 DEF p
  <2> QED  BY <2>2, <2>5, <1>8
<1>11. ASSUME NEW j \in 1 .. Len(w2)
       PROVE  \E f \in writer : \E k \in more[f] + 1 .. Len(W(f)) : j = next[f] + k
  <2>1. j + 1 \in 1 .. Len(w)
    BY <1>1, <1>8
  <2>2. PICK f \in writer : \E k \in taken[f] + 1 .. Len(W(f)) : j + 1 = at[f] + k
    BY <2>1 DEF WireInv
  <2>2a. PICK k \in taken[f] + 1 .. Len(W(f)) : j + 1 = at[f] + k
    BY <2>2
  <2>3. j = next[f] + k
    <3>1. next[f] = at[f] - 1 /\ at[f] \in Int /\ k \in Int /\ j \in Int
      BY <2>2a, <1>3, <1>7
    <3> QED  BY <3>1, <2>2a
  <2>4. k \in more[f] + 1 .. Len(W(f))
    <3>1. CASE f = g
      <4>1. k # taken[g] + 1
        BY <3>1, <2>2a, <1>5, <1>11
      <4> QED  BY <3>1, <4>1, <2>2a, <1>3, <1>7
    <3>2. CASE f # g
      BY <3>2, <2>2a, <1>7
    <3> QED  BY <3>1, <3>2
  <2> QED  BY <2>3, <2>4
<1>12. WireInv(w2, writer, more, next)
  BY <1>8, <1>9, <1>10, <1>11 DEF WireInv
<1> QED  BY <1>5, <1>6, <1>7, <1>12 DEF more, w2

\* decode puts the entry a token stands for behind those it has of that field.
LEMMA StoreEntry ==
    ASSUME MessageInv, NEW m, NEW taken \in [writer -> Nat], GotInv(m, taken),
           \A f \in writer : taken[f] <= Len(W(f)),
           NEW g \in writer \cap reader, taken[g] + 1 \in 1 .. Len(W(g))
    PROVE  GotInv(Store(g, W(g)[taken[g] + 1], m), [taken EXCEPT ![g] = @ + 1])
<1> DEFINE k == taken[g]
<1> DEFINE e == W(g)[k + 1]
<1> DEFINE s == g.slot
<1> DEFINE d == m[s]
<1>1. s \in Slots(reader) /\ k \in Nat
  BY DEF Slots
<1>2. /\ W(g) = sent[s] /\ Holds(g, sent[s])
      /\ W(g) \in Seq(Items) /\ Len(W(g)) \in Nat /\ DOMAIN W(g) = 1 .. Len(W(g))
      /\ e \in Items
  <2>1. W(g) # <<>>
    OBVIOUS
  <2> QED  BY <2>1, WrittenHolds
<1>3. \A f \in writer : f.slot = s /\ f # g => W(f) = <<>> /\ taken[f] = 0
  <2>1. s \in Slots(writer)
    BY DEF Slots
  <2>2. W(g) # <<>>
    OBVIOUS
  <2>3. \A f \in writer : f.slot = s /\ f # g => W(f) = <<>>
    BY <2>1, <2>2, Holder
  <2>4. \A f \in writer : taken[f] \in Nat
    OBVIOUS
  <2> QED  BY <2>3, <2>4
<1>4. k > 0 => First(d, g, k)
  BY DEF GotInv
<1>5. k = 0 => d = IF g.rule = "implicit" THEN <<Entry(g, "", Zero(g))>> ELSE <<>>
  <2>1. k = 0 => d = Base(reader)[s]
    BY <1>1, <1>3 DEF GotInv
  <2> QED  BY <2>1, BaseOf, BothTables
<1>6. g.rule \in {"implicit", "optional", "repeated", "map", "oneof"}
  BY BothTables DEF Table
<1> DEFINE d2 == CASE g.rule = "repeated" -> Append(d, e)
                   [] g.rule = "map" -> SetKey(d, e)
                   [] OTHER -> <<e>>
<1>7. Store(g, e, m) = [m EXCEPT ![s] = d2]
  <2>1. CASE g.rule = "repeated"
    BY <2>1 DEF Store
  <2>2. CASE g.rule = "map"
    BY <2>2 DEF Store
  <2>3. CASE g.rule \notin {"repeated", "map"}
    BY <2>3 DEF Store
  <2> QED  BY <2>1, <2>2, <2>3
<1>8. First(d2, g, k + 1)
  <2>1. ASSUME g.rule \in {"repeated", "map"}
        PROVE  First(Append(d, e), g, k + 1)
    <3>1. d \in Seq(Items) /\ Len(d) = k /\ \A i \in 1 .. k : d[i] = W(g)[i]
      <4>1. CASE k > 0
        BY <4>1, <1>4 DEF First
      <4>2. CASE k = 0
        <5>1. d = <<>>
          BY <4>2, <2>1, <1>5
        <5> QED  BY <5>1, <4>2
      <4> QED  BY <4>1, <4>2, <1>1
    <3> HIDE DEF d, e, k
    <3>2. /\ Append(d, e) \in Seq(Items) /\ Len(Append(d, e)) = k + 1
          /\ \A i \in 1 .. k : Append(d, e)[i] = d[i]
          /\ Append(d, e)[k + 1] = e
      BY <3>1, <1>1, <1>2
    <3>3. \A i \in 1 .. k + 1 : i \in 1 .. k \/ i = k + 1
      BY <1>1
    <3>4. e = W(g)[k + 1]
      BY DEF e
    <3> QED  BY <3>1, <3>2, <3>3, <3>4 DEF First
  <2>2. CASE g.rule = "repeated"
    BY <2>1, <2>2
  <2>3. CASE g.rule = "map"
    <3>1. ~ \E i \in DOMAIN d : d[i].key = e.key
      <4>1. CASE k = 0
        BY <4>1, <2>3, <1>5
      <4>2. CASE k > 0
        <5>1. \A i, j \in DOMAIN W(g) : W(g)[i].key = W(g)[j].key => i = j
          BY <2>3, <1>2 DEF Holds
        <5>2. DOMAIN d = 1 .. k /\ \A i \in 1 .. k : d[i] = W(g)[i]
          BY <4>2, <1>4 DEF First
        <5>3. ASSUME NEW i \in 1 .. k  PROVE  W(g)[i].key # W(g)[k + 1].key
          <6>1. i \in DOMAIN W(g) /\ k + 1 \in DOMAIN W(g) /\ i # k + 1
            BY <1>1, <1>2
          <6> QED  BY <5>1, <6>1
        <5> QED  BY <5>2, <5>3
      <4> QED  BY <4>1, <4>2, <1>1
    <3>2. d2 = Append(d, e)
      BY <2>3, <3>1 DEF SetKey
    <3> QED  BY <2>1, <2>3, <3>2
  <2>4. CASE g.rule \notin {"repeated", "map"}
    <3>1. Len(W(g)) <= 1
      <4>1. CASE g.rule = "implicit"
        <5>1. Len(W(g)) = 1
          BY <4>1, <1>2 DEF Holds
        <5> QED  BY <5>1
      <4>2. CASE g.rule \in {"optional", "oneof"}
        BY <4>2, <1>2 DEF Holds
      <4> QED  BY <4>1, <4>2, <2>4, <1>6
    <3>2. k = 0
      BY <3>1, <1>1, <1>2
    <3>3. d2 = <<e>>
      BY <2>4
    <3>4. <<e>> \in Seq(Items) /\ Len(<<e>>) = 1 /\ <<e>>[1] = e
      <4> HIDE DEF e
      <4> QED  BY <1>2
    <3>5. e = W(g)[1]
      BY <3>2
    <3> HIDE DEF d2, e, k
    <3> QED  BY <3>2, <3>3, <3>4, <3>5 DEF First
  <2> QED  BY <2>2, <2>3, <2>4
<1> DEFINE m2 == [m EXCEPT ![s] = d2]
<1> DEFINE more == [taken EXCEPT ![g] = @ + 1]
<1>9. /\ m = [t \in Slots(reader) |-> m[t]]
      /\ \A t \in Slots(reader) :
            (\A f \in writer \cap reader : f.slot = t => taken[f] = 0) => m[t] = Base(reader)[t]
      /\ \A f \in writer \cap reader : taken[f] > 0 => First(m[f.slot], f, taken[f])
  BY DEF GotInv
<1> HIDE DEF d2
<1>10. m2 = [t \in Slots(reader) |-> m2[t]] /\ m2[s] = d2 /\ \A t \in Slots(reader) \ {s} : m2[t] = m[t]
  BY <1>1, <1>9
<1>11. more[g] = k + 1 /\ \A f \in writer \ {g} : more[f] = taken[f]
  OBVIOUS
<1> HIDE DEF m2, more
<1>12. ASSUME NEW t \in Slots(reader), \A f \in writer \cap reader : f.slot = t => more[f] = 0
       PROVE  m2[t] = Base(reader)[t]
  <2>1. t # s
    BY <1>1, <1>11, <1>12
  <2>2. \A f \in writer \cap reader : f.slot = t => taken[f] = 0
    BY <2>1, <1>11, <1>12
  <2> QED  BY <2>1, <2>2, <1>9, <1>10
<1>13. ASSUME NEW f \in writer \cap reader, more[f] > 0
       PROVE  First(m2[f.slot], f, more[f])
  <2>1. CASE f = g
    BY <2>1, <1>8, <1>10, <1>11
  <2>2. CASE f # g
    <3>1. taken[f] > 0 /\ more[f] = taken[f]
      BY <2>2, <1>11, <1>13
    <3>2. f.slot # s
      BY <2>2, <3>1, <1>3
    <3>3. f.slot \in Slots(reader)
      BY DEF Slots
    <3> QED  BY <3>1, <3>2, <3>3, <1>9, <1>10
  <2> QED  BY <2>1, <2>2
<1>14. GotInv(m2, more)
  BY <1>10, <1>12, <1>13 DEF GotInv
<1> QED  BY <1>7, <1>14 DEF m2, more
\* When nothing is left to read, the reader has what it is owed.
LEMMA AllRead ==
    ASSUME MessageInv, channel = "bytes",
           NEW taken \in [writer -> Nat], NEW at \in [writer -> Int],
           NEW m, WireInv(<<>>, writer, taken, at), GotInv(m, taken)
    PROVE  Delivered(m)
<1>1. \A f \in writer : taken[f] = Len(W(f))
  <2> TAKE f \in writer
  <2>1. taken[f] \in Nat /\ Len(W(f)) \in Nat /\ taken[f] <= Len(W(f))
    BY WrittenHolds DEF WireInv
  <2>2. \A i \in taken[f] + 1 .. Len(W(f)) : at[f] + i \in 1 .. Len(<<>>)
    BY DEF WireInv
  <2>3. ~ \E i : i \in taken[f] + 1 .. Len(W(f))
    BY <2>2
  <2>4. taken[f] + 1 > Len(W(f))
    <3>1. taken[f] + 1 <= Len(W(f)) => taken[f] + 1 \in taken[f] + 1 .. Len(W(f))
      BY <2>1
    <3> QED  BY <3>1, <2>1, <2>3
  <2> QED  BY <2>1, <2>4
<1>2. ASSUME NEW s \in Slots(reader)  PROVE  m[s] = Owed(s)
  <2>1. CASE /\ Owed(s) = Base(reader)[s]
             /\ \A f \in writer \cap reader : f.slot = s => W(f) = <<>>
    <3>1. \A f \in writer \cap reader : f.slot = s => taken[f] = 0
      BY <2>1, <1>1
    <3> QED  BY <2>1, <3>1 DEF GotInv
  <2>2. ASSUME NEW g \in writer \cap reader, g.slot = s, W(g) # <<>>,
               Owed(s) = [i \in DOMAIN W(g) |-> Arrived(g, W(g)[i])]
        PROVE  m[s] = Owed(s)
    <3>1. W(g) \in Seq(Items) /\ Len(W(g)) \in Nat
      BY WrittenHolds
    <3>2. taken[g] = Len(W(g)) /\ taken[g] > 0
      BY <3>1, <2>2, <1>1
    <3>3. First(m[s], g, Len(W(g)))
      BY <3>2, <2>2 DEF GotInv
    <3>4. m[s] = W(g)
      BY <3>1, <3>3, SameSeq DEF First
    <3>5. \A i \in DOMAIN W(g) : Arrived(g, W(g)[i]) = W(g)[i]
      BY DEF Arrived
    <3>6. Owed(s) = [i \in DOMAIN W(g) |-> W(g)[i]]
      BY <2>2, <3>5
    <3>7. W(g) = [i \in DOMAIN W(g) |-> W(g)[i]]
      BY <3>1
    <3> QED  BY <3>4, <3>6, <3>7
  <2> QED  BY <2>1, <2>2, OwedIs
<1>3. m = [s \in Slots(reader) |-> m[s]]
  BY DEF GotInv
<1> QED  BY <1>2, <1>3 DEF Delivered

-----------------------------------------------------------------------------
(* JSON *)

\* The member of field f in the object that toJSON makes of what was sent.
Member(f) ==
    [num |-> f.num,
     entries |-> [i \in DOMAIN W(f) |-> [W(f)[i] EXCEPT !.val = JsonValue(f, @)]]]

LEMMA MembersAre == JsonMembers(writer, sent) = {Member(f) : f \in {g \in writer : W(g) # <<>>}}
BY DEF JsonMembers, Member, W

\* An ISO time names one millisecond: the parts of the day are remainders.
LEMMA TimeSurvives ==
    ASSUME NEW ms \in Int
    PROVE  FromISO(ToISO(ms)) = ms
<1> DEFINE t == ms \div 1000
<1> DEFINE m == ms \div 60000
<1> DEFINE h == ms \div 3600000
<1> DEFINE d == ms \div 86400000
<1>1. ms = 1000 * t + (ms % 1000) /\ t \in Int /\ ms % 1000 \in 0 .. 999
  OBVIOUS
<1>2. t = 60 * m + (t % 60)
  OBVIOUS
<1>3. m = 60 * h + (m % 60)
  OBVIOUS
<1>4. h = 24 * d + (h % 24)
  OBVIOUS
<1>5. m \in Int /\ h \in Int /\ d \in Int /\ t % 60 \in Int /\ m % 60 \in Int /\ h % 24 \in Int
  OBVIOUS
<1>6. FromISO(ToISO(ms)) =
          (((d * 24 + (h % 24)) * 60 + (m % 60)) * 60 + (t % 60)) * 1000 + (ms % 1000)
  BY DEF FromISO, ToISO
<1> HIDE DEF t, m, h, d
<1> QED  BY <1>1, <1>2, <1>3, <1>4, <1>5, <1>6

LEMMA TextSurvives ==
    ASSUME NEW v \in Int
    PROVE  FromDecimal(ToDecimal(v)) = v
<1>1. CASE v < 0
  <2>1. ToDecimal(v).minus = TRUE /\ ToDecimal(v).digits = -v
    BY <1>1 DEF ToDecimal
  <2>2. FromDecimal(ToDecimal(v)) = -(-v)
    BY <2>1 DEF FromDecimal
  <2> QED  BY <2>2
<1>2. CASE ~(v < 0)
  <2>1. ~ToDecimal(v).minus /\ ToDecimal(v).digits = v
    BY <1>2 DEF ToDecimal
  <2> QED  BY <2>1 DEF FromDecimal
<1> QED  BY <1>1, <1>2

LEMMA OctetIs ==
    ASSUME NEW b \in Seq(0 .. 255), NEW i \in Nat \ {0}
    PROVE  Octet(b, i) \in 0 .. 255 /\ (i <= Len(b) => Octet(b, i) = b[i])
<1>1. CASE i <= Len(b)
  <2>1. i \in 1 .. Len(b)
    BY <1>1
  <2>2. b[i] \in 0 .. 255
    BY <2>1, ElementOf
  <2>3. Octet(b, i) = b[i]
    BY <1>1 DEF Octet
  <2> QED  BY <2>2, <2>3
<1>2. CASE ~(i <= Len(b))
  BY <1>2 DEF Octet
<1> QED  BY <1>1, <1>2

\* Places in groups of three and four.
LEMMA InThrees ==
    ASSUME NEW i \in Int, i > 0
    PROVE  /\ (i - 1) \div 3 \in Nat /\ (i - 1) % 3 \in 0 .. 2
           /\ i = 3 * ((i - 1) \div 3) + ((i - 1) % 3) + 1
<1> DEFINE p == i - 1
<1>1. p \in Nat /\ i = p + 1
  OBVIOUS
<1> HIDE DEF p
<1>2. p \div 3 \in Nat /\ p % 3 \in 0 .. 2 /\ p = 3 * (p \div 3) + (p % 3)
  BY <1>1
<1> DEFINE q == p \div 3
<1> DEFINE r == p % 3
<1> HIDE DEF q, r
<1>3. q \in Nat /\ r \in 0 .. 2 /\ i = 3 * q + r + 1
  BY <1>1, <1>2 DEF q, r
<1> QED  BY <1>3 DEF p, q, r

LEMMA InFours ==
    ASSUME NEW q \in Nat, NEW j \in 0 .. 3
    PROVE  ((4 * q + j + 1) - 1) \div 4 = q /\ ((4 * q + j + 1) - 1) % 4 = j
<1>1. (4 * q + j + 1) - 1 = 4 * q + j
  OBVIOUS
<1>2. (4 * q + j) \div 4 = q /\ (4 * q + j) % 4 = j
  OBVIOUS
<1> QED  BY <1>1, <1>2

\* A number is its high bits and its low ones.
LEMMA Parts ==
    ASSUME NEW x \in 0 .. 255
    PROVE  /\ (x \div 16) * 16 + (x % 16) = x
           /\ (x \div 64) * 64 + (x % 64) = x
           /\ x % 64 \in 0 .. 63
<1>1. (x \div 16) * 16 + (x % 16) = x
  OBVIOUS
<1>2. (x \div 64) * 64 + (x % 64) = x /\ x % 64 \in 0 .. 63
  OBVIOUS
<1> QED  BY <1>1, <1>2

\* Bits put side by side and taken apart again.
LEMMA Bits ==
    ASSUME NEW x \in 0 .. 255, NEW y \in 0 .. 255
    PROVE  /\ (x \div 4) * 4 + ((x % 4) * 16 + y \div 16) \div 16 = x
           /\ ((x % 4) * 16 + y \div 16) % 16 = y \div 16
           /\ ((x % 16) * 4 + y \div 64) \div 4 = x % 16
           /\ ((x % 16) * 4 + y \div 64) % 4 = y \div 64
           /\ (x % 4) * 16 + y \div 16 \in 0 .. 63
           /\ (x % 16) * 4 + y \div 64 \in 0 .. 63
<1>1. /\ x = 4 * (x \div 4) + (x % 4) /\ x % 4 \in 0 .. 3 /\ x \div 4 \in Int
      /\ x = 16 * (x \div 16) + (x % 16) /\ x % 16 \in 0 .. 15 /\ x \div 16 \in Int
      /\ y \div 16 \in 0 .. 15 /\ y \div 64 \in 0 .. 3
  <2>1. x = 4 * (x \div 4) + (x % 4) /\ x % 4 \in 0 .. 3 /\ x \div 4 \in Int
    OBVIOUS
  <2>2. x = 16 * (x \div 16) + (x % 16) /\ x % 16 \in 0 .. 15 /\ x \div 16 \in Int
    OBVIOUS
  <2>3. y \div 16 \in 0 .. 15 /\ y \div 64 \in 0 .. 3
    OBVIOUS
  <2> QED  BY <2>1, <2>2, <2>3
<1>2. ASSUME NEW a \in 0 .. 3, NEW c \in 0 .. 15
      PROVE  (a * 16 + c) \div 16 = a /\ (a * 16 + c) % 16 = c /\ a * 16 + c \in 0 .. 63
  OBVIOUS
<1>3. ASSUME NEW a \in 0 .. 15, NEW c \in 0 .. 3
      PROVE  (a * 4 + c) \div 4 = a /\ (a * 4 + c) % 4 = c /\ a * 4 + c \in 0 .. 63
  OBVIOUS
<1>4. /\ ((x % 4) * 16 + y \div 16) \div 16 = x % 4
      /\ ((x % 4) * 16 + y \div 16) % 16 = y \div 16
      /\ (x % 4) * 16 + y \div 16 \in 0 .. 63
  BY <1>1, <1>2
<1>5. /\ ((x % 16) * 4 + y \div 64) \div 4 = x % 16
      /\ ((x % 16) * 4 + y \div 64) % 4 = y \div 64
      /\ (x % 16) * 4 + y \div 64 \in 0 .. 63
  BY <1>1, <1>3
<1>6. (x \div 4) * 4 + (x % 4) = x
  BY <1>1
<1>7. (x \div 4) * 4 + ((x % 4) * 16 + y \div 16) \div 16 = x
  BY <1>4, <1>6
<1> QED  BY <1>4, <1>5, <1>7

\* The octets of group q come back from its four characters.
LEMMA GroupSurvives ==
    ASSUME NEW b \in Seq(0 .. 255), NEW q \in Nat, NEW r \in 0 .. 2, 3 * q + r + 1 <= Len(b)
    PROVE  OctetOf(ToBase64(b), q, r) = b[3 * q + r + 1]
<1> DEFINE t == ToBase64(b)
<1> DEFINE n == Len(b)
<1>1. n \in Nat /\ \A i \in Nat \ {0} : Octet(b, i) \in 0 .. 255 /\ (i <= n => Octet(b, i) = b[i])
  BY OctetIs
<1>2. ASSUME NEW j \in 0 .. 3, j <= r + 1
      PROVE  t[4 * q + j + 1] = Character(b, q, j)
  <2>1. 4 * q + j + 1 \in 1 .. 4 * ((n + 2) \div 3)
    <3>1. q < (n + 2) \div 3 /\ (n + 2) \div 3 \in Nat
      BY <1>1
    <3> QED  BY <3>1, <1>2
  <2>2. ((4 * q + j + 1) - 1) \div 4 = q /\ ((4 * q + j + 1) - 1) % 4 = j
    BY InFours
  <2>3. ~(3 * q + j > n)
    BY <1>1, <1>2
  <2> QED  BY <2>1, <2>2, <2>3 DEF ToBase64
<1> DEFINE x == Octet(b, 3 * q + 1)
<1> DEFINE y == Octet(b, 3 * q + 2)
<1> DEFINE z == Octet(b, 3 * q + 3)
<1>3. x \in 0 .. 255 /\ y \in 0 .. 255 /\ z \in 0 .. 255
  BY <1>1
<1>4. /\ Character(b, q, 0) = x \div 4
      /\ Character(b, q, 1) = (x % 4) * 16 + y \div 16
      /\ Character(b, q, 2) = (y % 16) * 4 + z \div 64
      /\ Character(b, q, 3) = z % 64
  BY DEF Character
<1>5. 4 * q + 0 + 1 = 4 * q + 1 /\ 4 * q + 1 + 1 = 4 * q + 2
      /\ 4 * q + 2 + 1 = 4 * q + 3 /\ 4 * q + 3 + 1 = 4 * q + 4
  OBVIOUS
<1>6. CASE r = 0
  <2>1. t[4 * q + 1] = x \div 4 /\ t[4 * q + 2] = (x % 4) * 16 + y \div 16
    BY <1>2, <1>4, <1>5, <1>6
  <2>2. OctetOf(t, q, r) = t[4 * q + 1] * 4 + t[4 * q + 2] \div 16
    BY <1>6 DEF OctetOf
  <2>3. x = b[3 * q + r + 1]
    BY <1>1, <1>6
  <2> HIDE DEF t, x, y
  <2>4. (x \div 4) * 4 + ((x % 4) * 16 + y \div 16) \div 16 = x
    BY <1>3, Bits
  <2> QED  BY <2>1, <2>2, <2>3, <2>4 DEF t
<1>7. CASE r = 1
  <2>1. t[4 * q + 2] = (x % 4) * 16 + y \div 16 /\ t[4 * q + 3] = (y % 16) * 4 + z \div 64
    BY <1>2, <1>4, <1>5, <1>7
  <2>2. OctetOf(t, q, r) = (t[4 * q + 2] % 16) * 16 + t[4 * q + 3] \div 4
    BY <1>7 DEF OctetOf
  <2>3. y = b[3 * q + r + 1]
    BY <1>1, <1>7
  <2> HIDE DEF t, x, y, z
  <2>4. (((x % 4) * 16 + y \div 16) % 16) * 16 + ((y % 16) * 4 + z \div 64) \div 4 = y
    <3>1. ((x % 4) * 16 + y \div 16) % 16 = y \div 16
      BY <1>3, Bits, Zenon
    <3>2. ((y % 16) * 4 + z \div 64) \div 4 = y % 16
      BY <1>3, Bits
    <3>3. (y \div 16) * 16 + (y % 16) = y
      BY <1>3, Parts
    <3> DEFINE second == (x % 4) * 16 + y \div 16
    <3> DEFINE third == (y % 16) * 4 + z \div 64
    <3>4. second % 16 = y \div 16 /\ third \div 4 = y % 16
      BY <3>1, <3>2
    <3> HIDE DEF second, third
    <3>5. (second % 16) * 16 + third \div 4 = y
      BY <3>3, <3>4
    <3> QED  BY <3>5 DEF second, third
  <2> QED  BY <2>1, <2>2, <2>3, <2>4 DEF t
<1>8. CASE r = 2
  <2>1. t[4 * q + 3] = (y % 16) * 4 + z \div 64 /\ t[4 * q + 4] = z % 64
    BY <1>2, <1>4, <1>5, <1>8
  <2>2. OctetOf(t, q, r) = (t[4 * q + 3] % 4) * 64 + t[4 * q + 4]
    BY <1>8 DEF OctetOf
  <2>3. z = b[3 * q + r + 1]
    BY <1>1, <1>8
  <2> HIDE DEF t, y, z
  <2>4. (((y % 16) * 4 + z \div 64) % 4) * 64 + (z % 64) = z
    <3>1. ((y % 16) * 4 + z \div 64) % 4 = z \div 64
      BY <1>3, Bits
    <3>2. (z \div 64) * 64 + (z % 64) = z
      BY <1>3, Parts
    <3> DEFINE third == (y % 16) * 4 + z \div 64
    <3>3. third % 4 = z \div 64
      BY <3>1
    <3> HIDE DEF third
    <3>4. (third % 4) * 64 + (z % 64) = z
      BY <3>2, <3>3
    <3> QED  BY <3>4 DEF third
  <2> QED  BY <2>1, <2>2, <2>3, <2>4 DEF t
<1> QED  BY <1>6, <1>7, <1>8

\* What follows the last octet is padding, and nothing before it is.
LEMMA OctetsSurvive ==
    ASSUME NEW b \in Seq(0 .. 255)
    PROVE  FromBase64(ToBase64(b)) = b
<1> DEFINE t == ToBase64(b)
<1> DEFINE n == Len(b)
<1> DEFINE g == (n + 2) \div 3
<1> DEFINE D == {i \in 1 .. 3 * (Len(t) \div 4) : t[4 * ((i - 1) \div 3) + ((i - 1) % 3) + 2] # Padding}
<1>1. n \in Nat /\ g \in Nat /\ n <= 3 * g
  OBVIOUS
<1>2. Len(t) = 4 * g /\ 3 * (Len(t) \div 4) = 3 * g
  <2>1. 4 * g \in Nat
    BY <1>1
  <2>2. Len(t) = 4 * g
    BY <2>1 DEF ToBase64
  <2> HIDE DEF g
  <2> QED  BY <2>2, <1>1
<1>3. \A i \in Nat \ {0} : Octet(b, i) \in 0 .. 255
  BY OctetIs
<1>4. ASSUME NEW i \in 1 .. 3 * g
      PROVE  t[4 * ((i - 1) \div 3) + ((i - 1) % 3) + 2] # Padding <=> i <= n
  <2> DEFINE q == (i - 1) \div 3
  <2> DEFINE r == (i - 1) % 3
  <2> DEFINE k == 4 * q + r + 2
  <2>1. q \in Nat /\ r \in 0 .. 2 /\ i = 3 * q + r + 1
    BY InThrees
  <2> HIDE DEF q, r
  <2>2. q < g
    BY <2>1, <1>1
  <2> HIDE DEF g
  <2>3. k \in 1 .. 4 * g /\ (k - 1) \div 4 = q /\ (k - 1) % 4 = r + 1
    BY <2>1, <2>2, <1>1
  <2> HIDE DEF k
  <2>4. t[k] = IF 3 * q + (r + 1) > n THEN Padding ELSE Character(b, q, r + 1)
    BY <2>3 DEF ToBase64, g
  <2>5. Character(b, q, r + 1) # Padding
    <3> DEFINE x == Octet(b, 3 * q + 1)
    <3> DEFINE y == Octet(b, 3 * q + 2)
    <3> DEFINE z == Octet(b, 3 * q + 3)
    <3>1. x \in 0 .. 255 /\ y \in 0 .. 255 /\ z \in 0 .. 255
      BY <1>3, <2>1
    <3>2. \/ Character(b, q, r + 1) = (x % 4) * 16 + y \div 16
          \/ Character(b, q, r + 1) = (y % 16) * 4 + z \div 64
          \/ Character(b, q, r + 1) = z % 64
      BY <2>1 DEF Character
    <3> HIDE DEF x, y, z
    <3>3. /\ (x % 4) * 16 + y \div 16 \in 0 .. 63
          /\ (y % 16) * 4 + z \div 64 \in 0 .. 63
          /\ z % 64 \in 0 .. 63
      <4>1. (x % 4) * 16 + y \div 16 \in 0 .. 63
        BY <3>1, Bits
      <4>2. (y % 16) * 4 + z \div 64 \in 0 .. 63
        BY <3>1, Bits
      <4>3. z % 64 \in 0 .. 63
        BY <3>1, Parts
      <4> QED  BY <4>1, <4>2, <4>3
    <3> QED  BY <3>1, <3>2, <3>3 DEF Padding
  <2>6. 3 * q + (r + 1) > n <=> ~(i <= n)
    BY <2>1, <1>1
  <2> QED  BY <2>4, <2>5, <2>6 DEF k, q, r
<1>5. D = 1 .. n
  <2>1. D = {i \in 1 .. 3 * g : t[4 * ((i - 1) \div 3) + ((i - 1) % 3) + 2] # Padding}
    <3> HIDE DEF t, g
    <3> QED  BY <1>2
  <2>2. D = {i \in 1 .. 3 * g : i <= n}
    <3> HIDE DEF t, g, n
    <3> QED  BY <1>4, <2>1
  <2> HIDE DEF g, n
  <2>3. {i \in 1 .. 3 * g : i <= n} = 1 .. n
    BY <1>1
  <2> QED  BY <2>2, <2>3
<1>6. ASSUME NEW i \in 1 .. n
      PROVE  OctetOf(t, (i - 1) \div 3, (i - 1) % 3) = b[i]
  <2> DEFINE q == (i - 1) \div 3
  <2> DEFINE r == (i - 1) % 3
  <2>1. q \in Nat /\ r \in 0 .. 2 /\ i = 3 * q + r + 1
    BY InThrees
  <2> HIDE DEF q, r
  <2>2. OctetOf(t, q, r) = b[3 * q + r + 1]
    <3>1. 3 * q + r + 1 <= Len(b)
      BY <2>1, <1>6
    <3> QED  BY <2>1, <3>1, GroupSurvives
  <2> QED  BY <2>1, <2>2 DEF q, r
<1>7. FromBase64(t) = [i \in D |-> OctetOf(t, (i - 1) \div 3, (i - 1) % 3)]
  BY DEF FromBase64
<1>8. b = [i \in 1 .. n |-> b[i]]
  OBVIOUS
<1> HIDE DEF t, D
<1>9. FromBase64(t) = [i \in 1 .. n |-> OctetOf(t, (i - 1) \div 3, (i - 1) % 3)]
  BY <1>5, <1>7
<1>10. FromBase64(t) = [i \in 1 .. n |-> b[i]]
  BY <1>6, <1>9
<1> QED  BY <1>8, <1>10 DEF t

\* Reading a value back gives the value, or UNRECOGNIZED for an enum's number
\* without a name.
LEMMA JsonBack ==
    ASSUME MessageInv, NEW g, NEW v, Value(g, v)
    PROVE  FromJsonValue(g, JsonValue(g, v)) =
               IF g.kind \in DOMAIN Enums /\ v \notin Enums[g.kind] THEN UNRECOGNIZED ELSE v
<1>1. CASE g.kind \in DOMAIN Enums
  <2>1. FromJsonValue(g, JsonValue(g, v)) = EnumFromJSON(g.kind, EnumToJSON(g.kind, v))
    <3>1. g.kind \notin Wide \cup Whole \cup {"Date", "bytes"}
      BY <1>1 DEF MessageInv, Scalars
    <3> QED  BY <1>1, <3>1 DEF FromJsonValue, JsonValue
  <2> QED  BY <1>1, <2>1 DEF EnumFromJSON, EnumToJSON
<1>2. ASSUME g.kind \notin DOMAIN Enums  PROVE FromJsonValue(g, JsonValue(g, v)) = v
  <2>1. CASE g.kind \in Wide
    <3>1. g.kind \notin Whole \cup {"Date", "bytes"} /\ v \in Int
      BY <2>1 DEF Wide, Whole, Value
    <3>2. FromJsonValue(g, JsonValue(g, v)) = FromDecimal(ToDecimal(v))
      BY <1>2, <2>1, <3>1 DEF FromJsonValue, JsonValue
    <3> QED  BY <3>1, <3>2, TextSurvives
  <2>2. CASE g.kind \in Whole
    <3>1. g.kind \notin Wide \cup {"Date", "bytes"} /\ v \in Int /\ v % 2 = 0
      BY <2>2 DEF Wide, Whole, Value
    <3>2. FromJsonValue(g, JsonValue(g, v)) = Round(v)
      BY <1>2, <2>2, <3>1 DEF FromJsonValue, JsonValue
    <3>3. Round(v) = v
      BY <3>1 DEF Round
    <3> QED  BY <3>2, <3>3
  <2>3. CASE g.kind = "Date"
    <3>1. g.kind \notin Wide \cup Whole \cup {"bytes"} /\ v \in Int
      BY <2>3 DEF Wide, Whole, Value
    <3>2. FromJsonValue(g, JsonValue(g, v)) = FromISO(ToISO(v))
      BY <1>2, <2>3, <3>1 DEF FromJsonValue, JsonValue
    <3> QED  BY <3>1, <3>2, TimeSurvives
  <2>4. CASE g.kind = "bytes"
    <3>1. g.kind \notin Wide \cup Whole \cup {"Date"} /\ v \in Seq(0 .. 255)
      BY <2>4 DEF Wide, Whole, Value
    <3>2. FromJsonValue(g, JsonValue(g, v)) = FromBase64(ToBase64(v))
      BY <1>2, <2>4, <3>1 DEF FromJsonValue, JsonValue
    <3> QED  BY <3>1, <3>2, OctetsSurvive
  <2>5. CASE g.kind \notin Wide \cup Whole \cup {"Date", "bytes"}
    BY <1>2, <2>5 DEF FromJsonValue, JsonValue
  <2> QED  BY <2>1, <2>2, <2>3, <2>4, <2>5
<1> QED  BY <1>1, <1>2

LEMMA EntryExcept ==
    ASSUME NEW g, NEW k, NEW v, NEW x
    PROVE  Entry(g, k, v).val = v /\ [Entry(g, k, v) EXCEPT !.val = x] = Entry(g, k, x)
BY DEF Entry

LEMMA JsonEntry ==
    ASSUME MessageInv, channel = "json", NEW g, NEW e, e = Entry(g, e.key, e.val), Value(g, e.val)
    PROVE  [[e EXCEPT !.val = JsonValue(g, @)] EXCEPT !.val = FromJsonValue(g, @)] = Arrived(g, e)
<1>1. [[e EXCEPT !.val = JsonValue(g, @)] EXCEPT !.val = FromJsonValue(g, @)]
          = Entry(g, e.key, FromJsonValue(g, JsonValue(g, e.val)))
  <2> DEFINE x == JsonValue(g, e.val)
  <2> DEFINE c == [e EXCEPT !.val = x]
  <2>1. c = Entry(g, e.key, x) /\ c.val = x
    BY EntryExcept
  <2> HIDE DEF c
  <2>2. [c EXCEPT !.val = FromJsonValue(g, c.val)] = Entry(g, e.key, FromJsonValue(g, x))
    BY <2>1, EntryExcept
  <2> QED  BY <2>2 DEF c
<1>2. CASE g.kind \in DOMAIN Enums /\ e.val \notin Enums[g.kind]
  <2>1. Arrived(g, e) = [e EXCEPT !.val = UNRECOGNIZED]
    BY <1>2 DEF Arrived
  <2>2. [e EXCEPT !.val = UNRECOGNIZED] = Entry(g, e.key, UNRECOGNIZED)
    BY EntryExcept
  <2> QED  BY <1>1, <1>2, <2>1, <2>2, JsonBack
<1>3. CASE ~(g.kind \in DOMAIN Enums /\ e.val \notin Enums[g.kind])
  <2>1. Arrived(g, e) = e
    BY <1>3 DEF Arrived
  <2> QED  BY <1>1, <1>3, <2>1, JsonBack
<1> QED  BY <1>2, <1>3

LEMMA JsonRead ==
    ASSUME MessageInv, channel = "json"
    PROVE  Delivered(FromJsonObject(reader, JsonMembers(writer, sent)))
<1> DEFINE o == JsonMembers(writer, sent)
<1> DEFINE m == FromJsonObject(reader, o)
<1>1. \A x \in o : \E f \in writer : W(f) # <<>> /\ x = Member(f)
  BY MembersAre
<1>2. \A f \in writer : W(f) # <<>> => Member(f) \in o
  BY MembersAre
<1>3. \A f : Member(f).num = f.num
  BY DEF Member
<1> HIDE DEF o
<1>4. ASSUME NEW s \in Slots(reader)  PROVE  m[s] = Owed(s)
  <2> DEFINE cases == {f \in reader : f.slot = s /\ \E x \in o : x.num = f.num}
  <2> DEFINE f0 == CHOOSE f \in cases : \A g \in cases : f.num <= g.num
  <2> DEFINE x0 == CHOOSE x \in o : x.num = f0.num
  <2>1. m[s] = IF cases = {} THEN Base(reader)[s]
               ELSE [i \in DOMAIN x0.entries |->
                        [x0.entries[i] EXCEPT !.val = FromJsonValue(f0, @)]]
    BY DEF FromJsonObject
  <2>2. ASSUME NEW f \in cases  PROVE  f \in writer /\ W(f) # <<>>
    <3>1. f \in reader
      OBVIOUS
    <3>2. PICK x \in o : x.num = f.num
      OBVIOUS
    <3>3. PICK h \in writer : W(h) # <<>> /\ x = Member(h)
      BY <1>1
    <3>4. h.num = f.num
      BY <1>3, <3>2, <3>3
    <3>5. h = f
      BY <3>1, <3>4, OneField DEF MessageInv
    <3> QED  BY <3>3, <3>5
  <2>3. CASE /\ Owed(s) = Base(reader)[s]
             /\ \A f \in writer \cap reader : f.slot = s => W(f) = <<>>
    <3>1. cases = {}
      BY <2>2, <2>3
    <3> QED  BY <2>1, <2>3, <3>1
  <2>4. ASSUME NEW g \in writer \cap reader, g.slot = s, W(g) # <<>>,
               \A f \in writer : f.slot = s /\ f # g => W(f) = <<>>,
               Owed(s) = [i \in DOMAIN W(g) |-> Arrived(g, W(g)[i])]
        PROVE  m[s] = Owed(s)
    <3>1. Member(g) \in o /\ Member(g).num = g.num
      BY <2>4, <1>2, <1>3
    <3>2. cases = {g}
      BY <2>2, <2>4, <3>1
    <3>3. f0 = g
      <4>1. g.num \in Nat
        BY BothTables DEF Table
      <4>2. \E f \in cases : \A h \in cases : f.num <= h.num
        BY <3>2, <4>1
      <4> HIDE DEF cases
      <4>3. f0 \in cases
        BY <4>2
      <4> QED  BY <4>3, <3>2
    <3> HIDE DEF f0
    <3>4. x0 = Member(g)
      <4>1. x0 \in o /\ x0.num = g.num
        BY <3>1, <3>3
      <4> HIDE DEF x0
      <4>2. PICK h \in writer : W(h) # <<>> /\ x0 = Member(h)
        BY <4>1, <1>1
      <4>3. h.num = g.num
        BY <4>1, <4>2, <1>3
      <4>4. h = g
        BY <4>3, BothTables, OneField
      <4> QED  BY <4>2, <4>4
    <3> HIDE DEF x0
    <3>5. m[s] = [i \in DOMAIN x0.entries |-> [x0.entries[i] EXCEPT !.val = FromJsonValue(f0, @)]]
      BY <2>1, <3>2
    <3>6. /\ DOMAIN x0.entries = DOMAIN W(g)
          /\ \A i \in DOMAIN W(g) : x0.entries[i] = [W(g)[i] EXCEPT !.val = JsonValue(g, @)]
      BY <3>4 DEF Member
    <3>7. \A i \in DOMAIN W(g) :
             [x0.entries[i] EXCEPT !.val = FromJsonValue(f0, @)] = Arrived(g, W(g)[i])
      <4> TAKE i \in DOMAIN W(g)
      <4>1. W(g)[i] = Entry(g, W(g)[i].key, W(g)[i].val) /\ Value(g, W(g)[i].val)
        <5>1. W(g) \in Seq(Items) /\ Len(W(g)) \in Nat
          BY WrittenHolds
        <5>2. i \in 1 .. Len(W(g))
          BY <5>1
        <5> QED  BY <5>2, WrittenHolds
      <4>2. [[W(g)[i] EXCEPT !.val = JsonValue(g, @)] EXCEPT !.val = FromJsonValue(g, @)]
                = Arrived(g, W(g)[i])
        BY <4>1, JsonEntry
      <4>3. x0.entries[i] = [W(g)[i] EXCEPT !.val = JsonValue(g, @)]
        BY <3>6
      <4> QED  BY <4>2, <4>3, <3>3
    <3>8. m[s] = [i \in DOMAIN W(g) |-> Arrived(g, W(g)[i])]
      BY <3>5, <3>6, <3>7
    <3> QED  BY <2>4, <3>8
  <2> QED  BY <2>3, <2>4, OwedIs
<1>5. m = [s \in Slots(reader) |-> m[s]]
  <2> DEFINE cases(s) == {f \in reader : f.slot = s /\ \E x \in o : x.num = f.num}
  <2> DEFINE f0(s) == CHOOSE f \in cases(s) : \A g \in cases(s) : f.num <= g.num
  <2> DEFINE x0(s) == CHOOSE x \in o : x.num = f0(s).num
  <2> DEFINE val(s) == IF cases(s) = {} THEN Base(reader)[s]
                       ELSE [i \in DOMAIN x0(s).entries |->
                                [x0(s).entries[i] EXCEPT !.val = FromJsonValue(f0(s), @)]]
  <2>1. m = [s \in Slots(reader) |-> val(s)]
    BY DEF FromJsonObject
  <2> HIDE DEF val, m
  <2> QED  BY <2>1
<1> QED  BY <1>4, <1>5 DEF Delivered, o
-----------------------------------------------------------------------------
(* The invariant *)

\* fromPartial fills every slot with what its field may hold.
LEMMA PartialHolds ==
    ASSUME NEW S, Table(S), NEW partial, Partial(S, partial), NEW s \in Slots(S)
    PROVE  \E f \in S : f.slot = s /\ Holds(f, FromPartial(S, partial)[s])
<1>1. CASE s \in DOMAIN partial
  BY <1>1 DEF Partial, FromPartial
<1>2. CASE s \notin DOMAIN partial
  <2>1. PICK f \in S : f.slot = s
    BY DEF Slots
  <2>2. FromPartial(S, partial)[s] = IF f.rule = "implicit" THEN <<Entry(f, "", Zero(f))>> ELSE <<>>
    BY <1>2, <2>1, BaseOf DEF FromPartial
  <2>3. CASE f.rule = "implicit"
    <3> DEFINE zero == Entry(f, "", Zero(f))
    <3>1. zero.key = "" /\ zero.val = Zero(f) /\ zero = Entry(f, zero.key, zero.val)
      BY DEF Entry
    <3>2. Value(f, zero.val)
      <4>1. Value(f, Zero(f))
        BY DEF Value, Zero, Wide, Whole
      <4> QED  BY <3>1, <4>1
    <3> HIDE DEF zero
    <3>3. /\ DOMAIN <<zero>> = {1} /\ Len(<<zero>>) = 1 /\ <<zero>>[1] = zero
          /\ <<zero>> \in Seq({<<zero>>[i] : i \in {1}})
      OBVIOUS
    <3>4. Holds(f, <<zero>>)
      BY <2>3, <3>1, <3>2, <3>3 DEF Holds
    <3> QED  BY <2>1, <2>2, <2>3, <3>4 DEF zero
  <2>4. CASE f.rule # "implicit"
    <3>1. f.rule \in {"implicit", "optional", "repeated", "map", "oneof"}
      BY DEF Table
    <3>2. /\ DOMAIN <<>> = {} /\ Len(<<>>) = 0
          /\ <<>> \in Seq({<<>>[i] : i \in {}})
      OBVIOUS
    <3>3. Holds(f, <<>>)
      BY <2>4, <3>1, <3>2 DEF Holds
    <3> QED  BY <2>1, <2>2, <2>4, <3>3
  <2> QED  BY <2>3, <2>4
<1> QED  BY <1>1, <1>2

LEMMA InitIInv == Init => IInv
<1> SUFFICES ASSUME Init  PROVE IInv
  OBVIOUS
<1>1. PICK p \in Pairs :
         /\ writer = p.writer /\ reader = p.reader
         /\ \E partial \in Partials(writer) : sent = FromPartial(writer, partial)
  BY DEF Init
<1>2. PICK partial \in Partials(writer) : sent = FromPartial(writer, partial)
  BY <1>1
<1>3. /\ Table(writer \cup reader) /\ Partial(writer, partial)
      /\ Half \in Nat \ {0} /\ \A kind \in DOMAIN Enums : kind \notin Scalars /\ 0 \in Enums[kind]
  BY <1>1, <1>2, WireAssumption
<1>4. Table(writer)
  BY <1>3 DEF Table
<1>5. MessageInv
  <2>1. sent = [s \in Slots(writer) |-> sent[s]]
    BY <1>2 DEF FromPartial
  <2>2. \A s \in Slots(writer) : \E f \in writer : f.slot = s /\ Holds(f, sent[s])
    BY <1>2, <1>3, <1>4, PartialHolds
  <2> QED  BY <1>3, <2>1, <2>2 DEF MessageInv
<1>6. todo = writer /\ wire = <<>> /\ phase = "encode" /\ channel \in {"bytes", "json"}
  BY DEF Init
<1>7. EncodeInv
  <2> DEFINE at == [f \in writer |-> 0]
  <2>1. \A f \in writer : NothingTaken[f] <= Len(W(f))
    BY <1>5, WrittenHolds DEF NothingTaken
  <2>2. writer \ todo = {}
    BY <1>6
  <2>3. WireInv(<<>>, {}, NothingTaken, at)
    BY <2>1 DEF WireInv
  <2>4. at \in [writer -> Int]
    OBVIOUS
  <2> QED  BY <1>6, <2>2, <2>3, <2>4 DEF EncodeInv
<1>8. FitInv
  BY <1>6 DEF FitInv
<1> QED  BY <1>5, <1>6, <1>7, <1>8 DEF IInv, DecodeInv, JsonInv, DoneInv

\* Arriving, of the reader and the channel it depends on.
ArrivingAt(R, ch, e) ==
    LET f == CHOOSE f \in R : f.num = e.num
    IN IF ch = "json" /\ f.kind \in DOMAIN Enums /\ e.val \notin Enums[f.kind]
       THEN [e EXCEPT !.val = UNRECOGNIZED] ELSE e

\* No step changes the message or the tables, and the rest is about those.
LEMMA SameMessage ==
    ASSUME UNCHANGED <<writer, reader, channel, sent>>, MessageInv
    PROVE  /\ MessageInv'
           /\ \A f : W(f)' = W(f)
           /\ NothingTaken' = NothingTaken
           /\ \A w, D, taken, at : WireInv(w, D, taken, at) => WireInv(w, D, taken, at)'
           /\ \A m, taken : GotInv(m, taken) => GotInv(m, taken)'
           /\ \A m : Delivered(m) => Delivered(m)'
           /\ JsonMembers(writer', sent') = JsonMembers(writer, sent)
<1>1. MessageInv'
  BY DEF MessageInv
<1>2. \A f : W(f)' = W(f)
  BY DEF W
<1>3. NothingTaken' = NothingTaken
  BY DEF NothingTaken
<1>4. AllTokens' = AllTokens /\ Items' = Items
  BY DEF AllTokens, Items
<1>5. \A w, D, taken, at : WireInv(w, D, taken, at) => WireInv(w, D, taken, at)'
  BY <1>2, <1>4 DEF WireInv
<1>6. \A m, taken : GotInv(m, taken) => GotInv(m, taken)'
  BY <1>2, <1>4 DEF GotInv, First
<1>7. \A m : Delivered(m) => Delivered(m)'
  <2>1. \A e : Arriving(e) = ArrivingAt(reader, channel, e)
    BY DEF Arriving, ArrivingAt
  <2>2. \A e : Arriving(e)' = ArrivingAt(reader', channel', e)
    BY DEF Arriving, ArrivingAt
  <2>3. \A e : Arriving(e)' = Arriving(e)
    BY <2>1, <2>2
  <2>4. \A s : Owed(s)' = Owed(s)
    BY <2>3 DEF Owed
  <2> QED  BY <2>4 DEF Delivered
<1> QED  BY <1>1, <1>2, <1>3, <1>5, <1>6, <1>7

LEMMA StepIInv == IInv /\ [Next]_vars => IInv'
<1> SUFFICES ASSUME IInv, [Next]_vars  PROVE IInv'
  OBVIOUS
<1>0. MessageInv /\ channel \in {"bytes", "json"} /\ FitInv
  BY DEF IInv
<1>1. CASE EncodeField
  <2>1. /\ UNCHANGED <<writer, reader, channel, sent>> /\ channel = "bytes" /\ phase = "encode"
    BY <1>1 DEF EncodeField
  <2>2. PICK f \in todo :
           IF \A i \in DOMAIN Written(f, sent) : Fits(f, Written(f, sent)[i].val)
           THEN wire' = wire \o Tokens(f, sent) /\ todo' = todo \ {f} /\ UNCHANGED phase
           ELSE phase' = "refused" /\ UNCHANGED <<wire, todo>>
    BY <1>1 DEF EncodeField
  <2>3. CASE \A i \in DOMAIN Written(f, sent) : Fits(f, Written(f, sent)[i].val)
    <3>1. wire' = wire \o Tokens(f, sent) /\ todo' = todo \ {f} /\ phase' = "encode"
      BY <2>1, <2>2, <2>3
    <3>2. f \in writer /\ f \notin writer \ todo /\ writer \ todo' = (writer \ todo) \cup {f}
      BY <1>0, <3>1 DEF FitInv
    <3>3. PICK at \in [writer -> Int] : WireInv(wire, writer \ todo, NothingTaken, at)
      BY <2>1 DEF IInv, EncodeInv
    <3>4. PICK next \in [writer -> Int] :
             WireInv(wire', (writer \ todo) \cup {f}, NothingTaken, next)
      BY <3>1, <3>2, <3>3, <1>0, AddTokens
    <3>5. WireInv(wire', writer \ todo', NothingTaken, next)
      BY <3>2, <3>4
    <3>6. EncodeInv'
      <4>1. \A w, D, taken, a : WireInv(w, D, taken, a) => WireInv(w, D, taken, a)'
        BY <1>0, <2>1, SameMessage
      <4>2. WireInv(wire, writer \ todo, NothingTaken, next)'
        BY <2>1, <3>5, <4>1, <1>0, SameMessage
      <4>3. next \in [writer' -> Int]
        BY <2>1
      <4> QED  BY <4>2, <4>3 DEF EncodeInv
    <3>7. FitInv'
      <4>1. \A g : W(g)' = W(g)
        BY <1>0, <2>1, SameMessage
      <4>2. \A i \in DOMAIN W(f) : Fits(f, W(f)[i].val)
        BY <2>3 DEF W
      <4> QED  BY <1>0, <2>1, <3>1, <3>2, <4>1, <4>2 DEF FitInv
    <3> QED  BY <3>1, <3>6, <3>7, <1>0, <2>1, SameMessage DEF IInv, DecodeInv, JsonInv, DoneInv
  <2>4. CASE ~ \A i \in DOMAIN Written(f, sent) : Fits(f, Written(f, sent)[i].val)
    <3>1. phase' = "refused" /\ UNCHANGED <<wire, todo>>
      BY <2>2, <2>4
    <3>2. FitInv'
      <4>1. \A g : W(g)' = W(g)
        BY <1>0, <2>1, SameMessage
      <4> QED  BY <1>0, <2>1, <3>1, <4>1 DEF FitInv
    <3> QED  BY <3>1, <3>2, <1>0, <2>1, SameMessage DEF IInv, EncodeInv, DecodeInv, JsonInv, DoneInv
  <2> QED  BY <2>3, <2>4
<1>a. ASSUME UNCHANGED <<writer, sent, todo>>  PROVE  FitInv'
  <2>1. \A g : W(g)' = W(g)
    BY <1>a DEF W
  <2> QED  BY <1>0, <1>a, <2>1 DEF FitInv
<1>2. CASE Finish
  <2>1. /\ UNCHANGED <<writer, reader, channel, sent, todo, wire>>
        /\ channel = "bytes" /\ phase = "encode" /\ todo = {} /\ phase' = "decode"
        /\ received' = Base(reader)
    BY <1>2 DEF Finish
  <2>2. PICK at \in [writer -> Int] : WireInv(wire, writer \ todo, NothingTaken, at)
    BY <2>1 DEF IInv, EncodeInv
  <2>3. WireInv(wire, writer, NothingTaken, at)
    <3>1. writer \ todo = writer
      BY <2>1
    <3> QED  BY <2>2, <3>1
  <2>4. GotInv(Base(reader), NothingTaken)
    <3>1. Base(reader) = [s \in Slots(reader) |-> Base(reader)[s]]
      BY DEF Base
    <3>2. \A f \in writer \cap reader : ~(NothingTaken[f] > 0)
      BY DEF NothingTaken
    <3> QED  BY <3>1, <3>2 DEF GotInv
  <2>5. NothingTaken \in [writer -> Nat]
    BY DEF NothingTaken
  <2>6. DecodeInv'
    <3>1. WireInv(wire, writer, NothingTaken, at)' /\ GotInv(received, NothingTaken)'
      BY <1>0, <2>1, <2>3, <2>4, SameMessage
    <3>2. NothingTaken' \in [writer' -> Nat] /\ at \in [writer' -> Int]
      BY <1>0, <2>1, <2>5, SameMessage
    <3> QED  BY <2>1, <3>1, <3>2 DEF DecodeInv
  <2> QED  BY <2>1, <2>6, <1>0, <1>a, SameMessage DEF IInv, EncodeInv, JsonInv, DoneInv
<1>3. ASSUME DecodeKnown \/ DecodeUnknown  PROVE IInv'
  <2>1. /\ UNCHANGED <<writer, reader, channel, sent, todo, phase>>
        /\ channel = "bytes" /\ phase = "decode" /\ wire # <<>> /\ wire' = Tail(wire)
    BY <1>3 DEF DecodeKnown, DecodeUnknown, Skip
  <2>2. todo = {}
    BY <2>1 DEF IInv, DecodeInv
  <2>3. PICK taken \in [writer -> Nat] : \E at \in [writer -> Int] :
           WireInv(wire, writer, taken, at) /\ GotInv(received, taken)
    BY <2>1 DEF IInv, DecodeInv
  <2>4. PICK at \in [writer -> Int] : WireInv(wire, writer, taken, at) /\ GotInv(received, taken)
    BY <2>3
  <2>5. PICK g \in writer :
           /\ taken[g] + 1 \in 1 .. Len(W(g))
           /\ Head(wire) = Tokens(g, sent)[taken[g] + 1]
           /\ \E next \in [writer -> Int] :
                 WireInv(Tail(wire), writer, [taken EXCEPT ![g] = @ + 1], next)
    BY <1>0, <2>1, <2>4, TakeToken
  <2>6. PICK next \in [writer -> Int] :
           WireInv(wire', writer, [taken EXCEPT ![g] = @ + 1], next)
    BY <2>1, <2>5
  <2> DEFINE more == [taken EXCEPT ![g] = @ + 1]
  <2> DEFINE tok == Head(wire)
  <2>7. more \in [writer -> Nat]
    OBVIOUS
  <2>8. tok.tag = Tag(g) /\ tok.key = W(g)[taken[g] + 1].key
        /\ tok.val = ToWire(g, W(g)[taken[g] + 1].val)
    BY <1>0, <2>5, TokensOf
  <2>9. \A f \in reader : Tag(f) = tok.tag => f = g
    BY <1>0, <2>8, OneTag DEF MessageInv
  <2>10. GotInv(received', more)
    <3>1. CASE DecodeKnown
      <4>1. PICK f \in Accepting(reader, tok) :
               received' = Store(f, Entry(f, tok.key, FromWire(f, tok.val)), received)
        BY <3>1 DEF DecodeKnown
      <4>2. f = g /\ g \in writer \cap reader
        BY <2>9, <4>1 DEF Accepting
      <4>3. W(g)[taken[g] + 1] = Entry(g, tok.key, FromWire(g, tok.val))
        <5> DEFINE e == W(g)[taken[g] + 1]
        <5>1. e = Entry(g, e.key, e.val) /\ Value(g, e.val)
          BY <1>0, <2>5, WrittenHolds
        <5>2. Fits(g, e.val)
          <6>1. taken[g] + 1 \in DOMAIN W(g)
            <7>1. W(g) \in Seq(Items)
              BY <1>0, WrittenHolds
            <7> QED  BY <2>5, <7>1
          <6> QED  BY <1>0, <2>2, <6>1 DEF FitInv
        <5>3. FromWire(g, tok.val) = e.val
          BY <1>0, <2>8, <5>1, <5>2, ValueSurvives DEF MessageInv
        <5> QED  BY <2>8, <5>1, <5>3
      <4>4. received' = Store(g, W(g)[taken[g] + 1], received)
        BY <4>1, <4>2, <4>3
      <4>5. \A h \in writer : taken[h] <= Len(W(h))
        BY <2>4 DEF WireInv
      <4> QED  BY <1>0, <2>4, <2>5, <4>2, <4>4, <4>5, StoreEntry
    <3>2. CASE DecodeUnknown
      <4>1. received' = received /\ Accepting(reader, tok) = {}
        BY <3>2 DEF DecodeUnknown
      <4>2. g \notin reader
        BY <2>8, <4>1 DEF Accepting
      <4>3. \A f \in writer \cap reader : more[f] = taken[f]
        BY <4>2
      <4> QED  BY <2>4, <4>1, <4>3 DEF GotInv
    <3> QED  BY <1>3, <3>1, <3>2
  <2> HIDE DEF more
  <2>11. DecodeInv'
    <3>1. WireInv(wire, writer, more, next)' /\ GotInv(received, more)'
      <4>1. WireInv(wire', writer', more, next)
        BY <2>1, <2>6 DEF more
      <4> QED  BY <1>0, <2>1, <2>10, <4>1, SameMessage
    <3>2. more \in [writer' -> Nat] /\ next \in [writer' -> Int]
      BY <2>1, <2>7
    <3> QED  BY <2>1, <2>2, <3>1, <3>2 DEF DecodeInv
  <2> QED  BY <2>1, <2>11, <1>0, <1>a, SameMessage DEF IInv, EncodeInv, JsonInv, DoneInv
<1>4. CASE DecodeEnd
  <2>1. /\ UNCHANGED <<writer, reader, channel, sent, todo, received>>
        /\ channel = "bytes" /\ phase = "decode" /\ wire = <<>> /\ phase' = "done"
    BY <1>4 DEF DecodeEnd
  <2>2. PICK taken \in [writer -> Nat] : \E at \in [writer -> Int] :
           WireInv(wire, writer, taken, at) /\ GotInv(received, taken)
    BY <2>1 DEF IInv, DecodeInv
  <2>3. Delivered(received)
    BY <1>0, <2>1, <2>2, AllRead
  <2>4. DoneInv'
    BY <1>0, <2>1, <2>3, SameMessage DEF DoneInv
  <2> QED  BY <2>1, <2>4, <1>0, <1>a, SameMessage DEF IInv, EncodeInv, DecodeInv, JsonInv
<1>5. CASE ToJSON
  <2>1. /\ UNCHANGED <<writer, reader, channel, sent, todo>>
        /\ channel = "json" /\ phase' = "decode" /\ json' = JsonMembers(writer, sent)
    BY <1>5 DEF ToJSON
  <2>2. JsonInv'
    BY <2>1 DEF JsonInv
  <2> QED  BY <2>1, <2>2, <1>0, <1>a, SameMessage DEF IInv, EncodeInv, DecodeInv, DoneInv
<1>6. CASE FromJSON
  <2>1. /\ UNCHANGED <<writer, reader, channel, sent, todo>>
        /\ channel = "json" /\ phase = "decode" /\ phase' = "done"
        /\ received' = FromJsonObject(reader, json)
    BY <1>6 DEF FromJSON
  <2>2. Delivered(received')
    BY <1>0, <2>1, JsonRead DEF IInv, JsonInv
  <2>3. DoneInv'
    BY <1>0, <2>1, <2>2, SameMessage DEF DoneInv
  <2> QED  BY <2>1, <2>3, <1>0, <1>a, SameMessage DEF IInv, EncodeInv, DecodeInv, JsonInv
<1>7. CASE UNCHANGED vars
  <2>1. /\ UNCHANGED <<writer, reader, channel, sent>> /\ UNCHANGED <<todo, wire, json, received, phase>>
    BY <1>7 DEF vars
  <2>2. FitInv'
    BY <2>1, <1>a
  <2>3. EncodeInv'
    BY <1>0, <2>1, SameMessage DEF IInv, EncodeInv
  <2>4. DecodeInv'
    BY <1>0, <2>1, SameMessage DEF IInv, DecodeInv
  <2>5. JsonInv' /\ DoneInv'
    BY <1>0, <2>1, SameMessage DEF IInv, JsonInv, DoneInv
  <2> QED  BY <2>1, <2>2, <2>3, <2>4, <2>5, <1>0, SameMessage DEF IInv
<1> QED  BY <1>1, <1>2, <1>3, <1>4, <1>5, <1>6, <1>7 DEF Next

LEMMA Understood == Spec => []IInv
BY InitIInv, StepIInv, PTL DEF Spec

-----------------------------------------------------------------------------
(* The theorems *)

\* Nothing changes and nothing is lost on the way through encode and decode: the
\* reader's message is the one that was sent, or encode has refused it.
THEOREM BytesArrive == Spec => []ValuesSurviveBytes
<1>1. IInv => ValuesSurviveBytes
  <2> SUFFICES ASSUME IInv, channel = "bytes", phase = "done", writer = reader
               PROVE  received = sent
    BY DEF ValuesSurviveBytes
  <2>1. MessageInv /\ Delivered(received)
    BY DEF IInv, DoneInv
  <2>2. ASSUME NEW s \in Slots(writer)  PROVE  Owed(s) = sent[s]
    <3>1. PICK g \in writer : Holds(g, sent[s])
      BY <2>1 DEF MessageInv
    <3>2. ASSUME NEW i \in DOMAIN sent[s]  PROVE  sent[s][i].num = g.num
      <4>1. sent[s][i] = Entry(g, sent[s][i].key, sent[s][i].val)
        BY <3>1 DEF Holds
      <4>2. Entry(g, sent[s][i].key, sent[s][i].val).num = g.num
        BY DEF Entry
      <4> QED  BY <4>1, <4>2
    <3>3. \A i \in DOMAIN sent[s] : Arriving(sent[s][i]) = sent[s][i]
      BY DEF Arriving
    <3>4. Owed(s) = [i \in DOMAIN sent[s] |-> Arriving(sent[s][i])]
      BY <3>2 DEF Owed
    <3>5. Owed(s) = [i \in DOMAIN sent[s] |-> sent[s][i]]
      BY <3>3, <3>4
    <3>6. sent[s] = [i \in DOMAIN sent[s] |-> sent[s][i]]
      <4> DEFINE d == sent[s]
      <4>1. d \in Seq({d[i] : i \in DOMAIN d})
        BY <3>1 DEF Holds
      <4> HIDE DEF d
      <4>2. PICK T : d \in Seq(T)
        BY <4>1, SelfSeq
      <4>3. d = [i \in DOMAIN d |-> d[i]]
        BY <4>2
      <4> QED  BY <4>3 DEF d
    <3> QED  BY <3>5, <3>6
  <2> QED  BY <2>1, <2>2 DEF MessageInv, Delivered
<1> QED  BY <1>1, Understood, PTL

\* Tables of two versions: what both know arrives in either direction, whatever
\* fields and variants the other one has, in bytes and in JSON.
THEOREM VersionsUnderstood == Spec => []OtherVersionsUnderstood
<1>1. IInv => OtherVersionsUnderstood
  BY DEF IInv, DoneInv, Delivered, OtherVersionsUnderstood
<1> QED  BY <1>1, Understood, PTL

\* JSON changes no value but that of an enum without a name.
THEOREM JsonArrives == Spec => []JsonKeepsTheMessage
<1>1. IInv => JsonKeepsTheMessage
  BY DEF IInv, DoneInv, Delivered, JsonKeepsTheMessage
<1> QED  BY <1>1, Understood, PTL
=============================================================================
