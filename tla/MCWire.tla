------------------------------- MODULE MCWire -------------------------------
(* Wire over every message of the Node SDK's generated protocol. *)
EXTENDS Wire, WireCommon, WireE2EE, WireEvents, WireFacebook, WireMessenger, WireSession,
        FiniteSets, TLC

Schemas == CommonMessages \cup E2EEMessages \cup EventsMessages
           \cup FacebookMessages \cup MessengerMessages \cup SessionMessages
MCEnums == CommonEnums @@ E2EEEnums @@ EventsEnums
           @@ FacebookEnums @@ MessengerEnums @@ SessionEnums

\* The field a later v1 schema adds: its number has never been used.
Fresh(S) == CHOOSE n \in 1 .. (Cardinality(S) + 1) : \A f \in S : f.num # n
Additions(S) ==
    {Field("added", Fresh(S), "string"), Rep("added", Fresh(S), "int32")}
    \cup {Case(f.slot, "added", Fresh(S), "string") : f \in {g \in S : g.rule = "oneof"}}
Later(S) == {S \cup {f} : f \in Additions(S)}

MCPairs == UNION {{[writer |-> S, reader |-> S]}
                  \cup {[writer |-> S, reader |-> L] : L \in Later(S)}
                  \cup {[writer |-> L, reader |-> S] : L \in Later(S)} : S \in Schemas}

\* Both ends of each range and one beyond; a day before 1970; one to four octets,
\* among them 0 and 255.  The numbers of int32 and uint32 are whole, -1 and 1.
Samples(f) == CASE f.kind = "Date" -> {-1500, 0, 90061001}
                [] f.kind = "int64" -> -(Half + 1) .. Half
                [] f.kind = "uint64" -> -1 .. Width
                [] f.kind = "int32" -> {-2, 0, 2}
                [] f.kind = "uint32" -> {0, 2}
                [] f.kind = "bytes" -> {<<>>, <<0>>, <<250, 7>>, <<1, 129, 64>>, <<255, 2, 3, 99>>}
                [] f.kind \in DOMAIN MCEnums -> {0, 1, Cardinality(MCEnums[f.kind])}
                [] OTHER -> {0, 1}
Other(f) == CHOOSE v \in Samples(f) : v # Zero(f)

\* The values of a slot that a partial message may give.
SlotValues(S, s) ==
    UNION {CASE f.rule = "repeated" ->
                    {<<Entry(f, "", Zero(f))>>, <<Entry(f, "", Other(f)), Entry(f, "", Zero(f))>>}
             [] f.rule = "map" ->
                    {<<Entry(f, "k", 0)>>, <<Entry(f, "k", 1), Entry(f, "l", 1)>>}
             [] OTHER -> {<<Entry(f, "", v)>> : v \in Samples(f)}
              : f \in {g \in S : g.slot = s}}

\* The messages with slots a and b given, and those with every slot given.
Giving(S, a, b) ==
    {[s \in {a, b} |-> IF s = a THEN x ELSE y] : x \in SlotValues(S, a), y \in SlotValues(S, b)}
GivingAll(S) ==
    {[s \in Slots(S) |->
        CHOOSE x \in SlotValues(S, s) :
            \E f \in S : Head(x).num = f.num /\ (zero <=> Head(x).val = Zero(f))]
        : zero \in BOOLEAN}

MCPartials(S) == {<<>>} \cup GivingAll(S) \cup UNION {Giving(S, a, b) : a, b \in Slots(S)}
=============================================================================
