------------------------- MODULE DeviceStore_proofs -------------------------
(***************************************************************************)
(* The safety properties of DeviceStore for every number of callers, users *)
(* and pre-key IDs, every size of a batch, and any number of failing       *)
(* writes and crashes.                                                     *)
(***************************************************************************)
EXTENDS DeviceStore, FiniteSetTheorems, WellFoundedInduction, TLAPS

-----------------------------------------------------------------------------
(* The inductive invariant *)

\* An ID that has ever been in use lies below the counter, so that a key which is
\* generated never meets an earlier one.
CounterInv ==
  /\ \A id \in Present(mem) \cup consumed : id < mem.nextPreKeyID
  /\ \A id \in IDs : handed[id] # {} => id < mem.nextPreKeyID
  /\ \A c \in Callers : \A id \in got[c] : id < mem.nextPreKeyID

\* What was handed out is the key that is there, until it is removed for good.
KeyInv ==
  /\ \A id \in IDs : \A k1, k2 \in handed[id] : k1 = k2
  /\ \A id \in IDs \ consumed : \A key \in handed[id] : mem.preKeys[id] = key
  /\ \A id \in consumed : id \notin Present(mem)

\* A caller's batch has no gap: what is present below one of its IDs was handed out.
BatchInv ==
  /\ \A id \in mem.uploaded : handed[id] # {}
  /\ \A c \in Callers : \A j \in got[c] : \A id \in Present(mem) : id <= j => handed[id] # {}

IInv == TypeOK /\ NothingIsVolatile /\ CounterInv /\ KeyInv /\ BatchInv

-----------------------------------------------------------------------------
(* Numbers *)

LEMMA Bounds == MaxID \in Nat /\ MaxCount \in Nat /\ MaxFaults \in Nat /\ MaxCrashes \in Nat /\ MaxID > 0
  BY DeviceStoreAssumption

\* Every set of numbers that is not empty has a smallest element.
LEMMA Least ==
  ASSUME NEW T \in SUBSET Nat, T # {}
  PROVE  \E x \in T : \A y \in T : x <= y
<1> DEFINE Below(x) == 0 .. x
          Intervals == {Below(x) : x \in T}
<1>1. Intervals \subseteq FiniteSubsetsOf(Nat) /\ Intervals # {}
  <2>1. ASSUME NEW x \in T PROVE Below(x) \in FiniteSubsetsOf(Nat)
    <3>1. IsFiniteSet(Below(x))
      BY FS_Interval
    <3>2. Below(x) \in SUBSET Nat
      OBVIOUS
    <3> QED BY <3>1, <3>2 DEF FiniteSubsetsOf
  <2> HIDE DEF Below
  <2> QED BY <2>1
<1>2. PICK I \in Intervals : \A J \in Intervals : ~ (<<J, I>> \in StrictSubsetOrdering(Nat))
  BY <1>1, FS_StrictSubsetOrderingWellFounded, WFMin
<1>3. PICK x \in T : I = Below(x)
  OBVIOUS
<1>4. ASSUME NEW y \in T, y < x
      PROVE  FALSE
  <2>1. Below(y) \subseteq Below(x) /\ Below(y) # Below(x) /\ Below(x) \subseteq Nat
    BY <1>4
  <2>2. <<Below(y), Below(x)>> \in StrictSubsetOrdering(Nat)
    BY <2>1 DEF StrictSubsetOrdering
  <2>3. Below(y) \in Intervals
    OBVIOUS
  <2> HIDE DEF Below, Intervals
  <2> QED BY <2>2, <2>3, <1>2, <1>3
<1> QED BY <1>4

\* The counter of an imported state is one that Init can choose: beyond every key.
LEMMA BumpedFacts ==
  ASSUME NEW keys \in SUBSET (IDs \ {MaxID}), NEW n \in 0 .. 2
  PROVE  /\ Bumped(keys, n) \in 1 .. MaxID + 1
         /\ \A id \in keys : id < Bumped(keys, n)
<1> DEFINE T == {m \in Nat : m >= 1 /\ m >= n /\ \A id \in keys : id < m}
<1>1. MaxID + 1 \in T
  BY Bounds DEF IDs
<1>2. PICK m \in T : \A y \in T : m <= y
  <2>1. T \in SUBSET Nat /\ T # {}
    BY <1>1
  <2> QED BY <2>1, Least
<1>3. m \in 1 .. MaxID + 1
  BY <1>1, <1>2, Bounds
<1>4. m \in {1, n} \cup {id + 1 : id \in keys}
  <2>1. CASE m = 1
    BY <2>1
  <2>2. CASE m # 1
    <3>1. m - 1 \in Nat /\ m - 1 >= 1 /\ m - 1 \notin T
      BY <2>2, <1>2, <1>3, Bounds
    <3>2. n > m - 1 \/ \E id \in keys : ~ (id < m - 1)
      BY <3>1
    <3>3. ASSUME NEW id \in keys, ~ (id < m - 1) PROVE id = m - 1
      BY <3>3, <1>2 DEF IDs
    <3> QED BY <3>2, <3>3, <1>2
  <2> QED BY <2>1, <2>2
<1>5. m >= n /\ \A id \in keys : id < m
  BY <1>2
<1> QED BY <1>3, <1>4, <1>5 DEF Bumped

\* The last of the IDs a caller was given is one of them.
LEMMA LastFacts ==
  ASSUME NEW S \in SUBSET IDs, S # {}
  PROVE  (CHOOSE id \in S : \A j \in S : j <= id) \in S
<1> DEFINE T == {m \in Nat : \A j \in S : j <= m}
<1>1. MaxID \in T /\ T \in SUBSET Nat
  BY Bounds DEF IDs
<1>2. PICK m \in T : \A y \in T : m <= y
  BY <1>1, Least
<1>3. m \in S
  <2> SUFFICES ASSUME m \notin S PROVE FALSE
    OBVIOUS
  <2>1. PICK s \in S : TRUE
    OBVIOUS
  <2>2. m > 0
    BY <2>1, <1>2 DEF IDs
  <2>3. m - 1 \in T
    BY <2>2, <1>2 DEF IDs
  <2> QED BY <2>3, <1>2
<1>4. \A j \in S : j <= m
  BY <1>2
<1> QED BY <1>3, <1>4

-----------------------------------------------------------------------------
LEMMA InitIInv == Init => IInv
<1> SUFFICES ASSUME Init PROVE IInv
  OBVIOUS
<1> USE Bounds
<1>1. PICK keys \in SUBSET (IDs \ {MaxID}), n \in 0 .. 2 :
        \E uploaded \in SUBSET IDs :
          /\ \A id \in uploaded \ keys : id < Bumped(keys, n)
          /\ mem = NewState(keys, uploaded, Bumped(keys, n))
  BY DEF Init
<1>2. PICK uploaded \in SUBSET IDs :
          /\ \A id \in uploaded \ keys : id < Bumped(keys, n)
          /\ mem = NewState(keys, uploaded, Bumped(keys, n))
  BY <1>1
<1>3. Bumped(keys, n) \in 1 .. MaxID + 1 /\ \A id \in keys : id < Bumped(keys, n)
  BY BumpedFacts
<1>4. /\ mem.preKeys = [id \in IDs |-> IF id \in keys THEN id ELSE None]
      /\ mem.uploaded = uploaded /\ mem.nextPreKeyID = Bumped(keys, n) /\ mem.peers = {}
  BY <1>2 DEF NewState
<1>5. mem \in State
  BY <1>2, <1>3 DEF NewState, State, IDs, None
<1>6. TypeOK
  <2>1. handed \in [IDs -> SUBSET Nat]
    <3>1. handed = [id \in IDs |-> IF id \in mem.uploaded THEN {id} ELSE {}]
      BY DEF Init
    <3>2. \A id \in IDs : {id} \subseteq Nat
      BY DEF IDs
    <3> QED BY <3>1, <3>2
  <2>2. consumed \subseteq IDs
    BY <1>4 DEF Init
  <2>3. /\ disk = mem /\ attached = TRUE /\ got = [c \in Callers |-> {}] /\ generated = MaxID
        /\ faults = 0 /\ crashes = 0
    BY DEF Init
  <2> QED BY <1>5, <2>1, <2>2, <2>3 DEF TypeOK
<1>7. Present(mem) = keys
  <2>1. \A id \in IDs : id # None /\ (mem.preKeys[id] = IF id \in keys THEN id ELSE None)
    BY <1>4 DEF IDs, None
  <2>2. keys \subseteq IDs
    OBVIOUS
  <2> HIDE DEF None
  <2> QED BY <2>1, <2>2 DEF Present
<1>8. NothingIsVolatile
  BY DEF Init, NothingIsVolatile
<1>9. CounterInv
  BY <1>2, <1>3, <1>4, <1>7 DEF Init, CounterInv
<1>10. KeyInv
  BY <1>4, <1>7 DEF Init, KeyInv
<1>11. BatchInv
  BY <1>4 DEF Init, BatchInv
<1> QED BY <1>6, <1>8, <1>9, <1>10, <1>11 DEF IInv

-----------------------------------------------------------------------------
(* What GetOrGenPreKeys writes *)

\* The state after the call: the same keys below the counter, and a key under every ID
\* the counter has passed.
GenFacts(n, new) ==
  /\ new \in State
  /\ new.uploaded = mem.uploaded
  /\ mem.nextPreKeyID <= new.nextPreKeyID
  /\ \A id \in IDs : id < mem.nextPreKeyID => new.preKeys[id] = mem.preKeys[id]
  /\ Present(new) = Present(mem) \cup (mem.nextPreKeyID .. new.nextPreKeyID - 1)

LEMMA OfferedIsCounted == ASSUME TypeOK PROVE Cardinality(Offered(mem)) \in Nat
<1>1. IsFiniteSet(IDs)
  BY FS_Interval, Bounds DEF IDs
<1>2. Offered(mem) \subseteq IDs
  BY DEF Offered, Present
<1>3. IsFiniteSet(Offered(mem))
  BY <1>1, <1>2, FS_Subset
<1> QED BY <1>3, FS_CardinalityType

LEMMA UpdatedState ==
  ASSUME NEW s \in State, NEW f, NEW m
  PROVE  [s EXCEPT !.preKeys = f, !.nextPreKeyID = m]
           = [preKeys |-> f, uploaded |-> s.uploaded, nextPreKeyID |-> m, peers |-> s.peers]
<1> DEFINE t == [s EXCEPT !.preKeys = f]
<1>1. t = [preKeys |-> f, uploaded |-> s.uploaded, nextPreKeyID |-> s.nextPreKeyID,
           peers |-> s.peers]
  BY DEF State
<1>2. [t EXCEPT !.nextPreKeyID = m]
        = [preKeys |-> f, uploaded |-> s.uploaded, nextPreKeyID |-> m, peers |-> s.peers]
  <2> HIDE DEF t
  <2> QED BY <1>1
<1> QED BY <1>2

LEMMA AfterGenFacts ==
  ASSUME IInv, NEW n \in 1 .. MaxCount, ~ (n <= Cardinality(Offered(mem))),
         AfterGen(n).nextPreKeyID <= MaxID + 1
  PROVE  GenFacts(n, AfterGen(n)) /\ AfterGen(n).nextPreKeyID \in Nat
<1> USE Bounds
<1> DEFINE new == AfterGen(n)
           first == mem.nextPreKeyID
           missing == n - Cardinality(Offered(mem))
<1>1. mem \in State /\ generated \in Nat /\ first \in 1 .. MaxID + 1
  BY DEF IInv, TypeOK, State
<1>2. missing \in Nat
  BY OfferedIsCounted DEF IInv
<1>3. /\ new.nextPreKeyID = first + missing
      /\ new.preKeys = [id \in IDs |-> IF id \in first .. (first + missing - 1)
                                       THEN generated + 1 + (id - first) ELSE mem.preKeys[id]]
      /\ new.uploaded = mem.uploaded /\ new.peers = mem.peers
  BY <1>1 DEF AfterGen, NextID, State
<1>4. \E f, m : new = [preKeys |-> f, uploaded |-> mem.uploaded, nextPreKeyID |-> m,
                      peers |-> mem.peers]
  <2> DEFINE f == [id \in IDs |-> IF id \in first .. (first + missing - 1)
                                  THEN generated + 1 + (id - first) ELSE mem.preKeys[id]]
  <2>1. new = [mem EXCEPT !.preKeys = f, !.nextPreKeyID = first + missing]
    BY Zenon DEF AfterGen, NextID
  <2> DEFINE m == first + missing
  <2> HIDE DEF f, new, missing, m
  <2>2. [mem EXCEPT !.preKeys = f, !.nextPreKeyID = m]
          = [preKeys |-> f, uploaded |-> mem.uploaded, nextPreKeyID |-> m, peers |-> mem.peers]
    BY <1>1, UpdatedState, Zenon
  <2> QED BY <2>1, <2>2, Zenon DEF m
<1> HIDE DEF missing
<1>5. \A id \in IDs : new.preKeys[id] = IF id \in first .. (first + missing - 1)
                                        THEN generated + 1 + (id - first) ELSE mem.preKeys[id]
  BY <1>3
<1>6. new.preKeys \in [IDs -> Nat]
  <2>1. \A id \in IDs : mem.preKeys[id] \in Nat
    BY <1>1 DEF State
  <2>2. \A id \in IDs : (IF id \in first .. (first + missing - 1)
                         THEN generated + 1 + (id - first) ELSE mem.preKeys[id]) \in Nat
    BY <1>1, <1>2, <2>1 DEF IDs
  <2> QED BY <1>3, <2>2
<1>7. new.nextPreKeyID \in 1 .. MaxID + 1
  BY <1>1, <1>2, <1>3
<1>8. new \in State
  <2> HIDE DEF new
  <2> QED BY <1>1, <1>4, <1>6, <1>7 DEF State
<1>9. \A id \in IDs : id < first => new.preKeys[id] = mem.preKeys[id]
  BY <1>1, <1>2, <1>5 DEF IDs
<1>10. Present(new) = Present(mem) \cup (first .. new.nextPreKeyID - 1)
  <2>1. first .. new.nextPreKeyID - 1 \subseteq IDs
    BY <1>1, <1>7 DEF IDs
  <2>2. \A id \in IDs : id \in first .. new.nextPreKeyID - 1 => new.preKeys[id] # None
    BY <1>1, <1>2, <1>3, <1>5 DEF IDs, None
  <2>3. \A id \in IDs : id \notin first .. new.nextPreKeyID - 1 => new.preKeys[id] = mem.preKeys[id]
    BY <1>1, <1>2, <1>3, <1>5 DEF IDs
  <2> HIDE DEF new, first
  <2> QED BY <2>1, <2>2, <2>3 DEF Present
<1> QED BY <1>1, <1>2, <1>3, <1>7, <1>8, <1>9, <1>10 DEF GenFacts

\* The state a call for n pre-keys writes, and the batches it may return.
GenState(n) == IF n <= Cardinality(Offered(mem)) THEN mem ELSE AfterGen(n)

Batches(n) ==
  IF n <= Cardinality(Offered(mem)) THEN Smallest(Offered(mem), n)
  ELSE {Offered(mem) \cup (NextID(mem) .. GenState(n).nextPreKeyID - 1)}

LEMMA GenStateFacts ==
  ASSUME IInv, NEW n \in 1 .. MaxCount, GenState(n).nextPreKeyID <= MaxID + 1
  PROVE  GenFacts(n, GenState(n))
<1>1. CASE n <= Cardinality(Offered(mem))
  <2>1. GenState(n) = mem /\ mem \in State /\ mem.nextPreKeyID \in Nat
    BY <1>1 DEF GenState, IInv, TypeOK, State
  <2>2. mem.nextPreKeyID .. mem.nextPreKeyID - 1 = {}
    BY <2>1
  <2> QED BY <2>1, <2>2 DEF GenFacts
<1>2. CASE ~ (n <= Cardinality(Offered(mem)))
  <2>1. GenState(n) = AfterGen(n)
    BY <1>2 DEF GenState
  <2> QED BY <1>2, <2>1, AfterGenFacts
<1> QED BY <1>1, <1>2

\* A batch holds keys that are there, and leaves out no smaller one but those uploaded.
LEMMA BatchFacts ==
  ASSUME IInv, NEW n \in 1 .. MaxCount, GenState(n).nextPreKeyID <= MaxID + 1,
         NEW S \in Batches(n)
  PROVE  /\ S \subseteq Present(GenState(n))
         /\ \A j \in S : \A id \in Present(GenState(n)) :
              id <= j => id \in mem.uploaded \/ id \in S
<1> DEFINE new == GenState(n)
<1>1. GenFacts(n, new)
  BY GenStateFacts
<1>2. Offered(mem) \subseteq Present(mem) /\ Present(mem) \ Offered(mem) \subseteq mem.uploaded
  BY DEF Offered
<1>3. Present(new) \subseteq IDs /\ IDs \subseteq Nat
  BY DEF Present, IDs
<1>4. CASE n <= Cardinality(Offered(mem))
  <2>1. new = mem /\ S \in Smallest(Offered(mem), n)
    BY <1>4 DEF GenState, Batches
  <2>2. S \subseteq Offered(mem) /\ \A i \in S, j \in Offered(mem) \ S : i < j
    BY <2>1 DEF Smallest
  <2>3. Present(new) = Present(mem)
    BY <2>1
  <2>4. ASSUME NEW j \in S, NEW id \in Present(mem), id <= j, id \notin S
        PROVE  id \in mem.uploaded
    <3>1. j \in Nat /\ id \in Nat
      BY <2>2, <2>3, <1>2, <1>3
    <3> QED BY <3>1, <2>2, <2>4 DEF Offered
  <2> QED BY <2>2, <2>3, <2>4, <1>2
<1>5. CASE ~ (n <= Cardinality(Offered(mem)))
  <2>1. S = Offered(mem) \cup (mem.nextPreKeyID .. new.nextPreKeyID - 1)
    BY <1>5 DEF Batches, NextID
  <2>2. Present(new) = Present(mem) \cup (mem.nextPreKeyID .. new.nextPreKeyID - 1)
    BY <1>1 DEF GenFacts
  <2> QED BY <2>1, <2>2, <1>2
<1> QED BY <1>4, <1>5

-----------------------------------------------------------------------------
(* The steps *)

\* Whatever a write comes to, the snapshot is the state.
LEMMA MutateFacts ==
  ASSUME TypeOK, NothingIsVolatile, NEW new \in State, Mutate(new)
  PROVE  /\ mem' \in {mem, new} /\ disk' = mem' /\ mem' \in State
         /\ attached' \in BOOLEAN /\ faults' \in 0 .. MaxFaults
<1> USE Bounds
<1>1. CASE Written(new)
  BY <1>1 DEF Written, TypeOK
<1>2. CASE NotWritten(new)
  <2>1. mem' = mem /\ disk' = mem
    BY <1>2 DEF NotWritten, AfterFailedWrite, NothingIsVolatile
  <2>2. attached' = FALSE
    BY <1>2 DEF NotWritten
  <2>3. faults' \in 0 .. MaxFaults
    BY <1>2 DEF NotWritten, TypeOK
  <2> QED BY <2>1, <2>2, <2>3 DEF TypeOK
<1> QED BY <1>1, <1>2 DEF Mutate

\* Fewer keys, none of them changed, and as many uploaded as were handed out: what
\* MarkPreKeysAsUploaded and the operations on the other maps leave behind.
LEMMA SameKeysKeep ==
  ASSUME IInv, mem' \in State, disk' = mem',
         mem'.preKeys = mem.preKeys, mem'.nextPreKeyID = mem.nextPreKeyID,
         \A id \in mem'.uploaded : handed[id] # {},
         attached' \in BOOLEAN, faults' \in 0 .. MaxFaults,
         UNCHANGED <<generated, history, crashes>>,
         \/ UNCHANGED got
         \/ \E c \in Callers : got' = [got EXCEPT ![c] = {}]
  PROVE  IInv'
<1>1. Present(mem)' = Present(mem)
  BY DEF Present
<1>2. got' \in [Callers -> SUBSET IDs] /\ \A c \in Callers : got'[c] \subseteq got[c]
  BY DEF IInv, TypeOK
<1>3. handed' = handed /\ consumed' = consumed /\ generated' = generated /\ crashes' = crashes
  BY DEF history
<1>4. TypeOK'
  BY <1>2, <1>3 DEF IInv, TypeOK, State, IDs
<1>5. CounterInv'
  BY <1>1, <1>2, <1>3 DEF IInv, CounterInv
<1>6. KeyInv'
  BY <1>1, <1>3 DEF IInv, KeyInv
<1>7. BatchInv'
  BY <1>1, <1>2, <1>3 DEF IInv, BatchInv
<1> QED BY <1>4, <1>5, <1>6, <1>7 DEF IInv, NothingIsVolatile

LEMMA GetKeeps ==
  ASSUME IInv, NEW c \in Callers, NEW n \in 1 .. MaxCount, GetOrGenPreKeys(c, n)
  PROVE  IInv'
<1> USE Bounds
<1> DEFINE new == GenState(n)
<1>1. /\ new.nextPreKeyID <= MaxID + 1
      /\ generated' = generated + (new.nextPreKeyID - mem.nextPreKeyID)
      /\ \/ /\ Written(new)
            /\ \E S \in Batches(n) :
                 /\ got' = [got EXCEPT ![c] = S]
                 /\ handed' = [id \in IDs |-> IF id \in S THEN handed[id] \cup {new.preKeys[id]}
                                              ELSE handed[id]]
            /\ UNCHANGED <<consumed, crashes>>
         \/ NotWritten(new) /\ UNCHANGED <<got, history, crashes>>
         \/ DiesAfter(new)
  BY Zenon DEF GetOrGenPreKeys, GenState, Batches
<1> HIDE DEF new
<1>2. GenFacts(n, new)
  BY <1>1, GenStateFacts DEF new
<1>3. generated' \in Nat
  BY <1>1, <1>2 DEF GenFacts, IInv, TypeOK, State
<1>4. mem \in State /\ mem.nextPreKeyID \in Nat /\ new.nextPreKeyID \in Nat /\ IDs \subseteq Nat
  <2>1. mem \in State
    BY DEF IInv, TypeOK
  <2>2. mem.nextPreKeyID \in Nat
    BY <2>1 DEF State
  <2>3. new.nextPreKeyID \in Nat
    BY <1>2 DEF GenFacts, State
  <2>4. IDs \subseteq Nat
    BY DEF IDs
  <2> QED BY <2>1, <2>2, <2>3, <2>4
<1>5. \A id \in Present(new) : id < new.nextPreKeyID
  <2>1. \A id \in Present(mem) : id \in Nat /\ id < mem.nextPreKeyID
    <3>1. Present(mem) \subseteq IDs
      BY DEF Present
    <3>2. \A id \in Present(mem) : id < mem.nextPreKeyID
      BY DEF IInv, CounterInv
    <3> QED BY <1>4, <3>1, <3>2
  <2>2. Present(new) = Present(mem) \cup (mem.nextPreKeyID .. new.nextPreKeyID - 1)
    BY <1>2 DEF GenFacts
  <2> QED BY <2>1, <2>2, <1>2, <1>4 DEF GenFacts
<1>grows. mem.nextPreKeyID <= new.nextPreKeyID
  BY <1>2 DEF GenFacts
<1>6. \A id \in Present(new) : id \in Present(mem) \/ mem.nextPreKeyID <= id
  BY <1>2, <1>4 DEF GenFacts
<1>7. CASE /\ Written(new)
           /\ \E S \in Batches(n) :
                /\ got' = [got EXCEPT ![c] = S]
                /\ handed' = [id \in IDs |-> IF id \in S THEN handed[id] \cup {new.preKeys[id]}
                                             ELSE handed[id]]
           /\ UNCHANGED <<consumed, crashes>>
  <2>1. PICK S \in Batches(n) :
          /\ got' = [got EXCEPT ![c] = S]
          /\ handed' = [id \in IDs |-> IF id \in S THEN handed[id] \cup {new.preKeys[id]}
                                       ELSE handed[id]]
    BY <1>7
  <2>2. mem' = new /\ disk' = new /\ UNCHANGED <<attached, faults, consumed, crashes>>
    BY <1>7 DEF Written
  <2>3. /\ S \subseteq Present(new) /\ S \subseteq IDs
        /\ \A j \in S : \A id \in Present(new) : id <= j => id \in mem.uploaded \/ id \in S
    BY <1>1, BatchFacts DEF new, Present
  <2>4. Present(mem)' = Present(new)
    BY <2>2 DEF Present
  <2>5. /\ \A id \in S : handed'[id] = handed[id] \cup {new.preKeys[id]}
        /\ \A id \in IDs \ S : handed'[id] = handed[id]
    BY <2>1, <2>3
  <2>6. \A id \in S : new.preKeys[id] \in Nat
    BY <2>3, <1>2 DEF GenFacts, State
  <2>7. got'[c] = S /\ \A d \in Callers \ {c} : got'[d] = got[d]
    BY <2>1 DEF IInv, TypeOK
  <2>8. TypeOK'
    <3>1. got' \in [Callers -> SUBSET IDs]
      BY <2>1, <2>3 DEF IInv, TypeOK
    <3>2. handed' \in [IDs -> SUBSET Nat]
      <4>1. \A id \in IDs : handed'[id] \in SUBSET Nat
        BY <2>5, <2>6 DEF IInv, TypeOK
      <4> QED BY <2>1, <4>1
    <3> QED BY <3>1, <3>2, <2>2, <1>2, <1>3 DEF IInv, TypeOK, GenFacts
  <2>9. CounterInv'
    <3>1. \A id \in Present(mem)' \cup consumed' : id < mem'.nextPreKeyID
      <4>1. \A id \in consumed : id \in Nat /\ id < mem.nextPreKeyID
        BY <1>4 DEF IInv, TypeOK, CounterInv
      <4> QED BY <4>1, <2>2, <2>4, <1>4, <1>5, <1>grows
    <3>2. ASSUME NEW id \in IDs, handed'[id] # {} PROVE id < mem'.nextPreKeyID
      <4>1. CASE id \in S
        BY <4>1, <2>2, <2>3, <1>5
      <4>2. CASE id \notin S
        BY <4>2, <3>2, <2>2, <2>5, <1>2, <1>4 DEF IInv, CounterInv, GenFacts
      <4> QED BY <4>1, <4>2
    <3>3. ASSUME NEW d \in Callers, NEW id \in got'[d] PROVE id < mem'.nextPreKeyID
      <4>1. CASE d = c
        BY <4>1, <3>3, <2>2, <2>3, <2>7, <1>5
      <4>2. CASE d # c
        <5>1. id \in got[d] /\ id \in Nat
          BY <4>2, <3>3, <2>7, <1>4 DEF IInv, TypeOK
        <5>2. id < mem.nextPreKeyID
          BY <5>1 DEF IInv, CounterInv
        <5> QED BY <5>1, <5>2, <2>2, <1>4, <1>grows
      <4> QED BY <4>1, <4>2
    <3> QED BY <3>1, <3>2, <3>3 DEF CounterInv
  <2>10. KeyInv'
    <3>1. \A id \in consumed' : id \notin Present(mem)'
      <4>1. \A id \in consumed : id < mem.nextPreKeyID /\ id \notin Present(mem)
        BY DEF IInv, CounterInv, KeyInv
      <4> QED BY <4>1, <2>2, <2>4, <1>2, <1>4 DEF IInv, TypeOK, GenFacts
    <3>2. ASSUME NEW id \in IDs \ consumed, NEW key \in handed[id]
          PROVE  new.preKeys[id] = key
      BY <1>2 DEF IInv, CounterInv, KeyInv, GenFacts
    <3>3. ASSUME NEW id \in IDs \ consumed', NEW key \in handed'[id]
          PROVE  mem'.preKeys[id] = key
      BY <3>2, <3>3, <2>2, <2>5
    <3>4. ASSUME NEW id \in IDs, NEW k1 \in handed'[id], NEW k2 \in handed'[id]
          PROVE  k1 = k2
      <4>1. CASE id \in S
        <5>1. id \notin consumed
          BY <4>1, <3>1, <2>2, <2>3, <2>4
        <5> QED BY <5>1, <3>3, <3>4, <2>2
      <4>2. CASE id \notin S
        BY <4>2, <3>4, <2>5 DEF IInv, KeyInv
      <4> QED BY <4>1, <4>2
    <3> QED BY <3>1, <3>3, <3>4 DEF KeyInv
  <2>11. BatchInv'
    <3>1. \A id \in IDs : handed[id] # {} => handed'[id] # {}
      BY <2>5
    <3>2. \A id \in mem'.uploaded : id \in IDs /\ handed'[id] # {}
      <4>1. \A id \in mem.uploaded : id \in IDs /\ handed[id] # {}
        BY <1>4 DEF IInv, BatchInv, State
      <4> QED BY <4>1, <3>1, <2>2, <1>2 DEF GenFacts
    <3>3. ASSUME NEW d \in Callers, NEW j \in got'[d], NEW id \in Present(mem)', id <= j
          PROVE  handed'[id] # {}
      <4>1. id \in IDs
        BY DEF Present
      <4>2. CASE d = c
        BY <4>1, <4>2, <3>2, <3>3, <2>2, <2>3, <2>4, <2>5, <2>7, <1>2 DEF GenFacts
      <4>3. CASE d # c
        <5>1. j \in got[d] /\ j \in Nat /\ j < mem.nextPreKeyID
          BY <4>3, <2>7, <1>4 DEF IInv, TypeOK, CounterInv
        <5>2. id \in Present(mem)
          BY <5>1, <4>1, <3>3, <2>4, <1>4, <1>6
        <5> QED BY <5>1, <5>2, <4>1, <3>1, <3>3 DEF IInv, BatchInv
      <4> QED BY <4>2, <4>3
    <3> QED BY <3>2, <3>3 DEF BatchInv
  <2> QED BY <2>2, <2>8, <2>9, <2>10, <2>11 DEF IInv, NothingIsVolatile
<1>8. CASE NotWritten(new) /\ UNCHANGED <<got, history, crashes>>
  <2>1. /\ mem' = mem /\ disk' = disk /\ attached' = FALSE /\ faults' \in 0 .. MaxFaults
        /\ UNCHANGED <<got, handed, consumed, crashes>>
    BY <1>8 DEF NotWritten, AfterFailedWrite, history, IInv, TypeOK
  <2>2. Present(mem)' = Present(mem)
    BY <2>1 DEF Present
  <2>3. TypeOK'
    BY <2>1, <1>3 DEF IInv, TypeOK
  <2> QED BY <2>1, <2>2, <2>3
          DEF IInv, NothingIsVolatile, CounterInv, KeyInv, BatchInv
<1>9. CASE DiesAfter(new)
  <2>1. /\ mem' = new /\ disk' = new /\ attached' = TRUE /\ got' = [d \in Callers |-> {}]
        /\ crashes' \in 0 .. MaxCrashes /\ UNCHANGED <<handed, consumed, faults>>
    BY <1>9 DEF DiesAfter, IInv, TypeOK
  <2>2. Present(mem)' = Present(new)
    BY <2>1 DEF Present
  <2>3. TypeOK'
    BY <2>1, <1>2, <1>3 DEF IInv, TypeOK, GenFacts
  <2>4. CounterInv'
    <3>1. \A id \in consumed : id \in Nat /\ id < mem.nextPreKeyID
      BY <1>4 DEF IInv, TypeOK, CounterInv
    <3>2. \A id \in IDs : handed[id] # {} => id \in Nat /\ id < mem.nextPreKeyID
      BY <1>4 DEF IInv, CounterInv
    <3>3. \A id \in Present(mem)' \cup consumed' : id < mem'.nextPreKeyID
      BY <3>1, <2>1, <2>2, <1>4, <1>5, <1>grows
    <3>4. \A id \in IDs : handed'[id] # {} => id < mem'.nextPreKeyID
      <4>1. handed' = handed /\ mem' = new
        BY <2>1
      <4> QED BY <3>2, <4>1, <1>4, <1>grows
    <3>5. \A d \in Callers : got'[d] = {}
      BY <2>1
    <3> QED BY <3>3, <3>4, <3>5 DEF CounterInv
  <2>5. KeyInv'
    <3>1. \A id \in consumed : id < mem.nextPreKeyID /\ id \notin Present(mem) /\ id \in Nat
      BY <1>4 DEF IInv, CounterInv, KeyInv, TypeOK
    <3>2. \A id \in consumed' : id \notin Present(mem)'
      BY <3>1, <2>1, <2>2, <1>4, <1>6
    <3>3. \A id \in IDs \ consumed : \A key \in handed[id] : new.preKeys[id] = key
      BY <1>2 DEF IInv, CounterInv, KeyInv, GenFacts
    <3> QED BY <3>2, <3>3, <2>1 DEF IInv, KeyInv
  <2>6. BatchInv'
    BY <2>1, <1>2 DEF IInv, BatchInv, GenFacts
  <2> QED BY <2>1, <2>3, <2>4, <2>5, <2>6 DEF IInv, NothingIsVolatile
<1> QED BY <1>1, <1>7, <1>8, <1>9

LEMMA MarkKeeps ==
  ASSUME IInv, NEW c \in Callers, MarkPreKeysAsUploaded(c)
  PROVE  IInv'
<1> DEFINE last == CHOOSE id \in got[c] : \A j \in got[c] : j <= id
           marked == mem.uploaded \cup {id \in Present(mem) : id <= last}
           new == [mem EXCEPT !.uploaded = marked]
<1>1. mem \in State /\ got[c] \in SUBSET IDs /\ got[c] # {}
  BY DEF IInv, TypeOK, MarkPreKeysAsUploaded
<1>2. last \in got[c]
  BY <1>1, LastFacts
<1>3. \A id \in marked : handed[id] # {}
  BY <1>2 DEF IInv, BatchInv
<1>4. marked \subseteq IDs
  BY <1>1 DEF State, Present
<1>5. Mutate(new)
  BY DEF MarkPreKeysAsUploaded
<1> HIDE DEF marked
<1>6. new \in State /\ new.preKeys = mem.preKeys /\ new.nextPreKeyID = mem.nextPreKeyID
      /\ new.uploaded = marked
  BY <1>1, <1>4 DEF State
<1> HIDE DEF new
<1>7. /\ mem' \in {mem, new} /\ disk' = mem' /\ mem' \in State
      /\ attached' \in BOOLEAN /\ faults' \in 0 .. MaxFaults
  BY <1>5, <1>6, MutateFacts DEF IInv
<1>8. \A id \in mem'.uploaded : handed[id] # {}
  BY <1>3, <1>6, <1>7 DEF IInv, BatchInv
<1> QED BY <1>6, <1>7, <1>8, SameKeysKeep DEF MarkPreKeysAsUploaded

LEMMA PeersKeep ==
  ASSUME IInv, NEW P \in SUBSET Users, Mutate([mem EXCEPT !.peers = P]),
         UNCHANGED <<got, generated, history, crashes>>
  PROVE  IInv'
<1> DEFINE new == [mem EXCEPT !.peers = P]
<1>1. new \in State /\ new.preKeys = mem.preKeys /\ new.nextPreKeyID = mem.nextPreKeyID
      /\ new.uploaded = mem.uploaded
  BY DEF IInv, TypeOK, State
<1> HIDE DEF new
<1>2. /\ mem' \in {mem, new} /\ disk' = mem' /\ mem' \in State
      /\ attached' \in BOOLEAN /\ faults' \in 0 .. MaxFaults
  BY <1>1, MutateFacts DEF IInv, new
<1>3. \A id \in mem'.uploaded : handed[id] # {}
  BY <1>1, <1>2 DEF IInv, BatchInv
<1> QED BY <1>1, <1>2, <1>3, SameKeysKeep

\* Keys removed for good: RemovePreKey and DeleteDevice.
LEMMA RemovalKeeps ==
  ASSUME IInv, NEW new \in State, NEW R \in SUBSET IDs,
         new.nextPreKeyID = mem.nextPreKeyID, R \subseteq Present(mem),
         \A id \in IDs : new.preKeys[id] = IF id \in R THEN None ELSE mem.preKeys[id],
         new.uploaded \subseteq mem.uploaded,
         \/ Written(new) /\ consumed' = consumed \cup R
         \/ NotWritten(new) /\ UNCHANGED consumed,
         UNCHANGED <<got, generated, handed, crashes>>
  PROVE  IInv'
<1>1. Mutate(new)
  BY DEF Mutate
<1>2. /\ mem' \in {mem, new} /\ disk' = mem' /\ mem' \in State
      /\ attached' \in BOOLEAN /\ faults' \in 0 .. MaxFaults
  BY <1>1, MutateFacts DEF IInv
<1>3. Present(new) = Present(mem) \ R
  BY DEF Present
<1>4. TypeOK'
  BY <1>2 DEF IInv, TypeOK
<1>5. CASE Written(new) /\ consumed' = consumed \cup R
  <2>1. mem' = new
    BY <1>5 DEF Written
  <2>2. Present(mem)' = Present(mem) \ R
    BY <2>1, <1>3 DEF Present
  <2>3. CounterInv'
    BY <2>1, <2>2, <1>5 DEF IInv, CounterInv
  <2>4. KeyInv'
    BY <2>1, <2>2, <1>5 DEF IInv, KeyInv
  <2>5. BatchInv'
    BY <2>1, <2>2 DEF IInv, BatchInv
  <2> QED BY <1>2, <1>4, <2>3, <2>4, <2>5 DEF IInv, NothingIsVolatile
<1>6. CASE NotWritten(new) /\ UNCHANGED consumed
  <2>1. mem' = mem /\ Present(mem)' = Present(mem)
    BY <1>6 DEF NotWritten, AfterFailedWrite, Present
  <2> QED BY <1>2, <1>4, <1>6, <2>1
          DEF IInv, NothingIsVolatile, CounterInv, KeyInv, BatchInv
<1> QED BY <1>5, <1>6

LEMMA RemoveKeeps == ASSUME IInv, NEW id \in IDs, RemovePreKey(id) PROVE IInv'
<1> DEFINE new == [mem EXCEPT !.preKeys[id] = None, !.uploaded = @ \ {id}]
<1>1. mem \in State
  BY DEF IInv, TypeOK
<1>2. new = [preKeys |-> [mem.preKeys EXCEPT ![id] = None], uploaded |-> mem.uploaded \ {id},
             nextPreKeyID |-> mem.nextPreKeyID, peers |-> mem.peers]
  <2> DEFINE fewer == [mem.preKeys EXCEPT ![id] = None]
             rest == mem.uploaded \ {id}
             s == [mem EXCEPT !.preKeys = fewer]
  <2>1. s = [preKeys |-> fewer, uploaded |-> mem.uploaded,
             nextPreKeyID |-> mem.nextPreKeyID, peers |-> mem.peers]
    <3> HIDE DEF fewer
    <3> QED BY <1>1 DEF State
  <2>2. new = [s EXCEPT !.uploaded = rest]
    <3>1. s.uploaded = mem.uploaded
      BY <2>1
    <3> QED BY <3>1, Zenon
  <2> HIDE DEF s, rest, fewer, new
  <2>3. [s EXCEPT !.uploaded = rest] = [preKeys |-> fewer, uploaded |-> rest,
             nextPreKeyID |-> mem.nextPreKeyID, peers |-> mem.peers]
    BY <2>1
  <2> QED BY <2>2, <2>3, Zenon DEF rest, fewer
<1>3. /\ \/ Written(new) /\ consumed' = consumed \cup {id}
         \/ NotWritten(new) /\ UNCHANGED consumed
      /\ UNCHANGED <<got, generated, handed, crashes>>
      /\ id \in Present(mem)
  BY DEF RemovePreKey
<1> HIDE DEF new
<1>4. new \in State
  BY <1>1, <1>2 DEF State, None
<1>5. \A i \in IDs : new.preKeys[i] = IF i \in {id} THEN None ELSE mem.preKeys[i]
  BY <1>1, <1>2 DEF State
<1>6. {id} \in SUBSET IDs /\ {id} \subseteq Present(mem)
  BY <1>3
<1>7. new.nextPreKeyID = mem.nextPreKeyID /\ new.uploaded \subseteq mem.uploaded
  BY <1>2
<1> QED BY <1>3, <1>4, <1>5, <1>6, <1>7, RemovalKeeps

LEMMA DeleteDeviceKeeps == ASSUME IInv, DeleteDevice PROVE IInv'
<1> DEFINE new == [mem EXCEPT !.preKeys = [id \in IDs |-> None], !.uploaded = {}, !.peers = {}]
<1>1. mem \in State
  BY DEF IInv, TypeOK
<1>2. new = [preKeys |-> [id \in IDs |-> None], uploaded |-> {},
             nextPreKeyID |-> mem.nextPreKeyID, peers |-> {}]
  <2> DEFINE noKeys == [id \in IDs |-> None]
             s == [mem EXCEPT !.preKeys = noKeys]
             t == [s EXCEPT !.uploaded = {}]
  <2> HIDE DEF noKeys
  <2>1. s = [preKeys |-> noKeys, uploaded |-> mem.uploaded,
             nextPreKeyID |-> mem.nextPreKeyID, peers |-> mem.peers]
    BY <1>1 DEF State
  <2> HIDE DEF s
  <2>2. t = [preKeys |-> noKeys, uploaded |-> {},
             nextPreKeyID |-> mem.nextPreKeyID, peers |-> mem.peers]
    BY <2>1
  <2> HIDE DEF t
  <2>3. [t EXCEPT !.peers = {}] = [preKeys |-> noKeys, uploaded |-> {},
                                   nextPreKeyID |-> mem.nextPreKeyID, peers |-> {}]
    BY <2>2
  <2> QED BY <2>3, Zenon DEF s, t, noKeys
<1>3. /\ \/ Written(new) /\ consumed' = consumed \cup Present(mem)
         \/ NotWritten(new) /\ UNCHANGED consumed
      /\ UNCHANGED <<got, generated, handed, crashes>>
  BY DEF DeleteDevice
<1> HIDE DEF new
<1>4. new \in State
  BY <1>1, <1>2 DEF State, None
<1>5. \A i \in IDs : new.preKeys[i] = IF i \in Present(mem) THEN None ELSE mem.preKeys[i]
  BY <1>2 DEF Present
<1>6. Present(mem) \in SUBSET IDs
  BY DEF Present
<1> QED BY <1>2, <1>3, <1>4, <1>5, <1>6, RemovalKeeps

LEMMA CrashKeeps == ASSUME IInv, Crash PROVE IInv'
<1>1. /\ mem' = mem /\ disk' = mem /\ attached' = TRUE /\ got' = [c \in Callers |-> {}]
      /\ crashes' \in 0 .. MaxCrashes /\ UNCHANGED <<handed, consumed, faults, generated>>
  BY Bounds DEF Crash, DiesAfter, IInv, NothingIsVolatile, TypeOK
<1>2. Present(mem)' = Present(mem)
  BY <1>1 DEF Present
<1>3. TypeOK'
  BY <1>1 DEF IInv, TypeOK
<1> QED BY <1>1, <1>2, <1>3 DEF IInv, NothingIsVolatile, CounterInv, KeyInv, BatchInv

LEMMA NextIInv == IInv /\ [Next]_vars => IInv'
<1> SUFFICES ASSUME IInv, [Next]_vars PROVE IInv'
  OBVIOUS
<1>1. ASSUME NEW c \in Callers, NEW n \in 1 .. MaxCount, GetOrGenPreKeys(c, n) PROVE IInv'
  BY <1>1, GetKeeps
<1>2. ASSUME NEW c \in Callers, MarkPreKeysAsUploaded(c) PROVE IInv'
  BY <1>2, MarkKeeps
<1>3. ASSUME NEW id \in IDs, RemovePreKey(id) PROVE IInv'
  BY <1>3, RemoveKeeps
<1>peers. mem.peers \in SUBSET Users
  BY DEF IInv, TypeOK, State
<1>4. ASSUME NEW u \in Users, PutPeer(u) PROVE IInv'
  <2>1. mem.peers \cup {u} \in SUBSET Users
    BY <1>peers
  <2> QED BY <1>4, <2>1, PeersKeep DEF PutPeer
<1>5. ASSUME NEW u \in Users, DeletePeer(u) PROVE IInv'
  <2>1. mem.peers \ {u} \in SUBSET Users
    BY <1>peers
  <2> QED BY <1>5, <2>1, PeersKeep DEF DeletePeer
<1>6. ASSUME NEW pn \in Users, NEW lid \in Users, MigratePNToLID(pn, lid) PROVE IInv'
  <2> DEFINE P == IF pn \in mem.peers THEN (mem.peers \ {pn}) \cup {lid} ELSE mem.peers
  <2>1. P \in SUBSET Users
    BY <1>peers
  <2> QED BY <1>6, <2>1, PeersKeep DEF MigratePNToLID
<1>7. CASE DeleteDevice
  BY <1>7, DeleteDeviceKeeps
<1>8. CASE Crash
  BY <1>8, CrashKeeps
<1>9. CASE UNCHANGED vars
  <2>1. Present(mem)' = Present(mem)
    BY <1>9 DEF vars, Present
  <2> QED BY <1>9, <2>1
          DEF vars, history, IInv, TypeOK, NothingIsVolatile, CounterInv, KeyInv, BatchInv
<1> QED BY <1>1, <1>2, <1>3, <1>4, <1>5, <1>6, <1>7, <1>8, <1>9 DEF Next

-----------------------------------------------------------------------------
(* The theorems *)

\* Every state of the store and of the callers has its type, the invariant holds throughout.
THEOREM Invariance == Spec => []IInv
BY InitIInv, NextIInv, PTL DEF Spec

\* Counter, keys and uploaded set stay within their types, in memory and on disk.
THEOREM DeviceStoreTypes == Spec => []TypeOK
<1>1. IInv => TypeOK
  BY DEF IInv
<1> QED BY <1>1, Invariance, PTL

\* mutate and persistLocked: what memory holds is what the next process will load, whichever
\* writes fail and wherever the process dies.
THEOREM MemoryIsPersisted == Spec => []NothingIsVolatile
<1>1. IInv => NothingIsVolatile
  BY DEF IInv
<1> QED BY <1>1, Invariance, PTL

\* nextPreKeyID is kept when keys go: an ID never names a second key pair, not after removals,
\* a deleted device, a failed write, a restart or a legacy import.
THEOREM IDsAreNeverReused == Spec => []IDsNameOneKey
<1>1. IInv => IDsNameOneKey
  <2> SUFFICES ASSUME IInv, NEW id \in IDs PROVE Cardinality(handed[id]) <= 1
    BY DEF IDsNameOneKey
  <2>1. \A k1, k2 \in handed[id] : k1 = k2
    BY DEF IInv, KeyInv
  <2>2. CASE handed[id] = {}
    BY <2>2, FS_EmptySet
  <2>3. CASE handed[id] # {}
    <3>1. PICK k \in handed[id] : TRUE
      BY <2>3
    <3>2. handed[id] = {k}
      BY <2>1, <3>1
    <3>3. Cardinality({k}) = 1
      BY FS_Singleton
    <3> QED BY <3>2, <3>3
  <2> QED BY <2>2, <2>3
<1> QED BY <1>1, Invariance, PTL

\* A key pair that a caller was given is in the store until RemovePreKey or DeleteDevice.
THEOREM HandedKeysStay == Spec => []HandedKeysAreKept
<1>1. IInv => HandedKeysAreKept
  BY DEF IInv, KeyInv, HandedKeysAreKept
<1> QED BY <1>1, Invariance, PTL

\* MarkPreKeysAsUploaded marks a whole range of IDs, and never a key that nobody was given.
THEOREM UploadedWereHanded == Spec => []OnlyHandedAreUploaded
<1>1. IInv => OnlyHandedAreUploaded
  BY DEF IInv, BatchInv, OnlyHandedAreUploaded
<1> QED BY <1>1, Invariance, PTL
=============================================================================
