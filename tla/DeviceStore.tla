---------------------------- MODULE DeviceStore ----------------------------
(***************************************************************************)
(* The E2EE device store (internal/meta/device_store.go, device_state.go): *)
(* the state lives in memory, and every operation that changes it writes a *)
(* complete snapshot to the profile's secret store before it returns, or   *)
(* restores what was there before when the write fails.  whatsmeow calls   *)
(* it from several goroutines; the store's mutex makes each operation one  *)
(* step.  A crash loses the memory and what the callers know; the next     *)
(* process loads the snapshot.                                             *)
(*                                                                         *)
(* One-time pre-keys are modelled one by one: a key pair is a number that  *)
(* is never used twice.  "peers" stands for the other three maps of the    *)
(* state (identities, sessions, sender keys), as the set of users they     *)
(* have entries for.                                                       *)
(***************************************************************************)
EXTENDS Naturals, FiniteSets

CONSTANTS Callers,      \* goroutines that ask for pre-keys
          Users,        \* whose sessions and identities are stored
          MaxID,        \* bound: pre-key IDs
          MaxCount,     \* bound: pre-keys asked for at once
          MaxFaults,    \* bound: writes of the snapshot that fail
          MaxCrashes    \* bound

ASSUME DeviceStoreAssumption ==
  {MaxID, MaxCount, MaxFaults, MaxCrashes} \subseteq Nat /\ MaxID > 0

IDs == 1 .. MaxID
None == 0               \* no key under this ID

VARIABLES
  mem,          \* the store: preKeys, uploaded, nextPreKeyID and peers
  disk,         \* the snapshot in the secret store
  attached,     \* the device whatsmeow holds is the one the store holds
  got,          \* per caller: the IDs of the pre-keys it was given last
  generated,    \* key pairs generated so far
  handed,       \* history: per ID, the key pairs ever returned to a caller
  consumed,     \* history: IDs of keys removed, by RemovePreKey, DeleteDevice or before
  faults, crashes

history == <<handed, consumed>>
vars == <<mem, disk, attached, got, generated, history, faults, crashes>>

Present(s) == {id \in IDs : s.preKeys[id] # None}

(* Decisions of the code, each with a plausible slip (Bug...).               *)

\* persistLocked restores the state before the operation when the write fails.
BugKeepChange(old, new) == new
AfterFailedWrite(old, new) == old

\* Only keys that were not uploaded are offered again ...
Offered(s) == Present(s) \ s.uploaded

\* ... the smallest IDs first (sort.Slice).
BugAnyOrder(S, n) == {T \in SUBSET S : Cardinality(T) = n}
Smallest(S, n) == {T \in SUBSET S : Cardinality(T) = n /\ \A i \in T, j \in S \ T : i < j}

\* A generated key takes the next ID, which is kept when keys are removed.
BugFirstGap(s) == CHOOSE id \in 1 .. MaxID + 1 :
                    /\ id \notin Present(s)
                    /\ \A j \in 1 .. id - 1 : j \in Present(s)
NextID(s) == s.nextPreKeyID

\* legacyDeviceState never lets the counter fall behind the keys it imports.
BugTrustCounter(keys, n) == n
Bumped(keys, n) == CHOOSE m \in 1 .. MaxID + 1 :
                     /\ m >= n /\ \A id \in keys : id < m
                     /\ m \in {1, n} \cup {id + 1 : id \in keys}

\* A new device, a snapshot of an earlier process, or a legacy state that may lack the
\* list of uploaded keys (then all are) or the counter.  The list is copied as it is, and
\* may name keys that were consumed before.  Their IDs are below the counter: the import
\* itself raises it past the keys alone, and would give an ID that only the list has
\* passed a second key.
NewState(keys, uploaded, next) ==
  [preKeys |-> [id \in IDs |-> IF id \in keys THEN id ELSE None],
   uploaded |-> uploaded, nextPreKeyID |-> next, peers |-> {}]

Init ==
  /\ \E keys \in SUBSET (IDs \ {MaxID}), n \in 0 .. 2 :
       \E uploaded \in SUBSET IDs :
         /\ \A id \in uploaded \ keys : id < Bumped(keys, n)
         /\ mem = NewState(keys, uploaded, Bumped(keys, n))
  /\ disk = mem
  /\ attached = TRUE
  /\ got = [c \in Callers |-> {}]
  /\ generated = MaxID
  /\ handed = [id \in IDs |-> IF id \in mem.uploaded THEN {id} ELSE {}]
  /\ consumed = mem.uploaded \ Present(mem)
  /\ faults = 0 /\ crashes = 0

-----------------------------------------------------------------------------
(* mutate and persistLocked: with the outcome new, the operation returns nil; when the *)
(* write fails it returns an error, and restoreLocked makes a new store.Device.         *)

Written(new) ==
  /\ mem' = new /\ disk' = new
  /\ UNCHANGED <<attached, faults>>

NotWritten(new) ==
  /\ faults < MaxFaults /\ faults' = faults + 1
  /\ mem' = AfterFailedWrite(mem, new)
  /\ attached' = FALSE
  /\ UNCHANGED disk

Mutate(new) == Written(new) \/ NotWritten(new)

\* The process dies after the write, before the operation returns.
DiesAfter(new) ==
  /\ crashes < MaxCrashes /\ crashes' = crashes + 1
  /\ disk' = new /\ mem' = new                  \* LoadDeviceStore
  /\ attached' = TRUE
  /\ got' = [c \in Callers |-> {}]
  /\ UNCHANGED <<handed, consumed, faults>>

Crash == DiesAfter(disk) /\ UNCHANGED generated

-----------------------------------------------------------------------------
(* GetOrGenPreKeys: the first n keys that are not uploaded, and as many new ones as are *)
(* missing.                                                                              *)

AfterGen(n) ==
  LET missing == n - Cardinality(Offered(mem))
      first == NextID(mem)
  IN [mem EXCEPT !.preKeys = [id \in IDs |-> IF id \in first .. (first + missing - 1)
                                             THEN generated + 1 + (id - first) ELSE @[id]],
                 !.nextPreKeyID = first + missing]

GetOrGenPreKeys(c, n) ==
  LET enough == n <= Cardinality(Offered(mem))
      new == IF enough THEN mem ELSE AfterGen(n)
      ids == IF enough THEN Smallest(Offered(mem), n)
             ELSE {Offered(mem) \cup (NextID(mem) .. new.nextPreKeyID - 1)}
  IN /\ new.nextPreKeyID <= MaxID + 1
     /\ generated' = generated + (new.nextPreKeyID - mem.nextPreKeyID)
     /\ \/ /\ Written(new)
           /\ \E S \in ids :
                /\ got' = [got EXCEPT ![c] = S]
                /\ handed' = [id \in IDs |-> IF id \in S THEN handed[id] \cup {new.preKeys[id]}
                                             ELSE handed[id]]
           /\ UNCHANGED <<consumed, crashes>>
        \/ NotWritten(new) /\ UNCHANGED <<got, history, crashes>>
        \/ DiesAfter(new)

\* MarkPreKeysAsUploaded(the last ID a caller was given): GenOnePreKey calls it at once,
\* whatsmeow after an upload.
MarkPreKeysAsUploaded(c) ==
  /\ got[c] # {}
  /\ LET last == CHOOSE id \in got[c] : \A j \in got[c] : j <= id
     IN Mutate([mem EXCEPT !.uploaded = @ \cup {id \in Present(mem) : id <= last}])
  /\ got' = [got EXCEPT ![c] = {}]
  /\ UNCHANGED <<generated, history, crashes>>

\* A message that used the key has been decrypted.
RemovePreKey(id) ==
  /\ handed[id] # {} /\ id \in Present(mem)
  /\ LET new == [mem EXCEPT !.preKeys[id] = None, !.uploaded = @ \ {id}]
     IN \/ Written(new) /\ consumed' = consumed \cup {id}
        \/ NotWritten(new) /\ UNCHANGED consumed
  /\ UNCHANGED <<got, generated, handed, crashes>>

-----------------------------------------------------------------------------
(* The other maps *)

\* PutIdentity, PutSession, PutManySessions and PutSenderKey for user u.
PutPeer(u) ==
  /\ Mutate([mem EXCEPT !.peers = @ \cup {u}])
  /\ UNCHANGED <<got, generated, history, crashes>>

\* DeleteIdentity, DeleteAllIdentities, DeleteSession and DeleteAllSessions.
DeletePeer(u) ==
  /\ Mutate([mem EXCEPT !.peers = @ \ {u}])
  /\ UNCHANGED <<got, generated, history, crashes>>

MigratePNToLID(pn, lid) ==
  /\ pn # lid
  /\ Mutate([mem EXCEPT !.peers = IF pn \in @ THEN (@ \ {pn}) \cup {lid} ELSE @])
  /\ UNCHANGED <<got, generated, history, crashes>>

\* PutDevice writes the snapshot once more and changes nothing here.  DeleteDevice is refused
\* when a rollback has replaced the device whatsmeow holds.
DeleteDevice ==
  /\ attached
  /\ LET new == [mem EXCEPT !.preKeys = [id \in IDs |-> None], !.uploaded = {}, !.peers = {}]
     IN \/ Written(new) /\ consumed' = consumed \cup Present(mem)
        \/ NotWritten(new) /\ UNCHANGED consumed
  /\ UNCHANGED <<got, generated, handed, crashes>>

Next ==
  \/ \E c \in Callers, n \in 1 .. MaxCount : GetOrGenPreKeys(c, n)
  \/ \E c \in Callers : MarkPreKeysAsUploaded(c)
  \/ \E id \in IDs : RemovePreKey(id)
  \/ \E u \in Users : PutPeer(u) \/ DeletePeer(u)
  \/ \E pn, lid \in Users : MigratePNToLID(pn, lid)
  \/ DeleteDevice
  \/ Crash

Spec == Init /\ [][Next]_vars

-----------------------------------------------------------------------------
(* Properties *)

State == [preKeys : [IDs -> Nat], uploaded : SUBSET IDs,
          nextPreKeyID : 1 .. MaxID + 1, peers : SUBSET Users]

TypeOK ==
  /\ mem \in State /\ disk \in State
  /\ attached \in BOOLEAN /\ got \in [Callers -> SUBSET IDs] /\ generated \in Nat
  /\ handed \in [IDs -> SUBSET Nat] /\ consumed \subseteq IDs
  /\ faults \in 0 .. MaxFaults /\ crashes \in 0 .. MaxCrashes

\* docs/e2ee.md: reusing the persisted state preserves session continuity.  What an
\* operation has made visible is what the next process will load, failed writes included.
NothingIsVolatile == mem = disk

\* An ID names one key pair for ever: what a peer was told under an ID is never replaced,
\* across failed writes, crashes, removals, a deleted device and legacy imports.
IDsNameOneKey == \A id \in IDs : Cardinality(handed[id]) <= 1

\* A key pair that was handed out is kept until a message consumed it, so that a peer
\* that uses it can be understood.
HandedKeysAreKept ==
  \A id \in IDs \ consumed : \A key \in handed[id] : mem.preKeys[id] = key

\* MarkPreKeysAsUploaded marks everything up to an ID, and still never a key that was
\* handed to nobody, whatever batches several callers were given.
OnlyHandedAreUploaded == \A id \in mem.uploaded : handed[id] # {}
=============================================================================
