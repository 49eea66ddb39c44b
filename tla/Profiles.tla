------------------------------ MODULE Profiles ------------------------------
(***************************************************************************)
(* Profile management (auth/profile.go) on top of the two stores           *)
(* (storage/): a profile is an entry of the profile store and up to three  *)
(* secrets of the secret store.  Rename copies all of it to a new name and *)
(* undoes its work when a store operation fails; Remove deletes it.  Each  *)
(* operation of a store is atomic (storage/file.go, internal/fsutil) and   *)
(* may fail without an effect; a crash is a behaviour that goes no further. *)
(*                                                                         *)
(* A secret's value is named after the profile it was created for.         *)
(***************************************************************************)
EXTENDS Naturals, Sequences

CONSTANTS Names,            \* profile names
          Existing,         \* those in use at the start
          Renamers,         \* calls of Rename
          From, To,         \* per renamer: its two names, different ones
          Removers,         \* calls of Remove
          Target,           \* per remover: its profile
          MaxFaults,        \* bound: store operations that fail
          Missing           \* no such secret

Keys == {"cookies", "session", "e2ee_state"}        \* managedSecretKeys
Order == <<"cookies", "session", "e2ee_state">>
Threads == Renamers \cup Removers

ASSUME ProfilesAssumption ==
  /\ Existing \subseteq Names /\ Missing \notin Names
  /\ \A r \in Renamers : {From[r], To[r]} \subseteq Names /\ From[r] # To[r]
  /\ \A d \in Removers : Target[d] \in Names
  /\ Renamers \cap Removers = {}
  /\ MaxFaults \in Nat

VARIABLES
  metadata,      \* names in the profile store
  secrets,       \* the secret store: per name and key a value, or Missing
  pc,            \* per thread: where it is
  todo,          \* per thread: keys its loop has still to visit
  values,        \* per renamer: the secrets it read
  created,       \* per renamer: keys it has put under the new name
  deleted,       \* per renamer: keys it has deleted under the old name
  failed,        \* per remover: an error was collected
  faults,        \* store operations that failed
  had            \* history: the secret store at the start

stores == <<metadata, secrets>>
locals == <<todo, values, created, deleted, failed>>
vars == <<stores, pc, locals, faults, had>>

Goto(t, label) == pc' = [pc EXCEPT ![t] = label]
Fails == faults < MaxFaults /\ faults' = faults + 1
Works == UNCHANGED faults

\* The key of S a loop over managedSecretKeys comes to first.
First(S) == LET i == CHOOSE i \in DOMAIN Order :
                       Order[i] \in S /\ \A j \in 1 .. i - 1 : Order[j] \notin S
            IN Order[i]
Visit(t, k) == todo' = [todo EXCEPT ![t] = @ \ {k}]
Present(f) == {k \in Keys : f[k] # Missing}

\* A secret's slot is its profile and its key (secretKey).
SetSecret(n, k, v) == secrets' = [secrets EXCEPT ![n][k] = v]

(* Decisions of the code, each with a plausible slip (Bug...).               *)

\* Rename refuses a destination that holds a secret already.
Occupied(r, k) == secrets[To[r]][k] # Missing

\* When a secret cannot be copied, the new profile is removed again.
Created(r) == created[r]

\* When a secret cannot be deleted, those deleted before it are put back.
BugForgetDeleted(r) == {}
Deleted(r) == deleted[r]

\* Remove keeps the profile when one of its secrets could not be deleted.
BugRemoveAnyway(d) == FALSE
LogoutFailed(d) == failed[d]

\* Profiles.Delete reports a name that is not there, which ends a second rename.
BugDeleteIgnored(r) == TRUE
StillThere(r) == From[r] \in metadata

Init ==
  /\ metadata = Existing
  /\ \E held \in [Existing -> SUBSET Keys] :
       secrets = [n \in Names |-> [k \in Keys |->
                    IF n \in Existing /\ k \in held[n] THEN n ELSE Missing]]
  /\ pc = [t \in Threads |-> "new"]
  /\ todo = [t \in Threads |-> {}]
  /\ values = [r \in Renamers |-> [k \in Keys |-> Missing]]
  /\ created = [r \in Renamers |-> {}] /\ deleted = [r \in Renamers |-> {}]
  /\ failed = [d \in Removers |-> FALSE]
  /\ faults = 0 /\ had = secrets

-----------------------------------------------------------------------------
(* Rename *)

\* The new name must be free, the old one in use.
RenameCheckNew(r) ==
  /\ pc[r] = "new"
  /\ \/ To[r] \notin metadata /\ Works /\ Goto(r, "source")
     \/ To[r] \in metadata /\ Works /\ Goto(r, "refused")
     \/ Fails /\ Goto(r, "refused")
  /\ UNCHANGED <<stores, locals, had>>

RenameCheckOld(r) ==
  /\ pc[r] = "source"
  /\ \/ From[r] \in metadata /\ Works /\ Goto(r, "probe") /\ todo' = [todo EXCEPT ![r] = Keys]
     \/ From[r] \notin metadata /\ Works /\ Goto(r, "refused") /\ UNCHANGED todo
     \/ Fails /\ Goto(r, "refused") /\ UNCHANGED todo
  /\ UNCHANGED <<stores, values, created, deleted, failed, had>>

\* Per key: nothing may be under the new name; then what is under the old one is read.
RenameProbe(r) ==
  /\ pc[r] = "probe" /\ todo[r] # {}
  /\ \/ Works /\ ~Occupied(r, First(todo[r])) /\ Goto(r, "read")
     \/ /\ (Works /\ Occupied(r, First(todo[r]))) \/ Fails
        /\ Goto(r, "refused")
  /\ UNCHANGED <<stores, locals, had>>

RenameRead(r) ==
  /\ pc[r] = "read" /\ todo[r] # {}
  /\ LET k == First(todo[r])
     IN \/ /\ Works /\ Visit(r, k)
           /\ values' = [values EXCEPT ![r][k] = secrets[From[r]][k]]
           /\ Goto(r, IF todo'[r] = {} THEN "put" ELSE "probe")
        \/ Fails /\ Goto(r, "refused") /\ UNCHANGED <<todo, values>>
  /\ UNCHANGED <<stores, created, deleted, failed, had>>

RenamePut(r) ==
  /\ pc[r] = "put"
  /\ \/ Works /\ metadata' = metadata \cup {To[r]} /\ Goto(r, "copy")
        /\ todo' = [todo EXCEPT ![r] = Present(values[r])]
     \/ Fails /\ Goto(r, "refused") /\ UNCHANGED <<metadata, todo>>
  /\ UNCHANGED <<secrets, values, created, deleted, failed, had>>

\* rollbackNew, and the end of the other rollback: what was created goes again.
UndoNew(r) ==
  /\ Goto(r, "undo")
  /\ todo' = [todo EXCEPT ![r] = Created(r)]

RenameCopy(r) ==
  /\ pc[r] = "copy" /\ todo[r] # {}
  /\ LET k == First(todo[r])
     IN \/ /\ Works /\ SetSecret(To[r], k, values[r][k]) /\ Visit(r, k)
           /\ created' = [created EXCEPT ![r] = @ \cup {k}] /\ UNCHANGED pc
        \/ Fails /\ UndoNew(r) /\ UNCHANGED <<secrets, created>>
  /\ UNCHANGED <<metadata, values, deleted, failed, had>>

RenameDeleteOld(r) ==
  /\ pc[r] = "copy" /\ todo[r] = {}
  /\ \/ /\ Works /\ StillThere(r) /\ metadata' = metadata \ {From[r]}
        /\ Goto(r, "delete") /\ todo' = [todo EXCEPT ![r] = Present(values[r])]
     \/ /\ (Works /\ ~StillThere(r)) \/ Fails
        /\ UndoNew(r) /\ UNCHANGED metadata
  /\ UNCHANGED <<secrets, values, created, deleted, failed, had>>

\* A secret that is gone meanwhile is an error, too.
RenameDelete(r) ==
  /\ pc[r] = "delete" /\ todo[r] # {}
  /\ LET k == First(todo[r])
     IN \/ /\ Works /\ secrets[From[r]][k] # Missing
           /\ SetSecret(From[r], k, Missing) /\ Visit(r, k)
           /\ deleted' = [deleted EXCEPT ![r] = @ \cup {k}] /\ UNCHANGED pc
        \/ /\ (Works /\ secrets[From[r]][k] = Missing) \/ Fails
           /\ Goto(r, "restore profile") /\ UNCHANGED <<secrets, todo, deleted>>
  /\ UNCHANGED <<metadata, values, created, failed, had>>

RenameDone(r) ==
  /\ pc[r] = "delete" /\ todo[r] = {}
  /\ Goto(r, "renamed")
  /\ UNCHANGED <<stores, locals, faults, had>>

\* The rollback goes on after a failing step of its own.
RestoreProfile(r) ==
  /\ pc[r] = "restore profile"
  /\ \/ Works /\ metadata' = metadata \cup {From[r]}
     \/ Fails /\ UNCHANGED metadata
  /\ Goto(r, "restore")
  /\ todo' = [todo EXCEPT ![r] = Deleted(r)]
  /\ UNCHANGED <<secrets, values, created, deleted, failed, had>>

RestoreSecret(r) ==
  /\ pc[r] = "restore" /\ todo[r] # {}
  /\ LET k == First(todo[r])
     IN /\ Visit(r, k)
        /\ \/ Works /\ SetSecret(From[r], k, values[r][k])
           \/ Fails /\ UNCHANGED secrets
  /\ UNCHANGED <<metadata, pc, values, created, deleted, failed, had>>

RestoreDone(r) ==
  /\ pc[r] = "restore" /\ todo[r] = {}
  /\ UndoNew(r)
  /\ UNCHANGED <<stores, values, created, deleted, failed, faults, had>>

UndoSecret(r) ==
  /\ pc[r] = "undo" /\ todo[r] # {}
  /\ LET k == First(todo[r])
     IN /\ Visit(r, k)
        /\ \/ Works /\ SetSecret(To[r], k, Missing)
           \/ Fails /\ UNCHANGED secrets
  /\ UNCHANGED <<metadata, pc, values, created, deleted, failed, had>>

UndoProfile(r) ==
  /\ pc[r] = "undo" /\ todo[r] = {}
  /\ \/ Works /\ metadata' = metadata \ {To[r]}
     \/ Fails /\ UNCHANGED metadata
  /\ Goto(r, "failed")
  /\ UNCHANGED <<secrets, locals, had>>

Rename(r) ==
  \/ RenameCheckNew(r) \/ RenameCheckOld(r) \/ RenameProbe(r) \/ RenameRead(r)
  \/ RenamePut(r) \/ RenameCopy(r) \/ RenameDeleteOld(r) \/ RenameDelete(r) \/ RenameDone(r)
  \/ RestoreProfile(r) \/ RestoreSecret(r) \/ RestoreDone(r)
  \/ UndoSecret(r) \/ UndoProfile(r)

-----------------------------------------------------------------------------
(* Remove: Logout of everything, then the profile *)

RemoveBegin(d) ==
  /\ pc[d] = "new"
  /\ Goto(d, "logout")
  /\ todo' = [todo EXCEPT ![d] = Keys]
  /\ UNCHANGED <<stores, values, created, deleted, failed, faults, had>>

\* Logout collects the errors and goes on.
LogoutKey(d) ==
  /\ pc[d] = "logout" /\ todo[d] # {}
  /\ LET k == First(todo[d])
     IN /\ Visit(d, k)
        /\ \/ Works /\ SetSecret(Target[d], k, Missing) /\ UNCHANGED failed
           \/ Fails /\ failed' = [failed EXCEPT ![d] = TRUE] /\ UNCHANGED secrets
  /\ UNCHANGED <<metadata, pc, values, created, deleted, had>>

RemoveProfile(d) ==
  /\ pc[d] = "logout" /\ todo[d] = {}
  /\ \/ Works /\ ~LogoutFailed(d) /\ metadata' = metadata \ {Target[d]}
     \/ Works /\ LogoutFailed(d) /\ UNCHANGED metadata
     \/ Fails /\ ~LogoutFailed(d) /\ UNCHANGED metadata
  /\ Goto(d, "end")
  /\ UNCHANGED <<secrets, locals, had>>

Remove(d) == RemoveBegin(d) \/ LogoutKey(d) \/ RemoveProfile(d)

-----------------------------------------------------------------------------
Next ==
  \/ \E r \in Renamers : Rename(r)
  \/ \E d \in Removers : Remove(d)

Spec == Init /\ [][Next]_vars

-----------------------------------------------------------------------------
(* Properties *)

Secret == Names \cup {Missing}

TypeOK ==
  /\ metadata \subseteq Names /\ secrets \in [Names -> [Keys -> Secret]]
  /\ DOMAIN pc = Threads /\ todo \in [Threads -> SUBSET Keys]
  /\ values \in [Renamers -> [Keys -> Secret]]
  /\ \A r \in Renamers : created[r] \subseteq Keys /\ deleted[r] \subseteq created[r]
  /\ failed \in [Removers -> BOOLEAN] /\ faults \in 0 .. MaxFaults

Removed == {Target[d] : d \in {d \in Removers : pc[d] # "new"}}

\* No secret is lost, at any moment and so also by a crash: what a profile held is
\* still somewhere, unless Remove was called for it.
NothingLost ==
  \A n \in Existing \ Removed : \A k \in Present(had[n]) :
    \E m \in Names : secrets[m][k] = n

\* Names a profile may be found under: those of other profiles are refused.
Homes(n) == {n} \cup {To[r] : r \in {r \in Renamers : From[r] = n /\ To[r] \notin Existing}}

\* No call is under way, and the rollback of a rename that lost a race to another one
\* was not itself hit by a failing operation.
Worked == {r \in Renamers : pc[r] \in {"renamed", "failed"}}
Settled ==
  /\ \A t \in Threads : pc[t] \in {"new", "renamed", "refused", "failed", "end"}
  /\ faults = 0 \/ \A r, q \in Worked : r = q

\* docs/authentication.md: renaming is transactional across metadata and secrets.
\* Afterwards every profile is under exactly one of its names, all of it.
OneHome ==
  Settled => \A n \in Existing \ Removed :
    \E m \in Homes(n) : /\ metadata \cap Homes(n) = {m}
                        /\ \A k \in Keys : secrets[m][k] = had[n][k]
                        /\ \A h \in Homes(n) \ {m}, k \in Keys : secrets[h][k] = Missing

\* No secret without a profile that owns it is left behind by Rename or Remove.
NoOrphans ==
  Settled => \A n \in Names \ metadata, k \in Keys : secrets[n][k] = Missing
=============================================================================
