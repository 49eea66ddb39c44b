---------------------------- MODULE Profiles_proofs ----------------------------
(***************************************************************************)
(* No secret is lost by any number of renames and removals, a profile is      *)
(* under one of its names when its renames are over, and no secret is left    *)
(* under a name without a profile: when every rename has a target of its own  *)
(* that nobody else renames or removes, and at most one store operation       *)
(* fails.  (Two renames to one name may lose a profile, and so may two        *)
(* failing operations of one rename.)  For the last of the three, nobody may   *)
(* remove a profile that is being renamed either.                             *)
(***************************************************************************)
EXTENDS Profiles, TLAPS

Apart ==
  /\ \A r, q \in Renamers : r # q => To[r] # To[q]
  /\ \A r, q \in Renamers : To[r] # From[q]
  /\ \A r \in Renamers, d \in Removers : To[r] # Target[d]
  /\ MaxFaults <= 1

-----------------------------------------------------------------------------
(* The inductive invariant *)

Early   == {"new", "source", "probe", "read", "put", "refused"}
Undoing == {"undo", "failed"}
Later   == {"delete", "renamed", "restore profile", "restore"}
Labels  == Early \cup {"copy"} \cup Later \cup Undoing \cup {"logout", "end"}

TypeInv ==
  /\ TypeOK
  /\ created \in [Renamers -> SUBSET Keys] /\ deleted \in [Renamers -> SUBSET Keys]
  /\ pc \in [Threads -> Labels] /\ \A r \in Renamers : pc[r] \notin {"logout", "end"}

\* A name keeps the secrets it had, but for those that were deleted.
HadInv ==
  \A n \in Existing : \A k \in Keys :
    had[n][k] \in {n, Missing} /\ secrets[n][k] \in {had[n][k], Missing}

\* How far a rename has come: what it read, put and deleted.
RenameInv(r) ==
  /\ To[r] \in Existing => To[r] \in metadata /\ pc[r] \in {"new", "refused"}
  /\ From[r] \in Existing => \A k \in Keys : values[r][k] \in {had[From[r]][k], Missing}
  /\ pc[r] \in Early => created[r] = {}
  /\ pc[r] \in Early \cup {"copy"} => deleted[r] = {}
  /\ created[r] \subseteq Present(values[r])
  /\ pc[r] = "copy" => todo[r] = Present(values[r]) \ created[r]
  /\ pc[r] \in Later => created[r] = Present(values[r])
  /\ pc[r] = "delete" => todo[r] = Present(values[r]) \ deleted[r]
  /\ pc[r] = "restore" => todo[r] \subseteq deleted[r]
  /\ pc[r] \notin Undoing => \A k \in created[r] : secrets[To[r]][k] = values[r][k]

\* A rename that has the only copy of a secret, under its new name.
Carries(r, k) ==
  /\ k \in deleted[r]
  /\ \/ pc[r] \in {"delete", "renamed", "restore profile"}
     \/ pc[r] = "restore" /\ k \in todo[r]

Kept == Existing \ Removed

SafeInv ==
  \A n \in Kept : \A k \in Present(had[n]) :
    \/ secrets[n][k] = n
    \/ \E r \in Renamers : From[r] = n /\ Carries(r, k)

\* Without a failing operation a profile is moved by one rename only, and never back.
MoveInv ==
  faults = 0 =>
    \A r \in Renamers : From[r] \in Kept =>
      /\ pc[r] \notin {"restore profile", "restore"}
      /\ pc[r] \in {"delete", "renamed"} =>
           /\ From[r] \notin metadata
           /\ \A q \in Renamers : From[q] = From[r] /\ pc[q] \in {"delete", "renamed"} => q = r

IInv == TypeInv /\ HadInv /\ (\A r \in Renamers : RenameInv(r)) /\ SafeInv /\ MoveInv

\* At most one rename of n has got as far as putting a profile, or nothing has failed yet.
Quiet(n) ==
  \/ faults = 0
  \/ \A r, q \in Renamers :
       From[r] = n /\ From[q] = n /\ pc[r] \notin Early /\ pc[q] \notin Early => r = q

\* No other rename of the profile has got that far.
Alone(r) == \A q \in Renamers \ {r} : From[q] = From[r] => pc[q] \in Early

\* What r reads is what the profile held.
Clear(r) == Alone(r) \/ (faults = 0 /\ From[r] \in metadata)

\* The new name of a rename holds what the rename has put there and nothing else.
ToInv(r) ==
  /\ pc[r] \notin {"new", "source", "refused"} => From[r] \in Existing
  /\ pc[r] = "renamed" => deleted[r] = Present(values[r])
  /\ To[r] \notin Existing =>
       /\ pc[r] \in Early => To[r] \notin metadata /\ \A k \in Keys : secrets[To[r]][k] = Missing
       /\ \A k \in Keys \ created[r] : secrets[To[r]][k] = Missing
       /\ pc[r] \in Later \cup {"copy"} => To[r] \in metadata
  /\ From[r] \in Kept /\ Quiet(From[r]) =>
       /\ pc[r] = "undo" => /\ Alone(r) => faults # 0
                            /\ \A k \in Keys \ todo[r] : secrets[To[r]][k] = Missing
       /\ pc[r] = "failed" => /\ To[r] \notin metadata
                              /\ \A k \in Keys : secrets[To[r]][k] = Missing

\* The secrets a rename past the copying has taken away from the old name.
Gone(r) == IF pc[r] = "restore" THEN todo[r] ELSE deleted[r]

TakenFrom(r) ==
  /\ From[r] \in metadata <=> pc[r] = "restore"
  /\ \A k \in Keys :
       /\ values[r][k] = had[From[r]][k]
       /\ secrets[From[r]][k] = IF k \in Gone(r) THEN Missing ELSE had[From[r]][k]

ReadFrom(r) ==
  /\ pc[r] \in {"probe", "read"} => \A k \in Keys \ todo[r] : values[r][k] = had[From[r]][k]
  /\ pc[r] \in {"put", "copy"} => \A k \in Keys : values[r][k] = had[From[r]][k]

\* The old name holds all it had until a rename takes it away, and again after its undoing.
HomeInv(n) ==
  Quiet(n) =>
    /\ (\A r \in Renamers : From[r] = n => pc[r] \notin Later) =>
         n \in metadata /\ \A k \in Keys : secrets[n][k] = had[n][k]
    /\ \A r \in Renamers : From[r] = n =>
         (pc[r] \in Later => TakenFrom(r)) /\ (Clear(r) => ReadFrom(r))

\* Names that nobody renames, and names that nobody has used.
OtherInv ==
  /\ \A n \in metadata : n \in Existing \/ \E r \in Renamers : To[r] = n
  /\ \A n \in Names \ Existing, k \in Keys :
       (\A r \in Renamers : To[r] # n) => secrets[n][k] = Missing
  /\ \A n \in Existing \ metadata, k \in Keys :
       (\A r \in Renamers : From[r] # n) => secrets[n][k] = Missing
  /\ \A d \in Removers : pc[d] = "logout" /\ ~failed[d] /\ (\A r \in Renamers : From[r] # Target[d]) =>
       \A k \in Keys \ todo[d] : secrets[Target[d]][k] = Missing

PlaceInv == (\A r \in Renamers : ToInv(r)) /\ (\A n \in Kept : HomeInv(n)) /\ OtherInv

-----------------------------------------------------------------------------
(* What the elementary changes do *)

\* The loops over managedSecretKeys visit one of the keys they have left.
LEMMA FirstIsLeft ==
  ASSUME NEW S \in SUBSET Keys, S # {}
  PROVE  First(S) \in S
<1> DEFINE P(i) == Order[i] \in S /\ \A j \in 1 .. i - 1 : Order[j] \notin S
<1>1. DOMAIN Order = 1 .. 3 /\ Order[1] = "cookies" /\ Order[2] = "session" /\ Order[3] = "e2ee_state"
  BY DEF Order
<1>2. \E i \in 1 .. 3 : P(i)
  <2>1. CASE "cookies" \in S
    BY <1>1, <2>1
  <2>2. CASE "cookies" \notin S /\ "session" \in S
    <3>1. \A j \in 1 .. 2 - 1 : j = 1
      OBVIOUS
    <3> QED BY <1>1, <2>2, <3>1
  <2>3. CASE "cookies" \notin S /\ "session" \notin S
    <3>1. \A j \in 1 .. 3 - 1 : j = 1 \/ j = 2
      OBVIOUS
    <3>2. "e2ee_state" \in S
      BY <2>3 DEF Keys
    <3> QED BY <1>1, <2>3, <3>1, <3>2
  <2> QED BY <2>1, <2>2, <2>3
<1>3. P(CHOOSE i \in 1 .. 3 : P(i))
  BY <1>2
<1> QED BY <1>1, <1>3 DEF First

\* A secret is put or deleted; the others stay.
LEMMA SetFacts ==
  ASSUME secrets \in [Names -> [Keys -> Secret]], NEW n \in Names, NEW k \in Keys,
         NEW v \in Secret, SetSecret(n, k, v)
  PROVE  /\ secrets' \in [Names -> [Keys -> Secret]] /\ secrets'[n][k] = v
         /\ \A j \in Keys \ {k} : secrets'[n][j] = secrets[n][j]
         /\ \A m \in Names \ {n} : secrets'[m] = secrets[m]
BY DEF SetSecret

LEMMA GotoFacts ==
  ASSUME pc \in [Threads -> Labels], NEW t \in Threads, NEW label \in Labels, Goto(t, label)
  PROVE  /\ pc' \in [Threads -> Labels] /\ pc'[t] = label
         /\ \A u \in Threads \ {t} : pc'[u] = pc[u]
BY DEF Goto

\* A fault is one of those the bound allows.
LEMMA FaultFacts ==
  ASSUME faults \in 0 .. MaxFaults, Fails \/ Works
  PROVE  faults' \in 0 .. MaxFaults /\ faults' \in {faults, faults + 1}
BY ProfilesAssumption DEF Fails, Works

-----------------------------------------------------------------------------
(* Steps of a rename *)

\* It touches its own variables, its two names, and no secret before it copies.
Frame(r) ==
  /\ \A t \in Threads \ {r} : pc'[t] = pc[t] /\ todo'[t] = todo[t]
  /\ \A q \in Renamers \ {r} :
       values'[q] = values[q] /\ created'[q] = created[q] /\ deleted'[q] = deleted[q]
  /\ failed' = failed /\ had' = had /\ faults' \in {faults, faults + 1}
  /\ \A n \in Names \ {From[r], To[r]} : secrets'[n] = secrets[n] /\ (n \in metadata' <=> n \in metadata)
  /\ pc[r] \in Early => secrets' = secrets

\* What is left to show of a step of r.
Moved == {"delete", "renamed"}
Back  == {"restore profile", "restore"}

HadStep(r) ==
  From[r] \in Existing => \A k \in Keys : secrets'[From[r]][k] \in {had[From[r]][k], Missing}
SafeStep(r) ==
  From[r] \in Kept => \A k \in Present(had[From[r]]) :
    secrets[From[r]][k] = From[r] \/ Carries(r, k) => secrets'[From[r]][k] = From[r] \/ Carries(r, k)'
MoveStep(r) ==
  /\ faults' = 0 /\ From[r] \in Kept => pc'[r] \notin Back
  /\ pc'[r] \in Moved => pc[r] \in Moved \/ (From[r] \in metadata /\ From[r] \notin metadata')
  /\ From[r] \in metadata' => From[r] \in metadata \/ pc[r] = "restore profile"

LEMMA Distinct ==
  ASSUME NEW r \in Renamers
  PROVE  /\ r \in Threads /\ From[r] \in Names /\ To[r] \in Names /\ From[r] # To[r]
         /\ \A d \in Removers : d # r
BY ProfilesAssumption DEF Threads

LEMMA KeptStays ==
  ASSUME NEW r \in Renamers, Frame(r)
  PROVE  Kept' = Kept
<1>1. \A d \in Removers : pc'[d] = pc[d]
  BY Distinct DEF Frame, Threads
<1> QED BY <1>1 DEF Kept, Removed

LEMMA RenameKeeps ==
  ASSUME Apart, IInv, NEW r \in Renamers, Frame(r), TypeInv', RenameInv(r)',
         HadStep(r), SafeStep(r), MoveStep(r)
  PROVE  IInv' /\ Frame(r)
<1>1. /\ Kept' = Kept /\ had' = had /\ Kept \subseteq Existing /\ Existing \subseteq Names
      /\ From[r] \in Names /\ To[r] \in Names /\ From[r] # To[r]
  BY KeptStays, Distinct, ProfilesAssumption DEF Frame, Kept
<1>2. \A q \in Renamers \ {r} : /\ pc'[q] = pc[q] /\ todo'[q] = todo[q] /\ From[q] \in Names /\ To[q] \in Names
                                /\ secrets'[To[q]] = secrets[To[q]]
                                /\ To[q] \in metadata' <=> To[q] \in metadata
  BY Distinct DEF Frame, Threads, Apart
<1>3. ASSUME NEW q \in Renamers
      PROVE  RenameInv(q)'
  <2>1. CASE q = r
    BY <2>1
  <2>2. CASE q # r
    <3>1. RenameInv(q)
      BY DEF IInv
    <3> QED BY <1>1, <1>2, <2>2, <3>1 DEF RenameInv, Frame, Present
  <2> QED BY <2>1, <2>2
<1>4. HadInv'
  <2>1. SUFFICES ASSUME NEW n \in Existing, NEW k \in Keys
                 PROVE  secrets'[n][k] \in {had[n][k], Missing}
    BY <1>1 DEF IInv, HadInv
  <2>2. CASE n = From[r]
    BY <2>2 DEF HadStep
  <2>3. CASE n = To[r]
    BY <2>3 DEF IInv, HadInv, RenameInv, Frame, Early
  <2>4. CASE n \notin {From[r], To[r]}
    BY <1>1, <2>4 DEF IInv, HadInv, Frame
  <2> QED BY <2>2, <2>3, <2>4
<1>5. SafeInv'
  <2>1. SUFFICES ASSUME NEW n \in Kept, NEW k \in Present(had[n])
                 PROVE  \/ secrets'[n][k] = n
                        \/ \E q \in Renamers : From[q] = n /\ Carries(q, k)'
    BY <1>1 DEF SafeInv, Present
  <2>2. \A q \in Renamers \ {r} : Carries(q, k) => Carries(q, k)'
    BY <1>2 DEF Carries, Frame
  <2>3. CASE secrets[n][k] = n
    <3>1. CASE n = From[r]
      BY <2>1, <2>3, <3>1 DEF SafeStep
    <3>2. CASE n = To[r]
      BY <1>1, <2>3, <3>2 DEF IInv, RenameInv, Frame, Early
    <3>3. CASE n \notin {From[r], To[r]}
      BY <1>1, <2>3, <3>3 DEF Frame
    <3> QED BY <3>1, <3>2, <3>3
  <2>4. CASE secrets[n][k] # n
    <3>1. PICK q \in Renamers : From[q] = n /\ Carries(q, k)
      BY <2>1, <2>4 DEF IInv, SafeInv
    <3>2. CASE q = r
      BY <2>1, <3>1, <3>2 DEF SafeStep
    <3>3. CASE q # r
      BY <2>2, <3>1, <3>3
    <3> QED BY <3>2, <3>3
  <2> QED BY <2>3, <2>4
<1>6. MoveInv'
  <2>1. SUFFICES ASSUME faults' = 0, NEW q \in Renamers, From[q] \in Kept
                 PROVE  /\ pc'[q] \notin Back
                        /\ pc'[q] \in Moved =>
                             /\ From[q] \notin metadata'
                             /\ \A p \in Renamers : From[p] = From[q] /\ pc'[p] \in Moved => p = q
    BY <1>1 DEF MoveInv, Back, Moved
  <2>2. faults = 0
    BY <2>1, ProfilesAssumption DEF Frame, IInv, TypeInv, TypeOK
  <2>3. \A p \in Renamers : From[p] \in Kept =>
          /\ pc[p] \notin Back
          /\ pc[p] \in Moved =>
               /\ From[p] \notin metadata
               /\ \A u \in Renamers : From[u] = From[p] /\ pc[u] \in Moved => u = p
    BY <2>2 DEF IInv, MoveInv, Back, Moved
  <2>4. pc'[q] \notin Back
    BY <1>2, <2>1, <2>3 DEF MoveStep
  <2>5. ASSUME pc'[q] \in Moved
        PROVE  From[q] \notin metadata'
    <3>1. CASE q = r
      BY <2>1, <2>3, <2>5, <3>1 DEF MoveStep, Back
    <3>2. CASE q # r
      <4>1. From[q] \notin metadata /\ From[q] # To[r]
        BY <1>2, <2>1, <2>3, <2>5, <3>2 DEF Apart
      <4>2. CASE From[q] = From[r]
        BY <2>1, <2>3, <4>1, <4>2 DEF MoveStep, Back
      <4>3. CASE From[q] # From[r]
        BY <1>2, <3>2, <4>1, <4>3 DEF Frame
      <4> QED BY <4>2, <4>3
    <3> QED BY <3>1, <3>2
  <2>6. ASSUME pc'[q] \in Moved, NEW p \in Renamers, From[p] = From[q], pc'[p] \in Moved
        PROVE  p = q
    <3>1. CASE q # r /\ p # r
      BY <1>2, <2>1, <2>3, <2>6, <3>1
    <3>2. CASE q = r /\ p # r
      BY <1>2, <2>1, <2>3, <2>6, <3>2 DEF MoveStep
    <3>3. CASE q # r /\ p = r
      BY <1>2, <2>1, <2>3, <2>6, <3>3 DEF MoveStep
    <3> QED BY <3>1, <3>2, <3>3
  <2> QED BY <2>4, <2>5, <2>6
<1> QED BY <1>3, <1>4, <1>5, <1>6 DEF IInv

-----------------------------------------------------------------------------
(* Types and frames *)

\* What a rename's step may set, variable by variable.
Own(r) ==
  /\ pc' \in [Threads -> Labels] /\ pc'[r] \notin {"logout", "end"}
  /\ \A t \in Threads \ {r} : pc'[t] = pc[t]
  /\ todo' \in [Threads -> SUBSET Keys] /\ \A t \in Threads \ {r} : todo'[t] = todo[t]
  /\ values' \in [Renamers -> [Keys -> Secret]]
  /\ created' \in [Renamers -> SUBSET Keys] /\ deleted' \in [Renamers -> SUBSET Keys]
  /\ \A q \in Renamers \ {r} :
       values'[q] = values[q] /\ created'[q] = created[q] /\ deleted'[q] = deleted[q]
  /\ deleted'[r] \subseteq created'[r]
  /\ failed' = failed /\ had' = had
  /\ faults' \in 0 .. MaxFaults /\ faults' \in {faults, faults + 1}
Stores(r) ==
  /\ metadata' \in {metadata, metadata \cup {From[r]}, metadata \ {From[r]},
                    metadata \cup {To[r]}, metadata \ {To[r]}}
  /\ secrets' \in [Names -> [Keys -> Secret]]
  /\ \A n \in Names \ {From[r], To[r]} : secrets'[n] = secrets[n]
  /\ pc[r] \in Early => secrets' = secrets

LEMMA OwnTypes ==
  ASSUME IInv, NEW r \in Renamers, Own(r), Stores(r)
  PROVE  TypeInv' /\ Frame(r)
<1>1. /\ r \in Threads /\ From[r] \in Names /\ To[r] \in Names
      /\ \A q \in Renamers : q \in Threads
  BY Distinct
<1>2. Frame(r)
  BY <1>1 DEF Own, Stores, Frame
<1>3. metadata' \subseteq Names
  BY <1>1 DEF Stores, IInv, TypeInv, TypeOK
<1>4. \A q \in Renamers : deleted'[q] \subseteq created'[q]
  BY DEF Own, IInv, TypeInv, TypeOK
<1>5. \A q \in Renamers : pc'[q] \notin {"logout", "end"}
  BY <1>1 DEF Own, IInv, TypeInv
<1>6. TypeOK'
  BY <1>3, <1>4 DEF Own, Stores, IInv, TypeInv, TypeOK
<1> QED BY <1>2, <1>5, <1>6 DEF Own, TypeInv

\* The types of what a rename's step reads.
LEMMA Known ==
  ASSUME IInv, NEW r \in Renamers
  PROVE  /\ r \in Threads /\ From[r] \in Names /\ To[r] \in Names /\ From[r] # To[r]
         /\ metadata \subseteq Names /\ secrets \in [Names -> [Keys -> Secret]]
         /\ pc \in [Threads -> Labels] /\ todo \in [Threads -> SUBSET Keys]
         /\ values \in [Renamers -> [Keys -> Secret]]
         /\ created \in [Renamers -> SUBSET Keys] /\ deleted \in [Renamers -> SUBSET Keys]
         /\ deleted[r] \subseteq created[r] /\ faults \in 0 .. MaxFaults
         /\ created[r] \subseteq Keys /\ values[r] \in [Keys -> Secret] /\ todo[r] \subseteq Keys
         /\ Present(values[r]) \subseteq Keys /\ Missing \in Secret
         /\ todo[r] # {} => First(todo[r]) \in todo[r]
         /\ pc[r] \in Labels \ {"logout", "end"} /\ RenameInv(r)
<1>1. /\ todo[r] \subseteq Keys /\ r \in Threads
  BY Distinct DEF IInv, TypeInv, TypeOK
<1>2. todo[r] # {} => First(todo[r]) \in todo[r]
  BY <1>1, FirstIsLeft
<1> QED BY <1>1, <1>2, Distinct DEF IInv, TypeInv, TypeOK, Present, Secret

-----------------------------------------------------------------------------
(* The steps *)

\* The place a step goes to, and the count of faults.
Goes(r, labels) ==
  /\ pc' \in [Threads -> Labels] /\ pc'[r] \in labels
  /\ \A t \in Threads \ {r} : pc'[t] = pc[t]

LEMMA GotoGoes ==
  ASSUME IInv, NEW r \in Renamers, NEW label \in Labels, Goto(r, label)
  PROVE  Goes(r, {label})
BY GotoFacts, Distinct DEF Goes, IInv, TypeInv

LEMMA CheckNewKeeps ==
  ASSUME Apart, IInv, NEW r \in Renamers, RenameCheckNew(r)
  PROVE  IInv' /\ Frame(r)
<1>1. /\ pc[r] = "new" /\ UNCHANGED <<metadata, secrets, todo, values, created, deleted, failed, had>>
      /\ Fails \/ Works
      /\ \/ Goto(r, "source") /\ To[r] \notin metadata
         \/ Goto(r, "refused")
  BY DEF RenameCheckNew, stores, locals
<1>2. /\ Goes(r, {"source", "refused"})
      /\ pc'[r] = "source" => To[r] \notin metadata
  BY <1>1, GotoGoes DEF Goes, Labels, Early
<1>3. Own(r)
  BY <1>1, <1>2, Known, FaultFacts DEF Goes, Own
<1>4. Stores(r)
  BY <1>1, Known DEF Stores
<1>5. RenameInv(r)'
  BY <1>1, <1>2, Known DEF Goes, RenameInv, Early, Later, Undoing
<1>6. HadStep(r) /\ SafeStep(r) /\ MoveStep(r)
  BY <1>1, <1>2 DEF IInv, HadInv, HadStep, SafeStep, MoveStep, Goes, Carries, Back, Moved
<1> QED BY <1>3, <1>4, <1>5, <1>6, OwnTypes, RenameKeeps

LEMMA CheckOldKeeps ==
  ASSUME Apart, IInv, NEW r \in Renamers, RenameCheckOld(r)
  PROVE  IInv' /\ Frame(r)
<1>1. /\ pc[r] = "source" /\ UNCHANGED <<metadata, secrets, values, created, deleted, failed, had>>
      /\ Fails \/ Works
      /\ Goto(r, "probe") \/ Goto(r, "refused")
      /\ todo' = todo \/ todo' = [todo EXCEPT ![r] = Keys]
  BY DEF RenameCheckOld, stores
<1>2. Goes(r, {"probe", "refused"})
  BY <1>1, GotoGoes DEF Goes, Labels, Early
<1>3. Own(r)
  BY <1>1, <1>2, Known, FaultFacts DEF Goes, Own
<1>4. Stores(r)
  BY <1>1, Known DEF Stores
<1>5. RenameInv(r)'
  BY <1>1, <1>2, Known DEF Goes, RenameInv, Early, Later, Undoing
<1>6. HadStep(r) /\ SafeStep(r) /\ MoveStep(r)
  BY <1>1, <1>2 DEF IInv, HadInv, HadStep, SafeStep, MoveStep, Goes, Carries, Back, Moved
<1> QED BY <1>3, <1>4, <1>5, <1>6, OwnTypes, RenameKeeps

LEMMA ProbeKeeps ==
  ASSUME Apart, IInv, NEW r \in Renamers, RenameProbe(r)
  PROVE  IInv' /\ Frame(r)
<1>1. /\ pc[r] = "probe" /\ UNCHANGED <<metadata, secrets, todo, values, created, deleted, failed, had>>
      /\ Fails \/ Works
      /\ Goto(r, "read") \/ Goto(r, "refused")
  BY DEF RenameProbe, stores, locals
<1>2. Goes(r, {"read", "refused"})
  BY <1>1, GotoGoes DEF Goes, Labels, Early
<1>3. Own(r)
  BY <1>1, <1>2, Known, FaultFacts DEF Goes, Own
<1>4. Stores(r)
  BY <1>1, Known DEF Stores
<1>5. RenameInv(r)'
  BY <1>1, <1>2, Known DEF Goes, RenameInv, Early, Later, Undoing
<1>6. HadStep(r) /\ SafeStep(r) /\ MoveStep(r)
  BY <1>1, <1>2 DEF IInv, HadInv, HadStep, SafeStep, MoveStep, Goes, Carries, Back, Moved
<1> QED BY <1>3, <1>4, <1>5, <1>6, OwnTypes, RenameKeeps

LEMMA ReadKeeps ==
  ASSUME Apart, IInv, NEW r \in Renamers, RenameRead(r)
  PROVE  IInv' /\ Frame(r)
<1> DEFINE k == First(todo[r])
           v == secrets[From[r]][k]
<1>1. /\ pc[r] = "read" /\ UNCHANGED <<metadata, secrets, created, deleted, failed, had>>
      /\ Fails \/ Works
      /\ todo' = todo \/ todo' = [todo EXCEPT ![r] = @ \ {k}]
      /\ k \in todo[r]
      /\ Goto(r, "put") \/ Goto(r, "probe") \/ Goto(r, "refused")
      /\ values' = values \/ values' = [values EXCEPT ![r][k] = v]
  BY Known DEF RenameRead, stores, Visit
<1>2. Goes(r, {"put", "probe", "refused"})
  BY <1>1, GotoGoes DEF Goes, Labels, Early
<1>3. k \in Keys /\ v \in Secret /\ (From[r] \in Existing => v \in {had[From[r]][k], Missing})
  BY <1>1, Known DEF IInv, HadInv
<1> HIDE DEF k, v
<1>4. /\ values' \in [Renamers -> [Keys -> Secret]]
      /\ \A q \in Renamers \ {r} : values'[q] = values[q]
      /\ \A j \in Keys : values'[r][j] = values[r][j] \/ (j = k /\ values'[r][j] = v)
  <2>1. CASE values' = values
    BY <2>1, Known
  <2>2. CASE values' = [values EXCEPT ![r][k] = v]
    <3> DEFINE f == [values[r] EXCEPT ![k] = v]
    <3>1. f \in [Keys -> Secret] /\ f[k] = v /\ \A j \in Keys \ {k} : f[j] = values[r][j]
      BY <1>3, Known
    <3>2. values' = [values EXCEPT ![r] = f]
      BY <2>2, Zenon
    <3> HIDE DEF f
    <3> QED BY <3>1, <3>2, Known
  <2> QED BY <1>1, <2>1, <2>2
<1>5. Own(r)
  <2>1. todo' \in [Threads -> SUBSET Keys] /\ \A t \in Threads \ {r} : todo'[t] = todo[t]
    <3>1. CASE todo' = todo
      BY <3>1, Known
    <3>2. CASE todo' = [todo EXCEPT ![r] = @ \ {k}]
      BY <3>2, Known
    <3> QED BY <1>1, <3>1, <3>2
  <2> QED BY <1>1, <1>2, <1>4, <2>1, Known, FaultFacts DEF Goes, Own
<1>6. Stores(r)
  BY <1>1, Known DEF Stores
<1>7. RenameInv(r)'
  BY <1>1, <1>2, <1>3, <1>4, Known DEF Goes, RenameInv, Early, Later, Undoing
<1>8. HadStep(r) /\ SafeStep(r) /\ MoveStep(r)
  BY <1>1, <1>2 DEF IInv, HadInv, HadStep, SafeStep, MoveStep, Goes, Carries, Back, Moved
<1> QED BY <1>5, <1>6, <1>7, <1>8, OwnTypes, RenameKeeps

LEMMA RenamePutKeeps ==
  ASSUME Apart, IInv, NEW r \in Renamers, RenamePut(r)
  PROVE  IInv' /\ Frame(r)
<1>1. /\ pc[r] = "put" /\ UNCHANGED <<secrets, values, created, deleted, failed, had>>
      /\ Fails \/ Works
      /\ \/ /\ Goto(r, "copy") /\ metadata' = metadata \cup {To[r]}
            /\ todo' = [todo EXCEPT ![r] = Present(values[r])]
         \/ Goto(r, "refused") /\ UNCHANGED <<metadata, todo>>
  BY DEF RenamePut
<1>2. /\ Goes(r, {"copy", "refused"})
      /\ metadata' = metadata \cup {To[r]} \/ metadata' = metadata
      /\ todo' \in [Threads -> SUBSET Keys] /\ \A t \in Threads \ {r} : todo'[t] = todo[t]
      /\ pc'[r] = "copy" => todo'[r] = Present(values[r])
  <2>1. CASE Goto(r, "copy") /\ metadata' = metadata \cup {To[r]}
             /\ todo' = [todo EXCEPT ![r] = Present(values[r])]
    BY <2>1, GotoGoes, Known DEF Goes, Labels
  <2>2. CASE Goto(r, "refused") /\ UNCHANGED <<metadata, todo>>
    BY <2>2, GotoGoes, Known DEF Goes, Labels, Early
  <2> QED BY <1>1, <2>1, <2>2
<1>3. Own(r)
  BY <1>1, <1>2, Known, FaultFacts DEF Goes, Own
<1>4. Stores(r)
  BY <1>1, <1>2, Known DEF Stores
<1>5. RenameInv(r)'
  BY <1>1, <1>2, Known DEF Goes, RenameInv, Early, Later, Undoing, Present
<1>6. HadStep(r) /\ SafeStep(r) /\ MoveStep(r)
  BY <1>1, <1>2, Known DEF IInv, HadInv, HadStep, SafeStep, MoveStep, Goes, Carries, Back, Moved
<1> QED BY <1>3, <1>4, <1>5, <1>6, OwnTypes, RenameKeeps

\* Going to the undoing of the new name, with nothing carried.
LEMMA UndoNewGoes ==
  ASSUME IInv, NEW r \in Renamers, UndoNew(r)
  PROVE  /\ Goes(r, {"undo"})
         /\ todo' \in [Threads -> SUBSET Keys] /\ \A t \in Threads \ {r} : todo'[t] = todo[t]
  BY GotoGoes, Known DEF UndoNew, Created, Goes, Labels, Undoing

LEMMA CopyKeeps ==
  ASSUME Apart, IInv, NEW r \in Renamers, RenameCopy(r)
  PROVE  IInv' /\ Frame(r)
<1> DEFINE k == First(todo[r])
<1>1. /\ pc[r] = "copy" /\ UNCHANGED <<metadata, values, deleted, failed, had>>
      /\ k \in todo[r]
      /\ Fails \/ Works
      /\ \/ /\ SetSecret(To[r], k, values[r][k]) /\ Visit(r, k) /\ pc' = pc
            /\ created' = [created EXCEPT ![r] = @ \cup {k}]
         \/ UndoNew(r) /\ UNCHANGED <<secrets, created>>
  BY Known DEF RenameCopy
<1>2. k \in Keys /\ values[r][k] \in Secret /\ (\A n \in Names \ {To[r]} : secrets'[n] = secrets[n])
  BY <1>1, Known, SetFacts
<1> HIDE DEF k
<1>3. CASE SetSecret(To[r], k, values[r][k]) /\ Visit(r, k) /\ pc' = pc
           /\ created' = [created EXCEPT ![r] = @ \cup {k}]
  <2>1. /\ secrets' \in [Names -> [Keys -> Secret]] /\ secrets'[To[r]][k] = values[r][k]
        /\ \A j \in Keys \ {k} : secrets'[To[r]][j] = secrets[To[r]][j]
    BY <1>2, <1>3, Known, SetFacts
  <2>2. /\ todo' \in [Threads -> SUBSET Keys] /\ \A t \in Threads \ {r} : todo'[t] = todo[t]
        /\ todo'[r] = todo[r] \ {k} /\ Goes(r, {"copy"})
    BY <1>1, <1>3, Known DEF Visit, Goes
  <2>3. Own(r)
    BY <1>1, <1>2, <1>3, <2>2, Known, FaultFacts DEF Goes, Own
  <2>4. Stores(r)
    BY <1>1, <1>2, <2>1, Known DEF Stores, Early
  <2>5. RenameInv(r)'
    <3>1. /\ pc[r] = "copy" /\ RenameInv(r) /\ k \in Present(values[r]) \ created[r]
          /\ created'[r] = created[r] \cup {k}
      BY <1>1, <1>3, Known DEF RenameInv, Undoing
    <3>2. \A j \in created'[r] : secrets'[To[r]][j] = values[r][j]
      BY <2>1, <3>1, Known DEF RenameInv, Undoing
    <3>3. Present(values'[r]) = Present(values[r])
      BY <1>1
    <3> QED BY <1>1, <2>2, <3>1, <3>2, <3>3, Known DEF Goes, RenameInv, Early, Later, Undoing
  <2>6. HadStep(r) /\ SafeStep(r) /\ MoveStep(r)
    <3>1. secrets'[From[r]] = secrets[From[r]] /\ ~\E j \in Keys : Carries(r, j)
      BY <1>1, <1>2, Known DEF Carries
    <3>2. MoveStep(r)
      BY <1>1, <2>2 DEF MoveStep, Goes, Back, Moved
    <3>3. HadStep(r)
      BY <3>1 DEF HadStep, IInv, HadInv
    <3>4. SafeStep(r)
      BY <3>1 DEF SafeStep, Present
    <3> QED BY <3>2, <3>3, <3>4
  <2> QED BY <2>3, <2>4, <2>5, <2>6, OwnTypes, RenameKeeps
<1>4. CASE UndoNew(r) /\ UNCHANGED <<secrets, created>>
  <2>1. Own(r)
    BY <1>1, <1>4, UndoNewGoes, Known, FaultFacts DEF Goes, Own
  <2>2. Stores(r)
    BY <1>1, <1>4, Known DEF Stores
  <2>3. RenameInv(r)'
    BY <1>1, <1>4, UndoNewGoes, Known DEF Goes, RenameInv, Early, Later, Undoing
  <2>4. HadStep(r) /\ SafeStep(r) /\ MoveStep(r)
    BY <1>1, <1>4, UndoNewGoes, Known
       DEF IInv, HadInv, HadStep, SafeStep, MoveStep, Goes, Carries, Back, Moved, RenameInv, Early
  <2> QED BY <2>1, <2>2, <2>3, <2>4, OwnTypes, RenameKeeps
<1> QED BY <1>1, <1>3, <1>4

LEMMA DeleteOldKeeps ==
  ASSUME Apart, IInv, NEW r \in Renamers, RenameDeleteOld(r)
  PROVE  IInv' /\ Frame(r)
<1>1. /\ pc[r] = "copy" /\ todo[r] = {} /\ UNCHANGED <<secrets, values, created, deleted, failed, had>>
      /\ Fails \/ Works
      /\ \/ /\ From[r] \in metadata /\ metadata' = metadata \ {From[r]} /\ Goto(r, "delete")
            /\ todo' = [todo EXCEPT ![r] = Present(values[r])]
         \/ UndoNew(r) /\ UNCHANGED metadata
  BY DEF RenameDeleteOld, StillThere
<1>2. /\ Goes(r, {"delete", "undo"})
      /\ metadata' = metadata \/ metadata' = metadata \ {From[r]}
      /\ todo' \in [Threads -> SUBSET Keys] /\ \A t \in Threads \ {r} : todo'[t] = todo[t]
      /\ pc'[r] = "delete" => /\ todo'[r] = Present(values[r])
                              /\ From[r] \in metadata /\ From[r] \notin metadata'
  <2>1. CASE /\ From[r] \in metadata /\ metadata' = metadata \ {From[r]} /\ Goto(r, "delete")
             /\ todo' = [todo EXCEPT ![r] = Present(values[r])]
    BY <2>1, GotoGoes, Known DEF Goes, Labels, Later
  <2>2. CASE UndoNew(r) /\ UNCHANGED metadata
    BY <2>2, UndoNewGoes DEF Goes
  <2> QED BY <1>1, <2>1, <2>2
<1>3. Own(r)
  BY <1>1, <1>2, Known, FaultFacts DEF Goes, Own
<1>4. Stores(r)
  BY <1>1, <1>2, Known DEF Stores
<1>5. RenameInv(r)'
  <2>1. RenameInv(r) /\ created[r] = Present(values[r]) /\ deleted[r] = {} /\ To[r] \notin Existing
    BY <1>1, Known DEF RenameInv
  <2>2. Present(values'[r]) = Present(values[r])
    BY <1>1
  <2> QED BY <1>1, <1>2, <2>1, <2>2 DEF Goes, RenameInv, Early, Later, Undoing
<1>6. HadStep(r) /\ SafeStep(r) /\ MoveStep(r)
  <2>1. MoveStep(r)
    BY <1>1, <1>2, Known DEF MoveStep, Goes, Back, Moved
  <2>2. HadStep(r)
    BY <1>1 DEF HadStep, IInv, HadInv
  <2>3. SafeStep(r)
    BY <1>1 DEF SafeStep, Carries
  <2> QED BY <2>1, <2>2, <2>3
<1> QED BY <1>3, <1>4, <1>5, <1>6, OwnTypes, RenameKeeps

LEMMA FaultNumbers ==
  ASSUME IInv
  PROVE  faults \in Nat /\ MaxFaults \in Nat /\ faults <= MaxFaults
BY ProfilesAssumption DEF IInv, TypeInv, TypeOK

LEMMA DeleteKeeps ==
  ASSUME Apart, IInv, NEW r \in Renamers, RenameDelete(r)
  PROVE  IInv' /\ Frame(r)
<1> DEFINE k == First(todo[r])
<1>1. /\ pc[r] = "delete" /\ UNCHANGED <<metadata, values, created, failed, had>>
      /\ k \in todo[r]
      /\ Fails \/ Works
      /\ \/ /\ SetSecret(From[r], k, Missing) /\ Visit(r, k) /\ pc' = pc
            /\ deleted' = [deleted EXCEPT ![r] = @ \cup {k}]
         \/ /\ (Works /\ secrets[From[r]][k] = Missing) \/ Fails
            /\ Goto(r, "restore profile") /\ UNCHANGED <<secrets, todo, deleted>>
  BY Known DEF RenameDelete
<1>2. k \in Keys /\ k \in Present(values[r]) \ deleted[r] /\ created[r] = Present(values[r])
  BY <1>1, Known DEF RenameInv, Later
<1>3. Present(values'[r]) = Present(values[r])
  BY <1>1
<1> HIDE DEF k
<1>4. CASE SetSecret(From[r], k, Missing) /\ Visit(r, k) /\ pc' = pc
           /\ deleted' = [deleted EXCEPT ![r] = @ \cup {k}]
  <2>1. /\ secrets' \in [Names -> [Keys -> Secret]] /\ secrets'[From[r]][k] = Missing
        /\ \A j \in Keys \ {k} : secrets'[From[r]][j] = secrets[From[r]][j]
        /\ \A n \in Names \ {From[r]} : secrets'[n] = secrets[n]
    BY <1>2, <1>4, Known, SetFacts
  <2>2. /\ todo' \in [Threads -> SUBSET Keys] /\ \A t \in Threads \ {r} : todo'[t] = todo[t]
        /\ todo'[r] = todo[r] \ {k} /\ Goes(r, {"delete"})
        /\ deleted' \in [Renamers -> SUBSET Keys] /\ deleted'[r] = deleted[r] \cup {k}
        /\ \A q \in Renamers \ {r} : deleted'[q] = deleted[q]
    BY <1>1, <1>2, <1>4, Known DEF Visit, Goes
  <2>3. Own(r)
    BY <1>1, <1>2, <1>4, <2>2, Known, FaultFacts DEF Goes, Own
  <2>4. Stores(r)
    BY <1>1, <1>2, <2>1, Known DEF Stores, Early
  <2>5. RenameInv(r)'
    <3>1. RenameInv(r) /\ todo[r] = Present(values[r]) \ deleted[r] /\ To[r] \notin Existing
      BY <1>1, Known DEF RenameInv
    <3>2. \A j \in created'[r] : secrets'[To[r]][j] = values'[r][j]
      <4>1. secrets'[To[r]] = secrets[To[r]] /\ created'[r] = created[r] /\ values'[r] = values[r]
        BY <1>1, <2>1, Known
      <4>2. \A j \in created[r] : secrets[To[r]][j] = values[r][j]
        BY <1>1, <3>1 DEF RenameInv, Undoing
      <4> QED BY <4>1, <4>2
    <3>3. todo'[r] = Present(values'[r]) \ deleted'[r] /\ created'[r] = Present(values'[r])
      BY <1>1, <1>2, <1>3, <2>2, <3>1
    <3> QED BY <1>1, <2>2, <3>1, <3>2, <3>3 DEF Goes, RenameInv, Early, Later, Undoing
  <2>6. HadStep(r) /\ SafeStep(r) /\ MoveStep(r)
    <3>1. MoveStep(r)
      BY <1>1, <2>2 DEF MoveStep, Goes, Back, Moved
    <3>2. HadStep(r)
      BY <2>1 DEF HadStep, IInv, HadInv
    <3>3. SafeStep(r)
      BY <1>1, <2>1, <2>2 DEF SafeStep, Present, Goes, Carries
    <3> QED BY <3>1, <3>2, <3>3
  <2> QED BY <2>3, <2>4, <2>5, <2>6, OwnTypes, RenameKeeps
<1>5. CASE /\ (Works /\ secrets[From[r]][k] = Missing) \/ Fails
           /\ Goto(r, "restore profile") /\ UNCHANGED <<secrets, todo, deleted>>
  <2>1. Goes(r, {"restore profile"})
    BY <1>5, GotoGoes DEF Labels, Later
  <2>2. Own(r)
    BY <1>1, <1>5, <2>1, Known, FaultFacts DEF Goes, Own
  <2>3. Stores(r)
    BY <1>1, <1>5, Known DEF Stores
  <2>4. RenameInv(r)'
    BY <1>1, <1>3, <1>5, <2>1, Known DEF Goes, RenameInv, Early, Later, Undoing
  <2>5. HadStep(r)
    BY <1>5 DEF HadStep, IInv, HadInv
  <2>6. SafeStep(r)
    BY <1>1, <1>5, <2>1 DEF SafeStep, Goes, Carries
  <2>7. ASSUME faults' = 0, From[r] \in Kept
        PROVE  FALSE
    <3>1. faults = 0 /\ secrets[From[r]][k] = Missing
      <4>1. ~Fails
        BY <2>7, FaultNumbers DEF Fails
      <4> QED BY <1>5, <2>7, <4>1 DEF Works
    <3>2. /\ had[From[r]][k] = From[r] /\ From[r] \in Existing /\ From[r] # Missing
      BY <1>2, <2>7, Known, ProfilesAssumption DEF RenameInv, Present, Kept, IInv, HadInv
    <3>3. k \in Present(had[From[r]])
      BY <1>2, <3>2 DEF Present
    <3>4. PICK q \in Renamers : From[q] = From[r] /\ Carries(q, k)
      BY <2>7, <3>1, <3>2, <3>3 DEF IInv, SafeInv
    <3>5. q = r
      BY <1>1, <2>7, <3>1, <3>4 DEF IInv, MoveInv, Carries
    <3> QED BY <1>2, <3>4, <3>5 DEF Carries
  <2>8. MoveStep(r)
    BY <1>1, <2>1, <2>7 DEF MoveStep, Goes, Moved
  <2> QED BY <2>2, <2>3, <2>4, <2>5, <2>6, <2>8, OwnTypes, RenameKeeps
<1> QED BY <1>1, <1>4, <1>5

LEMMA DoneKeeps ==
  ASSUME Apart, IInv, NEW r \in Renamers, RenameDone(r)
  PROVE  IInv' /\ Frame(r)
<1>1. /\ pc[r] = "delete" /\ Goto(r, "renamed")
      /\ UNCHANGED <<metadata, secrets, todo, values, created, deleted, failed, faults, had>>
  BY DEF RenameDone, stores, locals
<1>2. Goes(r, {"renamed"})
  BY <1>1, GotoGoes DEF Labels, Later
<1>3. Own(r)
  BY <1>1, <1>2, Known DEF Goes, Own
<1>4. Stores(r)
  BY <1>1, Known DEF Stores
<1>5. RenameInv(r)'
  BY <1>1, <1>2, Known DEF Goes, RenameInv, Early, Later, Undoing
<1>6. HadStep(r) /\ SafeStep(r) /\ MoveStep(r)
  BY <1>1, <1>2 DEF IInv, HadInv, HadStep, SafeStep, MoveStep, Goes, Carries, Back, Moved
<1> QED BY <1>3, <1>4, <1>5, <1>6, OwnTypes, RenameKeeps

\* A rename goes back only after an operation has failed.
LEMMA BackMeansFault ==
  ASSUME IInv, NEW r \in Renamers, pc[r] \in Back, From[r] \in Kept, Fails \/ Works
  PROVE  faults # 0 /\ faults' # 0
<1>1. faults # 0
  BY DEF IInv, MoveInv, Back
<1> QED BY <1>1, FaultNumbers DEF Fails, Works

LEMMA RestoreProfileKeeps ==
  ASSUME Apart, IInv, NEW r \in Renamers, RestoreProfile(r)
  PROVE  IInv' /\ Frame(r)
<1>1. /\ pc[r] = "restore profile" /\ Goto(r, "restore")
      /\ Fails \/ Works
      /\ metadata' = metadata \cup {From[r]} \/ metadata' = metadata
      /\ todo' = [todo EXCEPT ![r] = deleted[r]]
      /\ UNCHANGED <<secrets, values, created, deleted, failed, had>>
  BY DEF RestoreProfile, Deleted
<1>2. /\ Goes(r, {"restore"}) /\ todo'[r] = deleted[r]
      /\ todo' \in [Threads -> SUBSET Keys] /\ \A t \in Threads \ {r} : todo'[t] = todo[t]
  BY <1>1, GotoGoes, Known DEF Labels, Later
<1>3. Own(r)
  BY <1>1, <1>2, Known, FaultFacts DEF Goes, Own
<1>4. Stores(r)
  BY <1>1, Known DEF Stores
<1>5. RenameInv(r)'
  BY <1>1, <1>2, Known DEF Goes, RenameInv, Early, Later, Undoing
<1>6. HadStep(r) /\ SafeStep(r)
  BY <1>1, <1>2 DEF IInv, HadInv, HadStep, SafeStep, Goes, Carries
<1>7. MoveStep(r)
  BY <1>1, <1>2, BackMeansFault DEF MoveStep, Goes, Back, Moved
<1> QED BY <1>3, <1>4, <1>5, <1>6, <1>7, OwnTypes, RenameKeeps

LEMMA RestoreSecretKeeps ==
  ASSUME Apart, IInv, NEW r \in Renamers, RestoreSecret(r)
  PROVE  IInv' /\ Frame(r)
<1> DEFINE k == First(todo[r])
<1>1. /\ pc[r] = "restore" /\ pc' = pc /\ k \in todo[r] /\ Visit(r, k)
      /\ Fails \/ Works
      /\ SetSecret(From[r], k, values[r][k]) \/ (Fails /\ UNCHANGED secrets)
      /\ UNCHANGED <<metadata, values, created, deleted, failed, had>>
  BY Known DEF RestoreSecret
<1>2. k \in Keys /\ values[r][k] \in Secret /\ k \in Present(values[r])
  BY <1>1, Known DEF RenameInv, Later
<1> HIDE DEF k
<1>3. /\ todo' \in [Threads -> SUBSET Keys] /\ \A t \in Threads \ {r} : todo'[t] = todo[t]
      /\ todo'[r] = todo[r] \ {k} /\ Goes(r, {"restore"})
  BY <1>1, Known DEF Visit, Goes
<1>4. /\ secrets' \in [Names -> [Keys -> Secret]]
      /\ \A n \in Names \ {From[r]} : secrets'[n] = secrets[n]
      /\ \A j \in Keys \ {k} : secrets'[From[r]][j] = secrets[From[r]][j]
      /\ secrets'[From[r]][k] = values[r][k] \/ (Fails /\ UNCHANGED secrets)
  BY <1>1, <1>2, Known, SetFacts
<1>5. Own(r)
  BY <1>1, <1>3, Known, FaultFacts DEF Goes, Own
<1>6. Stores(r)
  BY <1>1, <1>4, Known DEF Stores, Early
<1>7. RenameInv(r)'
  <2>1. RenameInv(r) /\ To[r] \notin Existing /\ secrets'[To[r]] = secrets[To[r]]
    BY <1>1, <1>4, Known DEF RenameInv
  <2>2. Present(values'[r]) = Present(values[r])
    BY <1>1
  <2> QED BY <1>1, <1>3, <2>1, <2>2 DEF Goes, RenameInv, Early, Later, Undoing
<1>8. HadStep(r)
  BY <1>2, <1>4, Known DEF HadStep, IInv, HadInv, RenameInv
<1>9. SafeStep(r)
  <2>1. SUFFICES ASSUME From[r] \in Kept, NEW j \in Present(had[From[r]]),
                        secrets[From[r]][j] = From[r] \/ Carries(r, j)
                 PROVE  secrets'[From[r]][j] = From[r] \/ Carries(r, j)'
    BY DEF SafeStep
  <2>2. secrets'[From[r]][k] = values[r][k]
    <3>1. faults # 0
      BY <1>1, <2>1, BackMeansFault DEF Back
    <3>2. ~Fails
      BY <3>1, FaultNumbers DEF Fails, Apart
    <3> QED BY <1>4, <3>2
  <2>3. values[r][k] = From[r]
    <3>1. From[r] \in Existing /\ values[r][k] # Missing
      BY <1>2, <2>1 DEF Kept, Present
    <3>2. values[r][k] = had[From[r]][k]
      BY <1>2, <3>1, Known DEF RenameInv
    <3> QED BY <1>2, <3>1, <3>2 DEF IInv, HadInv
  <2>4. CASE j # k
    BY <1>1, <1>3, <1>4, <2>1, <2>4 DEF Carries, Present, Goes
  <2> QED BY <2>2, <2>3, <2>4
<1>10. MoveStep(r)
  BY <1>1, <1>3, BackMeansFault DEF MoveStep, Goes, Back, Moved
<1> QED BY <1>5, <1>6, <1>7, <1>8, <1>9, <1>10, OwnTypes, RenameKeeps

LEMMA RestoreDoneKeeps ==
  ASSUME Apart, IInv, NEW r \in Renamers, RestoreDone(r)
  PROVE  IInv' /\ Frame(r)
<1>1. /\ pc[r] = "restore" /\ todo[r] = {} /\ UndoNew(r)
      /\ UNCHANGED <<metadata, secrets, values, created, deleted, failed, faults, had>>
  BY DEF RestoreDone, stores
<1>2. Own(r)
  BY <1>1, UndoNewGoes, Known DEF Goes, Own
<1>3. Stores(r)
  BY <1>1, Known DEF Stores
<1>4. RenameInv(r)'
  BY <1>1, UndoNewGoes, Known DEF Goes, RenameInv, Early, Later, Undoing
<1>5. HadStep(r) /\ SafeStep(r) /\ MoveStep(r)
  BY <1>1, UndoNewGoes DEF IInv, HadInv, HadStep, SafeStep, MoveStep, Goes, Carries, Back, Moved
<1> QED BY <1>2, <1>3, <1>4, <1>5, OwnTypes, RenameKeeps

LEMMA UndoSecretKeeps ==
  ASSUME Apart, IInv, NEW r \in Renamers, UndoSecret(r)
  PROVE  IInv' /\ Frame(r)
<1> DEFINE k == First(todo[r])
<1>1. /\ pc[r] = "undo" /\ pc' = pc /\ k \in todo[r] /\ Visit(r, k)
      /\ Fails \/ Works
      /\ SetSecret(To[r], k, Missing) \/ UNCHANGED secrets
      /\ UNCHANGED <<metadata, values, created, deleted, failed, had>>
  BY Known DEF UndoSecret
<1>2. k \in Keys
  BY <1>1, Known
<1> HIDE DEF k
<1>3. /\ todo' \in [Threads -> SUBSET Keys] /\ \A t \in Threads \ {r} : todo'[t] = todo[t]
      /\ Goes(r, {"undo"})
  BY <1>1, Known DEF Visit, Goes
<1>4. /\ secrets' \in [Names -> [Keys -> Secret]]
      /\ \A n \in Names \ {To[r]} : secrets'[n] = secrets[n]
  BY <1>1, <1>2, Known, SetFacts
<1>5. Own(r)
  BY <1>1, <1>3, Known, FaultFacts DEF Goes, Own
<1>6. Stores(r)
  BY <1>1, <1>4, Known DEF Stores, Early
<1>7. RenameInv(r)'
  BY <1>1, <1>3, <1>4, Known DEF Goes, RenameInv, Early, Later, Undoing
<1>8. secrets'[From[r]] = secrets[From[r]]
  BY <1>4, Known
<1>9. HadStep(r)
  BY <1>8 DEF IInv, HadInv, HadStep
<1>10. SafeStep(r)
  <2>1. \A j : ~Carries(r, j)
    BY <1>1 DEF Carries
  <2> QED BY <1>8, <2>1 DEF SafeStep
<1>11. MoveStep(r)
  BY <1>1 DEF MoveStep, Back, Moved
<1> QED BY <1>5, <1>6, <1>7, <1>9, <1>10, <1>11, OwnTypes, RenameKeeps

LEMMA UndoProfileKeeps ==
  ASSUME Apart, IInv, NEW r \in Renamers, UndoProfile(r)
  PROVE  IInv' /\ Frame(r)
<1>1. /\ pc[r] = "undo" /\ Goto(r, "failed")
      /\ Fails \/ Works
      /\ metadata' = metadata \ {To[r]} \/ metadata' = metadata
      /\ UNCHANGED <<secrets, todo, values, created, deleted, failed, had>>
  BY DEF UndoProfile, locals
<1>2. Goes(r, {"failed"})
  BY <1>1, GotoGoes DEF Labels, Undoing
<1>3. Own(r)
  BY <1>1, <1>2, Known, FaultFacts DEF Goes, Own
<1>4. Stores(r)
  BY <1>1, Known DEF Stores
<1>5. RenameInv(r)'
  BY <1>1, <1>2, Known DEF Goes, RenameInv, Early, Later, Undoing
<1>6. HadStep(r) /\ SafeStep(r) /\ MoveStep(r)
  BY <1>1, <1>2 DEF IInv, HadInv, HadStep, SafeStep, MoveStep, Goes, Carries, Back, Moved
<1> QED BY <1>3, <1>4, <1>5, <1>6, OwnTypes, RenameKeeps

\* A removal touches the profile it was called for, which no rename moves to.
LEMMA RemoveFrame ==
  ASSUME IInv, NEW d \in Removers, Remove(d)
  PROVE  /\ pc' \in [Threads -> Labels] /\ pc'[d] \in {"logout", "end"}
         /\ \A t \in Threads \ {d} : pc'[t] = pc[t]
         /\ todo' \in [Threads -> SUBSET Keys] /\ \A t \in Threads \ {d} : todo'[t] = todo[t]
         /\ UNCHANGED <<values, created, deleted, had>> /\ failed' \in [Removers -> BOOLEAN]
         /\ \A e \in Removers \ {d} : failed'[e] = failed[e]
         /\ faults' \in 0 .. MaxFaults /\ faults' \in {faults, faults + 1}
         /\ metadata' = metadata \/ metadata' = metadata \ {Target[d]}
         /\ secrets' \in [Names -> [Keys -> Secret]]
         /\ \A n \in Names \ {Target[d]} : secrets'[n] = secrets[n]
         /\ \A n \in Names, k \in Keys : secrets'[n][k] \in {secrets[n][k], Missing}
<1>1. /\ d \in Threads /\ Target[d] \in Names /\ Missing \in Secret
      /\ pc \in [Threads -> Labels] /\ todo \in [Threads -> SUBSET Keys] /\ todo[d] \subseteq Keys
      /\ secrets \in [Names -> [Keys -> Secret]] /\ failed \in [Removers -> BOOLEAN]
      /\ faults \in 0 .. MaxFaults
  BY ProfilesAssumption DEF IInv, TypeInv, TypeOK, Threads, Secret
<1>2. "logout" \in Labels /\ "end" \in Labels
  BY DEF Labels
<1>3. CASE RemoveBegin(d)
  <2>1. Goto(d, "logout") /\ todo' = [todo EXCEPT ![d] = Keys]
        /\ UNCHANGED <<metadata, secrets, values, created, deleted, failed, faults, had>>
    BY <1>3 DEF RemoveBegin, stores
  <2> QED BY <1>1, <1>2, <2>1, GotoFacts
<1>4. CASE LogoutKey(d)
  <2> DEFINE k == First(todo[d])
  <2>1. /\ pc[d] = "logout" /\ k \in todo[d] /\ Visit(d, k) /\ pc' = pc
        /\ Fails \/ Works
        /\ SetSecret(Target[d], k, Missing) \/ UNCHANGED secrets
        /\ failed' = failed \/ failed' = [failed EXCEPT ![d] = TRUE]
        /\ UNCHANGED <<metadata, values, created, deleted, had>>
    BY <1>1, <1>4, FirstIsLeft DEF LogoutKey
  <2>2. k \in Keys
    BY <1>1, <2>1
  <2> HIDE DEF k
  <2>3. /\ secrets' \in [Names -> [Keys -> Secret]]
        /\ \A n \in Names \ {Target[d]} : secrets'[n] = secrets[n]
        /\ \A n \in Names, j \in Keys : secrets'[n][j] \in {secrets[n][j], Missing}
    <3>1. CASE SetSecret(Target[d], k, Missing)
      <4>1. /\ secrets' \in [Names -> [Keys -> Secret]] /\ secrets'[Target[d]][k] = Missing
            /\ \A j \in Keys \ {k} : secrets'[Target[d]][j] = secrets[Target[d]][j]
            /\ \A n \in Names \ {Target[d]} : secrets'[n] = secrets[n]
        BY <1>1, <2>2, <3>1, SetFacts
      <4>2. ASSUME NEW n \in Names, NEW j \in Keys
            PROVE  secrets'[n][j] \in {secrets[n][j], Missing}
        BY <4>1
      <4> QED BY <4>1, <4>2
    <3>2. CASE UNCHANGED secrets
      BY <1>1, <3>2
    <3> QED BY <2>1, <3>1, <3>2
  <2>4. todo' \in [Threads -> SUBSET Keys] /\ \A t \in Threads \ {d} : todo'[t] = todo[t]
    BY <1>1, <2>1 DEF Visit
  <2> QED BY <1>1, <2>1, <2>3, <2>4, FaultFacts
<1>5. CASE RemoveProfile(d)
  <2>1. /\ Goto(d, "end") /\ UNCHANGED <<secrets, todo, values, created, deleted, failed, had>>
        /\ Fails \/ Works
        /\ metadata' = metadata \/ metadata' = metadata \ {Target[d]}
    BY <1>5 DEF RemoveProfile, locals
  <2> QED BY <1>1, <1>2, <2>1, GotoFacts, FaultFacts
<1> QED BY <1>3, <1>4, <1>5 DEF Remove

LEMMA RemoveKeeps ==
  ASSUME Apart, IInv, NEW d \in Removers, Remove(d)
  PROVE  IInv'
<1>1. /\ d \in Threads /\ Target[d] \in Names /\ Existing \subseteq Names
      /\ \A r \in Renamers : r \in Threads /\ r # d /\ To[r] \in Names /\ To[r] # Target[d]
  BY Distinct, ProfilesAssumption DEF Apart, Threads
<1>2. TypeInv'
  <2>1. metadata' \subseteq Names
    BY RemoveFrame DEF IInv, TypeInv, TypeOK
  <2>2. \A r \in Renamers : pc'[r] = pc[r]
    BY <1>1, RemoveFrame
  <2> QED BY <2>1, <2>2, RemoveFrame DEF IInv, TypeInv, TypeOK
<1>3. Kept' \subseteq Kept \ {Target[d]}
  <2>1. \A e \in Removers : pc[e] # "new" => pc'[e] # "new"
    BY RemoveFrame DEF Threads
  <2>2. pc'[d] # "new"
    BY RemoveFrame
  <2> QED BY <2>1, <2>2 DEF Kept, Removed
<1>4. HadInv'
  BY <1>1, RemoveFrame DEF IInv, HadInv
<1>5. \A r \in Renamers : /\ pc'[r] = pc[r] /\ todo'[r] = todo[r] /\ secrets'[To[r]] = secrets[To[r]]
                          /\ To[r] \in metadata => To[r] \in metadata'
  BY <1>1, RemoveFrame
<1>6. ASSUME NEW r \in Renamers
      PROVE  RenameInv(r)'
  <2>1. RenameInv(r) /\ UNCHANGED <<values, created, deleted, had>>
    BY RemoveFrame DEF IInv
  <2> QED BY <1>5, <2>1 DEF RenameInv, Present
<1>7. SafeInv'
  <2>1. SUFFICES ASSUME NEW n \in Kept, n # Target[d], NEW k \in Present(had[n])
                 PROVE  \/ secrets'[n][k] = n
                        \/ \E r \in Renamers : From[r] = n /\ Carries(r, k)'
    BY <1>3, RemoveFrame DEF SafeInv, Present
  <2>2. secrets'[n] = secrets[n]
    BY <1>1, <2>1, RemoveFrame DEF Kept
  <2>3. \A r \in Renamers : Carries(r, k) => Carries(r, k)'
    BY <1>5, RemoveFrame DEF Carries
  <2> QED BY <2>2, <2>3 DEF IInv, SafeInv
<1>8. MoveInv'
  <2>1. faults' = 0 => faults = 0
    BY FaultNumbers, RemoveFrame
  <2>2. metadata' \subseteq metadata
    BY RemoveFrame
  <2> QED BY <1>3, <1>5, <2>1, <2>2 DEF IInv, MoveInv
<1> QED BY <1>2, <1>4, <1>6, <1>7, <1>8 DEF IInv

-----------------------------------------------------------------------------
(* Where a profile is: what all the steps share *)

\* Quiet and Alone only come to an end.
LEMMA QuietBefore ==
  ASSUME IInv, IInv', NEW r \in Renamers, Frame(r), pc[r] \notin Early => pc'[r] \notin Early
  PROVE  /\ \A n : Quiet(n)' => Quiet(n)
         /\ \A q \in Renamers : Alone(q)' => Alone(q)
         /\ faults' = 0 => faults = 0
<1>1. \A q \in Renamers : pc[q] \notin Early => pc'[q] \notin Early
  BY Distinct DEF Frame, Threads
<1>2. faults' = 0 => faults = 0
  BY FaultNumbers DEF Frame
<1> QED BY <1>1, <1>2 DEF Quiet, Alone

\* While nobody else renames it, and while nothing has failed and it is there, the
\* profile is whole.
LEMMA ClearHome ==
  ASSUME IInv, PlaceInv, NEW r \in Renamers, From[r] \in Kept, Clear(r), pc[r] \notin Later
  PROVE  /\ Quiet(From[r]) /\ From[r] \in metadata
         /\ \A k \in Keys : secrets[From[r]][k] = had[From[r]][k]
<1>1. CASE Alone(r)
  <2>1. Quiet(From[r])
    BY <1>1 DEF Quiet, Alone
  <2>2. \A q \in Renamers : From[q] = From[r] => pc[q] \notin Later
    BY <1>1 DEF Alone, Early, Later
  <2> QED BY <2>1, <2>2 DEF PlaceInv, HomeInv
<1>2. CASE faults = 0 /\ From[r] \in metadata
  <2>1. Quiet(From[r])
    BY <1>2 DEF Quiet
  <2>2. \A q \in Renamers : From[q] = From[r] => pc[q] \notin Later
    BY <1>2 DEF IInv, MoveInv, Later
  <2> QED BY <1>2, <2>1, <2>2 DEF PlaceInv, HomeInv
<1> QED BY <1>1, <1>2 DEF Clear

\* One step of r keeps the places if it keeps those of its own two names.
LEMMA PlacesKeep ==
  ASSUME Apart, IInv, IInv', PlaceInv, NEW r \in Renamers, Frame(r),
         pc[r] \notin Early => pc'[r] \notin Early,
         From[r] \in metadata' => From[r] \in metadata \/ pc[r] = "restore profile",
         ToInv(r)', From[r] \in Kept => HomeInv(From[r])'
  PROVE  PlaceInv'
<1>1. /\ Kept' = Kept /\ Kept \subseteq Existing /\ Existing \subseteq Names /\ had' = had
      /\ From[r] \in Names /\ To[r] \in Names /\ From[r] # To[r]
  BY KeptStays, Distinct, ProfilesAssumption DEF Kept, Frame
<1>2. ASSUME NEW q \in Renamers \ {r}
      PROVE  /\ pc'[q] = pc[q] /\ todo'[q] = todo[q] /\ values'[q] = values[q]
             /\ created'[q] = created[q] /\ deleted'[q] = deleted[q]
             /\ secrets'[To[q]] = secrets[To[q]] /\ (To[q] \in metadata' <=> To[q] \in metadata)
             /\ To[q] \in Names /\ From[q] \in Names /\ From[q] # To[r]
  <2>1. q \in Threads \ {r} /\ To[q] \in Names /\ From[q] \in Names
    BY Distinct
  <2>2. To[q] \notin {From[r], To[r]} /\ From[q] # To[r]
    BY DEF Apart
  <2>3. UNCHANGED <<pc[q], todo[q], values[q], created[q], deleted[q]>>
    BY <2>1 DEF Frame
  <2>4. secrets'[To[q]] = secrets[To[q]] /\ (To[q] \in metadata' <=> To[q] \in metadata)
    BY <2>1, <2>2 DEF Frame
  <2> QED BY <2>1, <2>2, <2>3, <2>4
\* A name in use that is r's target has been refused.
<1>3. ASSUME NEW n \in Names, n # From[r], n \in Existing \/ n # To[r]
      PROVE  secrets'[n] = secrets[n] /\ (n \in metadata' <=> n \in metadata)
  <2>1. CASE n = To[r]
    <3>1. /\ To[r] \in metadata /\ pc[r] \in Early
      BY <1>3, <2>1 DEF IInv, RenameInv, Early
    <3>2. To[r] \in metadata'
      BY <1>3, <2>1 DEF IInv, RenameInv
    <3> QED BY <2>1, <3>1, <3>2 DEF Frame
  <2>2. CASE n # To[r]
    BY <1>3, <2>2 DEF Frame
  <2> QED BY <2>1, <2>2
<1>4. /\ \A n : Quiet(n)' => Quiet(n)
      /\ \A q \in Renamers : Alone(q)' => Alone(q)
      /\ faults' = 0 => faults = 0
  BY QuietBefore
<1>5. ASSUME NEW q \in Renamers
      PROVE  ToInv(q)'
  <2>1. CASE q = r
    BY <2>1
  <2>2. CASE q # r
    <3>1. ToInv(q)
      BY DEF PlaceInv
    <3>2. Quiet(From[q])' => Quiet(From[q])
      BY <1>4
    <3>3. (Alone(q)' => Alone(q)) /\ (faults # 0 => faults' # 0)
      BY <1>4, FaultNumbers DEF Frame
    <3>4. UNCHANGED <<pc[q], todo[q], values[q], created[q], deleted[q], secrets[To[q]]>>
      BY <1>2, <2>2
    <3>5. (To[q] \in metadata' <=> To[q] \in metadata) /\ Kept' = Kept
      BY <1>1, <1>2, <2>2
    <3> QED BY ONLY <3>1, <3>2, <3>3, <3>4, <3>5 DEF ToInv, Present
  <2> QED BY <2>1, <2>2
<1>6. ASSUME NEW n \in Kept
      PROVE  HomeInv(n)'
  <2>1. CASE n = From[r]
    BY <2>1
  <2>2. CASE n # From[r]
    <3>1. secrets'[n] = secrets[n] /\ (n \in metadata' <=> n \in metadata)
      BY <1>1, <1>3, <2>2
    <3>2. HomeInv(n) /\ (Quiet(n)' => Quiet(n))
      BY <1>4 DEF PlaceInv
    <3>3. ASSUME NEW q \in Renamers, From[q] = n
          PROVE  /\ pc'[q] = pc[q] /\ (TakenFrom(q) => TakenFrom(q)') /\ (ReadFrom(q) => ReadFrom(q)')
                 /\ Clear(q)' => Clear(q)
      <4>1. q \in Renamers \ {r}
        BY <2>2, <3>3
      <4>2. /\ pc'[q] = pc[q] /\ todo'[q] = todo[q] /\ values'[q] = values[q] /\ deleted'[q] = deleted[q]
        BY <1>2, <4>1
      <4>3. TakenFrom(q) => TakenFrom(q)'
        BY <1>1, <3>1, <3>3, <4>2 DEF TakenFrom, Gone
      <4>4. ReadFrom(q) => ReadFrom(q)'
        BY <1>1, <3>3, <4>2 DEF ReadFrom
      <4>5. Clear(q)' => Clear(q)
        BY <1>4, <3>1, <3>3 DEF Clear
      <4> QED BY <4>2, <4>3, <4>4, <4>5
    <3> QED BY <1>1, <3>1, <3>2, <3>3 DEF HomeInv
  <2> QED BY <2>1, <2>2
<1>7. OtherInv'
  <2>1. ASSUME NEW n \in metadata'
        PROVE  n \in Existing \/ \E q \in Renamers : To[q] = n
    <3>1. CASE n \in metadata
      BY <3>1 DEF PlaceInv, OtherInv
    <3>2. CASE n \notin metadata /\ n = From[r]
      BY <3>2 DEF ToInv, PlaceInv, IInv, TypeInv, TypeOK, Frame
    <3>3. CASE n \notin metadata /\ n # From[r]
      <4>1. n \in Names
        BY DEF IInv, TypeInv, TypeOK
      <4> QED BY <1>3, <3>3, <4>1
    <3> QED BY <3>1, <3>2, <3>3
  <2>2. ASSUME NEW n \in Names \ Existing, NEW k \in Keys, \A q \in Renamers : To[q] # n
        PROVE  secrets'[n][k] = Missing
    <3>1. secrets'[n] = secrets[n]
      <4>1. CASE n = From[r]
        BY <4>1 DEF PlaceInv, ToInv, Frame, Early
      <4>2. CASE n # From[r]
        BY <1>3, <2>2, <4>2
      <4> QED BY <4>1, <4>2
    <3>2. secrets[n][k] = Missing
      BY <2>2 DEF PlaceInv, OtherInv
    <3> QED BY <3>1, <3>2
  <2>3. ASSUME NEW n \in Existing \ metadata', NEW k \in Keys, \A q \in Renamers : From[q] # n
        PROVE  secrets'[n][k] = Missing
    <3>1. n \in Names /\ secrets'[n] = secrets[n] /\ n \notin metadata
      BY <1>1, <1>3, <2>3
    <3>2. secrets[n][k] = Missing
      BY <2>3, <3>1 DEF PlaceInv, OtherInv
    <3> QED BY <3>1, <3>2
  <2>4. ASSUME NEW d \in Removers, pc'[d] = "logout", ~failed'[d],
               \A q \in Renamers : From[q] # Target[d], NEW k \in Keys \ todo'[d]
        PROVE  secrets'[Target[d]][k] = Missing
    <3>1. Target[d] \in Names /\ secrets'[Target[d]] = secrets[Target[d]]
      BY <1>3, <2>4, ProfilesAssumption DEF Apart
    <3>2. pc'[d] = pc[d] /\ todo'[d] = todo[d] /\ failed'[d] = failed[d]
      BY Distinct DEF Frame, Threads
    <3> QED BY <2>4, <3>1, <3>2 DEF PlaceInv, OtherInv
  <2> QED BY <2>1, <2>2, <2>3, <2>4 DEF OtherInv
<1> QED BY <1>1, <1>5, <1>6, <1>7 DEF PlaceInv

\* A step outside the deletion of the old name leaves the old name as it is.
LEMMA HomeUndisturbed ==
  ASSUME Apart, IInv, IInv', PlaceInv, NEW r \in Renamers, Frame(r), From[r] \in Kept,
         pc[r] \notin Early => pc'[r] \notin Early, pc[r] \notin Later, pc'[r] \notin Later,
         secrets'[From[r]] = secrets[From[r]], From[r] \in metadata' <=> From[r] \in metadata,
         Clear(r) => ReadFrom(r)'
  PROVE  HomeInv(From[r])'
<1> DEFINE n == From[r]
<1>1. HomeInv(n) /\ had' = had
  BY DEF PlaceInv, Frame
<1>2. /\ Quiet(n)' => Quiet(n)
      /\ \A q \in Renamers : Clear(q)' /\ From[q] = n => Clear(q)
  BY QuietBefore DEF Clear
<1>3. ASSUME NEW q \in Renamers, From[q] = n
      PROVE  /\ pc'[q] \in Later <=> pc[q] \in Later
             /\ pc[q] \in Later /\ TakenFrom(q) => TakenFrom(q)'
             /\ q # r /\ ReadFrom(q) => ReadFrom(q)'
  <2>1. CASE q = r
    BY <2>1
  <2>2. CASE q # r
    <3>1. /\ pc'[q] = pc[q] /\ todo'[q] = todo[q] /\ values'[q] = values[q] /\ deleted'[q] = deleted[q]
      BY <2>2, Distinct DEF Frame
    <3>2. TakenFrom(q) => TakenFrom(q)'
      BY <1>1, <1>3, <3>1 DEF TakenFrom, Gone
    <3>3. ReadFrom(q) => ReadFrom(q)'
      BY <1>1, <1>3, <3>1 DEF ReadFrom
    <3> QED BY <3>1, <3>2, <3>3
  <2> QED BY <2>1, <2>2
<1> QED BY <1>1, <1>2, <1>3 DEF HomeInv

\* A rename that takes the profile away is the only one that does.
LEMMA HomeTaken ==
  ASSUME Apart, IInv', NEW r \in Renamers, From[r] \in Kept, Kept' = Kept, pc'[r] \in Later,
         Quiet(From[r])' => TakenFrom(r)'
  PROVE  HomeInv(From[r])'
<1> SUFFICES ASSUME Quiet(From[r])'
             PROVE  \A q \in Renamers : From[q] = From[r] =>
                      (pc'[q] \in Later => TakenFrom(q)') /\ (Clear(q)' => ReadFrom(q)')
  BY DEF HomeInv
<1>1. pc'[r] \notin Early
  BY DEF Early, Later
<1>2. ASSUME NEW q \in Renamers, From[q] = From[r], q # r
      PROVE  pc'[q] \notin Later /\ ~Clear(q)'
  <2>1. CASE faults' = 0
    BY <1>1, <1>2, <2>1 DEF IInv, MoveInv, Later, Clear, Alone
  <2>2. CASE faults' # 0
    BY <1>1, <1>2, <2>2 DEF Quiet, Clear, Alone, Early, Later
  <2> QED BY <2>1, <2>2
<1>3. ReadFrom(r)'
  BY DEF ReadFrom, Later
<1> QED BY <1>2, <1>3

-----------------------------------------------------------------------------
(* Where a profile is: the steps *)

LEMMA CheckNewPlaces ==
  ASSUME Apart, IInv, IInv', PlaceInv, NEW r \in Renamers, Frame(r), RenameCheckNew(r)
  PROVE  PlaceInv'
<1>1. /\ pc[r] = "new" /\ UNCHANGED <<metadata, secrets, todo, values, created, deleted, had>>
      /\ pc'[r] \in {"source", "refused"}
  BY GotoFacts, Known DEF RenameCheckNew, stores, locals, Labels, Early
<1>2. pc'[r] \in Early /\ pc'[r] \notin Later /\ pc[r] \notin Later /\ pc[r] \in Early
  BY <1>1 DEF Early, Later
<1>3. ToInv(r)'
  BY <1>1, <1>2 DEF PlaceInv, ToInv, Early, Later
<1>4. ASSUME From[r] \in Kept PROVE HomeInv(From[r])'
  <2>1. ReadFrom(r)'
    BY <1>1 DEF ReadFrom
  <2> QED BY <1>1, <1>2, <1>4, <2>1, HomeUndisturbed
<1> QED BY <1>1, <1>2, <1>3, <1>4, PlacesKeep

LEMMA CheckOldPlaces ==
  ASSUME Apart, IInv, IInv', PlaceInv, NEW r \in Renamers, Frame(r), RenameCheckOld(r)
  PROVE  PlaceInv'
<1>1. /\ pc[r] = "source" /\ UNCHANGED <<metadata, secrets, values, created, deleted, had>>
      /\ pc'[r] \in {"probe", "refused"}
      /\ pc'[r] = "probe" => From[r] \in metadata /\ todo'[r] = Keys
  BY GotoFacts, Known DEF RenameCheckOld, stores, Labels, Early
<1>2. pc'[r] \in Early /\ pc'[r] \notin Later /\ pc[r] \notin Later /\ pc[r] \in Early
  BY <1>1 DEF Early, Later
<1>3. ToInv(r)'
  <2>1. pc'[r] = "probe" => From[r] \in Existing
    BY <1>1 DEF PlaceInv, OtherInv, Apart
  <2> QED BY <1>1, <1>2, <2>1 DEF PlaceInv, ToInv, Early, Later
<1>4. ASSUME From[r] \in Kept PROVE HomeInv(From[r])'
  <2>1. ReadFrom(r)'
    BY <1>1 DEF ReadFrom
  <2> QED BY <1>1, <1>2, <1>4, <2>1, HomeUndisturbed
<1> QED BY <1>1, <1>2, <1>3, <1>4, PlacesKeep

LEMMA ProbePlaces ==
  ASSUME Apart, IInv, IInv', PlaceInv, NEW r \in Renamers, Frame(r), RenameProbe(r)
  PROVE  PlaceInv'
<1>1. /\ pc[r] = "probe" /\ UNCHANGED <<metadata, secrets, todo, values, created, deleted, had>>
      /\ pc'[r] \in {"read", "refused"}
  BY GotoFacts, Known DEF RenameProbe, stores, locals, Labels, Early
<1>2. pc'[r] \in Early /\ pc'[r] \notin Later /\ pc[r] \notin Later /\ pc[r] \in Early
  BY <1>1 DEF Early, Later
<1>3. ToInv(r)'
  BY <1>1, <1>2 DEF PlaceInv, ToInv, Early, Later
<1>4. ASSUME From[r] \in Kept PROVE HomeInv(From[r])'
  <2>1. ASSUME Clear(r) PROVE ReadFrom(r)'
    <3>1. ReadFrom(r)
      BY <1>2, <1>4, <2>1, ClearHome DEF PlaceInv, HomeInv
    <3> QED BY <1>1, <3>1 DEF ReadFrom
  <2> QED BY <1>1, <1>2, <1>4, <2>1, HomeUndisturbed
<1> QED BY <1>1, <1>2, <1>3, <1>4, PlacesKeep

LEMMA ReadPlaces ==
  ASSUME Apart, IInv, IInv', PlaceInv, NEW r \in Renamers, Frame(r), RenameRead(r)
  PROVE  PlaceInv'
<1> DEFINE k == First(todo[r])
<1>1. /\ pc[r] = "read" /\ UNCHANGED <<metadata, secrets, created, deleted, had>>
      /\ k \in todo[r]
      /\ \/ /\ values' = [values EXCEPT ![r][k] = secrets[From[r]][k]]
            /\ todo' = [todo EXCEPT ![r] = @ \ {k}]
            /\ Goto(r, IF todo'[r] = {} THEN "put" ELSE "probe")
         \/ Goto(r, "refused")
  BY Known DEF RenameRead, stores, Visit
<1>2. k \in Keys
  BY <1>1, Known
<1> HIDE DEF k
<1>3. /\ pc'[r] \in {"probe", "put", "refused"} /\ (pc'[r] = "put" => todo'[r] = {})
      /\ pc'[r] # "refused" => /\ values' = [values EXCEPT ![r][k] = secrets[From[r]][k]]
                               /\ todo'[r] = todo[r] \ {k}
  <2>1. CASE /\ values' = [values EXCEPT ![r][k] = secrets[From[r]][k]]
             /\ todo' = [todo EXCEPT ![r] = @ \ {k}]
             /\ Goto(r, IF todo'[r] = {} THEN "put" ELSE "probe")
    <3>1. "put" \in Labels /\ "probe" \in Labels
      BY DEF Labels, Early
    <3>2. todo'[r] = todo[r] \ {k}
      BY <2>1, Known
    <3>3. CASE todo'[r] = {}
      BY <2>1, <3>1, <3>2, <3>3, GotoFacts, Known
    <3>4. CASE todo'[r] # {}
      BY <2>1, <3>1, <3>2, <3>4, GotoFacts, Known
    <3> QED BY <3>3, <3>4
  <2>2. CASE Goto(r, "refused")
    <3>1. "refused" \in Labels
      BY DEF Labels, Early
    <3> QED BY <2>2, <3>1, GotoFacts, Known
  <2> QED BY <1>1, <2>1, <2>2
<1>5. pc'[r] \in Early /\ pc'[r] \notin Later /\ pc[r] \notin Later /\ pc[r] \in Early
  BY <1>1, <1>3 DEF Early, Later
<1>6. ToInv(r)'
  BY <1>1, <1>3, <1>5 DEF PlaceInv, ToInv, Early, Later
<1>7. ASSUME From[r] \in Kept PROVE HomeInv(From[r])'
  <2>1. ASSUME Clear(r), pc'[r] # "refused"
        PROVE  \A j \in Keys \ todo'[r] : values'[r][j] = had[From[r]][j]
    <3>1. /\ Quiet(From[r]) /\ \A j \in Keys : secrets[From[r]][j] = had[From[r]][j]
      BY <1>5, <1>7, <2>1, ClearHome
    <3>2. \A j \in Keys \ todo[r] : values[r][j] = had[From[r]][j]
      BY <1>1, <1>7, <2>1, <3>1 DEF PlaceInv, HomeInv, ReadFrom
    <3>3. /\ values'[r][k] = secrets[From[r]][k]
          /\ \A j \in Keys \ {k} : values'[r][j] = values[r][j]
      BY <1>2, <1>3, <2>1, Known
    <3> QED BY <1>2, <1>3, <2>1, <3>1, <3>2, <3>3
  <2>2. Clear(r) => ReadFrom(r)'
    BY <1>1, <1>3, <2>1 DEF ReadFrom
  <2> QED BY <1>1, <1>5, <1>7, <2>2, HomeUndisturbed
<1> QED BY <1>1, <1>5, <1>6, <1>7, PlacesKeep

LEMMA PutPlaces ==
  ASSUME Apart, IInv, IInv', PlaceInv, NEW r \in Renamers, Frame(r), RenamePut(r)
  PROVE  PlaceInv'
<1>1. /\ pc[r] = "put" /\ UNCHANGED <<secrets, values, created, deleted, had>>
      /\ pc'[r] \in {"copy", "refused"}
      /\ IF pc'[r] = "copy" THEN metadata' = metadata \cup {To[r]} ELSE metadata' = metadata
  BY GotoFacts, Known DEF RenamePut, Labels, Early
<1>2. pc'[r] \notin Later /\ pc[r] \notin Later /\ pc[r] \in Early
  BY <1>1 DEF Early, Later
<1>3. From[r] \in metadata' <=> From[r] \in metadata
  BY <1>1, Known
<1>4. ToInv(r)'
  <2>1. pc'[r] = "copy" => pc'[r] \notin Early
    BY DEF Early
  <2> QED BY <1>1, <1>2, <2>1 DEF PlaceInv, ToInv
<1>5. ASSUME From[r] \in Kept PROVE HomeInv(From[r])'
  <2>1. ASSUME Clear(r) PROVE ReadFrom(r)'
    <3>1. ReadFrom(r)
      BY <1>2, <1>5, <2>1, ClearHome DEF PlaceInv, HomeInv
    <3> QED BY <1>1, <3>1 DEF ReadFrom
  <2> QED BY <1>1, <1>2, <1>3, <1>5, <2>1, HomeUndisturbed
<1> QED BY <1>1, <1>2, <1>3, <1>4, <1>5, PlacesKeep

\* What it takes to begin the undoing of the new name.
LEMMA UndoPlaces ==
  ASSUME Apart, IInv, IInv', PlaceInv, NEW r \in Renamers, Frame(r), UndoNew(r),
         pc[r] \notin Early, UNCHANGED <<metadata, secrets, values, created>>,
         From[r] \in Kept /\ Alone(r)' => faults' # 0
  PROVE  ToInv(r)'
<1>1. pc'[r] = "undo" /\ todo'[r] = created[r] /\ pc'[r] \notin Early
  BY UndoNewGoes, Known DEF UndoNew, Created, Goes, Early
<1>2. To[r] \notin Existing /\ From[r] \in Existing
  BY DEF PlaceInv, ToInv, IInv, RenameInv, Early
<1>3. \A k \in Keys \ created[r] : secrets[To[r]][k] = Missing
  BY <1>2 DEF PlaceInv, ToInv
<1>4. pc'[r] \notin Later \cup {"copy"}
  BY <1>1 DEF Later
<1>5. Kept' = Kept
  BY KeptStays
<1> QED BY <1>1, <1>2, <1>3, <1>4, <1>5 DEF ToInv

LEMMA CopyPlaces ==
  ASSUME Apart, IInv, IInv', PlaceInv, NEW r \in Renamers, Frame(r), RenameCopy(r)
  PROVE  PlaceInv'
<1> DEFINE k == First(todo[r])
<1>1. /\ pc[r] = "copy" /\ UNCHANGED <<metadata, values, deleted, failed, had>> /\ k \in todo[r]
      /\ \/ /\ SetSecret(To[r], k, values[r][k]) /\ pc' = pc
            /\ created' = [created EXCEPT ![r] = @ \cup {k}]
         \/ Fails /\ UndoNew(r) /\ UNCHANGED <<secrets, created>>
  BY Known DEF RenameCopy
<1>2. k \in Keys /\ values[r][k] \in Secret
  BY <1>1, Known
<1> HIDE DEF k
<1>3. pc[r] \notin Early /\ pc[r] \notin Later
  BY <1>1 DEF Early, Later
<1>4. CASE /\ SetSecret(To[r], k, values[r][k]) /\ pc' = pc
           /\ created' = [created EXCEPT ![r] = @ \cup {k}]
  <2>1. /\ secrets'[From[r]] = secrets[From[r]]
        /\ \A j \in Keys \ {k} : secrets'[To[r]][j] = secrets[To[r]][j]
    BY <1>2, <1>4, Known, SetFacts
  <2>2. created'[r] = created[r] \cup {k} /\ pc'[r] = "copy"
    BY <1>1, <1>4, Known
  <2>3. ToInv(r)'
    BY <1>1, <1>3, <2>1, <2>2 DEF PlaceInv, ToInv
  <2>4. ASSUME From[r] \in Kept PROVE HomeInv(From[r])'
    <3>1. ASSUME Clear(r) PROVE ReadFrom(r)'
      <4>1. ReadFrom(r)
        BY <1>3, <2>4, <3>1, ClearHome DEF PlaceInv, HomeInv
      <4> QED BY <1>1, <2>2, <4>1 DEF ReadFrom
    <3> QED BY <1>1, <1>3, <1>4, <2>1, <2>4, <3>1, HomeUndisturbed
  <2> QED BY <1>1, <1>4, <2>3, <2>4, PlacesKeep
<1>5. CASE Fails /\ UndoNew(r) /\ UNCHANGED <<secrets, created>>
  <2>1. pc'[r] = "undo" /\ pc'[r] \notin Early /\ pc'[r] \notin Later
    BY <1>5, UndoNewGoes DEF Goes, Early, Later
  <2>2. faults' # 0
    BY <1>5, FaultNumbers DEF Fails
  <2>3. ToInv(r)'
    BY <1>1, <1>3, <1>5, <2>2, UndoPlaces
  <2>4. ReadFrom(r)'
    BY <2>1 DEF ReadFrom
  <2>5. ASSUME From[r] \in Kept PROVE HomeInv(From[r])'
    BY <1>1, <1>3, <1>5, <2>1, <2>4, <2>5, HomeUndisturbed
  <2> QED BY <1>1, <2>1, <2>3, <2>5, PlacesKeep
<1> QED BY <1>1, <1>4, <1>5

LEMMA DeleteOldPlaces ==
  ASSUME Apart, IInv, IInv', PlaceInv, NEW r \in Renamers, Frame(r), RenameDeleteOld(r)
  PROVE  PlaceInv'
<1>1. /\ pc[r] = "copy" /\ UNCHANGED <<secrets, values, created, deleted, failed, had>>
      /\ \/ /\ From[r] \in metadata /\ metadata' = metadata \ {From[r]} /\ Goto(r, "delete")
         \/ /\ (Works /\ From[r] \notin metadata) \/ Fails
            /\ UndoNew(r) /\ UNCHANGED metadata
  BY DEF RenameDeleteOld, StillThere
<1>2. pc[r] \notin Early /\ pc[r] \notin Later /\ Kept' = Kept
  BY <1>1, KeptStays DEF Early, Later
<1>3. CASE From[r] \in metadata /\ metadata' = metadata \ {From[r]} /\ Goto(r, "delete")
  <2>1. pc'[r] = "delete" /\ pc'[r] \in Later /\ pc'[r] \notin Early
    <3>1. "delete" \in Labels
      BY DEF Labels, Later
    <3>2. pc'[r] = "delete"
      BY <1>3, <3>1, GotoFacts, Known
    <3> QED BY <3>2 DEF Early, Later
  <2>2. To[r] \in metadata' <=> To[r] \in metadata
    BY <1>3, Known
  <2>3. ToInv(r)'
    BY <1>1, <1>2, <2>1, <2>2 DEF PlaceInv, ToInv
  <2>4. ASSUME From[r] \in Kept PROVE HomeInv(From[r])'
    <3>1. ASSUME Quiet(From[r])' PROVE TakenFrom(r)'
      <4>1. Clear(r)
        <5>1. Quiet(From[r])
          BY <2>1, <3>1, QuietBefore
        <5> QED BY <1>2, <1>3, <5>1 DEF Quiet, Clear, Alone
      <4>2. Quiet(From[r]) /\ \A k \in Keys : secrets[From[r]][k] = had[From[r]][k]
        BY <1>2, <2>4, <4>1, ClearHome
      <4>3. \A k \in Keys : values[r][k] = had[From[r]][k]
        BY <1>1, <2>4, <4>1, <4>2 DEF PlaceInv, HomeInv, ReadFrom
      <4>4. deleted[r] = {}
        BY <1>1 DEF IInv, RenameInv
      <4> QED BY <1>1, <1>3, <2>1, <4>2, <4>3, <4>4 DEF TakenFrom, Gone
    <3> QED BY <1>2, <2>1, <2>4, <3>1, HomeTaken
  <2> QED BY <1>1, <1>3, <2>1, <2>3, <2>4, PlacesKeep
<1>4. CASE /\ (Works /\ From[r] \notin metadata) \/ Fails
           /\ UndoNew(r) /\ UNCHANGED metadata
  <2>1. pc'[r] = "undo" /\ pc'[r] \notin Early /\ pc'[r] \notin Later
    BY <1>4, UndoNewGoes DEF Goes, Early, Later
  <2>2. ASSUME From[r] \in Kept, Alone(r)' PROVE faults' # 0
    <3>1. From[r] \in metadata
      BY <1>2, <2>1, <2>2, QuietBefore, ClearHome DEF Clear
    <3> QED BY <1>4, <3>1, FaultNumbers DEF Fails
  <2>3. ToInv(r)'
    BY <1>1, <1>2, <1>4, <2>2, UndoPlaces
  <2>4. ReadFrom(r)'
    BY <2>1 DEF ReadFrom
  <2>5. ASSUME From[r] \in Kept PROVE HomeInv(From[r])'
    BY <1>1, <1>2, <1>4, <2>1, <2>4, <2>5, HomeUndisturbed
  <2> QED BY <1>1, <1>4, <2>1, <2>3, <2>5, PlacesKeep
<1> QED BY <1>1, <1>3, <1>4

\* While the deletion of the old name is under way, the new name stays as it is.
LEMMA TargetStays ==
  ASSUME IInv, PlaceInv, NEW r \in Renamers, Frame(r), pc[r] \in Later, pc'[r] \in Later,
         pc'[r] = "renamed" => deleted'[r] = Present(values'[r]),
         secrets'[To[r]] = secrets[To[r]], created' = created,
         To[r] \in metadata' <=> To[r] \in metadata
  PROVE  ToInv(r)'
<1>1. /\ pc[r] \notin {"new", "source", "refused"} /\ pc'[r] \notin Early
      /\ pc'[r] \notin {"undo", "failed"}
  BY DEF Later, Early
<1> QED BY <1>1 DEF PlaceInv, ToInv

LEMMA DeletePlaces ==
  ASSUME Apart, IInv, IInv', PlaceInv, NEW r \in Renamers, Frame(r), RenameDelete(r)
  PROVE  PlaceInv'
<1> DEFINE k == First(todo[r])
<1>1. /\ pc[r] = "delete" /\ UNCHANGED <<metadata, values, created, failed, had>> /\ k \in todo[r]
      /\ \/ /\ SetSecret(From[r], k, Missing) /\ pc' = pc
            /\ deleted' = [deleted EXCEPT ![r] = @ \cup {k}]
         \/ Goto(r, "restore profile") /\ UNCHANGED <<secrets, todo, deleted>>
  BY Known DEF RenameDelete
<1>2. k \in Keys /\ pc[r] \in Later /\ Kept' = Kept
  BY <1>1, Known, KeptStays DEF Later
<1> HIDE DEF k
<1>3. /\ secrets'[To[r]] = secrets[To[r]] /\ pc'[r] \in {"delete", "restore profile"}
      /\ \/ pc'[r] = "restore profile" /\ UNCHANGED <<secrets, deleted>>
         \/ /\ pc'[r] = "delete" /\ secrets'[From[r]][k] = Missing
            /\ \A j \in Keys \ {k} : secrets'[From[r]][j] = secrets[From[r]][j]
            /\ deleted'[r] = deleted[r] \cup {k}
  <2>1. CASE SetSecret(From[r], k, Missing) /\ pc' = pc /\ deleted' = [deleted EXCEPT ![r] = @ \cup {k}]
    <3>1. /\ secrets'[From[r]][k] = Missing /\ secrets'[To[r]] = secrets[To[r]]
          /\ \A j \in Keys \ {k} : secrets'[From[r]][j] = secrets[From[r]][j]
      BY <1>2, <2>1, Known, SetFacts
    <3>2. pc'[r] = "delete" /\ deleted'[r] = deleted[r] \cup {k}
      BY <1>1, <2>1, Known
    <3> QED BY <3>1, <3>2
  <2>2. CASE Goto(r, "restore profile") /\ UNCHANGED <<secrets, todo, deleted>>
    <3>1. "restore profile" \in Labels
      BY DEF Labels, Later
    <3> QED BY <2>2, <3>1, GotoFacts, Known
  <2> QED BY <1>1, <2>1, <2>2
<1>4. pc'[r] \in Later /\ pc'[r] \notin Early /\ pc'[r] # "renamed"
  BY <1>3 DEF Later, Early
<1>5. ToInv(r)'
  BY <1>1, <1>2, <1>3, <1>4, TargetStays
<1>6. ASSUME From[r] \in Kept PROVE HomeInv(From[r])'
  <2>1. ASSUME Quiet(From[r])' PROVE TakenFrom(r)'
    <3>1. TakenFrom(r)
      BY <1>2, <1>4, <1>6, <2>1, QuietBefore DEF PlaceInv, HomeInv
    <3> QED BY <1>1, <1>2, <1>3, <3>1 DEF TakenFrom, Gone
  <2> QED BY <1>2, <1>4, <1>6, <2>1, HomeTaken
<1> QED BY <1>1, <1>4, <1>5, <1>6, PlacesKeep

LEMMA DonePlaces ==
  ASSUME Apart, IInv, IInv', PlaceInv, NEW r \in Renamers, Frame(r), RenameDone(r)
  PROVE  PlaceInv'
<1>1. /\ pc[r] = "delete" /\ todo[r] = {} /\ Goto(r, "renamed")
      /\ UNCHANGED <<metadata, secrets, todo, values, created, deleted, had>>
  BY DEF RenameDone, stores, locals
<1>2. pc'[r] = "renamed" /\ pc'[r] \in Later /\ pc'[r] \notin Early /\ pc[r] \in Later /\ Kept' = Kept
  <2>1. "renamed" \in Labels
    BY DEF Labels, Later
  <2>2. pc'[r] = "renamed"
    BY <1>1, <2>1, GotoFacts, Known
  <2> QED BY <1>1, <2>2, KeptStays DEF Later, Early
<1>3. deleted'[r] = Present(values'[r])
  <2>1. Present(values'[r]) = Present(values[r])
    BY <1>1
  <2> QED BY <1>1, <1>2, <2>1, Known DEF RenameInv
<1>4. ToInv(r)'
  BY <1>1, <1>2, <1>3, TargetStays
<1>5. ASSUME From[r] \in Kept PROVE HomeInv(From[r])'
  <2>1. ASSUME Quiet(From[r])' PROVE TakenFrom(r)'
    <3>1. TakenFrom(r)
      BY <1>2, <1>5, <2>1, QuietBefore DEF PlaceInv, HomeInv
    <3> QED BY <1>1, <1>2, <3>1 DEF TakenFrom, Gone
  <2> QED BY <1>2, <1>5, <2>1, HomeTaken
<1> QED BY <1>1, <1>2, <1>4, <1>5, PlacesKeep

LEMMA RestoreProfilePlaces ==
  ASSUME Apart, IInv, IInv', PlaceInv, NEW r \in Renamers, Frame(r), RestoreProfile(r)
  PROVE  PlaceInv'
<1>1. /\ pc[r] = "restore profile" /\ Goto(r, "restore")
      /\ \/ Works /\ metadata' = metadata \cup {From[r]}
         \/ Fails /\ metadata' = metadata
      /\ todo' = [todo EXCEPT ![r] = deleted[r]]
      /\ UNCHANGED <<secrets, values, created, deleted, had>>
  BY DEF RestoreProfile, Deleted
<1>2. /\ pc'[r] = "restore" /\ todo'[r] = deleted[r]
      /\ pc'[r] \in Later /\ pc'[r] \notin Early /\ pc[r] \in Later /\ Kept' = Kept
  <2>1. "restore" \in Labels
    BY DEF Labels, Later
  <2>2. pc'[r] = "restore" /\ todo'[r] = deleted[r]
    BY <1>1, <2>1, GotoFacts, Known
  <2> QED BY <1>1, <2>2, KeptStays DEF Later, Early
<1>3. To[r] \in metadata' <=> To[r] \in metadata
  BY <1>1, Known
<1>4. ToInv(r)'
  BY <1>1, <1>2, <1>3, TargetStays
<1>5. ASSUME From[r] \in Kept PROVE HomeInv(From[r])'
  <2>1. ASSUME Quiet(From[r])' PROVE TakenFrom(r)'
    <3>1. TakenFrom(r)
      BY <1>2, <1>5, <2>1, QuietBefore DEF PlaceInv, HomeInv
    <3>2. From[r] \in metadata'
      <4>1. faults # 0
        BY <1>1, <1>5, BackMeansFault DEF Back
      <4>2. ~Fails
        BY <4>1, FaultNumbers DEF Fails, Apart
      <4> QED BY <1>1, <4>2
    <3> QED BY <1>1, <1>2, <3>1, <3>2 DEF TakenFrom, Gone
  <2> QED BY <1>2, <1>5, <2>1, HomeTaken
<1> QED BY <1>1, <1>2, <1>4, <1>5, PlacesKeep

LEMMA RestoreSecretPlaces ==
  ASSUME Apart, IInv, IInv', PlaceInv, NEW r \in Renamers, Frame(r), RestoreSecret(r)
  PROVE  PlaceInv'
<1> DEFINE k == First(todo[r])
<1>1. /\ pc[r] = "restore" /\ k \in todo[r] /\ todo' = [todo EXCEPT ![r] = @ \ {k}]
      /\ \/ Works /\ SetSecret(From[r], k, values[r][k])
         \/ Fails /\ UNCHANGED secrets
      /\ UNCHANGED <<metadata, pc, values, created, deleted, had>>
  BY Known DEF RestoreSecret, Visit
<1>2. /\ k \in Keys /\ values[r][k] \in Secret /\ todo'[r] = todo[r] \ {k}
      /\ pc[r] \in Later /\ pc'[r] \in Later /\ pc[r] \notin Early /\ Kept' = Kept
  BY <1>1, Known, KeptStays DEF Later, Early
<1> HIDE DEF k
<1>3. /\ secrets'[To[r]] = secrets[To[r]]
      /\ Works /\ ~Fails => /\ secrets'[From[r]][k] = values[r][k]
                            /\ \A j \in Keys \ {k} : secrets'[From[r]][j] = secrets[From[r]][j]
  BY <1>1, <1>2, Known, SetFacts
<1>4. ToInv(r)'
  BY <1>1, <1>2, <1>3, TargetStays
<1>5. ASSUME From[r] \in Kept PROVE HomeInv(From[r])'
  <2>1. ASSUME Quiet(From[r])' PROVE TakenFrom(r)'
    <3>1. TakenFrom(r)
      BY <1>1, <1>2, <1>5, <2>1, QuietBefore DEF PlaceInv, HomeInv
    <3>2. Works /\ ~Fails
      <4>1. faults # 0
        BY <1>1, <1>5, BackMeansFault DEF Back
      <4>2. ~Fails
        BY <4>1, FaultNumbers DEF Fails, Apart
      <4> QED BY <1>1, <4>2
    <3> QED BY <1>1, <1>2, <1>3, <3>1, <3>2 DEF TakenFrom, Gone
  <2> QED BY <1>2, <1>5, <2>1, HomeTaken
<1> QED BY <1>1, <1>2, <1>4, <1>5, PlacesKeep

LEMMA RestoreDonePlaces ==
  ASSUME Apart, IInv, IInv', PlaceInv, NEW r \in Renamers, Frame(r), RestoreDone(r)
  PROVE  PlaceInv'
<1>1. /\ pc[r] = "restore" /\ todo[r] = {} /\ UndoNew(r)
      /\ UNCHANGED <<metadata, secrets, values, created, deleted, failed, faults, had>>
  BY DEF RestoreDone, stores
<1>2. /\ pc'[r] = "undo" /\ pc'[r] \notin Early /\ pc'[r] \notin Later
      /\ pc[r] \notin Early /\ pc[r] \in Later /\ Kept' = Kept
  BY <1>1, UndoNewGoes, KeptStays DEF Goes, Early, Later
<1>3. ASSUME From[r] \in Kept PROVE faults' # 0
  BY <1>1, <1>3 DEF IInv, MoveInv
<1>4. ToInv(r)'
  BY <1>1, <1>2, <1>3, UndoPlaces
<1>5. ASSUME From[r] \in Kept PROVE HomeInv(From[r])'
  <2>1. SUFFICES ASSUME Quiet(From[r])'
                 PROVE  /\ From[r] \in metadata /\ \A k \in Keys : secrets[From[r]][k] = had[From[r]][k]
                        /\ \A q \in Renamers : From[q] = From[r] =>
                             pc'[q] \notin Later /\ (Clear(q)' => ReadFrom(q)')
    BY <1>1 DEF HomeInv
  <2>2. TakenFrom(r)
    BY <1>2, <1>5, <2>1, QuietBefore DEF PlaceInv, HomeInv
  <2>3. From[r] \in metadata /\ \A k \in Keys : secrets[From[r]][k] = had[From[r]][k]
    BY <1>1, <2>2 DEF TakenFrom, Gone
  <2>4. ASSUME NEW q \in Renamers, From[q] = From[r], q # r
        PROVE  pc'[q] \notin Later /\ ~Clear(q)'
    BY <1>2, <1>3, <1>5, <2>1, <2>4 DEF Quiet, Clear, Alone, Early, Later
  <2>5. ReadFrom(r)'
    BY <1>2 DEF ReadFrom
  <2> QED BY <1>2, <2>3, <2>4, <2>5
<1> QED BY <1>1, <1>2, <1>4, <1>5, PlacesKeep

\* Going back from one failed operation, or from none at all, no second one fails.
LEMMA UndoWorks ==
  ASSUME Apart, IInv, IInv', PlaceInv, NEW r \in Renamers, Frame(r), pc[r] = "undo",
         pc'[r] \notin Early, From[r] \in Kept, Quiet(From[r])', Fails \/ Works
  PROVE  Quiet(From[r]) /\ Works /\ ~Fails
<1>1. Quiet(From[r]) /\ (Alone(r)' => Alone(r))
  BY QuietBefore
<1>2. ASSUME Fails PROVE FALSE
  <2>1. faults = 0 /\ faults' # 0
    BY <1>2, FaultNumbers DEF Fails, Apart
  <2>2. Alone(r)'
    BY <2>1 DEF Quiet, Alone
  <2> QED BY <1>1, <2>1, <2>2 DEF PlaceInv, ToInv
<1> QED BY <1>1, <1>2

LEMMA UndoSecretPlaces ==
  ASSUME Apart, IInv, IInv', PlaceInv, NEW r \in Renamers, Frame(r), UndoSecret(r)
  PROVE  PlaceInv'
<1> DEFINE k == First(todo[r])
<1>1. /\ pc[r] = "undo" /\ k \in todo[r] /\ todo' = [todo EXCEPT ![r] = @ \ {k}]
      /\ \/ Works /\ SetSecret(To[r], k, Missing)
         \/ Fails /\ UNCHANGED secrets
      /\ UNCHANGED <<metadata, pc, values, created, deleted, had>>
  BY Known DEF UndoSecret, Visit
<1>2. /\ k \in Keys /\ todo'[r] = todo[r] \ {k} /\ Kept' = Kept
      /\ pc[r] \notin Later /\ pc'[r] \notin Later /\ pc[r] \notin Early /\ pc'[r] \notin Early
  BY <1>1, Known, KeptStays DEF Later, Early
<1> HIDE DEF k
<1>3. /\ secrets'[From[r]] = secrets[From[r]]
      /\ \A j \in Keys \ {k} : secrets'[To[r]][j] = secrets[To[r]][j]
      /\ secrets'[To[r]][k] \in {secrets[To[r]][k], Missing}
      /\ Works /\ ~Fails => secrets'[To[r]][k] = Missing
  BY <1>1, <1>2, Known, SetFacts
<1>4. ToInv(r)'
  <2>1. /\ From[r] \in Existing /\ To[r] \notin Existing
        /\ \A j \in Keys \ created'[r] : secrets'[To[r]][j] = Missing
    BY <1>1, <1>2, <1>3 DEF PlaceInv, ToInv, IInv, RenameInv
  <2>2. ASSUME From[r] \in Kept, Quiet(From[r])'
        PROVE  /\ Alone(r)' => faults' # 0
               /\ \A j \in Keys \ todo'[r] : secrets'[To[r]][j] = Missing
    <3>1. Quiet(From[r]) /\ Works /\ ~Fails
      BY <1>1, <1>2, <2>2, UndoWorks
    <3>2. /\ Alone(r) => faults # 0
          /\ \A j \in Keys \ todo[r] : secrets[To[r]][j] = Missing
      BY <1>1, <2>2, <3>1 DEF PlaceInv, ToInv
    <3>3. Alone(r)' => Alone(r)
      BY <1>2, QuietBefore
    <3>4. Alone(r)' => faults' # 0
      BY <3>1, <3>2, <3>3 DEF Works
    <3> QED BY <1>2, <1>3, <3>1, <3>2, <3>4
  <2> QED BY <1>1, <1>2, <2>1, <2>2 DEF ToInv
<1>5. ReadFrom(r)'
  BY <1>1 DEF ReadFrom
<1>6. ASSUME From[r] \in Kept PROVE HomeInv(From[r])'
  BY <1>1, <1>2, <1>3, <1>5, <1>6, HomeUndisturbed
<1> QED BY <1>1, <1>2, <1>4, <1>6, PlacesKeep

LEMMA UndoProfilePlaces ==
  ASSUME Apart, IInv, IInv', PlaceInv, NEW r \in Renamers, Frame(r), UndoProfile(r)
  PROVE  PlaceInv'
<1>1. /\ pc[r] = "undo" /\ todo[r] = {} /\ Goto(r, "failed")
      /\ \/ Works /\ metadata' = metadata \ {To[r]}
         \/ Fails /\ metadata' = metadata
      /\ UNCHANGED <<secrets, todo, values, created, deleted, had>>
  BY DEF UndoProfile, locals
<1>2. /\ pc'[r] = "failed" /\ pc'[r] \notin Early /\ pc'[r] \notin Later /\ Kept' = Kept
      /\ pc[r] \notin Early /\ pc[r] \notin Later
  <2>1. "failed" \in Labels
    BY DEF Labels, Undoing
  <2>2. pc'[r] = "failed"
    BY <1>1, <2>1, GotoFacts, Known
  <2> QED BY <1>1, <2>2, KeptStays DEF Early, Later
<1>3. From[r] \in metadata' <=> From[r] \in metadata
  BY <1>1, Known
<1>4. ToInv(r)'
  <2>1. /\ From[r] \in Existing /\ To[r] \notin Existing
        /\ \A j \in Keys \ created'[r] : secrets'[To[r]][j] = Missing
    BY <1>1 DEF PlaceInv, ToInv, IInv, RenameInv
  <2>2. ASSUME From[r] \in Kept, Quiet(From[r])'
        PROVE  To[r] \notin metadata' /\ \A j \in Keys : secrets'[To[r]][j] = Missing
    <3>1. Quiet(From[r]) /\ Works /\ ~Fails
      BY <1>1, <1>2, <2>2, UndoWorks
    <3>2. \A j \in Keys \ todo[r] : secrets[To[r]][j] = Missing
      BY <1>1, <2>2, <3>1 DEF PlaceInv, ToInv
    <3> QED BY <1>1, <3>1, <3>2
  <2> QED BY <1>1, <1>2, <2>1, <2>2 DEF ToInv
<1>5. ReadFrom(r)'
  BY <1>2 DEF ReadFrom
<1>6. ASSUME From[r] \in Kept PROVE HomeInv(From[r])'
  BY <1>1, <1>2, <1>3, <1>5, <1>6, HomeUndisturbed
<1> QED BY <1>1, <1>2, <1>3, <1>4, <1>6, PlacesKeep

\* What a removal has deleted is gone, and the profile goes only when all of it is.
LEMMA RemoveClears ==
  ASSUME IInv, PlaceInv, NEW d \in Removers, Remove(d), \A r \in Renamers : From[r] # Target[d]
  PROVE  /\ pc'[d] = "logout" /\ ~failed'[d] =>
              \A k \in Keys \ todo'[d] : secrets'[Target[d]][k] = Missing
         /\ Target[d] \in metadata /\ Target[d] \notin metadata' =>
              \A k \in Keys : secrets'[Target[d]][k] = Missing
<1>1. /\ d \in Threads /\ Target[d] \in Names /\ Missing \in Secret
      /\ pc \in [Threads -> Labels] /\ todo \in [Threads -> SUBSET Keys] /\ todo[d] \subseteq Keys
      /\ secrets \in [Names -> [Keys -> Secret]] /\ failed \in [Removers -> BOOLEAN]
  BY ProfilesAssumption DEF IInv, TypeInv, TypeOK, Threads, Secret
<1>2. pc[d] = "logout" /\ ~failed[d] => \A k \in Keys \ todo[d] : secrets[Target[d]][k] = Missing
  BY DEF PlaceInv, OtherInv
<1>3. CASE RemoveBegin(d)
  <2>1. todo'[d] = Keys /\ UNCHANGED <<metadata, failed>>
    BY <1>1, <1>3 DEF RemoveBegin, stores
  <2> QED BY <2>1
<1>4. CASE LogoutKey(d)
  <2> DEFINE k == First(todo[d])
  <2>1. /\ pc[d] = "logout" /\ k \in todo[d] /\ Visit(d, k) /\ UNCHANGED metadata
        /\ \/ SetSecret(Target[d], k, Missing) /\ UNCHANGED failed
           \/ failed' = [failed EXCEPT ![d] = TRUE] /\ UNCHANGED secrets
    BY <1>1, <1>4, FirstIsLeft DEF LogoutKey
  <2>2. k \in Keys /\ todo'[d] = todo[d] \ {k}
    BY <1>1, <2>1 DEF Visit
  <2> HIDE DEF k
  <2>3. CASE SetSecret(Target[d], k, Missing) /\ UNCHANGED failed
    <3>1. /\ secrets'[Target[d]][k] = Missing
          /\ \A j \in Keys \ {k} : secrets'[Target[d]][j] = secrets[Target[d]][j]
      BY <1>1, <2>2, <2>3, SetFacts
    <3> QED BY <1>2, <2>1, <2>2, <2>3, <3>1
  <2>4. CASE failed' = [failed EXCEPT ![d] = TRUE] /\ UNCHANGED secrets
    BY <1>1, <2>1, <2>4
  <2> QED BY <2>1, <2>3, <2>4
<1>5. CASE RemoveProfile(d)
  <2>1. /\ pc[d] = "logout" /\ todo[d] = {} /\ Goto(d, "end") /\ UNCHANGED <<secrets, failed>>
        /\ failed[d] => UNCHANGED metadata
    BY <1>5 DEF RemoveProfile, LogoutFailed, locals
  <2>2. pc'[d] = "end"
    BY <1>1, <2>1, GotoFacts DEF Labels
  <2> QED BY <1>2, <2>1, <2>2
<1> QED BY <1>3, <1>4, <1>5 DEF Remove

LEMMA RemovePlaces ==
  ASSUME Apart, IInv, IInv', PlaceInv, NEW d \in Removers, Remove(d)
  PROVE  PlaceInv'
<1>1. /\ d \in Threads /\ Target[d] \in Names /\ Existing \subseteq Names
      /\ \A r \in Renamers : r \in Threads /\ r # d /\ To[r] \in Names /\ To[r] # Target[d]
      /\ \A e \in Removers : e \in Threads /\ Target[e] \in Names
  BY Distinct, ProfilesAssumption DEF Apart, Threads
<1>2. Kept' \subseteq Kept \ {Target[d]} /\ Kept \subseteq Existing
  <2>1. \A e \in Removers : pc[e] # "new" => pc'[e] # "new"
    BY RemoveFrame DEF Threads
  <2>2. pc'[d] # "new"
    BY RemoveFrame
  <2> QED BY <2>1, <2>2 DEF Kept, Removed
<1>3. UNCHANGED <<values, created, deleted, had>>
  BY RemoveFrame
<1>4. \A r \in Renamers : /\ pc'[r] = pc[r] /\ todo'[r] = todo[r] /\ secrets'[To[r]] = secrets[To[r]]
                          /\ To[r] \in metadata <=> To[r] \in metadata'
  BY <1>1, RemoveFrame
<1>5. \A n \in Names \ {Target[d]} : secrets'[n] = secrets[n] /\ (n \in metadata <=> n \in metadata')
  BY RemoveFrame
<1>6. /\ faults' = 0 => faults = 0
      /\ \A n : Quiet(n)' => Quiet(n)
      /\ \A r \in Renamers : Alone(r)' <=> Alone(r)
  <2>1. faults' = 0 => faults = 0
    BY FaultNumbers, RemoveFrame
  <2> QED BY <1>4, <2>1 DEF Quiet, Alone
<1>7. ASSUME NEW r \in Renamers
      PROVE  ToInv(r)'
  <2>1. ToInv(r) /\ (Quiet(From[r])' => Quiet(From[r])) /\ (Alone(r)' <=> Alone(r))
    BY <1>6 DEF PlaceInv
  <2>2. UNCHANGED <<pc[r], todo[r], values[r], created[r], deleted[r], secrets[To[r]]>>
    BY <1>3, <1>4
  <2>3. (To[r] \in metadata' <=> To[r] \in metadata) /\ Kept' \subseteq Kept
    BY <1>2, <1>4
  <2>4. faults # 0 => faults' # 0
    BY <1>6
  <2> QED BY ONLY <2>1, <2>2, <2>3, <2>4 DEF ToInv, Present
<1>8. ASSUME NEW n \in Kept'
      PROVE  HomeInv(n)'
  <2>1. n \in Kept /\ n \in Names \ {Target[d]}
    BY <1>1, <1>2
  <2>2. secrets'[n] = secrets[n] /\ (n \in metadata' <=> n \in metadata)
    BY <1>5, <2>1
  <2>3. HomeInv(n) /\ (Quiet(n)' => Quiet(n))
    BY <1>6, <2>1 DEF PlaceInv
  <2>4. ASSUME NEW q \in Renamers, From[q] = n
        PROVE  /\ pc'[q] = pc[q] /\ (TakenFrom(q) => TakenFrom(q)') /\ (ReadFrom(q) => ReadFrom(q)')
               /\ Clear(q)' => Clear(q)
    <3>1. TakenFrom(q) => TakenFrom(q)'
      BY <1>3, <1>4, <2>2, <2>4 DEF TakenFrom, Gone
    <3>2. ReadFrom(q) => ReadFrom(q)'
      BY <1>3, <1>4, <2>4 DEF ReadFrom
    <3>3. Clear(q)' => Clear(q)
      BY <1>6, <2>2, <2>4 DEF Clear
    <3> QED BY <1>4, <3>1, <3>2, <3>3
  <2> QED BY <1>3, <2>2, <2>3, <2>4 DEF HomeInv
<1>9. OtherInv'
  <2>1. \A n \in metadata' : n \in Existing \/ \E r \in Renamers : To[r] = n
    BY RemoveFrame DEF PlaceInv, OtherInv
  <2>2. \A n \in Names, k \in Keys : secrets[n][k] = Missing => secrets'[n][k] = Missing
    BY RemoveFrame
  <2>3. ASSUME NEW n \in Names \ Existing, NEW k \in Keys, \A r \in Renamers : To[r] # n
        PROVE  secrets'[n][k] = Missing
    <3>1. secrets[n][k] = Missing
      BY <2>3 DEF PlaceInv, OtherInv
    <3> QED BY <2>2, <3>1
  <2>4. ASSUME NEW n \in Existing \ metadata', NEW k \in Keys, \A r \in Renamers : From[r] # n
        PROVE  secrets'[n][k] = Missing
    <3>1. CASE n \notin metadata
      <4>1. secrets[n][k] = Missing
        BY <2>4, <3>1 DEF PlaceInv, OtherInv
      <4> QED BY <1>1, <2>2, <4>1
    <3>2. CASE n \in metadata
      <4>1. n = Target[d]
        BY <1>1, <1>5, <2>4, <3>2
      <4> QED BY <2>4, <3>2, <4>1, RemoveClears
    <3> QED BY <3>1, <3>2
  <2>5. ASSUME NEW e \in Removers, pc'[e] = "logout", ~failed'[e],
               \A r \in Renamers : From[r] # Target[e], NEW k \in Keys \ todo'[e]
        PROVE  secrets'[Target[e]][k] = Missing
    <3>1. CASE e = d
      BY <2>5, <3>1, RemoveClears
    <3>2. CASE e # d
      <4>1. pc'[e] = pc[e] /\ todo'[e] = todo[e]
        BY <1>1, <3>2, RemoveFrame
      <4>2. failed'[e] = failed[e]
        BY <3>2, RemoveFrame
      <4>3. secrets[Target[e]][k] = Missing
        BY <2>5, <4>1, <4>2 DEF PlaceInv, OtherInv
      <4> QED BY <1>1, <2>2, <4>3
    <3> QED BY <3>1, <3>2
  <2> QED BY <2>1, <2>3, <2>4, <2>5 DEF OtherInv
<1> QED BY <1>2, <1>7, <1>8, <1>9 DEF PlaceInv

-----------------------------------------------------------------------------
(* The invariant *)

LEMMA InitIInv == ASSUME Apart, Init PROVE IInv
<1>1. /\ metadata = Existing /\ had = secrets /\ faults = 0
      /\ pc = [t \in Threads |-> "new"] /\ todo = [t \in Threads |-> {}]
      /\ values = [r \in Renamers |-> [k \in Keys |-> Missing]]
      /\ created = [r \in Renamers |-> {}] /\ deleted = [r \in Renamers |-> {}]
      /\ failed = [d \in Removers |-> FALSE]
  BY DEF Init
<1>2. PICK held \in [Existing -> SUBSET Keys] :
        secrets = [n \in Names |-> [k \in Keys |->
                    IF n \in Existing /\ k \in held[n] THEN n ELSE Missing]]
  BY DEF Init
<1>3. /\ secrets \in [Names -> [Keys -> Secret]]
      /\ \A n \in Existing, k \in Keys : had[n][k] \in {n, Missing} /\ had[n][k] = secrets[n][k]
  BY <1>1, <1>2, ProfilesAssumption DEF Secret
<1>4. MaxFaults \in Nat /\ Existing \subseteq Names
  BY ProfilesAssumption
<1>5. \A r \in Renamers : r \in Threads
  BY DEF Threads
<1>6. \A r \in Renamers :
        /\ pc[r] = "new" /\ created[r] = {} /\ deleted[r] = {}
        /\ \A k \in Keys : values[r][k] = Missing
  BY <1>1, <1>5
<1>7. TypeInv
  <2>1. values \in [Renamers -> [Keys -> Secret]]
    BY <1>1 DEF Secret
  <2>2. pc \in [Threads -> Labels]
    BY <1>1 DEF Labels, Early
  <2> QED BY <1>1, <1>3, <1>4, <1>6, <2>1, <2>2 DEF TypeInv, TypeOK
<1>8. HadInv
  BY <1>3 DEF HadInv
<1>9. \A r \in Renamers : RenameInv(r)
  BY <1>1, <1>6 DEF RenameInv, Early, Later, Undoing
<1>10. SafeInv
  BY <1>3 DEF SafeInv, Present, Kept
<1>11. MoveInv
  BY <1>6 DEF MoveInv
<1> QED BY <1>7, <1>8, <1>9, <1>10, <1>11 DEF IInv

LEMMA StepIInv ==
  ASSUME Apart, IInv, [Next]_vars
  PROVE  IInv'
<1>1. CASE UNCHANGED vars
  <2>1. UNCHANGED <<metadata, secrets, pc, todo, values, created, deleted, failed, faults, had>>
    BY <1>1 DEF vars, stores, locals
  <2>2. TypeInv' /\ HadInv'
    BY <2>1 DEF IInv, TypeInv, TypeOK, HadInv
  <2>3. \A r \in Renamers : RenameInv(r)'
    BY <2>1 DEF IInv, RenameInv, Present
  <2>4. SafeInv' /\ MoveInv'
    BY <2>1 DEF IInv, SafeInv, MoveInv, Carries, Kept, Removed, Present
  <2> QED BY <2>2, <2>3, <2>4 DEF IInv
<1>2. ASSUME NEW r \in Renamers, Rename(r)
      PROVE  IInv'
  BY <1>2, CheckNewKeeps, CheckOldKeeps, ProbeKeeps, ReadKeeps, RenamePutKeeps, CopyKeeps,
     DeleteOldKeeps, DeleteKeeps, DoneKeeps, RestoreProfileKeeps, RestoreSecretKeeps, RestoreDoneKeeps,
     UndoSecretKeeps, UndoProfileKeeps
     DEF Rename
<1>3. ASSUME NEW d \in Removers, Remove(d)
      PROVE  IInv'
  BY <1>3, RemoveKeeps
<1> QED BY <1>1, <1>2, <1>3 DEF Next

LEMMA InitPlaces == ASSUME Apart, Init PROVE PlaceInv
<1>1. /\ metadata = Existing /\ had = secrets /\ pc = [t \in Threads |-> "new"]
      /\ deleted = [r \in Renamers |-> {}] /\ values = [r \in Renamers |-> [k \in Keys |-> Missing]]
  BY DEF Init
<1>2. PICK held \in [Existing -> SUBSET Keys] :
        secrets = [n \in Names |-> [k \in Keys |->
                    IF n \in Existing /\ k \in held[n] THEN n ELSE Missing]]
  BY DEF Init
<1>3. \A n \in Names \ Existing, k \in Keys : secrets[n][k] = Missing
  BY <1>2
<1>4. \A t \in Threads : pc[t] = "new"
  BY <1>1
<1>5. /\ \A r \in Renamers : r \in Threads /\ pc[r] = "new" /\ To[r] \in Names
      /\ \A d \in Removers : pc[d] = "new"
      /\ Kept \subseteq Existing
  BY <1>4, Distinct DEF Threads, Kept
<1>6. ASSUME NEW r \in Renamers PROVE ToInv(r)
  BY <1>1, <1>3, <1>5 DEF ToInv, Early, Later
<1>7. ASSUME NEW n \in Kept PROVE HomeInv(n)
  BY <1>1, <1>5 DEF HomeInv, ReadFrom, Later
<1>8. OtherInv
  BY <1>1, <1>3, <1>5 DEF OtherInv
<1> QED BY <1>6, <1>7, <1>8 DEF PlaceInv

LEMMA StepPlaces ==
  ASSUME Apart, IInv, PlaceInv, [Next]_vars
  PROVE  PlaceInv'
<1>1. CASE UNCHANGED vars
  <2>1. UNCHANGED <<metadata, secrets, pc, todo, values, created, deleted, failed, faults, had>>
    BY <1>1 DEF vars, stores, locals
  <2>2. \A r \in Renamers : ToInv(r)'
    BY <2>1 DEF PlaceInv, ToInv, Quiet, Alone, Kept, Removed, Present
  <2>3. \A n \in Kept' : HomeInv(n)'
    BY <2>1 DEF PlaceInv, HomeInv, Quiet, Clear, Alone, TakenFrom, Gone, ReadFrom, Kept, Removed
  <2>4. OtherInv'
    BY <2>1 DEF PlaceInv, OtherInv
  <2> QED BY <2>2, <2>3, <2>4 DEF PlaceInv
<1>2. ASSUME NEW r \in Renamers, Rename(r)
      PROVE  PlaceInv'
  <2>1. CASE RenameCheckNew(r)
    BY <2>1, CheckNewKeeps, CheckNewPlaces
  <2>2. CASE RenameCheckOld(r)
    BY <2>2, CheckOldKeeps, CheckOldPlaces
  <2>3. CASE RenameRead(r)
    BY <2>3, ReadKeeps, ReadPlaces
  <2>3a. CASE RenameProbe(r)
    BY <2>3a, ProbeKeeps, ProbePlaces
  <2>4. CASE RenamePut(r)
    BY <2>4, RenamePutKeeps, PutPlaces
  <2>5. CASE RenameCopy(r)
    BY <2>5, CopyKeeps, CopyPlaces
  <2>6. CASE RenameDeleteOld(r)
    BY <2>6, DeleteOldKeeps, DeleteOldPlaces
  <2>7. CASE RenameDelete(r)
    BY <2>7, DeleteKeeps, DeletePlaces
  <2>8. CASE RenameDone(r)
    BY <2>8, DoneKeeps, DonePlaces
  <2>9. CASE RestoreProfile(r)
    BY <2>9, RestoreProfileKeeps, RestoreProfilePlaces
  <2>10. CASE RestoreSecret(r)
    BY <2>10, RestoreSecretKeeps, RestoreSecretPlaces
  <2>11. CASE RestoreDone(r)
    BY <2>11, RestoreDoneKeeps, RestoreDonePlaces
  <2>12. CASE UndoSecret(r)
    BY <2>12, UndoSecretKeeps, UndoSecretPlaces
  <2>13. CASE UndoProfile(r)
    BY <2>13, UndoProfileKeeps, UndoProfilePlaces
  <2> QED
    BY <1>2, <2>1, <2>2, <2>3, <2>3a, <2>4, <2>5, <2>6, <2>7, <2>8, <2>9, <2>10, <2>11, <2>12, <2>13
       DEF Rename
<1>3. ASSUME NEW d \in Removers, Remove(d)
      PROVE  PlaceInv'
  BY <1>3, RemoveKeeps, RemovePlaces
<1> QED BY <1>1, <1>2, <1>3 DEF Next

LEMMA Places ==
  ASSUME Apart
  PROVE  Spec => [](IInv /\ PlaceInv)
<1>1. Init => IInv /\ PlaceInv
  BY InitIInv, InitPlaces
<1>2. IInv /\ PlaceInv /\ [Next]_vars => (IInv /\ PlaceInv)'
  BY StepIInv, StepPlaces
<1> QED BY <1>1, <1>2, PTL DEF Spec

\* With no call under way, a profile is in one of two places.
LEMMA AtRest ==
  ASSUME Apart, IInv, PlaceInv, Settled, NEW n \in Kept
  PROVE  /\ (\A r \in Renamers : From[r] = n => pc[r] # "renamed") =>
              n \in metadata /\ \A k \in Keys : secrets[n][k] = had[n][k]
         /\ \A r \in Renamers : From[r] = n /\ pc[r] = "renamed" =>
              /\ n \notin metadata /\ To[r] \in metadata /\ To[r] \notin Existing
              /\ \A k \in Keys : secrets[n][k] = Missing /\ secrets[To[r]][k] = had[n][k]
              /\ \A q \in Renamers : From[q] = n /\ pc[q] = "renamed" => q = r
         /\ \A r \in Renamers : From[r] = n /\ pc[r] # "renamed" /\ To[r] \notin Existing =>
              To[r] \notin metadata /\ \A k \in Keys : secrets[To[r]][k] = Missing
<1>1. \A r \in Renamers : pc[r] \in {"new", "renamed", "refused", "failed"}
  BY Known DEF Settled
<1>2. Quiet(n)
  BY <1>1 DEF Settled, Worked, Quiet, Early
<1>3. HomeInv(n)
  BY DEF PlaceInv
<1>4. \A r \in Renamers : pc[r] \in Later => pc[r] = "renamed"
  BY <1>1 DEF Later
<1>5. ASSUME \A r \in Renamers : From[r] = n => pc[r] # "renamed"
      PROVE  n \in metadata /\ \A k \in Keys : secrets[n][k] = had[n][k]
  BY <1>2, <1>3, <1>4, <1>5 DEF HomeInv
<1>6. ASSUME NEW r \in Renamers, From[r] = n, pc[r] = "renamed"
      PROVE  /\ n \notin metadata /\ To[r] \in metadata /\ To[r] \notin Existing
             /\ \A k \in Keys : secrets[n][k] = Missing /\ secrets[To[r]][k] = had[n][k]
             /\ \A q \in Renamers : From[q] = n /\ pc[q] = "renamed" => q = r
  <2>1. pc[r] \in Later /\ pc[r] \notin Early /\ pc[r] \notin Undoing
    BY <1>6 DEF Later, Early, Undoing
  <2>2. TakenFrom(r)
    BY <1>2, <1>3, <1>6, <2>1 DEF HomeInv
  <2>3. To[r] \notin Existing /\ To[r] \in metadata /\ deleted[r] = Present(values[r])
        /\ \A k \in Keys \ created[r] : secrets[To[r]][k] = Missing
    BY <1>6, <2>1 DEF PlaceInv, ToInv, IInv, RenameInv
  <2>4. /\ created[r] = Present(values[r])
        /\ \A k \in created[r] : secrets[To[r]][k] = values[r][k]
    BY <2>1 DEF IInv, RenameInv
  <2>5. n \notin metadata /\ \A k \in Keys : /\ values[r][k] = had[n][k]
                                             /\ secrets[n][k] = IF k \in deleted[r] THEN Missing
                                                                ELSE had[n][k]
    BY <1>6, <2>2 DEF TakenFrom, Gone
  <2>6. \A k \in Keys : secrets[n][k] = Missing /\ secrets[To[r]][k] = had[n][k]
    BY <2>3, <2>4, <2>5 DEF Present
  <2>7. ASSUME NEW q \in Renamers, From[q] = n, pc[q] = "renamed"
        PROVE  q = r
    BY <1>6, <2>7 DEF Settled, Worked, IInv, MoveInv
  <2> QED BY <2>3, <2>5, <2>6, <2>7
<1>7. ASSUME NEW r \in Renamers, From[r] = n, pc[r] # "renamed", To[r] \notin Existing
      PROVE  To[r] \notin metadata /\ \A k \in Keys : secrets[To[r]][k] = Missing
  <2>1. CASE pc[r] \in Early
    BY <1>7, <2>1 DEF PlaceInv, ToInv
  <2>2. CASE pc[r] = "failed"
    BY <1>2, <1>7, <2>2 DEF PlaceInv, ToInv
  <2> QED BY <1>1, <1>7, <2>1, <2>2 DEF Early
<1> QED BY <1>5, <1>6, <1>7

-----------------------------------------------------------------------------
(* Theorems *)

\* The two stores and every call's own record of what it did keep their types.
THEOREM ProfileTypes ==
  ASSUME Apart
  PROVE  Spec => []TypeOK
<1>1. Init => IInv
  BY InitIInv
<1>2. IInv /\ [Next]_vars => IInv'
  BY StepIInv
<1>3. IInv => TypeOK
  BY DEF IInv, TypeInv
<1> QED BY <1>1, <1>2, <1>3, PTL DEF Spec

\* Rename never loses a secret, at any moment and so also by a crash: what a profile held
\* is under its old name or under the new one of a rename that has moved it, for any number
\* of renames of the same and of other profiles, removals of others, and one failing
\* operation wherever it strikes.
THEOREM RenamesLoseNothing ==
  ASSUME Apart
  PROVE  Spec => []NothingLost
<1>1. Init => IInv
  BY InitIInv
<1>2. IInv /\ [Next]_vars => IInv'
  BY StepIInv
<1>3. IInv => NothingLost
  <2>1. SUFFICES ASSUME IInv, NEW n \in Kept, NEW k \in Present(had[n])
                 PROVE  \E m \in Names : secrets[m][k] = n
    BY DEF NothingLost, Kept
  <2>2. k \in Keys /\ n \in Existing /\ n \in Names /\ had[n][k] = n
    BY <2>1, ProfilesAssumption DEF Present, Kept, IInv, HadInv
  <2>3. CASE secrets[n][k] = n
    BY <2>2, <2>3
  <2>4. CASE secrets[n][k] # n
    <3>1. PICK r \in Renamers : From[r] = n /\ Carries(r, k)
      BY <2>1, <2>4 DEF IInv, SafeInv
    <3>2. k \in created[r] /\ pc[r] \notin Undoing /\ values[r][k] # Missing
      BY <2>1, <3>1, Known DEF Carries, RenameInv, Present, Undoing
    <3>3. secrets[To[r]][k] = values[r][k] /\ values[r][k] = n
      BY <2>1, <2>2, <3>1, <3>2, Known DEF RenameInv
    <3> QED BY <2>1, <3>3, Known
  <2> QED BY <2>3, <2>4
<1> QED BY <1>1, <1>2, <1>3, PTL DEF Spec

\* docs/authentication.md: renaming is transactional.  When no call is under way, a profile is
\* under exactly one of its names and all of it is there, for any number of renames of the
\* same profile at once and one failing operation wherever it strikes, as long as the one
\* that has to undo its work because of another rename is not the one it strikes.
THEOREM ProfilesHaveOneHome ==
  ASSUME Apart
  PROVE  Spec => []OneHome
<1>1. IInv /\ PlaceInv => OneHome
  <2> SUFFICES ASSUME IInv, PlaceInv, Settled, NEW n \in Kept
               PROVE  \E m \in Homes(n) :
                        /\ metadata \cap Homes(n) = {m}
                        /\ \A k \in Keys : secrets[m][k] = had[n][k]
                        /\ \A h \in Homes(n) \ {m}, k \in Keys : secrets[h][k] = Missing
    BY DEF OneHome, Kept
  <2>1. \A h \in Homes(n) \ {n} :
          \E r \in Renamers : From[r] = n /\ h = To[r] /\ To[r] \notin Existing
    BY DEF Homes
  <2>2. CASE \E r \in Renamers : From[r] = n /\ pc[r] = "renamed"
    <3>1. PICK r \in Renamers : From[r] = n /\ pc[r] = "renamed"
      BY <2>2
    <3>2. /\ n \notin metadata /\ To[r] \in metadata /\ To[r] \notin Existing
          /\ \A k \in Keys : secrets[n][k] = Missing /\ secrets[To[r]][k] = had[n][k]
      BY <3>1, AtRest
    <3>3. ASSUME NEW h \in Homes(n) \ {To[r]}
          PROVE  h \notin metadata /\ \A k \in Keys : secrets[h][k] = Missing
      <4>1. CASE h = n
        BY <3>2, <4>1
      <4>2. CASE h # n
        <5>1. PICK q \in Renamers : From[q] = n /\ h = To[q] /\ To[q] \notin Existing
          BY <2>1, <3>3, <4>2
        <5>2. pc[q] # "renamed"
          BY <3>1, <3>3, <5>1, AtRest
        <5> QED BY <5>1, <5>2, AtRest
      <4> QED BY <4>1, <4>2
    <3>4. To[r] \in Homes(n)
      BY <3>1, <3>2 DEF Homes
    <3> QED BY <3>2, <3>3, <3>4
  <2>3. CASE ~\E r \in Renamers : From[r] = n /\ pc[r] = "renamed"
    <3>1. n \in metadata /\ \A k \in Keys : secrets[n][k] = had[n][k]
      BY <2>3, AtRest
    <3>2. ASSUME NEW h \in Homes(n) \ {n}
          PROVE  h \notin metadata /\ \A k \in Keys : secrets[h][k] = Missing
      <4>1. PICK q \in Renamers : From[q] = n /\ h = To[q] /\ To[q] \notin Existing
        BY <2>1, <3>2
      <4> QED BY <2>3, <4>1, AtRest
    <3>3. n \in Homes(n)
      BY DEF Homes
    <3> QED BY <3>1, <3>2, <3>3
  <2> QED BY <2>2, <2>3
<1> QED BY <1>1, Places, PTL

\* When no call is under way no secret is left under a name that is no profile, if moreover
\* nobody removes a profile that somebody renames.  (Rename's restoring may put a secret back
\* that Remove has deleted just before it deletes the profile.)
THEOREM NothingIsOrphaned ==
  ASSUME Apart, \A r \in Renamers, d \in Removers : From[r] # Target[d]
  PROVE  Spec => []NoOrphans
<1>1. IInv /\ PlaceInv => NoOrphans
  <2> SUFFICES ASSUME IInv, PlaceInv, Settled, NEW n \in Names \ metadata, NEW k \in Keys
               PROVE  secrets[n][k] = Missing
    BY DEF NoOrphans
  <2>1. \A r \in Renamers : From[r] \in Existing => From[r] \in Kept
    BY DEF Kept, Removed
  <2>2. CASE n \in Existing /\ \E r \in Renamers : From[r] = n
    <3>1. n \in Kept
      BY <2>1, <2>2
    <3>2. PICK r \in Renamers : From[r] = n /\ pc[r] = "renamed"
      BY <3>1, AtRest
    <3> QED BY <3>1, <3>2, AtRest
  <2>3. CASE n \in Existing /\ ~\E r \in Renamers : From[r] = n
    BY <2>3 DEF PlaceInv, OtherInv
  <2>4. CASE n \notin Existing /\ \E r \in Renamers : To[r] = n
    <3>1. PICK r \in Renamers : To[r] = n
      BY <2>4
    <3>2. CASE pc[r] \in Early
      BY <2>4, <3>1, <3>2 DEF PlaceInv, ToInv
    <3>3. CASE pc[r] \notin Early
      <4>1. From[r] \in Kept
        BY <2>1, <3>3 DEF PlaceInv, ToInv, Early
      <4>2. pc[r] # "renamed"
        BY <3>1, <4>1, AtRest
      <4> QED BY <2>4, <3>1, <4>1, <4>2, AtRest
    <3> QED BY <3>2, <3>3
  <2>5. CASE n \notin Existing /\ ~\E r \in Renamers : To[r] = n
    BY <2>5 DEF PlaceInv, OtherInv
  <2> QED BY <2>2, <2>3, <2>4, <2>5
<1> QED BY <1>1, Places, PTL
=============================================================================
