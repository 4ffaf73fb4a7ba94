-------------------------- MODULE Migration_proofs --------------------------
(***************************************************************************)
(* Machine-checked proofs about PathLock and about Migration, which        *)
(* extends it, for any finite set of callers and any set of lock objects,  *)
(* any texts and any number of versions.  First the lock on its own: the   *)
(* reference count is shown to count, which is what makes it safe to       *)
(* forget the object with the last reference and to create another one     *)
(* under the same path.  Then migrations: exclusion survives the death of  *)
(* the process that holds the lock, and keeps the comparison of one from   *)
(* being outdated by the rename of another; backup and answers rest on     *)
(* backup and record being created exclusively.                            *)
(***************************************************************************)
EXTENDS Migration, FiniteSetTheorems, TLAPS

-----------------------------------------------------------------------------
(* The path lock.                                                          *)

Holders(l) == {c \in Callers : mine[c] = l}

\* The count is exact.
RefsCount == \A l \in Locks : refs[l] = Cardinality(Holders(l))

\* Whoever has a reference has it to the object in the map, and that object
\* is there only while somebody has one.
Shared ==
  /\ \A c \in Callers : pc[c] # "out" => mine[c] = current /\ current # NoLock
  /\ \A c \in Callers : pc[c] = "out" => mine[c] = NoLock
  /\ current # NoLock => \E c \in Callers : pc[c] # "out"

\* The token is in the channel or with the one caller inside.
TokenOrInside ==
  /\ MutualExclusion
  /\ \A c \in Callers : pc[c] = "inside" => ~token[mine[c]]

LockInvariant == TypeOK /\ RefsCount /\ Shared /\ TokenOrInside

-----------------------------------------------------------------------------
LEMMA HoldersFinite ==
  ASSUME NEW l
  PROVE  IsFiniteSet(Holders(l)) /\ Cardinality(Holders(l)) \in Nat
  <1>1. Holders(l) \in SUBSET Callers
    BY DEF Holders
  <1>2. IsFiniteSet(Callers)
    BY LockAssumption DEF LockAssumption
  <1>3. IsFiniteSet(Holders(l))
    BY <1>1, <1>2, FS_Subset
  <1> QED
    BY <1>3, FS_CardinalityType

LEMMA InitHolds == Init => LockInvariant
  <1> SUFFICES ASSUME Init PROVE LockInvariant
    OBVIOUS
  <1>1. TypeOK /\ Shared /\ TokenOrInside
    BY DEF Init, TypeOK, Shared, TokenOrInside, MutualExclusion
  <1>2. RefsCount
    <2> SUFFICES ASSUME NEW l \in Locks PROVE refs[l] = Cardinality(Holders(l))
      BY DEF RefsCount
    <2>1. Holders(l) = {}
      BY LockAssumption DEF LockAssumption, Init, Holders
    <2> QED
      BY <2>1, FS_EmptySet DEF Init
  <1> QED
    BY <1>1, <1>2 DEF LockInvariant

\* A new reference: to the object in the map, or to a fresh one that nobody
\* refers to and whose token is in its channel.
LEMMA RegisterPreserves ==
  ASSUME LockInvariant, NEW c \in Callers, Register(c)
  PROVE  LockInvariant'
  <1> USE DEF LockInvariant
  <1>1. PICK l \in Locks :
          /\ IF current = NoLock THEN refs[l] = 0 ELSE l = current
          /\ token' = IF current = NoLock THEN [token EXCEPT ![l] = TRUE] ELSE token
          /\ current' = l
          /\ refs' = [refs EXCEPT ![l] = @ + 1]
          /\ mine' = [mine EXCEPT ![c] = l]
    BY DEF Register
  <1>2. pc[c] = "out" /\ pc' = [pc EXCEPT ![c] = "waiting"]
    BY DEF Register
  <1>3. mine[c] = NoLock /\ NoLock \notin Locks
    BY <1>2, LockAssumption DEF Shared, LockAssumption
  <1>4. TypeOK'
    BY <1>1, <1>2 DEF TypeOK
  <1>5. RefsCount'
    <2> SUFFICES ASSUME NEW k \in Locks PROVE (refs[k])' = Cardinality(Holders(k))'
      BY DEF RefsCount
    <2>1. CASE k = l
      <3>1. Holders(l)' = Holders(l) \cup {c}
        BY <1>1 DEF Holders, TypeOK
      <3>2. c \notin Holders(l)
        BY <1>3 DEF Holders
      <3>3. Cardinality(Holders(l) \cup {c}) = Cardinality(Holders(l)) + 1
        BY <3>2, HoldersFinite, FS_AddElement
      <3> QED
        BY <1>1, <2>1, <3>1, <3>3 DEF RefsCount, TypeOK
    <2>2. CASE k # l
      <3>1. Holders(k)' = Holders(k)
        BY <1>1, <1>3, <2>2 DEF Holders, TypeOK
      <3> QED
        BY <1>1, <2>2, <3>1 DEF RefsCount, TypeOK
    <2> QED
      BY <2>1, <2>2
  <1>6. Shared'
    BY <1>1, <1>2, <1>3 DEF Shared, TypeOK
  <1>7. TokenOrInside'
    BY <1>1, <1>2 DEF TokenOrInside, MutualExclusion, Shared, TypeOK
  <1> QED
    BY <1>4, <1>5, <1>6, <1>7

LEMMA TokenPreserves ==
  ASSUME LockInvariant, NEW c \in Callers, TakeToken(c) \/ PutToken(c)
  PROVE  LockInvariant'
  <1> USE DEF LockInvariant
  <1>1. UNCHANGED <<current, refs, mine>>
    BY DEF TakeToken, PutToken
  <1>2. mine[c] \in Locks
    BY DEF TakeToken, PutToken, Shared, TypeOK
  <1>3. TypeOK'
    BY <1>2 DEF TakeToken, PutToken, TypeOK
  <1>4. RefsCount'
    BY <1>1 DEF RefsCount, Holders
  <1>5. Shared'
    BY DEF TakeToken, PutToken, Shared, TypeOK
  <1>6. TokenOrInside'
    <2>1. CASE TakeToken(c)
      BY <1>2, <2>1 DEF TakeToken, TokenOrInside, MutualExclusion, Shared, TypeOK
    <2>2. CASE PutToken(c)
      BY <1>2, <2>2 DEF PutToken, TokenOrInside, MutualExclusion, Shared, TypeOK
    <2> QED
      BY <2>1, <2>2
  <1> QED
    BY <1>3, <1>4, <1>5, <1>6

\* A reference is dropped; with the last one the object leaves the map, and
\* then nobody else can be waiting or inside.
LEMMA DropPreserves ==
  ASSUME LockInvariant, NEW c \in Callers, GiveUp(c) \/ Leave(c)
  PROVE  LockInvariant'
  <1> USE DEF LockInvariant
  <1>1. DropReference(c) /\ pc[c] # "out"
    BY DEF GiveUp, Leave
  <1>l. PICK l \in Locks : l = mine[c]
    BY <1>1 DEF Shared, TypeOK
  <1>2. mine[c] = l /\ l = current /\ NoLock \notin Locks
    BY <1>l, <1>1, LockAssumption DEF Shared, LockAssumption
  <1>3. /\ Holders(l)' = Holders(l) \ {c}
        /\ \A k \in Locks : k # l => Holders(k)' = Holders(k)
    BY <1>1, <1>2 DEF DropReference, Holders, TypeOK
  <1>4. c \in Holders(l)
    BY <1>2 DEF Holders
  <1>5. /\ IsFiniteSet(Holders(l) \ {c})
        /\ Cardinality(Holders(l) \ {c}) = Cardinality(Holders(l)) - 1
        /\ Cardinality(Holders(l) \ {c}) \in Nat
    <2>1. IsFiniteSet(Holders(l))
      BY HoldersFinite
    <2>2. /\ IsFiniteSet(Holders(l) \ {c})
          /\ Cardinality(Holders(l) \ {c}) = Cardinality(Holders(l)) - 1
      BY <1>4, <2>1, FS_RemoveElement
    <2> QED
      BY <2>2, FS_CardinalityType
  <1>6. TypeOK'
    <2>1. refs[l] - 1 \in Nat
      BY <1>2, <1>5 DEF RefsCount
    <2> QED
      BY <1>1, <1>2, <2>1 DEF DropReference, TypeOK
  <1>7. RefsCount'
    <2> SUFFICES ASSUME NEW k \in Locks PROVE (refs[k])' = Cardinality(Holders(k))'
      BY DEF RefsCount
    <2>1. CASE k = l
      <3>1. refs[l] = Cardinality(Holders(l))
        BY <1>2 DEF RefsCount
      <3>2. refs'[k] = refs[l] - 1 /\ Holders(k)' = Holders(l)'
        BY <1>1, <1>2, <2>1 DEF DropReference, TypeOK
      <3> QED
        BY <1>3, <1>5, <3>1, <3>2
    <2>2. CASE k # l
      BY <1>1, <1>2, <1>3, <2>2 DEF DropReference, RefsCount, TypeOK
    <2> QED
      BY <2>1, <2>2
  <1>8. refs[l] = 1 <=> Holders(l) \ {c} = {}
    BY <1>2, <1>5, HoldersFinite, FS_EmptySet DEF RefsCount
  <1>9. \A d \in Callers : pc[d] # "out" <=> d \in Holders(l)
    BY <1>2 DEF Shared, Holders
  <1>10. Shared'
    <2>1. CASE refs[l] = 1
      <3>1. \A d \in Callers : d # c => pc[d] = "out"
        BY <1>8, <1>9, <2>1
      <3> QED
        BY <1>1, <1>2, <2>1, <3>1 DEF DropReference, Shared, TypeOK
    <2>2. CASE refs[l] # 1
      <3>1. PICK d \in Holders(l) : d # c
        BY <1>8, <2>2
      <3>2. d \in Callers /\ pc[d] # "out"
        BY <1>9, <3>1 DEF Holders
      <3> QED
        BY <1>1, <1>2, <2>2, <3>1, <3>2 DEF DropReference, Shared, TypeOK
    <2> QED
      BY <2>1, <2>2
  <1>11. TokenOrInside'
    BY <1>1 DEF DropReference, TokenOrInside, MutualExclusion, TypeOK
  <1> QED
    BY <1>6, <1>7, <1>10, <1>11

LEMMA NextPreserves ==
  ASSUME LockInvariant, [Next]_vars
  PROVE  LockInvariant'
  <1>1. CASE UNCHANGED vars
    BY <1>1 DEF vars, LockInvariant, TypeOK, RefsCount, Holders, Shared,
                TokenOrInside, MutualExclusion
  <1>2. CASE Next
    BY <1>2, RegisterPreserves, TokenPreserves, DropPreserves DEF Next
  <1> QED
    BY <1>1, <1>2

LEMMA LockInvariantHolds == Spec => []LockInvariant
  BY InitHolds, NextPreserves, PTL DEF Spec

-----------------------------------------------------------------------------
\* Two callers of one process are never both inside Apply for one path.
THEOREM Exclusion == Spec => []MutualExclusion
  <1>1. LockInvariant => MutualExclusion
    BY DEF LockInvariant, TokenOrInside
  <1> QED
    BY <1>1, LockInvariantHolds, PTL

\* The map holds the object every reference is to, and none without one: no
\* waiter is left on a forgotten object, and no object outlives its callers.
THEOREM ReferencesCounted == Spec => []NoStrayLock
  <1>1. LockInvariant => NoStrayLock
    BY DEF LockInvariant, Shared, NoStrayLock
  <1> QED
    BY <1>1, LockInvariantHolds, PTL

-----------------------------------------------------------------------------
(* Migrations.                                                             *)

\* A call that has not replaced the document, and one that has.
Before == {"planned", "backing", "filling", "mutating", "compared", "rechecked"}
After == {"renamed", "replaced", "installed", "sealing"}

\* Stages that rest on the backup.
BackedUp == {"mutating", "compared", "rechecked"} \cup After

Whole == {"whole", "durable"}

Text(c) == base[c].text

Bases ==
  \A c \in Callers : stage[c] # "idle" => base[c] \in Contents /\ answer[c] = "none"

Landing ==
  /\ \A c \in Callers : stage[c] \in Before => planned[c] = NoPlan
  /\ \A c \in Callers : stage[c] \in After => planned[c] = base[c]

\* The copies a call relies on, and the one it is writing.
CopiesMade ==
  /\ \A c \in Callers : stage[c] = "filling" => backup[Text(c)] = "torn"
  /\ \A c \in Callers : stage[c] \in BackedUp => backup[Text(c)] \in Whole
  /\ \A c \in Callers : stage[c] = "sealing" => record[Text(c)] = "torn"

\* Exclusive creation: one call writes the copy of a text at a time.
OneWriter ==
  \A c, d \in Callers :
    /\ stage[c] = stage[d]
    /\ stage[c] \in {"filling", "sealing"}
    /\ Text(c) = Text(d)
    => c = d

\* AnswerHonest with a complete record in place of one that exists.
Sealed ==
  \A c \in Callers :
    /\ answer[c] = "failed" => planned[c] = NoPlan
    /\ answer[c] \in {"replaced", "warned", "applied"} => planned[c] # NoPlan
    /\ answer[c] \in {"warned", "applied"} => record[planned[c].text] \in Whole

\* Who is between comparison and rename is inside the lock, and who waits for
\* it has not compared yet.
Held ==
  \A c \in Callers :
    /\ stage[c] \in Replacing \ {"mutating"} => pc[c] = "inside"
    /\ pc[c] = "waiting" => stage[c] = "mutating"

\* What a replacement was planned from has its backup.
PlanBacked == \A c \in Callers : planned[c] # NoPlan => backup[planned[c].text] \in Whole

MigrationInvariant ==
  /\ MigrationTypeOK /\ Bases /\ Landing /\ CopiesMade /\ OneWriter
  /\ PlanBacked /\ Sealed /\ Held

-----------------------------------------------------------------------------
(* The lock.                                                               *)

\* A step of a migration is a step of the path lock, leaves it alone, or ends
\* the process and with it the lock.
LEMMA LockSteps ==
  ASSUME MigrationNext
  PROVE  [Next]_vars \/ Init'
  <1>1. CASE Kill \/ LosePower
    BY <1>1 DEF Kill, LosePower, Die, Init
  <1>2. CASE Edit
    BY <1>2 DEF Edit, lockVars
  <1>3. ASSUME NEW c \in Callers,
               \/ Plan(c) \/ Load(c) \/ CreateBackup(c) \/ FillBackup(c) \/ BackupFails(c)
               \/ Refuse(c) \/ Unproven(c) \/ ReadInstalled(c) \/ CreateRecord(c)
               \/ SealRecord(c) \/ RecordFails(c) \/ FailsAfterReplace(c)
        PROVE  UNCHANGED vars
    BY <1>3 DEF Plan, Load, CreateBackup, FillBackup, BackupFails, Refuse, Unproven,
                ReadInstalled, CreateRecord, SealRecord, RecordFails,
                FailsAfterReplace, lockVars
  <1>4. ASSUME NEW c \in Callers, Lock(c) \/ LockCancelled(c)
        PROVE  Next
    BY <1>4 DEF Lock, LockCancelled, Next
  <1>5. ASSUME NEW c \in Callers, Advance(c)
        PROVE  [Next]_vars
    BY <1>5 DEF Advance, Compare, ApplyFails, Rename, SyncDocument, SyncDocumentFails,
                Unlock, lockVars, Next
  <1> QED
    BY <1>1, <1>2, <1>3, <1>4, <1>5 DEF MigrationNext

LEMMA LockInvariantKept ==
  ASSUME LockInvariant, [MigrationNext]_migrationVars
  PROVE  LockInvariant'
  <1>1. Init' => LockInvariant'
    BY InitHolds, PTL
  <1>2. CASE UNCHANGED migrationVars
    <2>1. UNCHANGED vars
      BY <1>2 DEF migrationVars, lockVars
    <2> QED
      BY <2>1, NextPreserves
  <1>3. CASE MigrationNext
    BY <1>1, <1>3, LockSteps, NextPreserves
  <1> QED
    BY <1>2, <1>3

LEMMA LockInvariantThroughout == MigrationSpec => []LockInvariant
  <1>1. MigrationInit => LockInvariant
    BY InitHolds DEF MigrationInit
  <1> QED
    BY <1>1, LockInvariantKept, PTL DEF MigrationSpec

-----------------------------------------------------------------------------
(* Documents, copies and answers.                                          *)

LEMMA MigratedIsContents ==
  ASSUME NEW content \in Contents
  PROVE  Migrated(content) \in Contents /\ Migrated(content).text = content.text
  BY MigrationAssumption DEF MigrationAssumption, Migrated, Contents

LEMMA MigrationInitHolds == MigrationInit => MigrationInvariant
  <1> SUFFICES ASSUME MigrationInit PROVE MigrationInvariant
    OBVIOUS
  <1>1. TypeOK
    BY InitHolds DEF MigrationInit, LockInvariant
  <1>2. doc \in Contents
    BY MigrationAssumption DEF MigrationInit, MigrationAssumption, Contents
  <1>3. MigrationTypeOK
    BY <1>1, <1>2 DEF MigrationInit, MigrationTypeOK, Copies, MigrationStages
  <1> QED
    BY <1>3 DEF MigrationInit, MigrationInvariant, Bases, Landing, CopiesMade, OneWriter,
                PlanBacked, Sealed, Held, Before, After, BackedUp, Replacing, Init

\* Steps that touch neither the lock nor a file other than the document.
LEMMA MovePreserves ==
  ASSUME MigrationInvariant, TypeOK', NEW c \in Callers,
         \/ Plan(c) \/ Load(c) \/ Refuse(c) \/ Unproven(c)
         \/ Compare(c) \/ ApplyFails(c) \/ ReadInstalled(c)
         \/ FailsAfterReplace(c) \/ SyncDocument(c) \/ SyncDocumentFails(c)
  PROVE  MigrationInvariant'
  <1> USE DEF MigrationInvariant, Plan, Load, Refuse, Unproven, Compare, ApplyFails,
              ReadInstalled, FailsAfterReplace, SyncDocument, SyncDocumentFails, Goes, Ends,
              storeVars, callVars, historyVars, lockVars, vars
  <1>1. stage[c] # "idle" => base[c] \in Contents /\ base[c] # NoPlan
    BY MigrationAssumption DEF MigrationAssumption, Bases, Contents
  <1>2. MigrationTypeOK'
    <2> USE DEF MigrationTypeOK, Copies, MigrationStages, Contents
    <2>1. CASE Plan(c)
      BY <1>1, <2>1
    <2>2. CASE Load(c)
      BY <1>1, <2>2
    <2>3. CASE Refuse(c)
      BY <1>1, <2>3
    <2>4. CASE Unproven(c)
      BY <1>1, <2>4
    <2>5. CASE Compare(c)
      BY <1>1, <2>5
    <2>6. CASE ApplyFails(c)
      BY <1>1, <2>6
    <2>7. CASE ReadInstalled(c)
      BY <1>1, <2>7
    <2>8. CASE FailsAfterReplace(c)
      BY <1>1, <2>8
    <2>9. CASE SyncDocument(c)
      BY <1>1, <2>9
    <2>10. CASE SyncDocumentFails(c)
      BY <1>1, <2>10
    <2> QED
      BY <2>1, <2>2, <2>3, <2>4, <2>5, <2>6, <2>7, <2>8, <2>9, <2>10
  <1>3. Bases'
    BY <1>1 DEF Bases, MigrationTypeOK, TypeOK
  <1>4. Landing'
    BY <1>1 DEF Landing, MigrationTypeOK, TypeOK, Before, After, Replacing, Bases
  <1>5. CopiesMade'
    <2> USE DEF CopiesMade, MigrationTypeOK, TypeOK, OneWriter, BackedUp, After, Whole,
                  Text, Present, Copies, Replacing, Bases
    <2>1. CASE Plan(c)
      BY <1>1, <2>1
    <2>2. CASE Load(c)
      BY <1>1, <2>2
    <2>3. CASE Refuse(c)
      BY <1>1, <2>3
    <2>4. CASE Unproven(c)
      BY <1>1, <2>4
    <2>5. CASE Compare(c)
      BY <1>1, <2>5
    <2>6. CASE ApplyFails(c)
      BY <1>1, <2>6
    <2>7. CASE ReadInstalled(c)
      BY <1>1, <2>7
    <2>8. CASE FailsAfterReplace(c)
      BY <1>1, <2>8
    <2>9. CASE SyncDocument(c)
      BY <1>1, <2>9
    <2>10. CASE SyncDocumentFails(c)
      BY <1>1, <2>10
    <2> QED
      BY <2>1, <2>2, <2>3, <2>4, <2>5, <2>6, <2>7, <2>8, <2>9, <2>10
  <1>6. OneWriter'
    BY <1>1 DEF OneWriter, MigrationTypeOK, TypeOK, Text, CopiesMade, Present, Replacing,
       Bases
  <1>7. PlanBacked'
    BY <1>1 DEF PlanBacked, MigrationTypeOK, TypeOK, CopiesMade, Landing, BackedUp, After,
       Whole, Text, Present, Bases
  <1>8. Sealed'
    BY <1>1 DEF Sealed, MigrationTypeOK, TypeOK, CopiesMade, OneWriter, Landing, Held,
       Before, After, Replacing, Whole, Text, Present, Bases
  <1>9. Held'
    BY <1>1 DEF Held, MigrationTypeOK, TypeOK, Replacing, Bases
  <1> QED
    BY <1>2, <1>3, <1>4, <1>5, <1>6, <1>7, <1>8, <1>9

\* Steps of the lock.
LEMMA LockingPreserves ==
  ASSUME MigrationInvariant, TypeOK', NEW c \in Callers,
         Lock(c) \/ LockCancelled(c) \/ Unlock(c)
  PROVE  MigrationInvariant'
  <1> USE DEF MigrationInvariant, Lock, LockCancelled, Unlock, Goes, Ends, storeVars,
              callVars, historyVars, lockVars, vars, Register, TakeToken, GiveUp, PutToken,
              Leave, DropReference
  <1>1. stage[c] # "idle" => base[c] \in Contents /\ base[c] # NoPlan
    BY MigrationAssumption DEF MigrationAssumption, Bases, Contents
  <1>2. MigrationTypeOK'
    <2> USE DEF MigrationTypeOK, Copies, MigrationStages, Contents
    <2>1. CASE Lock(c)
      BY <1>1, <2>1
    <2>2. CASE LockCancelled(c)
      BY <1>1, <2>2
    <2>3. CASE Unlock(c)
      BY <1>1, <2>3
    <2> QED
      BY <2>1, <2>2, <2>3
  <1>3. Bases'
    BY <1>1 DEF Bases, MigrationTypeOK, TypeOK
  <1>4. Landing'
    BY <1>1 DEF Landing, MigrationTypeOK, TypeOK, Before, After, Replacing, Bases
  <1>5. CopiesMade'
    <2> USE DEF CopiesMade, MigrationTypeOK, TypeOK, OneWriter, BackedUp, After, Whole,
                  Text, Present, Copies, Replacing, Bases
    <2>1. CASE Lock(c)
      BY <1>1, <2>1
    <2>2. CASE LockCancelled(c)
      BY <1>1, <2>2
    <2>3. CASE Unlock(c)
      BY <1>1, <2>3
    <2> QED
      BY <2>1, <2>2, <2>3
  <1>6. OneWriter'
    BY <1>1 DEF OneWriter, MigrationTypeOK, TypeOK, Text, CopiesMade, Present, Replacing,
       Bases
  <1>7. PlanBacked'
    BY <1>1 DEF PlanBacked, MigrationTypeOK, TypeOK, CopiesMade, Landing, BackedUp, After,
       Whole, Text, Present, Bases
  <1>8. Sealed'
    BY <1>1 DEF Sealed, MigrationTypeOK, TypeOK, CopiesMade, OneWriter, Landing, Held,
       Before, After, Replacing, Whole, Text, Present, Bases
  <1>9. Held'
    BY <1>1 DEF Held, MigrationTypeOK, TypeOK, Replacing, Bases
  <1> QED
    BY <1>2, <1>3, <1>4, <1>5, <1>6, <1>7, <1>8, <1>9

\* Steps that write the backup.
LEMMA BackupPreserves ==
  ASSUME MigrationInvariant, TypeOK', NEW c \in Callers,
         CreateBackup(c) \/ FillBackup(c) \/ BackupFails(c)
  PROVE  MigrationInvariant'
  <1> USE DEF MigrationInvariant, CreateBackup, FillBackup, BackupFails, Goes, Ends,
              storeVars, callVars, historyVars, lockVars, vars
  <1>1. stage[c] # "idle" => base[c] \in Contents /\ base[c] # NoPlan
    BY MigrationAssumption DEF MigrationAssumption, Bases, Contents
  <1>2. MigrationTypeOK'
    <2> USE DEF MigrationTypeOK, Copies, MigrationStages, Contents
    <2>1. CASE CreateBackup(c)
      BY <1>1, <2>1
    <2>2. CASE FillBackup(c)
      BY <1>1, <2>2
    <2>3. CASE BackupFails(c)
      BY <1>1, <2>3
    <2> QED
      BY <2>1, <2>2, <2>3
  <1>3. Bases'
    BY <1>1 DEF Bases, MigrationTypeOK, TypeOK
  <1>4. Landing'
    BY <1>1 DEF Landing, MigrationTypeOK, TypeOK, Before, After, Replacing, Bases
  <1>5. CopiesMade'
    <2> USE DEF CopiesMade, MigrationTypeOK, TypeOK, OneWriter, BackedUp, After, Whole,
                  Text, Present, Copies, Replacing, Bases
    <2>1. CASE CreateBackup(c)
      <3> SUFFICES ASSUME NEW d \in Callers
                   PROVE  /\ stage'[d] = "filling" => backup'[Text(d)'] = "torn"
                          /\ stage'[d] \in BackedUp => backup'[Text(d)'] \in Whole
                          /\ stage'[d] = "sealing" => record'[Text(d)'] = "torn"
        OBVIOUS
      <3>1. base' = base /\ Text(c) \in Texts
        BY <1>1, <2>1 DEF Contents
      <3>2. stage[d] # "idle" => Text(d) \in Texts
        BY DEF Contents
      <3>3. CASE d = c
        BY <1>1, <2>1, <3>1, <3>2, <3>3
      <3>4. CASE d # c /\ stage[d] # "idle" /\ Text(d) = Text(c)
        BY <1>1, <2>1, <3>1, <3>2, <3>4
      <3>5. CASE d # c /\ stage[d] # "idle" /\ Text(d) # Text(c)
        BY <1>1, <2>1, <3>1, <3>2, <3>5
      <3>6. CASE d # c /\ stage[d] = "idle"
        BY <1>1, <2>1, <3>1, <3>6
      <3> QED
        BY <3>3, <3>4, <3>5, <3>6
    <2>2. CASE FillBackup(c)
      <3> SUFFICES ASSUME NEW d \in Callers
                   PROVE  /\ stage'[d] = "filling" => backup'[Text(d)'] = "torn"
                          /\ stage'[d] \in BackedUp => backup'[Text(d)'] \in Whole
                          /\ stage'[d] = "sealing" => record'[Text(d)'] = "torn"
        OBVIOUS
      <3>1. base' = base /\ Text(c) \in Texts
        BY <1>1, <2>2 DEF Contents
      <3>2. stage[d] # "idle" => Text(d) \in Texts
        BY DEF Contents
      <3>3. CASE d = c
        BY <1>1, <2>2, <3>1, <3>2, <3>3
      <3>4. CASE d # c /\ stage[d] # "idle" /\ Text(d) = Text(c)
        BY <1>1, <2>2, <3>1, <3>2, <3>4
      <3>5. CASE d # c /\ stage[d] # "idle" /\ Text(d) # Text(c)
        BY <1>1, <2>2, <3>1, <3>2, <3>5
      <3>6. CASE d # c /\ stage[d] = "idle"
        BY <1>1, <2>2, <3>1, <3>6
      <3> QED
        BY <3>3, <3>4, <3>5, <3>6
    <2>3. CASE BackupFails(c)
      BY <1>1, <2>3
    <2> QED
      BY <2>1, <2>2, <2>3
  <1>6. OneWriter'
    BY <1>1 DEF OneWriter, MigrationTypeOK, TypeOK, Text, CopiesMade, Present, Replacing,
       Bases
  <1>7. PlanBacked'
    <2> USE DEF PlanBacked, MigrationTypeOK, TypeOK, CopiesMade, Landing, BackedUp, After,
                  Whole, Text, Present, Bases
    <2>1. CASE CreateBackup(c)
      BY <1>1, <2>1
    <2>2. CASE FillBackup(c)
      BY <1>1, <2>2
    <2>3. CASE BackupFails(c)
      BY <1>1, <2>3
    <2> QED
      BY <2>1, <2>2, <2>3
  <1>8. Sealed'
    BY <1>1 DEF Sealed, MigrationTypeOK, TypeOK, CopiesMade, OneWriter, Landing, Held,
       Before, After, Replacing, Whole, Text, Present, Bases
  <1>9. Held'
    BY <1>1 DEF Held, MigrationTypeOK, TypeOK, Replacing, Bases
  <1> QED
    BY <1>2, <1>3, <1>4, <1>5, <1>6, <1>7, <1>8, <1>9

\* The replacement of the document.
LEMMA RenamePreserves ==
  ASSUME MigrationInvariant, TypeOK', NEW c \in Callers,
         Rename(c)
  PROVE  MigrationInvariant'
  <1> USE DEF MigrationInvariant, Rename, Goes, Ends, storeVars, callVars, historyVars,
              lockVars, vars
  <1>1. stage[c] # "idle" => base[c] \in Contents /\ base[c] # NoPlan
    BY MigrationAssumption DEF MigrationAssumption, Bases, Contents
  <1>2. MigrationTypeOK'
    BY <1>1, MigratedIsContents DEF MigrationTypeOK, Copies, MigrationStages, Contents,
       Bases
  <1>3. Bases'
    BY <1>1 DEF Bases, MigrationTypeOK, TypeOK
  <1>4. Landing'
    BY <1>1 DEF Landing, MigrationTypeOK, TypeOK, Before, After, Replacing, Bases
  <1>5. CopiesMade'
    BY <1>1 DEF CopiesMade, MigrationTypeOK, TypeOK, OneWriter, BackedUp, After, Whole,
       Text, Present, Copies, Replacing, Bases
  <1>6. OneWriter'
    BY <1>1 DEF OneWriter, MigrationTypeOK, TypeOK, Text, CopiesMade, Present, Replacing,
       Bases
  <1>7. PlanBacked'
    BY <1>1 DEF PlanBacked, MigrationTypeOK, TypeOK, CopiesMade, Landing, BackedUp, After,
       Whole, Text, Present, Bases
  <1>8. Sealed'
    BY <1>1 DEF Sealed, MigrationTypeOK, TypeOK, CopiesMade, OneWriter, Landing, Held,
       Before, After, Replacing, Whole, Text, Present, Bases
  <1>9. Held'
    BY <1>1 DEF Held, MigrationTypeOK, TypeOK, Replacing, Bases
  <1> QED
    BY <1>2, <1>3, <1>4, <1>5, <1>6, <1>7, <1>8, <1>9

\* Steps that write the record.
LEMMA RecordPreserves ==
  ASSUME MigrationInvariant, TypeOK', NEW c \in Callers,
         CreateRecord(c) \/ SealRecord(c) \/ RecordFails(c)
  PROVE  MigrationInvariant'
  <1> USE DEF MigrationInvariant, CreateRecord, SealRecord, RecordFails, Goes, Ends,
              storeVars, callVars, historyVars, lockVars, vars
  <1>1. stage[c] # "idle" => base[c] \in Contents /\ base[c] # NoPlan
    BY MigrationAssumption DEF MigrationAssumption, Bases, Contents
  <1>2. MigrationTypeOK'
    <2> USE DEF MigrationTypeOK, Copies, MigrationStages, Contents
    <2>1. CASE CreateRecord(c)
      BY <1>1, <2>1
    <2>2. CASE SealRecord(c)
      BY <1>1, <2>2
    <2>3. CASE RecordFails(c)
      BY <1>1, <2>3
    <2> QED
      BY <2>1, <2>2, <2>3
  <1>3. Bases'
    BY <1>1 DEF Bases, MigrationTypeOK, TypeOK
  <1>4. Landing'
    BY <1>1 DEF Landing, MigrationTypeOK, TypeOK, Before, After, Replacing, Bases
  <1>5. CopiesMade'
    <2> USE DEF CopiesMade, MigrationTypeOK, TypeOK, OneWriter, BackedUp, After, Whole,
                  Text, Present, Copies, Replacing, Bases
    <2>1. CASE CreateRecord(c)
      <3> SUFFICES ASSUME NEW d \in Callers
                   PROVE  /\ stage'[d] = "filling" => backup'[Text(d)'] = "torn"
                          /\ stage'[d] \in BackedUp => backup'[Text(d)'] \in Whole
                          /\ stage'[d] = "sealing" => record'[Text(d)'] = "torn"
        OBVIOUS
      <3>1. base' = base /\ Text(c) \in Texts
        BY <1>1, <2>1 DEF Contents
      <3>2. stage[d] # "idle" => Text(d) \in Texts
        BY DEF Contents
      <3>3. CASE d = c
        BY <1>1, <2>1, <3>1, <3>2, <3>3
      <3>4. CASE d # c /\ stage[d] # "idle" /\ Text(d) = Text(c)
        BY <1>1, <2>1, <3>1, <3>2, <3>4
      <3>5. CASE d # c /\ stage[d] # "idle" /\ Text(d) # Text(c)
        BY <1>1, <2>1, <3>1, <3>2, <3>5
      <3>6. CASE d # c /\ stage[d] = "idle"
        BY <1>1, <2>1, <3>1, <3>6
      <3> QED
        BY <3>3, <3>4, <3>5, <3>6
    <2>2. CASE SealRecord(c)
      BY <1>1, <2>2
    <2>3. CASE RecordFails(c)
      BY <1>1, <2>3
    <2> QED
      BY <2>1, <2>2, <2>3
  <1>6. OneWriter'
    BY <1>1 DEF OneWriter, MigrationTypeOK, TypeOK, Text, CopiesMade, Present, Replacing,
       Bases
  <1>7. PlanBacked'
    BY <1>1 DEF PlanBacked, MigrationTypeOK, TypeOK, CopiesMade, Landing, BackedUp, After,
       Whole, Text, Present, Bases
  <1>8. Sealed'
    <2> USE DEF Sealed, MigrationTypeOK, TypeOK, CopiesMade, OneWriter, Landing, Held,
                  Before, After, Replacing, Whole, Text, Present, Bases
    <2>1. CASE CreateRecord(c)
      BY <1>1, <2>1
    <2>2. CASE SealRecord(c)
      <3> SUFFICES ASSUME NEW d \in Callers
                   PROVE  /\ answer'[d] = "failed" => planned'[d] = NoPlan
                          /\ answer'[d] \in {"replaced", "warned", "applied"} =>
                               planned'[d] # NoPlan
                          /\ answer'[d] \in {"warned", "applied"} =>
                               record'[planned'[d].text] \in Whole
        OBVIOUS
      <3>1. /\ planned' = planned /\ planned[c] = base[c] /\ Text(c) \in Texts
            /\ record' = [record EXCEPT ![Text(c)] = "whole"]
        BY <1>1, <2>2 DEF Contents
      <3>2. CASE d = c
        BY <1>1, <2>2, <3>1, <3>2
      <3>3. CASE d # c
        BY <1>1, <2>2, <3>1, <3>3
      <3> QED
        BY <3>2, <3>3
    <2>3. CASE RecordFails(c)
      BY <1>1, <2>3
    <2> QED
      BY <2>1, <2>2, <2>3
  <1>9. Held'
    BY <1>1 DEF Held, MigrationTypeOK, TypeOK, Replacing, Bases
  <1> QED
    BY <1>2, <1>3, <1>4, <1>5, <1>6, <1>7, <1>8, <1>9

\* What happens around the calls: edits, and the end of the process.
LEMMA EnvironmentPreserves ==
  ASSUME MigrationInvariant, TypeOK', Edit \/ Kill \/ LosePower
  PROVE  MigrationInvariant'
  <1> USE DEF MigrationInvariant
  <1>1. CASE Edit
    <2>1. MigrationTypeOK'
      BY <1>1, MigrationAssumption DEF MigrationAssumption, Edit, MigrationTypeOK, Contents,
         callVars, historyVars
    <2> QED
      BY <1>1, <2>1 DEF Edit, Bases, Landing, CopiesMade, OneWriter, PlanBacked, Sealed,
                        Held, Text, callVars, historyVars, lockVars, vars
  <1>2. CASE Kill
    <2>1. MigrationTypeOK'
      BY <1>2 DEF Kill, Die, MigrationTypeOK, MigrationStages
    <2>2. Bases' /\ Landing' /\ CopiesMade' /\ OneWriter' /\ Held'
      BY <1>2 DEF Kill, Die, Bases, Landing, CopiesMade, OneWriter, Held, Before, After,
                  BackedUp, Replacing
    <2>3. PlanBacked' /\ Sealed'
      BY <1>2 DEF Kill, Die, PlanBacked, Sealed, MigrationTypeOK
    <2> QED
      BY <2>1, <2>2, <2>3
  <1>3. CASE LosePower
    <2>1. MigrationTypeOK'
      BY <1>3 DEF LosePower, Die, MigrationTypeOK, MigrationStages
    <2>2. Bases' /\ Landing' /\ CopiesMade' /\ OneWriter' /\ Held'
      BY <1>3 DEF LosePower, Die, Bases, Landing, CopiesMade, OneWriter, Held, Before,
         After,
                  BackedUp, Replacing
    <2>3. PlanBacked' /\ Sealed'
      BY <1>3 DEF LosePower, Die, PlanBacked, Sealed
    <2> QED
      BY <2>1, <2>2, <2>3
  <1> QED
    BY <1>1, <1>2, <1>3

LEMMA MigrationInvariantKept ==
  ASSUME MigrationInvariant, TypeOK', [MigrationNext]_migrationVars
  PROVE  MigrationInvariant'
  <1>1. CASE UNCHANGED migrationVars
    BY <1>1 DEF migrationVars, lockVars, vars, storeVars, callVars, historyVars,
                MigrationInvariant, MigrationTypeOK, Bases, Landing, CopiesMade, OneWriter,
                PlanBacked,
                Sealed, Held, Text
  <1>2. CASE MigrationNext
    BY <1>2, MovePreserves, LockingPreserves, BackupPreserves, RenamePreserves,
       RecordPreserves, EnvironmentPreserves DEF MigrationNext, Advance
  <1> QED
    BY <1>1, <1>2

LEMMA MigrationInvariantThroughout == MigrationSpec => []MigrationInvariant
  <1>1. LockInvariant => TypeOK
    BY DEF LockInvariant
  <1> QED
    BY <1>1, MigrationInitHolds, MigrationInvariantKept, LockInvariantThroughout, PTL
    DEF MigrationSpec

-----------------------------------------------------------------------------
\* The types of documents, calls and lock.
THEOREM MigrationTypeCorrect == MigrationSpec => []MigrationTypeOK
  <1>1. MigrationInvariant => MigrationTypeOK
    BY DEF MigrationInvariant
  <1> QED
    BY <1>1, MigrationInvariantThroughout, PTL

\* The lock excludes although the process that holds it may be killed and
\* started again.
THEOREM MigrationsExclude == MigrationSpec => []MutualExclusion
  <1>1. LockInvariant => MutualExclusion
    BY DEF LockInvariant, TokenOrInside
  <1> QED
    BY <1>1, LockInvariantThroughout, PTL

\* No two migrations of one document are between comparison and rename.
OneReplacement ==
  \A c, d \in Callers :
    stage[c] \in Replacing \ {"mutating"} /\ stage[d] \in Replacing \ {"mutating"} => c = d

\* The comparison of one migration is not outdated by the rename of another.
THEOREM ReplacementsExclude == MigrationSpec => []OneReplacement
  <1>1. MigrationInvariant /\ MutualExclusion => OneReplacement
    BY DEF MigrationInvariant, Held, MutualExclusion, OneReplacement
  <1> QED
    BY <1>1, MigrationInvariantThroughout, MigrationsExclude, PTL

\* What a call is about to replace is what it planned from, unless it was edited.
Compared ==
  \A c \in Callers : stage[c] = "rechecked" => c \in overtaken \/ doc = base[c]

LEMMA ComparedKept ==
  ASSUME MigrationInvariant, MutualExclusion, Compared, [MigrationNext]_migrationVars
  PROVE  Compared'
  <1> SUFFICES ASSUME NEW d \in Callers, stage'[d] = "rechecked"
               PROVE  d \in overtaken' \/ doc' = base'[d]
    BY DEF Compared
  <1> USE DEF Goes, Ends, storeVars, callVars, historyVars, MigrationTypeOK
  <1>1. CASE UNCHANGED migrationVars
    BY <1>1 DEF migrationVars, Compared
  <1>2. CASE Edit
    BY <1>2 DEF Edit
  <1>3. CASE Kill \/ LosePower
    BY <1>3 DEF Kill, LosePower, Die
  <1>4. ASSUME NEW c \in Callers, Rename(c)
        PROVE  FALSE
    <2>1. stage[c] = "rechecked" /\ stage[d] = "rechecked" /\ c # d
      BY <1>4 DEF Rename, MigrationInvariant
    <2> QED
      BY <2>1 DEF MigrationInvariant, Held, MutualExclusion, Replacing
  <1>5. ASSUME NEW c \in Callers, Compare(c)
        PROVE  d \in overtaken' \/ doc' = base'[d]
    BY <1>5 DEF Compare, Compared, MigrationInvariant
  <1>6. ASSUME NEW c \in Callers, ApplyFails(c)
        PROVE  d \in overtaken' \/ doc' = base'[d]
    <2>1. d # c /\ overtaken' = overtaken \ {c} /\ doc' = doc
      BY <1>6 DEF ApplyFails, MigrationInvariant
    <2>2. stage[d] = "rechecked" /\ base'[d] = base[d]
      BY <1>6, <2>1 DEF ApplyFails, MigrationInvariant
    <2> QED
      BY <2>1, <2>2 DEF Compared
  <1>7. ASSUME NEW c \in Callers, Plan(c)
        PROVE  d \in overtaken' \/ doc' = base'[d]
    BY <1>7 DEF Plan, Compared, MigrationInvariant
  <1>8. ASSUME NEW c \in Callers,
               Load(c) \/ Lock(c) \/ SyncDocument(c) \/ SyncDocumentFails(c) \/ Unlock(c)
        PROVE  d \in overtaken' \/ doc' = base'[d]
    BY <1>8 DEF Load, Lock, SyncDocument, SyncDocumentFails, Unlock, Compared,
                MigrationInvariant
  <1>9. ASSUME NEW c \in Callers,
               \/ CreateBackup(c) \/ FillBackup(c) \/ BackupFails(c)
               \/ ReadInstalled(c) \/ CreateRecord(c) \/ SealRecord(c) \/ RecordFails(c)
        PROVE  d \in overtaken' \/ doc' = base'[d]
    BY <1>9 DEF CreateBackup, FillBackup, BackupFails, ReadInstalled, CreateRecord,
                SealRecord, RecordFails, Compared, MigrationInvariant
  <1>10. ASSUME NEW c \in Callers,
                Refuse(c) \/ Unproven(c) \/ LockCancelled(c) \/ FailsAfterReplace(c)
         PROVE  d \in overtaken' \/ doc' = base'[d]
    BY <1>10 DEF Refuse, Unproven, LockCancelled, FailsAfterReplace, Compared,
                 MigrationInvariant
  <1> QED
    BY <1>1, <1>2, <1>3, <1>4, <1>5, <1>6, <1>7, <1>8, <1>9, <1>10
    DEF MigrationNext, Advance

\* Whatever document a call is about to replace has its complete backup, and so has
\* the one its replacement was planned from, while the machine is up; only an edit
\* made after the last comparison is replaced without one.  The lock keeps other
\* migrations from making one.
THEOREM BackupsExact == MigrationSpec => []BackupExact
  <1>1. MigrationInit => Compared
    BY DEF MigrationInit, Compared
  <1>2. MigrationSpec => []Compared
    BY <1>1, ComparedKept, MigrationInvariantThroughout, MigrationsExclude, PTL
    DEF MigrationSpec
  <1>3. MigrationInvariant /\ Compared => BackupExact
    BY DEF MigrationInvariant, Compared, CopiesMade, PlanBacked, BackupExact, BackedUp,
           Whole, Text
  <1> QED
    BY <1>2, <1>3, MigrationInvariantThroughout, PTL

\* What Apply answers is true of document and record.
THEOREM MigrationAnswersHonest == MigrationSpec => []AnswerHonest
  <1>1. MigrationInvariant => AnswerHonest
    BY DEF MigrationInvariant, Sealed, AnswerHonest, Whole, Present
  <1> QED
    BY <1>1, MigrationInvariantThroughout, PTL

=============================================================================
