------------------------------ MODULE Migration ------------------------------
(***************************************************************************)
(* Planning and applying the migration of one managed metadata document:   *)
(* an exact backup is created first, the document is replaced under the    *)
(* path lock of the executor, what is installed is read back, and an       *)
(* immutable record ends it.  The lock excludes the other migrations of    *)
(* the executor, not the session repository or the user, who may write the *)
(* document at any time.  A call may fail, the process may be killed and   *)
(* power may be lost between any two steps; the new directories around     *)
(* backup and record are never synchronised.                               *)
(*                                                                         *)
(* Source: internal/migration/{planner,executor}.go,                       *)
(* internal/filesystem/{mutation,update}.go.                               *)
(***************************************************************************)
EXTENDS PathLock

CONSTANTS
  Texts,     \* what a document says besides its version
  NoPlan,
  Current    \* the schema version a migration leads to, step by step

ASSUME MigrationAssumption ==
  /\ Current \in Nat \ {0}
  /\ NoPlan \notin [version : 1 .. Current, text : Texts]

VARIABLES
  doc,       \* the document: its version and text
  docLeft,   \* what a loss of power may leave of it
  backup,    \* text -> the backup of the migration of that text
  record,    \* text -> its migration record
  stage,     \* caller -> how far it has come
  base,      \* caller -> the document its call planned from
  synced,    \* caller -> the directory was synchronised after its replacement
  planned,   \* history: caller -> the document its last call was planned from, if
             \* it replaced one since the machine is up
  overtaken, \* history: calls whose document was edited after they compared it for
             \* the last time, and before they replace what is there
  answer     \* caller -> what Apply returned

lockVars == vars

storeVars == <<doc, docLeft, backup, record>>

historyVars == <<planned, overtaken>>

callVars == <<stage, base, synced, historyVars, answer>>

migrationVars == <<lockVars, storeVars, callVars>>

Contents == [version : 1 .. Current, text : Texts]

\* "lost": created, and taken back by a loss of power.
Copies == {"absent", "torn", "whole", "durable", "lost"}

Present(copy) == copy \in {"torn", "whole", "durable"}

MigrationStages == {"idle", "planned", "backing", "filling", "mutating", "compared",
                    "rechecked", "renamed", "replaced", "installed", "sealing"}

\* Stages inside MutationExecutor.Apply, between acquire and release.
Replacing == {"mutating", "compared", "rechecked", "renamed"}

MigrationInit ==
  /\ Init
  /\ doc \in [version : {1}, text : Texts]
  /\ docLeft = {doc}
  /\ backup = [t \in Texts |-> "absent"]
  /\ record = [t \in Texts |-> "absent"]
  /\ stage = [c \in Callers |-> "idle"]
  /\ base = [c \in Callers |-> NoPlan]
  /\ synced = [c \in Callers |-> FALSE]
  /\ planned = [c \in Callers |-> NoPlan]
  /\ overtaken = {}
  /\ answer = [c \in Callers |-> "none"]

Goes(c, from, to) == stage[c] = from /\ stage' = [stage EXCEPT ![c] = to]

Ends(c, result) ==
  /\ stage' = [stage EXCEPT ![c] = "idle"]
  /\ answer' = [answer EXCEPT ![c] = result]
  /\ base' = [base EXCEPT ![c] = NoPlan]
  /\ synced' = [synced EXCEPT ![c] = FALSE]

\* Defect: a version too many.
Overmigrated(content) == [content EXCEPT !.version = Current + 1]

\* PlanDocument: one step per version, up to the current one.
Migrated(content) == [content EXCEPT !.version = Current]

-----------------------------------------------------------------------------
(* Plan and backup.                                                        *)

Plan(c) ==
  /\ stage[c] = "idle" /\ pc[c] = "out"
  /\ doc.version < Current
  /\ base' = [base EXCEPT ![c] = doc]
  /\ planned' = [planned EXCEPT ![c] = NoPlan]
  /\ answer' = [answer EXCEPT ![c] = "none"]
  /\ stage' = [stage EXCEPT ![c] = "planned"]
  /\ UNCHANGED <<lockVars, storeVars, synced, overtaken>>

\* Apply: the plan is approved where it must be, and the document it was made
\* from is still there.
Load(c) ==
  /\ Goes(c, "planned", "backing")
  /\ doc = base[c]
  /\ UNCHANGED <<lockVars, storeVars, base, synced, historyVars, answer>>

\* Defect: a backup that is there is written over.
TruncateBackup(c) ==
  /\ Goes(c, "backing", "filling")
  /\ backup' = [backup EXCEPT ![base[c].text] = "torn"]
  /\ UNCHANGED <<lockVars, doc, docLeft, record, base, synced, historyVars, answer>>

\* createExclusiveSyncedFile creates the file, and fills it.
CreateBackup(c) ==
  /\ Goes(c, "backing", "filling")
  /\ ~Present(backup[base[c].text])
  /\ backup' = [backup EXCEPT ![base[c].text] = "torn"]
  /\ UNCHANGED <<lockVars, doc, docLeft, record, base, synced, historyVars, answer>>

FillBackup(c) ==
  /\ Goes(c, "filling", "mutating")
  /\ backup' = [backup EXCEPT ![base[c].text] = "whole"]
  /\ UNCHANGED <<lockVars, doc, docLeft, record, base, synced, historyVars, answer>>

\* A file that cannot be filled is removed; one whose directory cannot be
\* synchronised stays.
BackupFails(c) ==
  /\ stage[c] = "filling"
  /\ \E copy \in {"absent", "whole"} : backup' = [backup EXCEPT ![base[c].text] = copy]
  /\ Ends(c, "failed")
  /\ UNCHANGED <<lockVars, doc, docLeft, record, historyVars>>

\* Nothing more was created or replaced: no approval, a stale plan, a request
\* that was cancelled, or a backup that is there already, whatever became of
\* the call that made it.
Refuse(c) ==
  /\ stage[c] \in {"planned", "backing"}
  /\ Ends(c, "failed")
  /\ UNCHANGED <<lockVars, storeVars, historyVars>>

\* The metadata of course, module and session no longer prove the document
\* managed: asked before the backup, before the lock, and twice under it.
Unproven(c) ==
  /\ stage[c] \in {"planned", "mutating", "compared"}
  /\ pc[c] # "waiting"
  /\ Ends(c, "failed")
  /\ UNCHANGED <<lockVars, storeVars, historyVars>>

-----------------------------------------------------------------------------
(* MutationExecutor.Apply, under the path lock.                            *)

Lock(c) ==
  /\ stage[c] = "mutating"
  /\ Register(c) \/ TakeToken(c)
  /\ UNCHANGED <<storeVars, callVars>>

LockCancelled(c) ==
  /\ GiveUp(c)
  /\ Ends(c, "failed")
  /\ UNCHANGED <<storeVars, historyVars>>

\* The document is compared before the temporary file is written, and after.
Compare(c) ==
  /\ pc[c] = "inside"
  /\ Goes(c, "mutating", "compared") \/ Goes(c, "compared", "rechecked")
  /\ doc = base[c]
  /\ UNCHANGED <<lockVars, storeVars, base, synced, historyVars, answer>>

ApplyFails(c) ==
  /\ pc[c] = "inside"
  /\ stage[c] \in Replacing \ {"renamed"}
  /\ Ends(c, "failed")
  /\ overtaken' = overtaken \ {c}
  /\ UNCHANGED <<lockVars, storeVars, planned>>

\* Whatever document is there is replaced.
Rename(c) ==
  /\ Goes(c, "rechecked", "renamed")
  /\ doc' = Migrated(base[c])
  /\ docLeft' = docLeft \cup {doc'}
  /\ planned' = [planned EXCEPT ![c] = base[c]]
  /\ overtaken' = overtaken \ {c}
  /\ UNCHANGED <<lockVars, backup, record, base, synced, answer>>

SyncDocument(c) ==
  /\ Goes(c, "renamed", "replaced")
  /\ docLeft' = {doc}
  /\ synced' = [synced EXCEPT ![c] = TRUE]
  /\ UNCHANGED <<lockVars, doc, backup, record, base, historyVars, answer>>

\* Replaced, and not known to be durable.
SyncDocumentFails(c) ==
  /\ Goes(c, "renamed", "replaced")
  /\ UNCHANGED <<lockVars, storeVars, base, synced, historyVars, answer>>

Unlock(c) ==
  /\ stage[c] \notin Replacing
  /\ PutToken(c) \/ Leave(c)
  /\ UNCHANGED <<storeVars, callVars>>

-----------------------------------------------------------------------------
(* Reconciliation, validation and the record.                              *)

\* What is installed is read back, after a failed synchronisation as well.
ReadInstalled(c) ==
  /\ pc[c] = "out"
  /\ Goes(c, "replaced", "installed")
  /\ doc = Migrated(base[c])
  /\ UNCHANGED <<lockVars, storeVars, base, synced, historyVars, answer>>

CreateRecord(c) ==
  /\ Goes(c, "installed", "sealing")
  /\ ~Present(record[base[c].text])
  /\ record' = [record EXCEPT ![base[c].text] = "torn"]
  /\ UNCHANGED <<lockVars, doc, docLeft, backup, base, synced, historyVars, answer>>

SealRecord(c) ==
  /\ stage[c] = "sealing"
  /\ record' = [record EXCEPT ![base[c].text] = "whole"]
  /\ Ends(c, IF synced[c] THEN "applied" ELSE "warned")
  /\ UNCHANGED <<lockVars, doc, docLeft, backup, historyVars>>

RecordFails(c) ==
  /\ stage[c] = "sealing"
  /\ \E copy \in {"absent", "whole"} : record' = [record EXCEPT ![base[c].text] = copy]
  /\ Ends(c, "replaced")
  /\ UNCHANGED <<lockVars, doc, docLeft, backup, historyVars>>

\* Defect: another document than the expected one is a stale plan like others.
StaleAfterReplace(c) ==
  /\ stage[c] \in {"replaced", "installed"} /\ pc[c] = "out"
  /\ Ends(c, IF doc = Migrated(base[c]) THEN "replaced" ELSE "failed")
  /\ UNCHANGED <<lockVars, storeVars, historyVars>>

\* Another document than the expected one, one nothing proves managed, an
\* unreadable one, or a record that is there already.
FailsAfterReplace(c) ==
  /\ stage[c] \in {"replaced", "installed"} /\ pc[c] = "out"
  /\ Ends(c, "replaced")
  /\ UNCHANGED <<lockVars, storeVars, historyVars>>

-----------------------------------------------------------------------------
(* The environment.                                                        *)

\* The session repository replaces the document and synchronises it, or the
\* document of an earlier version is put back.
Edit ==
  /\ doc' \in [version : {doc.version, 1}, text : Texts] \ {doc}
  /\ docLeft' = {doc'}
  /\ overtaken' = overtaken \cup {c \in Callers : stage[c] = "rechecked"}
  /\ UNCHANGED <<lockVars, backup, record, stage, base, synced, planned, answer>>

Die ==
  /\ current' = NoLock
  /\ refs' = [l \in Locks |-> 0]
  /\ token' = [l \in Locks |-> FALSE]
  /\ mine' = [c \in Callers |-> NoLock]
  /\ pc' = [c \in Callers |-> "out"]
  /\ base' = [c \in Callers |-> NoPlan]
  /\ synced' = [c \in Callers |-> FALSE]
  /\ stage' = [c \in Callers |-> "idle"]
  /\ overtaken' = {}

Kill ==
  /\ Die
  /\ answer' = [c \in Callers |-> IF stage[c] = "idle" THEN answer[c] ELSE "none"]
  /\ UNCHANGED <<doc, docLeft, backup, record, planned>>

\* Copies are synchronised before they are relied on, but not the directories
\* made for them: a first loss of power may take a copy with its directory.
AfterPowerLoss(copy) ==
  CASE copy = "torn" -> {"torn", "lost"}
    [] copy = "whole" -> {"durable", "lost"}
    [] OTHER -> {copy}

LosePower ==
  /\ Die
  /\ doc' \in docLeft
  /\ docLeft' = {doc'}
  /\ backup' \in {f \in [Texts -> Copies] : \A t \in Texts : f[t] \in AfterPowerLoss(backup[t])}
  /\ record' \in {f \in [Texts -> Copies] : \A t \in Texts : f[t] \in AfterPowerLoss(record[t])}
  /\ planned' = [c \in Callers |-> NoPlan]
  /\ answer' = [c \in Callers |-> "none"]

Advance(c) ==
  \/ Compare(c) \/ ApplyFails(c) \/ Rename(c) \/ SyncDocument(c) \/ SyncDocumentFails(c)
  \/ Unlock(c)

MigrationNext ==
  \/ \E c \in Callers :
       \/ Plan(c) \/ Load(c) \/ CreateBackup(c) \/ FillBackup(c) \/ BackupFails(c)
       \/ Refuse(c) \/ Unproven(c) \/ Lock(c) \/ LockCancelled(c) \/ Advance(c)
       \/ ReadInstalled(c) \/ CreateRecord(c) \/ SealRecord(c) \/ RecordFails(c)
       \/ FailsAfterReplace(c)
  \/ Edit \/ Kill \/ LosePower

\* A call that has the lock goes on and lets go of it; waiters are served in
\* turn.
MigrationSpec ==
  /\ MigrationInit
  /\ [][MigrationNext]_migrationVars
  /\ \A c \in Callers : WF_migrationVars(Advance(c)) /\ SF_migrationVars(Lock(c))

-----------------------------------------------------------------------------
(* Properties.                                                             *)

\* Types of the documents, the calls and the lock.
MigrationTypeOK ==
  /\ TypeOK
  /\ doc \in Contents /\ docLeft \subseteq Contents /\ doc \in docLeft
  /\ backup \in [Texts -> Copies] /\ record \in [Texts -> Copies]
  /\ stage \in [Callers -> MigrationStages]
  /\ base \in [Callers -> Contents \cup {NoPlan}]
  /\ synced \in [Callers -> BOOLEAN]
  /\ planned \in [Callers -> Contents \cup {NoPlan}]
  /\ overtaken \subseteq Callers
  /\ answer \in [Callers -> {"none", "failed", "replaced", "warned", "applied"}]

\* "creates an exact backup": the document a call is about to replace, whichever is
\* there, has its complete backup, and so has, while the machine is up, the one its
\* last replacement was planned from, however that call and the ones after it ended.
\* Excepted is a document edited after the call compared it for the last time:
\* nothing compares again, and the edit is replaced without a backup.
BackupExact ==
  \A c \in Callers :
    /\ stage[c] = "rechecked" /\ c \notin overtaken =>
         backup[doc.text] \in {"whole", "durable"}
    /\ planned[c] # NoPlan => backup[planned[c].text] \in {"whole", "durable"}

\* A plain error says the document was not replaced by the call; a result, or
\* an error that says it was, that it was, and that the record is there if the
\* call says so.
AnswerHonest ==
  \A c \in Callers :
    /\ answer[c] = "failed" => planned[c] = NoPlan
    /\ answer[c] \in {"replaced", "warned", "applied"} => planned[c] # NoPlan
    /\ answer[c] \in {"warned", "applied"} => Present(record[planned[c].text])

=============================================================================
