---------------------------- MODULE RuntimeUpdate ----------------------------
(***************************************************************************)
(* Replacing .studypilot-runtime.json: Repository.UpdateRuntime and the    *)
(* MutationExecutor.Apply below it, step by step.  Callers share a path    *)
(* lock with the other callers of their own process only.  Readers take no *)
(* lock.  A rename is visible at once, but a loss of power may undo it     *)
(* until the directory has been synchronised; a file renamed before its    *)
(* bytes were synchronised could come back incomplete.                     *)
(*                                                                         *)
(* Source: internal/filesystem/update.go, internal/session/repository.go.  *)
(***************************************************************************)
EXTENDS Integers

CONSTANTS
  Callers,      \* concurrent calls of UpdateRuntime
  Nobody,       \* no caller; the creator of the record
  Processes,
  ProcessOf,    \* the process each caller runs in
  MaxRevision   \* no update starts from this revision: bounds the model

ASSUME UpdateAssumption ==
  /\ Nobody \notin Callers
  /\ ProcessOf \in [Callers -> Processes]
  /\ MaxRevision \in Nat

VARIABLES
  file,      \* what a reader of the path finds
  exposed,   \* what a loss of power may leave there
  lock,      \* process -> the caller that holds its path lock
  pc,        \* caller -> how far its update has come
  base,      \* caller -> the record it was given, and expects to replace
  synced,    \* caller -> its temporary file has been synchronised
  outcome,   \* caller -> what its last UpdateRuntime returned
  landed,    \* history: caller -> its last update was renamed into place
  acked      \* history: updates reported as installed and durable

updateVars == <<file, exposed, lock, pc, base, synced, outcome, landed, acked>>

Version == [revision : Nat \ {0}, by : Callers \cup {Nobody}, whole : BOOLEAN]

Stages == {"idle", "loaded", "checked", "locked", "compared", "written",
           "closed", "rechecked", "renamed", "unsynced", "applied"}

Holding == {"locked", "compared", "written", "closed", "rechecked", "renamed"}

Outcomes == {"none", "conflict", "failed", "unread", "warned", "installed"}

First == [revision |-> 1, by |-> Nobody, whole |-> TRUE]

Proposed(c) == [revision |-> base[c].revision + 1, by |-> c, whole |-> TRUE]

\* The temporary file as a loss of power may leave it.
Remains(c) ==
  IF synced[c] THEN {Proposed(c)} ELSE {Proposed(c), [Proposed(c) EXCEPT !.whole = FALSE]}

Goto(c, from, to) == pc[c] = from /\ pc' = [pc EXCEPT ![c] = to]

Release(c) == lock' = [lock EXCEPT ![ProcessOf[c]] = IF @ = c THEN Nobody ELSE @]

Ends(c, result) ==
  /\ pc' = [pc EXCEPT ![c] = "idle"]
  /\ outcome' = [outcome EXCEPT ![c] = result]

-----------------------------------------------------------------------------
UpdateInit ==
  /\ file = First
  /\ exposed = {First}
  /\ lock = [p \in Processes |-> Nobody]
  /\ pc = [c \in Callers |-> "idle"]
  /\ base = [c \in Callers |-> First]
  /\ synced = [c \in Callers |-> FALSE]
  /\ outcome = [c \in Callers |-> "none"]
  /\ landed = [c \in Callers |-> FALSE]
  /\ acked = {}

\* The use case resolves the session and decides on an update.
Load(c) ==
  /\ Goto(c, "idle", "loaded")
  /\ file.whole /\ file.revision < MaxRevision
  /\ base' = [base EXCEPT ![c] = file]
  /\ synced' = [synced EXCEPT ![c] = FALSE]
  /\ outcome' = [outcome EXCEPT ![c] = "none"]
  /\ landed' = [landed EXCEPT ![c] = FALSE]
  /\ UNCHANGED <<file, exposed, lock, acked>>

\* UpdateRuntime loads again and compares revision and hash.
Check(c) ==
  /\ file = base[c]
  /\ Goto(c, "loaded", "checked")
  /\ UNCHANGED <<file, exposed, lock, base, synced, outcome, landed, acked>>

\* Defect: callers of one process do not exclude each other.
AcquireShared(c) ==
  /\ Goto(c, "checked", "locked")
  /\ lock' = [lock EXCEPT ![ProcessOf[c]] = c]
  /\ UNCHANGED <<file, exposed, base, synced, outcome, landed, acked>>

Acquire(c) ==
  /\ lock[ProcessOf[c]] = Nobody
  /\ Goto(c, "checked", "locked")
  /\ lock' = [lock EXCEPT ![ProcessOf[c]] = c]
  /\ UNCHANGED <<file, exposed, base, synced, outcome, landed, acked>>

Compare(c) ==
  /\ file = base[c]
  /\ Goto(c, "locked", "compared")
  /\ UNCHANGED <<file, exposed, lock, base, synced, outcome, landed, acked>>

WriteTemporary(c) ==
  /\ Goto(c, "compared", "written")
  /\ UNCHANGED <<file, exposed, lock, base, synced, outcome, landed, acked>>

\* Defect: the temporary file is closed without being synchronised.
CloseTemporary(c) ==
  /\ Goto(c, "written", "closed")
  /\ UNCHANGED <<file, exposed, lock, base, synced, outcome, landed, acked>>

SyncTemporary(c) ==
  /\ Goto(c, "written", "closed")
  /\ synced' = [synced EXCEPT ![c] = TRUE]
  /\ UNCHANGED <<file, exposed, lock, base, outcome, landed, acked>>

Recheck(c) ==
  /\ file = base[c]
  /\ Goto(c, "closed", "rechecked")
  /\ UNCHANGED <<file, exposed, lock, base, synced, outcome, landed, acked>>

Rename(c) ==
  /\ Goto(c, "rechecked", "renamed")
  /\ file' = Proposed(c)
  /\ exposed' = exposed \cup Remains(c)
  /\ landed' = [landed EXCEPT ![c] = TRUE]
  /\ UNCHANGED <<lock, base, synced, outcome, acked>>

\* Defect: the update is confirmed before the directory is synchronised.
SyncDirectoryLater(c) ==
  /\ Goto(c, "renamed", "applied")
  /\ Release(c)
  /\ UNCHANGED <<file, exposed, base, synced, outcome, landed, acked>>

\* Apply succeeds and lets go of the lock before the record is read back.
SyncDirectory(c) ==
  /\ Goto(c, "renamed", "applied")
  /\ exposed' = {file}
  /\ Release(c)
  /\ UNCHANGED <<file, base, synced, outcome, landed, acked>>

SyncDirectoryFails(c) ==
  /\ Goto(c, "renamed", "unsynced")
  /\ Release(c)
  /\ UNCHANGED <<file, exposed, base, synced, outcome, landed, acked>>

\* After a directory-sync failure the installed hash is inspected.
Inspect(c) ==
  /\ pc[c] = "unsynced"
  /\ Ends(c, IF file = Proposed(c) THEN "warned" ELSE "unread")
  /\ UNCHANGED <<file, exposed, lock, base, synced, landed, acked>>

\* The record is loaded again to be returned, whoever wrote it by now.
ReadBack(c) ==
  /\ pc[c] = "applied"
  /\ Ends(c, "installed")
  /\ acked' = acked \cup {Proposed(c)}
  /\ UNCHANGED <<file, exposed, lock, base, synced, landed>>

\* Defect: a failed read-back is reported as a failed update.
ReadBackFailsUpdate(c) ==
  /\ pc[c] \in {"applied", "unsynced"}
  /\ Ends(c, "failed")
  /\ UNCHANGED <<file, exposed, lock, base, synced, landed, acked>>

\* Either read can fail, or be cancelled, after the record was replaced.
ReadBackFails(c) ==
  /\ pc[c] \in {"applied", "unsynced"}
  /\ Ends(c, "unread")
  /\ UNCHANGED <<file, exposed, lock, base, synced, landed, acked>>

\* One of the three comparisons does not find the expected record.
Conflict(c) ==
  /\ pc[c] \in {"loaded", "locked", "closed"}
  /\ file # base[c]
  /\ Ends(c, "conflict")
  /\ Release(c)
  /\ UNCHANGED <<file, exposed, base, synced, landed, acked>>

\* Anything else before the rename: an invalid transition, a cancelled
\* context, a failed write or a failed rename.
Fail(c) ==
  /\ pc[c] \in {"loaded", "checked"} \cup (Holding \ {"renamed"})
  /\ Ends(c, "failed")
  /\ Release(c)
  /\ UNCHANGED <<file, exposed, base, synced, landed, acked>>

-----------------------------------------------------------------------------
Interrupted(who) == [c \in Callers |-> IF c \in who THEN "idle" ELSE pc[c]]

\* One process dies; what it wrote so far stays visible.
Kill(p) ==
  LET who == {c \in Callers : ProcessOf[c] = p} IN
  /\ pc' = Interrupted(who)
  /\ lock' = [lock EXCEPT ![p] = Nobody]
  /\ outcome' = [c \in Callers |-> IF c \in who THEN "none" ELSE outcome[c]]
  /\ UNCHANGED <<file, exposed, base, synced, landed, acked>>

LosePower ==
  /\ file' \in exposed
  /\ exposed' = {file'}
  /\ lock' = [p \in Processes |-> Nobody]
  /\ pc' = Interrupted(Callers)
  /\ outcome' = [c \in Callers |-> "none"]
  /\ UNCHANGED <<base, synced, landed, acked>>

UpdateNext ==
  \/ \E c \in Callers :
       \/ Load(c) \/ Check(c) \/ Acquire(c) \/ Compare(c)
       \/ WriteTemporary(c) \/ SyncTemporary(c) \/ Recheck(c) \/ Rename(c)
       \/ SyncDirectory(c) \/ SyncDirectoryFails(c)
       \/ Inspect(c) \/ ReadBack(c) \/ ReadBackFails(c)
       \/ Conflict(c) \/ Fail(c)
  \/ \E p \in Processes : Kill(p)
  \/ LosePower

UpdateSpec == UpdateInit /\ [][UpdateNext]_updateVars

-----------------------------------------------------------------------------
(* Properties.                                                             *)

\* Types of the update's state.
UpdateTypeOK ==
  /\ file \in Version
  /\ exposed \subseteq Version
  /\ lock \in [Processes -> Callers \cup {Nobody}]
  /\ pc \in [Callers -> Stages]
  /\ base \in [Callers -> Version]
  /\ synced \in [Callers -> BOOLEAN]
  /\ outcome \in [Callers -> Outcomes]
  /\ landed \in [Callers -> BOOLEAN]
  /\ acked \subseteq Version

\* However many processes write, neither a reader nor a recovery after a loss
\* of power ever finds a record that is incomplete.
NeverIncomplete == file.whole /\ \A v \in exposed : v.whole

\* However many processes write, what UpdateRuntime returns is true of the
\* file: after a conflict, or an error from before the rename, the update
\* was not installed; after a result, with or without the durability warning,
\* it was.
OutcomeHonest ==
  \A c \in Callers :
    /\ outcome[c] \in {"conflict", "failed"} => ~landed[c]
    /\ outcome[c] \in {"installed", "warned"} => landed[c]

\* Within one process two callers that start from the same record yield one
\* success and one conflict: no revision is acknowledged to two of them, and
\* an acknowledged update is only ever replaced by a later revision.
OneWinner ==
  /\ \A a, b \in acked : a.revision = b.revision => a = b
  /\ \A a \in acked : \A v \in exposed \cup {file} : a.revision < v.revision \/ a = v

\* Within one process the steps above amount to one compare-and-swap.
Bare(v) == [revision |-> v.revision, by |-> v.by]

Register == INSTANCE RevisionedRecord
              WITH record <- Bare(file), exposed <- {Bare(v) : v \in exposed}

RegisterSpec == Register!Spec

=============================================================================
