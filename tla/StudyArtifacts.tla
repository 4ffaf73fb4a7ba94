---------------------------- MODULE StudyArtifacts ----------------------------
(***************************************************************************)
(* The study artifacts of a module: notes, assets and transcripts, and the *)
(* one index of them.  A mutation states the revision it expects, installs *)
(* or replaces a file, and then replaces the index; a process serialises   *)
(* its mutations, and several processes are not coordinated (only one is   *)
(* modelled).  Inspection compares the files with the index; refresh makes *)
(* a new index of the files that prove what they are.  The user edits and  *)
(* removes files, sessions lose and regain their runtime record, and       *)
(* transcriptions complete, at any moment.                                 *)
(*                                                                         *)
(* Source: internal/studyartifact/{types,store}.go and                     *)
(* internal/application/studyartifact.go.                                  *)
(***************************************************************************)
EXTENDS Integers, FiniteSets

CONSTANTS
  Callers, Sessions,
  Module,       \* the scope of the module's own notes and assets
  Nobody,
  MaxIssued,    \* how many mutations generate identities: bounds the model
  MaxRevision,  \* bounds the revision of the index
  MaxChanges    \* how often the user or a damaged session interferes: bounds the model

ASSUME StudyArtifactsAssumption ==
  /\ Module \notin Sessions /\ Nobody \notin Callers
  /\ MaxIssued \in Nat /\ MaxRevision \in Nat /\ MaxChanges \in Nat

VARIABLES
  files,      \* path -> the file there
  healthy,    \* sessions a scan returns: those with a sound runtime record
  completed,  \* sessions whose runtime record has a completed transcription
  index,      \* path -> the record of the index
  revision,   \* of the index; a missing index is empty and has revision 0
  issued,     \* how many mutations have generated identities
  mutex,      \* studyArtifactMutationMu
  pc, call,   \* caller -> how far its mutation has come, and its locals
  changes,    \* how often anyone has interfered
  sound       \* history: acknowledged records whose evidence has held since

vars == <<files, healthy, completed, index, revision, issued, mutex, pc, call, changes, sound>>

-----------------------------------------------------------------------------
Scopes == Sessions \cup {Module}

NoteOf(scope) == <<scope, "note", 0>>
TranscriptOf(s) == <<s, "transcript", 0>>
\* The path of an asset holds its identity.  A name that shortening leaves with a
\* trailing dash or half a letter is "misnamed": no record of it is valid.
AssetOf(scope, kind, n) == <<scope, kind, n>>

IsAsset(path) == path[2] \in {"asset", "misnamed"}

Identity(path, n) == <<path[1], path[2], n>>

Hash == {0, 1}

\* "valid": the front matter of a note fits its scope; the four files of a
\* transcript agree with the completed job and the audio they were made from.
File(id, valid, hash) == [id |-> id, valid |-> valid, hash |-> hash]

Entry(id, hash) == [id |-> id, hash |-> hash]

Put(f, path, value) ==
  [p \in DOMAIN f \cup {path} |-> IF p = path THEN value ELSE f[p]]

-----------------------------------------------------------------------------
(* Discovery, inspection.                                                  *)

\* The files of the module and of the sessions in the scan that discovery
\* looks at; a transcript counts when its job is completed.
Looked(seen, done) ==
  {p \in DOMAIN files :
     /\ p[1] \in seen \cup {Module}
     /\ p[2] = "transcript" => p[1] \in done}

\* Defect: a note carries its own identity, whatever the index says.
ProvesFrontMatter(p, known) == files[p].valid

\* The front matter fits, with the identity of the index if that has one.
NoteProves(p, known) ==
  files[p].valid /\ (p \in DOMAIN known => files[p].id = known[p].id)

\* Text, provenance and job metadata are there and agree with the completed job,
\* and the audio still has the hash of the provenance.
TranscriptProves(p) == files[p].valid

\* A file that proves what it is.
Proves(p, known) ==
  /\ p[2] = "note" => NoteProves(p, known)
  /\ p[2] = "transcript" => TranscriptProves(p)

\* An identity is that of the index, of the front matter, of the file name, or,
\* for a transcript a refresh has found, new.
IdentityFor(p, known) ==
  CASE p[2] = "note" -> files[p].id
    [] p[2] # "note" /\ p \in DOMAIN known -> known[p].id
    [] IsAsset(p) /\ p \notin DOMAIN known -> p
    [] OTHER -> Identity(p, issued + 1)

Discover(known, seen, done) ==
  [p \in {q \in Looked(seen, done) : Proves(q, known)} |->
     Entry(IdentityFor(p, known), files[p].hash)]

\* Completed transcriptions without a record get none in an inspection.
Named(known, p) == p[2] = "transcript" => p \in DOMAIN known

\* Paths with an issue that discovery itself raises.
Doubtful(known, seen, done) ==
  {p \in Looked(seen, done) : ~Proves(p, known)}
  \cup {p \in Looked(seen, done) : Proves(p, known) /\ ~Named(known, p)}
  \cup {TranscriptOf(s) : s \in {t \in done : TranscriptOf(t) \notin DOMAIN files}}
  \cup {p \in DOMAIN files : p[2] = "transcript" /\ p[1] \in seen \ done}

\* Defect: records whose file is gone are the only differences reported.
IssuesMissing ==
  LET done == completed \cap healthy
      found == Discover(index, healthy, done)
  IN DOMAIN index \ DOMAIN found

\* Inspect: the paths with an issue.
Issues ==
  LET done == completed \cap healthy
      found == Discover(index, healthy, done)
      here == {p \in DOMAIN found : Named(index, p)}
  IN Doubtful(index, healthy, done)
     \cup (DOMAIN index \ here)
     \cup (here \ DOMAIN index)
     \cup {p \in here \cap DOMAIN index : index[p].hash # found[p].hash}

-----------------------------------------------------------------------------
(* Init, and the mutations.                                                *)

NoCall == [op |-> "none"]

Init ==
  /\ files = <<>> /\ index = <<>> /\ revision = 0 /\ issued = 0 /\ changes = 0
  /\ healthy = Sessions /\ completed = {}
  /\ mutex = Nobody
  /\ pc = [c \in Callers |-> "idle"]
  /\ call = [c \in Callers |-> NoCall]
  /\ sound = {}

\* The evidence for an acknowledged record holds.
Evidence(a) ==
  /\ a.path[1] \in healthy \cup {Module}
  /\ a.path \in DOMAIN files /\ files[a.path].valid
  /\ a.path[2] = "note" => files[a.path].id = a.id
  /\ a.path[2] = "transcript" => a.path[1] \in completed

Records(f, paths) == {[path |-> p, id |-> f[p].id] : p \in paths}

Acknowledges(acks) == sound' = {a \in sound \cup acks : Evidence(a)'}

\* Notes are created and updated, assets registered, the index refreshed.
Asked ==
  [op : {"create", "asset"}, scope : Scopes] \cup [op : {"update"}, scope : Sessions]
  \cup [op : {"misnamed", "refresh"}, scope : {Module}]

Return(c) ==
  /\ pc' = [pc EXCEPT ![c] = "idle"]
  /\ call' = [call EXCEPT ![c] = NoCall]
  /\ mutex' = IF mutex = c THEN Nobody ELSE mutex

Loads(c, what) ==
  /\ pc[c] = "idle"
  /\ what.scope \in healthy \cup {Module}
  /\ revision < MaxRevision
  /\ pc' = [pc EXCEPT ![c] = "loaded"]
  /\ call' = [call EXCEPT ![c] =
       [op |-> what.op, scope |-> what.scope, base |-> revision, known |-> index,
        seen |-> healthy, done |-> completed \cap healthy, next |-> index]]
  /\ UNCHANGED <<files, healthy, completed, index, revision, issued, changes, sound>>

\* Defect: mutations are not serialised.
BeginAtOnce(c, what) == Loads(c, what) /\ UNCHANGED mutex

\* The sessions are scanned, and the index is loaded with the revision the
\* caller expects; with another revision nothing happens.
Begin(c, what) ==
  /\ mutex = Nobody /\ mutex' = c
  /\ Loads(c, what)

Continue(c, next) ==
  /\ pc' = [pc EXCEPT ![c] = "comparing"]
  /\ call' = [call EXCEPT ![c].next = next]
  /\ UNCHANGED mutex

\* A note and an asset are linked exclusively, a note is replaced.
Write(path, file, exclusive) ==
  /\ exclusive => path \notin DOMAIN files
  /\ files' = Put(files, path, file)

\* A failure to synchronise the directory ends the mutation with the file there,
\* and so does a record of its path.
Append(c, path, id) ==
  \/ /\ path \notin DOMAIN call[c].known
     /\ Continue(c, Put(call[c].known, path, Entry(id, 0)))
  \/ Return(c)

Generates ==
  /\ issued < MaxIssued /\ issued' = issued + 1
  /\ UNCHANGED <<healthy, completed, index, revision, changes>>
  /\ Acknowledges({})

CreateNotes(c) ==
  LET path == NoteOf(call[c].scope)
      id == Identity(path, issued + 1)
  IN
  /\ pc[c] = "loaded" /\ call[c].op = "create"
  /\ Write(path, File(id, TRUE, 0), TRUE)
  /\ Append(c, path, id)
  /\ Generates

RegisterAsset(c) ==
  LET path == AssetOf(call[c].scope, call[c].op, issued + 1) IN
  /\ pc[c] = "loaded" /\ call[c].op \in {"asset", "misnamed"}
  /\ Write(path, File(path, TRUE, 0), TRUE)
  /\ Append(c, path, path)
  /\ Generates

\* The note of the record is replaced before the index is.  The content is the
\* caller's: it may break or mend the front matter.
UpdateSessionNotes(c) ==
  LET path == NoteOf(call[c].scope) IN
  /\ pc[c] = "loaded" /\ call[c].op = "update"
  /\ path \in DOMAIN call[c].known /\ path \in DOMAIN files
  /\ \E valid \in BOOLEAN, hash \in Hash :
       /\ Write(path, File(files[path].id, valid, hash), FALSE)
       /\ \/ Continue(c, [call[c].known EXCEPT ![path].hash = hash])
          \/ Return(c)
  /\ UNCHANGED <<healthy, completed, index, revision, issued, changes>>
  /\ Acknowledges({})

Refresh(c) ==
  /\ pc[c] = "loaded" /\ call[c].op = "refresh"
  /\ LET found == Discover(call[c].known, call[c].seen, call[c].done) IN
       /\ Continue(c, found)
       /\ IF \A p \in DOMAIN found : Named(call[c].known, p)
          THEN UNCHANGED issued
          ELSE issued < MaxIssued /\ issued' = issued + 1
  /\ UNCHANGED <<files, healthy, completed, index, revision, changes, sound>>

\* Index.Validate: every record is valid, and no identity occurs twice.
Validates(next) ==
  /\ \A p \in DOMAIN next : p[2] # "misnamed"
  /\ \A p, q \in DOMAIN next : next[p].id = next[q].id => p = q

\* save: the revision is compared once more, the new index is validated, and then
\* the index is replaced.
Compare(c) ==
  /\ pc[c] = "comparing" /\ revision = call[c].base
  /\ Validates(call[c].next)
  /\ pc' = [pc EXCEPT ![c] = "replacing"]
  /\ UNCHANGED <<files, healthy, completed, index, revision, issued, mutex, call, changes, sound>>

Replace(c) ==
  LET next == call[c].next
      mine == CASE call[c].op = "refresh" -> DOMAIN next
                [] call[c].op = "update" -> {NoteOf(call[c].scope)}
                [] OTHER -> DOMAIN next \ DOMAIN call[c].known
  IN
  /\ pc[c] = "replacing"
  /\ index' = next /\ revision' = call[c].base + 1
  /\ Return(c)
  /\ UNCHANGED <<files, healthy, completed, issued, changes>>
  /\ \/ Acknowledges(Records(next, mine))
     \/ Acknowledges({})  \* the directory was not synchronised

\* A conflict, a record or a file that is missing, cancellation, an I/O failure.
Fail(c) ==
  /\ pc[c] # "idle"
  /\ Return(c)
  /\ UNCHANGED <<files, healthy, completed, index, revision, issued, changes, sound>>

-----------------------------------------------------------------------------
(* What others do.                                                         *)

Others(newFiles, newHealthy, newCompleted, count) ==
  /\ changes + count <= MaxChanges /\ changes' = changes + count
  /\ files' = newFiles /\ healthy' = newHealthy /\ completed' = newCompleted
  /\ UNCHANGED <<index, revision, issued, mutex, pc, call>>
  /\ Acknowledges({})

\* The user edits a note, or anyone damages a transcript or the audio it is of.
Edit(p) ==
  \E valid \in BOOLEAN, hash \in Hash :
    /\ ~IsAsset(p) \/ valid
    /\ Others([files EXCEPT ![p] = File(@.id, valid, hash)], healthy, completed, 1)

Remove(p) ==
  Others([q \in DOMAIN files \ {p} |-> files[q]], healthy, completed, 1)

\* A session loses its runtime record, or it is restored.
Damage(s) ==
  Others(files, IF s \in healthy THEN healthy \ {s} ELSE healthy \cup {s}, completed, 1)

\* The files of a transcript are there before its job is completed.
Transcribe(s) ==
  \/ /\ TranscriptOf(s) \notin DOMAIN files /\ s \notin completed
     /\ Others(Put(files, TranscriptOf(s), File(<<>>, TRUE, 0)), healthy, completed, 0)
  \/ /\ TranscriptOf(s) \in DOMAIN files /\ s \in healthy \ completed
     /\ Others(files, healthy, completed \cup {s}, 0)

\* The process ends; its calls are over.
Crash ==
  /\ mutex' = Nobody
  /\ pc' = [c \in Callers |-> "idle"]
  /\ call' = [c \in Callers |-> NoCall]
  /\ UNCHANGED <<files, healthy, completed, index, revision, issued, changes, sound>>

Next ==
  \/ \E c \in Callers :
       \/ \E what \in Asked : Begin(c, what)
       \/ CreateNotes(c) \/ RegisterAsset(c) \/ UpdateSessionNotes(c) \/ Refresh(c)
       \/ Compare(c) \/ Replace(c) \/ Fail(c)
  \/ \E p \in DOMAIN files : Edit(p) \/ Remove(p)
  \/ \E s \in Sessions : Damage(s) \/ Transcribe(s)
  \/ Crash

Spec == Init /\ [][Next]_vars

-----------------------------------------------------------------------------
(* Properties.                                                             *)

\* Variables stay in their domains, and the index passes Index.Validate: no record
\* is invalid and no two records share an identity.
TypeOK ==
  /\ healthy \subseteq Sessions /\ completed \subseteq Sessions
  /\ revision \in 0 .. MaxRevision /\ issued \in 0 .. MaxIssued
  /\ mutex \in Callers \cup {Nobody}
  /\ pc \in [Callers -> {"idle", "loaded", "comparing", "replacing"}]
  /\ \A p \in DOMAIN files : files[p].valid \in BOOLEAN /\ files[p].hash \in Hash
  /\ \A p \in DOMAIN index : p[2] # "misnamed"
  /\ \A p, q \in DOMAIN index : index[p].id = index[q].id => p = q

\* An artifact whose mutation or refresh was acknowledged is indexed under its
\* identity for as long as its file keeps proving what it is: no later mutation,
\* refresh, failure or crash of the process drops it or gives it another
\* identity.
AcknowledgedStays ==
  \A a \in sound : a.path \in DOMAIN index /\ index[a.path].id = a.id

\* Inspection reports a path exactly when the index and the files of the module
\* and of its sound sessions disagree about it, whatever failure, crash or edit
\* made them disagree.
DifferencesInspected ==
  LET managed == {p \in DOMAIN files : p[1] \in healthy \cup {Module}}
      expected == managed \cup DOMAIN index \cup {TranscriptOf(s) : s \in completed \cap healthy}
      agrees(p) ==
        /\ p \in managed /\ files[p].valid
        /\ p \in DOMAIN index /\ index[p].hash = files[p].hash
        /\ p[2] = "note" => index[p].id = files[p].id
        /\ p[2] = "transcript" => p[1] \in completed
  IN Issues = {p \in expected : ~agrees(p)}

\* While a path stays indexed its identity does not change, even when the file
\* was removed and created anew or its front matter was edited.
IdentitiesKept ==
  [][\A p \in DOMAIN index \cap DOMAIN index' : index'[p].id = index[p].id]_vars

=============================================================================
