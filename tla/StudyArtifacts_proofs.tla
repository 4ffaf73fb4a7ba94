------------------------- MODULE StudyArtifacts_proofs -------------------------
(***************************************************************************)
(* Machine-checked proofs about StudyArtifacts, for any callers of one     *)
(* process, any sessions, and any number of mutations, revisions and       *)
(* interferences.  The mutex makes the index a call has loaded the one it  *)
(* replaces; what everyone else does meanwhile can only take evidence      *)
(* away, so the index a call is about to install keeps what is still owed. *)
(***************************************************************************)
EXTENDS StudyArtifacts, TLAPS

Active(c) == pc[c] # "idle"

\* Files are notes, assets and transcripts; nobody rewrites an asset, and only a
\* session has a transcript.
FilesKnown ==
  /\ healthy \subseteq Sessions /\ completed \subseteq Sessions
  /\ \A p \in DOMAIN files :
       /\ p[2] \in {"note", "asset", "misnamed", "transcript"}
       /\ files[p].valid \in BOOLEAN /\ files[p].hash \in Hash
       /\ IsAsset(p) => files[p].valid
       /\ p[2] = "transcript" => p[1] \in Sessions

\* A mutation under way has its locals, and the mutex: there is one at a time.
CallsKnown ==
  /\ pc \in [Callers -> {"idle", "loaded", "comparing", "replacing"}]
  /\ mutex \in Callers \cup {Nobody}
  /\ call = [c \in Callers |-> call[c]]
  /\ \A c \in Callers : Active(c) =>
       /\ mutex = c
       /\ call[c] = [op |-> call[c].op, scope |-> call[c].scope, base |-> call[c].base,
                     known |-> call[c].known, seen |-> call[c].seen,
                     done |-> call[c].done, next |-> call[c].next]

Counted ==
  /\ revision \in 0 .. MaxRevision /\ issued \in 0 .. MaxIssued
  /\ \A c \in Callers : Active(c) => revision < MaxRevision

EntriesKnown(f) == \A p \in DOMAIN f : f[p] = Entry(f[p].id, f[p].hash)

SoundEvident == \A a \in sound : Evidence(a)

\* What a call has loaded is what is there, and what it has scanned covers all
\* that is still owed.
CallCurrent ==
  \A c \in Callers : Active(c) =>
    /\ call[c].base = revision /\ call[c].known = index
    /\ \A a \in sound : /\ a.path[1] \in call[c].seen \cup {Module}
                        /\ a.path[2] = "transcript" => a.path[1] \in call[c].done

\* The index a call is about to install keeps identities and what is owed.
NextKeeps ==
  \A c \in Callers : pc[c] \in {"comparing", "replacing"} =>
    /\ EntriesKnown(call[c].next)
    /\ \A p \in DOMAIN index \cap DOMAIN call[c].next : call[c].next[p].id = index[p].id
    /\ \A a \in sound : a.path \in DOMAIN call[c].next
    /\ call[c].op = "update" => NoteOf(call[c].scope) \in DOMAIN call[c].next
    /\ pc[c] = "replacing" => Validates(call[c].next)

IndexKnown == EntriesKnown(index) /\ Validates(index)

Base == FilesKnown /\ CallsKnown /\ Counted

StudyInvariant ==
  Base /\ SoundEvident /\ CallCurrent /\ NextKeeps /\ IndexKnown /\ AcknowledgedStays

-----------------------------------------------------------------------------
(* Files and calls.                                                        *)

LEMMA FilesStep ==
  ASSUME FilesKnown, [Next]_vars
  PROVE  FilesKnown'
  <1>1. ASSUME NEW path, NEW id, NEW valid \in BOOLEAN, NEW hash \in Hash,
               path[2] \in {"note", "asset", "misnamed", "transcript"},
               IsAsset(path) => valid, path[2] = "transcript" => path[1] \in Sessions,
               files' = Put(files, path, File(id, valid, hash)),
               healthy' \subseteq Sessions, completed' \subseteq Sessions
        PROVE  FilesKnown'
    BY <1>1 DEF FilesKnown, Put, File, IsAsset
  <1>2. ASSUME NEW c \in Callers, CreateNotes(c)
        PROVE  FilesKnown'
    <2>1. UNCHANGED <<healthy, completed>>
      BY <1>2 DEF CreateNotes, Generates
    <2> QED
      BY <1>1, <1>2, <2>1 DEF CreateNotes, Write, NoteOf, IsAsset, Hash, FilesKnown
  <1>3. ASSUME NEW c \in Callers, RegisterAsset(c)
        PROVE  FilesKnown'
    <2>1. UNCHANGED <<healthy, completed>>
      BY <1>3 DEF RegisterAsset, Generates
    <2> QED
      BY <1>1, <1>3, <2>1 DEF RegisterAsset, Write, AssetOf, Hash, FilesKnown
  <1>4. ASSUME NEW c \in Callers, UpdateSessionNotes(c)
        PROVE  FilesKnown'
    <2> DEFINE path == NoteOf(call[c].scope)
    <2>1. PICK valid \in BOOLEAN, hash \in Hash :
                 Write(path, File(files[path].id, valid, hash), FALSE)
      BY <1>4 DEF UpdateSessionNotes
    <2>2. path[2] = "note" /\ UNCHANGED <<healthy, completed>>
      BY <1>4 DEF UpdateSessionNotes, NoteOf
    <2> HIDE DEF path
    <2>3. ~IsAsset(path) /\ files' = Put(files, path, File(files[path].id, valid, hash))
      BY <2>1, <2>2 DEF IsAsset, Write
    <2> QED
      BY <1>1, <2>2, <2>3 DEF FilesKnown
  <1>5. ASSUME NEW p \in DOMAIN files, Edit(p) \/ Remove(p)
        PROVE  FilesKnown'
    BY <1>5 DEF Edit, Remove, Others, FilesKnown, File, IsAsset
  <1>6. ASSUME NEW s \in Sessions, Damage(s)
        PROVE  FilesKnown'
    BY <1>6 DEF Damage, Others, FilesKnown
  <1>7. ASSUME NEW s \in Sessions, Transcribe(s)
        PROVE  FilesKnown'
    <2>1. CASE Others(Put(files, TranscriptOf(s), File(<<>>, TRUE, 0)), healthy, completed, 0)
      BY <1>1, <2>1 DEF Others, TranscriptOf, IsAsset, Hash, FilesKnown
    <2>2. CASE Others(files, healthy, completed \cup {s}, 0)
      BY <2>2 DEF Others, FilesKnown
    <2> QED
      BY <1>7, <2>1, <2>2 DEF Transcribe
  <1>8. CASE UNCHANGED <<files, healthy, completed>>
    BY <1>8 DEF FilesKnown
  <1> QED
    BY <1>2, <1>3, <1>4, <1>5, <1>6, <1>7, <1>8
    DEF Next, Begin, Loads, Refresh, Compare, Replace, Fail, Crash, vars

\* While a call is under way no other is.
LEMMA OneCall ==
  ASSUME CallsKnown, NEW c \in Callers, Active(c)
  PROVE  \A d \in Callers : d # c => pc[d] = "idle"
  BY DEF CallsKnown, Active

LEMMA ReturnKeepsCalls ==
  ASSUME CallsKnown, NEW c \in Callers, Active(c), Return(c)
  PROVE  CallsKnown' /\ \A d \in Callers : ~Active(d)'
  <1>1. pc' = [pc EXCEPT ![c] = "idle"] /\ mutex' = Nobody
        /\ call' = [call EXCEPT ![c] = NoCall]
    BY DEF Return, CallsKnown
  <1>2. \A d \in Callers : pc'[d] = "idle"
    BY <1>1, OneCall DEF CallsKnown
  <1> QED
    BY <1>1, <1>2 DEF CallsKnown, Active

LEMMA ContinueKeepsCalls ==
  ASSUME CallsKnown, NEW c \in Callers, Active(c), NEW next, Continue(c, next)
  PROVE  /\ CallsKnown'
         /\ pc'[c] = "comparing" /\ call'[c].next = next
         /\ call'[c].op = call[c].op /\ call'[c].scope = call[c].scope
         /\ call'[c].base = call[c].base /\ call'[c].known = call[c].known
         /\ call'[c].seen = call[c].seen /\ call'[c].done = call[c].done
         /\ \A d \in Callers : Active(d)' => d = c
  <1>1. /\ pc' = [pc EXCEPT ![c] = "comparing"] /\ mutex' = mutex
        /\ call' = [call EXCEPT ![c].next = next]
    BY DEF Continue
  <1>2. call[c] = [op |-> call[c].op, scope |-> call[c].scope, base |-> call[c].base,
                   known |-> call[c].known, seen |-> call[c].seen,
                   done |-> call[c].done, next |-> call[c].next]
    BY DEF CallsKnown
  <1>3. call'[c] = [op |-> call[c].op, scope |-> call[c].scope, base |-> call[c].base,
                    known |-> call[c].known, seen |-> call[c].seen,
                    done |-> call[c].done, next |-> next]
    BY <1>1, <1>2 DEF CallsKnown
  <1>4. /\ pc'[c] = "comparing" /\ \A d \in Callers : d # c => pc'[d] = "idle"
        /\ pc' \in [Callers -> {"idle", "loaded", "comparing", "replacing"}]
        /\ call' = [d \in Callers |-> call'[d]] /\ mutex' = c
    BY <1>1, OneCall DEF CallsKnown
  <1>5. CallsKnown'
    BY <1>3, <1>4 DEF CallsKnown, Active
  <1> QED
    BY <1>3, <1>4, <1>5 DEF Active

-----------------------------------------------------------------------------
(* The index a call makes.                                                 *)

\* What NextKeeps asks of it.
Keeps(next, op, scope) ==
  /\ EntriesKnown(next)
  /\ \A p \in DOMAIN index \cap DOMAIN next : next[p].id = index[p].id
  /\ \A a \in sound : a.path \in DOMAIN next
  /\ op = "update" => NoteOf(scope) \in DOMAIN next

\* A call installs its file, or discovers the files, and goes on to compare, or
\* is over; what is owed only becomes less.
Mutates(c) ==
  /\ pc[c] = "loaded"
  /\ \/ Return(c)
     \/ \E next : Continue(c, next) /\ Keeps(next, call[c].op, call[c].scope)
  /\ issued' \in {issued, issued + 1} /\ issued' <= MaxIssued
  /\ UNCHANGED <<index, revision>>
  /\ sound' \subseteq sound /\ SoundEvident'

\* Whatever moves the files strikes what has lost its evidence.
LEMMA StruckEvident ==
  ASSUME Acknowledges({})
  PROVE  sound' \subseteq sound /\ SoundEvident'
  BY DEF Acknowledges, SoundEvident

\* A mutation adds one record, under a path that had none.
LEMMA AppendMutates ==
  ASSUME StudyInvariant, NEW c \in Callers, pc[c] = "loaded", call[c].op # "update",
         NEW path, NEW id, Append(c, path, id), Generates
  PROVE  Mutates(c)
  <1>1. /\ call[c].known = index
        /\ sound' \subseteq sound /\ SoundEvident'
        /\ UNCHANGED <<index, revision>> /\ issued' = issued + 1 /\ issued < MaxIssued
    BY StruckEvident DEF StudyInvariant, CallCurrent, Active, Generates
  <1> DEFINE next == Put(index, path, Entry(id, 0))
  <1>2. CASE path \notin DOMAIN index /\ Continue(c, next)
    <2>1. EntriesKnown(next)
      BY DEF StudyInvariant, IndexKnown, EntriesKnown, Put, Entry
    <2>2. Keeps(next, call[c].op, call[c].scope)
      BY <1>2, <2>1 DEF StudyInvariant, AcknowledgedStays, Keeps, Put
    <2> QED
      BY <1>1, <1>2, <2>2, StudyArtifactsAssumption
      DEF StudyInvariant, Base, Counted, Mutates, StudyArtifactsAssumption
  <1>3. CASE Return(c)
    BY <1>1, <1>3, StudyArtifactsAssumption
    DEF StudyInvariant, Base, Counted, Mutates, StudyArtifactsAssumption
  <1> QED
    BY <1>1, <1>2, <1>3 DEF Append

\* An update of a note keeps its identity, whatever its new content.
LEMMA UpdateMutates ==
  ASSUME StudyInvariant, NEW c \in Callers, UpdateSessionNotes(c)
  PROVE  Mutates(c)
  <1> DEFINE path == NoteOf(call[c].scope)
  <1>1. /\ pc[c] = "loaded" /\ call[c].op = "update" /\ path \in DOMAIN call[c].known
        /\ UNCHANGED <<index, revision, issued>> /\ Acknowledges({})
    BY DEF UpdateSessionNotes
  <1>2. call[c].known = index
    BY <1>1 DEF StudyInvariant, CallCurrent, Active
  <1>3. PICK hash \in Hash : \/ Continue(c, [index EXCEPT ![path].hash = hash])
                             \/ Return(c)
    BY <1>2 DEF UpdateSessionNotes
  <1> DEFINE next == [index EXCEPT ![path].hash = hash]
  <1>4. Keeps(next, call[c].op, call[c].scope)
    <2>1. next = [p \in DOMAIN index |-> IF p = path THEN Entry(index[path].id, hash)
                                                     ELSE index[p]]
      BY DEF StudyInvariant, IndexKnown, EntriesKnown, Entry
    <2> HIDE DEF next
    <2>2. EntriesKnown(next)
      BY <2>1 DEF StudyInvariant, IndexKnown, EntriesKnown, Entry
    <2>3. /\ DOMAIN next = DOMAIN index
          /\ \A p \in DOMAIN index : next[p].id = index[p].id
      BY <2>1 DEF Entry
    <2> QED
      BY <1>1, <1>2, <2>2, <2>3 DEF StudyInvariant, AcknowledgedStays, Keeps
  <1> HIDE DEF next
  <1>5. sound' \subseteq sound /\ SoundEvident'
    BY <1>1, StruckEvident
  <1>6. issued <= MaxIssued
    BY StudyArtifactsAssumption
    DEF StudyInvariant, Base, Counted, StudyArtifactsAssumption
  <1> QED
    BY <1>1, <1>3, <1>4, <1>5, <1>6 DEF Mutates, next

\* A refresh finds what is owed, under the identity it has.
LEMMA DiscoveryKeeps ==
  ASSUME StudyInvariant, NEW c \in Callers, pc[c] = "loaded"
  PROVE  LET found == Discover(index, call[c].seen, call[c].done) IN
         /\ EntriesKnown(found)
         /\ \A p \in DOMAIN index \cap DOMAIN found : found[p].id = index[p].id
         /\ \A a \in sound : a.path \in DOMAIN found
  <1> DEFINE found == Discover(index, call[c].seen, call[c].done)
  <1>1. /\ DOMAIN found = {q \in Looked(call[c].seen, call[c].done) : Proves(q, index)}
        /\ \A p \in DOMAIN found : found[p] = Entry(IdentityFor(p, index), files[p].hash)
    BY DEF Discover
  <1> HIDE DEF found
  <1>2. EntriesKnown(found)
    BY <1>1 DEF EntriesKnown, Entry
  <1>3. ASSUME NEW p \in DOMAIN index \cap DOMAIN found
        PROVE  found[p].id = index[p].id
    <2>1. p[2] = "note" => files[p].id = index[p].id
      BY <1>1, <1>3 DEF Proves, NoteProves
    <2>2. IdentityFor(p, index) = index[p].id
      BY <1>3, <2>1 DEF IdentityFor
    <2> QED
      BY <1>1, <1>3, <2>2 DEF Entry
  <1>4. ASSUME NEW a \in sound
        PROVE  a.path \in DOMAIN found
    <2>1. /\ a.path \in DOMAIN files /\ files[a.path].valid
          /\ a.path[2] = "note" => files[a.path].id = a.id
          /\ a.path \in DOMAIN index /\ index[a.path].id = a.id
      BY <1>4 DEF StudyInvariant, SoundEvident, Evidence, AcknowledgedStays
    <2>2. /\ a.path[1] \in call[c].seen \cup {Module}
          /\ a.path[2] = "transcript" => a.path[1] \in call[c].done
      BY <1>4 DEF StudyInvariant, CallCurrent, Active
    <2> QED
      BY <1>1, <2>1, <2>2 DEF Looked, Proves, NoteProves, TranscriptProves
  <1> QED
    BY <1>2, <1>3, <1>4 DEF found

LEMMA RefreshMutates ==
  ASSUME StudyInvariant, NEW c \in Callers, Refresh(c)
  PROVE  Mutates(c)
  <1> DEFINE found == Discover(index, call[c].seen, call[c].done)
  <1>1. /\ pc[c] = "loaded" /\ call[c].op = "refresh" /\ call[c].known = index
        /\ UNCHANGED <<files, healthy, completed, index, revision, sound>>
        /\ issued' = issued \/ (issued < MaxIssued /\ issued' = issued + 1)
    BY DEF Refresh, StudyInvariant, CallCurrent, Active
  <1>2. Continue(c, found)
    BY <1>1 DEF Refresh
  <1>3. Keeps(found, call[c].op, call[c].scope)
    BY <1>1, DiscoveryKeeps DEF Keeps
  <1>4. SoundEvident'
    BY <1>1 DEF StudyInvariant, SoundEvident, Evidence
  <1>5. issued \in Nat /\ issued <= MaxIssued /\ MaxIssued \in Nat
    BY StudyArtifactsAssumption
    DEF StudyInvariant, Base, Counted, StudyArtifactsAssumption
  <1> HIDE DEF found
  <1> QED
    BY <1>1, <1>2, <1>3, <1>4, <1>5 DEF Mutates


LEMMA CreateMutates ==
  ASSUME StudyInvariant, NEW c \in Callers, CreateNotes(c)
  PROVE  Mutates(c)
  <1> DEFINE path == NoteOf(call[c].scope)
             id == Identity(path, issued + 1)
  <1>1. pc[c] = "loaded" /\ call[c].op = "create" /\ Append(c, path, id) /\ Generates
    BY DEF CreateNotes
  <1> HIDE DEF path, id
  <1> QED
    BY <1>1, AppendMutates

LEMMA RegisterMutates ==
  ASSUME StudyInvariant, NEW c \in Callers, RegisterAsset(c)
  PROVE  Mutates(c)
  <1> DEFINE path == AssetOf(call[c].scope, call[c].op, issued + 1)
  <1>1. /\ pc[c] = "loaded" /\ call[c].op \in {"asset", "misnamed"}
        /\ Append(c, path, path) /\ Generates
    BY DEF RegisterAsset
  <1> HIDE DEF path
  <1> QED
    BY <1>1, AppendMutates

\* A step of a call that leaves the index alone keeps the invariant.
LEMMA MutatingKeeps ==
  ASSUME StudyInvariant, FilesKnown', NEW c \in Callers, Mutates(c)
  PROVE  StudyInvariant'
  <1>1. /\ pc[c] = "loaded" /\ Active(c) /\ CallsKnown
        /\ UNCHANGED <<index, revision>> /\ sound' \subseteq sound /\ SoundEvident'
    BY DEF Mutates, StudyInvariant, Base, Active
  <1>2. IndexKnown' /\ AcknowledgedStays'
    BY <1>1 DEF StudyInvariant, IndexKnown, EntriesKnown, Validates, AcknowledgedStays
  <1>3. revision' \in 0 .. MaxRevision /\ issued' \in 0 .. MaxIssued /\ revision' < MaxRevision
    BY <1>1, StudyArtifactsAssumption
    DEF Mutates, StudyInvariant, Base, Counted, StudyArtifactsAssumption
  <1>4. CASE Return(c)
    <2>1. CallsKnown' /\ \A d \in Callers : ~Active(d)'
      BY <1>1, <1>4, ReturnKeepsCalls
    <2>2. \A d \in Callers : pc'[d] = "idle"
      BY <2>1 DEF Active
    <2>3. CallCurrent' /\ NextKeeps' /\ Counted'
      BY <2>1, <2>2, <1>3 DEF CallCurrent, NextKeeps, Counted
    <2> QED
      BY <1>1, <1>2, <2>1, <2>3 DEF StudyInvariant, Base
  <1>5. ASSUME NEW next, Continue(c, next), Keeps(next, call[c].op, call[c].scope)
        PROVE  StudyInvariant'
    <2>1. /\ CallsKnown'
          /\ pc'[c] = "comparing" /\ call'[c].next = next
          /\ call'[c].op = call[c].op /\ call'[c].scope = call[c].scope
          /\ call'[c].base = call[c].base /\ call'[c].known = call[c].known
          /\ call'[c].seen = call[c].seen /\ call'[c].done = call[c].done
          /\ \A d \in Callers : Active(d)' => d = c
      BY <1>1, <1>5, ContinueKeepsCalls
    <2>2. Counted'
      BY <1>3 DEF Counted
    <2>3. CallCurrent'
      BY <1>1, <2>1 DEF StudyInvariant, CallCurrent
    <2>4. \A d \in Callers : pc'[d] \in {"comparing", "replacing"} => d = c
      BY <2>1 DEF Active
    <2>5. NextKeeps'
      BY <1>1, <1>5, <2>1, <2>4 DEF NextKeeps, Keeps
    <2> QED
      BY <1>1, <1>2, <2>1, <2>2, <2>3, <2>5 DEF StudyInvariant, Base
  <1> QED
    BY <1>4, <1>5 DEF Mutates

-----------------------------------------------------------------------------
(* The other steps.                                                        *)

LEMMA BeginKeeps ==
  ASSUME StudyInvariant, FilesKnown', NEW c \in Callers, NEW what \in Asked, Begin(c, what)
  PROVE  StudyInvariant'
  <1>1. /\ mutex = Nobody /\ mutex' = c /\ pc[c] = "idle" /\ revision < MaxRevision
        /\ pc' = [pc EXCEPT ![c] = "loaded"]
        /\ call' = [call EXCEPT ![c] =
             [op |-> what.op, scope |-> what.scope, base |-> revision, known |-> index,
              seen |-> healthy, done |-> completed \cap healthy, next |-> index]]
        /\ UNCHANGED <<files, healthy, completed, index, revision, issued, sound>>
    BY DEF Begin, Loads
  <1>2. /\ CallsKnown /\ Counted /\ FilesKnown /\ SoundEvident /\ IndexKnown
        /\ AcknowledgedStays
    BY DEF StudyInvariant, Base
  <1>3. \A d \in Callers : pc[d] = "idle"
    BY <1>1, <1>2, StudyArtifactsAssumption
    DEF CallsKnown, Active, StudyArtifactsAssumption
  <1>4. /\ \A d \in Callers : pc'[d] = IF d = c THEN "loaded" ELSE "idle"
        /\ pc' \in [Callers -> {"idle", "loaded", "comparing", "replacing"}]
        /\ call' = [d \in Callers |-> call'[d]]
        /\ call'[c] = [op |-> what.op, scope |-> what.scope, base |-> revision,
                       known |-> index, seen |-> healthy, done |-> completed \cap healthy,
                       next |-> index]
    BY <1>1, <1>2, <1>3 DEF CallsKnown
  <1>5. CallsKnown'
    BY <1>1, <1>4 DEF CallsKnown, Active
  <1>6. Counted'
    BY <1>1, <1>2 DEF Counted
  <1>7. SoundEvident' /\ IndexKnown' /\ AcknowledgedStays'
    BY <1>1, <1>2
    DEF SoundEvident, Evidence, IndexKnown, EntriesKnown, Validates, AcknowledgedStays
  <1>8. ASSUME NEW a \in sound
        PROVE  /\ a.path[1] \in healthy \cup {Module}
               /\ a.path[2] = "transcript" => a.path[1] \in completed \cap healthy
    BY <1>2, <1>8, StudyArtifactsAssumption
    DEF SoundEvident, Evidence, FilesKnown, StudyArtifactsAssumption
  <1>9. CallCurrent'
    BY <1>1, <1>4, <1>8 DEF CallCurrent, Active
  <1>10. NextKeeps'
    BY <1>4 DEF NextKeeps
  <1> QED
    BY <1>5, <1>6, <1>7, <1>9, <1>10 DEF StudyInvariant, Base

LEMMA CompareKeeps ==
  ASSUME StudyInvariant, FilesKnown', NEW c \in Callers, Compare(c)
  PROVE  StudyInvariant'
  <1>1. /\ pc[c] = "comparing" /\ Validates(call[c].next)
        /\ pc' = [pc EXCEPT ![c] = "replacing"]
        /\ UNCHANGED <<files, healthy, completed, index, revision, issued, mutex, call, sound>>
    BY DEF Compare
  <1>2. CallsKnown'
    BY <1>1 DEF StudyInvariant, Base, CallsKnown, Active
  <1>3. \A d \in Callers : pc'[d] = IF d = c THEN "replacing" ELSE pc[d]
    BY <1>1 DEF StudyInvariant, Base, CallsKnown
  <1>4. Counted' /\ CallCurrent'
    BY <1>1, <1>3 DEF StudyInvariant, Base, Counted, CallCurrent, Active
  <1>5. NextKeeps'
    BY <1>1, <1>3 DEF StudyInvariant, NextKeeps, EntriesKnown, Validates
  <1>6. SoundEvident' /\ IndexKnown' /\ AcknowledgedStays'
    BY <1>1 DEF StudyInvariant, SoundEvident, Evidence, IndexKnown, EntriesKnown,
                Validates, AcknowledgedStays
  <1> QED
    BY <1>2, <1>4, <1>5, <1>6 DEF StudyInvariant, Base

\* A call that ends leaves no other under way.
LEMMA EndKeeps ==
  ASSUME StudyInvariant, FilesKnown', NEW c \in Callers, Active(c), Return(c),
         revision' \in 0 .. MaxRevision, UNCHANGED issued,
         SoundEvident', IndexKnown', AcknowledgedStays'
  PROVE  StudyInvariant'
  <1>1. CallsKnown' /\ \A d \in Callers : ~Active(d)'
    BY ReturnKeepsCalls DEF StudyInvariant, Base
  <1>2. \A d \in Callers : pc'[d] = "idle"
    BY <1>1 DEF Active
  <1>3. Counted' /\ CallCurrent' /\ NextKeeps'
    BY <1>1, <1>2 DEF StudyInvariant, Base, Counted, CallCurrent, NextKeeps
  <1> QED
    BY <1>1, <1>3 DEF StudyInvariant, Base

\* The index that replaces the old one has what is owed, and what is acknowledged now.
LEMMA ReplaceKeeps ==
  ASSUME StudyInvariant, FilesKnown', NEW c \in Callers, Replace(c)
  PROVE  /\ StudyInvariant'
         /\ \A p \in DOMAIN index \cap DOMAIN index' : index'[p].id = index[p].id
  <1> DEFINE next == call[c].next
             mine == CASE call[c].op = "refresh" -> DOMAIN next
                       [] call[c].op = "update" -> {NoteOf(call[c].scope)}
                       [] OTHER -> DOMAIN next \ DOMAIN call[c].known
  <1>1. /\ pc[c] = "replacing" /\ index' = next /\ revision' = call[c].base + 1
        /\ Return(c) /\ UNCHANGED <<files, healthy, completed, issued>>
        /\ Acknowledges(Records(next, mine)) \/ Acknowledges({})
    BY DEF Replace
  <1>2. Active(c)
    BY <1>1 DEF Active
  <1>3. /\ EntriesKnown(next) /\ Validates(next)
        /\ \A p \in DOMAIN index \cap DOMAIN next : next[p].id = index[p].id
        /\ \A a \in sound : a.path \in DOMAIN next
    BY <1>1 DEF StudyInvariant, NextKeeps
  <1>4. mine \subseteq DOMAIN next
    BY <1>1 DEF StudyInvariant, NextKeeps
  <1>5. revision' \in 0 .. MaxRevision
    BY <1>1, <1>2, StudyArtifactsAssumption
    DEF StudyInvariant, Base, Counted, CallCurrent, StudyArtifactsAssumption
  <1> HIDE DEF mine, next
  <1>6. sound' \subseteq sound \cup Records(next, mine) /\ SoundEvident'
    BY <1>1 DEF Acknowledges, SoundEvident
  <1>7. IndexKnown'
    BY <1>1, <1>3 DEF IndexKnown, EntriesKnown, Validates
  <1>8. ASSUME NEW a \in sound
        PROVE  a.path \in DOMAIN next /\ next[a.path].id = a.id
    BY <1>3, <1>8 DEF StudyInvariant, AcknowledgedStays
  <1>9. ASSUME NEW a \in Records(next, mine)
        PROVE  a.path \in DOMAIN next /\ next[a.path].id = a.id
    BY <1>4, <1>9 DEF Records
  <1>10. AcknowledgedStays'
    BY <1>1, <1>6, <1>8, <1>9 DEF AcknowledgedStays
  <1>11. StudyInvariant'
    BY <1>1, <1>2, <1>5, <1>6, <1>7, <1>10, EndKeeps
  <1> QED
    BY <1>1, <1>3, <1>11

\* What everyone else does only takes evidence away.
LEMMA OthersKeep ==
  ASSUME StudyInvariant, FilesKnown', Acknowledges({}),
         UNCHANGED <<index, revision, issued, mutex, pc, call>>
  PROVE  StudyInvariant'
  <1>1. sound' \subseteq sound /\ SoundEvident'
    BY StruckEvident
  <1>2. CallsKnown' /\ Counted'
    BY DEF StudyInvariant, Base, CallsKnown, Counted, Active
  <1>3. CallCurrent' /\ NextKeeps'
    BY <1>1 DEF StudyInvariant, CallCurrent, NextKeeps, Active, EntriesKnown, Validates
  <1>4. IndexKnown' /\ AcknowledgedStays'
    BY <1>1 DEF StudyInvariant, IndexKnown, EntriesKnown, Validates, AcknowledgedStays
  <1> QED
    BY <1>1, <1>2, <1>3, <1>4 DEF StudyInvariant, Base

LEMMA CrashKeeps ==
  ASSUME StudyInvariant, FilesKnown', Crash
  PROVE  StudyInvariant'
  <1>1. /\ mutex' = Nobody /\ pc' = [c \in Callers |-> "idle"]
        /\ call' = [c \in Callers |-> NoCall]
        /\ UNCHANGED <<files, healthy, completed, index, revision, issued, sound>>
    BY DEF Crash
  <1>2. CallsKnown' /\ Counted' /\ CallCurrent' /\ NextKeeps'
    BY <1>1
    DEF StudyInvariant, Base, CallsKnown, Counted, CallCurrent, NextKeeps, Active
  <1>3. SoundEvident' /\ IndexKnown' /\ AcknowledgedStays'
    BY <1>1 DEF StudyInvariant, SoundEvident, Evidence, IndexKnown, EntriesKnown,
                Validates, AcknowledgedStays
  <1> QED
    BY <1>2, <1>3 DEF StudyInvariant, Base


-----------------------------------------------------------------------------
(* The theorems.                                                           *)

LEMMA InvariantInit == Init => StudyInvariant
  <1> SUFFICES ASSUME Init PROVE StudyInvariant
    OBVIOUS
  <1>1. /\ DOMAIN files = {} /\ DOMAIN index = {} /\ sound = {} /\ mutex = Nobody
        /\ revision = 0 /\ issued = 0 /\ healthy = Sessions /\ completed = {}
        /\ pc = [c \in Callers |-> "idle"] /\ call = [c \in Callers |-> NoCall]
    BY DEF Init
  <1>2. FilesKnown /\ IndexKnown
    BY <1>1 DEF FilesKnown, IndexKnown, EntriesKnown, Validates
  <1>3. CallsKnown /\ CallCurrent /\ NextKeeps
    BY <1>1 DEF CallsKnown, CallCurrent, NextKeeps, Active
  <1>4. Counted
    BY <1>1, StudyArtifactsAssumption DEF Counted, Active, StudyArtifactsAssumption
  <1>5. SoundEvident /\ AcknowledgedStays
    BY <1>1 DEF SoundEvident, AcknowledgedStays
  <1> QED
    BY <1>2, <1>3, <1>4, <1>5 DEF StudyInvariant, Base

LEMMA InvariantStep ==
  ASSUME StudyInvariant, [Next]_vars
  PROVE  /\ StudyInvariant'
         /\ \A p \in DOMAIN index \cap DOMAIN index' : index'[p].id = index[p].id
  <1> DEFINE Kept ==
        \A p \in DOMAIN index \cap DOMAIN index' : index'[p].id = index[p].id
  <1>1. FilesKnown'
    BY FilesStep DEF StudyInvariant, Base
  <1>2. (UNCHANGED index) => Kept
    OBVIOUS
  <1>3. ASSUME NEW c \in Callers, NEW what \in Asked, Begin(c, what)
        PROVE  StudyInvariant' /\ Kept
    BY <1>1, <1>2, <1>3, BeginKeeps DEF Begin, Loads
  <1>4. ASSUME NEW c \in Callers,
               CreateNotes(c) \/ RegisterAsset(c) \/ UpdateSessionNotes(c) \/ Refresh(c)
        PROVE  StudyInvariant' /\ Kept
    <2>1. Mutates(c)
      BY <1>4, CreateMutates, RegisterMutates, UpdateMutates, RefreshMutates
    <2>2. UNCHANGED index
      BY <2>1 DEF Mutates
    <2> QED
      BY <1>1, <1>2, <2>1, <2>2, MutatingKeeps
  <1>5. ASSUME NEW c \in Callers, Compare(c)
        PROVE  StudyInvariant' /\ Kept
    BY <1>1, <1>2, <1>5, CompareKeeps DEF Compare
  <1>6. ASSUME NEW c \in Callers, Replace(c)
        PROVE  StudyInvariant' /\ Kept
    BY <1>1, <1>6, ReplaceKeeps
  <1>7. ASSUME NEW c \in Callers, Fail(c)
        PROVE  StudyInvariant' /\ Kept
    <2>1. /\ Active(c) /\ Return(c)
          /\ UNCHANGED <<files, healthy, completed, index, revision, issued, sound>>
      BY <1>7 DEF Fail, Active
    <2>2. SoundEvident' /\ IndexKnown' /\ AcknowledgedStays'
      BY <2>1 DEF StudyInvariant, SoundEvident, Evidence, IndexKnown, EntriesKnown,
                  Validates, AcknowledgedStays
    <2>3. revision' \in 0 .. MaxRevision
      BY <2>1 DEF StudyInvariant, Base, Counted
    <2> QED
      BY <1>1, <1>2, <2>1, <2>2, <2>3, EndKeeps
  <1>8. ASSUME NEW p \in DOMAIN files, Edit(p) \/ Remove(p)
        PROVE  StudyInvariant' /\ Kept
    <2>1. Acknowledges({}) /\ UNCHANGED <<index, revision, issued, mutex, pc, call>>
      BY <1>8 DEF Edit, Remove, Others
    <2> QED
      BY <1>1, <1>2, <2>1, OthersKeep
  <1>9. ASSUME NEW s \in Sessions, Damage(s) \/ Transcribe(s)
        PROVE  StudyInvariant' /\ Kept
    <2>1. Acknowledges({}) /\ UNCHANGED <<index, revision, issued, mutex, pc, call>>
      BY <1>9 DEF Damage, Transcribe, Others
    <2> QED
      BY <1>1, <1>2, <2>1, OthersKeep
  <1>10. ASSUME Crash
         PROVE  StudyInvariant' /\ Kept
    <2>1. UNCHANGED index
      BY <1>10 DEF Crash
    <2> QED
      BY <1>1, <1>2, <1>10, <2>1, CrashKeeps
  <1>11. ASSUME UNCHANGED vars
         PROVE  StudyInvariant' /\ Kept
    <2>1. /\ UNCHANGED <<files, healthy, completed, index, revision, issued, mutex, pc, call>>
          /\ UNCHANGED sound
      BY <1>11 DEF vars
    <2>2. CallsKnown' /\ Counted' /\ CallCurrent' /\ NextKeeps'
      BY <2>1 DEF StudyInvariant, Base, CallsKnown, Counted, CallCurrent, NextKeeps, Active,
                  EntriesKnown, Validates
    <2>3. SoundEvident' /\ IndexKnown' /\ AcknowledgedStays'
      BY <2>1 DEF StudyInvariant, SoundEvident, Evidence, IndexKnown, EntriesKnown,
                  Validates, AcknowledgedStays
    <2> QED
      BY <1>1, <1>2, <2>1, <2>2, <2>3 DEF StudyInvariant, Base
  <1> HIDE DEF Kept
  <1>12. StudyInvariant' /\ Kept
    BY <1>3, <1>4, <1>5, <1>6, <1>7, <1>8, <1>9, <1>10, <1>11 DEF Next
  <1> QED
    BY <1>12 DEF Kept

LEMMA StudyInvariantHolds == Spec => []StudyInvariant
  BY InvariantInit, InvariantStep, PTL DEF Spec

\* The store's variables stay in their domains, and every index it installs passes
\* Index.Validate: no invalid record, no identity twice.  The index of a call is
\* validated before it replaces the old one, whoever made the files.
THEOREM StudyTypeCorrect == Spec => []TypeOK
  <1>1. StudyInvariant => TypeOK
    BY DEF StudyInvariant, Base, FilesKnown, CallsKnown, Counted, IndexKnown, Validates,
           TypeOK
  <1> QED
    BY <1>1, StudyInvariantHolds, PTL

\* What a mutation or a refresh acknowledged stays in the index under its identity
\* while its file proves what it is.
THEOREM AcknowledgedArtifactsStay == Spec => []AcknowledgedStays
  <1>1. StudyInvariant => AcknowledgedStays
    BY DEF StudyInvariant
  <1> QED
    BY <1>1, StudyInvariantHolds, PTL

\* Replace is the only step that changes the index, and what it installs was made
\* from the index it replaces, so no identity changes while its path is indexed.
THEOREM ArtifactIdentitiesKept == Spec => IdentitiesKept
  <1>1. StudyInvariant /\ [Next]_vars =>
          [\A p \in DOMAIN index \cap DOMAIN index' : index'[p].id = index[p].id]_vars
    BY InvariantStep
  <1> QED
    BY <1>1, StudyInvariantHolds, PTL DEF Spec, IdentitiesKept

\* What an inspection reports is exactly where the files of the module and of its
\* sound sessions and the index disagree, in every state that can be reached.
THEOREM InspectionExact == Spec => []DifferencesInspected
  <1>1. FilesKnown => DifferencesInspected
    <2> SUFFICES ASSUME FilesKnown PROVE DifferencesInspected
      OBVIOUS
    <2> DEFINE done == completed \cap healthy
               looked == Looked(healthy, done)
               here == {p \in looked : Proves(p, index) /\ Named(index, p)}
               managed == {p \in DOMAIN files : p[1] \in healthy \cup {Module}}
               expected == managed \cup DOMAIN index \cup {TranscriptOf(s) : s \in done}
               agrees(p) ==
                 /\ p \in managed /\ files[p].valid
                 /\ p \in DOMAIN index /\ index[p].hash = files[p].hash
                 /\ p[2] = "note" => index[p].id = files[p].id
                 /\ p[2] = "transcript" => p[1] \in completed
    <2>1. Issues = Doubtful(index, healthy, done)
                   \cup (DOMAIN index \ here) \cup (here \ DOMAIN index)
                   \cup {p \in here \cap DOMAIN index : index[p].hash # files[p].hash}
      BY DEF Issues, Discover, Entry
    <2>2. ASSUME NEW p \in managed
          PROVE  p \in Issues <=> ~agrees(p)
      <3>1. CASE p \in looked
        BY <2>1, <2>2, <3>1 DEF Doubtful, Looked, Proves, NoteProves, TranscriptProves, Named,
                                FilesKnown, IsAsset, TranscriptOf
      <3>2. CASE p \notin looked
        BY <2>1, <2>2, <3>2, StudyArtifactsAssumption
        DEF Doubtful, Looked, FilesKnown, StudyArtifactsAssumption
      <3> QED
        BY <3>1, <3>2
    <2>3. ASSUME NEW p, p \notin managed
          PROVE  p \in Issues <=> p \in expected
      <3>1. p \notin looked /\ p \notin here
        BY <2>3 DEF Looked
      <3> DEFINE gone == {t \in done : TranscriptOf(t) \notin DOMAIN files}
      <3>2. p \in Issues <=> p \in {TranscriptOf(s) : s \in gone} \/ p \in DOMAIN index
        <4>1. ~(p \in DOMAIN files /\ p[1] \in healthy \ done)
          BY <2>3
        <4> QED
          BY <2>1, <3>1, <4>1 DEF Doubtful
      <3>3. ASSUME NEW s \in done, p = TranscriptOf(s)
            PROVE  TranscriptOf(s) \notin DOMAIN files
        BY <2>3, <3>3 DEF TranscriptOf
      <3>4. {TranscriptOf(s) : s \in gone} \subseteq {TranscriptOf(s) : s \in done}
        OBVIOUS
      <3> QED
        BY <2>3, <3>2, <3>3, <3>4
    <2> QED
      BY <2>2, <2>3 DEF DifferencesInspected
  <1>2. StudyInvariant => FilesKnown
    BY DEF StudyInvariant, Base
  <1> QED
    BY <1>1, <1>2, StudyInvariantHolds, PTL


=============================================================================
