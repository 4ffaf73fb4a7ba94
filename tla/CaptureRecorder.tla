--------------------------- MODULE CaptureRecorder ---------------------------
(***************************************************************************)
(* The recorder of one session's Segments directory.  A segment is written *)
(* as partial audio; finalizing it installs the final audio, then the      *)
(* manifest, and releases the ownership lock last.  Each file operation    *)
(* is a step, so a process can be killed, or power lost, between any two;  *)
(* until the directory is synchronised a loss of power may undo what was   *)
(* done to any of its entries, each on its own.                            *)
(*                                                                         *)
(* Source: internal/capture/backend/{recorder,ownership,manifest}.go.      *)
(***************************************************************************)
EXTENDS Integers

CONSTANTS
  Callers,    \* goroutines that call the recorder
  Processes,
  ProcessOf,  \* the process each caller runs in
  Segments,   \* identities the segment ID generator can return
  Numbers,    \* segment numbers
  NoOne,      \* no segment
  Engine      \* "synthetic", or "process": an external recorder

ASSUME RecorderAssumption ==
  /\ ProcessOf \in [Callers -> Processes]
  /\ NoOne \notin Segments
  /\ Numbers \subseteq Nat \ {0}
  /\ Engine \in {"synthetic", "process"}

VARIABLES
  media,     \* number -> its partial and its final audio
  manifest,  \* number -> its manifest
  owner,     \* the ownership lock
  exposed,   \* what a loss of power may leave: possible media, manifests, locks
  active,    \* recordings a process has in its table
  pc,        \* caller -> how far its call has come
  work,      \* caller -> the segment its call is about
  used,      \* history: segment identities generated so far
  started,   \* history: segments whose StartSegment succeeded
  outcome,   \* history: segment -> result of the last call about it
  warned,    \* history: segments for which a directory sync failed
  late,      \* history: numbers with which a start went on although files of the number
             \* had appeared since it looked
  retaken    \* history: segments that were recovered while somebody still had them

files == <<media, manifest, owner>>
overlaps == <<late, retaken>>
vars == <<files, exposed, active, pc, work, used, started, outcome, warned, overlaps>>

\* Audio is whole once the engine has finalized it.  What has not been synced
\* a loss of power may leave incomplete.
Audio == [by : Segments \cup {NoOne}, whole : BOOLEAN, synced : BOOLEAN]
NoAudio == [by |-> NoOne, whole |-> FALSE, synced |-> FALSE]
Growing(s) == [by |-> s, whole |-> FALSE, synced |-> FALSE]
Media == [partial : Audio, final : Audio]

Manifest == [by : Segments \cup {NoOne}, kind : {"none", "finalized", "failed"}]
NoManifest == [by |-> NoOne, kind |-> "none"]

\* A lock whose creation was cut short cannot be decoded.
Lock == [by : Segments \cup {NoOne}, number : Numbers \cup {0}, readable : BOOLEAN]
NoLock == [by |-> NoOne, number |-> 0, readable |-> FALSE]

Stages == {"idle", "looked", "locking", "owned", "evidencing", "clearing", "releasing",
           "finalizing", "installing", "syncing", "describing", "confirming", "recovering"}

Outcomes == {"none", "started", "finalized", "failed", "partial", "uncertain"}

\* keep: ownership is retained after the evidence has been written.
Work == [segment : Segments \cup {NoOne}, number : Numbers \cup {0}, keep : BOOLEAN,
         result : Outcomes]
NoWork == [segment |-> NoOne, number |-> 0, keep |-> FALSE, result |-> "none"]

S(c) == work[c].segment
N(c) == work[c].number

Goto(c, from, to) == pc[c] = from /\ pc' = [pc EXCEPT ![c] = to]

Ends(c, result) ==
  /\ pc' = [pc EXCEPT ![c] = "idle"]
  /\ outcome' = [outcome EXCEPT ![S(c)] = result]

-----------------------------------------------------------------------------
(* The directory.                                                          *)

PutMedia(n, value) ==
  /\ media' = [media EXCEPT ![n] = value]
  /\ exposed' = [exposed EXCEPT !.media[n] = @ \cup {value}]

\* Audio bytes are synced in place: the entry itself does not change.
SettleAudio(n, value) ==
  LET settled(m) == IF m.partial = media[n].partial THEN [m EXCEPT !.partial = value] ELSE m
  IN  /\ media' = [media EXCEPT ![n].partial = value]
      /\ exposed' = [exposed EXCEPT !.media[n] = {settled(m) : m \in @}]

Synced(ms, fs, o) ==
  [media |-> [n \in Numbers |-> {ms[n]}], manifest |-> [n \in Numbers |-> {fs[n]}],
   owner |-> {o}]

\* syncDir: all entries are durable, or it fails and the caller is warned.
SyncDirectory == exposed' = Synced(media', manifest', owner') /\ UNCHANGED warned

SyncDirectoryFails(c) ==
  /\ exposed' = [media |-> exposed.media,
                 manifest |-> [n \in Numbers |-> exposed.manifest[n] \cup {manifest'[n]}],
                 owner |-> exposed.owner \cup {owner'}]
  /\ warned' = warned \cup {S(c)}

\* Without power, unsynced bytes of a file may be gone although its entry is
\* durable.
Shorn(a) == IF a.synced THEN {a} ELSE {a, [a EXCEPT !.whole = FALSE]}

PossibleMedia(n) ==
  UNION {[partial : Shorn(m.partial), final : Shorn(m.final)] : m \in exposed.media[n]}

-----------------------------------------------------------------------------
Init ==
  /\ media = [n \in Numbers |-> [partial |-> NoAudio, final |-> NoAudio]]
  /\ manifest = [n \in Numbers |-> NoManifest]
  /\ owner = NoLock
  /\ exposed = Synced(media, manifest, owner)
  /\ active = {}
  /\ pc = [c \in Callers |-> "idle"]
  /\ work = [c \in Callers |-> NoWork]
  /\ used = {}
  /\ started = {}
  /\ outcome = [s \in Segments |-> "none"]
  /\ warned = {}
  /\ late = {}
  /\ retaken = {}

(* StartSegment.                                                           *)

\* Defect: only partial audio counts as a file of the number.
UnusedPartial(n) == media[n].partial = NoAudio

Unused(n) ==
  media[n] = [partial |-> NoAudio, final |-> NoAudio] /\ manifest[n] = NoManifest

\* Any segment file of the number is a conflict; nothing is written before, and the
\* start does not look again.
Look(c, s, n) ==
  /\ Goto(c, "idle", "looked")
  /\ s \notin used
  /\ Unused(n)
  /\ used' = used \cup {s}
  /\ UNCHANGED started
  /\ work' = [work EXCEPT ![c] = [segment |-> s, number |-> n, keep |-> FALSE,
                                  result |-> "none"]]
  /\ UNCHANGED <<files, exposed, active, outcome, warned, overlaps>>

\* What has appeared since the look goes unnoticed.
Overlooks(c) ==
  /\ late' = IF Unused(N(c)) THEN late ELSE late \cup {N(c)}
  /\ UNCHANGED retaken

\* The lock as the call creates it: not yet written.
Bare(c) == [by |-> S(c), number |-> N(c), readable |-> FALSE]

\* Defect: a lock that exists is replaced.
ReplaceLock(c) ==
  /\ Goto(c, "looked", "locking")
  /\ owner' = Bare(c)
  /\ exposed' = [exposed EXCEPT !.owner = @ \cup {owner'}]
  /\ Overlooks(c)
  /\ UNCHANGED <<media, manifest, active, work, used, started, outcome, warned>>

\* createOwnership creates the lock exclusively.
CreateLock(c) ==
  /\ Goto(c, "looked", "locking")
  /\ owner = NoLock
  /\ owner' = Bare(c)
  /\ exposed' = [exposed EXCEPT !.owner = @ \cup {owner'}]
  /\ Overlooks(c)
  /\ UNCHANGED <<media, manifest, active, work, used, started, outcome, warned>>

\* Whoever has removed the lock since has removed it for good.
Written(c) == IF owner = Bare(c) THEN [owner EXCEPT !.readable = TRUE] ELSE owner

SyncLock(c) ==
  /\ Goto(c, "locking", "owned")
  /\ owner' = Written(c)
  /\ UNCHANGED <<media, manifest, active, work, used, started, outcome, overlaps>>
  /\ SyncDirectory

\* The lock exists already; or its creation fails and what was created stays.
LockFails(c) ==
  /\ \/ pc[c] = "looked" /\ UNCHANGED owner
     \/ pc[c] = "locking" /\ owner' \in {owner, Written(c)}
  /\ Ends(c, "failed")
  /\ exposed' = [exposed EXCEPT !.owner = @ \cup {owner'}]
  /\ UNCHANGED <<media, manifest, active, work, used, started, warned, overlaps>>

Recording(c) == [process |-> ProcessOf[c], segment |-> S(c), number |-> N(c)]

\* The synthetic engine creates the partial file exclusively; an external
\* recorder overwrites what is there.
Overwrites(n) == Engine = "process" \/ media[n].partial = NoAudio

Begin(c) ==
  /\ pc[c] = "owned"
  /\ Overwrites(N(c))
  /\ PutMedia(N(c), [media[N(c)] EXCEPT !.partial = Growing(S(c))])
  /\ active' = active \cup {Recording(c)}
  /\ started' = started \cup {S(c)}
  /\ Ends(c, "started")
  /\ Overlooks(c)
  /\ UNCHANGED <<manifest, owner, work, used, warned>>

\* unwindFailedStart: the engine may have left audio, worth keeping or not,
\* and may not know whether its process is gone.
BeginFails(c, resolved) ==
  /\ pc[c] = "owned"
  /\ LET left == IF Overwrites(N(c)) THEN [media[N(c)] EXCEPT !.partial = Growing(S(c))]
                                    ELSE media[N(c)] IN
     \/ /\ PutMedia(N(c), left)
        /\ pc' = [pc EXCEPT ![c] = "evidencing"]
        /\ UNCHANGED outcome
     \/ /\ PutMedia(N(c), left) \/ UNCHANGED <<media, exposed>>
        /\ IF resolved THEN pc' = [pc EXCEPT ![c] = "clearing"] /\ UNCHANGED outcome
                       ELSE Ends(c, "uncertain")
  /\ work' = [work EXCEPT ![c].keep = ~resolved, ![c].result = "partial"]
  /\ Overlooks(c)
  /\ UNCHANGED <<manifest, owner, active, used, started, warned>>

\* Output without audio frames is removed.
Clear(c) ==
  /\ pc[c] = "clearing"
  /\ \/ /\ PutMedia(N(c), [media[N(c)] EXCEPT !.partial = NoAudio])
        /\ pc' = [pc EXCEPT ![c] = "releasing"]
        /\ work' = [work EXCEPT ![c].result = "failed"]
        /\ UNCHANGED outcome
     \/ /\ Ends(c, "uncertain")
        /\ UNCHANGED <<media, exposed, work>>
  /\ UNCHANGED <<manifest, owner, active, used, started, warned, overlaps>>

\* A failed manifest keeps the partial audio explicit; whether or not it can
\* be written, ownership is released next unless it has to be kept.
WriteEvidence(c) ==
  /\ pc[c] = "evidencing"
  /\ IF work[c].keep THEN Ends(c, "uncertain")
     ELSE pc' = [pc EXCEPT ![c] = "releasing"] /\ UNCHANGED outcome
  /\ UNCHANGED <<media, owner, active, used, started, overlaps>>
  /\ \/ /\ manifest' = [manifest EXCEPT ![N(c)] = [by |-> S(c), kind |-> "failed"]]
        /\ \/ SyncDirectory /\ UNCHANGED work
           \/ SyncDirectoryFails(c) /\ work' = [work EXCEPT ![c].result = "uncertain"]
     \/ /\ work' = [work EXCEPT ![c].result = "uncertain"]
        /\ UNCHANGED <<manifest, exposed, warned>>

\* removeOwnership does not ask whose lock it removes.
Release(c) ==
  /\ pc[c] = "releasing"
  /\ owner # NoLock
  /\ owner' = NoLock
  /\ UNCHANGED <<media, manifest, active, work, used, started, overlaps>>
  /\ \/ SyncDirectory /\ Ends(c, work[c].result)
     \/ /\ SyncDirectoryFails(c)
        /\ Ends(c, IF work[c].result = "finalized" THEN "finalized" ELSE "uncertain")

ReleaseFails(c) ==
  /\ pc[c] = "releasing"
  /\ Ends(c, "uncertain")
  /\ UNCHANGED <<files, exposed, active, work, used, started, warned, overlaps>>

-----------------------------------------------------------------------------
(* FinalizeSegment and AbortSegment: the first thing either does is take   *)
(* the recording out of the table.                                         *)

Take(c, r, to, result) ==
  /\ Goto(c, "idle", to)
  /\ r \in active
  /\ r.process = ProcessOf[c]
  /\ active' = active \ {r}
  /\ work' = [work EXCEPT ![c] = [segment |-> r.segment, number |-> r.number,
                                  keep |-> FALSE, result |-> result]]
  /\ UNCHANGED <<files, exposed, used, started, outcome, warned, overlaps>>

FinalizeSegment(c, r) == Take(c, r, "finalizing", "finalized")

\* Defect: the patched audio is not synced.
EngineLeavesUnsynced(c) ==
  /\ Goto(c, "finalizing", "installing")
  /\ media[N(c)].partial.by # NoOne
  /\ SettleAudio(N(c), [media[N(c)].partial EXCEPT !.whole = TRUE])
  /\ UNCHANGED <<manifest, owner, active, work, used, started, outcome, warned, overlaps>>

\* The synthetic engine patches and syncs the audio; an external recorder is
\* told to stop and the bytes it wrote are not synced.  The audio is parsed.
EngineFinalizes(c) ==
  /\ Goto(c, "finalizing", "installing")
  /\ media[N(c)].partial.by # NoOne
  /\ SettleAudio(N(c), [by |-> media[N(c)].partial.by, whole |-> TRUE,
                        synced |-> Engine = "synthetic"])
  /\ UNCHANGED <<manifest, owner, active, work, used, started, outcome, warned, overlaps>>

\* A failure before the audio is installed keeps the partial file and the
\* lock; a failure after that keeps the final audio and the lock.
FinalizeFails(c) ==
  /\ pc[c] \in {"finalizing", "installing", "describing"}
  /\ Ends(c, "uncertain")
  /\ UNCHANGED <<files, exposed, active, work, used, started, warned, overlaps>>

InstallAudio(c) ==
  /\ Goto(c, "installing", "syncing")
  /\ media[N(c)].partial.by # NoOne
  /\ PutMedia(N(c), [partial |-> NoAudio, final |-> media[N(c)].partial])
  /\ UNCHANGED <<manifest, owner, active, work, used, started, outcome, warned, overlaps>>

\* Defect: the directory is not synchronised between audio and manifest.
SkipAudioSync(c) ==
  /\ Goto(c, "syncing", "describing")
  /\ UNCHANGED <<files, exposed, active, work, used, started, outcome, warned, overlaps>>

SyncAudio(c) ==
  /\ Goto(c, "syncing", "describing")
  /\ UNCHANGED <<files, active, work, used, started, outcome, overlaps>>
  /\ SyncDirectory \/ SyncDirectoryFails(c)

InstallManifest(c) ==
  /\ Goto(c, "describing", "confirming")
  /\ manifest' = [manifest EXCEPT ![N(c)] = [by |-> S(c), kind |-> "finalized"]]
  /\ exposed' = [exposed EXCEPT !.manifest[N(c)] = @ \cup {manifest'[N(c)]}]
  /\ UNCHANGED <<media, owner, active, work, used, started, outcome, warned, overlaps>>

SyncManifest(c) ==
  /\ Goto(c, "confirming", "releasing")
  /\ UNCHANGED <<files, active, work, used, started, outcome, overlaps>>
  /\ SyncDirectory \/ SyncDirectoryFails(c)

\* The engine is stopped; if that fails the lock is kept.  The synthetic one opens
\* the partial audio for it.
AbortSegment(c, r, stopped) ==
  /\ Goto(c, "idle", "evidencing")
  /\ r \in active
  /\ r.process = ProcessOf[c]
  /\ stopped /\ Engine = "synthetic" => media[r.number].partial.by # NoOne
  /\ active' = active \ {r}
  /\ work' = [work EXCEPT ![c] = [segment |-> r.segment, number |-> r.number,
                                  keep |-> ~stopped, result |-> "partial"]]
  /\ UNCHANGED <<files, exposed, used, started, outcome, warned, overlaps>>

-----------------------------------------------------------------------------
(* RecoverSegment: a process takes a recording over from the lock and the  *)
(* partial audio, and enters it in its table later; an external recorder   *)
(* cannot be taken over.  Nothing asks whether the process, or another,    *)
(* still has the recording.  The request names a segment the runtime       *)
(* records: one whose start succeeded.                                     *)

\* Somebody has the segment in a table, or a call about it is under way.
Handled(s) ==
  \/ \E r \in active : r.segment = s
  \/ \E d \in Callers : pc[d] \notin {"idle", "looked"} /\ S(d) = s

RecoverSegment(c) ==
  /\ Goto(c, "idle", "recovering")
  /\ Engine = "synthetic"
  /\ owner.readable
  /\ owner.by \in started
  /\ media[owner.number].partial.by # NoOne
  /\ work' = [work EXCEPT ![c] = [segment |-> owner.by, number |-> owner.number,
                                  keep |-> FALSE, result |-> "none"]]
  /\ retaken' = IF Handled(owner.by) THEN retaken \cup {owner.by} ELSE retaken
  /\ UNCHANGED <<files, exposed, active, used, started, outcome, warned, late>>

Recovered(c) ==
  /\ Goto(c, "recovering", "idle")
  /\ active' = active \cup {Recording(c)}
  /\ UNCHANGED <<files, exposed, work, used, started, outcome, warned, overlaps>>

-----------------------------------------------------------------------------
Kill(p) ==
  /\ active' = {r \in active : r.process # p}
  /\ pc' = [c \in Callers |-> IF ProcessOf[c] = p THEN "idle" ELSE pc[c]]
  /\ UNCHANGED <<files, exposed, work, used, started, outcome, warned, overlaps>>

LosePower ==
  /\ media' \in {f \in [Numbers -> UNION {PossibleMedia(n) : n \in Numbers}] :
                   \A n \in Numbers : f[n] \in PossibleMedia(n)}
  /\ manifest' \in {f \in [Numbers -> UNION {exposed.manifest[n] : n \in Numbers}] :
                      \A n \in Numbers : f[n] \in exposed.manifest[n]}
  /\ owner' \in exposed.owner
  /\ exposed' = Synced(media', manifest', owner')
  /\ active' = {}
  /\ pc' = [c \in Callers |-> "idle"]
  /\ UNCHANGED <<work, used, started, outcome, warned, overlaps>>

Next ==
  \/ \E c \in Callers :
       \/ \E s \in Segments, n \in Numbers : Look(c, s, n)
       \/ CreateLock(c) \/ SyncLock(c) \/ LockFails(c)
       \/ Begin(c)
       \/ \E resolved \in BOOLEAN : BeginFails(c, resolved)
       \/ Clear(c) \/ WriteEvidence(c) \/ Release(c) \/ ReleaseFails(c)
       \/ \E r \in active : FinalizeSegment(c, r)
       \/ EngineFinalizes(c) \/ FinalizeFails(c)
       \/ InstallAudio(c) \/ SyncAudio(c) \/ InstallManifest(c) \/ SyncManifest(c)
       \/ \E r \in active, stopped \in BOOLEAN : AbortSegment(c, r, stopped)
       \/ RecoverSegment(c) \/ Recovered(c)
  \/ \E p \in Processes : Kill(p)
  \/ LosePower

Spec == Init /\ [][Next]_vars

-----------------------------------------------------------------------------
(* Properties.                                                             *)

\* Types of the recorder's state.
TypeOK ==
  /\ media \in [Numbers -> Media]
  /\ manifest \in [Numbers -> Manifest]
  /\ owner \in Lock
  /\ \A n \in Numbers : exposed.media[n] \subseteq Media /\ exposed.manifest[n] \subseteq Manifest
  /\ exposed.owner \subseteq Lock
  /\ active \subseteq [process : Processes, segment : Segments, number : Numbers]
  /\ pc \in [Callers -> Stages]
  /\ work \in [Callers -> Work]
  /\ started \subseteq used /\ used \subseteq Segments /\ warned \subseteq Segments
  /\ outcome \in [Segments -> Outcomes]
  /\ late \subseteq Numbers /\ retaken \subseteq Segments

\* What is being recorded is what the lock names, and no other process records
\* it, whichever call failed, was killed or was taken over before and whichever
\* starts pass each other: one session never records twice.  Only a recovery of
\* a recording that somebody still has lifts it.
RecordingOwned ==
  retaken = {} =>
    \A r \in active :
      /\ owner.readable /\ owner.by = r.segment /\ owner.number = r.number
      /\ active = {r}

\* No start or recovery has crossed another call about what it is about.
Apart == late = {} /\ retaken = {}

\* A finalized manifest never claims a segment that does not exist, not even
\* after a loss of power, unless the caller was warned of a failed sync.
ManifestHonest ==
  Apart =>
    \A n \in Numbers : \A m \in exposed.manifest[n] :
      m.kind = "finalized" /\ m.by \notin warned =>
        \A x \in PossibleMedia(n) : x.final.by = m.by /\ x.final.whole

\* A segment reported as finalized without a warning is finalized for good:
\* its audio, its manifest and the release of its lock survive whatever comes.
FinalizedDurable ==
  Apart =>
    \A s \in Segments :
      outcome[s] = "finalized" /\ s \notin warned =>
        /\ \A o \in exposed.owner : o.by # s
        /\ \E n \in Numbers :
             /\ \A m \in exposed.manifest[n] : m.by = s /\ m.kind = "finalized"
             /\ \A x \in PossibleMedia(n) : x.final.by = s /\ x.final.whole

\* Final audio is never overwritten or removed: no retry, abort or recovery does,
\* however late it comes, only a start that missed files of its own number.
\* The manifest that finalizes it stays too as long as calls keep apart.
FinalKept ==
  [][LosePower \/
     \A n \in Numbers :
       media[n].final # NoAudio =>
         /\ n \notin late => media'[n].final = media[n].final
         /\ Apart /\ manifest[n].kind = "finalized" => manifest'[n] = manifest[n]]_vars

=============================================================================
