----------------------------- MODULE CaptureFlow -----------------------------
(***************************************************************************)
(* The capture use cases of one session: each reads the session's runtime  *)
(* record, restores the capture instance if its process has none, has the  *)
(* capture service start or finalize a recording, and only then replaces   *)
(* the record, which in the meantime session and transcription use cases   *)
(* and other capture calls may have moved.  A process may be shut down or  *)
(* killed anywhere.                                                        *)
(*                                                                         *)
(* The recorder's operations are single steps here, with every result      *)
(* CaptureRecorder shows them to have short of a loss of power, all but the *)
(* recovery, whose look at the lock and whose entry into the table are two *)
(* steps, as nothing excludes other calls between them.  A number          *)
(* is recorded at most once, so it stands for its segment's identity, and  *)
(* the first number of a capture for the capture's.  Of the revision only  *)
(* what a compare-and-swap can tell is kept: whether the record moved.     *)
(*                                                                         *)
(* Source: internal/application/capture.go,                                *)
(* internal/application/capture_shutdown.go,                               *)
(* internal/capture/backend/service.go, internal/capture/transition.go.    *)
(***************************************************************************)
EXTENDS RuntimeStatus, Sequences, FiniteSets

CONSTANTS
  Callers,
  Processes,
  ProcessOf,   \* the process each caller runs in
  Nobody,      \* no process
  MaxNumber    \* segments of the session

ASSUME FlowAssumption ==
  /\ ProcessOf \in [Callers -> Processes]
  /\ Nobody \notin Processes
  /\ MaxNumber \in Nat \ {0}

VARIABLES
  record,     \* the session's runtime record
  storage,    \* number -> what the Segments directory holds of it
  owner,      \* the ownership lock: which number, created by which process
  live,       \* recorders' tables: <<process, number>> being recorded
  instances,  \* process -> its capture instances, by identity
  flag,       \* process -> captureActiveBySession
  closing,    \* processes whose server has stopped and shuts capture down
  pc,         \* caller -> how far its call has come
  work,       \* caller -> its operation, and what it read of the record
  reported,   \* history: numbers for which a caller was told that the record may not
              \* show what was done, as long as some process lives that records them
  retaken     \* history: numbers a recovery entered too late, or away from another process

backendVars == <<storage, owner, live>>
serviceVars == <<instances, flag, closing>>
historyVars == <<reported, retaken>>
vars == <<record, backendVars, serviceVars, pc, work, historyVars>>

Numbers == 1..MaxNumber
Operations == {"start", "pause", "resume", "stop"}
Stages == {"idle", "restoring", "recovering", "installing", "calling", "started", "persisting"}

\* partial: partial audio, with or without a failed manifest; audio: final
\* audio without a manifest or with a failed one; final: final audio with the
\* manifest that finalizes it.
Contents == {"none", "partial", "audio", "final"}

Records == [session : SessionStatuses, capture : CaptureStatuses,
            segments : Seq({"recording", "stopped"}), id : {0} \cup Numbers,
            transcribed : SUBSET Numbers, aggregate : TranscriptionStatuses]

Instances == [status : CaptureStatuses, active : {0} \cup Numbers,
              last : {0} \cup Numbers]

Unowned == [number |-> 0, process |-> Nobody]
NoRecord == [session |-> "planned", capture |-> "unavailable", segments |-> <<>>, id |-> 0,
             transcribed |-> {}, aggregate |-> "not_started"]

\* As long as the record has not moved since, it is itself what was read.
Work == [op : Operations, capture : CaptureStatuses, id : {0} \cup Numbers,
         count : {0} \cup Numbers, stale : BOOLEAN]
NoWork == [op |-> "start", capture |-> "unavailable", id |-> 0, count |-> 0, stale |-> FALSE]

With(r, status) == {n \in DOMAIN r.segments : r.segments[n] = status}

-----------------------------------------------------------------------------
(* The mapping of a result onto the record that was read.                  *)

Op(c) == work[c].op
Capture(c) == work[c].capture   \* the capture status it read
Last(c) == work[c].count        \* the last segment it read
P(c) == ProcessOf[c]

\* The segment a call is about: NextSegmentNumber, or the one being recorded.
Number(c) == IF Op(c) \in {"start", "resume"} THEN Last(c) + 1 ELSE Last(c)

\* StartCapture gives the capture its identity.
CaptureId(c) == IF Op(c) = "start" THEN Number(c) ELSE work[c].id

Transcribed == [job |-> "completed", queue |-> "terminal", err |-> "none"]

Derived(r) == AggregateTranscriptionStatus(With(r, "stopped"), [n \in r.transcribed |-> Transcribed])

\* ApplyStart, ApplyPause, ApplyResume, ApplyStop: meaningful while Current(c).
Mapped(c) ==
  LET r == record IN
  CASE Op(c) \in {"start", "resume"} ->
         [r EXCEPT !.capture = "recording", !.id = CaptureId(c),
                   !.segments = Append(@, "recording")]
    [] Op(c) = "pause" -> [r EXCEPT !.capture = "paused", !.segments[Len(r.segments)] = "stopped"]
    [] Op(c) = "stop" -> [r EXCEPT !.capture = "stopped", !.segments[Len(r.segments)] = "stopped"]

\* finishMapping keeps the aggregate, Snapshot.Validate wants the derived one.
Acceptable(r) ==
  /\ r.capture = "recording" => r.session \in {"active", "interrupted"}
  /\ r.transcribed = {} \/ r.aggregate = Derived(r)

-----------------------------------------------------------------------------
(* The recorder.                                                           *)

Having(content) == {n \in Numbers : storage[n] = content}

\* What StartSegment asks of the directory.
Free(n) == storage[n] = "none" /\ owner = Unowned

StartSegment(p, n) ==
  /\ Free(n)
  /\ storage' = [storage EXCEPT ![n] = "partial"]
  /\ owner' = [number |-> n, process |-> p]
  /\ live' = live \cup {<<p, n>>}

\* A conflict leaves nothing; unwindFailedStart may leave audio, or the lock.
StartSegmentFails(p, n) ==
  /\ \/ UNCHANGED <<storage, owner>>
     \/ /\ Free(n)
        /\ storage' \in {storage, [storage EXCEPT ![n] = "partial"]}
        /\ owner' \in {owner, [number |-> n, process |-> p]}
  /\ UNCHANGED live

\* What a finalization that goes wrong after the audio is installed may leave.
Installed(n) == {[storage EXCEPT ![n] = content] : content \in {"audio", "final"}}

\* Defect: a manifest that cannot be written does not fail the finalization.
FinalizeWithoutManifest(p, n) ==
  /\ <<p, n>> \in live
  /\ storage[n] = "partial"
  /\ storage' \in Installed(n)
  /\ owner' = Unowned
  /\ live' = live \ {<<p, n>>}

\* The release of the lock does not ask whose it is, but there must be one.
FinalizeSegment(p, n) ==
  /\ <<p, n>> \in live
  /\ storage[n] = "partial"
  /\ owner # Unowned
  /\ storage' = [storage EXCEPT ![n] = "final"]
  /\ owner' = Unowned
  /\ live' = live \ {<<p, n>>}

\* The recorder forgets the recording, whatever it could then do about it.
FinalizeSegmentFails(p, n) ==
  /\ \/ UNCHANGED storage
     \/ /\ <<p, n>> \in live
        /\ storage[n] = "partial"
        /\ storage' \in Installed(n)
  /\ live' = live \ {<<p, n>>}
  /\ UNCHANGED owner

\* AbortSegment writes a failed manifest, but ignores whether it could.
Failed(content) == IF content = "partial" THEN "partial" ELSE "audio"

\* RecoverSegment takes a recording over from its lock and its partial audio,
\* without rewriting the lock.
Recoverable(n) == owner.number = n /\ storage[n] = "partial"

\* What the recovery then enters is over, or still another process's.
Overdue(p, n) ==
  storage[n] # "partial" \/ \E e \in live : e[1] # p /\ e[2] = n

-----------------------------------------------------------------------------
Init ==
  /\ record = NoRecord
  /\ storage = [n \in Numbers |-> "none"]
  /\ owner = Unowned
  /\ live = {}
  /\ instances = [p \in Processes |-> [id \in {} |-> NoRecord]]
  /\ flag = [p \in Processes |-> FALSE]
  /\ closing = {}
  /\ pc = [c \in Callers |-> "idle"]
  /\ work = [c \in Callers |-> NoWork]
  /\ reported = {}
  /\ retaken = {}

Goto(c, from, to) == pc[c] = from /\ pc' = [pc EXCEPT ![c] = to]

\* The call returns; what it read is of no more interest.
Return(c) == pc' = [pc EXCEPT ![c] = "idle"] /\ work' = [work EXCEPT ![c] = NoWork]

Known(c) == CaptureId(c) \in DOMAIN instances[P(c)]
Instance(c) == instances[P(c)][CaptureId(c)]

SetInstance(c, value) ==
  instances' = [instances EXCEPT ![P(c)] = Extend(@, CaptureId(c), value)]

SetFlag(c, value) == flag' = [flag EXCEPT ![P(c)] = value]

(* Reading the record.                                                     *)

MayStart(r) ==
  r.session \in {"active", "interrupted"} /\ r.capture \in {"unavailable", "ready", "stopped"}

\* The other operations need a capture to refer to, and look for its instance;
\* whether its status allows them is asked only after it has been restored.
Begin(c, op) ==
  /\ pc[c] = "idle"
  /\ P(c) \notin closing
  /\ IF op = "start" THEN MayStart(record) ELSE record.id # 0
  /\ op \in {"start", "resume"} => Len(record.segments) < MaxNumber
  /\ work' = [work EXCEPT ![c] = [op |-> op, capture |-> record.capture, id |-> record.id,
                                  count |-> Len(record.segments), stale |-> FALSE]]
  /\ pc' = [pc EXCEPT ![c] = IF op = "start" \/ record.id \in DOMAIN instances[P(c)]
                             THEN "calling" ELSE "restoring"]
  /\ UNCHANGED <<record, backendVars, serviceVars, historyVars>>

(* Restore.  No mutex is held between the look at the instances, that at   *)
(* the lock, the entry into the recorder's table and that of the instance. *)

RestoreIdle(c) ==
  /\ Goto(c, "restoring", "calling")
  /\ Capture(c) # "recording"
  /\ SetInstance(c, [status |-> Capture(c), active |-> 0, last |-> Last(c)])
  /\ UNCHANGED <<record, backendVars, flag, closing, work, historyVars>>

RecoverSegment(c) ==
  /\ Goto(c, "restoring", "recovering")
  /\ Capture(c) = "recording"
  /\ Recoverable(Last(c))
  /\ UNCHANGED <<record, backendVars, serviceVars, work, historyVars>>

\* Nothing asks whether it is still so.
Recovered(c) ==
  /\ Goto(c, "recovering", "installing")
  /\ live' = live \cup {<<P(c), Last(c)>>}
  /\ retaken' = IF Overdue(P(c), Last(c)) THEN retaken \cup {Last(c)} ELSE retaken
  /\ UNCHANGED <<record, storage, owner, serviceVars, work, reported>>

RestoreRecording(c) ==
  /\ Goto(c, "installing", "calling")
  /\ SetInstance(c, [status |-> "recording", active |-> Last(c), last |-> Last(c)])
  /\ UNCHANGED <<record, backendVars, flag, closing, work, historyVars>>

(* The capture service.                                                    *)

MayPause(c) == Op(c) = "pause" /\ Capture(c) = "recording"
MayResume(c) == Op(c) = "resume" /\ Capture(c) = "paused"
MayStop(c) == Op(c) = "stop" /\ Capture(c) \in {"recording", "paused"}

\* Pause, or Stop while recording: the service finds the segment recording.
MayFinalize(c) ==
  /\ MayPause(c) \/ (MayStop(c) /\ Capture(c) = "recording")
  /\ Known(c)
  /\ Instance(c).status = "recording"
  /\ Instance(c).active = Number(c)

MayStopPaused(c) ==
  MayStop(c) /\ Capture(c) = "paused" /\ Known(c) /\ Instance(c).status = "paused"

MayResumeInstance(c) ==
  /\ MayResume(c)
  /\ Known(c)
  /\ Instance(c).status = "paused"
  /\ Number(c) = Instance(c).last + 1

Start(c) ==
  /\ Goto(c, "calling", "started")
  /\ Op(c) = "start"
  /\ StartSegment(P(c), Number(c))
  /\ UNCHANGED <<record, serviceVars, work, historyVars>>

\* The instance is entered, and the application's flag set, after the
\* recorder has begun.
Started(c) ==
  /\ Goto(c, "started", "persisting")
  /\ SetInstance(c, [status |-> "recording", active |-> Number(c), last |-> Number(c)])
  /\ SetFlag(c, TRUE)
  /\ UNCHANGED <<record, backendVars, closing, work, historyVars>>

Resume(c) ==
  /\ Goto(c, "calling", "persisting")
  /\ MayResumeInstance(c)
  /\ StartSegment(P(c), Number(c))
  /\ SetInstance(c, [status |-> "recording", active |-> Number(c), last |-> Number(c)])
  /\ UNCHANGED <<record, flag, closing, work, historyVars>>

\* What the service does to the instance once the recorder has finalized.
Finalized(c, n) ==
  SetInstance(c, [Instance(c) EXCEPT !.status = IF Op(c) = "pause" THEN "paused" ELSE "stopped",
                                     !.active = 0, !.last = n])

\* Pause and Stop hold the service's mutex while the recorder finalizes; the
\* lookup of the instance, just before, is part of the step.
Pause(c) ==
  /\ Goto(c, "calling", "persisting")
  /\ MayFinalize(c)
  /\ Op(c) = "pause"
  /\ FinalizeSegment(P(c), Number(c))
  /\ Finalized(c, Number(c))
  /\ UNCHANGED <<record, flag, closing, work, historyVars>>

Stop(c) ==
  /\ Goto(c, "calling", "persisting")
  /\ Op(c) = "stop"
  /\ \/ /\ MayFinalize(c)
        /\ FinalizeSegment(P(c), Number(c))
        /\ Finalized(c, Number(c))
     \/ /\ MayStopPaused(c)
        /\ SetInstance(c, [Instance(c) EXCEPT !.status = "stopped"])
        /\ UNCHANGED backendVars
  /\ SetFlag(c, FALSE)
  /\ UNCHANGED <<record, closing, work, historyVars>>

\* The recorder refuses or fails: the caller is told, the instance is as it
\* was, and the flag too.
BackendFails(c) ==
  /\ pc[c] = "calling"
  /\ Return(c)
  /\ \/ Op(c) = "start" /\ StartSegmentFails(P(c), Number(c))
     \/ MayResumeInstance(c) /\ StartSegmentFails(P(c), Number(c))
     \/ MayFinalize(c) /\ FinalizeSegmentFails(P(c), Number(c))
  /\ UNCHANGED <<record, serviceVars, historyVars>>

\* A stopped capture is stopped again without asking the service.
StopAgain(c) ==
  /\ pc[c] = "calling"
  /\ Op(c) = "stop"
  /\ Capture(c) = "stopped"
  /\ Return(c)
  /\ SetFlag(c, FALSE)
  /\ UNCHANGED <<record, backendVars, instances, closing, historyVars>>

\* The segment cannot be recovered; the record's status does not allow the
\* operation; or the instance disagrees with it.
Refuse(c) ==
  /\ pc[c] \in {"restoring", "calling"}
  /\ pc[c] = "calling" =>
       /\ Op(c) # "start"
       /\ ~(Op(c) = "stop" /\ Capture(c) = "stopped")
       /\ ~MayFinalize(c) /\ ~MayStopPaused(c) /\ ~MayResumeInstance(c)
  /\ Return(c)
  /\ UNCHANGED <<record, backendVars, serviceVars, historyVars>>

(* Replacing the record.                                                   *)

\* Whoever read the record before is out of date.
Moved(w) == [c \in Callers |-> [w[c] EXCEPT !.stale = pc'[c] # "idle"]]

Write(r, w) == record' = r /\ work' = Moved(w)

Current(c) == ~work[c].stale

\* UpdateRuntime.
Persist(c) ==
  /\ Goto(c, "persisting", "idle")
  /\ Current(c)
  /\ Acceptable(Mapped(c))
  /\ CanPersistCapture(Capture(c), Mapped(c).capture)
  /\ Write(Mapped(c), [work EXCEPT ![c] = NoWork])
  /\ UNCHANGED <<backendVars, serviceVars, historyVars>>

\* Defect: a conflict with another writer is answered as if nothing happened.
PersistConflictPlain(c) ==
  /\ Goto(c, "persisting", "idle")
  /\ \/ UNCHANGED record /\ work' = [work EXCEPT ![c] = NoWork]
     \/ /\ Current(c) /\ Acceptable(Mapped(c))
        /\ Write(Mapped(c), [work EXCEPT ![c] = NoWork])
  /\ reported' = IF Current(c) THEN reported \cup {Number(c)} ELSE reported
  /\ UNCHANGED <<backendVars, serviceVars, retaken>>

\* The mapping or the repository refuses, or the update fails, or it succeeds
\* and cannot be confirmed: what was done to the recording stays done.
PersistUncertain(c) ==
  /\ Goto(c, "persisting", "idle")
  /\ \/ UNCHANGED record /\ work' = [work EXCEPT ![c] = NoWork]
     \/ /\ Current(c) /\ Acceptable(Mapped(c))
        /\ Write(Mapped(c), [work EXCEPT ![c] = NoWork])
  /\ reported' = reported \cup {Number(c)}
  /\ UNCHANGED <<backendVars, serviceVars, retaken>>

(* Other writers of the record, and the end of a process.                  *)

\* Starting a session nothing was recorded for makes its capture ready.
Adjusted(to) ==
  IF record.session = "planned" /\ to = "active" /\ Having("none") = Numbers /\ owner = Unowned
  THEN "ready" ELSE record.capture

\* transitionRecord with the edges of the session use cases.
TransitionSession(to) ==
  /\ <<record.session, to>> \in SessionEdges \ {<<"recovering", "interrupted">>}
  /\ record.capture \notin ActiveCaptureStatuses
  /\ UNCHANGED pc
  /\ Write([record EXCEPT !.session = to, !.capture = Adjusted(to)], work)
  /\ UNCHANGED <<backendVars, serviceVars, historyVars>>

\* A finalized segment is transcribed; the steps in between do not matter here.
Transcribe(n) ==
  /\ n \in With(record, "stopped") \ record.transcribed
  /\ LET next == [record EXCEPT !.transcribed = @ \cup {n}] IN
     UNCHANGED pc /\ Write([next EXCEPT !.aggregate = Derived(next)], work)
  /\ UNCHANGED <<backendVars, serviceVars, historyVars>>

\* ShutdownCapture, once the server has stopped taking requests.
Close(p) ==
  /\ p \notin closing
  /\ closing' = closing \cup {p}
  /\ UNCHANGED <<record, backendVars, instances, flag, pc, work, historyVars>>

\* AbortSegment for the active segment of one instance.  The lock is kept if
\* the engine could not be stopped, as when its audio is gone, or if it cannot
\* be removed.
Abort(p, id) ==
  /\ p \in closing
  /\ LET n == instances[p][id].active IN
     /\ <<p, n>> \in live
     /\ live' = live \ {<<p, n>>}
     /\ storage' \in {storage, [storage EXCEPT ![n] = Failed(@)]}
     /\ \/ /\ storage[n] = "partial"
           /\ owner' \in {Unowned, owner}
           /\ instances' = [instances EXCEPT ![p][id].active = 0]
        \/ UNCHANGED <<owner, instances>>
  /\ UNCHANGED <<record, flag, closing, pc, work, historyVars>>

\* A lock outlives its process, which then is not alive any more.
Kill(p) ==
  /\ live' = {e \in live : e[1] # p}
  /\ owner' = IF owner.process = p THEN [owner EXCEPT !.process = Nobody] ELSE owner
  /\ instances' = [instances EXCEPT ![p] = [id \in {} |-> NoRecord]]
  /\ flag' = [flag EXCEPT ![p] = FALSE]
  /\ closing' = closing \ {p}
  /\ pc' = [c \in Callers |-> IF P(c) = p THEN "idle" ELSE pc[c]]
  /\ work' = [c \in Callers |-> IF P(c) = p THEN NoWork ELSE work[c]]
  /\ reported' = {n \in reported : \E e \in live' : e[2] = n}
  /\ UNCHANGED <<record, storage, retaken>>

Next ==
  \/ \E c \in Callers :
       \/ \E op \in Operations : Begin(c, op)
       \/ RestoreIdle(c) \/ RecoverSegment(c) \/ Recovered(c) \/ RestoreRecording(c)
       \/ Start(c) \/ Started(c) \/ Resume(c) \/ Pause(c) \/ Stop(c)
       \/ BackendFails(c) \/ StopAgain(c) \/ Refuse(c)
       \/ Persist(c) \/ PersistUncertain(c)
  \/ \E to \in SessionStatuses : TransitionSession(to)
  \/ \E n \in Numbers : Transcribe(n)
  \/ \E p \in Processes :
       \/ Close(p)
       \/ \E id \in DOMAIN instances[p] : Abort(p, id)
       \/ Kill(p)

Spec == Init /\ [][Next]_vars

-----------------------------------------------------------------------------
(* InspectCapture, asked of one process for the backend in use.            *)

Quiet == \A c \in Callers : pc[c] = "idle"

\* The instance of the record's capture, where the process has it.
Shown(p) == IF record.id \in DOMAIN instances[p] THEN {instances[p][record.id]} ELSE {}

\* Defect: whether the process has the recording is not asked.
ExpectedByLock(p) ==
  record.capture = "recording" /\ owner # Unowned

\* A recording the instance and the record agree about is not an issue.
ExpectedActive(p) ==
  /\ record.capture = "recording"
  /\ \E i \in Shown(p) :
       i.active = Len(record.segments) /\ i.active \in Having("partial") /\ owner # Unowned

Issues(p) ==
  LET Told(code, condition) == IF condition THEN {code} ELSE {} IN
  UNION {
    Told("missing_or_malformed_manifest", Having("audio") # {}),
    Told("partial_audio", Having("partial") # {} /\ ~ExpectedActive(p)),
    Told("active_ownership", owner.process # Nobody /\ ~ExpectedActive(p)),
    Told("stale_ownership", owner # Unowned /\ owner.process = Nobody),
    Told("runtime_segment_missing_from_backend", ~(With(record, "stopped") \subseteq Having("final"))),
    Told("backend_segment_missing_from_runtime", ~(Having("final") \subseteq DOMAIN record.segments)),
    Told("runtime_capture_status_mismatch", \E i \in Shown(p) : i.status # record.capture),
    Told("runtime_active_segment_missing",
         /\ record.capture = "recording"
         /\ \A i \in Shown(p) : i.active = 0
         /\ Having("partial") = {})}

-----------------------------------------------------------------------------
(* Properties.                                                             *)

\* Types of the capture state.
TypeOK ==
  /\ record \in Records
  /\ storage \in [Numbers -> Contents]
  /\ owner \in [number : {0} \cup Numbers, process : Processes \cup {Nobody}]
  /\ live \subseteq Processes \X Numbers
  /\ \A p \in Processes : \A id \in DOMAIN instances[p] :
       id \in Numbers /\ instances[p][id] \in Instances
  /\ flag \in [Processes -> BOOLEAN]
  /\ closing \subseteq Processes
  /\ pc \in [Callers -> Stages]
  /\ work \in [Callers -> Work]
  /\ reported \subseteq Numbers /\ retaken \subseteq Numbers

\* A segment the record calls stopped is finalized, audio and manifest, and
\* the segment the record calls recording is the last.  Only a recovery that
\* came too late can lose a segment its manifest, never its audio: the process
\* then has it aborted when it shuts down.
StoppedIsFinal ==
  /\ \A n \in With(record, "stopped") :
       storage[n] = "final" \/ (storage[n] = "audio" /\ n \in retaken)
  /\ \A n \in With(record, "recording") : n = Len(record.segments) /\ record.capture = "recording"

\* What is being recorded is the segment the record shows as recording, in a
\* session that may record; or a call about it is under way; or a caller was
\* told that the record may not show it.  A recorder's entry for a recording
\* that is over is one a recovery made too late.
LiveRecordingKnown ==
  \A e \in live :
    IF storage[e[2]] = "partial"
    THEN \/ /\ record.capture = "recording" /\ e[2] = Len(record.segments)
            /\ record.session \in {"active", "interrupted"}
         \/ e[2] \in reported
         \/ \E c \in Callers : pc[c] # "idle" /\ P(c) = e[1] /\ Number(c) = e[2]
    ELSE e[2] \in retaken

\* What the process is recording: a late entry of a finished recording is none.
Recorded(p) == {n \in Having("partial") : <<p, n>> \in live}

\* A recording that has ended, of which the instance has not learnt: its
\* finalization failed, or it was recovered too late.
Ghost(p) == \E id \in DOMAIN instances[p] :
              instances[p][id].active \notin {0} \cup Recorded(p)

Differs ==
  \/ With(record, "stopped") # Having("final")
  \/ With(record, "recording") # UNION {Recorded(p) : p \in Processes}
  \/ ~(Having("partial") \cup Having("audio") \subseteq With(record, "recording"))

\* When no call is under way and the record does not show what is recorded and
\* what is finalized, InspectCapture reports an issue, in whichever process it
\* is asked; but for a failed finalization or a recovery that came too late,
\* which its process hides.
DifferenceShown == Quiet /\ Differs => \A p \in Processes : Issues(p) # {} \/ Ghost(p)

\* What a pause or a stop has finalized can be entered into the record as long
\* as nobody else has moved it.
SegmentFits ==
  \A c \in Callers :
    pc[c] = "persisting" /\ Op(c) \in {"pause", "stop"} /\ Current(c) => Acceptable(Mapped(c))

\* HasActiveCapture is true in a process that is recording.
FlagCoversRecording == Quiet => \A e \in live : flag[e[1]]

=============================================================================
