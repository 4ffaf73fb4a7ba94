----------------------- MODULE TranscriptionExecution -----------------------
(***************************************************************************)
(* ExecuteTranscription: one request takes a transcription of one segment  *)
(* through the queue (enqueue, claim, start), runs the local backend on the*)
(* segment's audio, persists the artifacts and records the outcome.  The   *)
(* queue lives in the process, the record and the artifacts on disk; other *)
(* operations update the record while the backend runs, another process    *)
(* may execute the same segment, the audio file may be replaced, a process *)
(* may be killed and power may be lost between any two steps.              *)
(*                                                                         *)
(* A writer of TranscriptArtifacts is one execution: its job has its name. *)
(* A revision is only ever compared with the current one, so the model     *)
(* keeps the executions that know it instead of the number.                *)
(*                                                                         *)
(* Source: internal/application/transcription_execution.go,                *)
(* transcription_integration.go, internal/transcription/backend.           *)
(***************************************************************************)
EXTENDS TranscriptArtifacts

Status == INSTANCE RuntimeStatus

CONSTANTS
  Processes,   \* each with a queue of its own
  Home,        \* execution -> the process that runs it
  OtherFailed, \* another segment of the session has failed
  MaxAudio     \* bound: contents the audio file has

ASSUME ExecutionAssumption ==
  /\ Home \in [Writers -> Processes]
  /\ OtherFailed \in BOOLEAN
  /\ MaxAudio \in Nat \ {0}

VARIABLES
  slot,    \* the job the record names for the segment, and its status
  knows,   \* executions whose revision of the record is the current one
  queue,   \* job -> its status in the queue of its process
  audio,   \* content of the segment's audio file
  stage,   \* execution -> how far it has come
  digest,  \* execution -> the audio its provenance names
  heard,   \* execution -> the audio the worker transcribed
  answer   \* execution -> what the caller was told

artifactVars == vars

recordVars == <<slot, knows, queue>>

backendVars == <<digest, heard>>

execVars == <<artifactVars, recordVars, backendVars, audio, stage, answer>>

JobStates == {"none", "queued", "claimed", "running", "completed", "failed"}

Active == {"queued", "claimed", "running"}

RunStages == {"new", "enqueued", "claimed", "started", "hashing", "hearing", "persisting",
              "completing", "evidence", "failing", "ended"}

\* A caller whose process is killed gets no answer, and knows as little as one
\* that is told the outcome is uncertain.
Answers == {"none", "completed", "failed", "refused", "uncertain"}

Running(w) == stage[w] \notin {"new", "ended"}

ExecInit ==
  /\ Init
  /\ slot = [job |-> NoOne, status |-> "none"]
  /\ knows = {}
  /\ queue = [w \in Writers |-> "none"]
  /\ audio = 1
  /\ stage = [w \in Writers |-> "new"]
  /\ digest = [w \in Writers |-> 0]
  /\ heard = [w \in Writers |-> 0]
  /\ answer = [w \in Writers |-> "none"]

Goes(w, to) == stage' = [stage EXCEPT ![w] = to] /\ UNCHANGED answer

Answer(w, what) ==
  /\ stage' = [stage EXCEPT ![w] = "ended"]
  /\ answer' = [answer EXCEPT ![w] = what]

-----------------------------------------------------------------------------
(* The record.  Its session-level status is derived from the segments'.    *)

Summary(status) ==
  [queue |-> CASE status = "queued" -> "queued"
               [] status \in {"claimed", "running"} -> "claimed"
               [] OTHER -> "terminal",
   job |-> IF status = "claimed" THEN "queued" ELSE status,
   err |-> "none"]

Aggregate(status) ==
  Status!AggregateTranscriptionStatus({"this", "other"},
    [s \in (IF status = "none" THEN {} ELSE {"this"}) \cup
           (IF OtherFailed THEN {"other"} ELSE {}) |->
       Summary(IF s = "this" THEN status ELSE "failed")])

\* Defect: the repository does not look at the session-level status.
AllowedAlways(status) == TRUE

\* UpdateRuntime accepts the session-level status that follows.
Allowed(status) == Status!CanTransitionTranscription(Aggregate(slot.status), Aggregate(status))

\* The queue has changed; the record is updated, or not, or not known to be.
\* The second disjunct is "persistence uncertain": inspection is required.
Record(w, status, succeeds) ==
  /\ queue' = [queue EXCEPT ![w] = status]
  /\ \/ /\ Allowed(status)
        /\ slot' = [job |-> w, status |-> status]
        /\ knows' = {w}
        /\ succeeds
     \/ /\ \/ UNCHANGED <<slot, knows>>
           \/ /\ Allowed(status)
              /\ slot' = [job |-> w, status |-> status]
              /\ knows' = {}
        /\ Answer(w, "uncertain")

\* transcriptionMutation and ensureRuntimeMatches: the revision is the one the
\* execution knows, and queue and record agree on its job.
Matches(w, status) ==
  /\ w \in knows
  /\ queue[w] = status
  /\ slot = [job |-> w, status |-> status]

-----------------------------------------------------------------------------
(* Enqueue, claim, start.                                                  *)

\* The caller names the current revision; the queue holds no active job for
\* the segment.
Enqueue(w) ==
  /\ stage[w] = "new"
  /\ \A v \in Writers : Home[v] = Home[w] => queue[v] \notin Active
  /\ Record(w, "queued", Goes(w, "enqueued"))
  /\ UNCHANGED <<artifactVars, backendVars, audio>>

Claim(w) ==
  /\ stage[w] = "enqueued"
  /\ Matches(w, "queued")
  /\ Record(w, "claimed", Goes(w, "claimed"))
  /\ UNCHANGED <<artifactVars, backendVars, audio>>

Start(w) ==
  /\ stage[w] = "claimed"
  /\ Matches(w, "claimed")
  /\ Record(w, "running", Goes(w, "started"))
  /\ UNCHANGED <<artifactVars, backendVars, audio>>

\* The record is read once more.
Load(w) ==
  /\ stage[w] = "started"
  /\ w \in knows
  /\ Goes(w, "hashing")
  /\ UNCHANGED <<artifactVars, recordVars, backendVars, audio>>

\* The backend or the store cannot be made: the job fails without evidence.
SetupFails(w) ==
  /\ stage[w] = "started"
  /\ w \in knows
  /\ Goes(w, "failing")
  /\ UNCHANGED <<artifactVars, recordVars, backendVars, audio>>

\* The call ends before it has changed anything: the revision is stale, queue
\* and record disagree, the request is cancelled, a file cannot be read.
Refuse(w) ==
  /\ stage[w] \in {"new", "enqueued", "claimed", "started"}
  /\ Answer(w, "refused")
  /\ UNCHANGED <<artifactVars, recordVars, backendVars, audio>>

-----------------------------------------------------------------------------
(* The backend.                                                            *)

DropResult(w) ==
  /\ digest' = [digest EXCEPT ![w] = 0]
  /\ heard' = [heard EXCEPT ![w] = 0]

\* The input is hashed for the provenance before the worker opens it.
Hash(w) ==
  /\ stage[w] = "hashing"
  /\ digest' = [digest EXCEPT ![w] = audio]
  /\ Goes(w, "hearing")
  /\ UNCHANGED <<artifactVars, recordVars, audio, heard>>

\* The worker answers with a whole or a partial transcript that decodes; which
\* of them it was is told by Written.
Hear(w) ==
  /\ stage[w] = "hearing"
  /\ heard' = [heard EXCEPT ![w] = audio]
  /\ Goes(w, "persisting")
  /\ UNCHANGED <<artifactVars, recordVars, audio, digest>>

\* The synthetic backend reads the file once.
Synthesize(w) ==
  /\ stage[w] = "hashing"
  /\ digest' = [digest EXCEPT ![w] = audio]
  /\ heard' = [heard EXCEPT ![w] = audio]
  /\ Goes(w, "persisting")
  /\ UNCHANGED <<artifactVars, recordVars, audio>>

Abandon(w) ==
  /\ Goes(w, "evidence")
  /\ DropResult(w)
  /\ UNCHANGED <<artifactVars, recordVars, audio>>

\* Python, the worker, its package or the model is not verified available, or
\* the input is no finalized file of its own.
Unavailable(w) == stage[w] = "hashing" /\ Abandon(w)

\* Defect: a worker that does not answer is waited for.
WorkerAwaited(w) == FALSE

\* The worker fails, writes too much, or is killed, at the timeout or because
\* the request is cancelled.
WorkerFails(w) == stage[w] = "hearing" /\ Abandon(w)

\* Its answer does not decode, or is not for this job.
AnswerRefused(w) == stage[w] = "hearing" /\ Abandon(w)

-----------------------------------------------------------------------------
(* Persisting the artifacts: the steps of TranscriptArtifacts.             *)

\* Defect: the audio is not compared with the provenance again.
SameAudioAssumed(w) == TRUE

SameAudio(w) == digest[w] = audio

Persist(w) ==
  /\ stage[w] = "persisting"
  /\ \/ SameAudio(w) /\ Reserve(w)
     \/ WritePartial(w) \/ WriteFails(w)
     \/ Written(w) \/ Rename(w) \/ RenameFails(w)
     \/ SyncDirectory(w) \/ SyncDirectoryFails(w)
  /\ UNCHANGED <<recordVars, backendVars, audio, stage, answer>>

\* Persist returns before it looks at the targets: another hash, a cancelled
\* request, a directory that cannot be used.
PersistRefused(w) ==
  /\ stage[w] = "persisting" /\ pc[w] = "new"
  /\ Abandon(w)

\* Defect: an uncertain persistence is taken for a completed one.
JudgeKindly(w) ==
  /\ stage[w] = "persisting" /\ pc[w] = "done"
  /\ IF outcome[w] \in {"completed", "uncertain"}
       THEN Goes(w, "completing") /\ UNCHANGED <<pc, next, backendVars>>
       ELSE /\ Goes(w, "evidence")
            /\ pc' = [pc EXCEPT ![w] = "new"]
            /\ next' = [next EXCEPT ![w] = 1]
            /\ DropResult(w)
  /\ UNCHANGED <<partial, final, exposed, outcome, recordVars, audio>>

\* A definite failure of the persistence fails the job: the result is dropped,
\* and PersistFailure is the second call of the store.
Judge(w) ==
  /\ stage[w] = "persisting" /\ pc[w] = "done"
  /\ \/ /\ outcome[w] = "completed"
        /\ Goes(w, "completing")
        /\ UNCHANGED <<pc, next, backendVars>>
     \/ /\ outcome[w] = "uncertain"
        /\ Answer(w, "uncertain")
        /\ UNCHANGED <<pc, next, backendVars>>
     \/ /\ outcome[w] \notin {"completed", "uncertain"}
        /\ Goes(w, "evidence")
        /\ pc' = [pc EXCEPT ![w] = "new"]
        /\ next' = [next EXCEPT ![w] = 1]
        /\ DropResult(w)
  /\ UNCHANGED <<partial, final, exposed, outcome, recordVars, audio>>

\* failExecution: whatever becomes of the evidence, the failure is recorded.
KeepEvidence(w) ==
  /\ stage[w] = "evidence"
  /\ \/ (PersistFailure(w) \/ WriteFailure(w)) /\ UNCHANGED <<stage, answer>>
     \/ pc[w] \in {"new", "done"} /\ Goes(w, "failing") /\ UNCHANGED artifactVars
  /\ UNCHANGED <<recordVars, backendVars, audio>>

-----------------------------------------------------------------------------
(* Recording the outcome.                                                  *)

Conclude(w, status) ==
  /\ \/ Matches(w, "running") /\ Record(w, status, Answer(w, status))
     \/ Answer(w, "uncertain") /\ UNCHANGED recordVars
  /\ UNCHANGED <<artifactVars, backendVars, audio>>

Complete(w) == stage[w] = "completing" /\ Conclude(w, "completed")

Fail(w) == stage[w] = "failing" /\ Conclude(w, "failed")

-----------------------------------------------------------------------------
(* The environment.                                                        *)

\* Any other operation that updates the session's record.
OtherUpdate ==
  /\ knows # {}
  /\ knows' = {}
  /\ UNCHANGED <<artifactVars, slot, queue, backendVars, audio, stage, answer>>

ReplaceAudio ==
  /\ audio < MaxAudio
  /\ audio' = audio + 1
  /\ UNCHANGED <<artifactVars, recordVars, backendVars, stage, answer>>

Die(who) ==
  /\ stage' = [w \in Writers |-> IF w \in who /\ Running(w) THEN "ended" ELSE stage[w]]
  /\ answer' = [w \in Writers |-> IF w \in who /\ Running(w) THEN "uncertain" ELSE answer[w]]
  /\ queue' = [w \in Writers |-> IF w \in who THEN "none" ELSE queue[w]]

\* A process is killed and started again, with an empty queue.
Restart(p) ==
  LET mine == {w \in Writers : Home[w] = p} IN
  /\ \E w \in mine : queue[w] # "none" \/ Running(w)
  /\ Die(mine)
  /\ pc' = [w \in Writers |-> IF w \in Busy \cap mine THEN "done" ELSE pc[w]]
  /\ outcome' = [w \in Writers |-> IF w \in Busy \cap mine THEN "cancelled" ELSE outcome[w]]
  /\ UNCHANGED <<partial, final, exposed, next, slot, knows, backendVars, audio>>

PowerLoss ==
  /\ LosePower
  /\ Die(Writers)
  /\ UNCHANGED <<slot, knows, backendVars, audio>>

\* What an execution does on its own; the worker's answer is not its own.
Advance(w) ==
  \/ Claim(w) \/ Start(w) \/ Load(w) \/ SetupFails(w) \/ (Running(w) /\ Refuse(w))
  \/ Hash(w) \/ Synthesize(w) \/ Unavailable(w) \/ WorkerFails(w)
  \/ Persist(w) \/ PersistRefused(w) \/ Judge(w) \/ KeepEvidence(w)
  \/ Complete(w) \/ Fail(w)

ExecNext ==
  \/ \E w \in Writers :
       Enqueue(w) \/ Refuse(w) \/ Hear(w) \/ AnswerRefused(w) \/ Advance(w)
  \/ OtherUpdate \/ ReplaceAudio \/ PowerLoss
  \/ \E p \in Processes : Restart(p)

\* The worker is killed at the timeout, at most a day; no other step waits for
\* anything but the short calls of its own process.
ExecSpec ==
  /\ ExecInit
  /\ [][ExecNext]_execVars
  /\ \A w \in Writers : WF_execVars(Advance(w))

-----------------------------------------------------------------------------
(* Properties.                                                             *)

\* Types of an execution, the queue, the record and the artifact directory.
ExecTypeOK ==
  /\ TypeOK
  /\ slot \in [job : Writers \cup {NoOne}, status : JobStates]
  /\ knows \subseteq Writers
  /\ queue \in [Writers -> JobStates]
  /\ audio \in 1 .. MaxAudio
  /\ stage \in [Writers -> RunStages]
  /\ digest \in [Writers -> 0 .. MaxAudio]
  /\ heard \in [Writers -> 0 .. MaxAudio]
  /\ answer \in [Writers -> Answers]

\* "Runtime is not completed before durable artifacts": a job that the record
\* shows, or its caller was told, as completed has all its documents, now and
\* after any loss of power; one shown as failed has none of the final ones.
OutcomeHonest ==
  \A w \in Writers :
    /\ slot = [job |-> w, status |-> "completed"] \/ answer[w] = "completed" =>
         /\ ReportedComplete(w)
         /\ \A d \in Documents : \A left \in exposed[d] : left.final = Whole(w)
    /\ slot = [job |-> w, status |-> "failed"] \/ answer[w] \in {"failed", "refused"} =>
         \A d \in Documents : final[d].by # w

\* A completed transcript is one of the audio its provenance names, although
\* hash, worker and store open the file one after the other.
TranscriptOfItsAudio ==
  \A w \in Writers : ReportedComplete(w) => heard[w] = digest[w]

\* In a session whose other segments need no attention, the record keeps two
\* processes from transcribing one segment at the same time.
OneExecution ==
  \A v, w \in Writers :
    stage[v] \in {"hashing", "hearing", "persisting"} /\
    stage[w] \in {"hashing", "hearing", "persisting"} => v = w

\* An execution never removes or replaces completed or partial evidence,
\* whatever it then answers.
EvidenceNeverDeleted ==
  [][LosePower \/
     \A d \in Documents :
       /\ final[d] # Absent => final'[d] = final[d]
       /\ partial[d] # Absent => partial'[d] = partial[d] \/ final'[d] = partial[d]]_execVars

\* Every execution that was accepted comes to an end, with an answer.
ExecutionEnds == \A w \in Writers : Running(w) ~> stage[w] = "ended"

=============================================================================
