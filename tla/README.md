# StudyPilot in TLA+

StudyPilot records study sessions, transcribes what was recorded and keeps
notes about it. It is one Go program, used from a command line or a local HTTP
server, over a workspace of ordinary files. Several processes may work on one
workspace, a process may be killed at any time, and the files outlive all of
them. This directory holds TLA+ modules translated from that code, TLC
configurations that check them on small instances, and proofs, for every value of
the constants, of every safety property the passing runs check: about
transcription (queue, use cases, execution), capture (recorder, use cases), the
runtime record, the path lock, migrations, study artifacts, the library of
courses, modules and sessions, and the choice of the workspace.

Paths below are relative to the repository; `internal/` packages are named
without the prefix.

1. [The system](#the-system)
2. [Plan](#plan)
3. [Modules and the code they model](#modules-and-the-code-they-model)
4. [Runs](#runs)
5. [Proofs](#proofs)
6. [Where code and documents disagree](#where-code-and-documents-disagree)
7. [What is not modelled](#what-is-not-modelled)

## The system

```
  cmd/studypilot    httpapi + frontend            (callers, any number of processes)
         \            /
        application (use cases)  --- transcription mutex, runtime-mutation mutex
        /     |      \        \
  capture  transcription  session  studyartifact
   /    \     |      \       |          |
 backend  (status  queue  job service  repository   store
 service  mapping)          |           |           |
   |                execution backend   +---- filesystem (mutation, plan, path lock)
 recorder               |                           |
   |              artifact store                platformfs (replace, sync directory)
   +--------------------+------------------------------------- files
```

Shared state is either in the memory of one process, behind a mutex (queue, job
service, capture instances, recordings), or in files that every process can
write (runtime record, segment directory, transcripts, notes, configuration).
Use cases couple the two: they change memory or start a recording first and
replace the runtime record afterwards, with a compare-and-swap on its revision.

| Component | State | Operations | Shared with | Hard part | Correct when |
|---|---|---|---|---|---|
| Transcription queue (`transcription/queue_memory.go`) | entries, idempotency records, last position | enqueue, claim, record started/partial/terminal, cancel, schedule retry, requeue | use cases, under its own mutex | long sequences of calls, repeated requests, retries beside newer jobs | entries stay valid; a key names one job; an attempt is handed out once; finished work stays finished |
| Retry policy (`transcription/retry.go`) | none | decide, delay | queue | overflow, off-by-one at the cap | delay is the exponential one cut at the maximum |
| Job service (`transcription/fake.go`) | jobs, last partial update | create, start, update partial, complete, fail, cancel | use cases | late calls, retry in place | every job valid, settled jobs stay |
| Transcription use cases (`application/transcription_integration.go`) | none of their own: queue + service + record | one per queue operation | capture and session use cases, through the record | one of three updates fails; restart; stale record | record may lag, never leads, loses nothing |
| Status model (`runtime/`) | snapshot | validate, transition, aggregate | everyone | the derived session status must itself take a permitted step | aggregate is derived |
| Session repository (`session/repository.go`) | runtime record with revision and hash | create, load, list, update runtime | every process | lost update, crash while replacing | compare-and-swap register |
| Managed-file mutation (`filesystem/update.go`) | path locks | apply | callers of one process | reference-counted lock, three comparisons, rename, sync | exclusion; never a torn file; honest answer |
| Transcript artifacts (`transcription/backend/artifact.go`) | four documents, partial and final | persist, persist failure, inspect | processes | crash among eight file operations | completed means complete |
| Recorder (`capture/backend/recorder.go`) | lock file, partial/final audio, manifest, recordings in memory | start, finalize, abort, recover | processes | crash among file operations, failed start, takeover | one recording at a time; finalized stays |
| Capture service and use cases (`capture/backend/service.go`, `application/capture.go`) | capture instances; "capture active" flag | start, pause, resume, stop, restore, shutdown | recorder, record | recorder acts before the record is updated | record and recorder agree or the difference is reported |
| Execution (`application/transcription_execution.go`, `transcription/backend/local.go`) | none of its own | execute | queue, service, record, artifact store, worker process | a pipeline of updates beside other writers; a worker that fails or is silent | what the caller and the record say holds of the files; evidence kept; one execution at a time; it ends |
| Session lifecycle (`application/session_lifecycle.go`) | creation lock | create, start, interrupt, recover, complete, abandon | repository, capture | crash in creation; repeated requests; capture still running | acknowledged sessions stay listed; no terminal session records |
| Study artifacts (`studyartifact/store.go`) | note, asset and transcript files, revisioned index | create and update notes, register assets, refresh, inspect | callers of one process; the user | file and index are two updates; edits underneath | acknowledged artifacts stay under their identity; every difference is shown |
| Migration (`migration/executor.go`) | document, backup, record, path lock | plan, apply | other writers of the document | kill between backup, replacement and record | exact backup before the replacement; honest answers |
| Creation plans (`filesystem/plan.go`, `execute.go`) | the tree of files | execute | every process | looked up, then created, without a lock | never replaces; reports are true |
| Courses and modules (`course/`, `application/course.go`, `module.go`) | directories with a metadata document | create, list | processes | scanned once, planned, executed later | creations are idempotent and keep what exists |
| Workspace setup, configuration (`application/setup.go`, `workspace/setup.go`, `config/config.go`) | active and configured root in memory, shared configuration file | start, inspect, initialise, select | processes, captures | switch beside a capture; interrupted initialisation; failed save | the workspace served exists; a selection lasts; no capture left behind |
| HTTP, CLI, schema | none | decode, call, render | | | |

The hazards this leads to, each at its line, are listed in `PROJECT.json` with
the properties that cover them, or a note where none does yet.

## Plan

In the order of importance; all of it is done unless said otherwise.

1. `RuntimeStatus` (vocabulary, transition tables, aggregate).
2. `MemoryQueue`, its proofs, and `RetryBackoff`.
3. `TranscriptionService` and `TranscriptionIntegration`, which instantiates
   queue and service and adds the durable record.
4. `RuntimeUpdate` with the abstract register `RevisionedRecord`, and
   `PathLock`, with their proofs.
5. `TranscriptArtifacts`, and `TranscriptionExecution`, which extends it to the
   pipeline of queue, record, backend process and artifact store.
6. `CaptureRecorder`.
7. `CaptureFlow`: the capture use cases and the backend service, over a
   recorder whose operations are single steps.
8. `PlanExecution`, the protocol of creation plans, and on it `Library`
   (courses, modules, sessions) and `WorkspaceSetup` (choosing the workspace).
9. `StudyArtifacts` (index and files), and `Migration`, which extends `PathLock`.
10. Not done: the recorder as an object whose only visible steps are those
    `CaptureFlow` takes, for `CaptureRecorder` to implement.

Runs: one passing run per component; as components are composed, the run of a
part is replaced by that of the composition (the job service by `integration`,
the artifact store by `execution`, the path lock by `migration`).

Theorems: the safety properties of all components, with the refinement of
`RevisionedRecord` by the update of the runtime record, and the saturation of
the retry delay (done).

## Modules and the code they model

Every definition that models code is mapped to its lines in `PROJECT.json`.
An operator preceded by `\* Defect:` is not part of a specification: it is a
plausible mistake in the definition that follows it, kept to show that the
properties notice it.

**RuntimeStatus.** The statuses and edges of `runtime/status.go`,
`runtime/transition.go` and `session/state.go`, and the session-level
transcription status derived from the segments' summaries.

**MemoryQueue.** One action per operation of `MemoryQueue` in
`queue_memory.go`; every operation runs under the queue's mutex, so each is one
atomic step, and a call the code refuses is not a step. `entries` is the map of
`QueueEntry` (what `Clone` hides is abstracted), `idempotency` the records by key,
`nextPosition` the counter. `now` is the clock callers pass, capped by
`MaxTime`. `claims` is a history variable. The delay of a retry is any value
between the policy's bounds, which is what `RetryBackoff` shows of the loop.

**RetryBackoff.** The loop of `boundedBackoff` as a recursive function and
the closed form it is meant to compute. Multipliers are whole numbers; `longest`
stands for the largest duration. It has no behaviour: that the two agree is the
assumption `BackoffChecked` of `MCMemoryQueue`, which TLC evaluates for ten
delays, four multipliers and attempts 1 to 6. That the delay stays between the
policy's bounds and never shrinks is proved for every attempt
(`BackoffSaturates`).

**TranscriptionService.** `FakeService` in `fake.go`, which is the service the
application is composed with: the operations as actions. It has no next-state
relation of its own: `TranscriptionIntegration` calls it as the use cases do.

**TranscriptionIntegration.** The use cases. Each holds the transcription mutex
throughout, so at most one is between its queue change and its record update;
`pending` is the record it is about to write. It is split there because capture
and session use cases (`OtherUpdate`, `FinalizeSegment`) do not take that mutex
and can move the record in between; then the update conflicts. Between service and queue
the code can be stopped by a cancelled context or a refusal: the second
disjunct of `Carry`. The revision number itself is abstracted to whether the
record has moved since it was read (`pending.stale`): a compare-and-swap can
tell no more. `Restart` empties queue and service and keeps the record.

**RevisionedRecord, RuntimeUpdate.** `UpdateRuntime` and `Apply` as a sequence
of steps: load, check, acquire the path lock, compare, write, sync, recheck,
rename, sync the directory, read back. `file` is what readers find, `exposed`
everything a loss of power may leave there: renamed but unconfirmed versions
stay possible until a directory sync. `Kill` ends one process, `LosePower` all.
`RevisionedRecord` is the register a user of the repository may rely on.

**PathLock.** `pathLockManager`: lock objects are created on demand and dropped
with the last reference; each has a one-place token channel.

**TranscriptArtifacts.** `Persist` file by file: four exclusive creations, four
renames with the job metadata last, one directory sync. `exposed` holds for each
document what a loss of power may leave of its two names, independently of the
other documents. What the two calls of the store are given, and who is killed
when, is in `TranscriptionExecution`.

**TranscriptionExecution.** `ExecuteTranscription` (`stage`): enqueue, claim and
start, each a change of the process's queue followed by an update of the record
(`Record`) that may be refused, fail, or happen unnoticed; then the backend
(`Hash`, `Hear`, or `Synthesize` for the built-in one, with its failures), the
steps of the artifact store, and the recorded outcome (`Complete`, `Fail`). An
execution knows the record's revision or does not (`knows`): other use cases
(`OtherUpdate`) take that knowledge away. `OtherFailed` says whether another segment
of the session has failed, because the record is guarded by the session-level
status. Updates of the record are single and durable here; `RuntimeUpdate` has
their steps. `Restart` ends one process, `PowerLoss` all.

**PlanExecution.** `Executor` over a `Plan`: each operation looks at its path
(`Look`) and creates it if it was absent (`Make`), with an exclusive link, so
that what appeared in between is judged like what was there before (`Judge`).
Nothing is synchronised (`unsynced`), so power takes back any of it
(`TakeBack`).

**Library.** Creating a course or module is one scan and the building of a plan
(`CreateCourse`, `CreateModule`), then its steps, then the report. Creating
a session takes the creation lock, scans again, numbers or recognises the
session (`Decide`) and executes its plan; `Fails` and `Die` end a call anywhere, and a dead
process leaves a `Stale` lock file that only a user removes. Callers are calls of any
processes: nothing but files is shared. Names are kept with their slug
(`SlugOf`), contents of documents as identity, number and name.

**StudyArtifacts.** The store of one module and its sessions: `files` with what
they prove, the `index` and its revision. A mutation loads the index (`Begin`), writes its
file (`CreateNotes`, `RegisterAsset`, `UpdateSessionNotes`; `Refresh` writes none),
compares the revision and replaces the index, in that order. `Edit`, `Remove`,
`Damage` and `Transcribe` are the user, a damaged runtime record and a completed
transcription. `Discover` and `Issues` are discovery and inspection, per path.

**Migration.** `Plan` reads the document, `Apply` creates and fills the backup
(`CreateBackup`, `FillBackup`), looks again, takes the path lock, compares, renames,
synchronises, reads back and writes the record. `Edit` is any writer that does not
take this lock. The history `planned` remembers which document the last replacement
of a call was planned from, `overtaken` which calls had theirs edited after they
compared it for the last time: those replace the edit. Versions are
numbers up to `Current`; a document says one of `Texts` besides.

**WorkspaceSetup.** The setup calls of servers (`Initialize`, `Create`, `Created`,
`Verify`, `ReplaceConfig`, `SyncConfig`, `Install`) and of commands (`InitCommand`),
the start of a server (`Start`) from its command line or the shared configuration
file, and the captures that begin and end meanwhile. A request reads the root that
is served (`AskCapture`); starting a capture starts the recorder (`CaptureStarts`)
and sets the flag that `HasActiveCapture` reads (`SetCaptureActive`,
`captureActive`) in two steps, restoring or resuming one sets none
(`CaptureRestored`), and the flag is cleared when a capture stops (`CaptureEnds`) or
a stopped one is stopped again (`StopStopped`). The history `flagged` holds the
processes whose capture got its flag while no setup call was under way. `Contract`
stands for the directories and files of the vaults; a root is blank, initialized or
conflicting by what its tree holds.

**CaptureRecorder.** `StartSegment`, `FinalizeSegment`, `AbortSegment` and
`RecoverSegment`, each a sequence of file operations on audio, manifest and lock of
one session's directory; `pc` is where a call is and `work` what it is about.
`active` is the recorder's table, lost with its process. A start looks for the files of
its number (`Look`) before it takes the lock and does not look again; a recovery
reads lock and audio (`RecoverSegment`) and enters the recording in the table in a later
step (`Recovered`), and nothing asks whether somebody has it. The
histories `late` and `retaken` (together `overlaps`) record where that makes a
difference: numbers whose start overlooked files, and segments recovered while a
table or a call still had them. As above `exposed` is
what a loss of power may leave; in addition the bytes of a file that was not
synced may be incomplete although its name is durable. The service identifies
captures; here a segment's identity stands for both.

**CaptureFlow.** `StartCapture`, `PauseCapture`, `ResumeCapture` and `StopCapture`
of one session. A call reads the record (`Begin`), restores the capture instance if
its process has none (`RestoreIdle`; `RecoverSegment`, `Recovered` and
`RestoreRecording` for a capture that was recording), has the service act (`Start`
and `Started`, `Resume`, `Pause`, `Stop`, or `BackendFails`, `StopAgain`, `Refuse`)
and replaces the record (`Persist`, or `PersistUncertain` when the mapping, the
comparison or the write fails and the caller is told that the record may not show
what was done). It is split where the code holds no lock: between the read and the
service, between the recorder and the instance in `Start`, three times within
`Restore`, and before the update. `record` is the durable record with the statuses,
segments and transcriptions that its validation relates, `storage` and `owner` what
the Segments directory holds, `live` the recorder's tables, `instances` the
services', `flag` `captureActiveBySession`. The recorder's operations are single
steps with the results `CaptureRecorder` shows them to have, short of a loss of
power, but for the recovery, which is split where it reads and where it enters. The
history `retaken` holds the numbers entered when the recording was over or another
process had it (`Overdue`). `Abort` replaces whatever manifest its number has by a
failed one, unless that cannot be written. An abort in the middle of a finalization
of the same segment is left to `CaptureRecorder`. Session use cases
(`TransitionSession`, with `Adjusted` for the start of a session) and transcription
(`Transcribe`) move the record in between; `Close` and `Abort` shut a process down,
`Kill` ends it. `Issues(p)` is what `InspectCapture` answers in process `p`, code by
code.

## Runs

Distinct states are approximate and given to show that the runs are not vacuous.
All but `library` and `study_artifacts` set `CHECK_DEADLOCK FALSE`: identities,
revisions or calls are used up, backups exist already, or every caller has finished,
and the system may stop. In those two, callers and users can always come again, and
they are checked for deadlock.

| Run | Instance | What it shows |
|---|---|---|
| `queue` | 2 jobs, 1 source, 1 key, limits {1,2}, 3 failures, 2 policies, clock to 1 | entries valid, first attempts not overtaken, one claim per attempt, finished entries stay; the backoff loop equals its closed form |
| `integration` | 2 jobs, 2 segments, 1 model, 1 key, 1 failure, limit 2 (1.3 million states) | jobs and partial updates valid; service and queue agree except where a use case was cut and said so; the record is faithful: it agrees, or lags after an uncertain update, never leads, and its aggregate is derived; no update lost; active work is shown |
| `segments_independent` | as `integration` | violation: one segment's step is refused because of another |
| `runtime_update` | 2 callers in one process, revisions to 4 | refinement of `RevisionedRecord`; one winner per revision; no torn record and honest answers |
| `execution` | 2 executions of a segment in 2 processes, the audio replaced once | what is shown or answered as completed is complete for good, what failed has no final document; a transcript is of the audio it names; one execution at a time; evidence is kept; every execution ends |
| `evidence_overwritten` | as `execution`, another segment failed | violation: completed documents of one execution replaced by the other |
| `capture_recorder` | 2 callers in 2 processes, 2 segments, 1 number, synthetic engine (0.2 million states) | one owned recording at a time, unless one is taken over that somebody has; final audio stays, unless a start overlooked it; honest manifests, and what was reported finalized is durable, as long as no start or recovery crosses another call |
| `capture_flow` | 2 callers, 1 process that is shut down, killed and started again, 2 segments (2.1 million states, up to the symmetry of the callers) | a stopped segment of the record is finalized, and only a late recovery can cost it its manifest; a recording that goes on is shown by the record, or a call about it is under way, or a caller was told; with no call under way, inspection reports every difference of record and recorder, but for what a failed finalization or a late recovery hides |
| `library` | 2 callers, 2 courses of one slug, 2 modules of one number, 1 title, 1 key, 1 repeated session, 3 calls, 1 loss of power | reports are true; nothing existing is replaced or removed; acknowledged sessions stay listed and sound |
| `study_artifacts` | 2 callers of one process, a module with one session, 2 identities, revisions to 3, 2 interferences | acknowledged artifacts stay indexed under their identity; inspection reports exactly the differences; identities are kept |
| `migration` | 2 callers, 2 texts, versions to 2, 1 lock object (0.27 million states) | exclusion; an exact backup of what is replaced, unless it was edited after the last comparison; honest answers; waiters are served |
| `setup` | a server and a command, 2 roots, one of them a workspace of one document, 1 mishap (1.5 million states) | the workspace served exists; a selection lasts; a capture that was flagged before a setup call is not left behind |

The type invariants the runs do not list (`TypeOK` of the queue, the
recorder, the capture flow, the library and the study artifacts, `UpdateTypeOK`, `SetupTypeOK`)
hold in the same instances; add them to the configuration when a module is
changed.

**Bounds.** `MaxTime`, `MaxRevision`, `MaxConcurrent`, `MaxCalls`, `MaxLosses`,
`MaxAudio`, `MaxIssued`, `MaxChanges` and `MaxMishaps` are the only bounds in
guards; the others are the sizes of constant sets. The queue relates at most two
entries in any of its properties, and two jobs with a limit of two attempts reach
every combination of statuses in which one is retried beside the other; the theorems
remove the bound, here as for all runs. Two segments are needed for the aggregate to
be *partial*; a second key only adds jobs that do not meet, and a second model only
jobs that share the record's place for the segment, which the theorems cover. Two
callers of one process suffice for a race on one revision, and the theorems cover
any number in any processes. One lock object suffices for two callers that wait
while it is dropped and made again; the theorems cover any number. Two contents of
the audio file are what a replacement between hash and worker needs. Three calls of
the library let one repeat a request after another was cut short while a third runs
beside them. Two interferences with study artifacts give one that damages and one
that repairs.

`capture_recorder` has two processes, so that a recovery can take a recording from a
living one, and two segments of one number, so that a start can overlook what
another finalizes. A call touches only the files of its number, and the one lock,
which a second number would contend for just as a second segment does; that is
in the theorems. No start or recovery is held back: a start
that is held up for the whole length of another recording does replace its audio,
and a recovery that is held up does bring back a finished recording. The
properties say what holds up to the first such crossing (`Apart`), and what holds
beyond it (`RecordingOwned` and the audio in `FinalKept`).

`capture_flow` has one process with two callers, enough for two recoveries of one
recording of which the later enters it after the other was finalized, and two
segments, the least with which one can be transcribed while the next is recorded.
The theorems cover any callers, processes and segments, and with them a
recovery that takes over a recording whose process is alive. `DifferenceShown`
excepts the process in which a finalization failed or a recovery came too late
(`Ghost`): its instance still calls the segment recording, and inspection there takes
the instance's word.

`study_artifacts` has one process: its mutex is what keeps two mutations apart.
`docs/study-artifacts.md` says that locking between processes is not
implemented; without the mutex (`BeginAtOnce`) an acknowledged artifact is
dropped from the index.

**Fairness.** `migration` checks that waiters of the path lock get in: a
call that has the lock goes on and releases it, because the release is deferred
and the steps in between are file operations (`WF` of `Advance`), and a waiter
that keeps waiting is served, because goroutines blocked on a Go channel are
queued first in, first out (`SF` of `Lock`). `execution` checks that executions
end: the worker is killed at its timeout, at most a day (`WorkerFails` is part
of `Advance`; an answer is not), and every other step is a short call of the
process itself. No other run assumes fairness: kills, refusals and cancelled
contexts may end anything.

## Proofs

All are checked by TLAPS. They rest on the named assumptions on the constants;
where a theorem needs more, its statement says so (`ASSUME`), and below is why.

`MemoryQueue_proofs`, for every set of jobs, segments, models and keys, every
limit and policy and an unbounded clock:

* `TypeCorrect`: the type invariant is inductive as it stands. All operations
  but `Enqueue` have one shape, `Rewritten(id, f)`: one entry is replaced by one
  of the same identity. The lemmas `ClaimRewrites` to `RequeueRewrites` establish
  the shape once, and `RewriteShape` says what follows from it.
* `EntriesStayValid`, `FirstAttemptsNotOvertaken`, `AttemptsClaimedOnce` and
  `NamesUnique` (`KeyNamesOneJob`, `PositionsUnique`). The conjunction of all of
  them with `TypeOK` is
  `QueueInvariant`, and it is the conjunction that is inductive: `Enqueue`
  preserves `NoOvertakenFirstAttempt` only because positions are unique and
  bounded by the counter (the new entry is the last of its source), and
  `ScheduleRetry` preserves `EntriesValid` only because a valid terminal entry
  that may be retried has failed.
* `FinishedWorkStays` and `HistoryKept`: the two action properties, from the
  same invariant.
* `BackoffSaturates`, of the loop in `RetryBackoff`: at every attempt, however
  high, the delay is one the queue assumes of a retry, and never shorter than at the
  attempt before. The loop is a recursive function on the attempts;
  `DelaysExist` gives the function its equation, and the induction is by the
  least attempt at which the claim fails. Its hypotheses are what
  `RetryPolicy.Validate` asks, and a whole-number multiplier.

`TranscriptionIntegration_proofs`, for any jobs, segments, models, keys, limits,
policies and failures. What was proved of the queue is not proved again: the
lemmas of `MemoryQueue_proofs` are used through an instance of it. Every use case
is shown to be `Begun` (queue and service have moved, the record is about to be
written) or `Cut` (stopped between the two), and the rest argues about these two
shapes and the steps of the record.

* `IntegrationTypeCorrect` and `QueueGuaranteesKept`, from `Parts`: the queue's
  invariant, the service's and the type of the record.
* `ServiceAndQueueStayInStep`: a job on which service and queue differ was cut.
* `RecordStaysFaithful`: the record agrees with the queue, or lags after an
  uncertain update, and never leads. This is not inductive: a record that agrees
  stays so only if what is about to be written (`PendingCurrent`) is the job as
  the queue has it and everything else as the record had it, and only if a job
  is summarised nowhere but in its segment (`ShownAtHome`). `SummariesReached`
  says "never leads" by what the queue's moves can reach.
* `UpdatesKept`: no write undoes what another writer did since it read.
* `WaitingWorkShown`: work that waits is shown. The invariant follows the
  exceptions: who may hide whom (`MayHide`), also in the write that is on its way
  (`WriteMayHide`).

The last part of `TranscriptionIntegration_proofs` is about `RuntimeUpdate`, the
update of the record that the use cases take for one step, for every set of
callers and processes and every bound on the revisions:

* `RecordWhole` and `AnswersHonest`, whatever processes the callers run in: no
  reader, not even after a loss of power, finds an incomplete record, and an
  answer neither denies an update that was installed nor claims one that was
  not. The invariant adds to the two what each stage of an update has already
  done (`Answering`) and that a file is synced before it is renamed
  (`SyncedBeforeRename`).
* `OneWinnerWithinProcess` and `ImplementsRegister`, for callers of one process
  (`SameProcess`), who share the path lock: of the updates of a revision at most
  one succeeds, and the module implements `RevisionedRecord`. The invariant here
  is about the lock: who is between comparison and rename holds it
  (`LockHeld`), nobody else moves the file meanwhile (`FileHeld`), and what a
  loss of power may bring back is not ahead of the file and no older than what
  was confirmed (`ExposedBehind`, `DurableChain`). Without `SameProcess`
  neither holds, since the lock is in memory.

`TranscriptionExecution_proofs`, for any executions in any processes, kills,
losses of power and replacements of the audio.

* `ExecTypeCorrect` and `TranscriptsOfTheirAudio` need no exclusion: the audio
  only moves on, so a hash that is still the file's when the store looks again
  was the hash while the worker listened (`ReadInOrder`), and what an execution
  writes is of the audio it names (`WrittenOfItsAudio`).
* `OneExecutionAtATime`, `OutcomesHonest` and `EvidenceKept` assume `~OtherFailed`.
  Nothing but the transition table of the record excludes a second execution: while
  one works the session is *transcribing*, from which there is no edge to *queued*.
  With another segment failed the session stays *failed* throughout and excludes
  nobody; the run `evidence_overwritten` is a counterexample to `EvidenceKept`
  without the assumption. The invariant says that the record names whoever works
  (`RecordNamesIt`), that an execution recorded or answered with an outcome has
  ended (`EndedFirst`), which documents each stage has made and synced
  (`DocumentsInOrder`), that what is recorded or answered as completed is durable
  (`CompletedDurable`), and that a failure has left no final document
  (`FailureWithoutFinal`).

`CaptureRecorder_proofs`, for any callers, processes, segments and numbers, failures of
any file operation, kills and losses of power. The invariant has three layers, each
under the condition the code leaves it.

* `RecorderTypeCorrect`, and that calls which cross do not cost a segment its final
  audio: types, and that a number has partial or final audio but not both unless a
  start overlooked its files (`General`). This holds however calls cross.
* `RecordingsOwned`: whoever works on a segment holds the lock and nothing is
  recorded meanwhile (`LockHeld`), and what is recorded is what the lock names
  (`Owned`), as long as nobody takes over a recording that somebody has.
* `FinalAudioKept` (its part about manifests), `ManifestsHonest` and
  `FinalizedForGood`, as long as calls keep apart (`Apart`): a lock of a recorded
  segment is durable and the files of its number are that segment's in every state
  a loss of power may leave (`RecordedFiles`), and each stage has found or done what
  its name says (`Progress`). Every step but those that finish a recording is shown
  to have one of two shapes: it leaves the files as they are (`QuietStep`), or there
  is no final audio before it (`OpenStep`).
* `ManifestsHonest` and `FinalizedForGood` assume `Engine = "synthetic"`,
  whose audio is synced by the writer; for an external recorder they are false
  (see the next section). They add that bytes are synced before they get
  their final name, and the name is durable before the manifest (`BytesSynced`).

`CaptureFlow_proofs`, for any callers, processes and segments, with failed
updates and recordings, other writers, late recoveries, shutdowns and kills at any step.

* `StoppedSegmentsAreFinal`, from `FlowInvariant`. The record
  shows at most its last segment as recording (`RecordShape`); what it shows as
  stopped is final, or has lost its manifest to a late recovery (`Sealed`), and the
  directory holds at most one segment more than the record (`StorageShape`). What a
  recorder has in its table is being recorded, and by it alone, or was retaken
  (`EntryShape`). A call has read a record that others may have moved
  since, so what it knows is stated twice (`CallSound`): what it read is there as
  long as it is current (`ReadCurrent`), and a recording it read of goes on in
  the record until its audio is final (`ReadStands`), which is also all a
  recovery knows of what it will enter (`Retaking`). What it is about to enter
  as stopped is sealed first (`FinalFirst`).
* `RecordingIsKnown` adds that for each recording there is the record, the call that
  began it and has not returned, or a caller who was told (`LiveAccounted`).
* `DifferencesAreShown` follows from `FlowInvariant`: a difference that none of the
  codes reports leaves only an instance whose recording is over.

The path lock, for every finite set of callers and any set of lock objects, is the
first part of `Migration_proofs`:

* `Exclusion`: two callers never hold the lock at once. Exclusion alone is not
  inductive: it needs that all who are registered share the object the map names
  (`Shared`), that the reference count is the number of those registered
  (`RefsCount`), so that the object is dropped only when nobody is, and that its token
  is not in the channel while somebody is inside (`TokenOrInside`).
* `ReferencesCounted`: no lock object stays without a user, from the same
  invariant.

The rest of `Migration_proofs` is for any finite set of callers, any texts and any
number of versions, under kills, losses of power and edits at any step.

* `MigrationsExclude` takes over the invariant of the lock: a step of
  a migration is a step of the lock, leaves it alone, or ends the process, and
  then the lock's state is again an initial one. `ReplacementsExclude` follows:
  two calls are never both between comparison and rename.
* `BackupsExact` and `MigrationAnswersHonest`. That what a call is about to replace
  is what it planned from, unless it was edited, needs the lock (`Compared`): no
  other migration renames between comparison and rename. Backups and records are
  prepared outside of it, and what keeps one call from tearing the other's copy is
  that the files are created exclusively: `OneWriter` says that one call at a time
  writes the copy of a text, `CopiesMade` that a call past the backup has a complete
  one and that an unfinished record is one's own. What a call replaced keeps its
  copy (`PlanBacked`). `AnswerHonest` asks that the record exists and is not
  inductive: a record that exists may be torn, so `Sealed` says that it is complete.
  `Landing` ties the stages of a call to what it has replaced.
* `MigrationTypeCorrect`, from `Bases` (a call under way has planned from some
  content and not answered) and the type of the lock.

`StudyArtifacts_proofs`, for any callers of one process, any sessions, and any
number of mutations, revisions and interferences. `StudyTypeCorrect` (with it: every
installed index is valid), `AcknowledgedArtifactsStay`, `ArtifactIdentitiesKept`
and `InspectionExact` follow from one invariant. Its core is that the mutex makes
the index a call has loaded the one it will replace (`CallCurrent`), that what
others do meanwhile can only take evidence away (`SoundEvident`), and that the
index a call is about to install therefore keeps every identity and all that is
still owed (`NextKeeps`).

`PlanExecution_proofs` is about the two components that execute creation plans.
The first part is about `Library`, for any callers, names, titles, repeated
metadata, calls and losses of power. `LibraryAssumption` says that generated
identities, those of keys and those given from outside are different, as random
ones are.

* `ReportsAreHonest` and `CreationsKeepWhatExists`: whatever a plan is for, its
  operations create documents in the vault (`OperationsSound`), and what a call
  has reported holds (`ReportsHold`) because a step only adds to the tree or
  writes the next revision of a runtime record (`TreeKept`).
* `AcknowledgedSessionsListed`: a session stays listed only if no second one takes
  its number or identity (`RecordsDistinct`). What excludes that is the creation
  lock: the call that holds it has scanned under it, so its metadata is new to
  what is there (`Fresh`) and stays so, because nobody else adds metadata
  meanwhile; the lock of a dead process is removed when it adds no more. A new number
  exists because the numbers in use are bounded (`RecordsBounded`); the
  directory a document is created in stays (`AbsentKept`); metadata and record of an
  acknowledged session are there (`MadeThere`).

The second part is about `WorkspaceSetup`, for any roots, servers, commands and
contract, and any number of mishaps. Three invariants share what a call under way
knows (`Calls`):

* `SelectionsDurable`: the file holds what its last writer chose, and once that
  writer has synced, no older file comes back (`FileOfWriter`).
* `LiveCapturesKept`: a capture whose flag was set before the call bars calls to
  another root (`CallKeepsCapture`). The code asks no more than the flag, so captures
  without one are not in the theorem.
* `ServedWorkspacesExist`: what is about to be served was verified, and only a loss
  of power takes it away, which no process survives (`VerifiedExists`).

Model-checked only: liveness (`WaitersServed`, `ExecutionEnds`), which the installed
provers do not reach, and that the loop of `boundedBackoff` equals its closed form,
whose exponentiation they have no axioms for.

## Where code and documents disagree

Two are runs that TLC ends with a counterexample; `PROJECT.json` quotes the
lines.

* `segments_independent`: the repository checks the transition of the derived
  session status, whose table has no edge for steps a second segment makes legal
  (`docs/transcription-runtime.md:15-16`).
* `evidence_overwritten`: `Persist` looks its targets up (`artifact.go:140-155`) and
  later renames over them (`artifact.go:194-199`); with another segment failed,
  the session-level status keeps no second process out, and completed evidence is
  replaced (`docs/transcription-backend.md:100-101`).

These are stated in the modules and do not hold; each is seen by putting it in
place of the properties of the named configuration.

* `OneActivePerSource` (`MCMemoryQueue`): `ScheduleRetry` looks only at the entry
  it retries (`queue_memory.go:256`), so two active entries of one source can exist
  (`docs/transcription-queue.md:37-38`).
* `FinalizedDurable` (`MCCaptureRecorder` with `Engine = "process"`): nobody syncs
  the audio of an external recorder (`linux.go:201`,
  `docs/recording-backend.md:132`).
* `SegmentFits` (`MCCaptureFlow`): pausing or stopping a second segment after the
  first was transcribed completely finalizes its audio and is then refused,
  because the mapping keeps the aggregate and the validation wants the derived
  one (`capture/transition.go:212`, `docs/transcription-runtime.md:15-16`).
* `FlagCoversRecording` (`MCCaptureFlow`): only `StartCapture` sets the flag that
  `HasActiveCapture` reads (`application/capture.go:80`); a capture restored after a
  restart, or resumed, does not (`capture.go:131`; comment at lines 209-210). Setup then
  switches the workspace beside it (`setup.go:162`), although
  `docs/windows-setup.md:53` and the main `README.md:81` say that switching is rejected.
* `ModuleNumbersUnique` (`MCLibrary`): two concurrent creations of modules with
  one number both find it free in their scan, because nothing is locked; comment at
  `application/module.go:22-24`.

Met while modelling, transcription and capture:

* an idempotent replay can map a finished job over the active one of its segment,
  and a job of a second model takes the one place the record has for a segment
  (`ActiveJobShown` states what is left of the promise; the run has one model, the
  theorem any number);
* any other update of the record while the backend runs makes `Complete` and
  `Fail` uncertain, and the record stays *transcribing*; so does a crash then, and
  since transcribing → queued is no edge, that session queues nothing again;
* a claim, start or load that is refused leaves an active queue job that keeps
  its source until the process ends;
* a segment that is transcribed again after completion is recorded as failed
  though its artifacts are complete; the job metadata a failed execution leaves
  as evidence makes every retry conflict (`transcription_execution.go:186`);
* the partial output of a worker that exits with an error is dropped by the runner
  (`process.go:65`), so the code that would keep it (`local.go:127-135`) does not run
  in production;
* two concurrent calls after a restart can both restore the capture
  (`service.go:113`): no mutex is held from the look at the instances over that at
  the lock (`recorder.go:43-57`) to the two insertions. The later one can overwrite an
  instance that already moved on, and a recording that is in the recorder but in no
  instance is not reached by `Shutdown`;
* if the first of the two finalizes before the second inserts, the finished segment is
  back in the recorder's table and in an instance that calls it recording. While the
  record says *paused*, inspection reports the mismatch and neither resume nor stop
  gets past the instance until the process restarts; if the record's update was uncertain
  and it still says *recording*, inspection takes the instance's word and shows
  nothing (`Ghost`). Aborting
  it at shutdown then writes a failed manifest over the one that finalizes it
  (`recorder.go:374-376`; "Never overwrite a finalized segment", line 181). The
  audio stays, which is what is proved (`StoppedIsFinal`, `FinalKept`). Likewise
  when a process takes a recording over from one that is alive;
* a start that is held up between its look for the files of its number and its lock
  (`recorder.go:183`) for the length of another recording of that number replaces
  the final audio when it finalizes (exempted in `FinalKept` by `late`);
* `ResumeCapture` does not look at the session's status: resuming a paused
  capture of a completed session starts a recording that the record then
  refuses, which is reported as uncertain;
* the capture service drops the recorder's durability warning
  (`service.go:267`).

Met while modelling, files and workspace:

* a migration's backup that exists already makes every retry of it fail, and a
  loss of power may leave the replaced document without backup or record, whose
  directories are not synced; executor and session repository build path-lock
  managers of their own (`migration/executor.go:47`, `session/repository.go:55`), so a
  record update between the last comparison and the rename (`executor.go:107`,
  `update.go:243-246`) is lost and is not in the backup (exempted in `BackupExact`
  by `overtaken`, and only there);
* a note whose front matter was broken is dropped by `Refresh` and unreachable until a
  second refresh after its repair; creating a note whose record is indexed but
  whose file is gone ends uncertain; a refresh while a session is unhealthy drops
  its records, and a transcript comes back under a new identity; an asset whose
  name is not stable under shortening makes every later refresh fail;
* besides captures without a flag, one that is flagged while a setup call runs, or with
  the root of before, is left in the old workspace, and so is one whose flag a late
  stop of the capture before it has cleared (`LiveCaptureNotLeft` says which); roots
  that differ in case only skip the check everywhere (`setup.go:162`);
* an initialisation that was cut short, or a document of the vault the user has
  edited, makes the root conflicting: setup refuses it, and only
  `studypilot init --root` completes it;
* a configuration save that fails after the replacement leaves the new file with
  the old active root until the next start; several processes share the file and the
  last writer wins; the parent of a configuration directory that a save has just made
  is not synchronised, so a loss of power may take the directory with the file
  (`SelectionDurable` takes the directory to be durable).

## What is not modelled

* *HTTP, browser interface, command line, schema documents*: requests are
  decoded, handed to one use case and rendered; there is no state between
  requests to model. `application/gui.go` composes reads.
* *Windows*: replacement and directory synchronisation are modelled as on other
  systems.
* *Study artifacts in several processes*, and a malformed index: see *Bounds*.
* *Data*: transcript text, provenance, WAV parsing, formats, titles, error
  wording and timestamps other than the retry clock. No property is about them.
* *Status fields nobody moves*: filesystem and publication statuses are kept by
  all use cases modelled here.
* *Path authority*: the checks that keep a path inside the workspace are checks
  on strings, without a protocol.
* *Floating point*: `boundedBackoff` multiplies `float64`; rounding of delays
  beyond 2^53 nanoseconds and fractional multipliers are outside the model.
* *The external processes*: the recorder program and the transcription worker
  appear as the outcomes the code handles.
* *Pure reads*: list, snapshot and inspect operations, but for what a property
  says of them (`ReportedComplete`).
