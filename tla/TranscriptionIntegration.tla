---------------------- MODULE TranscriptionIntegration ----------------------
(***************************************************************************)
(* The application's transcription use cases: each couples the queue, the  *)
(* job service and the session's durable runtime record.  A use case holds *)
(* the application's transcription mutex; it first changes the service and *)
(* the queue (begin) and then replaces the record it read with a modified  *)
(* copy (persist).  Capture and session use cases do not take that mutex:  *)
(* they may move the record in between.  A cancelled context can stop a    *)
(* use case between the service and the queue.                             *)
(*                                                                         *)
(* The revision counter is abstracted to what a compare-and-swap can tell: *)
(* whether the record has moved since the use case read it.                *)
(*                                                                         *)
(* Source: internal/application/transcription_integration.go,              *)
(* internal/transcription/runtime_mapping.go.                              *)
(***************************************************************************)
EXTENDS RuntimeStatus, FiniteSets

CONSTANTS
  JobIds, Segments, Models, Available, Keys, NoKey, AttemptLimits, Errors,
  NoError, Policies,
  Sequences, Offsets,
  NoWrite   \* no use case is between its queue change and its record update

\* What the queue assumes, and what the service does of partial updates.
ASSUME IntegrationAssumption ==
  /\ NoKey \notin Keys
  /\ AttemptLimits \subseteq Nat \ {0}
  /\ NoError \notin Errors
  /\ \A e \in Errors : e.recoverable \in BOOLEAN
  /\ Policies \subseteq [maxAttempts : Nat \ {0}, initialDelay : Nat, maxDelay : Nat]
  /\ \A p \in Policies : p.initialDelay <= p.maxDelay
  /\ Available \subseteq Models
  /\ Sequences \subseteq Nat
  /\ Offsets \subseteq Nat

\* The runtime's summary of a job, and a record that is about to be written.
Slot == [id : JobIds, queue : QueueStatuses, job : JobStatuses,
         attempt : Nat \ {0}, err : {"none"} \cup {e.code : e \in Errors}]

Writes == [job : JobIds, finalized : SUBSET Segments,
           slots : UNION {[D -> Slot] : D \in SUBSET Segments},
           aggregate : TranscriptionStatuses, stale : BOOLEAN]

ASSUME NoWriteAssumption == NoWrite \notin Writes

VARIABLES
  entries, idempotency, nextPosition, now, claims,   \* the queue
  jobs, partials,                                    \* the job service
  finalized,   \* record: the stopped capture segments
  slots,       \* record: segment -> summary of its current job
  aggregate,   \* record: session-level transcription status
  pending,     \* the record a use case is about to write, or NoWrite
  torn,        \* history: jobs whose service and queue were left apart
  unsaved      \* history: jobs whose last record update reported failure

queueVars == <<entries, idempotency, nextPosition, now, claims>>
serviceVars == <<jobs, partials>>
recordVars == <<finalized, slots, aggregate>>
vars == <<queueVars, serviceVars, recordVars, pending, torn, unsaved>>

\* Retry delays are not of interest here: the clock stands still and the
\* policies retry at once.
Queue == INSTANCE MemoryQueue WITH MaxTime <- 0
Service == INSTANCE TranscriptionService

Idle == pending = NoWrite

-----------------------------------------------------------------------------
(* Runtime mapping.                                                        *)

ErrorCode(err) == IF err = NoError THEN "none" ELSE err.code

\* runtimeState: the summary of an entry.
SlotOf(id, e) ==
  [id |-> id, queue |-> e.queue, job |-> e.job, attempt |-> e.attempt,
   err |-> ErrorCode(e.err)]

\* Defect: a partial job is summarised as completed.
JobSlotAhead(slot, job) ==
  [slot EXCEPT !.job = IF job.status = "partial" THEN "completed" ELSE job.status,
               !.err = ErrorCode(job.err),
               !.queue = IF job.status \in TerminalJobStatuses THEN "terminal" ELSE @]

\* applyJob: the job's result over the summary already there.
JobSlot(slot, job) ==
  [slot EXCEPT !.job = job.status, !.err = ErrorCode(job.err),
               !.queue = CASE job.status \in {"completed", "failed"} -> "terminal"
                           [] job.status = "cancelled" -> "cancelled"
                           [] OTHER -> @]

\* The modified copy of the record that was read, with the aggregate derived
\* again.
Mapped(id, s, slot) ==
  LET next == Extend(slots, s, slot) IN
  [job |-> id, finalized |-> finalized, slots |-> next,
   aggregate |-> AggregateTranscriptionStatus(finalized, next), stale |-> FALSE]

Begin(id, s, slot) == pending' = Mapped(id, s, slot)

ShownIn(id) == {s \in DOMAIN slots : slots[s].id = id}

\* ensureRuntimeMatches
RuntimeMatches(id) ==
  \E s \in ShownIn(id) :
    /\ entries[id].segment = s
    /\ slots[s].queue = entries[id].queue
    /\ slots[s].job = entries[id].job
    /\ slots[s].attempt = entries[id].attempt

\* A mutation of an existing job: the mutex is free, the revision the caller
\* expects is current, the queue knows the job and the record agrees with it.
Ready(id) == Idle /\ id \in DOMAIN entries /\ RuntimeMatches(id)

-----------------------------------------------------------------------------
Init ==
  /\ Queue!Init
  /\ Service!Init
  /\ finalized = {}
  /\ slots = [s \in {} |-> NoWrite]
  /\ aggregate = "not_started"
  /\ pending = NoWrite
  /\ torn = {}
  /\ unsaved = {}

\* Generated identities are fresh: neither the queue nor the record has one.
Fresh(id) == id \notin DOMAIN entries /\ ShownIn(id) = {}

\* The queue takes the request; then the service creates the job and the
\* record update begins, or CreateJob fails and the outcome is uncertain.
EnqueueTranscription(id, r) ==
  /\ Idle
  /\ r.segment \in finalized
  /\ Fresh(id)
  /\ Queue!Enqueue(id, r)
  /\ \/ /\ Service!CreateJob(id, r.segment, r.model)
        /\ Begin(id, r.segment, SlotOf(id, entries'[id]))
        /\ UNCHANGED torn
     \/ /\ torn' = torn \cup {id}
        /\ UNCHANGED <<serviceVars, pending>>
  /\ UNCHANGED <<recordVars, unsaved>>

\* An equivalent request under a used key: the queue returns the entry the
\* key names, as it is by now, and that entry is mapped into the record.
ReplayEnqueue(r) ==
  /\ Idle
  /\ r.segment \in finalized
  /\ Queue!KeyUsed(r)
  /\ Queue!EquivalentRequest(idempotency[r.key].request, r)
  /\ LET id == idempotency[r.key].id IN Begin(id, r.segment, SlotOf(id, entries[id]))
  /\ UNCHANGED <<queueVars, serviceVars, recordVars, torn, unsaved>>

ClaimTranscription(id, expected) ==
  /\ Ready(id)
  /\ Queue!Claim(id, expected)
  /\ Begin(id, entries[id].segment, SlotOf(id, entries'[id]))
  /\ UNCHANGED <<serviceVars, recordVars, torn, unsaved>>

\* The job as the service returns it.
Result(id) == [status |-> jobs'[id].status, err |-> jobs'[id].err]

\* Start, Partial, Complete and Fail: once the service has changed, the queue
\* either records the result, and the record update begins, or refuses it
\* (or sees a cancelled context) and the outcome is uncertain.
Carry(id, recorded) ==
  \/ /\ recorded
     /\ Begin(id, entries[id].segment, JobSlot(slots[entries[id].segment], Result(id)))
     /\ torn' = torn \ {id}
  \/ /\ torn' = torn \cup {id}
     /\ UNCHANGED <<queueVars, pending>>

StartTranscription(id) ==
  /\ Ready(id)
  /\ Service!Start(id, entries[id].attempt > 1)
  /\ Carry(id, Queue!RecordStarted(id, Result(id)))
  /\ UNCHANGED <<recordVars, unsaved>>

UpdateTranscriptionPartial(id, u) ==
  /\ Ready(id)
  /\ Service!UpdatePartial(id, u)
  /\ Carry(id, Queue!RecordPartial(id, Result(id)))
  /\ UNCHANGED <<recordVars, unsaved>>

CompleteTranscription(id) ==
  /\ Ready(id)
  /\ Service!Complete(id)
  /\ Carry(id, Queue!RecordTerminal(id, Result(id)))
  /\ UNCHANGED <<recordVars, unsaved>>

FailTranscription(id, err) ==
  /\ Ready(id)
  /\ Service!Fail(id, err)
  /\ Carry(id, Queue!RecordTerminal(id, Result(id)))
  /\ UNCHANGED <<recordVars, unsaved>>

\* Defect: cancelling queued work never reaches the job service.
NeverRanUnknown(e) == FALSE

NeverRan(e) == e.queue = "queued" /\ e.job = "queued"

\* The service job of an entry that never ran is cancelled first; the queue
\* may then refuse the status the caller expected.
CancelTranscription(id, expected) ==
  /\ Ready(id)
  /\ \/ /\ Queue!CancelQueued(id, expected)
        /\ IF NeverRan(entries[id]) THEN Service!Cancel(id) ELSE UNCHANGED serviceVars
        /\ Begin(id, entries[id].segment, SlotOf(id, entries'[id]))
        /\ UNCHANGED torn
     \/ /\ NeverRan(entries[id])
        /\ Service!Cancel(id)
        /\ torn' = torn \cup {id}
        /\ UNCHANGED <<queueVars, pending>>
  /\ UNCHANGED <<recordVars, unsaved>>

ScheduleTranscriptionRetry(id, expected, policy, delay) ==
  /\ Ready(id)
  /\ Queue!ScheduleRetry(id, expected, policy, delay)
  /\ Begin(id, entries[id].segment, SlotOf(id, entries'[id]))
  /\ UNCHANGED <<serviceVars, recordVars, torn, unsaved>>

RequeueTranscription(id, expected) ==
  /\ Ready(id)
  /\ Queue!Requeue(id, expected)
  /\ Begin(id, entries[id].segment, SlotOf(id, entries'[id]))
  /\ UNCHANGED <<serviceVars, recordVars, torn, unsaved>>

-----------------------------------------------------------------------------
(* Persisting (UpdateRuntime as a compare-and-swap of the whole record).   *)

\* Defect: the revision is not compared.
WritableStale ==
  /\ pending # NoWrite
  /\ CanTransitionTranscription(aggregate, pending.aggregate)

Writable ==
  /\ pending # NoWrite
  /\ ~pending.stale
  /\ CanTransitionTranscription(aggregate, pending.aggregate)

Install ==
  /\ finalized' = pending.finalized
  /\ slots' = pending.slots
  /\ aggregate' = pending.aggregate

PersistCommits ==
  /\ Writable
  /\ Install
  /\ pending' = NoWrite
  /\ unsaved' = unsaved \ {pending.job}
  /\ UNCHANGED <<queueVars, serviceVars, torn>>

\* Defect: the failed update is reported as a success.
PersistFailsSilently ==
  /\ pending # NoWrite
  /\ pending' = NoWrite
  /\ unsaved' = unsaved \ {pending.job}
  /\ UNCHANGED <<queueVars, serviceVars, recordVars, torn>>

\* A stale record, a refused status transition or a failed write: the queue
\* keeps its change and the caller is told the outcome is uncertain.
PersistFails ==
  /\ pending # NoWrite
  /\ pending' = NoWrite
  /\ unsaved' = unsaved \cup {pending.job}
  /\ UNCHANGED <<queueVars, serviceVars, recordVars, torn>>

\* The record was replaced, but reading it back failed.
PersistUnreported ==
  /\ Writable
  /\ Install
  /\ pending' = NoWrite
  /\ unsaved' = unsaved \cup {pending.job}
  /\ UNCHANGED <<queueVars, serviceVars, torn>>

-----------------------------------------------------------------------------
(* The rest of the application, and the process.                           *)

MovedPending == IF pending = NoWrite THEN NoWrite ELSE [pending EXCEPT !.stale = TRUE]

\* Any session or capture use case that leaves the segments alone.
OtherUpdate ==
  /\ pending # NoWrite /\ ~pending.stale
  /\ pending' = MovedPending
  /\ UNCHANGED <<queueVars, serviceVars, recordVars, torn, unsaved>>

\* Pausing or stopping capture finalizes its segment.  The capture mapping
\* keeps the aggregate as it was, and a record whose aggregate is not the
\* derived one is refused.
FinalizeSegment(s) ==
  /\ s \notin finalized
  /\ AggregateTranscriptionStatus(finalized \cup {s}, slots) = aggregate
  /\ finalized' = finalized \cup {s}
  /\ pending' = MovedPending
  /\ UNCHANGED <<queueVars, serviceVars, slots, aggregate, torn, unsaved>>

\* The process ends: queue and job service are gone, the record is not.
Restart ==
  /\ entries' = [j \in {} |-> NoKey]
  /\ idempotency' = [k \in {} |-> NoKey]
  /\ nextPosition' = 0
  /\ claims' = [j \in JobIds |-> 0]
  /\ jobs' = [j \in {} |-> NoError]
  /\ partials' = [j \in {} |-> NoError]
  /\ pending' = NoWrite
  /\ torn' = {}
  /\ unsaved' = {}
  /\ UNCHANGED <<now, recordVars>>

Next ==
  \/ \E r \in Queue!Request : ReplayEnqueue(r)
  \/ \E id \in JobIds :
       \/ \E r \in Queue!Request : EnqueueTranscription(id, r)
       \/ \E expected \in QueueStatuses :
            \/ ClaimTranscription(id, expected)
            \/ CancelTranscription(id, expected)
            \/ RequeueTranscription(id, expected)
            \/ \E policy \in Policies : \E delay \in Queue!BackoffDelays(policy) :
                 ScheduleTranscriptionRetry(id, expected, policy, delay)
       \/ StartTranscription(id)
       \/ \E u \in Service!Update : UpdateTranscriptionPartial(id, u)
       \/ CompleteTranscription(id)
       \/ \E err \in Errors : FailTranscription(id, err)
  \/ PersistCommits
  \/ PersistFails
  \/ PersistUnreported
  \/ OtherUpdate
  \/ \E s \in Segments : FinalizeSegment(s)
  \/ Restart

Spec == Init /\ [][Next]_vars

-----------------------------------------------------------------------------
(* Properties.                                                             *)

\* Types of the composed state.  The jobs of the service are more than typed:
\* they stay valid, and free of partial output left by an ended attempt, under
\* every sequence of calls the use cases make, those the queue then refuses
\* included.
TypeOK ==
  /\ Queue!TypeOK
  /\ Service!TypeOK
  /\ Service!JobsValid
  /\ Service!PartialsMatchStatus
  /\ finalized \subseteq Segments
  /\ DOMAIN slots \subseteq Segments
  /\ slots \in [DOMAIN slots -> Slot]
  /\ aggregate \in TranscriptionStatuses
  /\ pending # NoWrite =>
       /\ pending.job \in JobIds /\ pending.finalized \subseteq Segments
       /\ DOMAIN pending.slots \subseteq Segments
       /\ pending.slots \in [DOMAIN pending.slots -> Slot]
       /\ pending.aggregate \in TranscriptionStatuses
       /\ pending.stale \in BOOLEAN
  /\ torn \subseteq JobIds /\ unsaved \subseteq JobIds

\* The service and the queue hold the same result for every job, except the
\* jobs whose use case was cut between the two: no accepted sequence of calls
\* (starting before claiming, retrying, cancelling) separates them silently.
ServiceAndQueueAgree ==
  \A id \in DOMAIN entries \ torn :
    /\ id \in DOMAIN jobs
    /\ jobs[id].status = entries[id].job
    /\ jobs[id].err = entries[id].err

\* Between use cases the record shows, for every job it names, the state the
\* queue holds, unless that job's last update was reported as uncertain.
RecordAgrees ==
  Idle => \A s \in DOMAIN slots :
            LET id == slots[s].id IN
            id \in DOMAIN entries \ unsaved =>
              entries[id].segment = s /\ slots[s] = SlotOf(id, entries[id])

\* How far an attempt has come.  Running and partial are one stage: a retry
\* whose Fail was cut short can be started again under the same claim.
Phase(queue, job) ==
  CASE queue = "retry_waiting" -> 0
    [] queue = "queued" -> 1
    [] queue = "claimed" /\ job \notin {"running", "partial"} -> 2
    [] queue = "claimed" /\ job \in {"running", "partial"} -> 3
    [] OTHER -> 4

\* The record may lag behind the queue, after an uncertain update, but never
\* runs ahead of it: what it shows of a job is a stage the job has reached.
RecordNeverAhead ==
  \A s \in DOMAIN slots :
    LET slot == slots[s] IN
    slot.id \in DOMAIN entries =>
      LET e == entries[slot.id] IN
      \/ slot.attempt < e.attempt
      \/ /\ slot.attempt = e.attempt
         /\ Phase(slot.queue, slot.job) <= Phase(e.queue, e.job)
         /\ slot.job = "completed" => e.job = "completed"

\* The aggregate is derived, never set independently: with every update of
\* the segments or of their jobs it stays the one the summaries yield.
AggregateDerived == aggregate = AggregateTranscriptionStatus(finalized, slots)

\* The durable record is faithful to the queue it is rebuilt from: never ahead
\* of it, equal to it where no update was uncertain, and its session-level
\* status derived from its segments.
RecordFaithful == RecordNeverAhead /\ RecordAgrees /\ AggregateDerived

\* A job that is waiting or running is the one the record shows for its
\* segment, unless its updates were uncertain, another job of the segment
\* was brought back by its idempotency key, or the other has another model:
\* the queue refuses a second active job only of the same model, and the
\* record has room for one.
ActiveJobShown ==
  Idle => \A id \in DOMAIN entries \ (torn \cup unsaved) :
            Queue!SchedulingActive(entries[id]) =>
              \/ ShownIn(id) # {}
              \/ \E j \in DOMAIN entries :
                   /\ ShownIn(j) = {entries[id].segment}
                   /\ entries[j].key # NoKey \/ entries[j].model # entries[id].model

\* No update is lost: a finalized segment stays finalized and a segment that
\* has a summary keeps having one, whoever else writes the record meanwhile.
NoLostUpdate ==
  [][finalized \subseteq finalized' /\ DOMAIN slots \subseteq DOMAIN slots']_vars

SegmentStatus(s, map) ==
  IF s \in DOMAIN map THEN SegmentTranscriptionStatus(map[s]) ELSE "not_started"

\* docs/transcription-runtime.md: "Finalized segments remain independent:
\* completed, queued, failed, and not-started segments may coexist."  So when
\* a job takes a step its own segment's status allows, on a record nobody has
\* moved, the other segments must not make the repository refuse the update.
SegmentsIndependent ==
  pending # NoWrite /\ ~pending.stale =>
    LET s == entries[pending.job].segment IN
    CanTransitionTranscription(SegmentStatus(s, slots), SegmentStatus(s, pending.slots))
      => CanTransitionTranscription(aggregate, pending.aggregate)

=============================================================================
