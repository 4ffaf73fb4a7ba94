-------------------- MODULE TranscriptionIntegration_proofs --------------------
(***************************************************************************)
(* Machine-checked proofs about TranscriptionIntegration, for any jobs,    *)
(* segments, models, keys, limits, policies and failures.  What was proved *)
(* of the queue on its own is used step by step; the job service gets an   *)
(* inductive invariant here; and every use case is shown to be one of two  *)
(* shapes, one that goes on to write the record and one that was cut, from *)
(* which the properties that relate queue, service and record follow.      *)
(*                                                                         *)
(* The last part is about RuntimeUpdate, the update of the record which    *)
(* the use cases take for a single step.                                   *)
(***************************************************************************)
EXTENDS TranscriptionIntegration, RuntimeUpdate, TLAPS

QueueProofs == INSTANCE MemoryQueue_proofs WITH MaxTime <- 0

-----------------------------------------------------------------------------
(* The queue's operations are those the queue was proved for.              *)

\* What the queue is proved under is assumed here too.
LEMMA QueueAssumed == QueueProofs!QueueAssumption
  BY IntegrationAssumption DEF IntegrationAssumption, QueueProofs!QueueAssumption

\* The two instances of the queue speak of the same values.
LEMMA SameWords ==
  /\ QueueProofs!QueueStatuses = QueueStatuses /\ Queue!QueueStatuses = QueueStatuses
  /\ QueueProofs!JobStatuses = JobStatuses /\ Queue!JobStatuses = JobStatuses
  /\ QueueProofs!TerminalJobStatuses = TerminalJobStatuses
  /\ Queue!TerminalJobStatuses = TerminalJobStatuses
  /\ Queue!Request = QueueProofs!Request
  /\ \A e : QueueProofs!SchedulingActive(e) <=> Queue!SchedulingActive(e)
  <1>1. /\ QueueProofs!QueueStatuses = QueueStatuses /\ Queue!QueueStatuses = QueueStatuses
        /\ QueueProofs!JobStatuses = JobStatuses /\ Queue!JobStatuses = JobStatuses
    BY DEF QueueProofs!QueueStatuses, Queue!QueueStatuses, QueueStatuses,
           QueueProofs!JobStatuses, Queue!JobStatuses, JobStatuses
  <1>2. /\ QueueProofs!TerminalJobStatuses = TerminalJobStatuses
        /\ Queue!TerminalJobStatuses = TerminalJobStatuses
    BY DEF QueueProofs!TerminalJobStatuses, Queue!TerminalJobStatuses, TerminalJobStatuses
  <1>3. Queue!Request = QueueProofs!Request
    BY DEF Queue!Request, QueueProofs!Request
  <1>4. \A e : QueueProofs!SchedulingActive(e) <=> Queue!SchedulingActive(e)
    BY DEF Queue!SchedulingActive, QueueProofs!SchedulingActive
  <1> QED
    BY <1>1, <1>2, <1>3, <1>4

LEMMA SameTypes == Queue!TypeOK <=> QueueProofs!TypeOK
  <1>1. Queue!Entry = QueueProofs!Entry
    BY SameWords DEF Queue!Entry, QueueProofs!Entry, Queue!NoTime, QueueProofs!NoTime
  <1> QED
    BY <1>1, SameWords DEF Queue!TypeOK, QueueProofs!TypeOK

LEMMA SameEnqueue ==
  ASSUME NEW id, NEW r, Queue!Enqueue(id, r)
  PROVE  QueueProofs!Enqueue(id, r)
  BY DEF Queue!Enqueue, QueueProofs!Enqueue, Queue!KeyUsed, QueueProofs!KeyUsed,
         Queue!DuplicateActive, QueueProofs!DuplicateActive, Queue!SameSource,
         QueueProofs!SameSource, Queue!SchedulingActive, QueueProofs!SchedulingActive,
         Queue!Extend, QueueProofs!Extend, Queue!NewEntry, QueueProofs!NewEntry,
         Queue!NoTime, QueueProofs!NoTime

LEMMA SameClaim ==
  ASSUME NEW id, NEW x, Queue!Claim(id, x)
  PROVE  QueueProofs!Claim(id, x)
  BY DEF Queue!Claim, QueueProofs!Claim, Queue!Rewrite, QueueProofs!Rewrite,
         Queue!ClaimedEntry, QueueProofs!ClaimedEntry

LEMMA SameCancelQueued ==
  ASSUME NEW id, NEW x, Queue!CancelQueued(id, x)
  PROVE  QueueProofs!CancelQueued(id, x)
  BY DEF Queue!CancelQueued, QueueProofs!CancelQueued, Queue!Rewrite, QueueProofs!Rewrite,
         Queue!CancelledEntry, QueueProofs!CancelledEntry, Queue!NoTime, QueueProofs!NoTime

LEMMA SameRequeue ==
  ASSUME NEW id, NEW x, Queue!Requeue(id, x)
  PROVE  QueueProofs!Requeue(id, x)
  BY DEF Queue!Requeue, QueueProofs!Requeue, Queue!Rewrite, QueueProofs!Rewrite,
         Queue!RequeuedEntry, QueueProofs!RequeuedEntry, Queue!NoTime, QueueProofs!NoTime

LEMMA SameScheduleRetry ==
  ASSUME NEW id, NEW x, NEW policy, NEW delay, Queue!ScheduleRetry(id, x, policy, delay)
  PROVE  QueueProofs!ScheduleRetry(id, x, policy, delay)
         /\ delay \in QueueProofs!BackoffDelays(policy)
  BY DEF Queue!ScheduleRetry, QueueProofs!ScheduleRetry, Queue!Rewrite, QueueProofs!Rewrite,
         Queue!RetriedEntry, QueueProofs!RetriedEntry, Queue!NoTime, QueueProofs!NoTime,
         Queue!RetryPermitted, QueueProofs!RetryPermitted, Queue!IsRetryable,
         QueueProofs!IsRetryable, Queue!AttemptLimit, QueueProofs!AttemptLimit,
         Queue!BackoffDelays, QueueProofs!BackoffDelays

LEMMA SameProgress ==
  ASSUME NEW id, NEW job, NEW want, Queue!RecordProgress(id, job, want)
  PROVE  QueueProofs!RecordProgress(id, job, want)
  BY DEF Queue!RecordProgress, QueueProofs!RecordProgress, Queue!Rewrite,
         QueueProofs!Rewrite, Queue!ProgressedEntry, QueueProofs!ProgressedEntry,
         Queue!ValidJob, QueueProofs!ValidJob

LEMMA SameTerminal ==
  ASSUME NEW id, NEW job, Queue!RecordTerminal(id, job)
  PROVE  QueueProofs!RecordTerminal(id, job)
  BY SameWords
  DEF Queue!RecordTerminal, QueueProofs!RecordTerminal, Queue!Rewrite,
      QueueProofs!Rewrite, Queue!FinishedEntry, QueueProofs!FinishedEntry,
      Queue!ValidJob, QueueProofs!ValidJob, Queue!NoTime, QueueProofs!NoTime

-----------------------------------------------------------------------------
(* The job service keeps every job valid whatever it is called with.       *)

ServiceInvariant == Service!TypeOK /\ Service!JobsValid /\ Service!PartialsMatchStatus

\* An operation of the service changes one job to one that is valid again and
\* keeps its partial update only while it is partial.
LEMMA JobChange ==
  ASSUME ServiceInvariant,
         NEW id \in JobIds, NEW job \in Service!Job, Service!ValidJob(job),
         DOMAIN jobs' = DOMAIN jobs \cup {id},
         jobs' \in [DOMAIN jobs \cup {id} -> Service!Job],
         jobs'[id] = job,
         \A j \in DOMAIN jobs : j # id => jobs'[j] = jobs[j],
         partials' \in [DOMAIN partials' -> Service!Update],
         DOMAIN partials' = IF job.status = "partial" THEN DOMAIN partials \cup {id}
                                                      ELSE DOMAIN partials \ {id}
  PROVE  ServiceInvariant'
  <1>1. Service!TypeOK'
    BY DEF ServiceInvariant, Service!TypeOK
  <1>2. Service!JobsValid'
    BY DEF ServiceInvariant, Service!JobsValid, Service!ValidJob
  <1>3. Service!PartialsMatchStatus'
    BY DEF ServiceInvariant, Service!PartialsMatchStatus
  <1> QED
    BY <1>1, <1>2, <1>3 DEF ServiceInvariant

LEMMA JobKnown ==
  ASSUME ServiceInvariant, NEW id \in DOMAIN jobs
  PROVE  /\ id \in JobIds /\ jobs[id] \in Service!Job /\ Service!ValidJob(jobs[id])
         /\ id \in DOMAIN partials <=> jobs[id].status = "partial"
  BY DEF ServiceInvariant, Service!TypeOK, Service!JobsValid, Service!PartialsMatchStatus

LEMMA CreateKeepsService ==
  ASSUME ServiceInvariant, NEW id \in JobIds, NEW s \in Segments, NEW m \in Models,
         Service!CreateJob(id, s, m)
  PROVE  /\ ServiceInvariant'
         /\ id \notin DOMAIN jobs
         /\ DOMAIN jobs' = DOMAIN jobs \cup {id}
         /\ \A j \in DOMAIN jobs : j # id => jobs'[j] = jobs[j]
         /\ jobs'[id].status = "queued" /\ jobs'[id].err = NoError
  <1> DEFINE job == Service!NewJob(s, m)
  <1>1. /\ job \in Service!Job /\ Service!ValidJob(job)
        /\ job.status = "queued" /\ job.err = NoError
    BY DEF Service!NewJob, Service!Job, Service!ValidJob, Service!JobStatuses,
           Service!ExecutingJobStatuses
  <1>2. /\ jobs' = [y \in DOMAIN jobs \cup {id} |-> IF y = id THEN job ELSE jobs[y]]
        /\ id \notin DOMAIN jobs /\ partials' = partials
    BY DEF Service!CreateJob, Service!CanCreate, Service!Extend
  <1> HIDE DEF job
  <1>3. partials \in [DOMAIN partials -> Service!Update] /\ id \notin DOMAIN partials
    BY <1>2 DEF ServiceInvariant, Service!TypeOK, Service!PartialsMatchStatus
  <1>4. jobs' \in [DOMAIN jobs \cup {id} -> Service!Job]
    BY <1>1, <1>2, JobKnown
  <1>5. /\ jobs'[id] = job /\ \A j \in DOMAIN jobs : j # id => jobs'[j] = jobs[j]
        /\ DOMAIN partials' = DOMAIN partials \ {id}
        /\ partials' \in [DOMAIN partials' -> Service!Update]
        /\ DOMAIN jobs' = DOMAIN jobs \cup {id}
    BY <1>2, <1>3
  <1>6. ServiceInvariant'
    BY <1>1, <1>4, <1>5, JobChange
  <1> QED
    BY <1>1, <1>2, <1>5, <1>6

\* What each call makes of a job it accepts.
JobChanged(id, job) ==
  /\ id \in DOMAIN jobs /\ id \in JobIds
  /\ jobs' = [jobs EXCEPT ![id] = job]
  /\ DOMAIN jobs' = DOMAIN jobs
  /\ jobs'[id] = job
  /\ \A j \in DOMAIN jobs : j # id => jobs'[j] = jobs[j]

LEMMA ChangedJob ==
  ASSUME ServiceInvariant, NEW id \in DOMAIN jobs, NEW job \in Service!Job,
         Service!ValidJob(job),
         jobs' = [jobs EXCEPT ![id] = job],
         \/ /\ partials' = partials
            /\ job.status # "partial" /\ jobs[id].status # "partial"
         \/ /\ \E u \in Service!Update : partials' = Service!Extend(partials, id, u)
            /\ job.status = "partial"
         \/ partials' = Service!Drop(partials, id) /\ job.status # "partial"
  PROVE  ServiceInvariant' /\ JobChanged(id, job)
  <1>1. JobChanged(id, job) /\ jobs' \in [DOMAIN jobs \cup {id} -> Service!Job]
    BY JobKnown DEF JobChanged, ServiceInvariant, Service!TypeOK
  <1>2. partials \in [DOMAIN partials -> Service!Update]
    BY DEF ServiceInvariant, Service!TypeOK
  <1>3. /\ partials' \in [DOMAIN partials' -> Service!Update]
        /\ DOMAIN partials' = IF job.status = "partial" THEN DOMAIN partials \cup {id}
                                                        ELSE DOMAIN partials \ {id}
    BY <1>2, JobKnown DEF Service!Extend, Service!Drop
  <1>4. id \in JobIds /\ DOMAIN jobs' = DOMAIN jobs \cup {id} /\ jobs'[id] = job
        /\ \A j \in DOMAIN jobs : j # id => jobs'[j] = jobs[j]
    BY <1>1 DEF JobChanged
  <1> QED
    BY <1>1, <1>3, <1>4, JobChange

LEMMA StartKeepsService ==
  ASSUME ServiceInvariant, NEW id, NEW retry, Service!Start(id, retry)
  PROVE  /\ ServiceInvariant'
         /\ \E job \in Service!Job : JobChanged(id, job) /\ job.status = "running"
  <1> DEFINE old == jobs[id]
  <1>1. id \in DOMAIN jobs /\ UNCHANGED partials
    BY DEF Service!Start
  <1>2. old \in Service!Job /\ Service!ValidJob(old)
    BY <1>1, JobKnown
  <1>3. CASE old.status = "failed" /\ jobs' = [jobs EXCEPT ![id] = Service!RestartedJob(old)]
    <2> DEFINE job == Service!RestartedJob(old)
    <2>1. job \in Service!Job /\ Service!ValidJob(job) /\ job.status = "running"
      BY <1>2 DEF Service!RestartedJob, Service!Job, Service!ValidJob, Service!JobStatuses
    <2> QED
      BY <1>1, <1>3, <2>1, ChangedJob
  <1>4. CASE /\ Service!CanTransitionJob(old.status, "preparing")
             /\ jobs' = [jobs EXCEPT ![id] = Service!StartedJob(old)]
    <2> DEFINE job == Service!StartedJob(old)
    <2>1. old.status = "queued"
      BY <1>4 DEF Service!CanTransitionJob, Service!JobEdges
    <2>2. job \in Service!Job /\ Service!ValidJob(job) /\ job.status = "running"
      BY <1>2, <2>1 DEF Service!StartedJob, Service!Job, Service!ValidJob, Service!JobStatuses
    <2> QED
      BY <1>1, <1>4, <2>1, <2>2, ChangedJob
  <1> QED
    BY <1>3, <1>4 DEF Service!Start

LEMMA PartialKeepsService ==
  ASSUME ServiceInvariant, NEW id, NEW u \in Service!Update, Service!UpdatePartial(id, u)
  PROVE  /\ ServiceInvariant'
         /\ \E job \in Service!Job : JobChanged(id, job) /\ job.status = "partial"
  <1> DEFINE old == jobs[id]
             job == [old EXCEPT !.status = "partial"]
  <1>1. /\ id \in DOMAIN jobs /\ old.status \in {"running", "partial"}
        /\ jobs' = [jobs EXCEPT ![id] = job]
        /\ partials' = Service!Extend(partials, id, u)
    BY DEF Service!UpdatePartial
  <1>2. old \in Service!Job /\ Service!ValidJob(old)
    BY <1>1, JobKnown
  <1>3. job \in Service!Job /\ Service!ValidJob(job) /\ job.status = "partial"
    BY <1>1, <1>2
    DEF Service!Job, Service!ValidJob, Service!JobStatuses, Service!ExecutingJobStatuses
  <1> QED
    BY <1>1, <1>3, ChangedJob

LEMMA CompleteKeepsService ==
  ASSUME ServiceInvariant, NEW id, Service!Complete(id)
  PROVE  /\ ServiceInvariant'
         /\ \E job \in Service!Job : JobChanged(id, job) /\ job.status = "completed"
  <1> DEFINE old == jobs[id]
             job == [old EXCEPT !.status = "completed", !.finished = TRUE]
  <1>1. /\ id \in DOMAIN jobs /\ old.started /\ old.err = NoError
        /\ jobs' = [jobs EXCEPT ![id].status = "completed", ![id].finished = TRUE]
        /\ partials' = Service!Drop(partials, id)
    BY DEF Service!Complete
  <1>2. old \in Service!Job /\ Service!ValidJob(old)
    BY <1>1, JobKnown
  <1>3. jobs' = [jobs EXCEPT ![id] = job]
    BY <1>1
  <1>4. job \in Service!Job /\ Service!ValidJob(job) /\ job.status = "completed"
    BY <1>1, <1>2
    DEF Service!Job, Service!ValidJob, Service!JobStatuses, Service!ExecutingJobStatuses
  <1> QED
    BY <1>1, <1>3, <1>4, ChangedJob

LEMMA FailKeepsService ==
  ASSUME ServiceInvariant, NEW id, NEW err \in Errors, Service!Fail(id, err)
  PROVE  /\ ServiceInvariant'
         /\ \E job \in Service!Job : JobChanged(id, job) /\ job.status = "failed"
  <1> DEFINE old == jobs[id]
             job == [old EXCEPT !.status = "failed", !.err = err]
  <1>1. /\ id \in DOMAIN jobs /\ Service!CanTransitionJob(old.status, "failed")
        /\ jobs' = [jobs EXCEPT ![id].status = "failed", ![id].err = err]
        /\ partials' = Service!Drop(partials, id)
    BY DEF Service!Fail
  <1>2. old \in Service!Job /\ Service!ValidJob(old)
    BY <1>1, JobKnown
  <1>3. jobs' = [jobs EXCEPT ![id] = job]
    BY <1>1
  <1>4. old.status # "completed"
    BY <1>1 DEF Service!CanTransitionJob, Service!JobEdges
  <1>5. job \in Service!Job /\ Service!ValidJob(job) /\ job.status = "failed"
    BY <1>1, <1>2, <1>4, IntegrationAssumption
    DEF IntegrationAssumption, Service!Job, Service!ValidJob, Service!JobStatuses,
        Service!ExecutingJobStatuses
  <1> QED
    BY <1>1, <1>3, <1>5, ChangedJob

LEMMA CancelKeepsService ==
  ASSUME ServiceInvariant, NEW id, Service!Cancel(id)
  PROVE  /\ ServiceInvariant'
         /\ \E job \in Service!Job : /\ JobChanged(id, job) /\ job.status = "cancelled"
                                     /\ job.err = jobs[id].err
  <1> DEFINE old == jobs[id]
             job == [old EXCEPT !.status = "cancelled"]
  <1>1. /\ id \in DOMAIN jobs /\ Service!CanTransitionJob(old.status, "cancelled")
        /\ jobs' = [jobs EXCEPT ![id] = job]
        /\ partials' = Service!Drop(partials, id)
    BY DEF Service!Cancel
  <1>2. old \in Service!Job /\ Service!ValidJob(old)
    BY <1>1, JobKnown
  <1>3. old.status # "completed"
    BY <1>1 DEF Service!CanTransitionJob, Service!JobEdges
  <1>4. /\ job \in Service!Job /\ Service!ValidJob(job)
        /\ job.status = "cancelled" /\ job.err = old.err
    BY <1>1, <1>2, <1>3
    DEF Service!Job, Service!ValidJob, Service!JobStatuses, Service!ExecutingJobStatuses
  <1> QED
    BY <1>1, <1>4, ChangedJob

-----------------------------------------------------------------------------
(* What each call of the queue makes of an entry.                          *)

\* The entry is as far as before, or further.
Forward(e, f) ==
  \/ e.attempt < f.attempt
  \/ /\ e.attempt = f.attempt
     /\ Phase(e.queue, e.job) <= Phase(f.queue, f.job)
     /\ e.job = "completed" => f.job = "completed"

Moves(id, f) ==
  /\ id \in DOMAIN entries
  /\ QueueProofs!Rewritten(id, f)
  /\ entries[id] \in QueueProofs!Entry
  /\ Forward(entries[id], f)
  /\ QueueProofs!QueueInvariant'

LEMMA EntryKnown ==
  ASSUME QueueProofs!QueueInvariant, NEW id \in DOMAIN entries
  PROVE  /\ id \in JobIds /\ entries[id] \in QueueProofs!Entry
         /\ QueueProofs!ValidEntry(entries[id]) /\ QueueProofs!WaitingEntry(entries[id])
  BY DEF QueueProofs!QueueInvariant, QueueProofs!TypeOK, QueueProofs!EntriesValid

LEMMA ClaimMoves ==
  ASSUME QueueProofs!QueueInvariant, NEW id \in JobIds, NEW x \in QueueStatuses,
         Queue!Claim(id, x)
  PROVE  \E f : Moves(id, f) /\ f.job = entries[id].job /\ f.err = entries[id].err
  <1> DEFINE e == entries[id]
             f == QueueProofs!ClaimedEntry(e)
  <1>1. QueueProofs!Claim(id, x) /\ x \in QueueProofs!QueueStatuses
    BY SameClaim, SameWords
  <1>2. QueueProofs!QueueInvariant'
    BY <1>1, QueueAssumed, QueueProofs!InvariantStep DEF QueueProofs!Next
  <1>3. /\ id \in DOMAIN entries /\ e \in QueueProofs!Entry /\ e.queue = "queued"
        /\ QueueProofs!Rewritten(id, f)
    BY <1>1, QueueAssumed, QueueProofs!ClaimRewrites
    DEF QueueProofs!QueueInvariant, QueueProofs!Claim
  <1>4. /\ f.attempt = e.attempt /\ f.queue = "claimed" /\ f.job = e.job /\ f.err = e.err
        /\ e.attempt \in Nat
    BY <1>3 DEF QueueProofs!ClaimedEntry, QueueProofs!Entry
  <1>5. Forward(e, f)
    BY <1>3, <1>4 DEF Forward, Phase
  <1> QED
    BY <1>2, <1>3, <1>4, <1>5 DEF Moves

\* Work that waits and has never run is queued, so cancelling it anywhere
\* else leaves the result as it is.
LEMMA CancelMoves ==
  ASSUME QueueProofs!QueueInvariant, NEW id \in JobIds, NEW x \in QueueStatuses,
         Queue!CancelQueued(id, x)
  PROVE  \E f : /\ Moves(id, f) /\ f.err = entries[id].err
                /\ IF NeverRan(entries[id]) THEN f.job = "cancelled"
                                            ELSE f.job = entries[id].job
  <1> DEFINE e == entries[id]
             f == QueueProofs!CancelledEntry(e)
  <1>1. QueueProofs!CancelQueued(id, x) /\ x \in QueueProofs!QueueStatuses
    BY SameCancelQueued, SameWords
  <1>2. QueueProofs!QueueInvariant'
    BY <1>1, QueueAssumed, QueueProofs!InvariantStep DEF QueueProofs!Next
  <1>3. /\ id \in DOMAIN entries /\ e \in QueueProofs!Entry
        /\ e.queue \in {"queued", "retry_waiting"} /\ QueueProofs!Rewritten(id, f)
    BY <1>1, QueueAssumed, QueueProofs!CancelRewrites
    DEF QueueProofs!QueueInvariant, QueueProofs!CancelQueued
  <1>4. e.job \in {"queued", "failed"} /\ (e.queue = "retry_waiting" => e.job = "failed")
    BY <1>3, EntryKnown DEF QueueProofs!WaitingEntry
  <1>5. /\ f.attempt = e.attempt /\ f.queue = "cancelled" /\ f.err = e.err
        /\ f.job = (IF e.job = "queued" THEN "cancelled" ELSE e.job)
        /\ e.attempt \in Nat
    BY <1>3 DEF QueueProofs!CancelledEntry, QueueProofs!Entry
  <1>6. Forward(e, f)
    BY <1>3, <1>4, <1>5 DEF Forward, Phase
  <1>7. IF NeverRan(e) THEN f.job = "cancelled" ELSE f.job = e.job
    BY <1>3, <1>4, <1>5 DEF NeverRan
  <1> QED
    BY <1>2, <1>3, <1>5, <1>6, <1>7 DEF Moves

LEMMA RequeueMoves ==
  ASSUME QueueProofs!QueueInvariant, NEW id \in JobIds, NEW x \in QueueStatuses,
         Queue!Requeue(id, x)
  PROVE  \E f : Moves(id, f) /\ f.job = entries[id].job /\ f.err = entries[id].err
  <1> DEFINE e == entries[id]
             f == QueueProofs!RequeuedEntry(e)
  <1>1. QueueProofs!Requeue(id, x) /\ x \in QueueProofs!QueueStatuses
    BY SameRequeue, SameWords
  <1>2. QueueProofs!QueueInvariant'
    BY <1>1, QueueAssumed, QueueProofs!InvariantStep DEF QueueProofs!Next
  <1>3. /\ id \in DOMAIN entries /\ e \in QueueProofs!Entry /\ e.queue = "retry_waiting"
        /\ QueueProofs!Rewritten(id, f)
    BY <1>1, QueueAssumed, QueueProofs!RequeueRewrites
    DEF QueueProofs!QueueInvariant, QueueProofs!Requeue
  <1>4. /\ f.attempt = e.attempt /\ f.queue = "queued" /\ f.job = e.job /\ f.err = e.err
        /\ e.attempt \in Nat
    BY <1>3 DEF QueueProofs!RequeuedEntry, QueueProofs!Entry
  <1>5. Forward(e, f)
    BY <1>3, <1>4 DEF Forward, Phase
  <1> QED
    BY <1>2, <1>3, <1>4, <1>5 DEF Moves

LEMMA RetryMoves ==
  ASSUME QueueProofs!QueueInvariant, NEW id \in JobIds, NEW x \in QueueStatuses,
         NEW policy \in Policies, NEW delay, Queue!ScheduleRetry(id, x, policy, delay)
  PROVE  \E f : Moves(id, f) /\ f.job = entries[id].job /\ f.err = entries[id].err
  <1> DEFINE e == entries[id]
             f == QueueProofs!RetriedEntry(e, delay)
  <1>1. /\ QueueProofs!ScheduleRetry(id, x, policy, delay)
        /\ delay \in QueueProofs!BackoffDelays(policy) /\ x \in QueueProofs!QueueStatuses
    BY SameScheduleRetry, SameWords
  <1>2. QueueProofs!QueueInvariant'
    BY <1>1, QueueAssumed, QueueProofs!InvariantStep DEF QueueProofs!Next
  <1>3. /\ id \in DOMAIN entries /\ e \in QueueProofs!Entry /\ QueueProofs!Rewritten(id, f)
    BY <1>1, QueueAssumed, QueueProofs!RetryRewrites
    DEF QueueProofs!QueueInvariant, QueueProofs!ScheduleRetry
  <1>4. /\ f.attempt = e.attempt + 1 /\ f.job = e.job /\ f.err = e.err /\ e.attempt \in Nat
    BY <1>3 DEF QueueProofs!RetriedEntry, QueueProofs!Entry
  <1>5. Forward(e, f)
    BY <1>4 DEF Forward
  <1> QED
    BY <1>2, <1>3, <1>4, <1>5 DEF Moves

LEMMA ProgressMoves ==
  ASSUME QueueProofs!QueueInvariant, NEW id \in JobIds, NEW job \in QueueProofs!JobResult,
         Queue!RecordStarted(id, job) \/ Queue!RecordPartial(id, job)
  PROVE  \E f : /\ Moves(id, f) /\ f.job = job.status /\ f.err = job.err
                /\ job.status \in {"running", "partial"}
                /\ f.queue = entries[id].queue /\ f.attempt = entries[id].attempt
  <1> DEFINE e == entries[id]
             f == QueueProofs!ProgressedEntry(e, job)
  <1>1. PICK want \in {"running", "partial"} : QueueProofs!RecordProgress(id, job, want)
    BY SameProgress DEF Queue!RecordStarted, Queue!RecordPartial
  <1>2. QueueProofs!QueueInvariant'
    BY <1>1, QueueAssumed, QueueProofs!InvariantStep
    DEF QueueProofs!Next, QueueProofs!RecordStarted, QueueProofs!RecordPartial
  <1>3. /\ id \in DOMAIN entries /\ e \in QueueProofs!Entry /\ e.queue = "claimed"
        /\ job.status = want /\ QueueProofs!Rewritten(id, f)
    BY <1>1, QueueAssumed, QueueProofs!ProgressRewrites
    DEF QueueProofs!QueueInvariant, QueueProofs!RecordProgress
  <1>4. e.job # "completed"
    BY <1>3, EntryKnown DEF QueueProofs!ValidEntry, QueueProofs!TerminalJobStatuses
  <1>5. /\ f.attempt = e.attempt /\ f.queue = e.queue
        /\ f.job = job.status /\ f.err = job.err /\ e.attempt \in Nat
    BY <1>3 DEF QueueProofs!ProgressedEntry, QueueProofs!Entry
  <1>6. Forward(e, f)
    BY <1>1, <1>3, <1>4, <1>5 DEF Forward, Phase
  <1> QED
    BY <1>1, <1>2, <1>3, <1>5, <1>6 DEF Moves

LEMMA TerminalMoves ==
  ASSUME QueueProofs!QueueInvariant, NEW id \in JobIds, NEW job \in QueueProofs!JobResult,
         Queue!RecordTerminal(id, job)
  PROVE  \E f : /\ Moves(id, f) /\ f.job = job.status /\ f.err = job.err
                /\ f.queue = "terminal" /\ f.attempt = entries[id].attempt
  <1> DEFINE e == entries[id]
             f == QueueProofs!FinishedEntry(e, job)
  <1>1. QueueProofs!RecordTerminal(id, job)
    BY SameTerminal
  <1>2. QueueProofs!QueueInvariant'
    BY <1>1, QueueAssumed, QueueProofs!InvariantStep DEF QueueProofs!Next
  <1>3. /\ id \in DOMAIN entries /\ e \in QueueProofs!Entry /\ e.queue = "claimed"
        /\ QueueProofs!Rewritten(id, f)
    BY <1>1, QueueAssumed, QueueProofs!TerminalRewrites
    DEF QueueProofs!QueueInvariant, QueueProofs!RecordTerminal
  <1>4. e.job # "completed"
    BY <1>3, EntryKnown DEF QueueProofs!ValidEntry, QueueProofs!TerminalJobStatuses
  <1>5. /\ f.attempt = e.attempt /\ f.queue = "terminal"
        /\ f.job = job.status /\ f.err = job.err /\ e.attempt \in Nat
    BY <1>3 DEF QueueProofs!FinishedEntry, QueueProofs!Entry
  <1>6. Forward(e, f)
    BY <1>3, <1>4, <1>5 DEF Forward, Phase
  <1> QED
    BY <1>2, <1>3, <1>5, <1>6 DEF Moves

-----------------------------------------------------------------------------
(* The shapes of a use case.  One that succeeds in the queue begins a      *)
(* record update about its job; one that was cut leaves the record to the  *)
(* next and is remembered in torn.                                         *)

RecordTyped ==
  /\ finalized \subseteq Segments
  /\ DOMAIN slots \subseteq Segments
  /\ slots \in [DOMAIN slots -> Slot]
  /\ aggregate \in TranscriptionStatuses
  /\ pending \in Writes \cup {NoWrite}
  /\ torn \subseteq JobIds /\ unsaved \subseteq JobIds

Parts == QueueProofs!QueueInvariant /\ ServiceInvariant /\ RecordTyped

\* ServiceAndQueueAgree of one job.
Agree(id) ==
  \/ id \in torn
  \/ /\ id \in DOMAIN jobs
     /\ jobs[id].status = entries[id].job
     /\ jobs[id].err = entries[id].err

\* Whatever is done to one job leaves the others alone.
OthersStay(id) ==
  /\ id \in JobIds
  /\ DOMAIN entries' \subseteq DOMAIN entries \cup {id}
  /\ \A j \in DOMAIN entries :
       /\ j \in DOMAIN entries'
       /\ j # id => entries'[j] = entries[j]
  /\ \A j \in DOMAIN jobs :
       /\ j \in DOMAIN jobs'
       /\ j # id => jobs'[j] = jobs[j]
  /\ torn' \subseteq JobIds /\ torn' \ {id} = torn \ {id}
  /\ UNCHANGED <<recordVars, unsaved>>

\* A job may take the segment's place in the record if it has it already, was
\* named by a key, or no active job of the segment has its model.
MayShow(id, f) ==
  \/ f.segment \in DOMAIN slots /\ slots[f.segment].id = id
  \/ f.key # NoKey
  \/ \A j \in DOMAIN entries :
       /\ QueueProofs!SchedulingActive(entries[j])
       /\ entries[j].segment = f.segment
       => entries[j].model # f.model

Begun(id, f) ==
  /\ Idle /\ OthersStay(id)
  /\ id \in DOMAIN entries' /\ entries'[id] = f /\ f \in QueueProofs!Entry
  /\ IF id \in DOMAIN entries
     THEN QueueProofs!SameIdentity(entries[id], f) /\ Forward(entries[id], f)
     ELSE ShownIn(id) = {}
  /\ (id \in DOMAIN entries => Agree(id)) => Agree(id)'
  /\ MayShow(id, f)
  /\ pending' = Mapped(id, f.segment, SlotOf(id, f))
  /\ Parts'

Cut(id) ==
  /\ Idle /\ OthersStay(id)
  /\ id \in torn'
  /\ IF id \in DOMAIN entries THEN entries'[id] = entries[id] ELSE ShownIn(id) = {}
  /\ UNCHANGED pending
  /\ Parts'

\* What a use case maps into the record is a record, and no "nothing".
LEMMA MappedTyped ==
  ASSUME RecordTyped, NEW id \in JobIds, NEW f \in QueueProofs!Entry
  PROVE  /\ SlotOf(id, f) \in Slot
         /\ Mapped(id, f.segment, SlotOf(id, f)) \in Writes
         /\ Mapped(id, f.segment, SlotOf(id, f)) # NoWrite
  <1> DEFINE slot == SlotOf(id, f)
             next == Extend(slots, f.segment, slot)
  <1>1. slot \in Slot
    BY SameWords DEF SlotOf, Slot, QueueProofs!Entry, ErrorCode
  <1>2. /\ f.segment \in Segments
        /\ DOMAIN next \in SUBSET Segments /\ next \in [DOMAIN next -> Slot]
    BY <1>1 DEF RecordTyped, QueueProofs!Entry, Extend
  <1> HIDE DEF next, slot
  <1>3. AggregateTranscriptionStatus(finalized, next) \in TranscriptionStatuses
    BY DEF AggregateTranscriptionStatus, TranscriptionStatuses
  <1>4. next \in UNION {[D -> Slot] : D \in SUBSET Segments}
    BY <1>2
  <1>5. [job |-> id, finalized |-> finalized, slots |-> next,
         aggregate |-> AggregateTranscriptionStatus(finalized, next), stale |-> FALSE]
          \in Writes
    BY <1>3, <1>4 DEF Writes, RecordTyped
  <1>6. Mapped(id, f.segment, slot) \in Writes
    BY <1>5 DEF Mapped, next
  <1> QED
    BY <1>1, <1>6, NoWriteAssumption DEF NoWriteAssumption, slot

\* A move of an entry in the queue, with the service in step, begins an update.
LEMMA MoveBegins ==
  ASSUME Parts, NEW id \in JobIds, NEW f, Ready(id), Moves(id, f),
         ServiceInvariant',
         \A j \in DOMAIN jobs : j \in DOMAIN jobs' /\ (j # id => jobs'[j] = jobs[j]),
         torn' \subseteq JobIds, torn' \ {id} = torn \ {id},
         Agree(id) => Agree(id)',
         pending' = Mapped(id, f.segment, SlotOf(id, f)),
         UNCHANGED <<recordVars, unsaved>>
  PROVE  Begun(id, f)
  <1>1. /\ id \in DOMAIN entries /\ QueueProofs!Rewritten(id, f)
        /\ Forward(entries[id], f) /\ QueueProofs!QueueInvariant'
    BY DEF Moves
  <1>2. /\ DOMAIN entries' = DOMAIN entries /\ entries'[id] = f
        /\ \A j \in DOMAIN entries : j # id => entries'[j] = entries[j]
    BY <1>1, QueueAssumed, QueueProofs!RewriteShape
    DEF Parts, QueueProofs!QueueInvariant
  <1>3. f \in QueueProofs!Entry /\ QueueProofs!SameIdentity(entries[id], f)
    BY <1>1 DEF QueueProofs!Rewritten
  <1>4. OthersStay(id)
    BY <1>2 DEF OthersStay
  <1>5. f.segment \in DOMAIN slots /\ slots[f.segment].id = id
    BY <1>3 DEF Ready, RuntimeMatches, ShownIn, QueueProofs!SameIdentity
  <1>6. RecordTyped'
    BY <1>3, MappedTyped DEF Parts, RecordTyped, recordVars
  <1> QED
    BY <1>1, <1>2, <1>3, <1>4, <1>5, <1>6 DEF Begun, MayShow, Ready, Parts

LEMMA SlotByFields ==
  ASSUME NEW x \in Slot, NEW y \in Slot,
         x.id = y.id, x.queue = y.queue, x.job = y.job, x.attempt = y.attempt, x.err = y.err
  PROVE  x = y
  BY DEF Slot

\* The service's result, laid over the summary that is there, is the summary of
\* the entry that records the result.
LEMMA JobSlotIsSlot ==
  ASSUME Parts, NEW id \in JobIds, Ready(id),
         NEW job, job.status \in {"running", "partial", "completed", "failed"},
         NEW f \in QueueProofs!Entry,
         f.job = job.status, f.err = job.err, f.attempt = entries[id].attempt,
         f.queue = IF job.status \in {"completed", "failed"} THEN "terminal"
                                                             ELSE entries[id].queue
  PROVE  JobSlot(slots[entries[id].segment], job) = SlotOf(id, f)
  <1> DEFINE slot == slots[entries[id].segment]
  <1>1. /\ entries[id].segment \in DOMAIN slots /\ slot.id = id
        /\ slot.queue = entries[id].queue /\ slot.attempt = entries[id].attempt
    BY DEF Ready, RuntimeMatches, ShownIn
  <1>2. slot \in Slot
    BY <1>1 DEF Parts, RecordTyped
  <1> DEFINE err == ErrorCode(job.err)
             place == CASE job.status \in {"completed", "failed"} -> "terminal"
                        [] job.status = "cancelled" -> "cancelled"
                        [] OTHER -> slot.queue
  <1>3. place = f.queue
    BY <1>1
  <1>4. JobSlot(slot, job) =
          [slot EXCEPT !.job = job.status, !.err = err, !.queue = place]
    BY DEF JobSlot
  <1> DEFINE new == [slot EXCEPT !.job = job.status, !.err = err, !.queue = place]
  <1>5. SlotOf(id, f) \in Slot
    BY MappedTyped DEF Parts
  <1>6. job.status \in JobStatuses /\ err = SlotOf(id, f).err /\ place \in QueueStatuses
    BY <1>3, SameWords DEF SlotOf, JobStatuses, QueueProofs!Entry
  <1>7. err \in {"none"} \cup {e.code : e \in Errors}
    BY <1>5, <1>6 DEF Slot
  <1> HIDE DEF slot, err, place
  <1>8. new \in Slot
    BY <1>2, <1>6, <1>7 DEF Slot
  <1>9. /\ new.id = slot.id /\ new.queue = place /\ new.job = job.status
        /\ new.attempt = slot.attempt /\ new.err = err
    BY <1>2 DEF Slot
  <1>10. new.id = SlotOf(id, f).id /\ new.queue = SlotOf(id, f).queue
         /\ new.job = SlotOf(id, f).job /\ new.attempt = SlotOf(id, f).attempt
         /\ new.err = SlotOf(id, f).err
    BY <1>1, <1>3, <1>6, <1>9 DEF SlotOf, slot
  <1> HIDE DEF new
  <1>11. new = SlotOf(id, f)
    BY <1>5, <1>8, <1>10, SlotByFields
  <1> QED
    BY <1>4, <1>11 DEF slot, new

\* Start, Partial, Complete and Fail: the queue records what the service did.
LEMMA CarryBegins ==
  ASSUME Parts, NEW id \in JobIds, Ready(id), ServiceInvariant',
         NEW job, JobChanged(id, job),
         job.status \in {"running", "partial", "completed", "failed"},
         NEW f, Moves(id, f),
         f.job = job.status, f.err = job.err, f.attempt = entries[id].attempt,
         f.queue = IF job.status \in {"completed", "failed"} THEN "terminal"
                                                             ELSE entries[id].queue,
         Begin(id, entries[id].segment, JobSlot(slots[entries[id].segment], Result(id))),
         torn' = torn \ {id},
         UNCHANGED <<recordVars, unsaved>>
  PROVE  Begun(id, f)
  <1>1. f \in QueueProofs!Entry /\ f.segment = entries[id].segment
    BY DEF Moves, QueueProofs!Rewritten, QueueProofs!SameIdentity
  <1>2. Result(id).status = job.status /\ Result(id).err = job.err
    BY DEF Result, JobChanged
  <1>3. JobSlot(slots[entries[id].segment], Result(id)) = SlotOf(id, f)
    BY <1>1, <1>2, JobSlotIsSlot
  <1>4. pending' = Mapped(id, f.segment, SlotOf(id, f))
    BY <1>1, <1>3 DEF Begin
  <1>5. torn' \subseteq JobIds /\ torn' \ {id} = torn \ {id}
    BY DEF Parts, RecordTyped
  <1>6. \A j \in DOMAIN jobs : j \in DOMAIN jobs' /\ (j # id => jobs'[j] = jobs[j])
    BY DEF JobChanged
  <1>7. Agree(id)'
    <2>1. id \in DOMAIN jobs' /\ jobs'[id] = job
      BY DEF JobChanged
    <2>2. entries'[id] = f
      BY QueueAssumed, QueueProofs!RewriteShape
      DEF Moves, Parts, QueueProofs!QueueInvariant
    <2> QED
      BY <2>1, <2>2 DEF Agree
  <1> QED
    BY <1>4, <1>5, <1>6, <1>7, MoveBegins

\* The same calls, refused by the queue or cancelled in between.
LEMMA CarryCut ==
  ASSUME Parts, NEW id \in JobIds, Ready(id), ServiceInvariant',
         NEW job, JobChanged(id, job),
         torn' = torn \cup {id},
         UNCHANGED <<queueVars, recordVars, pending, unsaved>>
  PROVE  Cut(id)
  <1>1. UNCHANGED <<entries, idempotency, nextPosition, now, claims>>
    BY DEF queueVars
  <1>2. QueueProofs!QueueInvariant'
    BY <1>1, QueueAssumed, QueueProofs!InvariantStep DEF Parts, QueueProofs!vars
  <1>3. RecordTyped'
    BY DEF Parts, RecordTyped, recordVars
  <1>4. OthersStay(id)
    BY <1>1 DEF OthersStay, JobChanged, Parts, RecordTyped
  <1> QED
    BY <1>1, <1>2, <1>3, <1>4 DEF Cut, Ready, Parts

LEMMA ResultTyped ==
  ASSUME ServiceInvariant', NEW id \in DOMAIN jobs'
  PROVE  Result(id) \in QueueProofs!JobResult
  BY DEF ServiceInvariant, Service!TypeOK, Service!Job, Result, QueueProofs!JobResult,
         Service!JobStatuses, QueueProofs!JobStatuses

\* The four use cases that tell the service first, together.
LEMMA CarryShape ==
  ASSUME Parts, NEW id \in JobIds, Ready(id), UNCHANGED <<recordVars, unsaved>>,
         \/ /\ Service!Start(id, entries[id].attempt > 1)
            /\ Carry(id, Queue!RecordStarted(id, Result(id)))
         \/ /\ \E u \in Service!Update : Service!UpdatePartial(id, u)
            /\ Carry(id, Queue!RecordPartial(id, Result(id)))
         \/ /\ \/ Service!Complete(id)
               \/ \E err \in Errors : Service!Fail(id, err)
            /\ Carry(id, Queue!RecordTerminal(id, Result(id)))
  PROVE  (\E f : Begun(id, f)) \/ Cut(id)
  <1>1. PICK job \in Service!Job :
          /\ JobChanged(id, job) /\ ServiceInvariant'
          /\ job.status \in {"running", "partial", "completed", "failed"}
    BY StartKeepsService, PartialKeepsService, CompleteKeepsService, FailKeepsService
    DEF Parts
  <1>2. /\ Result(id) \in QueueProofs!JobResult
        /\ Result(id).status = job.status /\ Result(id).err = job.err
    BY <1>1, ResultTyped DEF JobChanged, Result
  <1>3. QueueProofs!QueueInvariant
    BY DEF Parts
  <1>4. CASE /\ Queue!RecordStarted(id, Result(id)) \/ Queue!RecordPartial(id, Result(id))
             /\ Begin(id, entries[id].segment,
                      JobSlot(slots[entries[id].segment], Result(id)))
             /\ torn' = torn \ {id}
    <2>1. PICK f : /\ Moves(id, f) /\ f.job = job.status /\ f.err = job.err
                   /\ job.status \in {"running", "partial"}
                   /\ f.queue = entries[id].queue /\ f.attempt = entries[id].attempt
      BY <1>2, <1>3, <1>4, ProgressMoves
    <2> QED
      BY <1>1, <1>4, <2>1, CarryBegins
  <1>5. CASE /\ Queue!RecordTerminal(id, Result(id))
             /\ Service!Complete(id) \/ \E err \in Errors : Service!Fail(id, err)
             /\ Begin(id, entries[id].segment,
                      JobSlot(slots[entries[id].segment], Result(id)))
             /\ torn' = torn \ {id}
    <2>1. PICK f : /\ Moves(id, f) /\ f.job = job.status /\ f.err = job.err
                   /\ f.queue = "terminal" /\ f.attempt = entries[id].attempt
      BY <1>2, <1>3, <1>5, TerminalMoves
    <2>2. job.status \in {"completed", "failed"}
      BY <1>1, <1>5, CompleteKeepsService, FailKeepsService DEF Parts, JobChanged
    <2> QED
      BY <1>1, <1>5, <2>1, <2>2, CarryBegins
  <1>6. CASE torn' = torn \cup {id} /\ UNCHANGED <<queueVars, pending>>
    BY <1>1, <1>6, CarryCut
  <1> QED
    BY <1>4, <1>5, <1>6 DEF Carry

\* Claim, ScheduleRetry and Requeue leave the job's result as it is.
LEMMA QueueOnlyShape ==
  ASSUME Parts, NEW id \in JobIds, Ready(id), UNCHANGED <<serviceVars, torn>>,
         UNCHANGED <<recordVars, unsaved>>,
         Begin(id, entries[id].segment, SlotOf(id, entries'[id])),
         NEW f, Moves(id, f), f.job = entries[id].job, f.err = entries[id].err
  PROVE  Begun(id, f)
  <1>1. f.segment = entries[id].segment
    BY DEF Moves, QueueProofs!Rewritten, QueueProofs!SameIdentity
  <1>2. entries'[id] = f
    BY QueueAssumed, QueueProofs!RewriteShape
    DEF Moves, Parts, QueueProofs!QueueInvariant
  <1>3. pending' = Mapped(id, f.segment, SlotOf(id, f))
    BY <1>1, <1>2 DEF Begin
  <1>4. ServiceInvariant' /\ jobs' = jobs /\ torn' = torn /\ torn \subseteq JobIds
    BY DEF Parts, RecordTyped, ServiceInvariant, serviceVars, Service!TypeOK,
           Service!JobsValid, Service!PartialsMatchStatus
  <1>5. Agree(id) => Agree(id)'
    BY <1>2, <1>4 DEF Agree
  <1> QED
    BY <1>3, <1>4, <1>5, MoveBegins

\* Cancel tells the service only of work that never ran; the queue may refuse.
LEMMA CancelShape ==
  ASSUME Parts, NEW id \in JobIds, NEW x \in QueueStatuses, CancelTranscription(id, x)
  PROVE  (\E f : Begun(id, f)) \/ Cut(id)
  <1>0. Ready(id) /\ UNCHANGED <<recordVars, unsaved>>
    BY DEF CancelTranscription
  <1>1. ServiceInvariant /\ QueueProofs!QueueInvariant
    BY DEF Parts
  <1>2. CASE /\ Queue!CancelQueued(id, x)
             /\ IF NeverRan(entries[id]) THEN Service!Cancel(id) ELSE UNCHANGED serviceVars
             /\ Begin(id, entries[id].segment, SlotOf(id, entries'[id]))
             /\ UNCHANGED torn
    <2>1. PICK f : /\ Moves(id, f) /\ f.err = entries[id].err
                   /\ IF NeverRan(entries[id]) THEN f.job = "cancelled"
                                               ELSE f.job = entries[id].job
      BY <1>1, <1>2, CancelMoves
    <2>2. f.segment = entries[id].segment
      BY <2>1 DEF Moves, QueueProofs!Rewritten, QueueProofs!SameIdentity
    <2>3. entries'[id] = f
      BY <1>1, <2>1, QueueAssumed, QueueProofs!RewriteShape
      DEF Moves, QueueProofs!QueueInvariant
    <2>4. pending' = Mapped(id, f.segment, SlotOf(id, f))
      BY <1>2, <2>2, <2>3 DEF Begin
    <2>5. CASE NeverRan(entries[id])
      <3>1. PICK job \in Service!Job : /\ JobChanged(id, job) /\ job.status = "cancelled"
                                       /\ job.err = jobs[id].err
        BY <1>1, <1>2, <2>5, CancelKeepsService
      <3>2. ServiceInvariant'
        BY <1>1, <1>2, <2>5, CancelKeepsService
      <3>3. Agree(id) => Agree(id)'
        BY <1>2, <2>1, <2>3, <2>5, <3>1 DEF Agree, JobChanged
      <3>4. \A j \in DOMAIN jobs : j \in DOMAIN jobs' /\ (j # id => jobs'[j] = jobs[j])
        BY <3>1 DEF JobChanged
      <3>5. torn' \subseteq JobIds /\ torn' \ {id} = torn \ {id}
        BY <1>2 DEF Parts, RecordTyped
      <3> QED
        BY <1>0, <2>1, <2>4, <3>2, <3>3, <3>4, <3>5, MoveBegins
    <2>6. CASE ~NeverRan(entries[id])
      <3>1. UNCHANGED <<serviceVars, torn>> /\ f.job = entries[id].job
        BY <1>2, <2>1, <2>6
      <3> QED
        BY <1>0, <1>2, <2>1, <3>1, QueueOnlyShape
    <2> QED
      BY <2>5, <2>6
  <1>3. CASE /\ Service!Cancel(id)
             /\ torn' = torn \cup {id}
             /\ UNCHANGED <<queueVars, pending>>
    <2>1. PICK job \in Service!Job : JobChanged(id, job)
      BY <1>1, <1>3, CancelKeepsService
    <2>2. ServiceInvariant'
      BY <1>1, <1>3, CancelKeepsService
    <2> QED
      BY <1>0, <1>3, <2>1, <2>2, CarryCut
  <1> QED
    BY <1>2, <1>3 DEF CancelTranscription

\* A new entry, which may only take the place of work of another model, or of
\* none that is active.
LEMMA EnqueueShape ==
  ASSUME Parts, NEW id \in JobIds, NEW r \in Queue!Request, EnqueueTranscription(id, r)
  PROVE  (\E f : Begun(id, f)) \/ Cut(id)
  <1> DEFINE f == QueueProofs!NewEntry(r, nextPosition + 1)
  <1>1. /\ ServiceInvariant /\ QueueProofs!QueueInvariant /\ QueueProofs!TypeOK
        /\ r \in QueueProofs!Request
    BY SameWords DEF Parts, QueueProofs!QueueInvariant
  <1>2. QueueProofs!Enqueue(id, r)
    BY SameEnqueue DEF EnqueueTranscription
  <1>3. QueueProofs!QueueInvariant'
    BY <1>1, <1>2, QueueAssumed, QueueProofs!InvariantStep DEF QueueProofs!Next
  <1>4. /\ id \notin DOMAIN entries
        /\ DOMAIN entries' = DOMAIN entries \cup {id}
        /\ entries'[id] = f /\ f \in QueueProofs!Entry
        /\ \A j \in DOMAIN entries : entries'[j] = entries[j]
    BY <1>1, <1>2, QueueAssumed, QueueProofs!EnqueueAdds
  <1>5. /\ f.segment = r.segment /\ f.model = r.model
        /\ f.job = "queued" /\ f.err = NoError
    BY DEF QueueProofs!NewEntry
  <1>6. /\ Idle /\ ShownIn(id) = {} /\ UNCHANGED <<recordVars, unsaved>>
        /\ torn \subseteq JobIds
    BY DEF EnqueueTranscription, Fresh, Parts, RecordTyped
  <1> HIDE DEF f
  <1>7. MayShow(id, f)
    BY <1>2, <1>5
    DEF MayShow, QueueProofs!Enqueue, QueueProofs!DuplicateActive, QueueProofs!SameSource
  <1>8. CASE /\ Service!CreateJob(id, r.segment, r.model)
             /\ Begin(id, r.segment, SlotOf(id, entries'[id]))
             /\ UNCHANGED torn
    <2>1. r.segment \in Segments /\ r.model \in Models
      BY <1>1 DEF QueueProofs!Request
    <2>2. /\ ServiceInvariant'
          /\ DOMAIN jobs' = DOMAIN jobs \cup {id}
          /\ \A j \in DOMAIN jobs : j # id => jobs'[j] = jobs[j]
          /\ jobs'[id].status = "queued" /\ jobs'[id].err = NoError
      BY <1>1, <1>8, <2>1, CreateKeepsService
    <2>3. pending' = Mapped(id, f.segment, SlotOf(id, f))
      BY <1>4, <1>5, <1>8 DEF Begin
    <2>4. OthersStay(id)
      BY <1>4, <1>6, <1>8, <2>2 DEF OthersStay
    <2>5. Agree(id)'
      BY <1>4, <1>5, <2>2 DEF Agree
    <2>6. RecordTyped'
      BY <1>4, <1>6, <1>8, <2>3, MappedTyped DEF Parts, RecordTyped, recordVars
    <2> QED
      BY <1>3, <1>4, <1>6, <1>7, <2>2, <2>3, <2>4, <2>5, <2>6 DEF Begun, Parts
  <1>9. CASE torn' = torn \cup {id} /\ UNCHANGED <<serviceVars, pending>>
    <2>1. ServiceInvariant' /\ jobs' = jobs
      BY <1>1, <1>9
      DEF ServiceInvariant, serviceVars, Service!TypeOK, Service!JobsValid,
          Service!PartialsMatchStatus
    <2>2. OthersStay(id)
      BY <1>4, <1>6, <1>9, <2>1 DEF OthersStay
    <2>3. RecordTyped'
      BY <1>6, <1>9 DEF Parts, RecordTyped, recordVars
    <2> QED
      BY <1>3, <1>4, <1>6, <1>9, <2>1, <2>2, <2>3 DEF Cut, Parts
  <1> QED
    BY <1>8, <1>9 DEF EnqueueTranscription

\* A repeated request maps the job its key names, as it is by now.
LEMMA ReplayShape ==
  ASSUME Parts, NEW r \in Queue!Request, ReplayEnqueue(r)
  PROVE  \E id, f : Begun(id, f)
  <1> DEFINE id == idempotency[r.key].id
             f == entries[id]
  <1>1. /\ Idle /\ r.key # NoKey /\ r.key \in DOMAIN idempotency
        /\ Queue!EquivalentRequest(idempotency[r.key].request, r)
        /\ Begin(id, r.segment, SlotOf(id, f))
        /\ UNCHANGED <<queueVars, serviceVars, recordVars, torn, unsaved>>
    BY DEF ReplayEnqueue, Queue!KeyUsed
  <1>2. QueueProofs!QueueInvariant
    BY DEF Parts
  <1>3. /\ id \in DOMAIN entries /\ f.key = r.key
        /\ QueueProofs!EquivalentRequest(idempotency[r.key].request, f)
    BY <1>1, <1>2 DEF QueueProofs!QueueInvariant, QueueProofs!KeyNamesOneJob
  <1>4. f.segment = r.segment
    BY <1>1, <1>3
    DEF Queue!EquivalentRequest, QueueProofs!EquivalentRequest, Queue!SameSource,
        QueueProofs!SameSource
  <1>5. id \in JobIds /\ f \in QueueProofs!Entry
    BY <1>2, <1>3, EntryKnown
  <1>6. UNCHANGED <<entries, idempotency, nextPosition, now, claims, jobs, partials,
                    finalized, slots, aggregate, torn, unsaved>>
    BY <1>1 DEF queueVars, serviceVars, recordVars
  <1>7. pending' = Mapped(id, f.segment, SlotOf(id, f))
    BY <1>1, <1>4 DEF Begin
  <1>8. QueueProofs!QueueInvariant'
    BY <1>2, <1>6, QueueAssumed, QueueProofs!InvariantStep DEF QueueProofs!vars
  <1>9. ServiceInvariant'
    BY <1>6 DEF Parts, ServiceInvariant, Service!TypeOK, Service!JobsValid,
                Service!PartialsMatchStatus
  <1>10. RecordTyped'
    BY <1>5, <1>6, <1>7, MappedTyped DEF Parts, RecordTyped
  <1>11. OthersStay(id)
    BY <1>5, <1>6 DEF OthersStay, Parts, RecordTyped, recordVars
  <1>12. QueueProofs!SameIdentity(f, f) /\ Forward(f, f)
    BY <1>5 DEF QueueProofs!SameIdentity, Forward, Phase, QueueProofs!Entry
  <1>13. Agree(id) => Agree(id)'
    BY <1>6 DEF Agree
  <1>14. MayShow(id, f)
    BY <1>1, <1>3 DEF MayShow
  <1>15. entries'[id] = f /\ entries[id] = f /\ id \in DOMAIN entries'
    BY <1>3, <1>6
  <1>16. Parts'
    BY <1>8, <1>9, <1>10 DEF Parts
  <1> HIDE DEF f, id
  <1>17. Begun(id, f)
    BY <1>1, <1>3, <1>5, <1>7, <1>11, <1>12, <1>13, <1>14, <1>15, <1>16 DEF Begun
  <1> QED
    BY <1>17

-----------------------------------------------------------------------------
(* The steps of the whole.                                                 *)

\* A use case ends: its record is written, and read back or not, or it is not.
Persist == PersistCommits \/ PersistFails \/ PersistUnreported

\* The record a use case still has in hand stays typed when it is overtaken.
LEMMA MovedTyped ==
  ASSUME RecordTyped
  PROVE  /\ MovedPending \in Writes \cup {NoWrite}
         /\ pending # NoWrite => MovedPending = [pending EXCEPT !.stale = TRUE]
         /\ pending = NoWrite <=> MovedPending = NoWrite
         /\ pending # NoWrite => /\ MovedPending.stale /\ MovedPending.job = pending.job
  <1>1. CASE pending = NoWrite
    BY <1>1 DEF MovedPending
  <1>2. CASE pending # NoWrite
    <2>1. pending \in Writes /\ MovedPending = [pending EXCEPT !.stale = TRUE]
      BY <1>2 DEF RecordTyped, MovedPending
    <2>2. MovedPending \in Writes /\ MovedPending.stale /\ MovedPending.job = pending.job
      BY <2>1 DEF Writes
    <2> QED
      BY <1>2, <2>1, <2>2, NoWriteAssumption DEF NoWriteAssumption
  <1> QED
    BY <1>1, <1>2

\* What was written is a record.
LEMMA PersistKeepsParts ==
  ASSUME Parts, Persist
  PROVE  Parts'
  <1>1. pending \in Writes /\ pending.job \in JobIds
    BY DEF Parts, RecordTyped, Persist, PersistCommits, PersistFails, PersistUnreported,
           Writable, Writes
  <1>2. UNCHANGED <<entries, idempotency, nextPosition, now, claims, jobs, partials, torn>>
        /\ pending' = NoWrite /\ unsaved' \in {unsaved \ {pending.job},
                                               unsaved \cup {pending.job}}
    BY DEF Persist, PersistCommits, PersistFails, PersistUnreported, queueVars, serviceVars
  <1>3. QueueProofs!QueueInvariant'
    BY <1>2, QueueAssumed, QueueProofs!InvariantStep DEF Parts, QueueProofs!vars
  <1>4. ServiceInvariant'
    BY <1>2 DEF Parts, ServiceInvariant, Service!TypeOK, Service!JobsValid,
                Service!PartialsMatchStatus
  <1>5. /\ finalized' \subseteq Segments /\ DOMAIN slots' \subseteq Segments
        /\ slots' \in [DOMAIN slots' -> Slot] /\ aggregate' \in TranscriptionStatuses
    <2>1. CASE Install
      <3>1. /\ pending.finalized \subseteq Segments
            /\ pending.aggregate \in TranscriptionStatuses
            /\ pending.slots \in UNION {[D -> Slot] : D \in SUBSET Segments}
        BY <1>1 DEF Writes
      <3>2. PICK D \in SUBSET Segments : pending.slots \in [D -> Slot]
        BY <3>1
      <3> QED
        BY <2>1, <3>1, <3>2 DEF Install
    <2>2. CASE UNCHANGED recordVars
      BY <2>2 DEF recordVars, Parts, RecordTyped
    <2> QED
      BY <2>1, <2>2 DEF Persist, PersistCommits, PersistFails, PersistUnreported
  <1> QED
    BY <1>1, <1>2, <1>3, <1>4, <1>5 DEF Parts, RecordTyped

\* The record alone is touched by the rest of the application.
LEMMA RecordOnlyKeepsParts ==
  ASSUME Parts, RecordTyped', UNCHANGED <<queueVars, serviceVars>>
  PROVE  Parts'
  <1>1. UNCHANGED <<entries, idempotency, nextPosition, now, claims, jobs, partials>>
    BY DEF queueVars, serviceVars
  <1>2. QueueProofs!QueueInvariant'
    BY <1>1, QueueAssumed, QueueProofs!InvariantStep DEF Parts, QueueProofs!vars
  <1>3. ServiceInvariant'
    BY <1>1 DEF Parts, ServiceInvariant, Service!TypeOK, Service!JobsValid,
                Service!PartialsMatchStatus
  <1> QED
    BY <1>2, <1>3 DEF Parts

\* A restarted process begins with an empty queue and an empty service.
LEMMA RestartKeepsParts ==
  ASSUME Parts, Restart
  PROVE  Parts'
  <1>1. QueueProofs!QueueInvariant'
    BY DEF Parts, Restart, QueueProofs!QueueInvariant, QueueProofs!TypeOK,
           QueueProofs!EntriesValid, QueueProofs!PositionsUnique,
           QueueProofs!KeyNamesOneJob, QueueProofs!NoOvertakenFirstAttempt,
           QueueProofs!OneClaimPerAttempt
  <1>2. ServiceInvariant'
    BY DEF Restart, ServiceInvariant, Service!TypeOK, Service!JobsValid,
           Service!PartialsMatchStatus
  <1>3. RecordTyped'
    BY DEF Parts, Restart, RecordTyped, recordVars
  <1> QED
    BY <1>1, <1>2, <1>3 DEF Parts


\* Every step is a use case that begins or was cut, one that ends, or the rest
\* of the application; each keeps the parts.
LEMMA StepShape ==
  ASSUME Parts, [Next]_vars
  PROVE  /\ Parts'
         /\ \/ \E id, f : Begun(id, f)
            \/ \E id : Cut(id)
            \/ Persist
            \/ OtherUpdate
            \/ \E s \in Segments : FinalizeSegment(s)
            \/ Restart
            \/ UNCHANGED vars
  <1> DEFINE UseCase == (\E id, f : Begun(id, f)) \/ \E id : Cut(id)
  <1>1. UseCase => Parts'
    BY DEF Begun, Cut
  <1>2. ASSUME NEW r \in Queue!Request, ReplayEnqueue(r)
        PROVE  UseCase
    BY <1>2, ReplayShape
  <1>3. ASSUME NEW id \in JobIds, NEW r \in Queue!Request, EnqueueTranscription(id, r)
        PROVE  UseCase
    BY <1>3, EnqueueShape
  <1>4. ASSUME NEW id \in JobIds, NEW x \in QueueStatuses,
               \/ ClaimTranscription(id, x)
               \/ RequeueTranscription(id, x)
               \/ \E policy \in Policies : \E delay \in Queue!BackoffDelays(policy) :
                    ScheduleTranscriptionRetry(id, x, policy, delay)
        PROVE  UseCase
    <2>1. /\ Ready(id) /\ UNCHANGED <<serviceVars, torn>> /\ UNCHANGED <<recordVars, unsaved>>
          /\ Begin(id, entries[id].segment, SlotOf(id, entries'[id]))
      BY <1>4 DEF ClaimTranscription, RequeueTranscription, ScheduleTranscriptionRetry
    <2>2. QueueProofs!QueueInvariant
      BY DEF Parts
    <2>3. \/ Queue!Claim(id, x)
          \/ Queue!Requeue(id, x)
          \/ \E policy \in Policies : \E delay \in Queue!BackoffDelays(policy) :
               Queue!ScheduleRetry(id, x, policy, delay)
      BY <1>4 DEF ClaimTranscription, RequeueTranscription, ScheduleTranscriptionRetry
    <2>4. PICK f : Moves(id, f) /\ f.job = entries[id].job /\ f.err = entries[id].err
      BY <2>2, <2>3, ClaimMoves, RequeueMoves, RetryMoves
    <2> QED
      BY <2>1, <2>4, QueueOnlyShape
  <1>5. ASSUME NEW id \in JobIds, NEW x \in QueueStatuses, CancelTranscription(id, x)
        PROVE  UseCase
    BY <1>5, CancelShape
  <1>6. ASSUME NEW id \in JobIds,
               \/ StartTranscription(id)
               \/ \E u \in Service!Update : UpdateTranscriptionPartial(id, u)
               \/ CompleteTranscription(id)
               \/ \E err \in Errors : FailTranscription(id, err)
        PROVE  UseCase
    BY <1>6, CarryShape
    DEF StartTranscription, UpdateTranscriptionPartial, CompleteTranscription,
        FailTranscription
  <1>7. CASE Persist
    BY <1>7, PersistKeepsParts
  <1>8. CASE OtherUpdate \/ \E s \in Segments : FinalizeSegment(s)
    <2>1. RecordTyped' /\ UNCHANGED <<queueVars, serviceVars>>
      BY <1>8, MovedTyped DEF OtherUpdate, FinalizeSegment, Parts, RecordTyped, recordVars
    <2> QED
      BY <1>8, <2>1, RecordOnlyKeepsParts
  <1>9. CASE Restart
    BY <1>9, RestartKeepsParts
  <1>10. CASE UNCHANGED vars
    <2>1. RecordTyped' /\ UNCHANGED <<queueVars, serviceVars>>
      BY <1>10 DEF vars, recordVars, Parts, RecordTyped
    <2> QED
      BY <1>10, <2>1, RecordOnlyKeepsParts
  <1> QED
    BY <1>1, <1>2, <1>3, <1>4, <1>5, <1>6, <1>7, <1>8, <1>9, <1>10 DEF Next, Persist

LEMMA PartsInit ==
  ASSUME Init PROVE Parts
  <1>1. QueueProofs!QueueInvariant
    <2>1. QueueProofs!Init
      BY DEF Init, Queue!Init, QueueProofs!Init
    <2> QED
      BY <2>1, QueueAssumed, QueueProofs!InvariantInit
  <1>2. ServiceInvariant
    BY DEF Init, Service!Init, ServiceInvariant, Service!TypeOK, Service!JobsValid,
           Service!PartialsMatchStatus
  <1>3. RecordTyped
    BY DEF Init, RecordTyped, TranscriptionStatuses
  <1> QED
    BY <1>1, <1>2, <1>3 DEF Parts

LEMMA PartsHold == Spec => []Parts
  BY PartsInit, StepShape, PTL DEF Spec

\* The composed state is typed, and the service's jobs stay valid, under every
\* sequence of use cases, those cut half way included.
THEOREM IntegrationTypeCorrect == Spec => []TypeOK
  <1>1. Parts => TypeOK
    <2> SUFFICES ASSUME Parts PROVE TypeOK
      OBVIOUS
    <2>1. Queue!TypeOK
      BY SameTypes DEF Parts, QueueProofs!QueueInvariant
    <2>2. pending # NoWrite =>
            /\ pending.job \in JobIds /\ pending.finalized \subseteq Segments
            /\ DOMAIN pending.slots \subseteq Segments
            /\ pending.slots \in [DOMAIN pending.slots -> Slot]
            /\ pending.aggregate \in TranscriptionStatuses
            /\ pending.stale \in BOOLEAN
      <3> SUFFICES ASSUME pending \in Writes
                   PROVE  /\ pending.job \in JobIds /\ pending.finalized \subseteq Segments
                          /\ DOMAIN pending.slots \subseteq Segments
                          /\ pending.slots \in [DOMAIN pending.slots -> Slot]
                          /\ pending.aggregate \in TranscriptionStatuses
                          /\ pending.stale \in BOOLEAN
        BY DEF Parts, RecordTyped
      <3>1. PICK D \in SUBSET Segments : pending.slots \in [D -> Slot]
        BY DEF Writes
      <3> QED
        BY <3>1 DEF Writes
    <2> QED
      BY <2>1, <2>2 DEF TypeOK, Parts, RecordTyped, ServiceInvariant
  <1> QED
    BY <1>1, PartsHold, PTL

\* What was proved of the queue alone holds of it here: the use cases call it
\* only as its own specification allows, whatever is cut or restarted.
THEOREM QueueGuaranteesKept ==
  Spec => []( /\ QueueProofs!EntriesValid
              /\ QueueProofs!KeyNamesOneJob
              /\ QueueProofs!NoOvertakenFirstAttempt
              /\ QueueProofs!OneClaimPerAttempt )
  <1>1. Parts => /\ QueueProofs!EntriesValid /\ QueueProofs!KeyNamesOneJob
                 /\ QueueProofs!NoOvertakenFirstAttempt /\ QueueProofs!OneClaimPerAttempt
    BY DEF Parts, QueueProofs!QueueInvariant
  <1> QED
    BY <1>1, PartsHold, PTL


-----------------------------------------------------------------------------
(* The service and the queue.                                              *)

ResultsAgree == \A id \in DOMAIN entries : Agree(id)

\* A use case settles or tears the one job it is about.
LEMMA AgreeStep ==
  ASSUME Parts, ResultsAgree, [Next]_vars
  PROVE  ResultsAgree'
  <1>1. ASSUME NEW id, OthersStay(id), id \in DOMAIN entries' => Agree(id)'
        PROVE  ResultsAgree'
    <2> SUFFICES ASSUME NEW j \in DOMAIN entries', j # id PROVE Agree(j)'
      BY <1>1 DEF ResultsAgree
    <2>1. /\ j \in DOMAIN entries /\ entries'[j] = entries[j]
          /\ j \in torn' <=> j \in torn
          /\ j \in DOMAIN jobs => j \in DOMAIN jobs' /\ jobs'[j] = jobs[j]
      BY <1>1 DEF OthersStay
    <2>2. Agree(j)
      BY <2>1 DEF ResultsAgree
    <2> QED
      BY <2>1, <2>2 DEF Agree
  <1>2. ASSUME NEW id, NEW f, Begun(id, f)
        PROVE  ResultsAgree'
    BY <1>1, <1>2 DEF Begun, ResultsAgree
  <1>3. ASSUME NEW id, Cut(id)
        PROVE  ResultsAgree'
    BY <1>1, <1>3 DEF Cut, Agree
  <1>4. CASE UNCHANGED <<entries, jobs, torn>>
    BY <1>4 DEF ResultsAgree, Agree
  <1>5. CASE Restart
    BY <1>5 DEF Restart, ResultsAgree
  <1> QED
    BY <1>2, <1>3, <1>4, <1>5, StepShape
    DEF Persist, PersistCommits, PersistFails, PersistUnreported, OtherUpdate,
        FinalizeSegment, vars, queueVars, serviceVars

\* Only a use case that was cut between the two leaves the service and the
\* queue with different results for a job.
THEOREM ServiceAndQueueStayInStep == Spec => []ServiceAndQueueAgree
  <1>1. Init => ResultsAgree
    BY DEF Init, Queue!Init, ResultsAgree
  <1>2. ResultsAgree => ServiceAndQueueAgree
    BY DEF ResultsAgree, Agree, ServiceAndQueueAgree
  <1> QED
    BY <1>1, <1>2, AgreeStep, PartsHold, PTL DEF Spec

-----------------------------------------------------------------------------
(* The record.                                                             *)

\* While nobody has moved the record, what is about to be written is the
\* record that is there, with the job as the queue has it.
PendingCurrent ==
  pending # NoWrite =>
    LET id == pending.job IN
    /\ id \in DOMAIN entries
    /\ ~pending.stale =>
         pending = Mapped(id, entries[id].segment, SlotOf(id, entries[id]))

\* A job is summarised only in its own segment.
ShownAtHome ==
  \A s \in DOMAIN slots : slots[s].id \in DOMAIN entries => entries[slots[s].id].segment = s

\* RecordAgrees, while a use case is about to write of another job too.
SummariesCurrent ==
  \A s \in DOMAIN slots :
    LET id == slots[s].id IN
    id \in DOMAIN entries \ unsaved /\ (pending = NoWrite \/ pending.job # id)
      => slots[s] = SlotOf(id, entries[id])

\* RecordNeverAhead, in the words of the queue's moves.
SummariesReached ==
  \A s \in DOMAIN slots :
    slots[s].id \in DOMAIN entries => Forward(slots[s], entries[slots[s].id])

RecordInvariant ==
  PendingCurrent /\ ShownAtHome /\ SummariesCurrent /\ SummariesReached /\ AggregateDerived

\* A job may be hidden by another of its segment that a key brought back, or
\* that has another model.
MayHide(j, id) == entries[j].key # NoKey \/ entries[j].model # entries[id].model

Waits(id) ==
  id \in DOMAIN entries \ (torn \cup unsaved) /\ QueueProofs!SchedulingActive(entries[id])

\* Waiting work is in the record, or hidden there.
Covered ==
  \A id \in DOMAIN entries :
    LET s == entries[id].segment IN
    Waits(id) /\ (pending = NoWrite \/ pending.job # id) =>
      /\ s \in DOMAIN slots
      /\ \/ slots[s].id = id
         \/ slots[s].id \in DOMAIN entries /\ MayHide(slots[s].id, id)

\* The job about to be written may hide the waiting work of its segment.
WriteMayHide ==
  pending # NoWrite =>
    \A id \in DOMAIN entries :
      Waits(id) /\ id # pending.job /\ entries[id].segment = entries[pending.job].segment
        => MayHide(pending.job, id)

ShownInvariant == RecordInvariant /\ Covered /\ WriteMayHide


\* Being as far is an order.
LEMMA ForwardOrder ==
  /\ \A e : e.attempt \in Nat => Forward(e, e)
  /\ \A e, f, g : /\ e.attempt \in Nat /\ f.attempt \in Nat /\ g.attempt \in Nat
                  /\ Forward(e, f) /\ Forward(f, g)
                  => Forward(e, g)
  <1>1. \A q, j : Phase(q, j) \in Nat
    BY DEF Phase
  <1> QED
    BY <1>1 DEF Forward

\* What the record shows and what is mapped into it, unfolded.
LEMMA RecordKnown ==
  ASSUME Parts
  PROVE  /\ \A s \in DOMAIN slots : slots[s] \in Slot /\ slots[s].attempt \in Nat
         /\ \A id \in DOMAIN entries : /\ entries[id] \in QueueProofs!Entry /\ id \in JobIds
                                       /\ entries[id].attempt \in Nat
         /\ \A id, e : /\ SlotOf(id, e).id = id /\ SlotOf(id, e).attempt = e.attempt
                       /\ SlotOf(id, e).queue = e.queue /\ SlotOf(id, e).job = e.job
         /\ \A id, s, slot :
              LET w == Mapped(id, s, slot) IN
              /\ w.job = id /\ w.finalized = finalized /\ ~w.stale
              /\ w.slots = Extend(slots, s, slot)
              /\ w.aggregate = AggregateTranscriptionStatus(finalized, w.slots)
  <1>1. \A s \in DOMAIN slots : slots[s] \in Slot /\ slots[s].attempt \in Nat
    BY DEF Parts, RecordTyped, Slot
  <1>2. \A id \in DOMAIN entries : /\ entries[id] \in QueueProofs!Entry /\ id \in JobIds
                                   /\ entries[id].attempt \in Nat
    BY EntryKnown DEF Parts, QueueProofs!Entry
  <1> QED
    BY <1>1, <1>2 DEF SlotOf, Mapped

\* Beginning an update: the record is as it was, the job moved forward.
LEMMA BegunKeepsRecord ==
  ASSUME Parts, RecordInvariant, NEW id, NEW f, Begun(id, f)
  PROVE  RecordInvariant'
  <1>1. /\ Parts' /\ pending = NoWrite /\ OthersStay(id)
        /\ id \in DOMAIN entries' /\ entries'[id] = f /\ f \in QueueProofs!Entry
        /\ pending' = Mapped(id, f.segment, SlotOf(id, f))
        /\ UNCHANGED <<finalized, slots, aggregate, unsaved>>
    BY DEF Begun, Idle, OthersStay, recordVars
  <1>2. ASSUME NEW s \in DOMAIN slots, slots[s].id \in DOMAIN entries'
        PROVE  /\ slots[s].id \in DOMAIN entries
               /\ entries'[slots[s].id].segment = s
               /\ Forward(slots[s], entries'[slots[s].id])
               /\ slots[s].id # id => entries'[slots[s].id] = entries[slots[s].id]
    <2> DEFINE j == slots[s].id
    <2>1. j \in DOMAIN entries
      BY <1>1, <1>2 DEF Begun, OthersStay, ShownIn
    <2>2. entries[j].segment = s /\ Forward(slots[s], entries[j])
      BY <2>1 DEF RecordInvariant, ShownAtHome, SummariesReached
    <2>3. CASE j # id
      BY <1>1, <2>1, <2>2, <2>3 DEF OthersStay
    <2>4. CASE j = id
      <3>1. QueueProofs!SameIdentity(entries[id], f) /\ Forward(entries[id], f)
        BY <2>1, <2>4 DEF Begun
      <3>2. /\ slots[s].attempt \in Nat /\ entries[id].attempt \in Nat
            /\ entries'[id].attempt \in Nat
        BY <1>1, <2>1, <2>4, RecordKnown DEF QueueProofs!Entry
      <3>3. Forward(slots[s], f)
        BY <1>1, <2>2, <2>4, <3>1, <3>2, ForwardOrder
      <3> QED
        BY <1>1, <2>1, <2>2, <2>4, <3>1, <3>3 DEF QueueProofs!SameIdentity
    <2> QED
      BY <2>3, <2>4
  <1>3. PendingCurrent'
    <2>1. pending'.job = id
      BY <1>1, RecordKnown
    <2>2. pending' = Mapped(id, f.segment, SlotOf(id, f))'
      BY <1>1 DEF Mapped, SlotOf
    <2> QED
      BY <1>1, <2>1, <2>2 DEF PendingCurrent
  <1>4. ShownAtHome'
    BY <1>1, <1>2 DEF ShownAtHome
  <1>5. SummariesCurrent'
    <2>0. pending' # NoWrite /\ pending'.job = id
      BY <1>1, MappedTyped, RecordKnown DEF Parts, OthersStay
    <2> SUFFICES ASSUME NEW s \in DOMAIN slots, slots[s].id \in DOMAIN entries' \ unsaved,
                        slots[s].id # id
                 PROVE  slots[s] = SlotOf(slots[s].id, entries'[slots[s].id])
      BY <1>1, <2>0 DEF SummariesCurrent, SlotOf
    <2>1. slots[s] = SlotOf(slots[s].id, entries[slots[s].id])
      BY <1>1, <1>2 DEF RecordInvariant, SummariesCurrent
    <2> QED
      BY <1>2, <2>1
  <1>6. SummariesReached'
    BY <1>1, <1>2 DEF SummariesReached, Forward
  <1>7. AggregateDerived'
    BY <1>1 DEF RecordInvariant, AggregateDerived
  <1> QED
    BY <1>3, <1>4, <1>5, <1>6, <1>7 DEF RecordInvariant

\* A cut use case changed no entry the record shows.
LEMMA CutKeepsRecord ==
  ASSUME Parts, RecordInvariant, NEW id, Cut(id)
  PROVE  RecordInvariant'
  <1>1. /\ pending = NoWrite /\ pending' = NoWrite /\ OthersStay(id)
        /\ UNCHANGED <<finalized, slots, aggregate, unsaved>>
    BY DEF Cut, Idle, OthersStay, recordVars
  <1>2. ASSUME NEW s \in DOMAIN slots, slots[s].id \in DOMAIN entries'
        PROVE  /\ slots[s].id \in DOMAIN entries
               /\ entries'[slots[s].id] = entries[slots[s].id]
    BY <1>2 DEF Cut, OthersStay, ShownIn
  <1>3. PendingCurrent'
    BY <1>1 DEF PendingCurrent
  <1>4. ShownAtHome'
    BY <1>1, <1>2 DEF ShownAtHome, RecordInvariant
  <1>5. SummariesCurrent'
    BY <1>1, <1>2 DEF SummariesCurrent, RecordInvariant, SlotOf
  <1>6. SummariesReached'
    BY <1>1, <1>2 DEF SummariesReached, RecordInvariant, Forward
  <1>7. AggregateDerived'
    BY <1>1 DEF RecordInvariant, AggregateDerived
  <1> QED
    BY <1>3, <1>4, <1>5, <1>6, <1>7 DEF RecordInvariant


\* What a write installs: the job's own segment changes, nothing else does.
LEMMA InstallShape ==
  ASSUME Parts, RecordInvariant, Writable, Install
  PROVE  LET id == pending.job
             home == entries[id].segment IN
         /\ id \in DOMAIN entries /\ finalized' = finalized
         /\ slots' = Extend(slots, home, SlotOf(id, entries[id]))
         /\ DOMAIN slots' = DOMAIN slots \cup {home}
         /\ slots'[home] = SlotOf(id, entries[id]) /\ slots'[home].id = id
         /\ \A s \in DOMAIN slots : s # home => slots'[s] = slots[s]
         /\ aggregate' = AggregateTranscriptionStatus(finalized', slots')
  <1> DEFINE id == pending.job
             home == entries[id].segment
             w == Mapped(id, home, SlotOf(id, entries[id]))
  <1>1. id \in DOMAIN entries /\ pending = w
    BY DEF RecordInvariant, PendingCurrent, Writable
  <1>2. /\ w.finalized = finalized
        /\ w.slots = Extend(slots, home, SlotOf(id, entries[id]))
        /\ w.aggregate = AggregateTranscriptionStatus(finalized, w.slots)
    BY RecordKnown
  <1> HIDE DEF w
  <1>3. /\ finalized' = finalized
        /\ slots' = Extend(slots, home, SlotOf(id, entries[id]))
        /\ aggregate' = AggregateTranscriptionStatus(finalized', slots')
    BY <1>1, <1>2 DEF Install
  <1>4. SlotOf(id, entries[id]).id = id
    BY RecordKnown
  <1> HIDE DEF id, home
  <1>5. /\ DOMAIN slots' = DOMAIN slots \cup {home}
        /\ slots'[home] = SlotOf(id, entries[id])
        /\ \A s \in DOMAIN slots : s # home => slots'[s] = slots[s]
    BY <1>3 DEF Extend
  <1> QED
    BY <1>1, <1>3, <1>4, <1>5 DEF id, home

\* A write shows its job as the queue has it, and every other as before; one
\* that fails makes its job uncertain.
LEMMA PersistKeepsRecord ==
  ASSUME Parts, RecordInvariant, Persist
  PROVE  RecordInvariant'
  <1> DEFINE id == pending.job
  <1>1. /\ UNCHANGED <<entries, jobs, torn>> /\ pending' = NoWrite /\ pending # NoWrite
        /\ id \in DOMAIN entries
    BY DEF Persist, PersistCommits, PersistFails, PersistUnreported, Writable, queueVars,
           serviceVars, RecordInvariant, PendingCurrent
  <1>2. PendingCurrent'
    BY <1>1 DEF PendingCurrent
  <1>3. CASE /\ Writable /\ Install
             /\ unsaved' = unsaved \ {id} \/ unsaved' = unsaved \cup {id}
    <2> DEFINE home == entries[id].segment
    <2>1. /\ slots' = Extend(slots, home, SlotOf(id, entries[id]))
          /\ DOMAIN slots' = DOMAIN slots \cup {home}
          /\ slots'[home] = SlotOf(id, entries[id]) /\ slots'[home].id = id
          /\ \A s \in DOMAIN slots : s # home => slots'[s] = slots[s]
          /\ aggregate' = AggregateTranscriptionStatus(finalized', slots')
      BY <1>3, InstallShape
    <2>2. Forward(SlotOf(id, entries[id]), entries[id])
      BY <1>1, RecordKnown, ForwardOrder DEF Forward
    <2>3. ShownAtHome'
      BY <1>1, <2>1 DEF ShownAtHome, RecordInvariant
    <2>4. SummariesCurrent'
      <3> SUFFICES ASSUME NEW s \in DOMAIN slots', slots'[s].id \in DOMAIN entries \ unsaved'
                   PROVE  slots'[s] = SlotOf(slots'[s].id, entries[slots'[s].id])
        BY <1>1 DEF SummariesCurrent, SlotOf
      <3>1. CASE s = home
        BY <2>1, <3>1
      <3>2. CASE s # home
        <4>1. s \in DOMAIN slots /\ slots'[s] = slots[s]
          BY <2>1, <3>2
        <4>2. slots[s].id # id
          BY <1>1, <3>2, <4>1 DEF RecordInvariant, ShownAtHome
        <4>3. slots[s].id \in DOMAIN entries \ unsaved
          BY <1>3, <4>1, <4>2
        <4> QED
          BY <4>1, <4>2, <4>3 DEF RecordInvariant, SummariesCurrent
      <3> QED
        BY <3>1, <3>2
    <2>5. SummariesReached'
      <3> SUFFICES ASSUME NEW s \in DOMAIN slots', slots'[s].id \in DOMAIN entries
                   PROVE  Forward(slots'[s], entries[slots'[s].id])
        BY <1>1 DEF SummariesReached, Forward
      <3>1. CASE s = home
        BY <2>1, <2>2, <3>1
      <3>2. CASE s # home
        BY <2>1, <3>2 DEF RecordInvariant, SummariesReached
      <3> QED
        BY <3>1, <3>2
    <2>6. AggregateDerived'
      BY <2>1 DEF AggregateDerived
    <2> QED
      BY <1>2, <2>3, <2>4, <2>5, <2>6 DEF RecordInvariant
  <1>4. CASE PersistFails
    <2>1. unsaved' = unsaved \cup {id} /\ UNCHANGED <<finalized, slots, aggregate>>
      BY <1>4 DEF PersistFails, recordVars
    <2>2. ShownAtHome' /\ AggregateDerived'
      BY <1>1, <2>1 DEF ShownAtHome, AggregateDerived, RecordInvariant
    <2>3. SummariesCurrent'
      BY <1>1, <2>1 DEF SummariesCurrent, RecordInvariant, SlotOf
    <2>4. SummariesReached'
      BY <1>1, <2>1 DEF SummariesReached, RecordInvariant, Forward
    <2> QED
      BY <1>2, <2>2, <2>3, <2>4 DEF RecordInvariant
  <1> QED
    BY <1>3, <1>4 DEF Persist, PersistCommits, PersistUnreported

\* Other use cases overtake what is about to be written; one that finalizes a
\* segment keeps the aggregate the one its segments yield.
LEMMA MovedKeepsRecord ==
  ASSUME Parts, RecordInvariant,
         OtherUpdate \/ \E s \in Segments : FinalizeSegment(s)
  PROVE  RecordInvariant'
  <1>1. /\ UNCHANGED <<entries, slots, aggregate, torn, unsaved>>
        /\ pending' = MovedPending
        /\ aggregate' = AggregateTranscriptionStatus(finalized', slots')
    BY DEF OtherUpdate, FinalizeSegment, queueVars, recordVars, RecordInvariant,
           AggregateDerived
  <1>2. /\ pending = NoWrite <=> pending' = NoWrite
        /\ pending # NoWrite => pending'.stale /\ pending'.job = pending.job
    BY <1>1, MovedTyped DEF Parts
  <1>3. PendingCurrent'
    BY <1>1, <1>2 DEF PendingCurrent, RecordInvariant
  <1>4. ShownAtHome' /\ AggregateDerived'
    BY <1>1 DEF ShownAtHome, AggregateDerived, RecordInvariant
  <1>5. SummariesCurrent'
    BY <1>1, <1>2 DEF SummariesCurrent, RecordInvariant, SlotOf
  <1>6. SummariesReached'
    BY <1>1 DEF SummariesReached, RecordInvariant, Forward
  <1> QED
    BY <1>3, <1>4, <1>5, <1>6 DEF RecordInvariant

LEMMA RecordStep ==
  ASSUME Parts, RecordInvariant, [Next]_vars
  PROVE  RecordInvariant'
  <1>1. CASE Restart
    BY <1>1
    DEF Restart, recordVars, RecordInvariant, PendingCurrent, ShownAtHome,
        SummariesCurrent, SummariesReached, AggregateDerived
  <1>2. CASE UNCHANGED vars
    BY <1>2
    DEF vars, queueVars, recordVars, RecordInvariant, PendingCurrent, ShownAtHome,
        SummariesCurrent, SummariesReached, AggregateDerived, Mapped, SlotOf, Forward
  <1> QED
    BY <1>1, <1>2, StepShape, BegunKeepsRecord, CutKeepsRecord, PersistKeepsRecord,
       MovedKeepsRecord

LEMMA RecordInit ==
  ASSUME Init PROVE RecordInvariant
  <1>1. AggregateTranscriptionStatus({}, slots) = "not_started"
    BY DEF AggregateTranscriptionStatus
  <1> QED
    BY <1>1
    DEF Init, Queue!Init, RecordInvariant, PendingCurrent, ShownAtHome, SummariesCurrent,
        SummariesReached, AggregateDerived

LEMMA RecordInvariantHolds == Spec => []RecordInvariant
  BY RecordInit, RecordStep, PartsHold, PTL DEF Spec


\* Whatever was cut, lost or overtaken, the durable record is never ahead of
\* the queue, equals it where no update was uncertain, and its session-level
\* status is the one its segments yield.
THEOREM RecordStaysFaithful == Spec => []RecordFaithful
  <1>1. Parts /\ RecordInvariant => RecordFaithful
    <2> SUFFICES ASSUME Parts, RecordInvariant PROVE RecordFaithful
      OBVIOUS
    <2>1. RecordAgrees
      BY DEF RecordInvariant, SummariesCurrent, ShownAtHome, RecordAgrees, Idle
    <2>2. RecordNeverAhead
      <3> SUFFICES ASSUME NEW s \in DOMAIN slots, slots[s].id \in DOMAIN entries
                   PROVE  LET e == entries[slots[s].id] IN
                          \/ slots[s].attempt < e.attempt
                          \/ /\ slots[s].attempt = e.attempt
                             /\ Phase(slots[s].queue, slots[s].job) <= Phase(e.queue, e.job)
                             /\ slots[s].job = "completed" => e.job = "completed"
        BY DEF RecordNeverAhead
      <3>1. Forward(slots[s], entries[slots[s].id])
        BY DEF RecordInvariant, SummariesReached
      <3> QED
        BY <3>1 DEF Forward
    <2> QED
      BY <2>1, <2>2 DEF RecordFaithful, RecordInvariant
  <1> QED
    BY <1>1, PartsHold, RecordInvariantHolds, PTL

\* No use case overwrites what another one wrote since it read the record.
THEOREM UpdatesKept == Spec => NoLostUpdate
  <1>1. Parts /\ RecordInvariant /\ [Next]_vars =>
          [finalized \subseteq finalized' /\ DOMAIN slots \subseteq DOMAIN slots']_vars
    <2> SUFFICES ASSUME Parts, RecordInvariant, [Next]_vars
                 PROVE  finalized \subseteq finalized' /\ DOMAIN slots \subseteq DOMAIN slots'
      OBVIOUS
    <2>1. CASE UNCHANGED slots /\ finalized \subseteq finalized'
      BY <2>1
    <2>2. CASE Writable /\ Install
      BY <2>2, InstallShape
    <2> QED
      BY <2>1, <2>2, StepShape
      DEF Begun, Cut, OthersStay, Persist, PersistCommits, PersistFails, PersistUnreported,
          OtherUpdate, FinalizeSegment, Restart, vars, recordVars
  <1> QED
    BY <1>1, PartsHold, RecordInvariantHolds, PTL DEF Spec, NoLostUpdate

-----------------------------------------------------------------------------
(* Waiting work and the record's one place for each segment.               *)

\* Entries keep their key and model, so who may hide whom does not change.
LEMMA BegunKeepsShown ==
  ASSUME Parts, ShownInvariant, NEW id, NEW f, Begun(id, f)
  PROVE  Covered' /\ WriteMayHide'
  <1>1. /\ Parts' /\ pending = NoWrite /\ OthersStay(id)
        /\ id \in DOMAIN entries' /\ entries'[id] = f /\ f \in QueueProofs!Entry
        /\ pending' = Mapped(id, f.segment, SlotOf(id, f)) /\ id \in JobIds
        /\ UNCHANGED <<slots, unsaved>>
    BY DEF Begun, Idle, OthersStay, recordVars
  <1>2. pending' # NoWrite /\ pending'.job = id
    BY <1>1, MappedTyped, RecordKnown DEF Parts
  <1>3. ASSUME NEW j \in DOMAIN entries', Waits(j)', j # id
        PROVE  j \in DOMAIN entries /\ Waits(j) /\ entries'[j] = entries[j]
    BY <1>1, <1>3 DEF OthersStay, Waits, QueueProofs!SchedulingActive
  <1>4. ASSUME NEW j \in DOMAIN entries
        PROVE  /\ j \in DOMAIN entries' /\ entries'[j].key = entries[j].key
               /\ entries'[j].model = entries[j].model
               /\ entries'[j].segment = entries[j].segment
    <2>1. CASE j = id
      BY <1>1, <2>1 DEF Begun, QueueProofs!SameIdentity, QueueProofs!SameSource
    <2>2. CASE j # id
      BY <1>1, <2>2 DEF OthersStay
    <2> QED
      BY <2>1, <2>2
  <1> DEFINE Hidden(i, j) == entries'[i].key # NoKey \/ entries'[i].model # entries'[j].model
  <1>5. ASSUME NEW j \in DOMAIN entries', Waits(j)', j # id
        PROVE  /\ entries'[j].segment \in DOMAIN slots
               /\ LET i == slots[entries'[j].segment].id IN
                  i = j \/ (i \in DOMAIN entries' /\ Hidden(i, j))
    <2> DEFINE s == entries[j].segment
    <2>1. /\ s \in DOMAIN slots
          /\ slots[s].id = j \/ (slots[s].id \in DOMAIN entries /\ MayHide(slots[s].id, j))
      BY <1>1, <1>3, <1>5 DEF ShownInvariant, Covered
    <2>2. j \in DOMAIN entries /\ entries'[j].segment = s
      BY <1>3, <1>5
    <2>3. \A i \in DOMAIN entries : MayHide(i, j) => i \in DOMAIN entries' /\ Hidden(i, j)
      BY <1>4, <2>2 DEF MayHide
    <2> QED
      BY <2>1, <2>2, <2>3
  <1>6. Covered'
    <2> SUFFICES ASSUME NEW j \in DOMAIN entries', Waits(j)', j # id
                 PROVE  /\ entries'[j].segment \in DOMAIN slots'
                        /\ LET i == slots'[entries'[j].segment].id IN
                           i = j \/ (i \in DOMAIN entries' /\ Hidden(i, j))
      BY <1>1, <1>2 DEF Covered, MayHide
    <2> QED
      BY <1>1, <1>5
  <1>7. ASSUME NEW j \in DOMAIN entries', Waits(j)', j # id, entries'[j].segment = f.segment
        PROVE  Hidden(id, j)
    <2>1. j \in DOMAIN entries /\ Waits(j) /\ entries'[j] = entries[j]
      BY <1>3, <1>7
    <2>2. CASE f.segment \in DOMAIN slots /\ slots[f.segment].id = id
      BY <1>5, <1>7, <2>2
    <2>3. CASE f.key # NoKey
      BY <1>1, <2>3
    <2>4. CASE \A i \in DOMAIN entries :
                 /\ QueueProofs!SchedulingActive(entries[i])
                 /\ entries[i].segment = f.segment
                 => entries[i].model # f.model
      BY <1>1, <1>7, <2>1, <2>4 DEF Waits
    <2> QED
      BY <2>2, <2>3, <2>4 DEF Begun, MayShow
  <1>8. WriteMayHide'
    <2> SUFFICES ASSUME NEW j \in DOMAIN entries', Waits(j)', j # id,
                        entries'[j].segment = f.segment
                 PROVE  Hidden(id, j)
      BY <1>1, <1>2 DEF WriteMayHide, MayHide
    <2> QED
      BY <1>7
  <1> QED
    BY <1>6, <1>8


\* A job whose use case was cut is excused; nothing else has changed.
LEMMA CutKeepsShown ==
  ASSUME Parts, ShownInvariant, NEW id, Cut(id)
  PROVE  Covered' /\ WriteMayHide'
  <1>1. /\ pending = NoWrite /\ pending' = NoWrite /\ OthersStay(id) /\ id \in torn'
        /\ UNCHANGED <<slots, unsaved>>
        /\ \A j \in DOMAIN entries : j \in DOMAIN entries' /\ entries'[j] = entries[j]
    BY DEF Cut, Idle, OthersStay, recordVars
  <1>2. ASSUME NEW j \in DOMAIN entries', Waits(j)'
        PROVE  j \in DOMAIN entries /\ Waits(j)
    BY <1>1, <1>2 DEF OthersStay, Waits, QueueProofs!SchedulingActive
  <1>3. Covered'
    BY <1>1, <1>2 DEF Covered, MayHide, ShownInvariant
  <1> QED
    BY <1>1, <1>3 DEF WriteMayHide

\* A write puts its job in the segment's place, where it may hide the others.
LEMMA PersistKeepsShown ==
  ASSUME Parts, ShownInvariant, Persist
  PROVE  Covered' /\ WriteMayHide'
  <1> DEFINE id == pending.job
             home == entries[id].segment
  <1>1. /\ UNCHANGED <<entries, torn>> /\ pending' = NoWrite /\ pending # NoWrite
        /\ id \in DOMAIN entries /\ RecordInvariant
        /\ unsaved' = unsaved \ {id} \/ unsaved' = unsaved \cup {id}
    BY DEF Persist, PersistCommits, PersistFails, PersistUnreported, Writable, queueVars,
           ShownInvariant, RecordInvariant, PendingCurrent
  <1>2. ASSUME NEW j \in DOMAIN entries, Waits(j)', j # id
        PROVE  Waits(j)
    BY <1>1, <1>2 DEF Waits, QueueProofs!SchedulingActive
  <1> DEFINE InPlace(j) ==
        /\ entries[j].segment \in DOMAIN slots'
        /\ LET i == slots'[entries[j].segment].id IN
           i = j \/ (i \in DOMAIN entries /\ MayHide(i, j))
  <1>3. CASE Writable /\ Install
    <2>1. /\ DOMAIN slots' = DOMAIN slots \cup {home} /\ slots'[home].id = id
          /\ \A s \in DOMAIN slots : s # home => slots'[s] = slots[s]
      BY <1>1, <1>3, InstallShape
    <2>2. ASSUME NEW j \in DOMAIN entries, Waits(j)'
          PROVE  InPlace(j)
      <3>1. CASE j = id
        BY <2>1, <3>1
      <3>2. CASE j # id /\ entries[j].segment = home
        BY <1>1, <1>2, <2>1, <2>2, <3>2 DEF ShownInvariant, WriteMayHide
      <3>3. CASE j # id /\ entries[j].segment # home
        BY <1>1, <1>2, <2>1, <2>2, <3>3 DEF ShownInvariant, Covered
      <3> QED
        BY <3>1, <3>2, <3>3
    <2> QED
      BY <1>1, <2>2 DEF Covered, WriteMayHide, MayHide
  <1>4. CASE PersistFails
    <2>1. unsaved' = unsaved \cup {id} /\ UNCHANGED slots
      BY <1>4 DEF PersistFails, recordVars
    <2>2. ASSUME NEW j \in DOMAIN entries, Waits(j)'
          PROVE  InPlace(j)
      BY <1>1, <1>2, <2>1, <2>2 DEF ShownInvariant, Covered, Waits
    <2> QED
      BY <1>1, <2>2 DEF Covered, WriteMayHide, MayHide
  <1> QED
    BY <1>3, <1>4 DEF Persist, PersistCommits, PersistUnreported

LEMMA ShownStep ==
  ASSUME Parts, ShownInvariant, [Next]_vars
  PROVE  ShownInvariant'
  <1>1. RecordInvariant'
    BY RecordStep DEF ShownInvariant
  <1>2. CASE OtherUpdate \/ \E s \in Segments : FinalizeSegment(s)
    <2>1. /\ UNCHANGED <<entries, slots, torn, unsaved>> /\ pending' = MovedPending
      BY <1>2 DEF OtherUpdate, FinalizeSegment, queueVars, recordVars
    <2>2. /\ pending = NoWrite <=> pending' = NoWrite
          /\ pending # NoWrite => pending'.job = pending.job
      BY <2>1, MovedTyped DEF Parts
    <2>3. Covered' /\ WriteMayHide'
      BY <2>1, <2>2
      DEF ShownInvariant, Covered, WriteMayHide, Waits, MayHide,
          QueueProofs!SchedulingActive
    <2> QED
      BY <1>1, <2>3 DEF ShownInvariant
  <1>3. CASE Restart
    BY <1>1, <1>3 DEF Restart, ShownInvariant, Covered, WriteMayHide
  <1>4. CASE UNCHANGED vars
    BY <1>1, <1>4
    DEF vars, queueVars, recordVars, ShownInvariant, Covered, WriteMayHide, Waits, MayHide,
        QueueProofs!SchedulingActive
  <1> QED
    BY <1>1, <1>2, <1>3, <1>4, StepShape, BegunKeepsShown, CutKeepsShown,
       PersistKeepsShown
    DEF ShownInvariant

\* Work that waits is the work the record shows for its segment, unless its
\* own updates were uncertain, or the record's one place for the segment is
\* held by a job that a key brought back, or that has another model.
THEOREM WaitingWorkShown == Spec => []ActiveJobShown
  <1>1. Init => ShownInvariant
    BY RecordInit DEF Init, Queue!Init, ShownInvariant, Covered, WriteMayHide
  <1>2. ShownInvariant => ActiveJobShown
    <2> SUFFICES ASSUME ShownInvariant, Idle,
                        NEW id \in DOMAIN entries \ (torn \cup unsaved),
                        Queue!SchedulingActive(entries[id])
                 PROVE  \/ ShownIn(id) # {}
                        \/ \E j \in DOMAIN entries :
                             /\ ShownIn(j) = {entries[id].segment}
                             /\ \/ entries[j].key # NoKey
                                \/ entries[j].model # entries[id].model
      BY DEF ActiveJobShown
    <2> DEFINE s == entries[id].segment
    <2>1. /\ s \in DOMAIN slots
          /\ slots[s].id = id \/ (slots[s].id \in DOMAIN entries /\ MayHide(slots[s].id, id))
      BY SameWords DEF ShownInvariant, Covered, Waits, Idle
    <2>2. CASE slots[s].id = id
      BY <2>1, <2>2 DEF ShownIn
    <2>3. CASE slots[s].id \in DOMAIN entries /\ MayHide(slots[s].id, id)
      <3> DEFINE j == slots[s].id
      <3>1. ShownIn(j) = {s}
        BY <2>1, <2>3 DEF ShownIn, ShownInvariant, RecordInvariant, ShownAtHome
      <3> QED
        BY <2>3, <3>1 DEF MayHide
    <2> QED
      BY <2>1, <2>2, <2>3
  <1> QED
    BY <1>1, <1>2, ShownStep, PartsHold, PTL DEF Spec

-----------------------------------------------------------------------------
(***************************************************************************)
(* The update of the record, which is one step for the integration and     *)
(* many in RuntimeUpdate, for any callers.                                 *)
(*                                                                         *)
(* RecordWhole and AnswersHonest hold in any processes.  They do not need  *)
(* the path lock: a record is whole because its temporary file is          *)
(* synchronised before it is renamed, and an answer is honest because each *)
(* call knows whether it has renamed.  OneWinnerWithinProcess and          *)
(* ImplementsRegister do need it: they hold for callers of one process.    *)
(***************************************************************************)


\* From its first comparison to its rename a call has not landed; after the
\* rename it has.
Before == {"loaded", "checked", "locked", "compared", "written", "closed", "rechecked"}
After == {"renamed", "unsynced", "applied"}

\* A call that is under way has returned nothing yet.
Answering ==
  \A c \in Callers :
    /\ pc[c] # "idle" => outcome[c] = "none"
    /\ pc[c] \in Before => ~landed[c]
    /\ pc[c] \in After => landed[c]

SyncedBeforeRename ==
  \A c \in Callers : pc[c] \in {"closed", "rechecked"} => synced[c]

UpdateInvariant ==
  UpdateTypeOK /\ NeverIncomplete /\ OutcomeHonest /\ Answering /\ SyncedBeforeRename

-----------------------------------------------------------------------------
LEMMA ProposedVersion ==
  ASSUME UpdateTypeOK, NEW c \in Callers
  PROVE  /\ Proposed(c) \in Version /\ Proposed(c).whole
         /\ Remains(c) \subseteq Version
         /\ synced[c] => Remains(c) = {Proposed(c)}
  <1>1. base[c].revision \in Nat \ {0}
    BY DEF UpdateTypeOK, Version
  <1>2. base[c].revision + 1 \in Nat \ {0}
    BY <1>1
  <1>3. Proposed(c) \in Version /\ Proposed(c).whole
    BY <1>2 DEF Proposed, Version
  <1>4. [Proposed(c) EXCEPT !.whole = FALSE] \in Version
    BY <1>2 DEF Proposed, Version
  <1> QED
    BY <1>3, <1>4 DEF Remains

LEMMA InitHolds == UpdateInit => UpdateInvariant
  <1> SUFFICES ASSUME UpdateInit PROVE UpdateInvariant
    OBVIOUS
  <1>1. First \in Version /\ First.whole
    BY DEF First, Version
  <1> QED
    BY <1>1 DEF UpdateInit, UpdateInvariant, UpdateTypeOK, NeverIncomplete, OutcomeHonest,
                Answering, SyncedBeforeRename, Stages, Outcomes, Before, After

\* The steps of a call before its rename that go on to the next stage.
LEMMA AdvancePreserves ==
  ASSUME UpdateInvariant, NEW c \in Callers,
         \/ Load(c) \/ Check(c) \/ Acquire(c) \/ Compare(c)
         \/ WriteTemporary(c) \/ SyncTemporary(c) \/ Recheck(c)
  PROVE  UpdateInvariant'
  <1>1. CASE Load(c)
    BY <1>1 DEF UpdateInvariant, UpdateTypeOK, NeverIncomplete, OutcomeHonest, Answering,
         SyncedBeforeRename, Load, Goto, Stages, Outcomes, Before, After
  <1>2. CASE Check(c)
    BY <1>2 DEF UpdateInvariant, UpdateTypeOK, NeverIncomplete, OutcomeHonest, Answering,
         SyncedBeforeRename, Check, Goto, Stages, Before, After
  <1>3. CASE Acquire(c)
    BY <1>3 DEF UpdateInvariant, UpdateTypeOK, NeverIncomplete, OutcomeHonest, Answering,
         SyncedBeforeRename, Acquire, Goto, Stages, Before, After
  <1>4. CASE Compare(c)
    BY <1>4 DEF UpdateInvariant, UpdateTypeOK, NeverIncomplete, OutcomeHonest, Answering,
         SyncedBeforeRename, Compare, Goto, Stages, Before, After
  <1>5. CASE WriteTemporary(c)
    BY <1>5 DEF UpdateInvariant, UpdateTypeOK, NeverIncomplete, OutcomeHonest, Answering,
         SyncedBeforeRename, WriteTemporary, Goto, Stages, Before, After
  <1>6. CASE SyncTemporary(c)
    BY <1>6 DEF UpdateInvariant, UpdateTypeOK, NeverIncomplete, OutcomeHonest, Answering,
         SyncedBeforeRename, SyncTemporary, Goto, Stages, Before, After
  <1>7. CASE Recheck(c)
    BY <1>7 DEF UpdateInvariant, UpdateTypeOK, NeverIncomplete, OutcomeHonest, Answering,
         SyncedBeforeRename, Recheck, Goto, Stages, Before, After
  <1> QED
    BY <1>1, <1>2, <1>3, <1>4, <1>5, <1>6, <1>7

\* The rename, and what follows until Apply returns.
LEMMA InstallPreserves ==
  ASSUME UpdateInvariant, NEW c \in Callers,
         Rename(c) \/ SyncDirectory(c) \/ SyncDirectoryFails(c)
  PROVE  UpdateInvariant'
  <1>0. /\ Proposed(c) \in Version /\ Proposed(c).whole
        /\ Remains(c) \subseteq Version
        /\ synced[c] => Remains(c) = {Proposed(c)}
    BY ProposedVersion DEF UpdateInvariant
  <1>1. CASE Rename(c)
    <2>1. Remains(c) = {Proposed(c)}
      BY <1>0, <1>1 DEF UpdateInvariant, SyncedBeforeRename, Rename, Goto
    <2> QED
      BY <1>0, <1>1, <2>1 DEF UpdateInvariant, UpdateTypeOK, NeverIncomplete, OutcomeHonest,
           Answering, SyncedBeforeRename, Rename, Goto, Stages, Before, After
  <1>2. CASE SyncDirectory(c)
    BY <1>2, UpdateAssumption DEF UpdateAssumption, UpdateInvariant, UpdateTypeOK,
         NeverIncomplete, OutcomeHonest, Answering, SyncedBeforeRename, SyncDirectory,
         Release, Goto, Stages, Before, After
  <1>3. CASE SyncDirectoryFails(c)
    BY <1>3, UpdateAssumption DEF UpdateAssumption, UpdateInvariant, UpdateTypeOK,
         NeverIncomplete, OutcomeHonest, Answering, SyncedBeforeRename,
         SyncDirectoryFails, Release, Goto, Stages, Before, After
  <1> QED
    BY <1>1, <1>2, <1>3

\* The steps that return.
LEMMA ReturnPreserves ==
  ASSUME UpdateInvariant, NEW c \in Callers,
         Inspect(c) \/ ReadBack(c) \/ ReadBackFails(c) \/ Conflict(c) \/ Fail(c)
  PROVE  UpdateInvariant'
  <1>1. CASE Inspect(c)
    BY <1>1 DEF UpdateInvariant, UpdateTypeOK, NeverIncomplete, OutcomeHonest, Answering,
         SyncedBeforeRename, Inspect, Ends, Stages, Outcomes, Before, After
  <1>2. CASE ReadBack(c)
    <2>1. Proposed(c) \in Version
      BY ProposedVersion DEF UpdateInvariant
    <2> QED
      BY <1>2, <2>1 DEF UpdateInvariant, UpdateTypeOK, NeverIncomplete, OutcomeHonest,
           Answering, SyncedBeforeRename, ReadBack, Ends, Stages, Outcomes, Before, After
  <1>3. CASE ReadBackFails(c)
    BY <1>3 DEF UpdateInvariant, UpdateTypeOK, NeverIncomplete, OutcomeHonest, Answering,
         SyncedBeforeRename, ReadBackFails, Ends, Stages, Outcomes, Before, After
  <1>4. CASE Conflict(c)
    BY <1>4, UpdateAssumption DEF UpdateAssumption, UpdateInvariant, UpdateTypeOK,
         NeverIncomplete, OutcomeHonest, Answering, SyncedBeforeRename, Conflict,
         Release, Ends, Stages, Outcomes, Before, After
  <1>5. CASE Fail(c)
    BY <1>5, UpdateAssumption DEF UpdateAssumption, UpdateInvariant, UpdateTypeOK,
         NeverIncomplete, OutcomeHonest, Answering, SyncedBeforeRename, Fail, Holding,
         Release, Ends, Stages, Outcomes, Before, After
  <1> QED
    BY <1>1, <1>2, <1>3, <1>4, <1>5

LEMMA NextPreserves ==
  ASSUME UpdateInvariant, [UpdateNext]_updateVars
  PROVE  UpdateInvariant'
  <1>1. CASE UNCHANGED updateVars
    BY <1>1 DEF updateVars, UpdateInvariant, UpdateTypeOK, NeverIncomplete, OutcomeHonest,
         Answering, SyncedBeforeRename
  <1>2. CASE \E p \in Processes : Kill(p)
    BY <1>2 DEF UpdateInvariant, UpdateTypeOK, NeverIncomplete, OutcomeHonest, Answering,
         SyncedBeforeRename, Kill, Interrupted, Stages, Outcomes, Before, After
  <1>3. CASE LosePower
    BY <1>3 DEF UpdateInvariant, UpdateTypeOK, NeverIncomplete, OutcomeHonest, Answering,
         SyncedBeforeRename, LosePower, Interrupted, Stages, Outcomes, Before, After
  <1> QED
    BY <1>1, <1>2, <1>3, AdvancePreserves, InstallPreserves, ReturnPreserves DEF UpdateNext

LEMMA UpdateInvariantHolds == UpdateSpec => []UpdateInvariant
  BY InitHolds, NextPreserves, PTL DEF UpdateSpec

-----------------------------------------------------------------------------
\* However many processes replace the runtime record, and whenever they are
\* killed or lose power, no reader and no recovery finds it incomplete.
THEOREM RecordWhole == UpdateSpec => []NeverIncomplete
  <1>1. UpdateInvariant => NeverIncomplete
    BY DEF UpdateInvariant
  <1> QED
    BY <1>1, UpdateInvariantHolds, PTL

\* What UpdateRuntime returns is true of the file: a reported conflict or
\* failure left nothing installed, a reported result was installed.
THEOREM AnswersHonest == UpdateSpec => []OutcomeHonest
  <1>1. UpdateInvariant => OutcomeHonest
    BY DEF UpdateInvariant
  <1> QED
    BY <1>1, UpdateInvariantHolds, PTL

-----------------------------------------------------------------------------
(* One process.                                                            *)

SameProcess == \A c, d \in Callers : ProcessOf[c] = ProcessOf[d]

\* The holder of the lock is the one caller between comparison and sync.
LockHeld ==
  \A c \in Callers : pc[c] \in Holding => lock[ProcessOf[c]] = c

\* Under the lock the file does not move: it is the record the holder expects
\* and, after the rename, the one it wrote.
FileHeld ==
  \A c \in Callers :
    /\ pc[c] \in {"compared", "written", "closed", "rechecked"} => file = base[c]
    /\ pc[c] = "renamed" => file = Proposed(c)

\* Nothing a loss of power may leave is newer than the file.
ExposedBehind ==
  /\ file \in exposed
  /\ \A v \in exposed : v.revision < file.revision \/ v = file

\* Updates that are durable, reported or not.
Durable == acked \cup {Proposed(c) : c \in {d \in Callers : pc[d] = "applied"}}

\* Durable updates form a chain that whatever is in the file continues.
DurableChain ==
  /\ \A a, b \in Durable : a.revision = b.revision => a = b
  /\ \A a \in Durable : \A v \in exposed : a.revision < v.revision \/ a = v

ProcessInvariant ==
  UpdateInvariant /\ LockHeld /\ FileHeld /\ ExposedBehind /\ DurableChain

LEMMA ProcessInit == UpdateInit => ProcessInvariant
  <1> SUFFICES ASSUME UpdateInit PROVE ProcessInvariant
    OBVIOUS
  <1>1. UpdateInvariant
    BY InitHolds
  <1>2. Durable = {}
    BY DEF UpdateInit, Durable
  <1> QED
    BY <1>1, <1>2 DEF UpdateInit, ProcessInvariant, LockHeld, FileHeld, ExposedBehind,
                      DurableChain, Holding

LEMMA ChainShrinks ==
  ASSUME DurableChain, Durable' \subseteq Durable, exposed' \subseteq exposed
  PROVE  DurableChain'
  BY DEF DurableChain

\* A step of a call other than its rename or its sync leaves the file alone.
LEMMA CallPreserves ==
  ASSUME SameProcess, ProcessInvariant, UpdateInvariant', NEW c \in Callers,
         \/ Load(c) \/ Check(c) \/ Acquire(c) \/ Compare(c)
         \/ WriteTemporary(c) \/ SyncTemporary(c) \/ Recheck(c)
         \/ SyncDirectoryFails(c) \/ Inspect(c) \/ ReadBack(c) \/ ReadBackFails(c)
         \/ Conflict(c) \/ Fail(c)
  PROVE  ProcessInvariant'
  <1> USE DEF ProcessInvariant, UpdateInvariant
  <1>1. UNCHANGED <<file, exposed>>
    BY DEF Load, Check, Acquire, Compare, WriteTemporary, SyncTemporary, Recheck,
           SyncDirectoryFails, Inspect, ReadBack, ReadBackFails, Conflict, Fail
  <1>2. \A d \in Callers \ {c} : pc'[d] = pc[d] /\ base'[d] = base[d]
    BY DEF UpdateTypeOK, Goto, Ends, Load, Check, Acquire, Compare, WriteTemporary,
           SyncTemporary, Recheck, SyncDirectoryFails, Inspect, ReadBack,
           ReadBackFails, Conflict, Fail
  <1>3. LockHeld'
    <2>1. CASE Acquire(c)
      BY <2>1, UpdateAssumption DEF UpdateAssumption, LockHeld, Acquire, Goto, UpdateTypeOK,
           SameProcess, Holding
    <2>2. CASE SyncDirectoryFails(c) \/ Conflict(c) \/ Fail(c)
      <3>1. lock' = [lock EXCEPT ![ProcessOf[c]] =
                       IF lock[ProcessOf[c]] = c THEN Nobody ELSE lock[ProcessOf[c]]]
        BY <2>2 DEF SyncDirectoryFails, Conflict, Fail, Release
      <3>2. pc'[c] \notin Holding
        BY <2>2 DEF SyncDirectoryFails, Conflict, Fail, Goto, Ends, Holding, UpdateTypeOK
      <3>3. ASSUME NEW d \in Callers, pc'[d] \in Holding
            PROVE  lock'[ProcessOf[d]] = d
        <4>1. d # c /\ pc[d] \in Holding
          BY <1>2, <3>2, <3>3
        <4>2. lock[ProcessOf[d]] = d
          BY <4>1 DEF LockHeld
        <4> QED
          BY <3>1, <4>1, <4>2, UpdateAssumption DEF UpdateAssumption, UpdateTypeOK
      <3> QED
        BY <3>3 DEF LockHeld
    <2>3. CASE \/ Load(c) \/ Check(c) \/ Compare(c) \/ WriteTemporary(c)
               \/ SyncTemporary(c) \/ Recheck(c) \/ Inspect(c) \/ ReadBack(c)
               \/ ReadBackFails(c)
      <3>1. lock' = lock
        BY <2>3 DEF Load, Check, Compare, WriteTemporary, SyncTemporary, Recheck,
                    Inspect, ReadBack, ReadBackFails
      <3>2. pc'[c] \in Holding => pc[c] \in Holding
        BY <2>3 DEF Load, Check, Compare, WriteTemporary, SyncTemporary, Recheck,
                    Inspect, ReadBack, ReadBackFails, Goto, Ends, Holding, UpdateTypeOK
      <3> QED
        BY <1>2, <3>1, <3>2 DEF LockHeld
    <2> QED
      BY <2>1, <2>2, <2>3
  <1>4. FileHeld'
    <2>1. /\ pc'[c] \in {"compared", "written", "closed", "rechecked"} =>
               file = base[c] /\ base'[c] = base[c]
          /\ pc'[c] # "renamed"
      BY DEF FileHeld, UpdateTypeOK, Goto, Ends, Load, Check, Acquire, Compare,
             WriteTemporary, SyncTemporary, Recheck, SyncDirectoryFails, Inspect,
             ReadBack, ReadBackFails, Conflict, Fail
    <2>2. \A d \in Callers \ {c} : Proposed(d)' = Proposed(d)
      BY <1>2 DEF Proposed
    <2> QED
      BY <1>1, <1>2, <2>1, <2>2 DEF FileHeld
  <1>5. ExposedBehind'
    BY <1>1 DEF ExposedBehind
  <1>6. DurableChain'
    <2>1. \A d \in Callers : pc'[d] = "applied" =>
            pc[d] = "applied" /\ Proposed(d)' = Proposed(d)
      <3>1. pc'[c] # "applied"
        BY DEF UpdateTypeOK, Goto, Ends, Load, Check, Acquire, Compare, WriteTemporary,
               SyncTemporary, Recheck, SyncDirectoryFails, Inspect, ReadBack,
               ReadBackFails, Conflict, Fail
      <3> QED
        BY <1>2, <3>1 DEF Proposed
    <2>2. acked' \subseteq Durable
      <3>1. CASE ReadBack(c)
        BY <3>1 DEF ReadBack, Durable
      <3>2. CASE ~ReadBack(c)
        BY <3>2 DEF Durable, Load, Check, Acquire, Compare, WriteTemporary,
               SyncTemporary, Recheck, SyncDirectoryFails, Inspect,
               ReadBackFails, Conflict, Fail
      <3> QED
        BY <3>1, <3>2
    <2>3. Durable' \subseteq Durable
      BY <2>1, <2>2 DEF Durable
    <2> QED
      BY <1>1, <2>3, ChainShrinks
  <1> QED
    BY <1>3, <1>4, <1>5, <1>6

\* Under the lock nobody else compares, writes or renames.
LEMMA Alone ==
  ASSUME SameProcess, ProcessInvariant, NEW c \in Callers, pc[c] \in Holding
  PROVE  \A d \in Callers : pc[d] \in Holding => d = c
  BY DEF ProcessInvariant, LockHeld, SameProcess

LEMMA RenamePreserves ==
  ASSUME SameProcess, ProcessInvariant, UpdateInvariant', NEW c \in Callers, Rename(c)
  PROVE  ProcessInvariant'
  <1> USE DEF ProcessInvariant, UpdateInvariant
  <1>1. /\ pc[c] = "rechecked" /\ pc' = [pc EXCEPT ![c] = "renamed"]
        /\ file' = Proposed(c) /\ UNCHANGED <<lock, base, acked>>
    BY DEF Rename, Goto
  <1>2. exposed' = exposed \cup {Proposed(c)}
    BY <1>1, ProposedVersion DEF Rename, SyncedBeforeRename
  <1>3. \A d \in Callers : Proposed(d)' = Proposed(d)
    BY <1>1 DEF Proposed
  <1>4. /\ file.revision \in Nat /\ \A v \in exposed \cup Durable : v.revision \in Nat
        /\ Proposed(c).revision = file.revision + 1
    <2>1. file = base[c]
      BY <1>1 DEF FileHeld
    <2>2. Durable \subseteq Version
      BY ProposedVersion DEF Durable, UpdateTypeOK
    <2> QED
      BY <2>1, <2>2 DEF UpdateTypeOK, Version, Proposed
  <1>5. LockHeld'
    BY <1>1 DEF LockHeld, UpdateTypeOK, Holding
  <1>6. FileHeld'
    <2>1. \A d \in Callers \ {c} : pc[d] \notin Holding /\ pc'[d] = pc[d]
      BY <1>1, Alone DEF UpdateTypeOK, Holding
    <2> QED
      BY <1>1, <1>3, <2>1 DEF FileHeld, UpdateTypeOK, Holding
  <1>7. ExposedBehind'
    BY <1>1, <1>2, <1>4 DEF ExposedBehind
  <1>8. DurableChain'
    <2>1. Durable' = Durable
      BY <1>1, <1>3 DEF Durable, UpdateTypeOK
    <2>2. \A a \in Durable : a.revision < Proposed(c).revision
      BY <1>4 DEF DurableChain, ExposedBehind
    <2> QED
      BY <1>2, <2>1, <2>2 DEF DurableChain
  <1> QED
    BY <1>5, <1>6, <1>7, <1>8

LEMMA SyncPreserves ==
  ASSUME SameProcess, ProcessInvariant, UpdateInvariant', NEW c \in Callers,
         SyncDirectory(c)
  PROVE  ProcessInvariant'
  <1> USE DEF ProcessInvariant, UpdateInvariant
  <1>1. /\ pc[c] = "renamed" /\ pc' = [pc EXCEPT ![c] = "applied"]
        /\ exposed' = {file} /\ UNCHANGED <<file, base, acked>>
    BY DEF SyncDirectory, Goto
  <1>2. file = Proposed(c) /\ file \in exposed
    BY <1>1 DEF FileHeld, ExposedBehind
  <1>3. \A d \in Callers \ {c} : pc[d] \notin Holding /\ pc'[d] = pc[d]
    BY <1>1, Alone DEF UpdateTypeOK, Holding
  <1>4. \A d \in Callers : Proposed(d)' = Proposed(d)
    BY <1>1 DEF Proposed
  <1>5. LockHeld'
    BY <1>1, <1>3 DEF LockHeld, UpdateTypeOK, Holding
  <1>6. FileHeld'
    BY <1>1, <1>3, <1>4 DEF FileHeld, UpdateTypeOK, Holding
  <1>7. ExposedBehind'
    BY <1>1 DEF ExposedBehind
  <1>8. DurableChain'
    <2>1. Durable' = Durable \cup {file}
      BY <1>1, <1>2, <1>4 DEF Durable, UpdateTypeOK
    <2>2. \A a \in Durable : a.revision < file.revision \/ a = file
      BY <1>2 DEF DurableChain
    <2>3. \A a \in Durable \cup {file} : a.revision \in Nat
      <3>1. Durable \subseteq Version
        BY ProposedVersion DEF Durable, UpdateTypeOK
      <3> QED
        BY <3>1 DEF UpdateTypeOK, Version
    <2> QED
      BY <1>1, <2>1, <2>2, <2>3 DEF DurableChain
  <1> QED
    BY <1>5, <1>6, <1>7, <1>8

LEMMA InterruptPreserves ==
  ASSUME ProcessInvariant, UpdateInvariant',
         (\E p \in Processes : Kill(p)) \/ LosePower
  PROVE  ProcessInvariant'
  <1> USE DEF ProcessInvariant, UpdateInvariant
  <1>1. \A d \in Callers : /\ pc'[d] \in {"idle", pc[d]}
                           /\ Proposed(d)' = Proposed(d) /\ base'[d] = base[d]
    BY DEF Kill, LosePower, Interrupted, Proposed
  <1>2. Durable' \subseteq Durable
    BY <1>1 DEF Durable, Kill, LosePower
  <1>3. CASE \E p \in Processes : Kill(p)
    <2>1. PICK p \in Processes : Kill(p)
      BY <1>3
    <2>2. LockHeld'
      BY <2>1, UpdateAssumption DEF UpdateAssumption, LockHeld, Kill, Interrupted,
           UpdateTypeOK, Holding
    <2>3. FileHeld' /\ ExposedBehind'
      BY <1>1, <2>1 DEF FileHeld, ExposedBehind, Kill
    <2>4. DurableChain'
      BY <1>2, <2>1, ChainShrinks DEF Kill
    <2> QED
      BY <2>2, <2>3, <2>4
  <1>4. CASE LosePower
    <2>1. \A d \in Callers : pc'[d] = "idle"
      BY <1>4 DEF LosePower, Interrupted
    <2>2. LockHeld' /\ FileHeld' /\ ExposedBehind'
      BY <1>4, <2>1 DEF LockHeld, FileHeld, ExposedBehind, LosePower, Holding
    <2>3. DurableChain'
      BY <1>2, <1>4, ChainShrinks DEF LosePower
    <2> QED
      BY <2>2, <2>3
  <1> QED
    BY <1>3, <1>4

LEMMA ProcessNext ==
  ASSUME SameProcess, ProcessInvariant, [UpdateNext]_updateVars
  PROVE  ProcessInvariant'
  <1>1. UpdateInvariant'
    BY NextPreserves DEF ProcessInvariant
  <1>2. CASE UNCHANGED updateVars
    <2>1. Durable' = Durable
      BY <1>2 DEF updateVars, Durable, Proposed
    <2> QED
      BY <1>1, <1>2, <2>1 DEF updateVars, ProcessInvariant, LockHeld, FileHeld, Proposed,
                              ExposedBehind, DurableChain
  <1>3. CASE UpdateNext
    BY <1>1, <1>3, CallPreserves, RenamePreserves, SyncPreserves, InterruptPreserves
      DEF UpdateNext
  <1> QED
    BY <1>2, <1>3

LEMMA ProcessInvariantHolds ==
  ASSUME SameProcess
  PROVE  UpdateSpec => []ProcessInvariant
  <1>1. ProcessInvariant /\ [UpdateNext]_updateVars => ProcessInvariant'
    BY ProcessNext
  <1> QED
    BY <1>1, ProcessInit, PTL DEF UpdateSpec

-----------------------------------------------------------------------------
\* Callers of one process that start from the same record yield one success:
\* no revision is acknowledged twice, and an acknowledged update is replaced
\* by a later revision only, a loss of power included.
THEOREM OneWinnerWithinProcess ==
  ASSUME SameProcess
  PROVE  UpdateSpec => []OneWinner
  <1>1. ProcessInvariant => OneWinner
    BY DEF ProcessInvariant, ExposedBehind, DurableChain, Durable, OneWinner
  <1> QED
    BY <1>1, ProcessInvariantHolds, PTL

\* The steps of UpdateRuntime, taken by callers of one process, implement the
\* compare-and-swap register: a rename commits the next revision, the sync of
\* the directory confirms it, everything else leaves the register alone.
THEOREM ImplementsRegister ==
  ASSUME SameProcess
  PROVE  UpdateSpec => RegisterSpec
  <1>1. UpdateInit => Register!Init
    BY DEF UpdateInit, Register!Init, Bare, First
  <1>2. ProcessInvariant /\ [UpdateNext]_updateVars => [Register!Next]_(Register!vars)
    <2> SUFFICES ASSUME ProcessInvariant, [UpdateNext]_updateVars
                 PROVE  [Register!Next]_(Register!vars)
      OBVIOUS
    <2>1. CASE UNCHANGED <<file, exposed>>
      BY <2>1 DEF Register!vars
    <2>2. ASSUME NEW c \in Callers, Rename(c)
          PROVE  Register!Commit(c)
      <3>1. file = base[c] /\ Remains(c) = {Proposed(c)}
        BY <2>2, ProposedVersion DEF ProcessInvariant, UpdateInvariant, FileHeld,
             SyncedBeforeRename, Rename, Goto
      <3>2. Bare(file)' = [revision |-> file.revision + 1, by |-> c]
        BY <2>2, <3>1 DEF Rename, Proposed, Bare
      <3>3. exposed' = exposed \cup {file'}
        BY <2>2, <3>1 DEF Rename
      <3>4. {Bare(v) : v \in exposed}' = {Bare(v) : v \in exposed} \cup {Bare(file)'}
        BY <3>3 DEF Bare
      <3> QED
        BY <3>2, <3>4 DEF Register!Commit, Bare
    <2>3. ASSUME NEW c \in Callers, SyncDirectory(c)
          PROVE  Register!Confirm
      BY <2>3 DEF SyncDirectory, Register!Confirm, Bare
    <2>4. ASSUME LosePower
          PROVE  Register!LosePower
      BY <2>4 DEF LosePower, Register!LosePower, Bare
    <2>5. ASSUME UpdateNext, ~UNCHANGED <<file, exposed>>
          PROVE  \/ \E c \in Callers : Rename(c) \/ SyncDirectory(c)
                 \/ LosePower
      BY <2>5 DEF UpdateNext, Load, Check, Acquire, Compare, WriteTemporary, SyncTemporary,
           Recheck, SyncDirectoryFails, Inspect, ReadBack, ReadBackFails, Conflict,
           Fail, Kill
    <2> QED
      BY <2>1, <2>2, <2>3, <2>4, <2>5 DEF updateVars, Register!Next
  <1> QED
    BY <1>1, <1>2, ProcessInvariantHolds, PTL DEF UpdateSpec, RegisterSpec, Register!Spec

=============================================================================
