---------------------------- MODULE MemoryQueue ----------------------------
(***************************************************************************)
(* The in-memory transcription queue.  Every operation runs under one      *)
(* mutex, so each is one action; a call that returns an error leaves the   *)
(* queue as it was and is no action at all.  The callers are not           *)
(* constrained: any request, any job result, in any order, which is what   *)
(* the Queue interface permits.                                            *)
(*                                                                         *)
(* Source: internal/transcription/{queue,queue_memory,retry,idempotency}.go *)
(***************************************************************************)
EXTENDS RuntimeStatus, FiniteSets

CONSTANTS
  JobIds,         \* identities the job ID generator can return
  Segments,       \* finalized capture segments
  Models,         \* backend and model combinations
  Keys,           \* idempotency keys
  NoKey,          \* a request without a key
  AttemptLimits,  \* values of EnqueueRequest.MaxAttempts
  Errors,         \* classified failures [code, recoverable]
  NoError,        \* a nil LastError
  Policies,       \* retry policies (the multiplier is in RetryBackoff)
  MaxTime         \* the clock stops here: bounds the model

NoTime == -1      \* a nil timestamp

\* Why each part is needed: MaxAttempts < 1 is refused by
\* EnqueueRequest.Validate, a nil error has no class, and RetryPolicy.Validate
\* refuses a policy without attempts or with a shrinking or negative delay.
ASSUME QueueAssumption ==
  /\ NoKey \notin Keys
  /\ AttemptLimits \subseteq Nat \ {0}
  /\ NoError \notin Errors
  /\ \A e \in Errors : e.recoverable \in BOOLEAN
  /\ Policies \subseteq [maxAttempts : Nat \ {0}, initialDelay : Nat, maxDelay : Nat]
  /\ \A p \in Policies : p.initialDelay <= p.maxDelay
  /\ MaxTime \in Nat

VARIABLES
  entries,       \* job identity -> queue entry, for the jobs that exist
  idempotency,   \* key -> [request, id], for the keys that were used
  nextPosition,  \* last position handed out
  now,           \* what the injected clock returns
  claims         \* history: how often each job has been claimed

vars == <<entries, idempotency, nextPosition, now, claims>>

Request == [segment : Segments, model : Models, key : Keys \cup {NoKey},
            max : AttemptLimits]

\* A job result handed to RecordStarted, RecordPartial or RecordTerminal: the
\* part of transcription.Job the queue distinguishes.
JobResult == [status : JobStatuses, err : Errors \cup {NoError}]

\* Job.Validate: a completed job keeps no failure, a failed one names it.
ValidJob(job) ==
  /\ job.status = "completed" => job.err = NoError
  /\ job.status = "failed" => job.err # NoError

Entry == [segment : Segments, model : Models, key : Keys \cup {NoKey},
          max : AttemptLimits, attempt : Nat \ {0}, position : Nat \ {0},
          queue : QueueStatuses, job : JobStatuses, err : Errors \cup {NoError},
          claimedAt : Nat \cup {NoTime}, retryAt : Nat \cup {NoTime}]

-----------------------------------------------------------------------------
(* Retry decision (retry.go).                                              *)

IsRetryable(err) ==
  \/ err.code \in {"input_not_finalized", "timeout", "partial_output"}
  \/ err.code \in {"unavailable", "internal"} /\ err.recoverable

AttemptLimit(e, policy) ==
  IF e.max < policy.maxAttempts THEN e.max ELSE policy.maxAttempts

\* Defect: decides on the failure alone, not on how the job ended.
RetryPermittedByError(e, policy) ==
  /\ e.err # NoError
  /\ e.err.code # "uncertain"
  /\ IsRetryable(e.err)
  /\ e.attempt + 1 <= AttemptLimit(e, policy)

RetryPermitted(e, policy) ==
  /\ e.job \notin {"completed", "cancelled"}
  /\ e.queue # "cancelled"
  /\ e.err # NoError
  /\ e.err.code # "uncertain"
  /\ IsRetryable(e.err)
  /\ e.attempt + 1 <= AttemptLimit(e, policy)

\* BoundedBackoff of RetryBackoff.tla; all the queue needs of boundedBackoff
\* is that the delay lies between the policy's two bounds.
BackoffDelays(policy) == policy.initialDelay .. policy.maxDelay

-----------------------------------------------------------------------------
(* Entries.                                                                *)

SchedulingActive(e) == e.queue \in {"queued", "claimed", "retry_waiting"}

SameSource(e, f) == e.segment = f.segment /\ e.model = f.model

\* EquivalentEnqueueRequest: everything but the key.
EquivalentRequest(a, b) == SameSource(a, b) /\ a.max = b.max

NewEntry(r, position) ==
  [segment |-> r.segment, model |-> r.model, key |-> r.key, max |-> r.max,
   attempt |-> 1, position |-> position, queue |-> "queued", job |-> "queued",
   err |-> NoError, claimedAt |-> NoTime, retryAt |-> NoTime]

KeyUsed(r) == r.key # NoKey /\ r.key \in DOMAIN idempotency

\* Defect: claimed and waiting work does not count as active.
DuplicateQueued(r) ==
  \E j \in DOMAIN entries : entries[j].queue = "queued" /\ SameSource(entries[j], r)

DuplicateActive(r) ==
  \E j \in DOMAIN entries : SchedulingActive(entries[j]) /\ SameSource(entries[j], r)

\* What each operation makes of the entry it is given.

ClaimedEntry(e) == [e EXCEPT !.queue = "claimed", !.claimedAt = now]

\* Defect: cancelling a waiting retry leaves its timestamp behind.
CancelledEntryWaiting(e) ==
  [e EXCEPT !.queue = "cancelled", !.claimedAt = NoTime,
            !.job = IF e.job = "queued" THEN "cancelled" ELSE e.job]

\* A retry keeps its failed job snapshot; a job that never ran is cancelled
\* with its entry.
CancelledEntry(e) ==
  [e EXCEPT !.queue = "cancelled", !.claimedAt = NoTime, !.retryAt = NoTime,
            !.job = IF e.job = "queued" THEN "cancelled" ELSE e.job]

ProgressedEntry(e, job) == [e EXCEPT !.job = job.status, !.err = job.err]

FinishedEntry(e, job) ==
  [e EXCEPT !.job = job.status, !.err = job.err, !.queue = "terminal",
            !.claimedAt = NoTime, !.retryAt = NoTime]

RetriedEntry(e, delay) ==
  [e EXCEPT !.attempt = e.attempt + 1, !.queue = "retry_waiting",
            !.retryAt = now + delay, !.claimedAt = NoTime]

RequeuedEntry(e) ==
  [e EXCEPT !.queue = "queued", !.retryAt = NoTime, !.claimedAt = NoTime]

Rewrite(id, f) == entries' = [entries EXCEPT ![id] = f]

-----------------------------------------------------------------------------
Init ==
  /\ entries = [j \in {} |-> NoKey]
  /\ idempotency = [k \in {} |-> NoKey]
  /\ nextPosition = 0
  /\ now = 0
  /\ claims = [j \in JobIds |-> 0]

\* The clock the queue reads moves on its own.
Tick ==
  /\ now < MaxTime
  /\ now' = now + 1
  /\ UNCHANGED <<entries, idempotency, nextPosition, claims>>

\* A request whose key was used before returns the earlier entry (or a
\* conflict) and changes nothing; a duplicate of an active entry is refused;
\* anything else becomes a new entry at the next position.
Enqueue(id, r) ==
  /\ ~KeyUsed(r)
  /\ ~DuplicateActive(r)
  /\ id \notin DOMAIN entries
  /\ nextPosition' = nextPosition + 1
  /\ entries' = Extend(entries, id, NewEntry(r, nextPosition'))
  /\ idempotency' = IF r.key = NoKey THEN idempotency
                    ELSE Extend(idempotency, r.key, [request |-> r, id |-> id])
  /\ UNCHANGED <<now, claims>>

\* Defect: a second claimer does not see that the first one has won.
ClaimTwice(id, expected) ==
  /\ id \in DOMAIN entries
  /\ expected = "queued"
  /\ entries[id].queue \in {expected, "claimed"}
  /\ Rewrite(id, ClaimedEntry(entries[id]))
  /\ claims' = [claims EXCEPT ![id] = @ + 1]
  /\ UNCHANGED <<idempotency, nextPosition, now>>

Claim(id, expected) ==
  /\ id \in DOMAIN entries
  /\ expected = "queued"
  /\ entries[id].queue = expected
  /\ Rewrite(id, ClaimedEntry(entries[id]))
  /\ claims' = [claims EXCEPT ![id] = @ + 1]
  /\ UNCHANGED <<idempotency, nextPosition, now>>

\* Only queued and retry-waiting work can be cancelled here.
CancelQueued(id, expected) ==
  /\ id \in DOMAIN entries
  /\ entries[id].queue = expected
  /\ expected \in {"queued", "retry_waiting"}
  /\ Rewrite(id, CancelledEntry(entries[id]))
  /\ UNCHANGED <<idempotency, nextPosition, now, claims>>

\* recordProgress: RecordStarted passes a running job, RecordPartial a partial.
RecordProgress(id, job, want) ==
  /\ id \in DOMAIN entries
  /\ job.status = want
  /\ ValidJob(job)
  /\ entries[id].queue = "claimed"
  /\ Rewrite(id, ProgressedEntry(entries[id], job))
  /\ UNCHANGED <<idempotency, nextPosition, now, claims>>

RecordStarted(id, job) == RecordProgress(id, job, "running")

RecordPartial(id, job) == RecordProgress(id, job, "partial")

RecordTerminal(id, job) ==
  /\ id \in DOMAIN entries
  /\ job.status \in TerminalJobStatuses
  /\ ValidJob(job)
  /\ entries[id].queue = "claimed"
  /\ Rewrite(id, FinishedEntry(entries[id], job))
  /\ UNCHANGED <<idempotency, nextPosition, now, claims>>

\* ScheduleRetry looks at the one entry only: whether another entry for the
\* same source has become active in the meantime is not asked.
ScheduleRetry(id, expected, policy, delay) ==
  /\ id \in DOMAIN entries
  /\ expected = "terminal"
  /\ entries[id].queue = expected
  /\ RetryPermitted(entries[id], policy)
  /\ delay \in BackoffDelays(policy)
  /\ Rewrite(id, RetriedEntry(entries[id], delay))
  /\ UNCHANGED <<idempotency, nextPosition, now, claims>>

Requeue(id, expected) ==
  /\ id \in DOMAIN entries
  /\ expected = "retry_waiting"
  /\ entries[id].queue = expected
  /\ entries[id].retryAt # NoTime
  /\ entries[id].retryAt <= now
  /\ Rewrite(id, RequeuedEntry(entries[id]))
  /\ UNCHANGED <<idempotency, nextPosition, now, claims>>

Next ==
  \/ Tick
  \/ \E id \in JobIds :
       \/ \E r \in Request : Enqueue(id, r)
       \/ \E expected \in QueueStatuses :
            \/ Claim(id, expected)
            \/ CancelQueued(id, expected)
            \/ Requeue(id, expected)
            \/ \E policy \in Policies : \E delay \in BackoffDelays(policy) :
                 ScheduleRetry(id, expected, policy, delay)
       \/ \E job \in JobResult :
            RecordStarted(id, job) \/ RecordPartial(id, job) \/ RecordTerminal(id, job)

Spec == Init /\ [][Next]_vars

-----------------------------------------------------------------------------
(* Properties.                                                             *)

\* Types of the queue's state.
TypeOK ==
  /\ DOMAIN entries \subseteq JobIds
  /\ entries \in [DOMAIN entries -> Entry]
  /\ DOMAIN idempotency \subseteq Keys
  /\ idempotency \in [DOMAIN idempotency -> [request : Request, id : JobIds]]
  /\ nextPosition \in Nat
  /\ now \in Nat
  /\ claims \in [JobIds -> Nat]

\* QueueEntry.Validate, clause by clause.
ValidEntry(e) ==
  /\ e.attempt <= e.max
  /\ e.queue = "queued" =>
       /\ e.claimedAt = NoTime /\ e.retryAt = NoTime
       /\ e.job \notin {"completed", "cancelled"}
       /\ e.job = "failed" => e.attempt > 1
  /\ e.queue = "claimed" =>
       /\ e.claimedAt # NoTime /\ e.retryAt = NoTime
       /\ e.job \in TerminalJobStatuses => e.job = "failed" /\ e.attempt > 1
  /\ e.queue = "retry_waiting" =>
       /\ e.retryAt # NoTime /\ e.claimedAt = NoTime /\ e.err # NoError
  /\ e.queue \in {"cancelled", "terminal"} =>
       /\ e.claimedAt = NoTime /\ e.retryAt = NoTime
       /\ e.job \in TerminalJobStatuses

\* The queue checks an entry only when it is enqueued, yet the runtime
\* mapping refuses an entry that QueueEntry.Validate rejects after the queue
\* has changed: every sequence of accepted calls must keep every entry valid.
EntriesValid == \A j \in DOMAIN entries : ValidEntry(entries[j])

\* While a job is still in its first attempt no later request for the same
\* segment, backend and model can have been accepted, at any status: only a
\* retry of finished work can coexist with a newer job.
NoOvertakenFirstAttempt ==
  \A i, j \in DOMAIN entries :
    /\ SameSource(entries[i], entries[j])
    /\ entries[i].position < entries[j].position
    /\ SchedulingActive(entries[i])
    => entries[i].attempt > 1

\* A key names at most one job for ever, and that job is the one its request
\* asked for: two concurrent requests with one key cannot create two jobs.
KeyNamesOneJob ==
  /\ \A k \in DOMAIN idempotency :
       LET rec == idempotency[k] IN
       /\ rec.id \in DOMAIN entries
       /\ entries[rec.id].key = k
       /\ EquivalentRequest(rec.request, entries[rec.id])
  /\ \A j \in DOMAIN entries :
       entries[j].key # NoKey =>
         entries[j].key \in DOMAIN idempotency /\ idempotency[entries[j].key].id = j

\* Positions order the listing: no two jobs share one, and none is ahead of
\* the counter.
PositionsUnique ==
  /\ \A j \in DOMAIN entries : entries[j].position <= nextPosition
  /\ \A i, j \in DOMAIN entries :
       entries[i].position = entries[j].position => i = j

\* Concurrent claimers have one winner: an attempt is claimed at most once,
\* and an entry that still waits to be claimed has not been claimed in its
\* current attempt.
OneClaimPerAttempt ==
  \A j \in DOMAIN entries :
    /\ claims[j] <= entries[j].attempt
    /\ entries[j].queue \in {"queued", "retry_waiting"} => claims[j] < entries[j].attempt

\* Once a job is cancelled or completed no call changes its entry again;
\* a failed one only comes back as the next attempt.
FinishedStays ==
  [][\A j \in DOMAIN entries :
       LET e == entries[j] IN
       (e.queue = "cancelled" \/ (e.queue = "terminal" /\ e.job # "failed"))
         => entries'[j] = e]_vars

\* Accepted work is never lost, re-identified or made cheaper: an entry keeps
\* its place, its source and its limit, and its attempt number moves only by
\* one, from a terminal entry to a waiting retry.
EntryHistory ==
  [][\A j \in DOMAIN entries :
       LET e == entries[j]
           f == entries'[j]
       IN  /\ j \in DOMAIN entries'
           /\ f.position = e.position /\ f.max = e.max /\ f.key = e.key
           /\ SameSource(e, f)
           /\ f.attempt # e.attempt =>
                /\ f.attempt = e.attempt + 1
                /\ e.queue = "terminal" /\ f.queue = "retry_waiting"]_vars

\* What docs/transcription-queue.md promises of duplicates: "Only one
\* scheduling-active entry may exist for a segment ID, backend, and model
\* combination."
OneActivePerSource ==
  \A i, j \in DOMAIN entries :
    SchedulingActive(entries[i]) /\ SchedulingActive(entries[j])
      /\ SameSource(entries[i], entries[j])
    => i = j

=============================================================================
