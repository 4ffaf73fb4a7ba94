------------------------ MODULE MemoryQueue_proofs -------------------------
(***************************************************************************)
(* Machine-checked proofs about MemoryQueue, for every value of its        *)
(* constants.  The checked invariants are strengthened to one inductive    *)
(* invariant.  What compositions with the queue need of it are the lemmas  *)
(* on its steps: TypeStep, InvariantStep and StepShape.  Last come the     *)
(* delays that the loop of RetryBackoff computes.                          *)
(***************************************************************************)
EXTENDS MemoryQueue, RetryBackoff, WellFoundedInduction, TLAPS

-----------------------------------------------------------------------------
(* Every operation but Enqueue rewrites one entry.  Rewritten(id, f) is    *)
(* that shape: f replaces the entry of id and keeps what identifies it.    *)

SameIdentity(e, f) ==
  /\ f.segment = e.segment /\ f.model = e.model /\ f.key = e.key
  /\ f.max = e.max /\ f.position = e.position

Rewritten(id, f) ==
  /\ id \in DOMAIN entries
  /\ f \in Entry
  /\ SameIdentity(entries[id], f)
  /\ entries' = [entries EXCEPT ![id] = f]
  /\ UNCHANGED <<idempotency, nextPosition>>

\* A rewrite keeps the domain and every other entry.
LEMMA RewriteShape ==
  ASSUME TypeOK, NEW id, NEW f, Rewritten(id, f)
  PROVE  /\ DOMAIN entries' = DOMAIN entries
         /\ entries' \in [DOMAIN entries -> Entry]
         /\ entries'[id] = f
         /\ \A j \in DOMAIN entries : j # id => entries'[j] = entries[j]
  BY DEF TypeOK, Rewritten

\* The entries the operations build are entries of the same job.
LEMMA EntryTypes ==
  ASSUME NEW e \in Entry
  PROVE  /\ CancelledEntry(e) \in Entry /\ SameIdentity(e, CancelledEntry(e))
         /\ RequeuedEntry(e) \in Entry /\ SameIdentity(e, RequeuedEntry(e))
         /\ \A job \in JobResult :
              /\ ProgressedEntry(e, job) \in Entry
              /\ SameIdentity(e, ProgressedEntry(e, job))
              /\ FinishedEntry(e, job) \in Entry
              /\ SameIdentity(e, FinishedEntry(e, job))
         /\ now \in Nat =>
              /\ ClaimedEntry(e) \in Entry
              /\ SameIdentity(e, ClaimedEntry(e))
              /\ \A d \in Nat : /\ RetriedEntry(e, d) \in Entry
                                /\ SameIdentity(e, RetriedEntry(e, d))
  <1>1. CancelledEntry(e) \in Entry /\ SameIdentity(e, CancelledEntry(e))
    BY DEF CancelledEntry, Entry, SameIdentity, QueueStatuses, JobStatuses
  <1>2. RequeuedEntry(e) \in Entry /\ SameIdentity(e, RequeuedEntry(e))
    BY DEF RequeuedEntry, Entry, SameIdentity, QueueStatuses
  <1>3. ASSUME NEW job \in JobResult
        PROVE  ProgressedEntry(e, job) \in Entry /\ SameIdentity(e, ProgressedEntry(e, job))
    BY DEF ProgressedEntry, Entry, SameIdentity, JobResult
  <1>4. ASSUME NEW job \in JobResult
        PROVE  FinishedEntry(e, job) \in Entry /\ SameIdentity(e, FinishedEntry(e, job))
    BY DEF FinishedEntry, Entry, SameIdentity, JobResult, QueueStatuses
  <1>5. ASSUME now \in Nat
        PROVE  ClaimedEntry(e) \in Entry /\ SameIdentity(e, ClaimedEntry(e))
    BY <1>5 DEF ClaimedEntry, Entry, SameIdentity, QueueStatuses
  <1>6. ASSUME now \in Nat, NEW d \in Nat
        PROVE  RetriedEntry(e, d) \in Entry /\ SameIdentity(e, RetriedEntry(e, d))
    <2>1. e.attempt + 1 \in Nat \ {0} /\ now + d \in Nat
      BY <1>6 DEF Entry
    <2>2. QED
      BY <2>1 DEF RetriedEntry, Entry, SameIdentity, QueueStatuses
  <1>7. QED
    BY <1>1, <1>2, <1>3, <1>4, <1>5, <1>6

\* What each operation does to the queue, seen as a rewrite.
LEMMA ClaimRewrites ==
  ASSUME TypeOK, NEW id \in JobIds, NEW x \in QueueStatuses, Claim(id, x)
  PROVE  /\ entries[id] \in Entry /\ entries[id].queue = "queued"
         /\ Rewritten(id, ClaimedEntry(entries[id]))
         /\ claims' = [claims EXCEPT ![id] = @ + 1] /\ now' = now
  <1>1. entries[id] \in Entry /\ now \in Nat
    BY DEF TypeOK, Claim
  <1>2. QED
    BY <1>1, EntryTypes DEF Claim, Rewritten, Rewrite

\* CancelQueued rewrites a waiting entry as cancelled.
LEMMA CancelRewrites ==
  ASSUME TypeOK, NEW id \in JobIds, NEW x \in QueueStatuses, CancelQueued(id, x)
  PROVE  /\ entries[id] \in Entry /\ entries[id].queue \in {"queued", "retry_waiting"}
         /\ Rewritten(id, CancelledEntry(entries[id]))
         /\ UNCHANGED <<claims, now>>
  <1>1. entries[id] \in Entry
    BY DEF TypeOK, CancelQueued
  <1>2. QED
    BY <1>1, EntryTypes DEF CancelQueued, Rewritten, Rewrite

\* RecordStarted and RecordPartial rewrite a claimed entry with the result.
LEMMA ProgressRewrites ==
  ASSUME TypeOK, NEW id \in JobIds, NEW job \in JobResult, NEW want,
         RecordProgress(id, job, want)
  PROVE  /\ entries[id] \in Entry /\ entries[id].queue = "claimed"
         /\ job.status = want
         /\ Rewritten(id, ProgressedEntry(entries[id], job))
         /\ UNCHANGED <<claims, now>>
  <1>1. entries[id] \in Entry
    BY DEF TypeOK, RecordProgress
  <1>2. QED
    BY <1>1, EntryTypes DEF RecordProgress, Rewritten, Rewrite

\* RecordTerminal rewrites a claimed entry as finished.
LEMMA TerminalRewrites ==
  ASSUME TypeOK, NEW id \in JobIds, NEW job \in JobResult, RecordTerminal(id, job)
  PROVE  /\ entries[id] \in Entry /\ entries[id].queue = "claimed"
         /\ job.status \in TerminalJobStatuses
         /\ Rewritten(id, FinishedEntry(entries[id], job))
         /\ UNCHANGED <<claims, now>>
  <1>1. entries[id] \in Entry
    BY DEF TypeOK, RecordTerminal
  <1>2. QED
    BY <1>1, EntryTypes DEF RecordTerminal, Rewritten, Rewrite

\* ScheduleRetry rewrites a failed entry as waiting for its next attempt.
LEMMA RetryRewrites ==
  ASSUME TypeOK, NEW id \in JobIds, NEW x \in QueueStatuses, NEW policy \in Policies,
         NEW delay \in BackoffDelays(policy), ScheduleRetry(id, x, policy, delay)
  PROVE  /\ entries[id] \in Entry /\ entries[id].queue = "terminal"
         /\ RetryPermitted(entries[id], policy) /\ delay \in Nat
         /\ Rewritten(id, RetriedEntry(entries[id], delay))
         /\ UNCHANGED <<claims, now>>
  <1>1. entries[id] \in Entry /\ now \in Nat
    BY DEF TypeOK, ScheduleRetry
  <1>2. delay \in Nat
    BY QueueAssumption DEF QueueAssumption, BackoffDelays
  <1>3. QED
    BY <1>1, <1>2, EntryTypes DEF ScheduleRetry, Rewritten, Rewrite

\* Requeue puts a waiting retry back at its old position.
LEMMA RequeueRewrites ==
  ASSUME TypeOK, NEW id \in JobIds, NEW x \in QueueStatuses, Requeue(id, x)
  PROVE  /\ entries[id] \in Entry /\ entries[id].queue = "retry_waiting"
         /\ Rewritten(id, RequeuedEntry(entries[id]))
         /\ UNCHANGED <<claims, now>>
  <1>1. entries[id] \in Entry
    BY DEF TypeOK, Requeue
  <1>2. QED
    BY <1>1, EntryTypes DEF Requeue, Rewritten, Rewrite

\* Enqueue adds one entry and leaves the others alone.
LEMMA EnqueueAdds ==
  ASSUME TypeOK, NEW id \in JobIds, NEW r \in Request, Enqueue(id, r)
  PROVE  /\ id \notin DOMAIN entries
         /\ DOMAIN entries' = DOMAIN entries \cup {id}
         /\ entries'[id] = NewEntry(r, nextPosition + 1)
         /\ NewEntry(r, nextPosition + 1) \in Entry
         /\ \A j \in DOMAIN entries : entries'[j] = entries[j] /\ entries[j] \in Entry
         /\ nextPosition' = nextPosition + 1
         /\ entries' \in [DOMAIN entries' -> Entry]
  <1>1. NewEntry(r, nextPosition + 1) \in Entry
    BY QueueAssumption DEF QueueAssumption, NewEntry, Entry, Request, TypeOK,
       QueueStatuses, JobStatuses
  <1>2. entries' = [y \in DOMAIN entries \cup {id} |->
                      IF y = id THEN NewEntry(r, nextPosition + 1) ELSE entries[y]]
    BY DEF Enqueue, Extend
  <1>3. \A j \in DOMAIN entries : entries[j] \in Entry
    BY DEF TypeOK
  <1>4. QED
    BY <1>1, <1>2, <1>3 DEF Enqueue

-----------------------------------------------------------------------------
\* A rewrite keeps the types of everything it touches.
LEMMA RewriteKeepsTypes ==
  ASSUME TypeOK, NEW id, NEW f, Rewritten(id, f), claims' \in [JobIds -> Nat], now' \in Nat
  PROVE  TypeOK'
  BY RewriteShape DEF TypeOK, Rewritten

\* Every operation, and the clock, keeps the types.
LEMMA TypeStep ==
  ASSUME TypeOK, [Next]_vars
  PROVE  TypeOK'
  <1>1. CASE Tick
    BY <1>1 DEF Tick, TypeOK
  <1>2. ASSUME NEW id \in JobIds, NEW r \in Request, Enqueue(id, r)
        PROVE  TypeOK'
    <2>1. DOMAIN entries' \subseteq JobIds /\ entries' \in [DOMAIN entries' -> Entry]
      BY <1>2, EnqueueAdds DEF TypeOK
    <2>2. /\ DOMAIN idempotency' \subseteq Keys
          /\ idempotency' \in [DOMAIN idempotency' -> [request : Request, id : JobIds]]
      <3>1. CASE r.key = NoKey
        BY <1>2, <3>1 DEF Enqueue, TypeOK
      <3>2. CASE r.key # NoKey
        <4>1. r.key \in Keys
          BY <3>2 DEF Request
        <4>2. idempotency' = [y \in DOMAIN idempotency \cup {r.key} |->
                 IF y = r.key THEN [request |-> r, id |-> id] ELSE idempotency[y]]
          BY <1>2, <3>2 DEF Enqueue, Extend
        <4>3. QED
          BY <4>1, <4>2 DEF TypeOK
      <3>3. QED
        BY <3>1, <3>2
    <2>3. nextPosition' \in Nat /\ now' \in Nat /\ claims' \in [JobIds -> Nat]
      BY <1>2 DEF Enqueue, TypeOK
    <2>4. QED
      BY <2>1, <2>2, <2>3 DEF TypeOK
  <1>3. ASSUME NEW id \in JobIds, NEW x \in QueueStatuses, Claim(id, x)
        PROVE  TypeOK'
    <2>1. claims' \in [JobIds -> Nat] /\ now' \in Nat
      BY <1>3, ClaimRewrites DEF TypeOK
    <2>2. QED
      BY <1>3, <2>1, ClaimRewrites, RewriteKeepsTypes
  <1>4. ASSUME NEW id \in JobIds, NEW x \in QueueStatuses, CancelQueued(id, x)
        PROVE  TypeOK'
    <2>1. claims' \in [JobIds -> Nat] /\ now' \in Nat
      BY <1>4 DEF CancelQueued, TypeOK
    <2>2. QED
      BY <1>4, <2>1, CancelRewrites, RewriteKeepsTypes
  <1>5. ASSUME NEW id \in JobIds, NEW x \in QueueStatuses, Requeue(id, x)
        PROVE  TypeOK'
    <2>1. claims' \in [JobIds -> Nat] /\ now' \in Nat
      BY <1>5 DEF Requeue, TypeOK
    <2>2. QED
      BY <1>5, <2>1, RequeueRewrites, RewriteKeepsTypes
  <1>6. ASSUME NEW id \in JobIds, NEW x \in QueueStatuses, NEW policy \in Policies,
               NEW delay \in BackoffDelays(policy), ScheduleRetry(id, x, policy, delay)
        PROVE  TypeOK'
    <2>1. claims' \in [JobIds -> Nat] /\ now' \in Nat
      BY <1>6 DEF ScheduleRetry, TypeOK
    <2>2. QED
      BY <1>6, <2>1, RetryRewrites, RewriteKeepsTypes
  <1>7. ASSUME NEW id \in JobIds, NEW job \in JobResult, NEW want,
               RecordProgress(id, job, want)
        PROVE  TypeOK'
    <2>1. claims' \in [JobIds -> Nat] /\ now' \in Nat
      BY <1>7 DEF RecordProgress, TypeOK
    <2>2. QED
      BY <1>7, <2>1, ProgressRewrites, RewriteKeepsTypes
  <1>8. ASSUME NEW id \in JobIds, NEW job \in JobResult, RecordTerminal(id, job)
        PROVE  TypeOK'
    <2>1. claims' \in [JobIds -> Nat] /\ now' \in Nat
      BY <1>8 DEF RecordTerminal, TypeOK
    <2>2. QED
      BY <1>8, <2>1, TerminalRewrites, RewriteKeepsTypes
  <1>9. CASE UNCHANGED vars
    BY <1>9 DEF vars, TypeOK
  <1>10. QED
    BY <1>1, <1>2, <1>3, <1>4, <1>5, <1>6, <1>7, <1>8, <1>9
       DEF Next, RecordStarted, RecordPartial

\* The type invariant: what the queue stores is always an entry, a request
\* or a number of the declared kind.
THEOREM TypeCorrect == Spec => []TypeOK
  <1>1. Init => TypeOK
    BY DEF Init, TypeOK
  <1> QED
    BY <1>1, TypeStep, PTL DEF Spec

-----------------------------------------------------------------------------
(* Safety.  The checked invariants are inductive together: uniqueness of   *)
(* positions is what makes a new entry the latest of its source, and a     *)
(* valid entry is what makes a terminal one retryable only after failing.  *)

\* Work that waits has either never run or failed in an earlier attempt:
\* what cancelling and requeueing need of the entry they find.
WaitingEntry(e) ==
  /\ e.queue = "queued" => e.job \in {"queued", "failed"}
  /\ e.queue = "retry_waiting" => e.job = "failed" /\ e.attempt > 1

QueueInvariant ==
  /\ TypeOK
  /\ EntriesValid
  /\ PositionsUnique
  /\ KeyNamesOneJob
  /\ NoOvertakenFirstAttempt
  /\ OneClaimPerAttempt
  /\ \A j \in DOMAIN entries : WaitingEntry(entries[j])
  /\ \A j \in JobIds \ DOMAIN entries : claims[j] = 0

\* A rewrite that leaves a valid entry, becomes active only as a later
\* attempt, and accounts for its claim preserves the whole invariant.
LEMMA RewritePreserves ==
  ASSUME QueueInvariant, TypeOK', NEW id, NEW f, Rewritten(id, f),
         ValidEntry(f), WaitingEntry(f),
         f.attempt >= entries[id].attempt,
         SchedulingActive(f) => SchedulingActive(entries[id]) \/ f.attempt > 1,
         \A j \in JobIds : j # id => claims'[j] = claims[j],
         claims'[id] <= f.attempt,
         f.queue \in {"queued", "retry_waiting"} => claims'[id] < f.attempt
  PROVE  QueueInvariant'
  <1> USE DEF QueueInvariant
  <1>1. /\ DOMAIN entries' = DOMAIN entries /\ id \in DOMAIN entries
        /\ entries'[id] = f /\ SameIdentity(entries[id], f)
        /\ \A j \in DOMAIN entries : j # id => entries'[j] = entries[j]
        /\ DOMAIN entries \subseteq JobIds
        /\ \A j \in DOMAIN entries : entries[j] \in Entry /\ entries'[j] \in Entry
    BY RewriteShape DEF Rewritten, TypeOK
  <1>2. EntriesValid'
    BY <1>1 DEF EntriesValid, ValidEntry
  <1>3. \A j \in DOMAIN entries : SameIdentity(entries[j], entries'[j])
    BY <1>1 DEF SameIdentity
  <1>4. PositionsUnique'
    BY <1>1, <1>3 DEF PositionsUnique, SameIdentity, Rewritten
  <1>5. KeyNamesOneJob'
    BY <1>1, <1>3 DEF KeyNamesOneJob, SameIdentity, EquivalentRequest, SameSource, Rewritten
  <1>6. NoOvertakenFirstAttempt'
    <2> SUFFICES ASSUME NEW i \in DOMAIN entries, NEW j \in DOMAIN entries,
                        SameSource(entries'[i], entries'[j]),
                        entries'[i].position < entries'[j].position,
                        SchedulingActive(entries'[i])
                 PROVE  entries'[i].attempt > 1
      BY <1>1 DEF NoOvertakenFirstAttempt, SameSource, SchedulingActive
    <2>1. /\ SameSource(entries[i], entries[j])
          /\ entries[i].position < entries[j].position
      BY <1>3 DEF SameIdentity, SameSource
    <2>2. CASE i # id
      BY <2>1, <2>2, <1>1 DEF NoOvertakenFirstAttempt
    <2>3. CASE i = id /\ SchedulingActive(entries[id])
      BY <2>1, <2>3, <1>1 DEF NoOvertakenFirstAttempt, Entry
    <2>4. CASE i = id /\ f.attempt > 1
      BY <2>4, <1>1
    <2>5. QED
      BY <2>2, <2>3, <2>4, <1>1
  <1>7. OneClaimPerAttempt'
    BY <1>1 DEF OneClaimPerAttempt
  <1>8. \A j \in JobIds \ DOMAIN entries' : claims'[j] = 0
    BY <1>1
  <1>9. \A j \in DOMAIN entries' : WaitingEntry(entries'[j])
    BY <1>1 DEF WaitingEntry
  <1>10. QED
    BY <1>2, <1>4, <1>5, <1>6, <1>7, <1>8, <1>9 DEF WaitingEntry

\* A new entry goes to the last position, behind every entry of its source, so
\* it overtakes no first attempt and takes no key or position in use.
LEMMA EnqueuePreserves ==
  ASSUME QueueInvariant, TypeOK', NEW id \in JobIds, NEW r \in Request, Enqueue(id, r)
  PROVE  QueueInvariant'
  <1> USE DEF QueueInvariant
  <1> DEFINE new == NewEntry(r, nextPosition + 1)
  <1>1. /\ id \notin DOMAIN entries /\ DOMAIN entries' = DOMAIN entries \cup {id}
        /\ entries'[id] = new /\ new \in Entry
        /\ \A j \in DOMAIN entries : entries'[j] = entries[j] /\ entries[j] \in Entry
        /\ nextPosition' = nextPosition + 1 /\ nextPosition \in Nat
    BY EnqueueAdds DEF TypeOK
  <1>2. /\ new.position = nextPosition + 1 /\ new.attempt = 1 /\ new.max \in Nat \ {0}
        /\ new.queue = "queued" /\ new.job = "queued" /\ new.key = r.key
        /\ new.claimedAt = NoTime /\ new.retryAt = NoTime
        /\ EquivalentRequest(r, new) /\ SameSource(new, r)
    BY QueueAssumption DEF QueueAssumption, NewEntry, EquivalentRequest, SameSource, Request
  <1> HIDE DEF new
  <1>3. EntriesValid'
    <2>1. ValidEntry(new)
      BY <1>2 DEF ValidEntry, TerminalJobStatuses
    <2>2. QED
      BY <2>1, <1>1 DEF EntriesValid, ValidEntry
  <1>4. PositionsUnique'
    BY <1>1, <1>2 DEF PositionsUnique, Entry
  <1>5. KeyNamesOneJob'
    <2>1. CASE r.key = NoKey
      BY <2>1, <1>1, <1>2 DEF KeyNamesOneJob, Enqueue, EquivalentRequest, SameSource
    <2>2. CASE r.key # NoKey
      <3>1. r.key \notin DOMAIN idempotency
        BY <2>2 DEF Enqueue, KeyUsed
      <3>2. idempotency' = [y \in DOMAIN idempotency \cup {r.key} |->
               IF y = r.key THEN [request |-> r, id |-> id] ELSE idempotency[y]]
        BY <2>2 DEF Enqueue, Extend
      <3>3. QED
        BY <3>1, <3>2, <2>2, <1>1, <1>2 DEF KeyNamesOneJob, EquivalentRequest, SameSource
    <2>3. QED
      BY <2>1, <2>2
  <1>6. NoOvertakenFirstAttempt'
    <2> SUFFICES ASSUME NEW i \in DOMAIN entries', NEW j \in DOMAIN entries',
                        SameSource(entries'[i], entries'[j]),
                        entries'[i].position < entries'[j].position,
                        SchedulingActive(entries'[i])
                 PROVE  entries'[i].attempt > 1
      BY DEF NoOvertakenFirstAttempt, SameSource, SchedulingActive
    <2>1. CASE i = id
      BY <2>1, <1>1, <1>2 DEF PositionsUnique, Entry
    <2>2. CASE i # id /\ j # id
      BY <2>2, <1>1 DEF NoOvertakenFirstAttempt
    <2>3. CASE i # id /\ j = id
      BY <2>3, <1>1, <1>2 DEF Enqueue, DuplicateActive, SameSource
    <2>4. QED
      BY <2>1, <2>2, <2>3
  <1>7. OneClaimPerAttempt'
    BY <1>1, <1>2 DEF OneClaimPerAttempt, Enqueue
  <1>8. \A j \in JobIds \ DOMAIN entries' : claims'[j] = 0
    BY <1>1 DEF Enqueue
  <1>9. \A j \in DOMAIN entries' : WaitingEntry(entries'[j])
    BY <1>1, <1>2 DEF WaitingEntry
  <1>10. QED
    BY <1>3, <1>4, <1>5, <1>6, <1>7, <1>8, <1>9 DEF WaitingEntry

\* Each rewriting operation meets the conditions of RewritePreserves.
LEMMA OperationsPreserve ==
  ASSUME QueueInvariant, TypeOK', NEW id \in JobIds
  PROVE  /\ \A x \in QueueStatuses : Claim(id, x) => QueueInvariant'
         /\ \A x \in QueueStatuses : CancelQueued(id, x) => QueueInvariant'
         /\ \A x \in QueueStatuses : Requeue(id, x) => QueueInvariant'
         /\ \A x \in QueueStatuses, policy \in Policies :
              \A delay \in BackoffDelays(policy) :
                ScheduleRetry(id, x, policy, delay) => QueueInvariant'
         /\ \A job \in JobResult : RecordStarted(id, job) => QueueInvariant'
         /\ \A job \in JobResult : RecordPartial(id, job) => QueueInvariant'
         /\ \A job \in JobResult : RecordTerminal(id, job) => QueueInvariant'
  <1> DEFINE e == entries[id]
  <1>0. TypeOK /\ now \in Nat /\ claims \in [JobIds -> Nat]
    BY DEF QueueInvariant, TypeOK
  <1>1. ASSUME id \in DOMAIN entries
        PROVE  /\ ValidEntry(e) /\ WaitingEntry(e)
               /\ claims[id] <= e.attempt
               /\ e.queue \in {"queued", "retry_waiting"} => claims[id] < e.attempt
    BY <1>1 DEF QueueInvariant, EntriesValid, OneClaimPerAttempt
  <1>2. ASSUME NEW x \in QueueStatuses, Claim(id, x) PROVE QueueInvariant'
    <2>1. /\ e \in Entry /\ e.queue = "queued" /\ id \in DOMAIN entries
          /\ Rewritten(id, ClaimedEntry(e))
          /\ claims' = [claims EXCEPT ![id] = @ + 1]
      BY <1>2, <1>0, ClaimRewrites DEF Rewritten
    <2>2. ClaimedEntry(e).attempt = e.attempt /\ ClaimedEntry(e).queue = "claimed"
      BY <2>1 DEF ClaimedEntry, Entry
    <2>3. ValidEntry(ClaimedEntry(e)) /\ WaitingEntry(ClaimedEntry(e))
      BY <1>0, <1>1, <2>1 DEF ValidEntry, WaitingEntry, ClaimedEntry, Entry, NoTime,
                              TerminalJobStatuses
    <2>4. claims'[id] <= e.attempt /\ \A j \in JobIds : j # id => claims'[j] = claims[j]
      BY <1>0, <1>1, <2>1 DEF Entry
    <2>5. QED
      BY <2>1, <2>2, <2>3, <2>4, RewritePreserves DEF SchedulingActive, Entry
  <1>3. ASSUME NEW x \in QueueStatuses, CancelQueued(id, x) PROVE QueueInvariant'
    <2>1. /\ e \in Entry /\ e.queue \in {"queued", "retry_waiting"} /\ id \in DOMAIN entries
          /\ Rewritten(id, CancelledEntry(e))
          /\ claims' = claims
      BY <1>3, <1>0, CancelRewrites DEF Rewritten
    <2>2. CancelledEntry(e).attempt = e.attempt /\ CancelledEntry(e).queue = "cancelled"
      BY <2>1 DEF CancelledEntry, Entry
    <2>3. ValidEntry(CancelledEntry(e)) /\ WaitingEntry(CancelledEntry(e))
      BY <1>1, <2>1 DEF ValidEntry, WaitingEntry, CancelledEntry, Entry, TerminalJobStatuses
    <2>4. QED
      BY <1>0, <1>1, <2>1, <2>2, <2>3, RewritePreserves DEF SchedulingActive, Entry
  <1>4. ASSUME NEW x \in QueueStatuses, Requeue(id, x) PROVE QueueInvariant'
    <2>1. /\ e \in Entry /\ e.queue = "retry_waiting" /\ id \in DOMAIN entries
          /\ Rewritten(id, RequeuedEntry(e))
          /\ claims' = claims
      BY <1>4, <1>0, RequeueRewrites DEF Rewritten
    <2>2. RequeuedEntry(e).attempt = e.attempt /\ RequeuedEntry(e).queue = "queued"
      BY <2>1 DEF RequeuedEntry, Entry
    <2>3. ValidEntry(RequeuedEntry(e)) /\ WaitingEntry(RequeuedEntry(e))
      BY <1>1, <2>1 DEF ValidEntry, WaitingEntry, RequeuedEntry, Entry, TerminalJobStatuses
    <2>4. QED
      BY <1>0, <1>1, <2>1, <2>2, <2>3, RewritePreserves DEF SchedulingActive, Entry
  <1>5. ASSUME NEW x \in QueueStatuses, NEW policy \in Policies,
               NEW delay \in BackoffDelays(policy), ScheduleRetry(id, x, policy, delay)
        PROVE  QueueInvariant'
    <2>1. /\ e \in Entry /\ e.queue = "terminal" /\ id \in DOMAIN entries
          /\ RetryPermitted(e, policy) /\ delay \in Nat
          /\ Rewritten(id, RetriedEntry(e, delay))
          /\ claims' = claims
      BY <1>5, <1>0, RetryRewrites DEF Rewritten
    <2>2. RetriedEntry(e, delay).attempt = e.attempt + 1
          /\ RetriedEntry(e, delay).queue = "retry_waiting"
      BY <2>1 DEF RetriedEntry, Entry
    <2>3. e.job = "failed" /\ e.attempt + 1 <= e.max
      <3>1. e.job = "failed"
        BY <1>1, <2>1 DEF ValidEntry, RetryPermitted, TerminalJobStatuses
      <3>2. e.max \in Nat /\ policy.maxAttempts \in Nat /\ e.attempt \in Nat
        BY <2>1, QueueAssumption DEF Entry, QueueAssumption
      <3>3. QED
        BY <2>1, <3>1, <3>2 DEF RetryPermitted, AttemptLimit
    <2>4. ValidEntry(RetriedEntry(e, delay)) /\ WaitingEntry(RetriedEntry(e, delay))
      BY <1>0, <2>1, <2>3 DEF ValidEntry, WaitingEntry, RetriedEntry, RetryPermitted, Entry,
                              NoTime
    <2>5. claims'[id] < e.attempt + 1
      BY <1>0, <1>1, <2>1 DEF Entry
    <2>6. QED
      BY <1>0, <2>1, <2>2, <2>4, <2>5, RewritePreserves DEF SchedulingActive, Entry
  <1>6. ASSUME NEW job \in JobResult, NEW want \in {"running", "partial"},
               RecordProgress(id, job, want)
        PROVE  QueueInvariant'
    <2>1. /\ e \in Entry /\ e.queue = "claimed" /\ id \in DOMAIN entries
          /\ job.status \in {"running", "partial"}
          /\ Rewritten(id, ProgressedEntry(e, job))
          /\ claims' = claims
      BY <1>6, <1>0, ProgressRewrites DEF Rewritten
    <2>2. ProgressedEntry(e, job).attempt = e.attempt
          /\ ProgressedEntry(e, job).queue = "claimed"
      BY <2>1 DEF ProgressedEntry, Entry
    <2>3. ValidEntry(ProgressedEntry(e, job)) /\ WaitingEntry(ProgressedEntry(e, job))
      BY <1>1, <2>1 DEF ValidEntry, WaitingEntry, ProgressedEntry, Entry, TerminalJobStatuses
    <2>4. QED
      BY <1>0, <1>1, <2>1, <2>2, <2>3, RewritePreserves DEF SchedulingActive, Entry
  <1>7. ASSUME NEW job \in JobResult, RecordTerminal(id, job) PROVE QueueInvariant'
    <2>1. /\ e \in Entry /\ e.queue = "claimed" /\ id \in DOMAIN entries
          /\ job.status \in TerminalJobStatuses
          /\ Rewritten(id, FinishedEntry(e, job))
          /\ claims' = claims
      BY <1>7, <1>0, TerminalRewrites DEF Rewritten
    <2>2. FinishedEntry(e, job).attempt = e.attempt /\ FinishedEntry(e, job).queue = "terminal"
      BY <2>1 DEF FinishedEntry, Entry
    <2>3. ValidEntry(FinishedEntry(e, job)) /\ WaitingEntry(FinishedEntry(e, job))
      BY <1>1, <2>1 DEF ValidEntry, WaitingEntry, FinishedEntry, Entry
    <2>4. QED
      BY <1>0, <1>1, <2>1, <2>2, <2>3, RewritePreserves DEF SchedulingActive, Entry
  <1>8. QED
    BY <1>2, <1>3, <1>4, <1>5, <1>6, <1>7 DEF RecordStarted, RecordPartial

\* The strengthening holds at first.
LEMMA InvariantInit ==
  ASSUME Init PROVE QueueInvariant
  BY DEF Init, QueueInvariant, TypeOK, EntriesValid, PositionsUnique, KeyNamesOneJob,
         NoOvertakenFirstAttempt, OneClaimPerAttempt

\* Every step keeps the strengthening.
LEMMA InvariantStep ==
  ASSUME QueueInvariant, [Next]_vars
  PROVE  QueueInvariant'
  <1>1. TypeOK'
    BY TypeStep DEF QueueInvariant
  <1>2. CASE Tick \/ UNCHANGED vars
    BY <1>1, <1>2
    DEF Tick, vars, QueueInvariant, EntriesValid, ValidEntry, WaitingEntry,
        PositionsUnique, KeyNamesOneJob, EquivalentRequest, SameSource,
        NoOvertakenFirstAttempt, SchedulingActive, OneClaimPerAttempt
  <1>3. ASSUME NEW id \in JobIds, NEW r \in Request, Enqueue(id, r)
        PROVE  QueueInvariant'
    BY <1>1, <1>3, EnqueuePreserves
  <1> QED
    BY <1>1, <1>2, <1>3, OperationsPreserve DEF Next

\* The strengthening is an invariant of the specification.
LEMMA QueueInvariantHolds == Spec => []QueueInvariant
  BY InvariantInit, InvariantStep, PTL DEF Spec

\* Whatever calls are accepted, in whatever order, every entry stays one that
\* QueueEntry.Validate accepts.
THEOREM EntriesStayValid == Spec => []EntriesValid
  <1>1. QueueInvariant => EntriesValid
    BY DEF QueueInvariant
  <1> QED
    BY <1>1, QueueInvariantHolds, PTL

\* A first attempt is never overtaken by a newer job of its source.
THEOREM FirstAttemptsNotOvertaken == Spec => []NoOvertakenFirstAttempt
  <1>1. QueueInvariant => NoOvertakenFirstAttempt
    BY DEF QueueInvariant
  <1> QED
    BY <1>1, QueueInvariantHolds, PTL

\* However often calls are repeated, an attempt is claimed at most once.
THEOREM AttemptsClaimedOnce == Spec => []OneClaimPerAttempt
  <1>1. QueueInvariant => OneClaimPerAttempt
    BY DEF QueueInvariant
  <1> QED
    BY <1>1, QueueInvariantHolds, PTL

\* A key names one job, and no two jobs have one position.
THEOREM NamesUnique == Spec => [](KeyNamesOneJob /\ PositionsUnique)
  <1>1. QueueInvariant => KeyNamesOneJob /\ PositionsUnique
    BY DEF QueueInvariant
  <1> QED
    BY <1>1, QueueInvariantHolds, PTL

-----------------------------------------------------------------------------
(* Action properties.                                                      *)

\* One step rewrites at most one entry, which it must have found waiting,
\* claimed, or terminal after a retryable failure, or it adds an entry.
LEMMA StepShape ==
  ASSUME QueueInvariant, [Next]_vars
  PROVE  \/ UNCHANGED entries
         \/ /\ DOMAIN entries \subseteq DOMAIN entries'
            /\ \A j \in DOMAIN entries : entries'[j] = entries[j]
         \/ \E id \in DOMAIN entries : \E f \in Entry :
              /\ Rewritten(id, f) /\ entries[id] \in Entry
              /\ \/ /\ f.attempt = entries[id].attempt
                    /\ entries[id].queue \in {"queued", "claimed", "retry_waiting"}
                 \/ /\ f.attempt = entries[id].attempt + 1
                    /\ entries[id].queue = "terminal" /\ f.queue = "retry_waiting"
                    /\ entries[id].job \notin {"completed", "cancelled"}
  <1> DEFINE Shape(id, f) ==
        /\ Rewritten(id, f) /\ entries[id] \in Entry
        /\ \/ /\ f.attempt = entries[id].attempt
              /\ entries[id].queue \in {"queued", "claimed", "retry_waiting"}
           \/ /\ f.attempt = entries[id].attempt + 1
              /\ entries[id].queue = "terminal" /\ f.queue = "retry_waiting"
              /\ entries[id].job \notin {"completed", "cancelled"}
      Rewriting == \E id \in DOMAIN entries : \E f \in Entry : Shape(id, f)
  <1>0. TypeOK
    BY DEF QueueInvariant
  <1>1. CASE Tick \/ UNCHANGED vars
    BY <1>1 DEF Tick, vars
  <1>2. ASSUME NEW id \in JobIds, NEW r \in Request, Enqueue(id, r)
        PROVE  /\ DOMAIN entries \subseteq DOMAIN entries'
               /\ \A j \in DOMAIN entries : entries'[j] = entries[j]
    BY <1>0, <1>2, EnqueueAdds
  <1>3. ASSUME NEW id \in JobIds, NEW x \in QueueStatuses, Claim(id, x) PROVE Rewriting
    <2>1. Shape(id, ClaimedEntry(entries[id]))
      BY <1>0, <1>3, ClaimRewrites DEF ClaimedEntry, Entry
    <2>2. QED
      BY <2>1 DEF Rewritten
  <1>4. ASSUME NEW id \in JobIds, NEW x \in QueueStatuses, CancelQueued(id, x) PROVE Rewriting
    <2>1. Shape(id, CancelledEntry(entries[id]))
      BY <1>0, <1>4, CancelRewrites DEF CancelledEntry, Entry
    <2>2. QED
      BY <2>1 DEF Rewritten
  <1>5. ASSUME NEW id \in JobIds, NEW x \in QueueStatuses, Requeue(id, x) PROVE Rewriting
    <2>1. Shape(id, RequeuedEntry(entries[id]))
      BY <1>0, <1>5, RequeueRewrites DEF RequeuedEntry, Entry
    <2>2. QED
      BY <2>1 DEF Rewritten
  <1>6. ASSUME NEW id \in JobIds, NEW x \in QueueStatuses, NEW policy \in Policies,
               NEW delay \in BackoffDelays(policy), ScheduleRetry(id, x, policy, delay)
        PROVE  Rewriting
    <2>1. Shape(id, RetriedEntry(entries[id], delay))
      BY <1>0, <1>6, RetryRewrites DEF RetriedEntry, RetryPermitted, Entry
    <2>2. QED
      BY <2>1 DEF Rewritten
  <1>7. ASSUME NEW id \in JobIds, NEW job \in JobResult, NEW want,
               RecordProgress(id, job, want)
        PROVE  Rewriting
    <2>1. Shape(id, ProgressedEntry(entries[id], job))
      BY <1>0, <1>7, ProgressRewrites DEF ProgressedEntry, Entry
    <2>2. QED
      BY <2>1 DEF Rewritten
  <1>8. ASSUME NEW id \in JobIds, NEW job \in JobResult, RecordTerminal(id, job)
        PROVE  Rewriting
    <2>1. Shape(id, FinishedEntry(entries[id], job))
      BY <1>0, <1>8, TerminalRewrites DEF FinishedEntry, Entry
    <2>2. QED
      BY <2>1 DEF Rewritten
  <1>9. QED
    BY <1>1, <1>2, <1>3, <1>4, <1>5, <1>6, <1>7, <1>8
       DEF Next, RecordStarted, RecordPartial

\* Cancelled and completed work is final, whatever calls follow.
THEOREM FinishedWorkStays == Spec => FinishedStays
  <1>1. QueueInvariant /\ [Next]_vars =>
          [\A j \in DOMAIN entries :
             LET e == entries[j] IN
             (e.queue = "cancelled" \/ (e.queue = "terminal" /\ e.job # "failed"))
               => entries'[j] = e]_vars
    <2> SUFFICES ASSUME QueueInvariant, [Next]_vars, NEW j \in DOMAIN entries,
                        \/ entries[j].queue = "cancelled"
                        \/ entries[j].queue = "terminal" /\ entries[j].job # "failed"
                 PROVE  entries'[j] = entries[j]
      OBVIOUS
    <2>1. entries[j].queue = "terminal" => entries[j].job \in {"completed", "cancelled"}
      BY DEF QueueInvariant, EntriesValid, ValidEntry, TerminalJobStatuses
    <2>2. ASSUME NEW id \in DOMAIN entries, NEW f \in Entry, Rewritten(id, f), id # j
          PROVE  entries'[j] = entries[j]
      BY <2>2, RewriteShape DEF QueueInvariant
    <2>3. QED
      BY <2>1, <2>2, StepShape
  <1>2. QED
    BY <1>1, QueueInvariantHolds, PTL DEF Spec, FinishedStays

\* No call loses, re-identifies or re-prices an accepted job, and an attempt
\* is added only to failed, finished work.
THEOREM HistoryKept == Spec => EntryHistory
  <1> DEFINE Kept(j) ==
        /\ j \in DOMAIN entries'
        /\ entries'[j].position = entries[j].position
        /\ entries'[j].max = entries[j].max /\ entries'[j].key = entries[j].key
        /\ SameSource(entries[j], entries'[j])
        /\ entries'[j].attempt # entries[j].attempt =>
             /\ entries'[j].attempt = entries[j].attempt + 1
             /\ entries[j].queue = "terminal" /\ entries'[j].queue = "retry_waiting"
  <1>1. ASSUME QueueInvariant, [Next]_vars, NEW j \in DOMAIN entries
        PROVE  Kept(j)
    <2>1. ASSUME NEW id \in DOMAIN entries, NEW f \in Entry, Rewritten(id, f),
                 \/ f.attempt = entries[id].attempt
                 \/ /\ f.attempt = entries[id].attempt + 1
                    /\ entries[id].queue = "terminal" /\ f.queue = "retry_waiting"
          PROVE  Kept(j)
      BY <1>1, <2>1, RewriteShape DEF Rewritten, QueueInvariant, SameIdentity, SameSource
    <2>2. QED
      BY <1>1, <2>1, StepShape DEF SameSource
  <1>2. QueueInvariant /\ [Next]_vars => [\A j \in DOMAIN entries :
          LET e == entries[j]
              f == entries'[j]
          IN  /\ j \in DOMAIN entries'
              /\ f.position = e.position /\ f.max = e.max /\ f.key = e.key
              /\ SameSource(e, f)
              /\ f.attempt # e.attempt =>
                   /\ f.attempt = e.attempt + 1
                   /\ e.queue = "terminal" /\ f.queue = "retry_waiting"]_vars
    BY <1>1
  <1>3. QED
    BY <1>2, QueueInvariantHolds, PTL DEF Spec, EntryHistory

-----------------------------------------------------------------------------
(* The delay of a retry.                                                   *)

\* A set of numbers has a least: no attempt is the first to break what holds of
\* the first attempt and is kept from each to the next.
LEMMA LeastExists ==
  ASSUME NEW S, S \subseteq Nat, S # {}
  PROVE  \E x \in S : \A y \in S : x <= y
  <1>1. PICK x \in S : \A y \in S : <<y, x>> \notin OpToRel(<, Nat)
    BY NatLessThanWellFounded, WFMin
  <1>2. \A y \in S : ~(y < x)
    BY <1>1 DEF OpToRel
  <1> QED
    BY <1>2

\* The delays of the attempts up to n, as the loop computes them.
Delays(p, n, longest, f) ==
  f = [i \in 1 .. n |->
         IF i = 1 THEN p.initialDelay ELSE NextDelay(p, f[i - 1], longest)]

\* The loop computes them, for every attempt.
LEMMA DelaysExist ==
  ASSUME NEW p, NEW longest, NEW n \in Nat
  PROVE  \E f : Delays(p, n, longest, f)
  <1> DEFINE none == {k \in Nat : \A f : ~Delays(p, k, longest, f)}
  <1> SUFFICES ASSUME none # {}
               PROVE  FALSE
    OBVIOUS
  <1>1. PICK k \in none : \A j \in none : k <= j
    BY LeastExists
  <1>2. CASE k = 0
    <2> DEFINE f == [i \in 1 .. 0 |-> p.initialDelay]
    <2>1. Delays(p, 0, longest, f)
      BY DEF Delays
    <2> QED
      BY <1>1, <1>2, <2>1
  <1>3. CASE k # 0
    <2>1. k - 1 \in Nat /\ k - 1 \notin none
      BY <1>1, <1>3
    <2>2. PICK g : Delays(p, k - 1, longest, g)
      BY <2>1
    <2> DEFINE f == [i \in 1 .. k |-> IF i = 1 THEN p.initialDelay
                                      ELSE NextDelay(p, g[i - 1], longest)]
    <2>3. \A i \in 1 .. k - 1 : f[i] = g[i]
      <3>1. ASSUME NEW i \in 1 .. k - 1
            PROVE  g[i] = IF i = 1 THEN p.initialDelay ELSE NextDelay(p, g[i - 1], longest)
        BY <2>2 DEF Delays
      <3>2. 1 .. k - 1 \subseteq 1 .. k
        BY <1>1
      <3> QED
        BY <3>1, <3>2
    <2>4. \A i \in 1 .. k : i # 1 => f[i - 1] = g[i - 1]
      <3> HIDE DEF f
      <3> QED
        BY <1>1, <2>3
    <2>5. f = [i \in 1 .. k |-> IF i = 1 THEN p.initialDelay
                                ELSE NextDelay(p, f[i - 1], longest)]
      BY <2>4
    <2> HIDE DEF f
    <2> QED
      BY <1>1, <2>5 DEF Delays
  <1> QED
    BY <1>2, <1>3

LEMMA BackoffIsDelay ==
  ASSUME NEW p, NEW longest, NEW n \in Nat
  PROVE  \E f : Delays(p, n, longest, f) /\ BoundedBackoff(p, n, longest) = f[n]
  <1> DEFINE d == CHOOSE f : Delays(p, n, longest, f)
  <1>1. Delays(p, n, longest, d)
    BY DelaysExist
  <1>2. BoundedBackoff(p, n, longest) = d[n]
    BY DEF BoundedBackoff, Delays
  <1> QED
    BY <1>1, <1>2

LEMMA DelayGrows ==
  ASSUME NEW d \in Nat, NEW m \in Nat \ {0}
  PROVE  d * m \in Nat /\ d <= d * m
  <1>1. d * m \in Nat
    OBVIOUS
  <1>2. d * m = d * (m - 1) + d
    OBVIOUS
  <1>3. d * (m - 1) \in Nat
    OBVIOUS
  <1> QED
    BY <1>1, <1>2, <1>3

LEMMA NextDelayBounded ==
  ASSUME NEW p, ValidPolicy(p), p.initialDelay \in Nat, p.maxDelay \in Nat,
         p.multiplier \in Nat \ {0},
         NEW longest \in Nat, NEW d \in p.initialDelay .. p.maxDelay
  PROVE  /\ NextDelay(p, d, longest) \in p.initialDelay .. p.maxDelay
         /\ d <= NextDelay(p, d, longest)
  <1> DEFINE product == d * p.multiplier
  <1>1. d \in Nat
    OBVIOUS
  <1>2. product \in Nat /\ d <= product
    BY <1>1, DelayGrows
  <1>3. NextDelay(p, d, longest) =
          IF product >= p.maxDelay \/ product > longest THEN p.maxDelay ELSE product
    BY DEF NextDelay
  <1> HIDE DEF product
  <1> QED
    BY <1>2, <1>3 DEF ValidPolicy

\* What the loop has computed does not depend on how far it goes on.
LEMMA DelaysAgree ==
  ASSUME NEW p, NEW longest, NEW k \in Nat, NEW n \in Nat, k <= n,
         NEW f, Delays(p, k, longest, f), NEW g, Delays(p, n, longest, g)
  PROVE  \A i \in 1 .. k : f[i] = g[i]
  <1>1. ASSUME NEW i \in 1 .. k
        PROVE  f[i] = IF i = 1 THEN p.initialDelay ELSE NextDelay(p, f[i - 1], longest)
    BY DEF Delays
  <1>2. ASSUME NEW i \in 1 .. n
        PROVE  g[i] = IF i = 1 THEN p.initialDelay ELSE NextDelay(p, g[i - 1], longest)
    BY DEF Delays
  <1>3. 1 .. k \subseteq 1 .. n
    OBVIOUS
  <1> DEFINE differ == {i \in 1 .. k : f[i] # g[i]}
  <1> SUFFICES ASSUME differ # {}
               PROVE  FALSE
    OBVIOUS
  <1>4. differ \subseteq Nat
    OBVIOUS
  <1>5. PICK i \in differ : \A j \in differ : i <= j
    BY <1>4, LeastExists
  <1>6. CASE i = 1
    BY <1>1, <1>2, <1>3, <1>5, <1>6
  <1>7. CASE i # 1
    <2>1. i - 1 \in 1 .. k /\ i - 1 \notin differ
      BY <1>5, <1>7
    <2>2. f[i - 1] = g[i - 1]
      BY <2>1
    <2>3. f[i] = NextDelay(p, f[i - 1], longest) /\ g[i] = NextDelay(p, g[i - 1], longest)
      BY <1>1, <1>2, <1>3, <1>5, <1>7
    <2> QED
      BY <1>5, <2>2, <2>3
  <1> QED
    BY <1>6, <1>7

\* The loop turns once more for every attempt.
LEMMA BackoffTurns ==
  ASSUME NEW p, NEW longest, NEW n \in Nat \ {0}
  PROVE  /\ BoundedBackoff(p, 1, longest) = p.initialDelay
         /\ BoundedBackoff(p, n + 1, longest) =
              NextDelay(p, BoundedBackoff(p, n, longest), longest)
  <1>1. PICK f : Delays(p, n, longest, f) /\ BoundedBackoff(p, n, longest) = f[n]
    BY BackoffIsDelay
  <1>2. n + 1 \in Nat /\ n <= n + 1 /\ n \in 1 .. n /\ n + 1 \in 1 .. n + 1 /\ n + 1 # 1
    OBVIOUS
  <1>3. PICK g : /\ Delays(p, n + 1, longest, g)
                 /\ BoundedBackoff(p, n + 1, longest) = g[n + 1]
    BY <1>2, BackoffIsDelay
  <1>4. f[n] = g[n]
    BY <1>1, <1>2, <1>3, DelaysAgree
  <1>5. ASSUME NEW i \in 1 .. n + 1
        PROVE  g[i] = IF i = 1 THEN p.initialDelay ELSE NextDelay(p, g[i - 1], longest)
    BY <1>3 DEF Delays
  <1>6. g[n + 1] = NextDelay(p, g[n + 1 - 1], longest)
    BY <1>2, <1>5
  <1>7. n + 1 - 1 = n
    OBVIOUS
  <1>8. PICK h : Delays(p, 1, longest, h) /\ BoundedBackoff(p, 1, longest) = h[1]
    BY BackoffIsDelay
  <1>9. h[1] = p.initialDelay
    BY <1>8 DEF Delays
  <1> QED
    BY <1>1, <1>3, <1>4, <1>6, <1>7, <1>8, <1>9

\* The delay of a retry saturates: for every valid policy it is one the queue lets
\* a retry have at any attempt, however high, and never gets shorter from one
\* attempt to the next (boundedBackoff in retry.go).
THEOREM BackoffSaturates ==
  ASSUME NEW p, ValidPolicy(p), p.initialDelay \in Nat, p.maxDelay \in Nat,
         p.multiplier \in Nat \ {0}, NEW longest \in Nat
  PROVE  \A attempt \in Nat \ {0} :
           LET delay == BoundedBackoff(p, attempt, longest) IN
           /\ delay \in BackoffDelays(p)
           /\ delay <= BoundedBackoff(p, attempt + 1, longest)
  <1> DEFINE delay(n) == BoundedBackoff(p, n, longest)
             out == {n \in Nat \ {0} : delay(n) \notin p.initialDelay .. p.maxDelay}
  <1>1. /\ delay(1) = p.initialDelay
        /\ \A n \in Nat \ {0} : delay(n + 1) = NextDelay(p, delay(n), longest)
    BY BackoffTurns
  <1> HIDE DEF delay
  <1>2. out = {}
    <2> SUFFICES ASSUME out # {}
                 PROVE  FALSE
      OBVIOUS
    <2>1. out \subseteq Nat
      OBVIOUS
    <2>2. PICK n \in out : \A k \in out : n <= k
      BY <2>1, LeastExists
    <2>3. n # 1
      BY <1>1, <2>2 DEF ValidPolicy
    <2>4. n - 1 \in Nat \ {0} /\ n - 1 \notin out /\ n - 1 + 1 = n
      BY <2>2, <2>3
    <2>5. /\ delay(n - 1) \in p.initialDelay .. p.maxDelay
          /\ delay(n) = NextDelay(p, delay(n - 1), longest)
      BY <1>1, <2>4
    <2> QED
      BY <2>2, <2>5, NextDelayBounded
  <1>3. \A n \in Nat \ {0} : delay(n) \in p.initialDelay .. p.maxDelay
    BY <1>2
  <1>4. \A n \in Nat \ {0} : delay(n) <= delay(n + 1)
    BY <1>1, <1>3, NextDelayBounded
  <1> QED
    BY <1>3, <1>4 DEF delay, BackoffDelays

=============================================================================
