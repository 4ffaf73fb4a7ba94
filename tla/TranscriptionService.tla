------------------------ MODULE TranscriptionService ------------------------
(***************************************************************************)
(* The in-memory transcription job service the application is composed     *)
(* with: the lifecycle of each job, apart from its place in the queue.     *)
(* Every operation holds the service's mutex from its first check to its   *)
(* last write, so each is one action; a refused call changes nothing.  The *)
(* use cases that call it are in TranscriptionIntegration.                 *)
(*                                                                         *)
(* Source: internal/transcription/fake.go, job.go, status.go.              *)
(***************************************************************************)
EXTENDS RuntimeStatus

CONSTANTS
  JobIds,     \* job identities
  Segments,   \* capture segments
  Models,     \* backend and model combinations a request can name
  Available,  \* those the configured backend has
  Errors,     \* classified failures
  NoError,    \* a nil LastError
  Sequences,  \* sequence numbers of partial updates
  Offsets     \* StableThroughMillis of partial updates

VARIABLES
  jobs,      \* job identity -> job
  partials   \* job identity -> its last accepted partial update

vars == <<jobs, partials>>

Job == [segment : Segments, model : Models, status : JobStatuses,
        err : Errors \cup {NoError}, started : BOOLEAN, finished : BOOLEAN]

Update == [sequence : Sequences, stable : Offsets]

NewJob(s, m) ==
  [segment |-> s, model |-> m, status |-> "queued", err |-> NoError,
   started |-> FALSE, finished |-> FALSE]

\* Defect: the partial state of an ended attempt is kept.
DropNothing(f, x) == f

Drop(f, x) == [y \in DOMAIN f \ {x} |-> f[y]]

\* Regresses: the update repeats or precedes the one accepted before it.
Regresses(id, u) ==
  /\ id \in DOMAIN partials
  /\ u.sequence <= partials[id].sequence \/ u.stable < partials[id].stable

-----------------------------------------------------------------------------
Init ==
  /\ jobs = [j \in {} |-> NoError]
  /\ partials = [j \in {} |-> NoError]

CanCreate(id, s, m) ==
  /\ m \in Available
  /\ \A j \in DOMAIN jobs :
       jobs[j].status \notin TerminalJobStatuses =>
         ~(jobs[j].segment = s /\ jobs[j].model = m)
  /\ id \notin DOMAIN jobs

CreateJob(id, s, m) ==
  /\ CanCreate(id, s, m)
  /\ jobs' = Extend(jobs, id, NewJob(s, m))
  /\ UNCHANGED partials

RestartedJob(job) ==
  [job EXCEPT !.status = "running", !.started = TRUE, !.finished = FALSE, !.err = NoError]

StartedJob(job) == [job EXCEPT !.status = "running", !.started = TRUE]

\* A failed job restarts only when the caller says this is a retry; any other
\* job must be able to prepare, a state that is passed through under the lock.
Start(id, retry) ==
  /\ id \in DOMAIN jobs
  /\ LET job == jobs[id] IN
     \/ /\ job.status = "failed" /\ retry
        /\ jobs' = [jobs EXCEPT ![id] = RestartedJob(job)]
     \/ /\ CanTransitionJob(job.status, "preparing")
        /\ jobs' = [jobs EXCEPT ![id] = StartedJob(job)]
  /\ UNCHANGED partials

UpdatePartial(id, u) ==
  /\ id \in DOMAIN jobs
  /\ jobs[id].status \in {"running", "partial"}
  /\ ~Regresses(id, u)
  /\ jobs' = [jobs EXCEPT ![id].status = "partial"]
  /\ partials' = Extend(partials, id, u)

\* Finalizing is passed through under the lock; the finished job is validated
\* before it is stored, and a completed job that kept a failure is refused.
Complete(id) ==
  /\ id \in DOMAIN jobs
  /\ CanTransitionJob(jobs[id].status, "finalizing")
  /\ jobs[id].started /\ jobs[id].err = NoError
  /\ jobs' = [jobs EXCEPT ![id].status = "completed", ![id].finished = TRUE]
  /\ partials' = Drop(partials, id)

Fail(id, err) ==
  /\ id \in DOMAIN jobs
  /\ CanTransitionJob(jobs[id].status, "failed")
  /\ jobs' = [jobs EXCEPT ![id].status = "failed", ![id].err = err]
  /\ partials' = Drop(partials, id)

Cancel(id) ==
  /\ id \in DOMAIN jobs
  /\ CanTransitionJob(jobs[id].status, "cancelled")
  /\ jobs' = [jobs EXCEPT ![id].status = "cancelled"]
  /\ partials' = Drop(partials, id)

-----------------------------------------------------------------------------
(* Properties.                                                             *)

\* Types of the service's state.
TypeOK ==
  /\ DOMAIN jobs \subseteq JobIds
  /\ jobs \in [DOMAIN jobs -> Job]
  /\ DOMAIN partials \subseteq JobIds
  /\ partials \in [DOMAIN partials -> Update]

\* Job.Validate, on the fields the service keeps.
ValidJob(job) ==
  /\ job.status = "queued" => ~job.started
  /\ job.finished => job.started
  /\ job.status # "completed" => ~job.finished
  /\ job.status \in ExecutingJobStatuses \cup {"completed"} => job.started
  /\ job.status = "completed" => job.finished /\ job.err = NoError
  /\ job.status = "failed" => job.err # NoError

\* Only CreateJob and Complete validate the job they store, yet the runtime
\* mapping refuses an invalid one after the service has changed: every
\* sequence of accepted calls, retries included, must keep every job valid.
JobsValid == \A j \in DOMAIN jobs : ValidJob(jobs[j])

\* A partial update is remembered exactly while its job is partial: a retry
\* must not inherit the sequence numbers of the attempt that failed.
PartialsMatchStatus ==
  DOMAIN partials = {j \in DOMAIN jobs : jobs[j].status = "partial"}

=============================================================================
