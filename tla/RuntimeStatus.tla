--------------------------- MODULE RuntimeStatus ---------------------------
(***************************************************************************)
(* The status vocabulary of a StudyPilot session snapshot, the transition  *)
(* tables the repository enforces on every persisted update, and the       *)
(* derivation of the session-level transcription status from the           *)
(* per-segment job summaries.  Constant operators only: the state machines *)
(* of the project are built from them.                                     *)
(*                                                                         *)
(* Source: internal/runtime/{status,transition,snapshot}.go,               *)
(* internal/session/state.go, internal/transcription/{status,queue}.go.    *)
(***************************************************************************)
EXTENDS Integers

\* A Go map with one more key, or with a new value for a key it has.
Extend(f, x, v) == [y \in DOMAIN f \cup {x} |-> IF y = x THEN v ELSE f[y]]

SessionStatuses == {"none", "planned", "active", "interrupted", "recovering",
                    "completed", "abandoned"}

CaptureStatuses == {"unavailable", "ready", "starting", "recording", "pausing",
                    "paused", "resuming", "stopping", "stopped", "failed"}

TranscriptionStatuses == {"not_started", "queued", "transcribing", "complete",
                          "partial", "failed"}

SegmentStatuses == {"pending", "recording", "finalizing", "stopped", "failed"}

JobStatuses == {"queued", "preparing", "running", "partial", "finalizing",
                "completed", "cancelled", "failed"}

TerminalJobStatuses == {"completed", "cancelled", "failed"}

ExecutingJobStatuses == {"preparing", "running", "partial", "finalizing"}

QueueStatuses == {"queued", "claimed", "retry_waiting", "cancelled", "terminal"}

TerminalSessionStatuses == {"completed", "abandoned"}

\* activeCapture: the capture states in which a backend owns the microphone.
ActiveCaptureStatuses == {"starting", "recording", "pausing", "resuming", "stopping"}

-----------------------------------------------------------------------------
(* Transition tables.  An edge absent from the map is refused; a status    *)
(* may always be kept.                                                     *)

SessionEdges ==
  {<<"none", "planned">>,
   <<"planned", "active">>, <<"planned", "abandoned">>,
   <<"active", "interrupted">>, <<"active", "completed">>, <<"active", "abandoned">>,
   <<"interrupted", "active">>, <<"interrupted", "recovering">>,
   <<"interrupted", "completed">>, <<"interrupted", "abandoned">>,
   <<"recovering", "active">>, <<"recovering", "interrupted">>,
   <<"recovering", "abandoned">>}

CaptureEdges ==
  {<<"unavailable", "ready">>, <<"unavailable", "failed">>,
   <<"ready", "starting">>, <<"ready", "unavailable">>,
   <<"starting", "recording">>, <<"starting", "failed">>,
   <<"recording", "pausing">>, <<"recording", "stopping">>, <<"recording", "failed">>,
   <<"pausing", "paused">>, <<"pausing", "failed">>,
   <<"paused", "resuming">>, <<"paused", "stopping">>, <<"paused", "failed">>,
   <<"resuming", "recording">>, <<"resuming", "failed">>,
   <<"stopping", "stopped">>, <<"stopping", "failed">>,
   <<"stopped", "starting">>, <<"stopped", "ready">>, <<"stopped", "unavailable">>,
   <<"failed", "ready">>, <<"failed", "unavailable">>}

\* The shortcuts validatePersistedCaptureTransition adds: the transient
\* capture states are never written to disk.
PersistedCaptureEdges ==
  {<<"unavailable", "recording">>, <<"ready", "recording">>,
   <<"stopped", "recording">>,
   <<"recording", "paused">>, <<"recording", "stopped">>,
   <<"paused", "recording">>, <<"paused", "stopped">>}

TranscriptionEdges ==
  {<<"not_started", "queued">>,
   <<"queued", "not_started">>, <<"queued", "transcribing">>, <<"queued", "failed">>,
   <<"transcribing", "complete">>, <<"transcribing", "partial">>,
   <<"transcribing", "failed">>,
   <<"partial", "queued">>, <<"partial", "transcribing">>,
   <<"partial", "complete">>, <<"partial", "failed">>,
   <<"failed", "queued">>,
   <<"complete", "partial">>, <<"complete", "queued">>,
   <<"complete", "transcribing">>, <<"complete", "failed">>}

CanTransitionSession(from, to) == from = to \/ <<from, to>> \in SessionEdges

CanTransitionCapture(from, to) == from = to \/ <<from, to>> \in CaptureEdges

CanPersistCapture(from, to) ==
  CanTransitionCapture(from, to) \/ <<from, to>> \in PersistedCaptureEdges

CanTransitionTranscription(from, to) ==
  from = to \/ <<from, to>> \in TranscriptionEdges

JobEdges ==
  {<<"queued", "preparing">>, <<"queued", "cancelled">>,
   <<"preparing", "running">>, <<"preparing", "cancelled">>, <<"preparing", "failed">>,
   <<"running", "partial">>, <<"running", "finalizing">>,
   <<"running", "cancelled">>, <<"running", "failed">>,
   <<"partial", "running">>, <<"partial", "finalizing">>,
   <<"partial", "cancelled">>, <<"partial", "failed">>,
   <<"finalizing", "completed">>, <<"finalizing", "failed">>}

CanTransitionJob(from, to) == <<from, to>> \in JobEdges

-----------------------------------------------------------------------------
(* Per-segment and session-level transcription status.  A slot is the      *)
(* snapshot's summary of the current job of one segment; it has at least   *)
(* the fields queue, job and err.  slots maps the segments that have a     *)
(* summary to it, finalized is the set of stopped segments.                *)

IsRunningSlot(slot) == slot.queue = "claimed" \/ slot.job \in ExecutingJobStatuses

IsQueuedSlot(slot) == slot.queue \in {"queued", "retry_waiting"}

NeedsAttention(slot) ==
  \/ slot.err = "uncertain"
  \/ slot.job = "failed" /\ slot.queue \notin {"retry_waiting", "queued", "claimed"}

SegmentTranscriptionStatus(slot) ==
  CASE slot.job = "completed" -> "complete"
    [] slot.job # "completed" /\ IsRunningSlot(slot) -> "transcribing"
    [] slot.job # "completed" /\ ~IsRunningSlot(slot) /\ IsQueuedSlot(slot) -> "queued"
    [] slot.job = "failed" /\ ~IsRunningSlot(slot) /\ ~IsQueuedSlot(slot) -> "failed"
    [] OTHER -> "not_started"

AggregateTranscriptionStatus(finalized, slots) ==
  LET known == finalized \cap DOMAIN slots
      completed == {s \in known : slots[s].job = "completed"}
  IN  IF \E s \in known : NeedsAttention(slots[s]) THEN "failed"
      ELSE IF \E s \in known : IsRunningSlot(slots[s]) THEN "transcribing"
      ELSE IF \E s \in known : IsQueuedSlot(slots[s]) THEN "queued"
      ELSE IF completed = {} THEN "not_started"
      ELSE IF completed = finalized THEN "complete"
      ELSE "partial"

=============================================================================
