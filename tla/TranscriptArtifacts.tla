------------------------- MODULE TranscriptArtifacts -------------------------
(***************************************************************************)
(* The durable transcript artifacts of one segment: ArtifactStore.Persist, *)
(* PersistFailure and the recovery inspection.  Four documents are written *)
(* as partial files, each synchronised, and then renamed one after the     *)
(* other, the job metadata last; one directory synchronisation ends it.    *)
(* Nothing is locked: two processes may persist the same segment.  Until   *)
(* the directory is synchronised a loss of power may undo any of the       *)
(* creations and renames, each on its own.  When a writer persists, and    *)
(* that it may be killed between two steps, is in TranscriptionExecution.  *)
(*                                                                         *)
(* Source: internal/transcription/backend/{artifact,recovery}.go.          *)
(***************************************************************************)
EXTENDS Integers, FiniteSets

CONSTANTS
  Writers,       \* executions that persist a result for the segment
  NoOne,         \* no document
  MaxConcurrent  \* how many of them run at the same time

ASSUME ArtifactAssumption ==
  /\ NoOne \notin Writers
  /\ MaxConcurrent \in Nat \ {0}

\* In the order they are written and renamed: transcript JSON, text,
\* provenance, job metadata.
Documents == 1 .. 4
Marker == 4

VARIABLES
  partial,   \* document -> what its .partial file holds
  final,     \* document -> what its final file holds
  exposed,   \* document -> the [partial, final] a loss of power may leave
  pc,        \* writer -> how far its call has come
  next,      \* writer -> the document it handles next
  outcome    \* writer -> what its call returned

vars == <<partial, final, exposed, pc, next, outcome>>

Absent == [by |-> NoOne, whole |-> FALSE]

Whole(w) == [by |-> w, whole |-> TRUE]

Broken(w) == [by |-> w, whole |-> FALSE]

Stages == {"new", "writing", "renaming", "syncing", "failing", "done"}

Outcomes == {"none", "completed", "partial", "conflict", "write_failed", "uncertain",
             "cancelled"}

Busy == {w \in Writers : pc[w] \notin {"new", "done"}}

Ends(w, result) ==
  /\ pc' = [pc EXCEPT ![w] = "done"]
  /\ outcome' = [outcome EXCEPT ![w] = result]

Pair(p, f) == [partial |-> p, final |-> f]

-----------------------------------------------------------------------------
Init ==
  /\ partial = [d \in Documents |-> Absent]
  /\ final = [d \in Documents |-> Absent]
  /\ exposed = [d \in Documents |-> {Pair(Absent, Absent)}]
  /\ pc = [w \in Writers |-> "new"]
  /\ next = [w \in Writers |-> 1]
  /\ outcome = [w \in Writers |-> "none"]

\* The source has been validated; every final and partial target is looked up.
Reserve(w) ==
  /\ pc[w] = "new"
  /\ Cardinality(Busy) < MaxConcurrent
  /\ IF \A d \in Documents : final[d] = Absent /\ partial[d] = Absent
       THEN pc' = [pc EXCEPT ![w] = "writing"] /\ UNCHANGED outcome
       ELSE Ends(w, "conflict")
  /\ UNCHANGED <<partial, final, exposed, next>>

\* Defect: a file that is there already is truncated and written again.
CreateOver(d, content) ==
  /\ partial' = [partial EXCEPT ![d] = content]
  /\ exposed' = [exposed EXCEPT ![d] = @ \cup {Pair(content, final[d])}]
  /\ UNCHANGED final

\* WriteExclusive creates a file that is not there yet, and a failed write
\* leaves what it has written.
Create(d, content) ==
  /\ partial[d] = Absent
  /\ partial' = [partial EXCEPT ![d] = content]
  /\ exposed' = [exposed EXCEPT ![d] = @ \cup {Pair(content, final[d])}]
  /\ UNCHANGED final

WritePartial(w) ==
  /\ pc[w] = "writing"
  /\ next[w] \in Documents
  /\ Create(next[w], Whole(w))
  /\ next' = [next EXCEPT ![w] = @ + 1]
  /\ UNCHANGED <<pc, outcome>>

\* Defect: the writer forgets which document failed.
WriteFailsBeyond(w) ==
  /\ pc[w] = "writing"
  /\ Create(Marker, Broken(w))
  /\ Ends(w, "write_failed")
  /\ next' = [next EXCEPT ![w] = 6]

\* persistenceWriteError: a failure of the first write is definite, a later
\* one leaves evidence and is uncertain.
WriteFails(w) ==
  /\ pc[w] = "writing"
  /\ next[w] \in Documents
  /\ \/ /\ Create(next[w], Broken(w))
        /\ Ends(w, IF next[w] > 1 THEN "uncertain" ELSE "write_failed")
     \/ /\ partial[next[w]] # Absent
        /\ Ends(w, IF next[w] > 1 THEN "uncertain" ELSE "conflict")
        /\ UNCHANGED <<partial, final, exposed>>
  /\ UNCHANGED next

\* All partials are there: a completed result goes on, a partial one stops.
Written(w) ==
  /\ pc[w] = "writing"
  /\ next[w] \notin Documents
  /\ \/ /\ pc' = [pc EXCEPT ![w] = "renaming"]
        /\ next' = [next EXCEPT ![w] = 1]
        /\ UNCHANGED outcome
     \/ Ends(w, "partial") /\ UNCHANGED next
  /\ UNCHANGED <<partial, final, exposed>>

\* A rename replaces whatever the final name holds by now.
Rename(w) ==
  /\ pc[w] = "renaming"
  /\ partial[next[w]] # Absent
  /\ LET d == next[w] IN
     /\ final' = [final EXCEPT ![d] = partial[d]]
     /\ partial' = [partial EXCEPT ![d] = Absent]
     /\ exposed' = [exposed EXCEPT ![d] = @ \cup {Pair(Absent, partial[d])}]
     /\ IF d = Marker
          THEN pc' = [pc EXCEPT ![w] = "syncing"] /\ UNCHANGED next
          ELSE next' = [next EXCEPT ![w] = @ + 1] /\ UNCHANGED pc
  /\ UNCHANGED outcome

RenameFails(w) ==
  /\ pc[w] = "renaming"
  /\ Ends(w, "uncertain")
  /\ UNCHANGED <<partial, final, exposed, next>>

SyncDirectory(w) ==
  /\ pc[w] = "syncing"
  /\ exposed' = [d \in Documents |-> {Pair(partial[d], final[d])}]
  /\ Ends(w, "completed")
  /\ UNCHANGED <<partial, final, next>>

SyncDirectoryFails(w) ==
  /\ pc[w] = "syncing"
  /\ Ends(w, "uncertain")
  /\ UNCHANGED <<partial, final, exposed, next>>

\* The backend failed: PersistFailure keeps the reason as partial metadata,
\* unless completed metadata or a partial file is already there.
PersistFailure(w) ==
  /\ pc[w] = "new"
  /\ Cardinality(Busy) < MaxConcurrent
  /\ IF final[Marker] # Absent
       THEN Ends(w, "conflict")
       ELSE pc' = [pc EXCEPT ![w] = "failing"] /\ UNCHANGED outcome
  /\ UNCHANGED <<partial, final, exposed, next>>

WriteFailure(w) ==
  /\ pc[w] = "failing"
  /\ \/ Create(Marker, Whole(w)) /\ Ends(w, "partial")
     \/ Create(Marker, Broken(w)) /\ Ends(w, "write_failed")
     \/ /\ partial[Marker] # Absent
        /\ Ends(w, "conflict")
        /\ UNCHANGED <<partial, final, exposed>>
  /\ UNCHANGED next

LosePower ==
  \E left \in {f \in [Documents -> UNION {exposed[d] : d \in Documents}] :
                 \A d \in Documents : f[d] \in exposed[d]} :
    /\ partial' = [d \in Documents |-> left[d].partial]
    /\ final' = [d \in Documents |-> left[d].final]
    /\ exposed' = [d \in Documents |-> {left[d]}]
    /\ pc' = [w \in Writers |-> IF w \in Busy THEN "done" ELSE pc[w]]
    /\ outcome' = [w \in Writers |-> IF w \in Busy THEN "cancelled" ELSE outcome[w]]
    /\ UNCHANGED next

-----------------------------------------------------------------------------
(* Recovery inspection.                                                    *)

\* Inspect reports the segment as completed, for this writer's job: all four
\* final files are there and decode, and their identities agree.
ReportedComplete(w) == \A d \in Documents : final[d] = Whole(w)

-----------------------------------------------------------------------------
(* Properties.                                                             *)

Content == [by : Writers \cup {NoOne}, whole : BOOLEAN]

\* Types of the artifact directory and its writers.
TypeOK ==
  /\ partial \in [Documents -> Content]
  /\ final \in [Documents -> Content]
  /\ \A d \in Documents : exposed[d] \subseteq [partial : Content, final : Content]
  /\ pc \in [Writers -> Stages]
  /\ next \in [Writers -> 1 .. 5]
  /\ outcome \in [Writers -> Outcomes]

=============================================================================
