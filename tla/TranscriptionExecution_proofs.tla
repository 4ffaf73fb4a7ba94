-------------------- MODULE TranscriptionExecution_proofs --------------------
(***************************************************************************)
(* Machine-checked proofs about TranscriptionExecution, for any executions *)
(* in any processes.                                                       *)
(*                                                                         *)
(* Types and the agreement of transcript and provenance hold without any   *)
(* exclusion.  What an outcome says of the documents, and that evidence is *)
(* never removed, rest on the record: it lets one execution past the start *)
(* at a time, unless another segment of the session has failed.            *)
(***************************************************************************)
EXTENDS TranscriptionExecution, TLAPS

\* Before the worker has answered, and from the start to the answer.
Early == {"new", "enqueued", "claimed", "started", "hashing", "hearing"}
Working == {"started", "hashing", "hearing", "persisting", "completing", "evidence",
            "failing"}

\* Nothing on the disk is of an execution, whatever a loss of power leaves;
\* and no final document is.
Unwritten(w) ==
  \A d \in Documents :
    /\ partial[d].by # w /\ final[d].by # w
    /\ \A left \in exposed[d] : left.partial.by # w /\ left.final.by # w

NoFinal(w) ==
  \A d \in Documents :
    final[d].by # w /\ \A left \in exposed[d] : left.final.by # w

\* The calls of the store are made in the stages that make them.
CallsOfStages ==
  \A w \in Writers :
    /\ pc[w] \in {"writing", "renaming", "syncing"} => stage[w] = "persisting"
    /\ pc[w] = "failing" => stage[w] = "evidence"
    /\ stage[w] \in Early => pc[w] = "new"
    /\ pc[w] = "new" => next[w] = 1
    /\ pc[w] = "renaming" => next[w] \in Documents

\* The audio only moves on, so that a hash that is still that of the file when
\* the store looks again was the hash when the worker listened.
ReadInOrder ==
  \A w \in Writers :
    /\ stage[w] = "hearing" => digest[w] <= audio
    /\ stage[w] = "persisting" => digest[w] <= heard[w] /\ heard[w] <= audio

WrittenOfItsAudio ==
  \A w \in Writers :
    /\ stage[w] \in Early => Unwritten(w)
    /\ stage[w] = "persisting" /\ pc[w] = "new" => Unwritten(w)
    /\ stage[w] = "persisting" /\ pc[w] # "new" => heard[w] = digest[w]
    /\ stage[w] = "evidence" => heard[w] = digest[w]
    /\ Unwritten(w) \/ heard[w] = digest[w]

ExecInvariant == ExecTypeOK /\ CallsOfStages /\ ReadInOrder /\ WrittenOfItsAudio

-----------------------------------------------------------------------------
\* The record names who is past the start: nobody else is.
RecordNamesIt ==
  \A w \in Writers : stage[w] \in Working => slot = [job |-> w, status |-> "running"]

\* Who is told an outcome, or recorded with one, has ended.
EndedFirst ==
  \A w \in Writers :
    \/ answer[w] # "none"
    \/ slot \in [job : {w}, status : {"completed", "failed"}]
    => stage[w] = "ended"

\* How far the documents have come.
WrittenUpTo(w, n) ==
  \A d \in Documents :
    /\ final[d] = Absent
    /\ partial[d] = IF d < n THEN Whole(w) ELSE Absent

RenamedUpTo(w, n) ==
  \A d \in Documents :
    /\ final[d] = IF d < n THEN Whole(w) ELSE Absent
    /\ partial[d] = IF d < n THEN Absent ELSE Whole(w)

DocumentsInOrder ==
  \A w \in Writers :
    /\ pc[w] = "writing" => WrittenUpTo(w, next[w])
    /\ pc[w] = "renaming" => RenamedUpTo(w, next[w])
    /\ pc[w] = "syncing" => RenamedUpTo(w, 5)
    /\ pc[w] = "failing" => final[Marker] = Absent

\* All documents of an execution are there to stay.
Durable(w) ==
  /\ RenamedUpTo(w, 5)
  /\ \A d \in Documents : exposed[d] = {Pair(Absent, Whole(w))}

CompletedDurable ==
  \A w \in Writers :
    \/ stage[w] = "persisting" /\ pc[w] = "done" /\ outcome[w] = "completed"
    \/ stage[w] = "completing"
    \/ slot = [job |-> w, status |-> "completed"]
    \/ answer[w] = "completed"
    => Durable(w)

\* No final document is of an execution that can still fail, or has failed.
FailureWithoutFinal ==
  \A w \in Writers :
    \/ stage[w] = "persisting" /\ pc[w] \in {"new", "writing"}
    \/ stage[w] = "persisting" /\ pc[w] = "done" /\ outcome[w] \notin {"completed", "uncertain"}
    \/ stage[w] \in {"evidence", "failing"}
    \/ slot = [job |-> w, status |-> "failed"]
    \/ answer[w] \in {"failed", "refused"}
    => NoFinal(w)

SoleInvariant ==
  /\ RecordNamesIt /\ EndedFirst /\ DocumentsInOrder /\ CompletedDurable
  /\ FailureWithoutFinal

-----------------------------------------------------------------------------
(* Types.                                                                  *)

LEMMA ExecInitHolds == ExecInit => ExecInvariant
  <1> SUFFICES ASSUME ExecInit PROVE ExecInvariant
    OBVIOUS
  <1> USE DEF ExecInit, Init
  <1>1. Absent \in Content /\ \A w \in Writers : Absent.by # w
    BY ArtifactAssumption DEF ArtifactAssumption, Absent, Content
  <1>2. ExecTypeOK
    BY <1>1, ExecutionAssumption DEF ExecutionAssumption, ExecTypeOK, TypeOK, Pair, Stages,
       Outcomes, JobStates, RunStages, Answers
  <1>3. \A w \in Writers : Unwritten(w)
    BY <1>1 DEF Unwritten, Pair
  <1> QED
    BY <1>2, <1>3 DEF ExecInvariant, CallsOfStages, ReadInOrder, WrittenOfItsAudio, Early

LEMMA ContentTypes ==
  /\ Absent \in Content
  /\ \A w \in Writers : Whole(w) \in Content /\ Broken(w) \in Content
  /\ \A p, f \in Content : Pair(p, f) \in [partial : Content, final : Content]
  BY DEF Absent, Whole, Broken, Content, Pair

\* The directory keeps its type whatever the store does to it.
LEMMA CreateTypes ==
  ASSUME TypeOK, NEW d \in Documents, NEW content \in Content, Create(d, content)
  PROVE  /\ partial' \in [Documents -> Content]
         /\ final' \in [Documents -> Content]
         /\ \A e \in Documents : exposed'[e] \subseteq [partial : Content, final : Content]
  BY ContentTypes DEF TypeOK, Create

LEMMA StoreTypes ==
  ASSUME ExecTypeOK, CallsOfStages, NEW w \in Writers,
         \/ Reserve(w) \/ WritePartial(w) \/ WriteFails(w) \/ Written(w) \/ Rename(w)
         \/ RenameFails(w) \/ SyncDirectory(w) \/ SyncDirectoryFails(w)
         \/ PersistFailure(w) \/ WriteFailure(w)
  PROVE  TypeOK'
  <1> USE ContentTypes DEF ExecTypeOK, TypeOK, Ends, Stages, Outcomes
  <1>1. CASE Reserve(w) \/ PersistFailure(w)
    BY <1>1 DEF Reserve, PersistFailure
  <1>2. CASE WritePartial(w)
    <2>1. next[w] + 1 \in 1 .. 5
      BY <1>2 DEF WritePartial, Documents
    <2> QED
      BY <1>2, <2>1, CreateTypes DEF WritePartial
  <1>3. CASE WriteFails(w)
    <2>1. /\ partial' \in [Documents -> Content]
          /\ final' \in [Documents -> Content]
          /\ \A e \in Documents : exposed'[e] \subseteq [partial : Content, final : Content]
      BY <1>3, CreateTypes DEF WriteFails
    <2> QED
      BY <1>3, <2>1 DEF WriteFails
  <1>4. CASE Written(w)
    BY <1>4 DEF Written
  <1>5. CASE Rename(w)
    <2>1. next[w] \in Documents
      BY <1>5 DEF Rename, CallsOfStages
    <2>2. next[w] # Marker => next[w] + 1 \in 1 .. 5
      BY <2>1 DEF Documents, Marker
    <2> QED
      BY <1>5, <2>1, <2>2 DEF Rename
  <1>6. CASE RenameFails(w) \/ SyncDirectoryFails(w)
    BY <1>6 DEF RenameFails, SyncDirectoryFails
  <1>7. CASE SyncDirectory(w)
    BY <1>7 DEF SyncDirectory
  <1>8. CASE WriteFailure(w)
    <2>1. Marker \in Documents
      BY DEF Marker, Documents
    <2>2. /\ partial' \in [Documents -> Content]
          /\ final' \in [Documents -> Content]
          /\ \A e \in Documents : exposed'[e] \subseteq [partial : Content, final : Content]
      BY <1>8, <2>1, CreateTypes DEF WriteFailure
    <2> QED
      BY <1>8, <2>2 DEF WriteFailure
  <1> QED
    BY <1>1, <1>2, <1>3, <1>4, <1>5, <1>6, <1>7, <1>8

LEMMA LossTypes ==
  ASSUME TypeOK, LosePower
  PROVE  TypeOK'
  <1>1. PICK left \in [Documents -> UNION {exposed[d] : d \in Documents}] :
          /\ \A d \in Documents : left[d] \in exposed[d]
          /\ partial' = [d \in Documents |-> left[d].partial]
          /\ final' = [d \in Documents |-> left[d].final]
          /\ exposed' = [d \in Documents |-> {left[d]}]
          /\ pc' = [w \in Writers |-> IF w \in Busy THEN "done" ELSE pc[w]]
          /\ outcome' = [w \in Writers |-> IF w \in Busy THEN "cancelled" ELSE outcome[w]]
          /\ UNCHANGED next
    BY DEF LosePower
  <1>2. \A d \in Documents : left[d] \in [partial : Content, final : Content]
    BY <1>1 DEF TypeOK
  <1> QED
    BY <1>1, <1>2 DEF TypeOK, Stages, Outcomes

LEMMA RecordTypes ==
  ASSUME ExecTypeOK, NEW w \in Writers, NEW status \in JobStates, NEW to \in RunStages,
         NEW told \in Answers,
         \/ Record(w, status, Goes(w, to)) \/ Record(w, status, Answer(w, told))
  PROVE  /\ slot' \in [job : Writers \cup {NoOne}, status : JobStates]
         /\ knows' \subseteq Writers
         /\ queue' \in [Writers -> JobStates]
         /\ stage' \in [Writers -> RunStages]
         /\ answer' \in [Writers -> Answers]
  BY DEF ExecTypeOK, Record, Goes, Answer, RunStages, Answers

LEMMA TypesKept ==
  ASSUME ExecTypeOK, CallsOfStages, [ExecNext]_execVars
  PROVE  ExecTypeOK'
  <1> USE DEF ExecTypeOK
  <1>1. ASSUME NEW w \in Writers, Enqueue(w) \/ Claim(w) \/ Start(w)
        PROVE  ExecTypeOK'
    <2>1. /\ {"queued", "claimed", "running"} \subseteq JobStates
          /\ {"enqueued", "claimed", "started"} \subseteq RunStages
          /\ "none" \in Answers
      BY DEF JobStates, RunStages, Answers
    <2> QED
      BY <1>1, <2>1, RecordTypes
      DEF Enqueue, Claim, Start, artifactVars, vars, TypeOK, backendVars
  <1>2. ASSUME NEW w \in Writers, Complete(w) \/ Fail(w)
        PROVE  ExecTypeOK'
    <2>1. /\ {"completed", "failed"} \subseteq JobStates \cap Answers
          /\ "new" \in RunStages
      BY DEF JobStates, RunStages, Answers
    <2>2. PICK status \in {"completed", "failed"} : Conclude(w, status)
      BY <1>2 DEF Complete, Fail
    <2>3. CASE Record(w, status, Answer(w, status))
      BY <2>1, <2>2, <2>3, RecordTypes
      DEF Conclude, artifactVars, vars, TypeOK, backendVars
    <2>4. CASE Answer(w, "uncertain") /\ UNCHANGED recordVars
      BY <2>2, <2>4
      DEF Conclude, Answer, artifactVars, vars, TypeOK, backendVars, recordVars, RunStages,
          Answers
    <2> QED
      BY <2>2, <2>3, <2>4 DEF Conclude
  <1>3. ASSUME NEW w \in Writers, Load(w) \/ SetupFails(w) \/ Refuse(w)
        PROVE  ExecTypeOK'
    BY <1>3 DEF Load, SetupFails, Refuse, Goes, Answer, artifactVars, vars, TypeOK,
                recordVars, backendVars, RunStages, Answers
  <1>4. ASSUME NEW w \in Writers,
               \/ Hash(w) \/ Hear(w) \/ Synthesize(w) \/ Unavailable(w) \/ WorkerFails(w)
               \/ AnswerRefused(w) \/ PersistRefused(w)
        PROVE  ExecTypeOK'
    BY <1>4, ExecutionAssumption
    DEF ExecutionAssumption, Hash, Hear, Synthesize, Unavailable, WorkerFails, AnswerRefused,
        PersistRefused, Abandon, DropResult, Goes, artifactVars, vars, TypeOK, recordVars,
        RunStages
  <1>5. ASSUME NEW w \in Writers, Persist(w)
        PROVE  ExecTypeOK'
    <2>1. TypeOK'
      BY <1>5, StoreTypes DEF Persist
    <2> QED
      BY <1>5, <2>1 DEF Persist, recordVars, backendVars
  <1>6. ASSUME NEW w \in Writers, Judge(w)
        PROVE  ExecTypeOK'
    BY <1>6, ExecutionAssumption
    DEF ExecutionAssumption, Judge, DropResult, Goes, Answer, TypeOK, Stages, recordVars,
        backendVars, RunStages, Answers
  <1>7. ASSUME NEW w \in Writers, KeepEvidence(w)
        PROVE  ExecTypeOK'
    <2>1. CASE PersistFailure(w) \/ WriteFailure(w)
      <3>1. TypeOK'
        BY <2>1, StoreTypes
      <3> QED
        BY <1>7, <2>1, <3>1
        DEF KeepEvidence, recordVars, backendVars, Goes, RunStages
    <2>2. CASE Goes(w, "failing") /\ UNCHANGED artifactVars
      BY <1>7, <2>2
      DEF KeepEvidence, Goes, recordVars, backendVars, artifactVars, vars, TypeOK, RunStages
    <2> QED
      BY <1>7, <2>1, <2>2 DEF KeepEvidence
  <1>8. CASE OtherUpdate \/ ReplaceAudio
    <2>1. audio < MaxAudio => audio + 1 \in 1 .. MaxAudio
      BY ExecutionAssumption DEF ExecutionAssumption
    <2> QED
      BY <1>8, <2>1 DEF OtherUpdate, ReplaceAudio, artifactVars, vars, TypeOK, recordVars,
                        backendVars
  <1>9. CASE PowerLoss
    <2>1. TypeOK'
      BY <1>9, LossTypes DEF PowerLoss
    <2> QED
      BY <1>9, <2>1 DEF PowerLoss, Die, backendVars, RunStages, Answers, JobStates
  <1>10. ASSUME NEW p \in Processes, Restart(p)
         PROVE  ExecTypeOK'
    BY <1>10 DEF Restart, Die, TypeOK, Stages, Outcomes, backendVars, RunStages, Answers,
                 JobStates
  <1>11. CASE UNCHANGED execVars
    BY <1>11 DEF execVars, artifactVars, vars, TypeOK, recordVars, backendVars
  <1> QED
    BY <1>1, <1>2, <1>3, <1>4, <1>5, <1>6, <1>7, <1>8, <1>9, <1>10, <1>11 DEF ExecNext, Advance

-----------------------------------------------------------------------------
(* The directory, as it concerns one execution.                            *)

StoreStep(w) ==
  \/ Reserve(w) \/ WritePartial(w) \/ WriteFails(w) \/ Written(w) \/ Rename(w)
  \/ RenameFails(w) \/ SyncDirectory(w) \/ SyncDirectoryFails(w)
  \/ PersistFailure(w) \/ WriteFailure(w)

\* A file that appears is of the execution that writes it.
LEMMA CreateConcerns ==
  ASSUME TypeOK, NEW d \in Documents, NEW content \in Content, Create(d, content),
         NEW w \in Writers
  PROVE  /\ Unwritten(w) /\ content.by # w => Unwritten(w)'
         /\ NoFinal(w) => NoFinal(w)'
  BY DEF TypeOK, Create, Unwritten, NoFinal, Pair

LEMMA CreatedBy ==
  ASSUME NEW w \in Writers
  PROVE  Whole(w).by = w /\ Broken(w).by = w
  BY DEF Whole, Broken

LEMMA RenameConcerns ==
  ASSUME TypeOK, NEW v \in Writers, Rename(v), next[v] \in Documents, NEW w \in Writers
  PROVE  /\ Unwritten(w) => Unwritten(w)'
         /\ NoFinal(w) /\ partial[next[v]].by # w => NoFinal(w)'
  <1>1. Absent.by # w
    BY ArtifactAssumption DEF ArtifactAssumption, Absent
  <1> QED
    BY <1>1 DEF TypeOK, Rename, Unwritten, NoFinal, Pair

LEMMA SyncConcerns ==
  ASSUME TypeOK, NEW v \in Writers, SyncDirectory(v), NEW w \in Writers
  PROVE  /\ Unwritten(w) => Unwritten(w)'
         /\ NoFinal(w) => NoFinal(w)'
  BY DEF TypeOK, SyncDirectory, Unwritten, NoFinal, Pair

LEMMA SameDirectory ==
  ASSUME UNCHANGED <<partial, final, exposed>>, NEW w \in Writers
  PROVE  Unwritten(w)' = Unwritten(w) /\ NoFinal(w)' = NoFinal(w)
  BY DEF Unwritten, NoFinal

LEMMA StoreConcerns ==
  ASSUME ExecTypeOK, CallsOfStages, NEW v \in Writers, StoreStep(v), NEW w \in Writers
  PROVE  /\ Unwritten(w) /\ v # w => Unwritten(w)'
         /\ NoFinal(w) /\ (pc[v] = "renaming" => partial[next[v]].by # w) => NoFinal(w)'
  <1>1. TypeOK
    BY DEF ExecTypeOK
  <1>2. CASE Reserve(v) \/ Written(v) \/ RenameFails(v) \/ SyncDirectoryFails(v)
             \/ PersistFailure(v)
    BY <1>2, SameDirectory
    DEF Reserve, Written, RenameFails, SyncDirectoryFails, PersistFailure
  <1>3. CASE WritePartial(v)
    BY <1>1, <1>3, CreateConcerns, CreatedBy, ContentTypes DEF WritePartial
  <1>4. CASE WriteFails(v)
    BY <1>1, <1>4, CreateConcerns, CreatedBy, ContentTypes, SameDirectory DEF WriteFails
  <1>5. CASE Rename(v)
    BY <1>1, <1>5, RenameConcerns DEF Rename, CallsOfStages
  <1>6. CASE SyncDirectory(v)
    BY <1>1, <1>6, SyncConcerns
  <1>7. CASE WriteFailure(v)
    <2>1. Marker \in Documents
      BY DEF Marker, Documents
    <2> QED
      BY <1>1, <1>7, <2>1, CreateConcerns, CreatedBy, ContentTypes, SameDirectory
      DEF WriteFailure
  <1> QED
    BY <1>2, <1>3, <1>4, <1>5, <1>6, <1>7 DEF StoreStep

LEMMA LossConcerns ==
  ASSUME LosePower, NEW w \in Writers
  PROVE  /\ Unwritten(w) => Unwritten(w)'
         /\ NoFinal(w) => NoFinal(w)'
  BY DEF LosePower, Unwritten, NoFinal

-----------------------------------------------------------------------------
(* Transcript and provenance.                                              *)

\* Steps that leave the directory and the audio alone.
QuietStep(w) ==
  \/ Enqueue(w) \/ Claim(w) \/ Start(w) \/ Load(w) \/ SetupFails(w) \/ Refuse(w)
  \/ Complete(w) \/ Fail(w)

BackendStep(w) ==
  \/ Hash(w) \/ Hear(w) \/ Synthesize(w) \/ Unavailable(w) \/ WorkerFails(w)
  \/ AnswerRefused(w) \/ PersistRefused(w)

\* The stage an execution goes to when the record is asked.
LEMMA QuietEffect ==
  ASSUME ExecTypeOK, NEW w \in Writers, QuietStep(w)
  PROVE  /\ UNCHANGED <<partial, final, exposed, pc, next, outcome, digest, heard, audio>>
         /\ \A v \in Writers \ {w} : stage'[v] = stage[v] /\ answer'[v] = answer[v]
         /\ stage[w] \in Early \cup {"completing", "failing"}
         /\ \/ stage[w] \in Early /\ stage'[w] \in {"enqueued", "claimed", "started", "hashing"}
            \/ stage[w] = "started" /\ stage'[w] = "failing"
            \/ stage'[w] = "ended"
  BY DEF QuietStep, Enqueue, Claim, Start, Load, SetupFails, Refuse, Complete, Fail,
         Conclude, Record, Goes, Answer, artifactVars, vars, backendVars, ExecTypeOK, Early

LEMMA QuietKeeps ==
  ASSUME ExecInvariant, NEW w \in Writers, QuietStep(w)
  PROVE  CallsOfStages' /\ ReadInOrder' /\ WrittenOfItsAudio'
  <1>1. ExecTypeOK
    BY DEF ExecInvariant
  <1>2. stage' \in [Writers -> RunStages] /\ answer' \in [Writers -> Answers]
    <2>1. ExecNext
      BY DEF QuietStep, ExecNext, Advance, Running, Refuse
    <2> QED
      BY <1>1, <2>1, TypesKept DEF ExecInvariant, ExecTypeOK
  <1>3. \A v \in Writers : Unwritten(v)' = Unwritten(v)
    BY <1>1, QuietEffect, SameDirectory
  <1> USE DEF ExecInvariant
  <1>4. CallsOfStages'
    BY <1>1, <1>2, QuietEffect DEF CallsOfStages, Early
  <1>5. ReadInOrder'
    BY <1>1, <1>2, QuietEffect DEF ReadInOrder, Early
  <1>6. WrittenOfItsAudio'
    BY <1>1, <1>2, <1>3, QuietEffect DEF WrittenOfItsAudio, Early
  <1> QED
    BY <1>4, <1>5, <1>6

LEMMA BackendKeeps ==
  ASSUME ExecInvariant, NEW w \in Writers, BackendStep(w)
  PROVE  CallsOfStages' /\ ReadInOrder' /\ WrittenOfItsAudio'
  <1> USE DEF ExecInvariant, BackendStep, Hash, Hear, Synthesize, Unavailable, WorkerFails,
              AnswerRefused, PersistRefused, Abandon, DropResult, Goes
  <1>1. UNCHANGED <<partial, final, exposed, pc, next, audio>>
    BY DEF artifactVars, vars
  <1>2. \A v \in Writers : Unwritten(v)' = Unwritten(v)
    BY <1>1, SameDirectory
  <1>3. CallsOfStages'
    BY <1>1 DEF CallsOfStages, Early, ExecTypeOK
  <1>4. ReadInOrder'
    BY <1>1 DEF ReadInOrder, ExecTypeOK
  <1>5. WrittenOfItsAudio'
    BY <1>1, <1>2 DEF WrittenOfItsAudio, CallsOfStages, Early, ExecTypeOK
  <1> QED
    BY <1>3, <1>4, <1>5

\* The calls of the store.
LEMMA PersistKeeps ==
  ASSUME ExecInvariant, NEW w \in Writers, Persist(w)
  PROVE  CallsOfStages' /\ ReadInOrder' /\ WrittenOfItsAudio'
  <1> USE DEF ExecInvariant
  <1>1. /\ UNCHANGED <<digest, heard, audio, stage>>
        /\ stage[w] = "persisting"
        /\ StoreStep(w)
    BY DEF Persist, recordVars, backendVars, StoreStep
  <1>2. /\ \A v \in Writers \ {w} : pc'[v] = pc[v] /\ next'[v] = next[v]
        /\ pc'[w] \in {"new", "writing", "renaming", "syncing", "done"}
        /\ pc'[w] = "new" => pc[w] = "new" /\ next'[w] = next[w]
        /\ pc[w] = "new" => SameAudio(w) /\ pc'[w] # "new"
        /\ pc'[w] = "renaming" => next'[w] \in Documents
    BY <1>1 DEF Persist, ExecTypeOK, TypeOK, Reserve, WritePartial, WriteFails, Written,
                Rename, RenameFails, SyncDirectory, SyncDirectoryFails, Ends, CallsOfStages,
                Documents, Marker
  <1>3. CallsOfStages'
    BY <1>1, <1>2 DEF CallsOfStages, Early
  <1>4. ReadInOrder'
    BY <1>1 DEF ReadInOrder
  <1>5. heard[w] = digest[w]
    <2>1. CASE pc[w] = "new"
      BY <1>1, <1>2, <2>1 DEF ReadInOrder, SameAudio, ExecTypeOK
    <2>2. CASE pc[w] # "new"
      BY <1>1, <2>2 DEF WrittenOfItsAudio
    <2> QED
      BY <2>1, <2>2
  <1>6. \A v \in Writers : Unwritten(v) /\ v # w => Unwritten(v)'
    BY <1>1, StoreConcerns
  <1>7. WrittenOfItsAudio'
    BY <1>1, <1>2, <1>5, <1>6 DEF WrittenOfItsAudio, Early
  <1> QED
    BY <1>3, <1>4, <1>7

LEMMA JudgeKeeps ==
  ASSUME ExecInvariant, NEW w \in Writers, Judge(w)
  PROVE  CallsOfStages' /\ ReadInOrder' /\ WrittenOfItsAudio'
  <1> USE DEF ExecInvariant, Judge, Goes, Answer, DropResult
  <1>1. UNCHANGED <<partial, final, exposed, audio>>
    OBVIOUS
  <1>2. \A v \in Writers : Unwritten(v)' = Unwritten(v)
    BY <1>1, SameDirectory
  <1>3. CallsOfStages'
    BY <1>1 DEF CallsOfStages, Early, ExecTypeOK, TypeOK
  <1>4. ReadInOrder'
    BY <1>1 DEF ReadInOrder, ExecTypeOK, backendVars
  <1>5. WrittenOfItsAudio'
    BY <1>1, <1>2 DEF WrittenOfItsAudio, Early, ExecTypeOK, TypeOK, backendVars
  <1> QED
    BY <1>3, <1>4, <1>5

LEMMA EvidenceKeeps ==
  ASSUME ExecInvariant, NEW w \in Writers, KeepEvidence(w)
  PROVE  CallsOfStages' /\ ReadInOrder' /\ WrittenOfItsAudio'
  <1> USE DEF ExecInvariant
  <1>1. /\ UNCHANGED <<digest, heard, audio>>
        /\ stage[w] = "evidence"
    BY DEF KeepEvidence, backendVars
  <1>2. CASE (PersistFailure(w) \/ WriteFailure(w)) /\ UNCHANGED <<stage, answer>>
    <2>1. /\ \A v \in Writers \ {w} : pc'[v] = pc[v]
          /\ UNCHANGED next
          /\ pc'[w] \in {"failing", "done"}
      BY <1>2 DEF PersistFailure, WriteFailure, Ends, ExecTypeOK, TypeOK
    <2>2. \A v \in Writers : Unwritten(v) /\ v # w => Unwritten(v)'
      BY <1>2, StoreConcerns DEF StoreStep
    <2>3. CallsOfStages'
      BY <1>1, <1>2, <2>1 DEF CallsOfStages, Early
    <2>4. ReadInOrder' /\ WrittenOfItsAudio'
      BY <1>1, <1>2, <2>1, <2>2 DEF ReadInOrder, WrittenOfItsAudio, Early
    <2> QED
      BY <2>3, <2>4
  <1>3. CASE pc[w] \in {"new", "done"} /\ Goes(w, "failing") /\ UNCHANGED artifactVars
    <2>1. \A v \in Writers : Unwritten(v)' = Unwritten(v)
      BY <1>3, SameDirectory DEF artifactVars, vars
    <2> QED
      BY <1>1, <1>3, <2>1 DEF Goes, artifactVars, vars, CallsOfStages, ReadInOrder,
         WrittenOfItsAudio, Early, ExecTypeOK
  <1> QED
    BY <1>2, <1>3 DEF KeepEvidence

LEMMA EnvironmentKeeps ==
  ASSUME ExecInvariant,
         OtherUpdate \/ ReplaceAudio \/ PowerLoss \/ \E p \in Processes : Restart(p)
  PROVE  CallsOfStages' /\ ReadInOrder' /\ WrittenOfItsAudio'
  <1> USE DEF ExecInvariant
  <1>1. CASE OtherUpdate \/ ReplaceAudio
    <2>1. \A v \in Writers : Unwritten(v)' = Unwritten(v)
      BY <1>1, SameDirectory DEF OtherUpdate, ReplaceAudio, artifactVars, vars
    <2> QED
      BY <1>1, <2>1 DEF OtherUpdate, ReplaceAudio, artifactVars, vars, backendVars,
         CallsOfStages, ReadInOrder, WrittenOfItsAudio, ExecTypeOK
  <1>2. ASSUME PowerLoss \/ \E p \in Processes : Restart(p)
        PROVE  \A w \in Writers :
                 /\ stage'[w] \in {stage[w], "ended"}
                 /\ pc'[w] \in {pc[w], "done"}
                 /\ pc'[w] # pc[w] => stage'[w] = "ended"
                 /\ pc'[w] \in {"writing", "renaming", "syncing", "failing"} =>
                      stage'[w] = stage[w]
                 /\ Unwritten(w) => Unwritten(w)'
                 /\ UNCHANGED <<digest, heard, audio, next>>
    <2>1. CASE PowerLoss
      BY <2>1, LossConcerns
      DEF PowerLoss, LosePower, Die, Busy, Running, backendVars, CallsOfStages, ExecTypeOK,
          TypeOK, Stages
    <2>2. ASSUME NEW p \in Processes, Restart(p)
          PROVE  \A w \in Writers :
                   /\ stage'[w] \in {stage[w], "ended"}
                   /\ pc'[w] \in {pc[w], "done"}
                   /\ pc'[w] # pc[w] => stage'[w] = "ended"
                   /\ pc'[w] \in {"writing", "renaming", "syncing", "failing"} =>
                        stage'[w] = stage[w]
                   /\ Unwritten(w) => Unwritten(w)'
                   /\ UNCHANGED <<digest, heard, audio, next>>
      BY <2>2, SameDirectory
      DEF Restart, Die, Busy, Running, backendVars, CallsOfStages, ExecTypeOK,
          TypeOK, Stages
    <2> QED
      BY <1>2, <2>1, <2>2
  <1>3. CASE PowerLoss \/ \E p \in Processes : Restart(p)
    BY <1>2, <1>3 DEF CallsOfStages, ReadInOrder, WrittenOfItsAudio, Early
  <1> QED
    BY <1>1, <1>3

LEMMA ExecInvariantKept ==
  ASSUME ExecInvariant, [ExecNext]_execVars
  PROVE  ExecInvariant'
  <1>1. ExecTypeOK'
    BY TypesKept DEF ExecInvariant
  <1>2. CASE UNCHANGED execVars
    <2>1. \A v \in Writers : Unwritten(v)' = Unwritten(v)
      BY <1>2, SameDirectory DEF execVars, artifactVars, vars
    <2> QED
      BY <1>1, <1>2, <2>1 DEF execVars, artifactVars, vars, backendVars, ExecInvariant,
         CallsOfStages, ReadInOrder, WrittenOfItsAudio
  <1>3. CASE ExecNext
    BY <1>1, <1>3, QuietKeeps, BackendKeeps, PersistKeeps, JudgeKeeps, EvidenceKeeps,
       EnvironmentKeeps DEF ExecNext, Advance, QuietStep, BackendStep, ExecInvariant
  <1> QED
    BY <1>2, <1>3

LEMMA ExecInvariantThroughout == ExecSpec => []ExecInvariant
  BY ExecInitHolds, ExecInvariantKept, PTL DEF ExecSpec

-----------------------------------------------------------------------------
\* Executions, queue, record and directory keep their types.
THEOREM ExecTypeCorrect == ExecSpec => []ExecTypeOK
  <1>1. ExecInvariant => ExecTypeOK
    BY DEF ExecInvariant
  <1> QED
    BY <1>1, ExecInvariantThroughout, PTL

\* A transcript that can be found complete is of the audio its provenance
\* names, whoever replaced the audio and whoever else wrote documents.
THEOREM TranscriptsOfTheirAudio == ExecSpec => []TranscriptOfItsAudio
  <1>1. ExecInvariant => TranscriptOfItsAudio
    <2> SUFFICES ASSUME ExecInvariant, NEW w \in Writers, ReportedComplete(w)
                 PROVE  heard[w] = digest[w]
      BY DEF TranscriptOfItsAudio
    <2>1. Marker \in Documents /\ final[Marker].by = w
      BY CreatedBy DEF Marker, Documents, ReportedComplete
    <2> QED
      BY <2>1 DEF ExecInvariant, WrittenOfItsAudio, Unwritten
  <1> QED
    BY <1>1, ExecInvariantThroughout, PTL

-----------------------------------------------------------------------------
(* One execution at a time, if no other segment has failed.                *)

\* The table has no way from a session that is being transcribed to a queued
\* one.
LEMMA RunningExcludesQueued ==
  ASSUME ~OtherFailed, slot.status = "running"
  PROVE  ~Allowed("queued")
  <1> DEFINE slots(status) == [s \in {"this"} |-> Summary(status)]
  <1>1. \A status \in {"running", "queued"} :
          Aggregate(status) =
            Status!AggregateTranscriptionStatus({"this", "other"}, slots(status))
    BY DEF Aggregate
  <1>2. Aggregate("running") = "transcribing"
    <2>1. Summary("running") = [queue |-> "claimed", job |-> "running", err |-> "none"]
      BY DEF Summary
    <2> HIDE DEF slots
    <2>2. DOMAIN slots("running") = {"this"} /\ slots("running")["this"] = Summary("running")
      BY DEF slots
    <2> QED
      BY <1>1, <2>1, <2>2 DEF Status!AggregateTranscriptionStatus, Status!NeedsAttention,
         Status!IsRunningSlot
  <1>3. Aggregate("queued") = "queued"
    <2>1. Summary("queued") = [queue |-> "queued", job |-> "queued", err |-> "none"]
      BY DEF Summary
    <2> HIDE DEF slots
    <2>2. DOMAIN slots("queued") = {"this"} /\ slots("queued")["this"] = Summary("queued")
      BY DEF slots
    <2> QED
      BY <1>1, <2>1, <2>2 DEF Status!AggregateTranscriptionStatus, Status!NeedsAttention,
         Status!IsRunningSlot, Status!IsQueuedSlot, Status!ExecutingJobStatuses
  <1> QED
    BY <1>2, <1>3 DEF Allowed, Status!CanTransitionTranscription, Status!TranscriptionEdges

LEMMA SoleInitHolds == ExecInit => SoleInvariant
  <1> SUFFICES ASSUME ExecInit PROVE SoleInvariant
    OBVIOUS
  <1>1. \A w \in Writers : NoFinal(w)
    BY ArtifactAssumption DEF ArtifactAssumption, ExecInit, Init, NoFinal, Pair, Absent
  <1> QED
    BY <1>1 DEF ExecInit, Init, SoleInvariant, RecordNamesIt, EndedFirst, DocumentsInOrder,
                CompletedDurable, FailureWithoutFinal, Working

LEMMA UnwrittenNoFinal ==
  ASSUME NEW w \in Writers, Unwritten(w)
  PROVE  NoFinal(w)
  BY DEF Unwritten, NoFinal

\* Steps that do not touch the directory: the record.
LEMMA QuietRecord ==
  ASSUME ~OtherFailed, ExecInvariant, SoleInvariant, NEW w \in Writers, QuietStep(w)
  PROVE  RecordNamesIt' /\ EndedFirst'
  <1> USE DEF ExecInvariant, SoleInvariant, ExecTypeOK, Working
  <1>1. CASE Enqueue(w)
    <2>1. /\ stage[w] = "new"
          /\ slot' = slot \/ (slot' = [job |-> w, status |-> "queued"] /\ Allowed("queued"))
          /\ \/ stage' = [stage EXCEPT ![w] = "enqueued"] /\ UNCHANGED answer
             \/ /\ stage' = [stage EXCEPT ![w] = "ended"]
                /\ answer' = [answer EXCEPT ![w] = "uncertain"]
      BY <1>1 DEF Enqueue, Record, Goes, Answer
    <2>2. RecordNamesIt'
      BY <2>1, RunningExcludesQueued DEF RecordNamesIt
    <2>3. EndedFirst'
      BY <2>1 DEF EndedFirst
    <2> QED
      BY <2>2, <2>3
  <1>2. CASE Claim(w) \/ Start(w)
    <2>1. PICK status \in {"queued", "claimed"} :
            /\ status = "queued" <=> Claim(w)
            /\ slot = [job |-> w, status |-> status]
            /\ stage[w] \in {"enqueued", "claimed"}
            /\ slot' \in {slot, [job |-> w, status |-> IF status = "queued" THEN "claimed"
                                                       ELSE "running"]}
            /\ \/ /\ stage' = [stage EXCEPT ![w] = IF status = "queued" THEN "claimed"
                                                   ELSE "started"]
                  /\ slot' = [job |-> w, status |-> IF status = "queued" THEN "claimed"
                                                    ELSE "running"]
                  /\ UNCHANGED answer
               \/ /\ stage' = [stage EXCEPT ![w] = "ended"]
                  /\ answer' = [answer EXCEPT ![w] = "uncertain"]
      <3>1. CASE Claim(w)
        <4>1. ~Start(w)
          BY <3>1 DEF Claim, Start
        <4> QED
          BY <3>1, <4>1 DEF Claim, Matches, Record, Goes, Answer
      <3>2. CASE Start(w)
        <4>1. ~Claim(w)
          BY <3>2 DEF Claim, Start
        <4> QED
          BY <3>2, <4>1 DEF Start, Matches, Record, Goes, Answer
      <3> QED
        BY <1>2, <3>1, <3>2
    <2>2. RecordNamesIt'
      BY <2>1 DEF RecordNamesIt
    <2>3. EndedFirst'
      BY <2>1 DEF EndedFirst
    <2> QED
      BY <2>2, <2>3
  <1>3. CASE Load(w) \/ SetupFails(w) \/ Refuse(w)
    BY <1>3 DEF Load, SetupFails, Refuse, Goes, Answer, recordVars, RecordNamesIt, EndedFirst
  <1>4. CASE Complete(w) \/ Fail(w)
    <2>1. PICK status \in {"completed", "failed"} :
            /\ stage[w] \in {"completing", "failing"}
            /\ slot' \in {slot, [job |-> w, status |-> status]}
            /\ stage' = [stage EXCEPT ![w] = "ended"]
            /\ answer' \in {[answer EXCEPT ![w] = status], [answer EXCEPT ![w] = "uncertain"]}
      BY <1>4 DEF Complete, Fail, Conclude, Record, Answer, recordVars
    <2>2. slot = [job |-> w, status |-> "running"]
      BY <2>1 DEF RecordNamesIt
    <2>3. RecordNamesIt'
      BY <2>1, <2>2 DEF RecordNamesIt
    <2>4. EndedFirst'
      BY <2>1 DEF EndedFirst
    <2> QED
      BY <2>3, <2>4
  <1> QED
    BY <1>1, <1>2, <1>3, <1>4 DEF QuietStep

\* What the outcome that is recorded or told was before.
LEMMA QuietOutcome ==
  ASSUME ExecInvariant, SoleInvariant, NEW w \in Writers, QuietStep(w), NEW v \in Writers
  PROVE  /\ slot' = [job |-> v, status |-> "completed"] =>
              slot = slot' \/ (v = w /\ stage[w] = "completing")
         /\ slot' = [job |-> v, status |-> "failed"] =>
              slot = slot' \/ (v = w /\ stage[w] = "failing")
         /\ answer'[v] = "completed" =>
              answer[v] = "completed" \/ (v = w /\ stage[w] = "completing")
         /\ answer'[v] \in {"failed", "refused"} =>
              answer[v] = answer'[v] \/ (v = w /\ stage[w] \in Early \cup {"failing"})
         /\ stage'[v] = "failing" =>
              stage[v] = "failing" \/ (v = w /\ stage[w] \in Early)
         /\ stage'[v] \in {"persisting", "completing", "evidence"} => stage'[v] = stage[v]
  BY DEF ExecInvariant, ExecTypeOK, QuietStep, Enqueue, Claim, Start, Load, SetupFails, Refuse,
         Complete, Fail, Conclude, Record, Goes, Answer, recordVars, Early

LEMMA QuietSole ==
  ASSUME ~OtherFailed, ExecInvariant, SoleInvariant, NEW w \in Writers, QuietStep(w)
  PROVE  SoleInvariant'
  <1> USE DEF ExecInvariant, SoleInvariant
  <1>1. UNCHANGED <<partial, final, exposed, pc, next, outcome>>
    BY QuietEffect
  <1>2. \A v \in Writers : NoFinal(v)' = NoFinal(v) /\ Durable(v)' = Durable(v)
    BY <1>1, SameDirectory DEF Durable, RenamedUpTo
  <1>3. DocumentsInOrder'
    BY <1>1 DEF DocumentsInOrder, WrittenUpTo, RenamedUpTo
  <1>4. CompletedDurable'
    BY <1>1, <1>2, QuietOutcome DEF CompletedDurable
  <1>5. \A v \in Writers : stage[v] \in Early => NoFinal(v)
    BY UnwrittenNoFinal DEF WrittenOfItsAudio
  <1>6. FailureWithoutFinal'
    BY <1>1, <1>2, <1>5, QuietOutcome DEF FailureWithoutFinal
  <1> QED
    BY <1>3, <1>4, <1>6, QuietRecord

LEMMA BackendSole ==
  ASSUME ExecInvariant, SoleInvariant, NEW w \in Writers, BackendStep(w)
  PROVE  SoleInvariant'
  <1> USE DEF ExecInvariant, SoleInvariant, BackendStep, Hash, Hear, Synthesize, Unavailable,
              WorkerFails, AnswerRefused, PersistRefused, Abandon, Goes
  <1>1. UNCHANGED <<partial, final, exposed, pc, next, outcome, slot, answer>>
    BY DEF artifactVars, vars, recordVars
  <1>2. \A v \in Writers : NoFinal(v)' = NoFinal(v) /\ Durable(v)' = Durable(v)
    BY <1>1, SameDirectory DEF Durable, RenamedUpTo
  <1>3. /\ stage[w] \in Early \cup {"persisting"}
        /\ stage[w] = "persisting" => pc[w] = "new"
        /\ stage[w] \in Working
        /\ stage' \in {[stage EXCEPT ![w] = to] : to \in {"hearing", "persisting", "evidence"}}
    BY DEF Early, Working
  <1>4. NoFinal(w) /\ pc[w] = "new"
    BY <1>3, UnwrittenNoFinal DEF WrittenOfItsAudio, CallsOfStages
  <1>5. RecordNamesIt' /\ EndedFirst'
    BY <1>1, <1>3 DEF RecordNamesIt, EndedFirst, Working, ExecTypeOK
  <1>6. DocumentsInOrder'
    BY <1>1 DEF DocumentsInOrder, WrittenUpTo, RenamedUpTo
  <1>7. CompletedDurable'
    BY <1>1, <1>2, <1>3, <1>4 DEF CompletedDurable, ExecTypeOK
  <1>8. FailureWithoutFinal'
    BY <1>1, <1>2, <1>3, <1>4 DEF FailureWithoutFinal, ExecTypeOK
  <1> QED
    BY <1>5, <1>6, <1>7, <1>8

-----------------------------------------------------------------------------
(* The calls of the store.                                                 *)

\* Only one execution is in a call of the store.
LEMMA OneInStore ==
  ASSUME ExecInvariant, SoleInvariant, NEW w \in Writers,
         stage[w] \in {"persisting", "evidence"}, NEW v \in Writers \ {w}
  PROVE  pc[v] \notin {"writing", "renaming", "syncing", "failing"}
  BY DEF ExecInvariant, SoleInvariant, CallsOfStages, RecordNamesIt, Working

LEMMA Distinct ==
  ASSUME NEW w \in Writers
  PROVE  Whole(w) # Absent /\ (\A v \in Writers : Whole(v) = Whole(w) => v = w)
  BY ArtifactAssumption DEF ArtifactAssumption, Whole, Absent

\* No call of the store touches completed documents.
LEMMA DurableKept ==
  ASSUME ExecTypeOK, CallsOfStages, DocumentsInOrder, NEW w \in Writers, StoreStep(w),
         NEW v \in Writers, Durable(v)
  PROVE  Durable(v)'
  <1> USE DEF Durable, RenamedUpTo
  <1>1. /\ Marker \in Documents
        /\ \A d \in Documents : final[d] = Whole(v) /\ final[d] # Absent /\ partial[d] = Absent
    BY Distinct DEF Documents, Marker
  <1>2. pc[w] \notin {"writing", "failing"}
    BY <1>1 DEF DocumentsInOrder, WrittenUpTo
  <1>3. ~Rename(w)
    BY <1>1 DEF Rename, CallsOfStages
  <1>4. CASE SyncDirectory(w)
    BY <1>1, <1>4 DEF SyncDirectory, ExecTypeOK, TypeOK
  <1>5. CASE UNCHANGED <<partial, final, exposed>>
    BY <1>5
  <1> QED
    BY <1>2, <1>3, <1>4, <1>5
    DEF StoreStep, Reserve, WritePartial, WriteFails, Written, RenameFails, SyncDirectoryFails,
        PersistFailure, WriteFailure

\* The documents one call after the other.
LEMMA PersistOrder ==
  ASSUME ExecInvariant, SoleInvariant, NEW w \in Writers, Persist(w)
  PROVE  DocumentsInOrder'
  <1> USE DEF ExecInvariant, SoleInvariant, ExecTypeOK, TypeOK, Ends
  <1>1. stage[w] = "persisting" /\ StoreStep(w)
    BY DEF Persist, StoreStep
  <1>2. pc[w] \notin {"failing"} /\ (pc[w] = "new" => next[w] = 1)
    BY <1>1 DEF CallsOfStages
  <1>3. \A v \in Writers \ {w} :
          /\ pc'[v] = pc[v]
          /\ pc[v] \notin {"writing", "renaming", "syncing", "failing"}
    BY <1>1, OneInStore
    DEF Persist, Reserve, WritePartial, WriteFails, Written, Rename, RenameFails,
        SyncDirectory, SyncDirectoryFails
  <1>4. /\ pc'[w] = "writing" => WrittenUpTo(w, next[w])'
        /\ pc'[w] = "renaming" => RenamedUpTo(w, next[w])'
        /\ pc'[w] = "syncing" => RenamedUpTo(w, 5)'
        /\ pc'[w] # "failing"
    <2>1. CASE Reserve(w)
      BY <1>2, <2>1 DEF Reserve, WrittenUpTo, Documents
    <2>2. CASE WritePartial(w)
      <3>1. pc[w] = "writing" /\ WrittenUpTo(w, next[w]) /\ next[w] \in Documents
        BY <2>2 DEF WritePartial, DocumentsInOrder
      <3>2. pc'[w] = "writing" /\ next'[w] = next[w] + 1 /\ final' = final
            /\ partial' = [partial EXCEPT ![next[w]] = Whole(w)]
        BY <2>2 DEF WritePartial, Create
      <3>3. WrittenUpTo(w, next[w])'
        BY <3>1, <3>2 DEF WrittenUpTo, Documents
      <3> QED
        BY <3>2, <3>3
    <2>3. CASE WriteFails(w) \/ RenameFails(w) \/ SyncDirectory(w) \/ SyncDirectoryFails(w)
      BY <2>3 DEF WriteFails, RenameFails, SyncDirectory, SyncDirectoryFails
    <2>4. CASE Written(w)
      <3>1. pc[w] = "writing" /\ WrittenUpTo(w, next[w]) /\ next[w] \notin Documents
        BY <2>4 DEF Written, DocumentsInOrder
      <3>2. /\ UNCHANGED <<partial, final>>
            /\ pc'[w] \in {"renaming", "done"}
            /\ pc'[w] = "renaming" => next'[w] = 1
        BY <2>4 DEF Written
      <3>3. next[w] = 5
        BY <3>1 DEF Documents
      <3>4. RenamedUpTo(w, 1)'
        BY <3>1, <3>2, <3>3 DEF WrittenUpTo, RenamedUpTo, Documents
      <3> QED
        BY <3>2, <3>4 DEF RenamedUpTo
    <2>5. CASE Rename(w)
      <3>1. pc[w] = "renaming" /\ RenamedUpTo(w, next[w]) /\ next[w] \in Documents
        BY <2>5 DEF Rename, DocumentsInOrder, CallsOfStages
      <3>2. /\ final' = [final EXCEPT ![next[w]] = partial[next[w]]]
            /\ partial' = [partial EXCEPT ![next[w]] = Absent]
            /\ \/ next[w] = 4 /\ pc'[w] = "syncing"
               \/ next[w] # 4 /\ pc'[w] = "renaming" /\ next'[w] = next[w] + 1
        BY <2>5 DEF Rename, Marker
      <3>3. partial[next[w]] = Whole(w)
        BY <3>1 DEF RenamedUpTo, Documents
      <3>4. CASE next[w] = 4
        BY <3>1, <3>2, <3>3, <3>4 DEF RenamedUpTo, Documents
      <3>5. CASE next[w] # 4
        <4>1. RenamedUpTo(w, next[w])'
          BY <3>1, <3>2, <3>3, <3>5 DEF RenamedUpTo, Documents
        <4> QED
          BY <3>2, <3>5, <4>1
      <3> QED
        BY <3>4, <3>5
    <2> QED
      BY <2>1, <2>2, <2>3, <2>4, <2>5 DEF Persist
  <1> QED
    BY <1>3, <1>4 DEF DocumentsInOrder

LEMMA PersistSole ==
  ASSUME ExecInvariant, SoleInvariant, NEW w \in Writers, Persist(w)
  PROVE  SoleInvariant'
  <1> USE DEF ExecInvariant, SoleInvariant
  <1>1. /\ stage[w] = "persisting" /\ StoreStep(w)
        /\ UNCHANGED <<slot, stage, answer>>
    BY DEF Persist, StoreStep, recordVars
  <1>2. RecordNamesIt' /\ EndedFirst'
    BY <1>1 DEF RecordNamesIt, EndedFirst
  <1>3. \A v \in Writers \ {w} : pc'[v] = pc[v] /\ outcome'[v] = outcome[v]
    BY DEF Persist, Reserve, WritePartial, WriteFails, Written, Rename, RenameFails,
           SyncDirectory, SyncDirectoryFails, Ends, ExecTypeOK, TypeOK
  <1>4. CompletedDurable'
    <2>1. \A v \in Writers : Durable(v) => Durable(v)'
      BY <1>1, DurableKept
    <2>2. pc'[w] = "done" /\ outcome'[w] = "completed" => Durable(w)'
      <3>1. CASE SyncDirectory(w)
        BY <3>1 DEF SyncDirectory, DocumentsInOrder, Durable, RenamedUpTo, Documents
      <3>2. CASE ~SyncDirectory(w)
        BY <3>2 DEF Persist, Reserve, WritePartial, WriteFails, Written, Rename, RenameFails,
               SyncDirectoryFails, Ends, ExecTypeOK, TypeOK
      <3> QED
        BY <3>1, <3>2
    <2> QED
      BY <1>1, <1>3, <2>1, <2>2 DEF CompletedDurable
  <1>5. FailureWithoutFinal'
    <2>1. ASSUME NEW v \in Writers, v # w, NoFinal(v)
          PROVE  NoFinal(v)'
      <3>1. pc[w] = "renaming" => partial[next[w]].by # v
        BY <2>1, CreatedBy DEF DocumentsInOrder, RenamedUpTo, CallsOfStages, Documents
      <3> QED
        BY <1>1, <2>1, <3>1, StoreConcerns
    <2>2. NoFinal(w) /\ pc[w] # "renaming" => NoFinal(w)'
      BY <1>1, StoreConcerns
    <2>3. \/ pc'[w] \in {"new", "writing"}
          \/ pc'[w] = "done" /\ outcome'[w] \notin {"completed", "uncertain"}
          => pc[w] \in {"new", "writing"}
      BY DEF Persist, Reserve, WritePartial, WriteFails, Written, Rename, RenameFails,
             SyncDirectory, SyncDirectoryFails, Ends, ExecTypeOK, TypeOK
    <2>4. answer[w] = "none" /\ slot # [job |-> w, status |-> "failed"]
      BY <1>1 DEF EndedFirst
    <2> QED
      BY <1>1, <1>3, <2>1, <2>2, <2>3, <2>4 DEF FailureWithoutFinal
  <1> QED
    BY <1>2, <1>4, <1>5, PersistOrder

LEMMA JudgeSole ==
  ASSUME ExecInvariant, SoleInvariant, NEW w \in Writers, Judge(w)
  PROVE  SoleInvariant'
  <1> USE DEF ExecInvariant, SoleInvariant, Judge, Goes, Answer
  <1>1. UNCHANGED <<partial, final, exposed, outcome, slot>>
    BY DEF recordVars
  <1>2. \A v \in Writers : NoFinal(v)' = NoFinal(v) /\ Durable(v)' = Durable(v)
    BY <1>1, SameDirectory DEF Durable, RenamedUpTo
  <1>3. RecordNamesIt' /\ EndedFirst'
    BY <1>1 DEF RecordNamesIt, EndedFirst, Working, ExecTypeOK
  <1>4. DocumentsInOrder'
    BY <1>1 DEF DocumentsInOrder, WrittenUpTo, RenamedUpTo, ExecTypeOK, TypeOK
  <1>5. CompletedDurable'
    BY <1>1, <1>2 DEF CompletedDurable, ExecTypeOK, TypeOK
  <1>6. FailureWithoutFinal'
    BY <1>1, <1>2 DEF FailureWithoutFinal, ExecTypeOK, TypeOK
  <1> QED
    BY <1>3, <1>4, <1>5, <1>6

LEMMA EvidenceSole ==
  ASSUME ExecInvariant, SoleInvariant, NEW w \in Writers, KeepEvidence(w)
  PROVE  SoleInvariant'
  <1> USE DEF ExecInvariant, SoleInvariant
  <1>1. stage[w] = "evidence" /\ UNCHANGED slot
    BY DEF KeepEvidence, recordVars
  <1>2. CASE (PersistFailure(w) \/ WriteFailure(w)) /\ UNCHANGED <<stage, answer>>
    <2>1. /\ \A v \in Writers \ {w} : pc'[v] = pc[v] /\ outcome'[v] = outcome[v]
          /\ pc'[w] \in {"failing", "done"}
          /\ pc'[w] = "failing" => final'[Marker] = Absent
      BY <1>2 DEF PersistFailure, WriteFailure, Ends, ExecTypeOK, TypeOK
    <2>2. StoreStep(w)
      BY <1>2 DEF StoreStep
    <2>3. \A v \in Writers : Durable(v) => Durable(v)'
      BY <2>2, DurableKept
    <2>4. ASSUME NEW v \in Writers, NoFinal(v)
          PROVE  NoFinal(v)'
      BY <1>1, <2>2, <2>4, StoreConcerns DEF CallsOfStages
    <2>5. RecordNamesIt' /\ EndedFirst'
      BY <1>1, <1>2 DEF RecordNamesIt, EndedFirst
    <2>6. DocumentsInOrder'
      BY <1>1, <2>1, OneInStore DEF DocumentsInOrder
    <2>7. CompletedDurable'
      BY <1>1, <1>2, <2>1, <2>3 DEF CompletedDurable
    <2>8. FailureWithoutFinal'
      BY <1>1, <1>2, <2>1, <2>4 DEF FailureWithoutFinal
    <2> QED
      BY <2>5, <2>6, <2>7, <2>8
  <1>3. CASE pc[w] \in {"new", "done"} /\ Goes(w, "failing") /\ UNCHANGED artifactVars
    <2>1. UNCHANGED <<partial, final, exposed, pc, next, outcome>>
      BY <1>3 DEF artifactVars, vars
    <2>2. \A v \in Writers : NoFinal(v)' = NoFinal(v) /\ Durable(v)' = Durable(v)
      BY <2>1, SameDirectory DEF Durable, RenamedUpTo
    <2>3. RecordNamesIt' /\ EndedFirst'
      BY <1>1, <1>3 DEF Goes, RecordNamesIt, EndedFirst, Working, ExecTypeOK
    <2>4. DocumentsInOrder'
      BY <2>1 DEF DocumentsInOrder, WrittenUpTo, RenamedUpTo
    <2>5. CompletedDurable' /\ FailureWithoutFinal'
      BY <1>1, <1>3, <2>1, <2>2 DEF Goes, CompletedDurable, FailureWithoutFinal, ExecTypeOK
    <2> QED
      BY <2>3, <2>4, <2>5
  <1> QED
    BY <1>2, <1>3 DEF KeepEvidence

LEMMA EnvironmentSole ==
  ASSUME ExecInvariant, SoleInvariant,
         OtherUpdate \/ ReplaceAudio \/ PowerLoss \/ \E p \in Processes : Restart(p)
  PROVE  SoleInvariant'
  <1> USE DEF ExecInvariant, SoleInvariant
  <1>1. CASE OtherUpdate \/ ReplaceAudio
    <2>1. UNCHANGED <<partial, final, exposed, pc, next, outcome, slot, stage, answer>>
      BY <1>1 DEF OtherUpdate, ReplaceAudio, artifactVars, vars, recordVars
    <2>2. \A v \in Writers : NoFinal(v)' = NoFinal(v) /\ Durable(v)' = Durable(v)
      BY <2>1, SameDirectory DEF Durable, RenamedUpTo
    <2> QED
      BY <2>1, <2>2 DEF RecordNamesIt, EndedFirst, DocumentsInOrder, WrittenUpTo, RenamedUpTo,
         CompletedDurable, FailureWithoutFinal
  <1>2. ASSUME UNCHANGED slot,
               \A w \in Writers :
                 /\ \/ stage'[w] = "ended" /\ answer'[w] \in {answer[w], "uncertain"}
                    \/ /\ stage'[w] = stage[w] /\ answer'[w] = answer[w]
                       /\ pc'[w] = pc[w] /\ outcome'[w] = outcome[w]
                 /\ pc'[w] \in {"writing", "renaming", "syncing", "failing"} =>
                      UNCHANGED <<partial, final, next>> /\ pc'[w] = pc[w]
                 /\ NoFinal(w) => NoFinal(w)'
                 /\ Durable(w) => Durable(w)'
        PROVE  SoleInvariant'
    BY <1>2 DEF RecordNamesIt, EndedFirst, DocumentsInOrder, WrittenUpTo, RenamedUpTo,
                CompletedDurable, FailureWithoutFinal, Working
  <1>3. CASE PowerLoss
    <2>1. \A w \in Writers : Durable(w) => Durable(w)'
      BY <1>3 DEF PowerLoss, LosePower, Durable, RenamedUpTo, Pair, Documents
    <2>2. \A w \in Writers : NoFinal(w) => NoFinal(w)'
      BY <1>3, LossConcerns DEF PowerLoss
    <2>3. \A w \in Writers :
            /\ \/ stage'[w] = "ended" /\ answer'[w] \in {answer[w], "uncertain"}
               \/ /\ stage'[w] = stage[w] /\ answer'[w] = answer[w]
                  /\ pc'[w] = pc[w] /\ outcome'[w] = outcome[w]
            /\ pc'[w] \notin {"writing", "renaming", "syncing", "failing"}
      BY <1>3 DEF PowerLoss, LosePower, Die, Busy, Running, CallsOfStages, ExecTypeOK, TypeOK,
                  Stages, RunStages, Early
    <2> QED
      BY <1>2, <1>3, <2>1, <2>2, <2>3 DEF PowerLoss
  <1>4. ASSUME NEW p \in Processes, Restart(p)
        PROVE  SoleInvariant'
    <2>1. UNCHANGED <<partial, final, exposed, next, slot>>
      BY <1>4 DEF Restart
    <2>2. \A w \in Writers : NoFinal(w)' = NoFinal(w) /\ Durable(w)' = Durable(w)
      BY <2>1, SameDirectory DEF Durable, RenamedUpTo
    <2>3. \A w \in Writers :
            /\ \/ stage'[w] = "ended" /\ answer'[w] \in {answer[w], "uncertain"}
               \/ /\ stage'[w] = stage[w] /\ answer'[w] = answer[w]
                  /\ pc'[w] = pc[w] /\ outcome'[w] = outcome[w]
            /\ pc'[w] \in {"writing", "renaming", "syncing", "failing"} => pc'[w] = pc[w]
      BY <1>4 DEF Restart, Die, Busy, Running, CallsOfStages, ExecTypeOK, TypeOK, Stages,
                  RunStages, Early
    <2> QED
      BY <1>2, <2>1, <2>2, <2>3
  <1> QED
    BY <1>1, <1>3, <1>4

LEMMA SoleInvariantKept ==
  ASSUME ~OtherFailed, ExecInvariant, SoleInvariant, [ExecNext]_execVars
  PROVE  SoleInvariant'
  <1>1. CASE UNCHANGED execVars
    <2>1. \A v \in Writers : NoFinal(v)' = NoFinal(v) /\ Durable(v)' = Durable(v)
      BY <1>1, SameDirectory DEF execVars, artifactVars, vars, Durable, RenamedUpTo
    <2> QED
      BY <1>1, <2>1 DEF execVars, artifactVars, vars, recordVars, SoleInvariant, RecordNamesIt,
         EndedFirst, DocumentsInOrder, WrittenUpTo, RenamedUpTo, CompletedDurable,
         FailureWithoutFinal
  <1>2. CASE ExecNext
    BY <1>2, QuietSole, BackendSole, PersistSole, JudgeSole, EvidenceSole, EnvironmentSole
    DEF ExecNext, Advance, QuietStep, BackendStep
  <1> QED
    BY <1>1, <1>2

LEMMA SoleInvariantThroughout ==
  ASSUME ~OtherFailed
  PROVE  ExecSpec => []SoleInvariant
  BY SoleInitHolds, SoleInvariantKept, ExecInvariantThroughout, PTL DEF ExecSpec

-----------------------------------------------------------------------------
\* Unless another segment has failed, at most one execution, of all processes,
\* is between reading the audio and its documents.
THEOREM OneExecutionAtATime ==
  ASSUME ~OtherFailed
  PROVE  ExecSpec => []OneExecution
  <1>1. SoleInvariant => OneExecution
    BY DEF SoleInvariant, RecordNamesIt, OneExecution, Working
  <1> QED
    BY <1>1, SoleInvariantThroughout, PTL

\* And what is recorded or told of an execution is what the directory holds,
\* after any loss of power too.
THEOREM OutcomesHonest ==
  ASSUME ~OtherFailed
  PROVE  ExecSpec => []OutcomeHonest
  <1>1. SoleInvariant => OutcomeHonest
    BY DEF SoleInvariant, CompletedDurable, FailureWithoutFinal, OutcomeHonest, Durable,
           RenamedUpTo, ReportedComplete, NoFinal, Pair, Documents
  <1> QED
    BY <1>1, SoleInvariantThroughout, PTL

\* And no step replaces or removes a document that is there, except a loss of
\* power, or the rename that makes it final.
THEOREM EvidenceKept ==
  ASSUME ~OtherFailed
  PROVE  ExecSpec => EvidenceNeverDeleted
  <1> DEFINE Keeps ==
        \A d \in Documents :
          /\ final[d] # Absent => final'[d] = final[d]
          /\ partial[d] # Absent => partial'[d] = partial[d] \/ final'[d] = partial[d]
  <1>1. ASSUME ExecInvariant, SoleInvariant, [ExecNext]_execVars
        PROVE  LosePower \/ Keeps
    <2> USE DEF ExecInvariant, SoleInvariant, ExecTypeOK, TypeOK
    <2>1. CASE UNCHANGED <<partial, final>>
      BY <2>1
    <2>2. ASSUME NEW d \in Documents, NEW content, Create(d, content)
          PROVE  Keeps
      BY <2>2 DEF Create
    <2>3. ASSUME NEW w \in Writers, Rename(w)
          PROVE  Keeps
      <3>1. next[w] \in Documents /\ final[next[w]] = Absent
        BY <1>1, <2>3 DEF Rename, CallsOfStages, DocumentsInOrder, RenamedUpTo, Documents
      <3> QED
        BY <1>1, <2>3, <3>1 DEF Rename
    <2>4. ASSUME NEW w \in Writers, StoreStep(w)
          PROVE  Keeps
      <3>1. Marker \in Documents
        BY DEF Marker, Documents
      <3> QED
        BY <2>1, <2>2, <2>3, <2>4, <3>1
        DEF StoreStep, Reserve, WritePartial, WriteFails, Written, RenameFails, SyncDirectory,
            SyncDirectoryFails, PersistFailure, WriteFailure
    <2>5. ASSUME NEW w \in Writers, QuietStep(w) \/ BackendStep(w) \/ Judge(w)
          PROVE  Keeps
      BY <1>1, <2>1, <2>5, QuietEffect
      DEF BackendStep, Hash, Hear, Synthesize, Unavailable, WorkerFails, AnswerRefused,
          PersistRefused, Abandon, Judge, artifactVars, vars
    <2>6. ASSUME NEW w \in Writers, Persist(w) \/ KeepEvidence(w)
          PROVE  Keeps
      BY <2>1, <2>4, <2>6 DEF Persist, KeepEvidence, StoreStep, artifactVars, vars
    <2>7. CASE OtherUpdate \/ ReplaceAudio \/ (\E p \in Processes : Restart(p)) \/
               UNCHANGED execVars
      BY <2>1, <2>7 DEF OtherUpdate, ReplaceAudio, Restart, execVars, artifactVars, vars
    <2> QED
      BY <1>1, <2>5, <2>6, <2>7 DEF ExecNext, Advance, PowerLoss, QuietStep, BackendStep
  <1>2. ASSUME ExecInvariant, SoleInvariant, [ExecNext]_execVars
        PROVE  [LosePower \/ Keeps]_execVars
    BY <1>1, <1>2
  <1> QED
    BY <1>2, ExecInvariantThroughout, SoleInvariantThroughout, PTL
    DEF ExecSpec, EvidenceNeverDeleted

=============================================================================
