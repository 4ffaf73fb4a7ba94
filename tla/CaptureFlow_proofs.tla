-------------------------- MODULE CaptureFlow_proofs --------------------------
(***************************************************************************)
(* Machine-checked proofs about CaptureFlow, for any callers and any       *)
(* number of segments, under refusals, failed recordings and updates,      *)
(* shutdowns and kills at any step.                                        *)
(*                                                                         *)
(* All three theorems hold in any processes, with recoveries that come too *)
(* late or take a recording away from another process: an entry of a       *)
(* recorder's table whose audio is not partial any more, and a second one  *)
(* for the same segment, are always such a recovery's (EntryShape).        *)
(***************************************************************************)
EXTENDS CaptureFlow, SequenceTheorems, TLAPS

\* What the variables range over, but for the service's, which nothing below
\* depends on.
Kinds ==
  /\ record \in Records
  /\ storage \in [Numbers -> Contents]
  /\ owner \in [number : {0} \cup Numbers, process : Processes \cup {Nobody}]
  /\ live \subseteq Processes \X Numbers
  /\ pc \in [Callers -> Stages]
  /\ work \in [Callers -> Work]
  /\ reported \subseteq Numbers
  /\ retaken \subseteq Numbers

Segs == Len(record.segments)
Showing == record.capture = "recording"

\* The record calls a segment recording exactly when its capture is, in a session
\* that may record, and then it is the last.
RecordShape ==
  /\ Segs <= MaxNumber
  /\ record.id # 0 => Segs > 0
  /\ Showing => record.session \in {"active", "interrupted"} /\ Segs > 0
  /\ \A n \in DOMAIN record.segments :
       record.segments[n] = "recording" <=> n = Segs /\ Showing

\* Final, or final but for the manifest a late recovery has cost it.
Sealed(n) == storage[n] = "final" \/ (storage[n] = "audio" /\ n \in retaken)

\* What it calls stopped is sealed; beyond its segments there is at most one, and
\* none while the last of them is recorded.
StorageShape ==
  /\ \A n \in With(record, "stopped") : Sealed(n)
  /\ \A n \in Numbers : storage[n] # "none" =>
       n <= Segs + 1 /\ (Showing => n <= Segs)

\* What a recorder has in its table is being recorded, and by it alone, but for
\* the recoveries in retaken.
EntryShape ==
  /\ \A e \in live : /\ storage[e[2]] # "none"
                     /\ storage[e[2]] = "partial" \/ e[2] \in retaken
  /\ \A e, f \in live : e[2] = f[2] => e = f \/ e[2] \in retaken

-----------------------------------------------------------------------------
(* What is true of a call that is under way.                               *)

Under(c) == pc[c] # "idle"
Begins(c) == Op(c) \in {"start", "resume"}

\* It has read of no more segments than there are, and begins none beyond the
\* last number.
InBounds(c) ==
  /\ Last(c) <= Segs
  /\ Begins(c) => Last(c) < MaxNumber
  /\ Op(c) # "start" => work[c].id # 0 /\ Last(c) > 0

\* What it has read is what is there as long as nobody has moved the record.
ReadCurrent(c) ==
  Current(c) =>
    Capture(c) = record.capture /\ work[c].id = record.id /\ Last(c) = Segs

\* Its stage says what its operation is and what it has read.
OfStage(c) ==
  /\ pc[c] = "started" => Op(c) = "start"
  /\ pc[c] \in {"restoring", "recovering", "installing"} => Op(c) # "start"
  /\ Op(c) = "start" => Capture(c) \in {"unavailable", "ready", "stopped"}
  /\ pc[c] = "persisting" => /\ Op(c) = "resume" => Capture(c) = "paused"
                             /\ Op(c) = "pause" => Capture(c) = "recording"
                             /\ Op(c) = "stop" => Capture(c) \in {"recording", "paused"}

\* What it is about to enter in the recorder's table is or was recorded.
Retaking(c) ==
  pc[c] = "recovering" => Capture(c) = "recording" /\ storage[Last(c)] # "none"

\* What it is about to enter as stopped is sealed.
FinalFirst(c) ==
  pc[c] = "persisting" /\ ~Begins(c) /\ Current(c) => Sealed(Last(c))

\* A recording it has read of goes on in the record until it is finalized.
ReadStands(c) ==
  Capture(c) = "recording" => Sealed(Last(c)) \/ (Showing /\ Last(c) = Segs)

\* While the record shows a recording, it does not begin the segment after it.
NothingNext(c) ==
  Showing /\ Begins(c) /\ Capture(c) # "recording" => Last(c) < Segs

CallSound(c) ==
  Under(c) => /\ InBounds(c) /\ ReadCurrent(c) /\ OfStage(c) /\ Retaking(c)
              /\ FinalFirst(c) /\ ReadStands(c) /\ NothingNext(c)

FlowInvariant ==
  /\ Kinds /\ RecordShape /\ StorageShape /\ EntryShape
  /\ \A c \in Callers : CallSound(c)

-----------------------------------------------------------------------------
(* The recordings.                                                         *)

\* LiveRecordingKnown, by the call that can answer for a recording: the one that
\* began it and has not yet updated the record.
Began(c, e) ==
  pc[c] \in {"started", "persisting"} /\ Begins(c) /\ P(c) = e[1] /\ Number(c) = e[2]

LiveAccounted ==
  \A e \in live : storage[e[2]] = "partial" =>
    \/ Showing /\ e[2] = Segs
    \/ e[2] \in reported
    \/ \E c \in Callers : Began(c, e)

-----------------------------------------------------------------------------
(* The beginning, and the calls a step does not concern.                   *)

LEMMA FlowInit == Init => FlowInvariant /\ LiveAccounted
  <1> SUFFICES ASSUME Init
               PROVE  FlowInvariant /\ LiveAccounted
    OBVIOUS
  <1>1. /\ record.session = "planned" /\ record.capture = "unavailable"
        /\ record.segments = <<>> /\ record.id = 0
        /\ DOMAIN record.segments = {} /\ Segs = 0 /\ live = {}
        /\ \A n \in Numbers : storage[n] = "none"
        /\ \A c \in Callers : pc[c] = "idle"
    BY DEF Init, NoRecord, Segs
  <1>2. Kinds
    <2>1. record \in Records
      BY DEF Init, NoRecord, Records, SessionStatuses, CaptureStatuses, TranscriptionStatuses
    <2> QED
      BY <2>1 DEF Init, Kinds, Contents, Unowned, Stages, Work, NoWork, Operations,
                  CaptureStatuses
  <1>3. RecordShape /\ StorageShape
    BY <1>1, FlowAssumption DEF FlowAssumption, RecordShape, StorageShape, With, Showing
  <1> QED
    BY <1>1, <1>2, <1>3
    DEF FlowInvariant, CallSound, Under, EntryShape, LiveAccounted

\* What is sealed stays so; nothing is taken out of the directory.
NothingLost ==
  \A n \in Numbers : /\ Sealed(n) => Sealed(n)'
                     /\ storage[n] # "none" => storage'[n] # "none"

LEMMA IdleSound ==
  ASSUME NEW c \in Callers, pc'[c] = "idle"
  PROVE  CallSound(c)'
  BY DEF CallSound, Under

\* A call that goes on, or stays where it is, over an unchanged record.
LEMMA SoundStays ==
  ASSUME FlowInvariant, UNCHANGED record, NothingLost, NEW c \in Callers, Under(c),
         work'[c] = work[c],
         \/ pc'[c] = pc[c]
         \/ /\ pc'[c] \in Stages /\ OfStage(c)' /\ Retaking(c)'
            /\ pc'[c] = "persisting" /\ ~Begins(c) /\ Current(c) => Sealed(Last(c))'
  PROVE  CallSound(c)'
  <1>1. /\ CallSound(c) /\ InBounds(c) /\ ReadCurrent(c) /\ OfStage(c) /\ Retaking(c)
        /\ FinalFirst(c) /\ ReadStands(c) /\ NothingNext(c)
    BY DEF FlowInvariant, CallSound
  <1>2. Segs' = Segs /\ Showing' = Showing
    BY DEF Segs, Showing
  <1>3. InBounds(c)' /\ ReadCurrent(c)' /\ NothingNext(c)'
    BY <1>1, <1>2
    DEF InBounds, ReadCurrent, NothingNext, Last, Op, Begins, Capture, Current
  <1>4. work[c] \in Work
    BY DEF FlowInvariant, Kinds
  <1>9. Last(c)' = Last(c)
    BY DEF Last
  <1>5. Last(c) > 0 => /\ Sealed(Last(c)) => Sealed(Last(c))'
                       /\ storage[Last(c)] # "none" => storage'[Last(c)] # "none"
    <2> DEFINE n == Last(c)
    <2>1. n \in Nat \ {0} => n \in Numbers
      BY <1>4 DEF Work, Last, Numbers
    <2>2. n \in {0} \cup Numbers
      BY <1>4 DEF Work, Last
    <2>3. n > 0 => n \in Numbers
      BY <2>2
    <2>4. n' = n
      BY <1>9
    <2> QED
      BY <2>3, <2>4 DEF NothingLost, Sealed
  <1>6. ~Begins(c) \/ Capture(c) = "recording" => Last(c) > 0
    BY <1>1 DEF InBounds, Begins, OfStage
  <1>7. ReadStands(c)'
    BY <1>1, <1>2, <1>5, <1>6, <1>9 DEF ReadStands, Capture, Sealed
  <1>8. FinalFirst(c)' /\ OfStage(c)' /\ Retaking(c)'
    BY <1>1, <1>5, <1>6, <1>9
    DEF FinalFirst, OfStage, Retaking, Begins, Current, Op, Capture
  <1> QED
    BY <1>3, <1>7, <1>8 DEF CallSound

\* The three ways the record moves.
Moves ==
  \/ (Showing' <=> Showing) /\ Segs' = Segs
  \/ ~Showing /\ Showing' /\ Segs' = Segs + 1
  \/ ~Showing' /\ Segs' = Segs /\ (Showing => Sealed(Segs))

\* A call that has read before the record moves is out of date, and sound.
LEMMA SoundMoves ==
  ASSUME FlowInvariant, UNCHANGED <<storage, retaken>>, Segs \in Nat, Segs' \in Nat, Moves,
         NEW c \in Callers, pc'[c] = pc[c], Under(c),
         work'[c] = [work[c] EXCEPT !.stale = TRUE]
  PROVE  CallSound(c)'
  <1>1. /\ CallSound(c) /\ InBounds(c) /\ ReadCurrent(c) /\ OfStage(c) /\ Retaking(c)
        /\ ReadStands(c) /\ NothingNext(c) /\ work[c] \in Work
    BY DEF FlowInvariant, Kinds, CallSound
  <1>2. /\ Op(c)' = Op(c) /\ Capture(c)' = Capture(c) /\ Last(c)' = Last(c)
        /\ work'[c].id = work[c].id /\ ~Current(c)' /\ Last(c) \in Nat
    BY <1>1, FlowAssumption
    DEF Work, Op, Capture, Last, Current, FlowAssumption, Numbers
  <1>3. Segs <= Segs'
    BY DEF Moves
  <1>4. InBounds(c)' /\ ReadCurrent(c)' /\ OfStage(c)' /\ Retaking(c)' /\ FinalFirst(c)'
    BY <1>1, <1>2, <1>3
    DEF InBounds, ReadCurrent, OfStage, Retaking, FinalFirst, Begins
  <1>5. NothingNext(c)'
    BY <1>1, <1>2 DEF NothingNext, Begins, InBounds, Moves
  <1>6. ReadStands(c)'
    BY <1>1, <1>2 DEF ReadStands, Moves, Sealed
  <1> QED
    BY <1>4, <1>5, <1>6 DEF CallSound

\* Everybody else, when the record is replaced by c or by no call.
LEMMA OthersMove ==
  ASSUME FlowInvariant, UNCHANGED <<storage, retaken>>, Segs \in Nat, Segs' \in Nat, Moves,
         NEW w, work' = Moved(w), NEW d \in Callers,
         (pc'[d] = pc[d] /\ w[d] = work[d]) \/ pc'[d] = "idle"
  PROVE  CallSound(d)'
  <1>1. CASE pc'[d] = "idle"
    BY <1>1, IdleSound
  <1>2. CASE pc'[d] = pc[d] /\ w[d] = work[d] /\ Under(d)
    <2>1. work'[d] = [work[d] EXCEPT !.stale = TRUE]
      BY <1>2 DEF Moved, Under
    <2> QED
      BY <1>2, <2>1, SoundMoves
  <1> QED
    BY <1>1, <1>2 DEF Under

LEMMA RecordKnown ==
  ASSUME FlowInvariant
  PROVE  /\ record.segments \in Seq({"recording", "stopped"}) /\ Segs \in Nat
         /\ DOMAIN record.segments = 1 .. Segs
         /\ record.session \in SessionStatuses /\ record.capture \in CaptureStatuses
         /\ record.id \in {0} \cup Numbers /\ record.transcribed \subseteq Numbers
         /\ record.aggregate \in TranscriptionStatuses
         /\ Segs <= MaxNumber /\ MaxNumber \in Nat
  BY FlowAssumption DEF FlowInvariant, Kinds, RecordShape, Records, Segs, FlowAssumption

\* The mapping of a start or a resume: one more segment, which is recorded.
LEMMA MappedBegins ==
  ASSUME FlowInvariant, NEW c \in Callers, Under(c), Begins(c), Current(c)
  PROVE  LET r == Mapped(c) IN
         /\ r \in Records
         /\ r.session = record.session /\ r.capture = "recording"
         /\ Len(r.segments) = Segs + 1 /\ Number(c) = Segs + 1 /\ Segs < MaxNumber
         /\ r.id # 0
         /\ \A n \in 1 .. Segs : r.segments[n] = record.segments[n]
         /\ r.segments[Segs + 1] = "recording"
  <1> DEFINE q == Append(record.segments, "recording")
             r == [record EXCEPT !.capture = "recording", !.id = CaptureId(c),
                                 !.segments = q]
  <1>1. Mapped(c) = r
    BY DEF Mapped, Begins
  <1>2. /\ InBounds(c) /\ ReadCurrent(c) /\ work[c] \in Work /\ record \in Records
    BY DEF FlowInvariant, Kinds, CallSound
  <1>3. Last(c) = Segs /\ Segs \in Nat /\ Number(c) = Segs + 1 /\ Segs < MaxNumber
    BY <1>2, RecordKnown DEF ReadCurrent, Number, Begins, InBounds
  <1>4. CaptureId(c) \in Numbers
    BY <1>2, <1>3, RecordKnown DEF CaptureId, Numbers, Work, InBounds, Begins
  <1>5. /\ q \in Seq({"recording", "stopped"}) /\ Len(q) = Segs + 1
        /\ \A n \in 1 .. Segs : q[n] = record.segments[n]
        /\ q[Segs + 1] = "recording"
    BY RecordKnown, AppendProperties DEF Segs
  <1>6. r \in Records
    BY <1>2, <1>4, <1>5 DEF Records, CaptureStatuses
  <1>7. /\ r.session = record.session /\ r.capture = "recording"
        /\ r.id = CaptureId(c) /\ r.segments = q
    BY <1>2 DEF Records
  <1>8. CaptureId(c) # 0
    BY <1>4 DEF Numbers
  <1> HIDE DEF r, q
  <1> QED
    BY <1>1, <1>3, <1>5, <1>6, <1>7, <1>8

\* That of a pause or a stop: the last segment is stopped.
LEMMA MappedEnds ==
  ASSUME FlowInvariant, NEW c \in Callers, Under(c), ~Begins(c), Current(c)
  PROVE  LET r == Mapped(c) IN
         /\ r \in Records
         /\ r.session = record.session /\ r.capture \in {"paused", "stopped"}
         /\ r.id = record.id
         /\ Len(r.segments) = Segs /\ Number(c) = Segs /\ Segs > 0
         /\ \A n \in 1 .. Segs - 1 : r.segments[n] = record.segments[n]
         /\ r.segments[Segs] = "stopped"
  <1> DEFINE q == [record.segments EXCEPT ![Segs] = "stopped"]
             r(status) == [record EXCEPT !.capture = status, !.segments = q]
  <1>1. /\ InBounds(c) /\ ReadCurrent(c) /\ work[c] \in Work /\ record \in Records
    BY DEF FlowInvariant, Kinds, CallSound
  <1>2. Last(c) = Segs /\ Segs \in Nat /\ Number(c) = Segs /\ Segs > 0
    BY <1>1, RecordKnown DEF ReadCurrent, Number, Begins, InBounds
  <1>3. Op(c) \in {"pause", "stop"}
    BY <1>1 DEF Begins, Work, Op, Operations
  <1>4. PICK status \in {"paused", "stopped"} : Mapped(c) = r(status)
    BY <1>3 DEF Mapped, Segs
  <1>5. /\ q \in Seq({"recording", "stopped"}) /\ Len(q) = Segs
        /\ \A n \in 1 .. Segs - 1 : q[n] = record.segments[n]
        /\ q[Segs] = "stopped"
    BY <1>2, RecordKnown, ExceptSeq DEF Segs
  <1>6. r(status) \in Records
    BY <1>1, <1>5 DEF Records, CaptureStatuses
  <1>7. /\ r(status).session = record.session /\ r(status).capture = status
        /\ r(status).id = record.id /\ r(status).segments = q
    BY <1>1 DEF Records
  <1> HIDE DEF r, q
  <1> QED
    BY <1>2, <1>4, <1>5, <1>6, <1>7

LEMMA WorkMoved ==
  ASSUME NEW w \in [Callers -> Work], NEW v, v = Moved(w)
  PROVE  v \in [Callers -> Work]
  <1>1. ASSUME NEW c \in Callers
        PROVE  [w[c] EXCEPT !.stale = pc'[c] # "idle"] \in Work
    <2>1. w[c] \in Work
      OBVIOUS
    <2> QED
      BY <2>1 DEF Work
  <1> QED
    BY <1>1 DEF Moved

LEMMA NoWorkKnown == NoWork \in Work
  BY DEF NoWork, Work, Operations, CaptureStatuses

\* Persist and PersistUncertain, when they replace the record.
LEMMA ReplaceKeeps ==
  ASSUME FlowInvariant, NEW c \in Callers, Goto(c, "persisting", "idle"), Current(c),
         Acceptable(Mapped(c)), Write(Mapped(c), [work EXCEPT ![c] = NoWork]),
         UNCHANGED backendVars, UNCHANGED retaken, reported' \subseteq Numbers
  PROVE  /\ FlowInvariant'
         /\ \/ Begins(c) /\ Showing' /\ Segs' = Number(c)
            \/ ~Begins(c) /\ Sealed(Number(c)) /\ Number(c) = Segs
  <1> DEFINE r == Mapped(c)
             w == [work EXCEPT ![c] = NoWork]
  <1>1. /\ pc[c] = "persisting" /\ Under(c) /\ pc' = [pc EXCEPT ![c] = "idle"]
        /\ record' = r /\ work' = Moved(w) /\ UNCHANGED <<storage, owner, live, retaken>>
    BY DEF Goto, Under, Write, backendVars
  <1>2. /\ Kinds /\ RecordShape /\ StorageShape /\ EntryShape /\ InBounds(c) /\ ReadCurrent(c)
        /\ OfStage(c) /\ FinalFirst(c)
    BY <1>1 DEF FlowInvariant, CallSound
  <1>3. /\ Begins(c) => /\ r \in Records
                        /\ r.session = record.session /\ r.capture = "recording"
                        /\ Len(r.segments) = Segs + 1 /\ Number(c) = Segs + 1
                        /\ Segs < MaxNumber /\ r.id # 0
                        /\ \A n \in 1 .. Segs : r.segments[n] = record.segments[n]
                        /\ r.segments[Segs + 1] = "recording"
        /\ ~Begins(c) => /\ r \in Records
                         /\ r.session = record.session /\ r.capture \in {"paused", "stopped"}
                         /\ r.id = record.id
                         /\ Len(r.segments) = Segs /\ Number(c) = Segs /\ Segs > 0
                         /\ \A n \in 1 .. Segs - 1 : r.segments[n] = record.segments[n]
                         /\ r.segments[Segs] = "stopped"
    BY <1>1, MappedBegins, MappedEnds
  <1>4. r.capture = "recording" => r.session \in {"active", "interrupted"}
    BY DEF Acceptable
  <1> HIDE DEF r
  <1>5. r \in Records /\ Len(r.segments) \in Nat /\ DOMAIN r.segments = 1 .. Len(r.segments)
    <2>1. r.segments \in Seq({"recording", "stopped"})
      BY <1>3 DEF Records
    <2> QED
      BY <1>3, <2>1
  <1>6. Segs' = Len(r.segments) /\ (Showing' <=> r.capture = "recording")
    BY <1>1 DEF Segs, Showing
  <1>7. Begins(c) => ~Showing
    BY <1>1, <1>2 DEF Begins, OfStage, ReadCurrent, Showing
  <1>8. ~Begins(c) => Sealed(Segs)
    BY <1>1, <1>2, RecordKnown DEF FinalFirst, ReadCurrent
  <1>9. Kinds'
    <2>1. w \in [Callers -> Work]
      BY <1>2, NoWorkKnown DEF Kinds
    <2>2. work' \in [Callers -> Work]
      BY <1>1, <2>1, WorkMoved
    <2> QED
      BY <1>1, <1>2, <1>5, <2>2 DEF Kinds, Stages
  <1>10. RecordShape'
    BY <1>1, <1>2, <1>3, <1>4, <1>5, <1>6, <1>7, RecordKnown DEF RecordShape
  <1>11. StorageShape'
    <2>1. ASSUME NEW n \in With(r, "stopped")
          PROVE  Sealed(n)
      <3>1. n \in 1 .. Len(r.segments) /\ r.segments[n] = "stopped"
        BY <1>5 DEF With
      <3>2. (n \in 1 .. Segs /\ record.segments[n] = "stopped") \/ Sealed(n)
        BY <1>3, <1>8, <3>1, RecordKnown
      <3> QED
        BY <1>2, <3>2, RecordKnown DEF StorageShape, With
    <2>2. ASSUME NEW n \in Numbers, storage[n] # "none"
          PROVE  n <= Len(r.segments) + 1 /\ (r.capture = "recording" => n <= Len(r.segments))
      <3>1. n <= Segs + 1
        BY <1>2, <2>2 DEF StorageShape
      <3> QED
        BY <1>3, <3>1, RecordKnown DEF Numbers
    <2> QED
      BY <1>1, <1>6, <2>1, <2>2 DEF StorageShape, Sealed
  <1>14. EntryShape'
    BY <1>1, <1>2 DEF EntryShape
  <1>12. Moves
    BY <1>3, <1>6, <1>7, <1>8 DEF Moves
  <1>13. ASSUME NEW d \in Callers
         PROVE  CallSound(d)'
    <2>1. (pc'[d] = pc[d] /\ w[d] = work[d]) \/ pc'[d] = "idle"
      BY <1>1, <1>2 DEF Kinds
    <2> QED
      BY <1>1, <1>5, <1>6, <1>12, <2>1, RecordKnown, OthersMove
  <1> QED
    BY <1>3, <1>6, <1>8, <1>9, <1>10, <1>11, <1>13, <1>14 DEF FlowInvariant

\* TransitionSession and Transcribe: segments and recording stay.
LEMMA OtherWriterKeeps ==
  ASSUME FlowInvariant, UNCHANGED <<pc, storage, owner, live, reported, retaken>>,
         NEW r \in Records, Write(r, work), r.segments = record.segments, r.id = record.id,
         Showing => r.capture = "recording" /\ r.session = record.session,
         ~Showing => r.capture # "recording"
  PROVE  FlowInvariant'
  <1>1. Segs' = Segs /\ (Showing' <=> Showing) /\ record' = r /\ work' = Moved(work)
    BY DEF Segs, Showing, Write
  <1>2. Kinds'
    BY <1>1, WorkMoved DEF FlowInvariant, Kinds
  <1>3. RecordShape' /\ StorageShape' /\ EntryShape'
    BY <1>1
    DEF FlowInvariant, RecordShape, StorageShape, EntryShape, Sealed, With, Showing
  <1>4. ASSUME NEW d \in Callers
        PROVE  CallSound(d)'
    BY <1>1, RecordKnown, OthersMove DEF Moves
  <1> QED
    BY <1>2, <1>3, <1>4 DEF FlowInvariant

LEMMA TransitionKeeps ==
  ASSUME FlowInvariant, NEW to \in SessionStatuses, TransitionSession(to)
  PROVE  FlowInvariant'
  <1> DEFINE r == [record EXCEPT !.session = to, !.capture = Adjusted(to)]
  <1>1. record \in Records /\ Write(r, work) /\ ~Showing /\ ~(Adjusted(to) = "recording")
    BY DEF FlowInvariant, Kinds, TransitionSession, Showing, ActiveCaptureStatuses, Adjusted
  <1>2. Adjusted(to) \in CaptureStatuses
    BY RecordKnown DEF Adjusted, CaptureStatuses
  <1>3. r \in Records /\ r.segments = record.segments /\ r.id = record.id
        /\ r.capture = Adjusted(to)
    BY <1>1, <1>2 DEF Records
  <1>4. UNCHANGED <<pc, storage, owner, live, reported, retaken>>
    BY DEF TransitionSession, backendVars, historyVars
  <1> HIDE DEF r
  <1> QED
    BY <1>1, <1>3, <1>4, OtherWriterKeeps

LEMMA TranscribeKeeps ==
  ASSUME FlowInvariant, NEW n \in Numbers, Transcribe(n)
  PROVE  FlowInvariant'
  <1> DEFINE next == [record EXCEPT !.transcribed = @ \cup {n}]
             r == [next EXCEPT !.aggregate = Derived(next)]
  <1>1. record \in Records /\ Write(r, work)
    BY DEF FlowInvariant, Kinds, Transcribe
  <1>2. Derived(next) \in TranscriptionStatuses
    BY DEF Derived, AggregateTranscriptionStatus, TranscriptionStatuses
  <1>3. next \in Records
    BY <1>1 DEF Records
  <1>4. r \in Records /\ r.segments = record.segments /\ r.id = record.id
        /\ r.capture = record.capture /\ r.session = record.session
    BY <1>1, <1>2, <1>3 DEF Records
  <1>5. UNCHANGED <<pc, storage, owner, live, reported, retaken>>
    BY DEF Transcribe, backendVars, historyVars
  <1> HIDE DEF r
  <1> QED
    BY <1>1, <1>4, <1>5, OtherWriterKeeps DEF Showing

-----------------------------------------------------------------------------
(* Steps that leave the record alone.                                      *)

\* What may come into the directory.
Room(n) == n <= Segs + 1 /\ (Showing => n <= Segs)

LEMMA StepKeeps ==
  ASSUME FlowInvariant, UNCHANGED record, Kinds', EntryShape', NothingLost, NEW c \in Callers,
         \A n \in Numbers : storage'[n] # "none" => storage[n] # "none" \/ Room(n),
         \A d \in Callers \ {c} : pc'[d] = pc[d] /\ work'[d] = work[d],
         CallSound(c)'
  PROVE  FlowInvariant'
  <1>1. Segs' = Segs /\ (Showing' <=> Showing)
    BY DEF Segs, Showing
  <1>2. RecordShape'
    BY <1>1 DEF FlowInvariant, RecordShape
  <1>3. StorageShape'
    <2>1. \A n \in With(record, "stopped") : n \in Numbers
      BY RecordKnown DEF With, Numbers
    <2> QED
      BY <1>1, <2>1 DEF FlowInvariant, StorageShape, NothingLost, Sealed, Room, With
  <1>4. ASSUME NEW d \in Callers \ {c}
        PROVE  CallSound(d)'
    BY <1>4, SoundStays, IdleSound DEF Under
  <1> QED
    BY <1>2, <1>3, <1>4 DEF FlowInvariant

\* A number a call may begin has room.
LEMMA BeginsInRoom ==
  ASSUME FlowInvariant, NEW c \in Callers, Under(c), Begins(c), Capture(c) # "recording"
  PROVE  Number(c) \in Numbers /\ Room(Number(c)) /\ CaptureId(c) \in Numbers
  <1>1. InBounds(c) /\ NothingNext(c) /\ work[c] \in Work
    BY DEF FlowInvariant, CallSound, Kinds
  <1>2. Last(c) \in Nat /\ Number(c) = Last(c) + 1
    BY <1>1, FlowAssumption DEF Work, Last, Numbers, Number, Begins, FlowAssumption
  <1> QED
    BY <1>1, <1>2, RecordKnown
    DEF InBounds, NothingNext, Numbers, Room, CaptureId, Begins, Work

LEMMA CallerKnown ==
  ASSUME FlowInvariant, NEW c \in Callers
  PROVE  /\ work[c] \in Work /\ pc[c] \in Stages /\ P(c) \in Processes
         /\ Under(c) => /\ InBounds(c) /\ ReadCurrent(c) /\ OfStage(c) /\ Retaking(c)
                        /\ FinalFirst(c) /\ ReadStands(c) /\ NothingNext(c)
  BY FlowAssumption DEF FlowInvariant, Kinds, CallSound, P, FlowAssumption

\* The call returns; the directory may have changed.
LEMMA ReturnKeeps ==
  ASSUME FlowInvariant, UNCHANGED <<record, reported, retaken>>, NothingLost, EntryShape',
         NEW c \in Callers, Return(c),
         storage' \in [Numbers -> Contents], live' \subseteq Processes \X Numbers,
         owner' \in [number : {0} \cup Numbers, process : Processes \cup {Nobody}],
         \A n \in Numbers : storage'[n] # "none" => storage[n] # "none" \/ Room(n)
  PROVE  FlowInvariant'
  <1>1. Kinds /\ pc' = [pc EXCEPT ![c] = "idle"] /\ work' = [work EXCEPT ![c] = NoWork]
    BY DEF FlowInvariant, Return
  <1>2. Kinds'
    BY <1>1, NoWorkKnown DEF Kinds, Stages
  <1>3. CallSound(c)'
    BY <1>1, IdleSound DEF Kinds
  <1>4. \A d \in Callers \ {c} : pc'[d] = pc[d] /\ work'[d] = work[d]
    BY <1>1 DEF Kinds
  <1> QED
    BY <1>2, <1>3, <1>4, StepKeeps

\* It goes on to its next stage.
LEMMA GoesOnKeeps ==
  ASSUME FlowInvariant, UNCHANGED <<record, reported, work>>, NothingLost, EntryShape',
         retaken' \subseteq Numbers, NEW c \in Callers, Under(c), NEW to \in Stages,
         pc' = [pc EXCEPT ![c] = to],
         storage' \in [Numbers -> Contents], live' \subseteq Processes \X Numbers,
         owner' \in [number : {0} \cup Numbers, process : Processes \cup {Nobody}],
         \A n \in Numbers : storage'[n] # "none" => storage[n] # "none" \/ Room(n),
         OfStage(c)', Retaking(c)',
         to = "persisting" /\ ~Begins(c) /\ Current(c) => Sealed(Last(c))'
  PROVE  FlowInvariant'
  <1>1. Kinds
    BY DEF FlowInvariant
  <1>2. Kinds'
    BY <1>1 DEF Kinds
  <1>3. pc'[c] = to /\ \A d \in Callers \ {c} : pc'[d] = pc[d] /\ work'[d] = work[d]
    BY <1>1 DEF Kinds
  <1>4. CallSound(c)'
    BY <1>3, SoundStays
  <1> QED
    BY <1>2, <1>3, <1>4, StepKeeps

\* What the recorder does to the directory.
LEMMA StartSegmentShape ==
  ASSUME FlowInvariant, NEW c \in Callers, Under(c), Begins(c), Capture(c) # "recording",
         NEW n, n = Number(c),
         UNCHANGED retaken, StartSegment(P(c), n) \/ StartSegmentFails(P(c), n)
  PROVE  /\ storage' \in [Numbers -> Contents] /\ live' \subseteq Processes \X Numbers
         /\ owner' \in [number : {0} \cup Numbers, process : Processes \cup {Nobody}]
         /\ NothingLost /\ EntryShape'
         /\ \A k \in Numbers : storage'[k] # "none" => storage[k] # "none" \/ Room(k)
  <1>1. n \in Numbers /\ Room(n) /\ P(c) \in Processes /\ Kinds
    BY BeginsInRoom, CallerKnown DEF FlowInvariant
  <1>2. storage' = storage \/ (storage' = [storage EXCEPT ![n] = "partial"] /\ Free(n))
    BY DEF StartSegment, StartSegmentFails
  <1>3. storage[n] = "none" \/ storage' = storage
    BY <1>2 DEF Free
  <1>4. owner' = owner \/ owner' = [number |-> n, process |-> P(c)]
    BY DEF StartSegment, StartSegmentFails
  <1>5. live' = live \/ live' = live \cup {<<P(c), n>>}
    BY DEF StartSegment, StartSegmentFails
  <1>6. /\ storage' \in [Numbers -> Contents] /\ NothingLost
        /\ \A k \in Numbers : storage'[k] # "none" => storage[k] # "none" \/ Room(k)
    BY <1>1, <1>2, <1>3 DEF Kinds, Contents, NothingLost, Sealed
  <1>7. EntryShape'
    <2>1. EntryShape /\ live \subseteq Processes \X Numbers
      BY <1>1 DEF FlowInvariant, Kinds
    <2>2. CASE storage' = storage /\ live' = live
      BY <2>1, <2>2 DEF EntryShape
    <2>3. CASE storage' = [storage EXCEPT ![n] = "partial"] /\ storage[n] = "none"
      <3>1. \A e \in live : e[2] # n /\ storage'[e[2]] = storage[e[2]]
        BY <1>1, <2>1, <2>3 DEF EntryShape, Kinds
      <3>2. storage'[n] = "partial"
        BY <1>1, <2>3 DEF Kinds
      <3>3. \A e \in live' : e \in live \/ e = <<P(c), n>>
        BY <1>5
      <3> QED
        BY <2>1, <3>1, <3>2, <3>3 DEF EntryShape
    <2> QED
      BY <1>2, <1>3, <2>2, <2>3 DEF StartSegment, StartSegmentFails, Free
  <1> QED
    BY <1>1, <1>4, <1>5, <1>6, <1>7 DEF Kinds

LEMMA FinalizeShape ==
  ASSUME FlowInvariant, NEW p \in Processes, NEW n,
         UNCHANGED retaken, FinalizeSegment(p, n) \/ FinalizeSegmentFails(p, n)
  PROVE  /\ storage' \in [Numbers -> Contents] /\ live' \subseteq Processes \X Numbers
         /\ owner' \in [number : {0} \cup Numbers, process : Processes \cup {Nobody}]
         /\ NothingLost /\ EntryShape'
         /\ \A k \in Numbers : storage'[k] # "none" => storage[k] # "none" \/ Room(k)
         /\ FinalizeSegment(p, n) => storage'[n] = "final"
  <1>1. Kinds
    BY DEF FlowInvariant
  <1>2. <<p, n>> \in live => n \in Numbers
    BY <1>1 DEF Kinds
  <1>3. live' \subseteq live
    BY DEF FinalizeSegment, FinalizeSegmentFails
  <1>4. owner' = owner \/ owner' = Unowned
    BY DEF FinalizeSegment, FinalizeSegmentFails
  <1>5. \/ storage' = storage /\ ~FinalizeSegment(p, n)
        \/ /\ n \in Numbers /\ storage[n] = "partial" /\ <<p, n>> \in live
           /\ \E content \in {"audio", "final"} :
                /\ storage' = [storage EXCEPT ![n] = content]
                /\ FinalizeSegment(p, n) => content = "final"
    <2>1. CASE FinalizeSegment(p, n)
      BY <1>2, <2>1 DEF FinalizeSegment
    <2>2. CASE ~FinalizeSegment(p, n)
      BY <1>2, <2>2 DEF FinalizeSegmentFails, Installed
    <2> QED
      BY <2>1, <2>2
  <1>6. /\ storage' \in [Numbers -> Contents] /\ NothingLost
        /\ \A k \in Numbers : storage'[k] # "none" => storage[k] # "none" \/ Room(k)
        /\ FinalizeSegment(p, n) => storage'[n] = "final"
    BY <1>1, <1>5 DEF Kinds, Contents, NothingLost, Sealed
  <1>7. EntryShape'
    <2>1. EntryShape /\ live \subseteq Processes \X Numbers
      BY <1>1 DEF FlowInvariant, Kinds
    <2>2. CASE storage' = storage
      BY <1>3, <2>1, <2>2 DEF EntryShape
    <2>3. ASSUME n \in Numbers, <<p, n>> \in live,
                 NEW content \in {"audio", "final"},
                 storage' = [storage EXCEPT ![n] = content]
          PROVE  EntryShape'
      <3>1. \A e \in live' : e \in live /\ e # <<p, n>>
        BY <1>3 DEF FinalizeSegment, FinalizeSegmentFails
      <3>2. \A e \in live' : e[2] = n => e[2] \in retaken
        BY <2>1, <2>3, <3>1 DEF EntryShape
      <3>3. \A e \in live' : /\ e[2] \in Numbers
                             /\ e[2] # n => storage'[e[2]] = storage[e[2]]
                             /\ e[2] = n => storage'[e[2]] = content
        BY <1>1, <2>1, <2>3, <3>1 DEF Kinds
      <3> QED
        BY <2>1, <3>1, <3>2, <3>3 DEF EntryShape
    <2> QED
      BY <1>5, <2>2, <2>3
  <1> QED
    BY <1>1, <1>3, <1>4, <1>6, <1>7 DEF Kinds, Unowned

-----------------------------------------------------------------------------
(* Each step of a call.                                                    *)

\* Begin reads the record as it is.
LEMMA BeginKeeps ==
  ASSUME FlowInvariant, NEW c \in Callers, NEW op \in Operations, Begin(c, op)
  PROVE  FlowInvariant'
  <1> DEFINE w == [op |-> op, capture |-> record.capture, id |-> record.id,
                   count |-> Segs, stale |-> FALSE]
  <1>1. PICK to \in {"calling", "restoring"} :
          pc' = [pc EXCEPT ![c] = to] /\ (op = "start" => to = "calling")
    BY DEF Begin
  <1>2. /\ work' = [work EXCEPT ![c] = w]
        /\ UNCHANGED <<record, storage, owner, live, reported, retaken>>
        /\ op = "start" => MayStart(record)
        /\ op # "start" => record.id # 0
        /\ op \in {"start", "resume"} => Segs < MaxNumber
    BY DEF Begin, backendVars, historyVars, Segs
  <1>3. Kinds /\ RecordShape /\ EntryShape
    BY DEF FlowInvariant
  <1>4. w \in Work
    BY RecordKnown DEF Work, Numbers
  <1>8. /\ w.op = op /\ w.capture = record.capture /\ w.id = record.id /\ w.count = Segs
        /\ w.stale = FALSE
    OBVIOUS
  <1> HIDE DEF w
  <1>5. Kinds'
    <2>1. pc' \in [Callers -> Stages] /\ work' \in [Callers -> Work]
      BY <1>1, <1>2, <1>3, <1>4 DEF Kinds, Stages
    <2> QED
      BY <1>2, <1>3, <2>1 DEF Kinds
  <1>6. pc'[c] = to /\ work'[c] = w
        /\ \A d \in Callers \ {c} : pc'[d] = pc[d] /\ work'[d] = work[d]
    BY <1>1, <1>2, <1>3 DEF Kinds
  <1>7. CallSound(c)'
    <2>1. /\ Op(c)' = op /\ Capture(c)' = record.capture /\ Last(c)' = Segs
          /\ work'[c].id = record.id /\ Segs' = Segs /\ (Showing' <=> Showing)
          /\ Begins(c)' <=> op \in {"start", "resume"}
      BY <1>2, <1>6, <1>8 DEF Op, Capture, Last, Segs, Showing, Begins
    <2>2. InBounds(c)' /\ ReadCurrent(c)'
      BY <1>2, <1>3, <2>1, RecordKnown DEF InBounds, ReadCurrent, RecordShape
    <2>3. OfStage(c)' /\ Retaking(c)' /\ FinalFirst(c)'
      <3>1. pc'[c] \in {"calling", "restoring"} /\ (op = "start" => pc'[c] = "calling")
        BY <1>1, <1>6
      <3>2. op = "start" => record.capture \in {"unavailable", "ready", "stopped"}
        BY <1>2 DEF MayStart
      <3> QED
        BY <2>1, <3>1, <3>2 DEF OfStage, Retaking, FinalFirst
    <2>4. ReadStands(c)' /\ NothingNext(c)'
      BY <2>1 DEF ReadStands, NothingNext, Showing
    <2> QED
      BY <2>2, <2>3, <2>4 DEF CallSound
  <1> QED
    BY <1>2, <1>3, <1>5, <1>6, <1>7, StepKeeps DEF NothingLost, Sealed, EntryShape

\* RestoreIdle, RecoverSegment and RestoreRecording.
LEMMA RestoreKeeps ==
  ASSUME FlowInvariant, NEW c \in Callers,
         RestoreIdle(c) \/ RecoverSegment(c) \/ RestoreRecording(c)
  PROVE  FlowInvariant'
  <1>1. PICK from \in {"restoring", "installing"}, to \in {"recovering", "calling"} :
          /\ pc[c] = from /\ pc' = [pc EXCEPT ![c] = to]
          /\ to = "recovering" => Capture(c) = "recording" /\ storage[Last(c)] = "partial"
    BY DEF RestoreIdle, RecoverSegment, RestoreRecording, Goto, Recoverable
  <1>2. UNCHANGED <<record, reported, retaken, work, storage, owner, live>>
    BY DEF RestoreIdle, RecoverSegment, RestoreRecording, backendVars, historyVars
  <1>3. Kinds /\ EntryShape /\ Under(c) /\ OfStage(c)
    BY <1>1, CallerKnown DEF FlowInvariant, Under
  <1>4. OfStage(c)' /\ Retaking(c)'
    BY <1>1, <1>2, <1>3 DEF OfStage, Retaking, Op, Capture, Last, Kinds
  <1>5. NothingLost /\ EntryShape' /\ to \in Stages
    BY <1>2, <1>3 DEF NothingLost, Sealed, EntryShape, Stages
  <1> QED
    BY <1>1, <1>2, <1>3, <1>4, <1>5, GoesOnKeeps DEF Kinds

\* A recovery enters what it has read of: if that is over, or another process's, it
\* is retaken.
LEMMA RecoveredKeeps ==
  ASSUME FlowInvariant, NEW c \in Callers, Recovered(c)
  PROVE  FlowInvariant'
  <1> DEFINE n == Last(c)
             new == <<P(c), n>>
  <1>1. /\ pc[c] = "recovering" /\ pc' = [pc EXCEPT ![c] = "installing"]
        /\ live' = live \cup {new}
        /\ retaken' = IF Overdue(P(c), n) THEN retaken \cup {n} ELSE retaken
        /\ UNCHANGED <<record, storage, owner, work, reported>>
    BY DEF Recovered, Goto
  <1>2. /\ Kinds /\ EntryShape /\ Under(c) /\ OfStage(c) /\ InBounds(c) /\ Retaking(c)
        /\ P(c) \in Processes
    BY <1>1, CallerKnown DEF FlowInvariant, Under
  <1>3. n \in Numbers /\ storage[n] # "none"
    BY <1>1, <1>2, CallerKnown DEF OfStage, InBounds, Retaking, Work, Last, Numbers
  <1>4. new[1] = P(c) /\ new[2] = n /\ new \in Processes \X Numbers
    BY <1>2, <1>3
  <1> HIDE DEF n, new
  <1>5. retaken \subseteq retaken' /\ retaken' \subseteq Numbers
    BY <1>1, <1>2, <1>3 DEF Kinds
  <1>6. storage[n] = "partial" \/ n \in retaken'
    BY <1>1 DEF Overdue
  <1>7. ASSUME NEW e \in live, e[2] = n
        PROVE  e = new \/ n \in retaken'
    <2>1. e = <<e[1], e[2]>>
      BY <1>2 DEF Kinds
    <2> QED
      BY <1>1, <1>7, <2>1 DEF Overdue, new
  <1>8. EntryShape'
    <2>1. \A e \in live' : e \in live \/ e = new
      BY <1>1
    <2>2. ASSUME NEW e \in live'
          PROVE  storage'[e[2]] # "none" /\ (storage'[e[2]] = "partial" \/ e[2] \in retaken')
      BY <1>1, <1>2, <1>3, <1>4, <1>5, <1>6, <2>1 DEF EntryShape
    <2>3. ASSUME NEW e \in live', NEW f \in live', e[2] = f[2]
          PROVE  e = f \/ e[2] \in retaken'
      BY <1>2, <1>4, <1>5, <1>7, <2>1, <2>3 DEF EntryShape
    <2> QED
      BY <2>2, <2>3 DEF EntryShape
  <1>9. NothingLost
    BY <1>1, <1>5 DEF NothingLost, Sealed
  <1>10. OfStage(c)' /\ Retaking(c)' /\ pc'[c] = "installing"
    BY <1>1, <1>2 DEF OfStage, Retaking, Op, Capture, Kinds
  <1>11. live' \subseteq Processes \X Numbers
    BY <1>1, <1>2, <1>4 DEF Kinds
  <1> QED
    BY <1>1, <1>2, <1>5, <1>8, <1>9, <1>10, <1>11, GoesOnKeeps DEF Kinds, Stages

\* Start, and Resume, which also enters the instance.
LEMMA StartKeeps ==
  ASSUME FlowInvariant, NEW c \in Callers, Start(c) \/ Resume(c)
  PROVE  FlowInvariant'
  <1>1. PICK to \in {"started", "persisting"} :
          /\ pc[c] = "calling" /\ pc' = [pc EXCEPT ![c] = to]
          /\ to = "started" => Op(c) = "start"
          /\ to = "persisting" => Op(c) = "resume" /\ Capture(c) = "paused"
    BY DEF Start, Resume, Goto, MayResumeInstance, MayResume
  <1>2. UNCHANGED <<record, reported, retaken, work>> /\ StartSegment(P(c), Number(c))
    BY DEF Start, Resume, historyVars
  <1>3. Kinds /\ Under(c) /\ OfStage(c) /\ Begins(c) /\ Capture(c) # "recording"
    BY <1>1, CallerKnown DEF FlowInvariant, Under, Begins, OfStage
  <1>4. /\ storage' \in [Numbers -> Contents] /\ live' \subseteq Processes \X Numbers
        /\ owner' \in [number : {0} \cup Numbers, process : Processes \cup {Nobody}]
        /\ NothingLost /\ EntryShape'
        /\ \A k \in Numbers : storage'[k] # "none" => storage[k] # "none" \/ Room(k)
    BY <1>2, <1>3, StartSegmentShape
  <1>5. OfStage(c)' /\ Retaking(c)'
    BY <1>1, <1>2, <1>3 DEF OfStage, Retaking, Op, Capture, Kinds
  <1>6. to = "persisting" /\ ~Begins(c) /\ Current(c) => FALSE
    BY <1>3
  <1>7. retaken' \subseteq Numbers /\ to \in Stages
    BY <1>1, <1>2, <1>3 DEF Kinds, Stages
  <1> QED
    BY <1>1, <1>2, <1>3, <1>4, <1>5, <1>6, <1>7, GoesOnKeeps

LEMMA StartedKeeps ==
  ASSUME FlowInvariant, NEW c \in Callers, Started(c)
  PROVE  FlowInvariant'
  <1>1. /\ pc[c] = "started" /\ pc' = [pc EXCEPT ![c] = "persisting"]
        /\ UNCHANGED <<record, reported, retaken, work, storage, owner, live>>
    BY DEF Started, Goto, backendVars, historyVars
  <1>2. Kinds /\ EntryShape /\ Under(c) /\ OfStage(c) /\ Op(c) = "start"
    BY <1>1, CallerKnown DEF FlowInvariant, Under, OfStage
  <1>3. /\ OfStage(c)' /\ Retaking(c)' /\ NothingLost /\ EntryShape' /\ Begins(c)
    BY <1>1, <1>2
    DEF OfStage, Retaking, Op, Capture, Kinds, NothingLost, Sealed, EntryShape, Begins
  <1> QED
    BY <1>1, <1>2, <1>3, GoesOnKeeps DEF Stages, Kinds

\* The last segment of a paused capture is sealed already.
LEMMA PausedIsSealed ==
  ASSUME FlowInvariant, NEW c \in Callers, Under(c), Current(c), Capture(c) = "paused",
         ~Begins(c)
  PROVE  Sealed(Last(c))
  <1>1. InBounds(c) /\ ReadCurrent(c) /\ work[c] \in Work /\ RecordShape /\ StorageShape
    BY CallerKnown DEF FlowInvariant
  <1>2. Last(c) = Segs /\ Segs > 0 /\ ~Showing
    BY <1>1 DEF InBounds, ReadCurrent, Begins, Showing
  <1>3. Segs \in DOMAIN record.segments /\ record.segments[Segs] \in {"recording", "stopped"}
    BY <1>2, RecordKnown DEF Segs
  <1>4. Segs \in With(record, "stopped")
    BY <1>1, <1>2, <1>3 DEF RecordShape, With
  <1> QED
    BY <1>1, <1>2, <1>4 DEF StorageShape

LEMMA EndKeeps ==
  ASSUME FlowInvariant, NEW c \in Callers, Pause(c) \/ Stop(c)
  PROVE  FlowInvariant'
  <1>1. /\ pc[c] = "calling" /\ pc' = [pc EXCEPT ![c] = "persisting"]
        /\ UNCHANGED <<record, reported, retaken, work>> /\ Op(c) \in {"pause", "stop"}
    BY DEF Pause, Stop, Goto, historyVars
  <1>2. \/ MayFinalize(c) /\ FinalizeSegment(P(c), Number(c))
        \/ MayStopPaused(c) /\ UNCHANGED backendVars
    BY DEF Pause, Stop
  <1>3. Kinds /\ EntryShape /\ Under(c) /\ OfStage(c) /\ ~Begins(c) /\ P(c) \in Processes
        /\ Number(c) = Last(c)
    BY <1>1, CallerKnown DEF FlowInvariant, Under, OfStage, Begins, Number
  <1>4. /\ storage' \in [Numbers -> Contents] /\ live' \subseteq Processes \X Numbers
        /\ owner' \in [number : {0} \cup Numbers, process : Processes \cup {Nobody}]
        /\ NothingLost /\ EntryShape'
        /\ \A k \in Numbers : storage'[k] # "none" => storage[k] # "none" \/ Room(k)
        /\ Current(c) => Sealed(Last(c))'
    <2>1. CASE MayFinalize(c) /\ FinalizeSegment(P(c), Number(c))
      <3>1. storage'[Last(c)] = "final" /\ Last(c)' = Last(c)
        BY <1>1, <1>3, <2>1, FinalizeShape DEF Last
      <3> QED
        BY <1>1, <1>3, <2>1, <3>1, FinalizeShape DEF Sealed
    <2>2. CASE MayStopPaused(c) /\ UNCHANGED backendVars
      <3>1. Capture(c) = "paused"
        BY <2>2 DEF MayStopPaused
      <3>2. UNCHANGED <<storage, owner, live>>
        BY <2>2 DEF backendVars
      <3>3. Current(c) => Sealed(Last(c))
        BY <1>3, <3>1, PausedIsSealed
      <3>4. Current(c) => Sealed(Last(c))'
        BY <1>1, <3>2, <3>3 DEF Sealed, Last
      <3>5. NothingLost /\ EntryShape'
        BY <1>1, <1>3, <3>2 DEF NothingLost, Sealed, EntryShape
      <3> QED
        BY <1>3, <3>2, <3>4, <3>5 DEF Kinds
    <2> QED
      BY <1>2, <2>1, <2>2
  <1>5. OfStage(c)' /\ Retaking(c)'
    <2>1. (Op(c) = "pause" => Capture(c) = "recording")
          /\ (Op(c) = "stop" => Capture(c) \in {"recording", "paused"})
      BY <1>1, <1>2 DEF MayFinalize, MayStopPaused, MayPause, MayStop
    <2> QED
      BY <1>1, <1>3, <2>1 DEF OfStage, Retaking, Op, Capture, Kinds
  <1>6. retaken' \subseteq Numbers
    BY <1>1, <1>3 DEF Kinds
  <1> QED
    BY <1>1, <1>3, <1>4, <1>5, <1>6, GoesOnKeeps DEF Stages

LEMMA BackendFailsKeeps ==
  ASSUME FlowInvariant, NEW c \in Callers, BackendFails(c)
  PROVE  FlowInvariant'
  <1>1. Under(c) /\ Return(c) /\ UNCHANGED <<record, reported, retaken>>
    BY DEF BackendFails, Under, historyVars
  <1>2. \/ /\ Begins(c) /\ Capture(c) # "recording"
           /\ StartSegmentFails(P(c), Number(c))
        \/ FinalizeSegmentFails(P(c), Number(c))
    <2>1. Op(c) = "start" => Capture(c) # "recording"
      BY <1>1, CallerKnown DEF OfStage
    <2> QED
      BY <2>1 DEF BackendFails, MayResumeInstance, MayResume, Begins
  <1>3. /\ storage' \in [Numbers -> Contents] /\ live' \subseteq Processes \X Numbers
        /\ owner' \in [number : {0} \cup Numbers, process : Processes \cup {Nobody}]
        /\ NothingLost /\ EntryShape'
        /\ \A k \in Numbers : storage'[k] # "none" => storage[k] # "none" \/ Room(k)
    BY <1>1, <1>2, CallerKnown, StartSegmentShape, FinalizeShape
  <1> QED
    BY <1>1, <1>3, ReturnKeeps

LEMMA GivesUpKeeps ==
  ASSUME FlowInvariant, NEW c \in Callers, StopAgain(c) \/ Refuse(c)
  PROVE  FlowInvariant'
  <1>1. Return(c) /\ UNCHANGED <<record, reported, retaken, storage, owner, live>>
    BY DEF StopAgain, Refuse, backendVars, historyVars
  <1>2. NothingLost /\ EntryShape'
    BY <1>1 DEF FlowInvariant, NothingLost, Sealed, EntryShape
  <1> QED
    BY <1>1, <1>2, ReturnKeeps DEF FlowInvariant, Kinds

LEMMA NumberKnown ==
  ASSUME FlowInvariant, NEW c \in Callers, Under(c)
  PROVE  Number(c) \in Numbers
  <1>1. InBounds(c) /\ work[c] \in Work
    BY CallerKnown
  <1> QED
    BY <1>1, FlowAssumption
    DEF InBounds, Work, Op, Last, Number, Begins, Numbers, FlowAssumption, Operations

LEMMA PersistKeeps ==
  ASSUME FlowInvariant, NEW c \in Callers, Persist(c) \/ PersistUncertain(c)
  PROVE  FlowInvariant'
  <1>1. /\ Goto(c, "persisting", "idle") /\ UNCHANGED backendVars /\ UNCHANGED retaken
        /\ Under(c)
    BY DEF Persist, PersistUncertain, Goto, Under, historyVars
  <1>2. reported' \subseteq Numbers
    BY <1>1, NumberKnown DEF Persist, PersistUncertain, historyVars, FlowInvariant, Kinds
  <1>3. CASE Current(c) /\ Acceptable(Mapped(c))
             /\ Write(Mapped(c), [work EXCEPT ![c] = NoWork])
    BY <1>1, <1>2, <1>3, ReplaceKeeps
  <1>4. CASE UNCHANGED record /\ work' = [work EXCEPT ![c] = NoWork]
    <2>1. /\ Kinds /\ EntryShape /\ pc' = [pc EXCEPT ![c] = "idle"]
          /\ UNCHANGED <<storage, owner, live, retaken>>
      BY <1>1 DEF FlowInvariant, Goto, backendVars
    <2>2. Kinds'
      BY <1>2, <1>4, <2>1, NoWorkKnown DEF Kinds, Stages
    <2>3. pc'[c] = "idle" /\ \A d \in Callers \ {c} : pc'[d] = pc[d] /\ work'[d] = work[d]
      BY <1>4, <2>1 DEF Kinds
    <2> QED
      BY <1>4, <2>1, <2>2, <2>3, IdleSound, StepKeeps DEF NothingLost, Sealed, EntryShape
  <1> QED
    BY <1>3, <1>4 DEF Persist, PersistUncertain

\* What an abort does to the directory: only what is retaken loses its manifest.
LEMMA AbortShape ==
  ASSUME FlowInvariant, NEW p \in Processes, NEW id \in DOMAIN instances[p], Abort(p, id)
  PROVE  /\ storage' \in [Numbers -> Contents] /\ NothingLost /\ EntryShape'
         /\ \A k \in Numbers : storage'[k] # "none" => storage[k] # "none"
         /\ \A k \in Numbers : storage'[k] = "partial" => storage[k] = "partial"
  <1> DEFINE n == instances[p][id].active
  <1>1. /\ <<p, n>> \in live /\ live' \subseteq live /\ UNCHANGED retaken
        /\ storage' = storage \/ storage' = [storage EXCEPT ![n] = Failed(@)]
    BY DEF Abort, historyVars
  <1>2. Kinds /\ EntryShape /\ n \in Numbers
    BY <1>1 DEF FlowInvariant, Kinds
  <1> HIDE DEF n
  <1>3. storage[n] # "none" /\ (storage[n] = "partial" \/ n \in retaken)
    BY <1>1, <1>2 DEF EntryShape
  <1>4. /\ \A k \in Numbers \ {n} : storage'[k] = storage[k]
        /\ storage'[n] = storage[n] \/ (storage'[n] = "audio" /\ n \in retaken)
        /\ storage' \in [Numbers -> Contents]
    BY <1>1, <1>2, <1>3 DEF Kinds, Contents, Failed
  <1>5. EntryShape'
    <2>1. \A e \in live : e[2] \in Numbers
      BY <1>2 DEF Kinds
    <2> QED
      BY <1>1, <1>2, <1>4, <2>1 DEF EntryShape
  <1> QED
    BY <1>1, <1>3, <1>4, <1>5 DEF NothingLost, Sealed

\* The steps of no call: those of a process.
LEMMA ProcessKeeps ==
  ASSUME FlowInvariant, NEW p \in Processes,
         Close(p) \/ (\E id \in DOMAIN instances[p] : Abort(p, id)) \/ Kill(p)
  PROVE  FlowInvariant'
  <1>1. /\ UNCHANGED <<record, retaken>> /\ live' \subseteq live /\ reported' \subseteq reported
        /\ owner' \in {owner, Unowned, [owner EXCEPT !.process = Nobody]}
    BY DEF Close, Abort, Kill, backendVars, historyVars
  <1>2. \A c \in Callers : \/ pc'[c] = pc[c] /\ work'[c] = work[c]
                           \/ pc'[c] = "idle" /\ work'[c] = NoWork
    BY DEF Close, Abort, Kill
  <1>3. \/ pc' = pc /\ work' = work
        \/ /\ pc' = [c \in Callers |-> pc'[c]]
           /\ work' = [c \in Callers |-> work'[c]]
    BY DEF Close, Abort, Kill
  <1>8. /\ storage' \in [Numbers -> Contents] /\ NothingLost /\ EntryShape'
        /\ \A k \in Numbers : storage'[k] # "none" => storage[k] # "none"
    <2>1. CASE \E id \in DOMAIN instances[p] : Abort(p, id)
      BY <2>1, AbortShape
    <2>2. CASE UNCHANGED storage
      BY <1>1, <2>2 DEF FlowInvariant, Kinds, NothingLost, Sealed, EntryShape
    <2> QED
      BY <2>1, <2>2 DEF Close, Kill, backendVars
  <1>4. Kinds'
    <2>1. Kinds
      BY DEF FlowInvariant
    <2>2. pc' \in [Callers -> Stages] /\ work' \in [Callers -> Work]
      BY <1>2, <1>3, <2>1, NoWorkKnown DEF Kinds, Stages
    <2>3. owner' \in [number : {0} \cup Numbers, process : Processes \cup {Nobody}]
      BY <1>1, <2>1 DEF Kinds, Unowned
    <2> QED
      BY <1>1, <1>8, <2>1, <2>2, <2>3 DEF Kinds
  <1>5. Segs' = Segs /\ (Showing' <=> Showing)
    BY <1>1 DEF Segs, Showing
  <1>6. RecordShape' /\ StorageShape'
    <2>1. \A n \in With(record, "stopped") : n \in Numbers
      BY RecordKnown DEF With, Numbers
    <2>2. RecordShape'
      BY <1>1, <1>5 DEF FlowInvariant, RecordShape
    <2>3. StorageShape'
      BY <1>1, <1>5, <1>8, <2>1 DEF FlowInvariant, StorageShape, NothingLost, Sealed, With
    <2> QED
      BY <2>2, <2>3
  <1>7. ASSUME NEW c \in Callers
        PROVE  CallSound(c)'
    BY <1>1, <1>2, <1>8, IdleSound, SoundStays DEF Under
  <1> QED
    BY <1>4, <1>6, <1>7, <1>8 DEF FlowInvariant

LEMMA FlowStep == FlowInvariant /\ [Next]_vars => FlowInvariant'
  <1> SUFFICES ASSUME FlowInvariant, [Next]_vars
               PROVE  FlowInvariant'
    OBVIOUS
  <1>1. CASE UNCHANGED vars
    BY <1>1 DEF vars, backendVars, historyVars, FlowInvariant, Kinds, RecordShape,
                StorageShape, EntryShape, Sealed, Segs, Showing, With, CallSound, Under,
                InBounds, ReadCurrent, OfStage, Retaking, FinalFirst, ReadStands,
                NothingNext, Begins, Op, Last, Capture, Current
  <1>2. ASSUME NEW c \in Callers, NEW op \in Operations, Begin(c, op)
        PROVE  FlowInvariant'
    BY <1>2, BeginKeeps
  <1>3. ASSUME NEW c \in Callers,
               \/ RestoreIdle(c) \/ RecoverSegment(c) \/ Recovered(c) \/ RestoreRecording(c)
               \/ Start(c) \/ Started(c) \/ Resume(c) \/ Pause(c) \/ Stop(c)
               \/ BackendFails(c) \/ StopAgain(c) \/ Refuse(c)
               \/ Persist(c) \/ PersistUncertain(c)
        PROVE  FlowInvariant'
    BY <1>3, RestoreKeeps, RecoveredKeeps, StartKeeps, StartedKeeps, EndKeeps,
       BackendFailsKeeps, GivesUpKeeps, PersistKeeps
  <1>4. ASSUME NEW to \in SessionStatuses, TransitionSession(to)
        PROVE  FlowInvariant'
    BY <1>4, TransitionKeeps
  <1>5. ASSUME NEW n \in Numbers, Transcribe(n)
        PROVE  FlowInvariant'
    BY <1>5, TranscribeKeeps
  <1>6. ASSUME NEW p \in Processes,
               Close(p) \/ (\E id \in DOMAIN instances[p] : Abort(p, id)) \/ Kill(p)
        PROVE  FlowInvariant'
    BY <1>6, ProcessKeeps
  <1> QED
    BY <1>1, <1>2, <1>3, <1>4, <1>5, <1>6 DEF Next

\* In any processes: a segment is entered as stopped only after its audio and its
\* manifest are there; nothing takes the audio away, and the manifest only an abort
\* of a recording that was recovered too late; a segment entered as recording is the
\* last, and the capture is recording, whoever else moves the record.
THEOREM StoppedSegmentsAreFinal == Spec => []StoppedIsFinal
  <1>1. Init => FlowInvariant
    BY FlowInit
  <1>2. FlowInvariant => StoppedIsFinal
    <2> SUFFICES ASSUME FlowInvariant
                 PROVE  StoppedIsFinal
      OBVIOUS
    <2> QED
      BY DEF FlowInvariant, RecordShape, StorageShape, Sealed, StoppedIsFinal, Showing, Segs,
             With
  <1> QED
    BY <1>1, <1>2, FlowStep, PTL DEF Spec

-----------------------------------------------------------------------------
(* What is being recorded.                                                 *)

LEMMA LiveShrinks ==
  ASSUME LiveAccounted, UNCHANGED record, live' \subseteq live,
         \A e \in live' : /\ storage'[e[2]] = "partial" => storage[e[2]] = "partial"
                          /\ e[2] \in reported => e[2] \in reported',
         \A c \in Callers : \A e \in live' : Began(c, e) => Began(c, e)'
  PROVE  LiveAccounted'
  <1>1. Segs' = Segs /\ (Showing' <=> Showing)
    BY DEF Segs, Showing
  <1> SUFFICES ASSUME NEW e \in live', storage'[e[2]] = "partial"
               PROVE  \/ Showing' /\ e[2] = Segs'
                      \/ e[2] \in reported'
                      \/ \E c \in Callers : Began(c, e)'
    BY DEF LiveAccounted
  <1>2. \/ Showing /\ e[2] = Segs
        \/ e[2] \in reported
        \/ \E c \in Callers : Began(c, e)
    BY DEF LiveAccounted
  <1> QED
    BY <1>1, <1>2

\* A call that is not about to answer for a recording, or goes on to be, moves.
LEMMA BeganStays ==
  ASSUME NEW c \in Callers,
         \A d \in Callers \ {c} : pc'[d] = pc[d] /\ work'[d] = work[d],
         \/ pc[c] \notin {"started", "persisting"}
         \/ pc'[c] = "persisting" /\ work'[c] = work[c]
  PROVE  \A d \in Callers, e \in live : Began(d, e) => Began(d, e)'
  BY DEF Began, Begins, Op, Number, Last

LEMMA OthersStay ==
  ASSUME FlowInvariant, NEW c \in Callers,
         \/ Return(c)
         \/ UNCHANGED work /\ \E to \in Stages : pc' = [pc EXCEPT ![c] = to]
  PROVE  \A d \in Callers \ {c} : pc'[d] = pc[d] /\ work'[d] = work[d]
  BY DEF FlowInvariant, Kinds, Return

LEMMA LiveBegin ==
  ASSUME FlowInvariant, LiveAccounted, NEW c \in Callers, NEW op \in Operations, Begin(c, op)
  PROVE  LiveAccounted'
  <1>1. /\ pc[c] = "idle" /\ UNCHANGED <<record, storage, live, reported>>
        /\ \A d \in Callers \ {c} : pc'[d] = pc[d] /\ work'[d] = work[d]
    <2>1. Kinds
      BY DEF FlowInvariant
    <2> QED
      BY <2>1 DEF Kinds, Begin, backendVars, historyVars
  <1> QED
    BY <1>1, BeganStays, LiveShrinks

\* RestoreIdle, RecoverSegment, RestoreRecording, Started, StopAgain, Refuse.
LEMMA LiveGoesOn ==
  ASSUME FlowInvariant, LiveAccounted, NEW c \in Callers,
         \/ RestoreIdle(c) \/ RecoverSegment(c) \/ RestoreRecording(c) \/ Started(c)
         \/ StopAgain(c) \/ Refuse(c)
  PROVE  LiveAccounted'
  <1>1. UNCHANGED <<record, storage, live, reported>>
    BY DEF RestoreIdle, RecoverSegment, RestoreRecording, Started, StopAgain, Refuse,
           backendVars, historyVars
  <1>2. \/ Return(c)
        \/ UNCHANGED work /\ \E to \in Stages : pc' = [pc EXCEPT ![c] = to]
    BY DEF RestoreIdle, RecoverSegment, RestoreRecording, Started, StopAgain, Refuse, Goto,
           Stages
  <1>3. \/ pc[c] \notin {"started", "persisting"}
        \/ pc' = [pc EXCEPT ![c] = "persisting"] /\ UNCHANGED work
    BY DEF RestoreIdle, RecoverSegment, RestoreRecording, Started, StopAgain, Refuse, Goto
  <1>4. \/ pc[c] \notin {"started", "persisting"}
        \/ pc'[c] = "persisting" /\ work'[c] = work[c]
    BY <1>3 DEF FlowInvariant, Kinds
  <1> QED
    BY <1>1, <1>2, <1>4, OthersStay, BeganStays, LiveShrinks

\* A recording that is taken over is the one the record shows, unless it is over.
LEMMA LiveRecover ==
  ASSUME FlowInvariant, LiveAccounted, NEW c \in Callers, Recovered(c)
  PROVE  LiveAccounted'
  <1> DEFINE new == <<P(c), Last(c)>>
  <1>1. /\ pc[c] = "recovering" /\ pc' = [pc EXCEPT ![c] = "installing"]
        /\ live' = live \cup {new} /\ UNCHANGED <<storage, record, work, reported>>
    BY DEF Recovered, Goto
  <1>2. storage[Last(c)] = "partial" => Showing /\ Last(c) = Segs
    BY <1>1, CallerKnown DEF Under, Retaking, ReadStands, Sealed
  <1>3. Segs' = Segs /\ (Showing' <=> Showing) /\ new[2] = Last(c)
    BY <1>1 DEF Segs, Showing
  <1>5. ASSUME NEW e \in live, NEW d \in Callers, Began(d, e)
        PROVE  Began(d, e)'
    BY <1>1, <1>5 DEF Began, Begins, Op, Number, Last, FlowInvariant, Kinds
  <1>6. ASSUME NEW e \in live', storage'[e[2]] = "partial"
        PROVE  \/ Showing' /\ e[2] = Segs'
               \/ e[2] \in reported'
               \/ \E d \in Callers : Began(d, e)'
    <2>1. CASE e = new
      BY <1>1, <1>2, <1>3, <1>6, <2>1
    <2>2. CASE e \in live
      BY <1>1, <1>3, <1>5, <1>6, <2>2 DEF LiveAccounted
    <2> QED
      BY <1>1, <2>1, <2>2
  <1> QED
    BY <1>6 DEF LiveAccounted

\* What is in a table is not lost, and its number is not begun again.
LEMMA EntriesKept ==
  ASSUME FlowInvariant, NEW p, NEW n \in Numbers,
         \/ StartSegment(p, n) \/ StartSegmentFails(p, n)
         \/ FinalizeSegment(p, n) \/ FinalizeSegmentFails(p, n)
  PROVE  \A e \in live : storage'[e[2]] = "partial" => storage[e[2]] = "partial"
  <1>1. Kinds /\ EntryShape
    BY DEF FlowInvariant
  <1>2. \A e \in live : e[2] \in Numbers /\ storage[e[2]] # "none"
    BY <1>1 DEF Kinds, EntryShape
  <1>3. \/ storage' = storage
        \/ /\ storage[n] = "none"
           /\ \E content \in Contents : storage' = [storage EXCEPT ![n] = content]
        \/ \E content \in {"audio", "final"} : storage' = [storage EXCEPT ![n] = content]
    BY DEF StartSegment, StartSegmentFails, Free, FinalizeSegment, FinalizeSegmentFails,
           Installed, Contents
  <1> QED
    BY <1>1, <1>2, <1>3 DEF Kinds

\* A recording begins, and its call answers for it.
LEMMA LiveStart ==
  ASSUME FlowInvariant, LiveAccounted, NEW c \in Callers, Start(c) \/ Resume(c)
  PROVE  LiveAccounted'
  <1> DEFINE new == <<P(c), Number(c)>>
  <1>1. /\ StartSegment(P(c), Number(c)) /\ UNCHANGED <<record, work, reported>> /\ Begins(c)
        /\ pc[c] = "calling"
        /\ \E to \in {"started", "persisting"} : pc' = [pc EXCEPT ![c] = to]
    BY DEF Start, Resume, Goto, Begins, MayResumeInstance, MayResume, historyVars
  <1>2. live' = live \cup {new}
    BY <1>1 DEF StartSegment
  <1>3. Number(c) \in Numbers
    BY <1>1, NumberKnown DEF Under
  <1>4. ASSUME NEW e \in {new}
        PROVE  Began(c, e)'
    BY <1>1 DEF Began, Begins, Op, Number, Last, P, FlowInvariant, Kinds
  <1>5. ASSUME NEW e \in live, NEW d \in Callers, Began(d, e)
        PROVE  Began(d, e)'
    BY <1>1, <1>5 DEF Began, Begins, Op, Number, Last, FlowInvariant, Kinds
  <1>6. \A e \in live : storage'[e[2]] = "partial" => storage[e[2]] = "partial"
    BY <1>1, <1>3, EntriesKept
  <1>7. Segs' = Segs /\ (Showing' <=> Showing)
    BY <1>1 DEF Segs, Showing
  <1> HIDE DEF new
  <1>8. ASSUME NEW e \in live', storage'[e[2]] = "partial"
        PROVE  \/ Showing' /\ e[2] = Segs'
               \/ e[2] \in reported'
               \/ \E d \in Callers : Began(d, e)'
    <2>1. CASE e = new
      BY <1>4, <2>1
    <2>2. CASE e \in live
      BY <1>1, <1>5, <1>6, <1>7, <1>8, <2>2 DEF LiveAccounted
    <2> QED
      BY <1>2, <2>1, <2>2
  <1> QED
    BY <1>8 DEF LiveAccounted

\* Pause, Stop, and a recorder that refuses or fails.
LEMMA LiveEnd ==
  ASSUME FlowInvariant, LiveAccounted, NEW c \in Callers,
         Pause(c) \/ Stop(c) \/ BackendFails(c)
  PROVE  LiveAccounted'
  <1>1. pc[c] = "calling" /\ UNCHANGED <<record, reported>>
    BY DEF Pause, Stop, BackendFails, Goto, historyVars
  <1>2. \/ Return(c)
        \/ UNCHANGED work /\ \E to \in Stages : pc' = [pc EXCEPT ![c] = to]
    BY DEF Pause, Stop, BackendFails, Goto, Stages
  <1>3. Number(c) \in Numbers
    BY <1>1, NumberKnown DEF Under
  <1>4. \/ FinalizeSegment(P(c), Number(c)) \/ FinalizeSegmentFails(P(c), Number(c))
        \/ StartSegmentFails(P(c), Number(c)) \/ UNCHANGED backendVars
    BY DEF Pause, Stop, BackendFails
  <1>5. live' \subseteq live
    BY <1>4 DEF FinalizeSegment, FinalizeSegmentFails, StartSegmentFails, backendVars
  <1>6. \A e \in live : storage'[e[2]] = "partial" => storage[e[2]] = "partial"
    BY <1>3, <1>4, EntriesKept DEF backendVars
  <1> QED
    BY <1>1, <1>2, <1>5, <1>6, OthersStay, BeganStays, LiveShrinks

\* The record is replaced by the call or not; not, it has been reported.
LEMMA LivePersist ==
  ASSUME FlowInvariant, LiveAccounted, NEW c \in Callers, Persist(c) \/ PersistUncertain(c)
  PROVE  LiveAccounted'
  <1>1. /\ pc[c] = "persisting" /\ pc' = [pc EXCEPT ![c] = "idle"]
        /\ UNCHANGED <<storage, owner, live, retaken>> /\ reported \subseteq reported'
        /\ Kinds /\ Under(c)
    BY DEF Persist, PersistUncertain, Goto, backendVars, historyVars, FlowInvariant, Under
  <1>3. CASE UNCHANGED record /\ work' = [work EXCEPT ![c] = NoWork] /\ Number(c) \in reported'
    <2>1. \A d \in Callers \ {c} : pc'[d] = pc[d] /\ work'[d] = work[d]
      BY <1>1, <1>3 DEF Kinds
    <2>2. ASSUME NEW e \in live, NEW d \in Callers, Began(d, e)
          PROVE  Began(d, e)' \/ e[2] \in reported'
      BY <1>3, <2>1, <2>2 DEF Began, Begins, Op, Number, Last
    <2> QED
      BY <1>1, <1>3, <2>2 DEF LiveAccounted, Segs, Showing
  <1>4. CASE /\ Current(c) /\ Acceptable(Mapped(c))
             /\ Write(Mapped(c), [work EXCEPT ![c] = NoWork])
    <2>1. /\ Goto(c, "persisting", "idle") /\ UNCHANGED backendVars
          /\ UNCHANGED retaken /\ reported' \subseteq Numbers
      BY NumberKnown, <1>1 DEF Persist, PersistUncertain, historyVars, Kinds
    <2>2. \/ Begins(c) /\ Showing' /\ Segs' = Number(c)
          \/ ~Begins(c) /\ Sealed(Number(c)) /\ Number(c) = Segs
      BY <1>4, <2>1, ReplaceKeeps
    <2>3. Begins(c) => ~Showing
      BY <1>1, <1>4, CallerKnown DEF ReadCurrent, OfStage, Begins, Showing
    <2>4. ASSUME NEW d \in Callers \ {c}, Under(d)
          PROVE  work'[d] = [work[d] EXCEPT !.stale = TRUE] /\ pc'[d] = pc[d]
      <3>1. [work EXCEPT ![c] = NoWork][d] = work[d] /\ pc'[d] = pc[d]
        BY <1>1 DEF Kinds
      <3> QED
        BY <1>4, <2>4, <3>1 DEF Write, Moved, Under
    <2>5. ASSUME NEW e \in live, NEW d \in Callers \ {c}, Began(d, e)
          PROVE  Began(d, e)'
      <3>1. work[d] \in Work /\ Under(d)
        BY <1>1, <2>5 DEF Kinds, Began, Under
      <3>2. Op(d)' = Op(d) /\ Last(d)' = Last(d) /\ pc'[d] = pc[d]
        BY <2>4, <3>1 DEF Work, Op, Last
      <3> QED
        BY <2>5, <3>2 DEF Began, Begins, Number
    <2>6. ASSUME NEW e \in live, Began(c, e)
          PROVE  Showing' /\ e[2] = Segs'
      BY <2>2, <2>6 DEF Began
    <2>7. ASSUME NEW e \in live, storage[e[2]] = "partial", Showing /\ e[2] = Segs
          PROVE  FALSE
      BY <2>2, <2>3, <2>7 DEF Sealed
    <2> QED
      BY <1>1, <2>5, <2>6, <2>7 DEF LiveAccounted
  <1> QED
    BY <1>3, <1>4 DEF Persist, PersistUncertain

\* The other writers of the record change neither segments nor recordings.
LEMMA LiveOtherWriter ==
  ASSUME FlowInvariant, LiveAccounted,
         \/ \E to \in SessionStatuses : TransitionSession(to)
         \/ \E n \in Numbers : Transcribe(n)
  PROVE  LiveAccounted'
  <1>1. UNCHANGED <<storage, owner, live, reported, pc>> /\ Kinds
    BY DEF TransitionSession, Transcribe, backendVars, historyVars, FlowInvariant
  <1>2. work' = Moved(work)
    BY DEF TransitionSession, Transcribe, Write
  <1>3. Showing => Showing' /\ Segs' = Segs
    <2>1. CASE \E to \in SessionStatuses : TransitionSession(to)
      BY <2>1 DEF TransitionSession, ActiveCaptureStatuses, Showing
    <2>2. ASSUME NEW n \in Numbers, Transcribe(n)
          PROVE  Showing' = Showing /\ Segs' = Segs
      <3> DEFINE next == [record EXCEPT !.transcribed = @ \cup {n}]
                 r == [next EXCEPT !.aggregate = Derived(next)]
      <3>1. record' = r /\ record \in Records
        BY <1>1, <2>2 DEF Transcribe, Write, Kinds
      <3>2. r.capture = record.capture /\ r.segments = record.segments
        BY <3>1 DEF Records
      <3> HIDE DEF r
      <3> QED
        BY <3>1, <3>2 DEF Showing, Segs
    <2> QED
      BY <2>1, <2>2
  <1>4. ASSUME NEW e \in live, NEW d \in Callers, Began(d, e)
        PROVE  Began(d, e)'
    <2>1. work'[d] = [work[d] EXCEPT !.stale = pc'[d] # "idle"] /\ work[d] \in Work
      BY <1>1, <1>2 DEF Moved, Kinds
    <2>2. Op(d)' = Op(d) /\ Last(d)' = Last(d)
      BY <2>1 DEF Op, Last, Work
    <2> QED
      BY <1>1, <1>4, <2>2 DEF Began, Begins, Number
  <1> QED
    BY <1>1, <1>3, <1>4 DEF LiveAccounted

\* An abort ends a recording; the end of a process ends its recordings, and leaves
\* the others and what was reported of them.
LEMMA LiveProcess ==
  ASSUME FlowInvariant, LiveAccounted, NEW p \in Processes,
         Close(p) \/ (\E id \in DOMAIN instances[p] : Abort(p, id)) \/ Kill(p)
  PROVE  LiveAccounted'
  <1>1. CASE Close(p)
    BY <1>1, LiveShrinks
    DEF Close, backendVars, historyVars, Began, Begins, Op, Number, Last
  <1>2. ASSUME NEW id \in DOMAIN instances[p], Abort(p, id)
        PROVE  LiveAccounted'
    <2>1. live' \subseteq live /\ UNCHANGED <<record, pc, work, reported>>
      BY <1>2 DEF Abort, historyVars
    <2>2. \A e \in live : e[2] \in Numbers
      BY DEF FlowInvariant, Kinds
    <2>3. \A e \in live' : storage'[e[2]] = "partial" => storage[e[2]] = "partial"
      BY <1>2, <2>1, <2>2, AbortShape
    <2>4. \A d \in Callers, e \in live : Began(d, e) => Began(d, e)'
      BY <2>1 DEF Began, Begins, Op, Number, Last
    <2> QED
      BY <2>1, <2>3, <2>4, LiveShrinks
  <1>3. CASE Kill(p)
    <2>1. /\ live' \subseteq live /\ UNCHANGED <<record, storage>>
          /\ \A e \in live' : e[1] # p
          /\ \A e \in live' : e[2] \in reported => e[2] \in reported'
      BY <1>3 DEF Kill
    <2>2. \A d \in Callers : P(d) # p => pc'[d] = pc[d] /\ work'[d] = work[d]
      BY <1>3 DEF Kill
    <2>3. \A d \in Callers, e \in live' : Began(d, e) => Began(d, e)'
      BY <2>1, <2>2 DEF Began, Begins, Op, Number, Last, P
    <2> QED
      BY <2>1, <2>3, LiveShrinks
  <1> QED
    BY <1>1, <1>2, <1>3

LEMMA LiveStep == FlowInvariant /\ LiveAccounted /\ [Next]_vars => LiveAccounted'
  <1> SUFFICES ASSUME FlowInvariant, LiveAccounted, [Next]_vars
               PROVE  LiveAccounted'
    OBVIOUS
  <1>1. CASE UNCHANGED vars
    BY <1>1 DEF vars, backendVars, historyVars, LiveAccounted, Showing, Segs,
                Began, Begins, Op, Number, Last
  <1>2. ASSUME NEW c \in Callers,
               \/ \E op \in Operations : Begin(c, op)
               \/ RestoreIdle(c) \/ RecoverSegment(c) \/ Recovered(c) \/ RestoreRecording(c)
               \/ Start(c) \/ Started(c) \/ Resume(c) \/ Pause(c) \/ Stop(c)
               \/ BackendFails(c) \/ StopAgain(c) \/ Refuse(c)
               \/ Persist(c) \/ PersistUncertain(c)
        PROVE  LiveAccounted'
    BY <1>2, LiveBegin, LiveGoesOn, LiveRecover, LiveStart, LiveEnd, LivePersist
  <1>3. CASE \/ \E to \in SessionStatuses : TransitionSession(to)
             \/ \E n \in Numbers : Transcribe(n)
    BY <1>3, LiveOtherWriter
  <1>4. ASSUME NEW p \in Processes,
               Close(p) \/ (\E id \in DOMAIN instances[p] : Abort(p, id)) \/ Kill(p)
        PROVE  LiveAccounted'
    BY <1>4, LiveProcess
  <1> QED
    BY <1>1, <1>2, <1>3, <1>4 DEF Next

\* In any processes: whatever is being recorded, through failed updates, writers in
\* between, late recoveries, shutdowns and kills, is the segment the record shows as
\* recording, or a call about it has not returned, or its caller was told that the
\* record may not show it; and what a recorder still has of a recording that is over
\* comes from a late recovery.
THEOREM RecordingIsKnown == Spec => []LiveRecordingKnown
  <1>1. Init => FlowInvariant /\ LiveAccounted
    BY FlowInit
  <1>2. FlowInvariant /\ LiveAccounted /\ [Next]_vars => FlowInvariant' /\ LiveAccounted'
    BY FlowStep, LiveStep
  <1>3. FlowInvariant /\ LiveAccounted => LiveRecordingKnown
    <2> SUFFICES ASSUME FlowInvariant, LiveAccounted, NEW e \in live
                 PROVE  IF storage[e[2]] = "partial"
                        THEN \/ /\ record.capture = "recording" /\ e[2] = Len(record.segments)
                                /\ record.session \in {"active", "interrupted"}
                             \/ e[2] \in reported
                             \/ \E c \in Callers :
                                  pc[c] # "idle" /\ P(c) = e[1] /\ Number(c) = e[2]
                        ELSE e[2] \in retaken
      BY DEF LiveRecordingKnown
    <2>1. ASSUME Showing /\ e[2] = Segs
          PROVE  /\ record.capture = "recording" /\ e[2] = Len(record.segments)
                 /\ record.session \in {"active", "interrupted"}
      BY <2>1 DEF FlowInvariant, RecordShape, Showing, Segs
    <2>2. ASSUME NEW c \in Callers, Began(c, e)
          PROVE  pc[c] # "idle" /\ P(c) = e[1] /\ Number(c) = e[2]
      BY <2>2 DEF Began
    <2>3. CASE storage[e[2]] = "partial"
      BY <2>1, <2>2, <2>3 DEF LiveAccounted
    <2>4. CASE storage[e[2]] # "partial"
      BY <2>4 DEF FlowInvariant, EntryShape
    <2> QED
      BY <2>3, <2>4
  <1> QED
    BY <1>1, <1>2, <1>3, PTL DEF Spec

-----------------------------------------------------------------------------
(* What InspectCapture shows.                                              *)

\* The issues that tell the record and the directory apart.
LEMMA NoIssues ==
  ASSUME NEW p, Issues(p) = {}
  PROVE  /\ Having("audio") = {}
         /\ Having("partial") # {} => ExpectedActive(p)
         /\ With(record, "stopped") \subseteq Having("final")
         /\ Having("final") \subseteq DOMAIN record.segments
         /\ Showing => (\E i \in Shown(p) : i.active # 0) \/ Having("partial") # {}
  <1>1. ASSUME Having("audio") # {}
        PROVE  "missing_or_malformed_manifest" \in Issues(p)
    BY <1>1 DEF Issues
  <1>2. ASSUME Having("partial") # {}, ~ExpectedActive(p)
        PROVE  "partial_audio" \in Issues(p)
    BY <1>2 DEF Issues
  <1>3. ASSUME ~(With(record, "stopped") \subseteq Having("final"))
        PROVE  "runtime_segment_missing_from_backend" \in Issues(p)
    BY <1>3 DEF Issues
  <1>4. ASSUME ~(Having("final") \subseteq DOMAIN record.segments)
        PROVE  "backend_segment_missing_from_runtime" \in Issues(p)
    BY <1>4 DEF Issues
  <1>5. ASSUME Showing, \A i \in Shown(p) : i.active = 0, Having("partial") = {}
        PROVE  "runtime_active_segment_missing" \in Issues(p)
    BY <1>5 DEF Issues, Showing
  <1> QED
    BY <1>1, <1>2, <1>3, <1>4, <1>5

LEMMA ShownInTime ==
  ASSUME FlowInvariant, NEW p \in Processes, Issues(p) = {}, ~Ghost(p)
  PROVE  ~Differs
  <1>1. /\ Having("audio") = {}
        /\ Having("partial") # {} => ExpectedActive(p)
        /\ With(record, "stopped") \subseteq Having("final")
        /\ Having("final") \subseteq DOMAIN record.segments
        /\ Showing => (\E i \in Shown(p) : i.active # 0) \/ Having("partial") # {}
    BY NoIssues
  <1>2. RecordShape /\ StorageShape
    BY DEF FlowInvariant
  <1>3. /\ \A q \in Processes : Recorded(q) \subseteq Having("partial")
        /\ \A i \in Shown(p) : i.active \in {0} \cup Recorded(p)
    BY DEF Recorded, Ghost, Shown
  <1>4. Showing => Having("partial") # {}
    BY <1>1, <1>3
  <1>5. Having("partial") # {} => Showing /\ Segs \in Recorded(p)
    <2> SUFFICES ASSUME ExpectedActive(p)
                 PROVE  Showing /\ Segs \in Recorded(p)
      BY <1>1
    <2>1. PICK i \in Shown(p) : i.active = Segs /\ i.active \in Having("partial")
      BY DEF ExpectedActive, Segs
    <2>2. i.active # 0
      BY <2>1 DEF Having, Numbers
    <2> QED
      BY <1>3, <2>1, <2>2 DEF ExpectedActive, Showing
  <1>6. \A n \in With(record, "recording") : n = Segs /\ Showing
    BY <1>2 DEF RecordShape, With
  <1>7. Showing => Segs \in With(record, "recording")
    BY <1>2, RecordKnown DEF RecordShape, With
  <1>8. With(record, "stopped") = Having("final")
    <2> SUFFICES ASSUME NEW n \in Having("final")
                 PROVE  n \in With(record, "stopped")
      BY <1>1
    <2>1. n \in DOMAIN record.segments /\ record.segments[n] \in {"recording", "stopped"}
      BY <1>1, RecordKnown
    <2>2. ASSUME record.segments[n] = "recording"
          PROVE  FALSE
      <3>1. n = Segs /\ Showing
        BY <1>6, <2>1, <2>2 DEF With
      <3>2. Segs \in Having("partial")
        BY <1>3, <1>4, <1>5, <3>1
      <3> QED
        BY <3>1, <3>2 DEF Having
    <2> QED
      BY <2>1, <2>2 DEF With
  <1>9. Having("partial") \subseteq With(record, "recording")
    <2> SUFFICES ASSUME NEW n \in Having("partial")
                 PROVE  n \in With(record, "recording")
      OBVIOUS
    <2>1. Showing /\ n \in Numbers /\ storage[n] = "partial"
      BY <1>5 DEF Having
    <2>2. n <= Segs
      BY <1>2, <2>1 DEF StorageShape
    <2>3. n \in DOMAIN record.segments /\ record.segments[n] \in {"recording", "stopped"}
      BY <2>1, <2>2, RecordKnown DEF Numbers
    <2>4. record.segments[n] # "stopped"
      BY <1>1, <2>1, <2>3 DEF With, Having
    <2> QED
      BY <2>3, <2>4 DEF With
  <1>10. With(record, "recording") = UNION {Recorded(q) : q \in Processes}
    <2>1. ASSUME NEW n \in With(record, "recording")
          PROVE  n \in UNION {Recorded(q) : q \in Processes}
      <3>1. n \in Recorded(p)
        BY <1>4, <1>5, <1>6
      <3> QED
        BY <3>1
    <2> QED
      BY <1>3, <1>9, <2>1
  <1> QED
    BY <1>1, <1>8, <1>9, <1>10 DEF Differs

\* In any processes, asked of each: whenever the record does not show what is recorded
\* and what is final, InspectCapture reports an issue, unless a failed finalization or a
\* late recovery of the process that is asked hides it.
THEOREM DifferencesAreShown == Spec => []DifferenceShown
  <1>1. Init => FlowInvariant
    BY FlowInit
  <1>2. FlowInvariant => DifferenceShown
    BY ShownInTime DEF DifferenceShown
  <1> QED
    BY <1>1, <1>2, FlowStep, PTL DEF Spec

=============================================================================
