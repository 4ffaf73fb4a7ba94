------------------------ MODULE CaptureRecorder_proofs ------------------------
(***************************************************************************)
(* Machine-checked proofs about CaptureRecorder, for any processes and     *)
(* calls, any segments and numbers, under failures, kills and losses of    *)
(* power at any step.  The argument has three layers:                      *)
(*   - types, and that a number has partial or final audio, never both:    *)
(*     however calls cross, as long as no start missed files of the number;*)
(*   - the lock: whoever works on a segment holds it, and nobody else      *)
(*     does, as long as nobody takes a recording over that somebody has;   *)
(*   - the files: those of the number the lock names are its segment's,    *)
(*     and what is durable of them, as long as calls keep apart.           *)
(***************************************************************************)
EXTENDS CaptureRecorder, TLAPS

\* The calls that hold the lock; all but the first stage have it for certain.
Holding == Stages \ {"idle", "looked"}
Past == Holding \ {"locking"}

LockOf(c) == [by |-> S(c), number |-> N(c), readable |-> TRUE]

Exposures ==
  [media : [Numbers -> SUBSET Media], manifest : [Numbers -> SUBSET Manifest],
   owner : SUBSET Lock]

\* What the variables range over.
Kinds ==
  /\ media \in [Numbers -> Media] /\ manifest \in [Numbers -> Manifest] /\ owner \in Lock
  /\ exposed \in Exposures
  /\ active \subseteq [process : Processes, segment : Segments, number : Numbers]
  /\ pc \in [Callers -> Stages] /\ work \in [Callers -> Work]
  /\ started \subseteq used /\ used \subseteq Segments /\ warned \subseteq Segments
  /\ outcome \in [Segments -> Outcomes]
  /\ late \subseteq Numbers /\ retaken \subseteq Segments
  /\ \A c \in Callers : pc[c] # "idle" => S(c) \in used /\ N(c) \in Numbers
  /\ \A r \in active : r.segment \in used

\* A lock names a segment and its number.
Named(o) == o = NoLock \/ (o.by \in Segments /\ o.number \in Numbers)
LocksNamed == Named(owner) /\ \A o \in exposed.owner : Named(o)

\* Of a recording there is the partial or the final audio, not both.
OneName(m) == m.partial = NoAudio \/ m.final = NoAudio

NamesApart ==
  \A n \in Numbers \ late : OneName(media[n]) /\ \A m \in exposed.media[n] : OneName(m)

\* What holds however calls cross.
General == Kinds /\ LocksNamed /\ NamesApart

\* One call at a time has the lock, and nothing is recorded then.
LockHeld ==
  \A c \in Callers : pc[c] \in Holding =>
    /\ owner.by = S(c) /\ owner.number = N(c)
    /\ pc[c] \in Past => owner = LockOf(c)
    /\ active = {}
    /\ \A d \in Callers : pc[d] \in Holding => d = c

\* What is recorded is what the lock names.
Owned ==
  \A r \in active :
    /\ owner.readable /\ owner.by = r.segment /\ owner.number = r.number
    /\ active = {r}

\* What holds while nobody takes over a recording that somebody has.
Basics == General /\ LockHeld /\ Owned

-----------------------------------------------------------------------------
(* What the operations of the directory do.                                *)

LEMMA ExposedParts ==
  ASSUME Kinds
  PROVE  /\ exposed = [media |-> exposed.media, manifest |-> exposed.manifest,
                       owner |-> exposed.owner]
         /\ exposed.media \in [Numbers -> SUBSET Media]
         /\ exposed.manifest \in [Numbers -> SUBSET Manifest]
         /\ exposed.owner \subseteq Lock
  BY DEF Kinds, Exposures

LEMMA PutMediaShape ==
  ASSUME Kinds, NEW n \in Numbers, NEW v \in Media, PutMedia(n, v)
  PROVE  /\ media' = [media EXCEPT ![n] = v] /\ media' \in [Numbers -> Media]
         /\ exposed' \in Exposures
         /\ exposed'.media = [exposed.media EXCEPT ![n] = @ \cup {v}]
         /\ exposed'.manifest = exposed.manifest /\ exposed'.owner = exposed.owner
  <1>1. exposed' = [exposed EXCEPT !.media[n] = @ \cup {v}]
        /\ media' = [media EXCEPT ![n] = v]
    BY DEF PutMedia
  <1>2. exposed' = [media |-> [exposed.media EXCEPT ![n] = @ \cup {v}],
                    manifest |-> exposed.manifest, owner |-> exposed.owner]
    BY <1>1, ExposedParts
  <1> QED
    BY <1>1, <1>2, ExposedParts DEF Exposures, Kinds

LEMMA SettleShape ==
  ASSUME Kinds, NEW n \in Numbers, NEW v \in Audio, SettleAudio(n, v)
  PROVE  /\ media' = [media EXCEPT ![n] = [partial |-> v, final |-> media[n].final]]
         /\ media' \in [Numbers -> Media]
         /\ exposed' \in Exposures
         /\ exposed'.manifest = exposed.manifest /\ exposed'.owner = exposed.owner
         /\ \A k \in Numbers \ {n} : exposed'.media[k] = exposed.media[k]
         /\ media[n] \in exposed.media[n] => media'[n] \in exposed'.media[n]
         /\ \A x \in exposed'.media[n] :
              \E m \in exposed.media[n] :
                \/ x = m
                \/ m.partial = media[n].partial /\ x = [partial |-> v, final |-> m.final]
  <1> DEFINE settled(m) ==
        IF m.partial = media[n].partial THEN [m EXCEPT !.partial = v] ELSE m
  <1>1. /\ media' = [media EXCEPT ![n].partial = v]
        /\ exposed' = [exposed EXCEPT !.media[n] = {settled(m) : m \in @}]
    BY DEF SettleAudio
  <1>2. \A m \in Media : settled(m) = IF m.partial = media[n].partial
                                      THEN [partial |-> v, final |-> m.final] ELSE m
    BY DEF Media
  <1>3. media \in [Numbers -> Media]
    BY DEF Kinds
  <1>4. media' = [media EXCEPT ![n] = [partial |-> v, final |-> media[n].final]]
    <2>1. [media[n] EXCEPT !.partial = v] = [partial |-> v, final |-> media[n].final]
      BY <1>3 DEF Media
    <2>2. media' = [media EXCEPT ![n] = [media[n] EXCEPT !.partial = v]]
      BY <1>1
    <2> QED
      BY <2>1, <2>2
  <1>5. media' \in [Numbers -> Media] /\ media'[n] = settled(media[n])
    <2>1. media[n] \in Media
      BY <1>3
    <2>2. settled(media[n]) = [partial |-> v, final |-> media[n].final]
      BY <1>2, <2>1
    <2>3. [partial |-> v, final |-> media[n].final] \in Media
      BY <2>1 DEF Media
    <2> HIDE DEF settled
    <2> QED
      BY <1>3, <1>4, <2>2, <2>3
  <1> DEFINE X == {settled(m) : m \in exposed.media[n]}
  <1>6. exposed' = [media |-> [exposed.media EXCEPT ![n] = X],
                    manifest |-> exposed.manifest, owner |-> exposed.owner]
    BY <1>1, ExposedParts
  <1>7. X \subseteq Media
    BY <1>2, ExposedParts DEF Media
  <1>8. \A x \in X : \E m \in exposed.media[n] :
          \/ x = m
          \/ m.partial = media[n].partial /\ x = [partial |-> v, final |-> m.final]
    <2> SUFFICES ASSUME NEW m \in exposed.media[n]
                 PROVE  \/ settled(m) = m
                        \/ /\ m.partial = media[n].partial
                           /\ settled(m) = [partial |-> v, final |-> m.final]
      OBVIOUS
    <2>1. m \in Media
      BY ExposedParts
    <2> QED
      BY <1>2, <2>1
  <1>9. media[n] \in exposed.media[n] => media'[n] \in X
    BY <1>5
  <1> HIDE DEF X, settled
  <1> QED
    BY <1>4, <1>5, <1>6, <1>7, <1>8, <1>9, ExposedParts DEF Exposures

LEMMA OwnerShape ==
  ASSUME Kinds, owner' \in Lock, exposed' = [exposed EXCEPT !.owner = @ \cup {owner'}]
  PROVE  /\ exposed' \in Exposures /\ exposed'.owner = exposed.owner \cup {owner'}
         /\ exposed'.media = exposed.media /\ exposed'.manifest = exposed.manifest
  BY ExposedParts DEF Exposures

LEMMA ManifestShape ==
  ASSUME Kinds, NEW n \in Numbers, NEW v \in Manifest,
         exposed' = [exposed EXCEPT !.manifest[n] = @ \cup {v}]
  PROVE  /\ exposed' \in Exposures
         /\ exposed'.manifest = [exposed.manifest EXCEPT ![n] = @ \cup {v}]
         /\ exposed'.media = exposed.media /\ exposed'.owner = exposed.owner
  <1>1. exposed' = [media |-> exposed.media, owner |-> exposed.owner,
                    manifest |-> [exposed.manifest EXCEPT ![n] = @ \cup {v}]]
    BY ExposedParts
  <1> QED
    BY <1>1, ExposedParts DEF Exposures

LEMMA SyncShape ==
  ASSUME media' \in [Numbers -> Media], manifest' \in [Numbers -> Manifest], owner' \in Lock,
         exposed' = Synced(media', manifest', owner')
  PROVE  /\ exposed' \in Exposures /\ exposed'.owner = {owner'}
         /\ \A n \in Numbers : /\ exposed'.media[n] = {media'[n]}
                               /\ exposed'.manifest[n] = {manifest'[n]}
  BY DEF Synced, Exposures

LEMMA SyncFailsShape ==
  ASSUME Kinds, manifest' \in [Numbers -> Manifest], owner' \in Lock,
         NEW c \in Callers, SyncDirectoryFails(c)
  PROVE  /\ exposed' \in Exposures /\ exposed'.owner = exposed.owner \cup {owner'}
         /\ exposed'.media = exposed.media
         /\ \A n \in Numbers :
              exposed'.manifest[n] = exposed.manifest[n] \cup {manifest'[n]}
  BY ExposedParts DEF SyncDirectoryFails, Exposures

-----------------------------------------------------------------------------
(* However calls cross.                                                    *)

\* What is left after a loss of power.
LEMMA ShornAudio ==
  ASSUME NEW a \in Audio, NEW b \in Shorn(a)
  PROVE  /\ b \in Audio /\ b.by = a.by /\ (a = NoAudio => b = NoAudio)
         /\ a.synced => b = a
  <1>1. a.synced \in BOOLEAN /\ NoAudio.synced = FALSE /\ NoAudio.whole = FALSE
        /\ NoAudio \in Audio
    BY DEF Audio, NoAudio
  <1>2. CASE a.synced
    BY <1>2 DEF Shorn
  <1>3. CASE ~a.synced
    <2>1. b = a \/ b = [a EXCEPT !.whole = FALSE]
      BY <1>3 DEF Shorn
    <2>2. [a EXCEPT !.whole = FALSE] \in Audio /\ [a EXCEPT !.whole = FALSE].by = a.by
      BY DEF Audio
    <2>3. a = NoAudio => [a EXCEPT !.whole = FALSE] = NoAudio
      <3>1. \A x, y \in Audio :
              x.by = y.by /\ x.whole = y.whole /\ x.synced = y.synced => x = y
        BY DEF Audio
      <3>2. [a EXCEPT !.whole = FALSE].whole = FALSE
            /\ [a EXCEPT !.whole = FALSE].synced = a.synced
        BY DEF Audio
      <3> QED
        BY <1>1, <2>2, <3>1, <3>2
    <2> QED
      BY <1>3, <2>1, <2>2, <2>3
  <1> QED
    BY <1>1, <1>2, <1>3

LEMMA PossibleKnown ==
  ASSUME Kinds, NEW n \in Numbers, NEW x \in PossibleMedia(n)
  PROVE  \E m \in exposed.media[n] :
           /\ x \in Media /\ m \in Media
           /\ x.partial \in Shorn(m.partial) /\ x.final \in Shorn(m.final)
           /\ x.partial.by = m.partial.by /\ x.final.by = m.final.by
           /\ OneName(m) => OneName(x)
  <1>1. PICK m \in exposed.media[n] : x \in [partial : Shorn(m.partial), final : Shorn(m.final)]
    BY DEF PossibleMedia
  <1>2. m \in Media /\ m.partial \in Audio /\ m.final \in Audio
    BY ExposedParts DEF Media
  <1>3. x.partial \in Shorn(m.partial) /\ x.final \in Shorn(m.final)
    BY <1>1
  <1>4. /\ x.partial \in Audio /\ x.partial.by = m.partial.by
        /\ m.partial = NoAudio => x.partial = NoAudio
    BY <1>2, <1>3, ShornAudio
  <1>5. /\ x.final \in Audio /\ x.final.by = m.final.by
        /\ m.final = NoAudio => x.final = NoAudio
    BY <1>2, <1>3, ShornAudio
  <1>6. x \in Media
    BY <1>1, <1>4, <1>5 DEF Media
  <1> QED
    BY <1>2, <1>3, <1>4, <1>5, <1>6 DEF OneName

\* What a step may do to the files of a number: it leaves their types, and two names of
\* audio only where a start missed something.
FilesFine ==
  /\ media' \in [Numbers -> Media] /\ manifest' \in [Numbers -> Manifest] /\ owner' \in Lock
  /\ exposed' \in Exposures
  /\ LocksNamed' /\ NamesApart'

LEMMA AudioFine ==
  ASSUME General, NEW n \in Numbers, NEW v \in Media, n \in late' \/ OneName(v),
         PutMedia(n, v) \/ UNCHANGED <<media, exposed>>, UNCHANGED <<manifest, owner>>,
         late \subseteq late'
  PROVE  FilesFine
  <1>1. Kinds /\ LocksNamed /\ NamesApart
    BY DEF General
  <1>2. CASE PutMedia(n, v)
    <2>1. /\ media' = [media EXCEPT ![n] = v] /\ media' \in [Numbers -> Media]
          /\ exposed' \in Exposures
          /\ exposed'.media = [exposed.media EXCEPT ![n] = @ \cup {v}]
          /\ exposed'.owner = exposed.owner
      BY <1>1, <1>2, PutMediaShape
    <2>2. ASSUME NEW k \in Numbers \ late'
          PROVE  OneName(media'[k]) /\ \A m \in exposed'.media[k] : OneName(m)
      <3>1. k \notin late /\ (k = n => OneName(v))
        BY <2>2
      <3>2. OneName(media[k]) /\ \A m \in exposed.media[k] : OneName(m)
        BY <1>1, <2>2, <3>1 DEF NamesApart
      <3>3. \/ media'[k] = media[k] /\ exposed'.media[k] = exposed.media[k]
            \/ k = n /\ media'[k] = v /\ exposed'.media[k] = exposed.media[k] \cup {v}
        BY <1>1, <2>1, ExposedParts DEF Kinds
      <3> QED
        BY <3>1, <3>2, <3>3
    <2> QED
      BY <1>1, <2>1, <2>2 DEF FilesFine, LocksNamed, NamesApart, Kinds, OneName
  <1>3. CASE UNCHANGED <<media, exposed>>
    BY <1>1, <1>3 DEF FilesFine, LocksNamed, NamesApart, Kinds, OneName
  <1> QED
    BY <1>2, <1>3

LEMMA SettleFine ==
  ASSUME General, NEW n \in Numbers, NEW v \in Audio, SettleAudio(n, v),
         media[n].partial # NoAudio, UNCHANGED <<manifest, owner, late>>
  PROVE  FilesFine
  <1>1. Kinds /\ LocksNamed /\ NamesApart
    BY DEF General
  <1>2. /\ media' = [media EXCEPT ![n] = [partial |-> v, final |-> media[n].final]]
        /\ media' \in [Numbers -> Media]
        /\ exposed' \in Exposures /\ exposed'.owner = exposed.owner
        /\ \A k \in Numbers \ {n} : exposed'.media[k] = exposed.media[k]
        /\ \A x \in exposed'.media[n] :
             \E m \in exposed.media[n] :
               \/ x = m
               \/ m.partial = media[n].partial /\ x = [partial |-> v, final |-> m.final]
    BY <1>1, SettleShape
  <1>3. ASSUME NEW k \in Numbers \ late'
        PROVE  OneName(media'[k]) /\ \A m \in exposed'.media[k] : OneName(m)
    <2>1. k \in Numbers /\ OneName(media[k]) /\ \A m \in exposed.media[k] : OneName(m)
      BY <1>1, <1>3 DEF NamesApart
    <2>2. CASE k # n
      BY <1>1, <1>2, <2>1, <2>2 DEF Kinds
    <2>3. CASE k = n
      <3>1. media[n].final = NoAudio /\ media'[n] = [partial |-> v, final |-> media[n].final]
        BY <1>1, <1>2, <2>1, <2>3 DEF Kinds, OneName
      <3>2. \A m \in exposed.media[n] : m.partial = media[n].partial => m.final = NoAudio
        BY <2>1, <2>3 DEF OneName
      <3> QED
        BY <1>2, <2>1, <2>3, <3>1, <3>2 DEF OneName
    <2> QED
      BY <2>2, <2>3
  <1> QED
    BY <1>1, <1>2, <1>3 DEF FilesFine, LocksNamed, NamesApart, Kinds, OneName

\* A step that changes no audio: it changes locks or manifests, or makes them durable.
LEMMA EntriesFine ==
  ASSUME General, UNCHANGED media, late \subseteq late',
         manifest' \in [Numbers -> Manifest], owner' \in Lock, exposed' \in Exposures,
         Named(owner'), \A o \in exposed'.owner : o \in exposed.owner \cup {owner'},
         \A n \in Numbers : exposed'.media[n] \subseteq exposed.media[n] \cup {media[n]}
  PROVE  FilesFine
  <1>1. Kinds /\ LocksNamed /\ NamesApart
    BY DEF General
  <1>2. LocksNamed'
    BY <1>1 DEF LocksNamed, Named
  <1>3. NamesApart'
    BY <1>1 DEF NamesApart, OneName
  <1> QED
    BY <1>1, <1>2, <1>3 DEF FilesFine, Kinds

LEMMA SyncFine ==
  ASSUME General, NEW c \in Callers, UNCHANGED <<media, late>>,
         manifest' \in [Numbers -> Manifest], owner' \in Lock, Named(owner'),
         \/ SyncDirectory
         \/ SyncDirectoryFails(c)
         \/ exposed' = [exposed EXCEPT !.owner = @ \cup {owner'}]
         \/ UNCHANGED exposed
  PROVE  FilesFine
  <1>1. Kinds /\ media' \in [Numbers -> Media]
    BY DEF General, Kinds
  <1>2. CASE SyncDirectory
    <2>1. /\ exposed' \in Exposures /\ exposed'.owner = {owner'}
          /\ \A n \in Numbers : exposed'.media[n] = {media'[n]}
      BY <1>1, <1>2, SyncShape DEF SyncDirectory
    <2> QED
      BY <2>1, EntriesFine
  <1>3. CASE SyncDirectoryFails(c)
    <2>1. /\ exposed' \in Exposures /\ exposed'.owner = exposed.owner \cup {owner'}
          /\ exposed'.media = exposed.media
      BY <1>1, <1>3, SyncFailsShape
    <2> QED
      BY <2>1, EntriesFine
  <1>4. CASE exposed' = [exposed EXCEPT !.owner = @ \cup {owner'}]
    <2>1. /\ exposed' \in Exposures /\ exposed'.owner = exposed.owner \cup {owner'}
          /\ exposed'.media = exposed.media
      BY <1>1, <1>4, OwnerShape
    <2> QED
      BY <2>1, EntriesFine
  <1>5. CASE UNCHANGED exposed
    BY <1>1, <1>5, EntriesFine DEF Kinds
  <1> QED
    BY <1>2, <1>3, <1>4, <1>5

LEMMA PowerFine ==
  ASSUME General, LosePower
  PROVE  FilesFine
  <1>1. Kinds /\ LocksNamed /\ NamesApart
    BY DEF General
  <1>2. /\ media' \in [Numbers -> UNION {PossibleMedia(n) : n \in Numbers}]
        /\ \A n \in Numbers : media'[n] \in PossibleMedia(n)
        /\ manifest' \in [Numbers -> UNION {exposed.manifest[n] : n \in Numbers}]
        /\ \A n \in Numbers : manifest'[n] \in exposed.manifest[n]
        /\ owner' \in exposed.owner /\ exposed' = Synced(media', manifest', owner')
        /\ late' = late
    BY DEF LosePower, overlaps
  <1>3. \A n \in Numbers : media'[n] \in Media /\ manifest'[n] \in Manifest
    BY <1>1, <1>2, PossibleKnown, ExposedParts
  <1>4. /\ media' \in [Numbers -> Media] /\ manifest' \in [Numbers -> Manifest]
        /\ owner' \in Lock
    BY <1>1, <1>2, <1>3, ExposedParts
  <1>5. /\ exposed' \in Exposures /\ exposed'.owner = {owner'}
        /\ \A n \in Numbers : exposed'.media[n] = {media'[n]}
    BY <1>2, <1>4, SyncShape
  <1>6. ASSUME NEW n \in Numbers \ late'
        PROVE  OneName(media'[n])
    <2>1. \A m \in exposed.media[n] : OneName(m)
      BY <1>1, <1>2, <1>6 DEF NamesApart
    <2> QED
      BY <1>1, <1>2, <2>1, PossibleKnown
  <1>7. LocksNamed' /\ NamesApart'
    BY <1>1, <1>2, <1>5, <1>6 DEF LocksNamed, Named, NamesApart, OneName
  <1> QED
    BY <1>4, <1>5, <1>7 DEF FilesFine

\* What a step may do to the state of the calls.
CallsFine ==
  /\ active' \subseteq [process : Processes, segment : Segments, number : Numbers]
  /\ pc' \in [Callers -> Stages] /\ work' \in [Callers -> Work]
  /\ started' \subseteq used' /\ used' \subseteq Segments /\ warned' \subseteq Segments
  /\ outcome' \in [Segments -> Outcomes]
  /\ late' \subseteq Numbers /\ retaken' \subseteq Segments
  /\ \A c \in Callers : pc'[c] # "idle" => S(c)' \in used' /\ N(c)' \in Numbers
  /\ \A r \in active' : r.segment \in used'

\* A call begins: it gets its segment and number.
LEMMA BeginsFine ==
  ASSUME Kinds, NEW c \in Callers, NEW to \in Stages, pc' = [pc EXCEPT ![c] = to],
         NEW w \in Work, work' = [work EXCEPT ![c] = w],
         active' \subseteq active, used \subseteq used', used' \subseteq Segments,
         w.segment \in used', w.number \in Numbers,
         UNCHANGED <<started, outcome, warned, late>>, retaken' \subseteq Segments
  PROVE  CallsFine
  <1>1. \A d \in Callers : /\ pc'[d] = (IF d = c THEN to ELSE pc[d])
                           /\ work'[d] = IF d = c THEN w ELSE work[d]
    BY DEF Kinds
  <1> QED
    BY <1>1 DEF CallsFine, Kinds, S, N

\* The locals of a call keep its segment and number.
LocalsKept ==
  work' \in [Callers -> Work] /\ \A d \in Callers : S(d)' = S(d) /\ N(d)' = N(d)

LEMMA WorkKeeps ==
  ASSUME Kinds, NEW c \in Callers, NEW keep \in BOOLEAN, NEW result \in Outcomes,
         \/ work' = [work EXCEPT ![c].keep = keep, ![c].result = result]
         \/ work' = [work EXCEPT ![c].result = result]
         \/ UNCHANGED work
  PROVE  LocalsKept /\ (UNCHANGED work \/ work'[c].result = result)
  <1>1. work[c] = [segment |-> work[c].segment, number |-> work[c].number,
                   keep |-> work[c].keep, result |-> work[c].result]
        /\ work \in [Callers -> Work]
    BY DEF Kinds, Work
  <1>2. CASE work' = [work EXCEPT ![c].keep = keep, ![c].result = result]
    <2>1. work' = [work EXCEPT ![c] = [segment |-> work[c].segment,
                                       number |-> work[c].number,
                                       keep |-> keep, result |-> result]]
      BY <1>1, <1>2
    <2> QED
      BY <1>1, <2>1 DEF LocalsKept, Work, S, N
  <1>3. CASE work' = [work EXCEPT ![c].result = result]
    <2>1. work' = [work EXCEPT ![c] = [segment |-> work[c].segment,
                                       number |-> work[c].number,
                                       keep |-> work[c].keep, result |-> result]]
      BY <1>1, <1>3
    <2> QED
      BY <1>1, <2>1 DEF LocalsKept, Work, S, N
  <1>4. CASE UNCHANGED work
    BY <1>1, <1>4 DEF LocalsKept, S, N
  <1> QED
    BY <1>2, <1>3, <1>4

\* A call goes on or ends.
LEMMA GoesOnFine ==
  ASSUME Kinds, NEW c \in Callers, pc[c] # "idle", NEW to \in Stages,
         pc' = [pc EXCEPT ![c] = to], LocalsKept,
         active' \subseteq active \cup {Recording(c)}, started' \subseteq started \cup {S(c)},
         used' = used, warned' \subseteq warned \cup {S(c)},
         UNCHANGED outcome \/ \E r \in Outcomes : outcome' = [outcome EXCEPT ![S(c)] = r],
         late' \subseteq late \cup {N(c)}, retaken' = retaken
  PROVE  CallsFine
  <1>1. S(c) \in used /\ S(c) \in Segments /\ N(c) \in Numbers
    BY DEF Kinds
  <1>2. /\ Recording(c) \in [process : Processes, segment : Segments, number : Numbers]
        /\ Recording(c).segment \in used
    BY <1>1, RecorderAssumption DEF Recording, RecorderAssumption
  <1>3. /\ pc' \in [Callers -> Stages] /\ outcome' \in [Segments -> Outcomes]
        /\ \A d \in Callers : pc'[d] # "idle" => pc[d] # "idle"
    BY <1>1 DEF Kinds
  <1> QED
    BY <1>1, <1>2, <1>3 DEF CallsFine, Kinds, LocalsKept

\* Every action of a call is right about the files.
LEMMA FilesStep ==
  ASSUME General, [Next]_vars
  PROVE  FilesFine
  <1>1. /\ Kinds /\ LocksNamed /\ NamesApart
        /\ \A c \in Callers : pc[c] # "idle" => S(c) \in Segments /\ N(c) \in Numbers
        /\ media \in [Numbers -> Media] /\ manifest \in [Numbers -> Manifest]
        /\ owner \in Lock /\ Named(owner) /\ NoLock \in Lock /\ Named(NoLock)
    BY DEF General, Kinds, LocksNamed, Named, Lock, NoLock
  <1>2. /\ \A s \in Segments : Growing(s) \in Audio /\ Growing(s).by = s
        /\ NoAudio \in Audio /\ NoAudio.by = NoOne
    BY DEF Audio, Growing, NoAudio
  <1>3. CASE UNCHANGED <<files, exposed, late>>
    BY <1>1, <1>3 DEF files, FilesFine, LocksNamed, Named, NamesApart, OneName, Kinds
  <1>4. CASE LosePower
    BY <1>4, PowerFine
  <1>5. ASSUME NEW c \in Callers, Begin(c) \/ \E resolved \in BOOLEAN : BeginFails(c, resolved)
        PROVE  FilesFine
    <2> DEFINE v == [partial |-> Growing(S(c)), final |-> media[N(c)].final]
    <2>1. /\ pc[c] = "owned" /\ S(c) \in Segments /\ N(c) \in Numbers
          /\ media[N(c)] \in Media
      BY <1>1, <1>5 DEF Begin, BeginFails
    <2>2. v = [media[N(c)] EXCEPT !.partial = Growing(S(c))] /\ v \in Media
      BY <1>2, <2>1 DEF Media
    <2>3. late' = (IF Unused(N(c)) THEN late ELSE late \cup {N(c)})
          /\ UNCHANGED <<manifest, owner>>
      BY <1>5 DEF Begin, BeginFails, Overlooks
    <2>4. Unused(N(c)) => v.final = NoAudio
      BY DEF Unused
    <2>5. \/ PutMedia(N(c), v) \/ UNCHANGED <<media, exposed>>
          \/ PutMedia(N(c), media[N(c)])
      BY <1>5, <2>2 DEF Begin, BeginFails
    <2>6. N(c) \in late' \/ OneName(v)
      BY <2>3, <2>4 DEF OneName
    <2>7. N(c) \in late' \/ OneName(media[N(c)])
      BY <2>3 DEF OneName, Unused
    <2> HIDE DEF v
    <2> QED
      BY <2>1, <2>2, <2>3, <2>5, <2>6, <2>7, AudioFine
  <1>6. ASSUME NEW c \in Callers, Clear(c)
        PROVE  FilesFine
    <2> DEFINE v == [partial |-> NoAudio, final |-> media[N(c)].final]
    <2>1. N(c) \in Numbers /\ media[N(c)] \in Media
      BY <1>1, <1>6 DEF Clear
    <2>2. v = [media[N(c)] EXCEPT !.partial = NoAudio] /\ v \in Media /\ OneName(v)
      BY <1>2, <2>1 DEF Media, OneName
    <2>3. /\ PutMedia(N(c), v) \/ UNCHANGED <<media, exposed>>
          /\ UNCHANGED <<manifest, owner, late>>
      BY <1>6, <2>2 DEF Clear, overlaps
    <2> HIDE DEF v
    <2> QED
      BY <2>1, <2>2, <2>3, AudioFine
  <1>7. ASSUME NEW c \in Callers, InstallAudio(c)
        PROVE  FilesFine
    <2> DEFINE v == [partial |-> NoAudio, final |-> media[N(c)].partial]
    <2>1. N(c) \in Numbers /\ media[N(c)] \in Media
      BY <1>1, <1>7 DEF InstallAudio, Goto
    <2>2. v \in Media /\ OneName(v)
      BY <1>2, <2>1 DEF Media, OneName
    <2>3. PutMedia(N(c), v) /\ UNCHANGED <<manifest, owner, late>>
      BY <1>7 DEF InstallAudio, overlaps
    <2> HIDE DEF v
    <2> QED
      BY <2>1, <2>2, <2>3, AudioFine
  <1>8. ASSUME NEW c \in Callers, EngineFinalizes(c)
        PROVE  FilesFine
    <2> DEFINE v == [by |-> media[N(c)].partial.by, whole |-> TRUE,
                     synced |-> Engine = "synthetic"]
    <2>1. N(c) \in Numbers /\ media[N(c)].partial \in Audio
          /\ media[N(c)].partial # NoAudio
      BY <1>1, <1>2, <1>8 DEF EngineFinalizes, Goto, Media
    <2>2. v \in Audio
      BY <2>1 DEF Audio
    <2>3. SettleAudio(N(c), v) /\ UNCHANGED <<manifest, owner, late>>
      BY <1>8 DEF EngineFinalizes, overlaps
    <2> HIDE DEF v
    <2> QED
      BY <2>1, <2>2, <2>3, SettleFine
  <1>9. ASSUME NEW c \in Callers, CreateLock(c)
        PROVE  FilesFine
    <2>1. /\ S(c) \in Segments /\ N(c) \in Numbers /\ owner' = Bare(c)
          /\ UNCHANGED <<media, manifest>> /\ late \subseteq late'
          /\ exposed' = [exposed EXCEPT !.owner = @ \cup {owner'}]
      BY <1>1, <1>9 DEF CreateLock, Goto, Overlooks
    <2>2. owner' \in Lock /\ Named(owner')
      BY <2>1 DEF Bare, Lock, Named
    <2>3. /\ exposed' \in Exposures /\ exposed'.owner = exposed.owner \cup {owner'}
          /\ exposed'.media = exposed.media
      BY <1>1, <2>1, <2>2, OwnerShape
    <2> QED
      BY <1>1, <2>1, <2>2, <2>3, EntriesFine
  <1>10. ASSUME NEW c \in Callers, SyncLock(c) \/ LockFails(c)
         PROVE  FilesFine
    <2>1. /\ UNCHANGED <<media, manifest, late>>
          /\ SyncDirectory \/ exposed' = [exposed EXCEPT !.owner = @ \cup {owner'}]
          /\ owner' \in {owner, [owner EXCEPT !.readable = TRUE]}
      BY <1>10 DEF SyncLock, LockFails, Written, overlaps
    <2>2. owner' \in Lock /\ Named(owner')
      <3>1. CASE owner' = owner
        BY <1>1, <3>1
      <3>2. CASE owner' = [owner EXCEPT !.readable = TRUE] /\ owner' # owner
        <4>1. Bare(c).by = S(c) /\ owner = Bare(c) /\ pc[c] # "idle"
          BY <1>10, <3>2 DEF SyncLock, LockFails, Written, Bare, Goto
        <4>2. owner # NoLock
          BY <1>1, <4>1, RecorderAssumption DEF NoLock, RecorderAssumption
        <4> QED
          BY <1>1, <3>2, <4>2 DEF Lock, Named
      <3> QED
        BY <2>1, <3>1, <3>2
    <2> QED
      BY <1>1, <2>1, <2>2, SyncFine
  <1>11. ASSUME NEW c \in Callers, WriteEvidence(c)
         PROVE  FilesFine
    <2>1. /\ UNCHANGED <<media, owner, late>> /\ S(c) \in Segments /\ N(c) \in Numbers
          /\ SyncDirectory \/ SyncDirectoryFails(c) \/ UNCHANGED exposed
          /\ manifest' \in {manifest,
                            [manifest EXCEPT ![N(c)] = [by |-> S(c), kind |-> "failed"]]}
      BY <1>1, <1>11 DEF WriteEvidence, overlaps
    <2>2. manifest' \in [Numbers -> Manifest]
      <3>1. [by |-> S(c), kind |-> "failed"] \in Manifest
        BY <2>1 DEF Manifest
      <3> QED
        BY <1>1, <2>1, <3>1
    <2> QED
      BY <1>1, <2>1, <2>2, SyncFine
  <1>12. ASSUME NEW c \in Callers, Release(c) \/ SyncAudio(c) \/ SyncManifest(c)
         PROVE  FilesFine
    <2>1. /\ UNCHANGED <<media, manifest, late>> /\ owner' \in {owner, NoLock}
          /\ SyncDirectory \/ SyncDirectoryFails(c)
      BY <1>12 DEF Release, SyncAudio, SyncManifest, files, overlaps
    <2> QED
      BY <1>1, <2>1, SyncFine
  <1>13. ASSUME NEW c \in Callers, InstallManifest(c)
         PROVE  FilesFine
    <2>1. /\ S(c) \in Segments /\ N(c) \in Numbers /\ UNCHANGED <<media, owner, late>>
          /\ manifest' = [manifest EXCEPT ![N(c)] = [by |-> S(c), kind |-> "finalized"]]
          /\ exposed' = [exposed EXCEPT !.manifest[N(c)] = @ \cup {manifest'[N(c)]}]
      BY <1>1, <1>13 DEF InstallManifest, Goto, overlaps
    <2>2. [by |-> S(c), kind |-> "finalized"] \in Manifest
      BY <2>1 DEF Manifest
    <2>3. manifest' \in [Numbers -> Manifest] /\ manifest'[N(c)] \in Manifest
      BY <1>1, <2>1, <2>2
    <2>4. exposed' \in Exposures /\ exposed'.media = exposed.media
          /\ exposed'.owner = exposed.owner
      BY <1>1, <2>1, <2>3, ManifestShape
    <2> QED
      BY <1>1, <2>1, <2>3, <2>4, EntriesFine
  <1>14. ASSUME NEW c \in Callers,
                \/ \E s \in Segments, n \in Numbers : Look(c, s, n)
                \/ ReleaseFails(c) \/ FinalizeFails(c)
                \/ \E r \in active : FinalizeSegment(c, r)
                \/ \E r \in active, stopped \in BOOLEAN : AbortSegment(c, r, stopped)
                \/ RecoverSegment(c) \/ Recovered(c)
         PROVE  UNCHANGED <<files, exposed, late>>
    BY <1>14 DEF Look, ReleaseFails, FinalizeFails, FinalizeSegment, Take, AbortSegment,
                 RecoverSegment, Recovered, overlaps
  <1>15. ASSUME NEW p \in Processes, Kill(p)
         PROVE  UNCHANGED <<files, exposed, late>>
    BY <1>15 DEF Kill, overlaps
  <1>16. UNCHANGED vars => UNCHANGED <<files, exposed, late>>
    BY DEF vars, overlaps
  <1> QED
    BY <1>3, <1>4, <1>5, <1>6, <1>7, <1>8, <1>9, <1>10, <1>11, <1>12, <1>13, <1>14, <1>15,
       <1>16 DEF Next

\* A call about a segment is about it to the end.
LEMMA CallsLocals ==
  ASSUME Kinds, NEW c \in Callers,
         \/ CreateLock(c) \/ SyncLock(c) \/ LockFails(c)
         \/ Begin(c) \/ \E resolved \in BOOLEAN : BeginFails(c, resolved)
         \/ Clear(c) \/ WriteEvidence(c) \/ Release(c) \/ ReleaseFails(c)
         \/ EngineFinalizes(c) \/ FinalizeFails(c)
         \/ InstallAudio(c) \/ SyncAudio(c) \/ InstallManifest(c) \/ SyncManifest(c)
         \/ Recovered(c)
  PROVE  LocalsKept
  <1>1. \E keep \in BOOLEAN, result \in Outcomes :
          \/ work' = [work EXCEPT ![c].keep = keep, ![c].result = result]
          \/ work' = [work EXCEPT ![c].result = result]
          \/ UNCHANGED work
    <2>1. {"partial", "failed", "uncertain"} \subseteq Outcomes /\ TRUE \in BOOLEAN
      BY DEF Outcomes
    <2>2. ASSUME NEW resolved \in BOOLEAN, BeginFails(c, resolved)
          PROVE  \E keep \in BOOLEAN :
                   work' = [work EXCEPT ![c].keep = keep, ![c].result = "partial"]
      <3> WITNESS (~resolved) \in BOOLEAN
      <3> QED
        BY <2>2 DEF BeginFails
    <2>3. \/ work' = [work EXCEPT ![c].result = "failed"]
          \/ work' = [work EXCEPT ![c].result = "uncertain"]
          \/ UNCHANGED work
          \/ \E resolved \in BOOLEAN : BeginFails(c, resolved)
      BY DEF CreateLock, SyncLock, LockFails, Begin, Clear, WriteEvidence, Release,
         ReleaseFails, EngineFinalizes, FinalizeFails, InstallAudio, SyncAudio,
         InstallManifest, SyncManifest, Recovered
    <2> QED
      BY <2>1, <2>2, <2>3
  <1> QED
    BY <1>1, WorkKeeps

\* And about the state of the calls.
LEMMA CallsStep ==
  ASSUME General, [Next]_vars
  PROVE  CallsFine
  <1>1. /\ Kinds /\ work \in [Callers -> Work]
        /\ \A c \in Callers : pc[c] # "idle" => S(c) \in Segments /\ N(c) \in Numbers
        /\ Named(owner)
    BY DEF General, Kinds, LocksNamed
  <1>2. \A c \in Callers : work[c].result \in Outcomes
    BY <1>1 DEF Work
  <1>3. ASSUME NEW c \in Callers, NEW s \in Segments, NEW n \in Numbers, Look(c, s, n)
        PROVE  CallsFine
    <2> DEFINE w == [segment |-> s, number |-> n, keep |-> FALSE, result |-> "none"]
    <2>1. w \in Work /\ w.segment = s /\ w.number = n /\ "looked" \in Stages
      BY DEF Work, Outcomes, Stages
    <2>2. /\ pc' = [pc EXCEPT ![c] = "looked"] /\ work' = [work EXCEPT ![c] = w]
          /\ used' = used \cup {s}
          /\ UNCHANGED <<active, started, outcome, warned, late, retaken>>
      BY <1>3 DEF Look, Goto, overlaps
    <2>3. used' \subseteq Segments /\ retaken' \subseteq Segments
      BY <1>1, <2>2 DEF Kinds
    <2> HIDE DEF w
    <2> QED
      BY <1>1, <2>1, <2>2, <2>3, BeginsFine
  <1>4. ASSUME NEW c \in Callers, NEW r \in active, NEW to \in {"finalizing", "evidencing"},
               NEW keep \in BOOLEAN, NEW result \in Outcomes,
               pc' = [pc EXCEPT ![c] = to], active' = active \ {r},
               work' = [work EXCEPT ![c] = [segment |-> r.segment, number |-> r.number,
                                            keep |-> keep, result |-> result]],
               UNCHANGED <<used, started, outcome, warned, late, retaken>>
        PROVE  CallsFine
    <2> DEFINE w == [segment |-> r.segment, number |-> r.number, keep |-> keep,
                     result |-> result]
    <2>1. r.segment \in used /\ r.segment \in Segments /\ r.number \in Numbers /\ to \in Stages
      BY <1>1 DEF Kinds, Stages
    <2>2. w \in Work /\ w.segment = r.segment /\ w.number = r.number
      BY <2>1 DEF Work
    <2>3. used' \subseteq Segments /\ retaken' \subseteq Segments
      BY <1>1, <1>4 DEF Kinds
    <2>4. work' = [work EXCEPT ![c] = w]
      BY <1>4
    <2> HIDE DEF w
    <2> QED
      BY <1>1, <1>4, <2>1, <2>2, <2>3, <2>4, BeginsFine
  <1>5. ASSUME NEW c \in Callers, NEW r \in active, FinalizeSegment(c, r)
        PROVE  CallsFine
    BY <1>4, <1>5 DEF FinalizeSegment, Take, Goto, overlaps, Outcomes
  <1>6. ASSUME NEW c \in Callers, NEW r \in active, NEW stopped \in BOOLEAN,
               AbortSegment(c, r, stopped)
        PROVE  CallsFine
    <2>1. (~stopped) \in BOOLEAN /\ "partial" \in Outcomes
      BY DEF Outcomes
    <2>2. /\ pc' = [pc EXCEPT ![c] = "evidencing"] /\ active' = active \ {r}
          /\ work' = [work EXCEPT ![c] = [segment |-> r.segment, number |-> r.number,
                                          keep |-> ~stopped, result |-> "partial"]]
          /\ UNCHANGED <<used, started, outcome, warned, late, retaken>>
      BY <1>6 DEF AbortSegment, Goto, overlaps
    <2> QED
      BY <1>4, <2>1, <2>2
  <1>7. ASSUME NEW c \in Callers, RecoverSegment(c)
        PROVE  CallsFine
    <2> DEFINE w == [segment |-> owner.by, number |-> owner.number, keep |-> FALSE,
                     result |-> "none"]
    <2>1. /\ pc' = [pc EXCEPT ![c] = "recovering"] /\ work' = [work EXCEPT ![c] = w]
          /\ owner.readable /\ owner.by \in started
          /\ retaken' \subseteq retaken \cup {owner.by}
          /\ UNCHANGED <<active, used, started, outcome, warned, late>>
      BY <1>7 DEF RecoverSegment, Goto
    <2>2. owner.by \in used /\ owner.by \in Segments /\ owner.number \in Numbers
      BY <1>1, <2>1 DEF Kinds, Named, NoLock
    <2>3. w \in Work /\ w.segment = owner.by /\ w.number = owner.number
          /\ "recovering" \in Stages
      BY <2>2 DEF Work, Outcomes, Stages
    <2>4. used' \subseteq Segments /\ retaken' \subseteq Segments
      BY <1>1, <2>1, <2>2 DEF Kinds
    <2> HIDE DEF w
    <2> QED
      BY <1>1, <2>1, <2>2, <2>3, <2>4, BeginsFine
  <1>8. ASSUME NEW c \in Callers,
               \/ CreateLock(c) \/ SyncLock(c) \/ LockFails(c)
               \/ Begin(c) \/ \E resolved \in BOOLEAN : BeginFails(c, resolved)
               \/ Clear(c) \/ WriteEvidence(c) \/ Release(c) \/ ReleaseFails(c)
               \/ EngineFinalizes(c) \/ FinalizeFails(c)
               \/ InstallAudio(c) \/ SyncAudio(c) \/ InstallManifest(c) \/ SyncManifest(c)
               \/ Recovered(c)
        PROVE  CallsFine
    <2>1. pc[c] # "idle"
      BY <1>8 DEF CreateLock, SyncLock, LockFails, Begin, BeginFails, Clear, WriteEvidence,
                  Release, ReleaseFails, EngineFinalizes, FinalizeFails, InstallAudio,
                  SyncAudio, InstallManifest, SyncManifest, Recovered, Goto
    <2>2. \E to \in Stages : pc' = [pc EXCEPT ![c] = to]
      BY <1>8 DEF CreateLock, SyncLock, LockFails, Begin, BeginFails, Clear, WriteEvidence,
                  Release, ReleaseFails, EngineFinalizes, FinalizeFails, InstallAudio,
                  SyncAudio, InstallManifest, SyncManifest, Recovered, Goto, Ends, Stages
    <2>3. UNCHANGED outcome \/ \E r \in Outcomes : outcome' = [outcome EXCEPT ![S(c)] = r]
      <3>1. work[c].result \in Outcomes /\ {"failed", "started", "uncertain", "finalized"}
              \subseteq Outcomes
        BY <1>2 DEF Outcomes
      <3> QED
        BY <1>8, <3>1 DEF CreateLock, SyncLock, LockFails, Begin, BeginFails, Clear,
             WriteEvidence, Release, ReleaseFails, EngineFinalizes, FinalizeFails, InstallAudio,
             SyncAudio, InstallManifest, SyncManifest, Recovered, Ends
    <2>4. LocalsKept
      BY <1>1, <1>8, CallsLocals
    <2>5. /\ active' \subseteq active \cup {Recording(c)}
          /\ started' \subseteq started \cup {S(c)}
          /\ used' = used /\ late' \subseteq late \cup {N(c)} /\ retaken' = retaken
      BY <1>8 DEF CreateLock, SyncLock, LockFails, Begin, BeginFails, Clear, WriteEvidence,
                  Release, ReleaseFails, EngineFinalizes, FinalizeFails, InstallAudio,
                  SyncAudio, InstallManifest, SyncManifest, Recovered, Overlooks, overlaps
    <2>6. warned' \subseteq warned \cup {S(c)}
      BY <1>8 DEF CreateLock, SyncLock, LockFails, Begin, BeginFails, Clear, WriteEvidence,
                  Release, ReleaseFails, EngineFinalizes, FinalizeFails, InstallAudio,
                  SyncAudio, InstallManifest, SyncManifest, Recovered, SyncDirectory,
                  SyncDirectoryFails
    <2> QED
      BY <1>1, <2>1, <2>2, <2>3, <2>4, <2>5, <2>6, GoesOnFine
  <1>9. ASSUME (\E p \in Processes : Kill(p)) \/ LosePower \/ UNCHANGED vars
        PROVE  CallsFine
    <2>1. /\ pc' \in [Callers -> Stages] /\ \A c \in Callers : pc'[c] \in {pc[c], "idle"}
          /\ active' \subseteq active
          /\ UNCHANGED <<work, used, started, outcome, warned, late, retaken>>
      BY <1>1, <1>9 DEF Kill, LosePower, vars, overlaps, Kinds, Stages
    <2> QED
      BY <1>1, <2>1 DEF CallsFine, Kinds, S, N
  <1> QED
    BY <1>3, <1>5, <1>6, <1>7, <1>8, <1>9 DEF Next

\* The types, and one name for the audio, in every interleaving.
LEMMA GeneralStep ==
  ASSUME General, [Next]_vars
  PROVE  General'
  <1>1. FilesFine /\ CallsFine
    BY FilesStep, CallsStep
  <1> QED
    BY <1>1 DEF General, Kinds, FilesFine, CallsFine

\* Final audio keeps its name unless a start missed files of the number.
LEMMA AudioStays ==
  ASSUME General, [Next]_vars, ~LosePower, NEW n \in Numbers \ late,
         media[n].final # NoAudio
  PROVE  media'[n].final = media[n].final
  <1>1. Kinds /\ OneName(media[n]) /\ NoAudio.by = NoOne
    BY DEF General, NamesApart, NoAudio
  <1>2. ASSUME NEW c \in Callers,
               \/ Begin(c) \/ \E resolved \in BOOLEAN : BeginFails(c, resolved)
               \/ Clear(c) \/ EngineFinalizes(c)
        PROVE  media'[n].final = media[n].final
    <2>1. media \in [Numbers -> Media] /\ N(c) \in Numbers
      BY <1>1, <1>2 DEF Kinds, Begin, BeginFails, Clear, EngineFinalizes, Goto
    <2>2. \/ UNCHANGED media
          \/ \E a : media' = [media EXCEPT ![N(c)] = [media[N(c)] EXCEPT !.partial = a]]
          \/ \E a : media' = [media EXCEPT ![N(c)].partial = a]
          \/ media' = [media EXCEPT ![N(c)] = media[N(c)]]
      BY <1>2 DEF Begin, BeginFails, Clear, EngineFinalizes, PutMedia, SettleAudio
    <2> QED
      BY <2>1, <2>2 DEF Media
  <1>3. ASSUME NEW c \in Callers, InstallAudio(c)
        PROVE  media'[n].final = media[n].final
    <2>1. /\ N(c) \in Numbers /\ media[N(c)].partial # NoAudio
          /\ \A k \in Numbers : k # N(c) => media'[k] = media[k]
      BY <1>1, <1>3 DEF Kinds, InstallAudio, Goto, PutMedia
    <2> QED
      BY <1>1, <2>1 DEF OneName
  <1>4. \/ UNCHANGED media
        \/ \E c \in Callers :
              \/ Begin(c) \/ \E resolved \in BOOLEAN : BeginFails(c, resolved)
              \/ Clear(c) \/ EngineFinalizes(c) \/ InstallAudio(c)
    <2>1. ASSUME NEW c \in Callers,
                 \/ \E s \in Segments, k \in Numbers : Look(c, s, k)
                 \/ CreateLock(c) \/ SyncLock(c) \/ LockFails(c)
                 \/ WriteEvidence(c) \/ Release(c) \/ ReleaseFails(c)
                 \/ \E r \in active : FinalizeSegment(c, r)
                 \/ FinalizeFails(c) \/ SyncAudio(c) \/ InstallManifest(c) \/ SyncManifest(c)
                 \/ \E r \in active, stopped \in BOOLEAN : AbortSegment(c, r, stopped)
                 \/ RecoverSegment(c) \/ Recovered(c)
          PROVE  UNCHANGED media
      BY <2>1 DEF Look, CreateLock, SyncLock, LockFails, WriteEvidence, Release, ReleaseFails,
           FinalizeSegment, Take, FinalizeFails, SyncAudio, InstallManifest, SyncManifest,
           AbortSegment, RecoverSegment, Recovered, files
    <2>2. (\E p \in Processes : Kill(p)) \/ UNCHANGED vars => UNCHANGED media
      BY DEF Kill, vars, files
    <2> QED
      BY <2>1, <2>2 DEF Next
  <1> QED
    BY <1>2, <1>3, <1>4

-----------------------------------------------------------------------------
(* The lock, while nobody takes over a recording that somebody has.        *)

\* A call that has the lock goes on with it, or ends.
LEMMA HolderPasses ==
  ASSUME Kinds, LockHeld, NEW c \in Callers, pc[c] \in Past, NEW to \in Past \cup {"idle"},
         pc' = [pc EXCEPT ![c] = to], \A d \in Callers : S(d)' = S(d) /\ N(d)' = N(d),
         active' = active, owner' = owner \/ to = "idle"
  PROVE  LockHeld' /\ Owned'
  <1>1. /\ pc[c] \in Holding /\ owner = LockOf(c) /\ active = {}
        /\ \A d \in Callers : pc[d] \in Holding => d = c
    BY DEF LockHeld, Past
  <1>2. \A d \in Callers : pc'[d] = IF d = c THEN to ELSE pc[d]
    BY DEF Kinds
  <1>3. ASSUME NEW d \in Callers, pc'[d] \in Holding
        PROVE  d = c /\ owner' = owner /\ LockOf(d)' = owner
    BY <1>1, <1>2, <1>3 DEF Holding, LockOf
  <1>4. LockHeld'
    BY <1>1, <1>3 DEF LockHeld, LockOf
  <1>5. Owned'
    BY <1>1 DEF Owned
  <1> QED
    BY <1>4, <1>5

\* It ends and leaves the recording to its process.
LEMMA HolderRecords ==
  ASSUME Kinds, LockHeld, NEW c \in Callers, pc[c] \in Past,
         pc' = [pc EXCEPT ![c] = "idle"], active' = active \cup {Recording(c)}, owner' = owner
  PROVE  LockHeld' /\ Owned'
  <1>1. /\ pc[c] \in Holding /\ owner = LockOf(c) /\ active = {}
        /\ \A d \in Callers : pc[d] \in Holding => d = c
    BY DEF LockHeld, Past
  <1>2. \A d \in Callers : pc'[d] \notin Holding
    BY <1>1 DEF Kinds, Holding
  <1>3. LockHeld'
    BY <1>2 DEF LockHeld
  <1>4. Owned'
    BY <1>1 DEF Owned, LockOf, Recording
  <1> QED
    BY <1>3, <1>4

\* A call gets the lock, or a step towards it, when nobody has it.
LEMMA NewHolder ==
  ASSUME Kinds, NEW c \in Callers, NEW to \in Stages, pc' = [pc EXCEPT ![c] = to],
         \A d \in Callers \ {c} : pc[d] \notin Holding,
         owner'.by = S(c)', owner'.number = N(c)', to \in Past => owner' = LockOf(c)',
         active' = {}
  PROVE  LockHeld' /\ Owned'
  <1>1. \A d \in Callers : pc'[d] \in Holding => d = c /\ pc'[d] = to
    BY DEF Kinds
  <1> QED
    BY <1>1 DEF LockHeld, Owned

\* A call that has no lock yet, or no longer.
LEMMA NoHolder ==
  ASSUME Kinds, LockHeld, Owned, NEW c \in Callers, NEW to \in {"looked", "idle"},
         pc' = [pc EXCEPT ![c] = to],
         \A d \in Callers \ {c} : pc[d] \in Holding => S(d)' = S(d) /\ N(d)' = N(d),
         UNCHANGED active, owner' = owner \/ pc[c] \in Holding
  PROVE  LockHeld' /\ Owned'
  <1>1. ASSUME NEW d \in Callers, pc'[d] \in Holding
        PROVE  d # c /\ pc'[d] = pc[d] /\ S(d)' = S(d) /\ N(d)' = N(d) /\ LockOf(d)' = LockOf(d)
    <2>1. d # c /\ pc'[d] = pc[d]
      BY <1>1 DEF Kinds, Holding
    <2> QED
      BY <1>1, <2>1 DEF LockOf
  <1>2. ASSUME NEW d \in Callers, pc'[d] \in Holding
        PROVE  owner' = owner
    <2>1. d # c /\ pc[d] \in Holding
      BY <1>1, <1>2
    <2> QED
      BY <2>1 DEF LockHeld
  <1>3. LockHeld'
    BY <1>1, <1>2 DEF LockHeld
  <1>4. Owned'
    <2>1. active # {} => owner' = owner
      BY DEF LockHeld
    <2> QED
      BY <2>1 DEF Owned
  <1> QED
    BY <1>3, <1>4

\* A lock that is there names a segment.
LEMMA Someone ==
  ASSUME Kinds, LockHeld, Owned, owner = NoLock
  PROVE  active = {} /\ \A d \in Callers : pc[d] \notin Holding
  <1>1. \A d \in Callers : pc[d] \in Holding => S(d) \in Segments /\ owner.by = S(d)
    BY DEF Kinds, LockHeld, Holding
  <1> QED
    BY <1>1, RecorderAssumption DEF Owned, NoLock, RecorderAssumption

\* The lock a call has created is its own until the call has ended.
LEMMA OwnLock ==
  ASSUME Kinds, LockHeld, NEW c \in Callers, pc[c] = "locking"
  PROVE  /\ owner \in {Bare(c), LockOf(c)} /\ Written(c) = LockOf(c) /\ active = {}
         /\ \A d \in Callers : pc[d] \in Holding => d = c
  <1>1. /\ owner.by = S(c) /\ owner.number = N(c) /\ active = {}
        /\ \A d \in Callers : pc[d] \in Holding => d = c
    BY DEF LockHeld, Holding, Stages
  <1>2. owner \in {Bare(c), LockOf(c)}
    BY <1>1 DEF Kinds, Lock, Bare, LockOf
  <1>3. Written(c) = LockOf(c)
    <2>1. [owner EXCEPT !.readable = TRUE] = LockOf(c)
      <3> SUFFICES ASSUME NEW o, o = [owner EXCEPT !.readable = TRUE]
                   PROVE  o = LockOf(c)
        BY Zenon
      <3> QED
        BY <1>1 DEF Kinds, Lock, LockOf
    <2>2. CASE owner = Bare(c)
      BY <2>1, <2>2 DEF Written
    <2>3. CASE owner # Bare(c)
      BY <1>2, <2>3 DEF Written
    <2> QED
      BY <2>2, <2>3
  <1> QED
    BY <1>1, <1>2, <1>3

LEMMA LockStep ==
  ASSUME General, LockHeld, Owned, [Next]_vars, retaken' = {}
  PROVE  LockHeld' /\ Owned'
  <1>1. Kinds /\ LocksNamed
    BY DEF General
  <1>2. ASSUME NEW c \in Callers, NEW s \in Segments, NEW n \in Numbers, Look(c, s, n)
        PROVE  LockHeld' /\ Owned'
    <2>1. /\ pc' = [pc EXCEPT ![c] = "looked"] /\ UNCHANGED <<owner, active>>
          /\ \A d \in Callers \ {c} : S(d)' = S(d) /\ N(d)' = N(d)
      BY <1>1, <1>2 DEF Look, Goto, files, Kinds, S, N
    <2> QED
      BY <1>1, <2>1, NoHolder
  <1>3. ASSUME NEW c \in Callers, CreateLock(c)
        PROVE  LockHeld' /\ Owned'
    <2>1. /\ pc' = [pc EXCEPT ![c] = "locking"] /\ owner = NoLock /\ owner' = Bare(c)
          /\ UNCHANGED <<active, work>>
      BY <1>3 DEF CreateLock, Goto
    <2>2. active = {} /\ \A d \in Callers : pc[d] \notin Holding
      BY <1>1, <2>1, Someone
    <2>3. "locking" \in Stages /\ "locking" \notin Past
      BY DEF Stages, Past
    <2>4. owner'.by = S(c)' /\ owner'.number = N(c)'
      BY <2>1 DEF Bare, S, N
    <2> QED
      BY <1>1, <2>1, <2>2, <2>3, <2>4, NewHolder
  <1>4. ASSUME NEW c \in Callers, SyncLock(c)
        PROVE  LockHeld' /\ Owned'
    <2>1. /\ pc[c] = "locking" /\ pc' = [pc EXCEPT ![c] = "owned"] /\ owner' = Written(c)
          /\ UNCHANGED <<active, work>>
      BY <1>4 DEF SyncLock, Goto
    <2>2. /\ owner' = LockOf(c) /\ active = {}
          /\ \A d \in Callers : pc[d] \in Holding => d = c
      BY <1>1, <2>1, OwnLock
    <2>3. LockOf(c)' = LockOf(c) /\ owner'.by = S(c)' /\ owner'.number = N(c)'
          /\ "owned" \in Stages
      BY <2>1, <2>2 DEF LockOf, S, N, Stages
    <2> QED
      BY <1>1, <2>1, <2>2, <2>3, NewHolder
  <1>5. ASSUME NEW c \in Callers, LockFails(c)
        PROVE  LockHeld' /\ Owned'
    <2>1. /\ pc' = [pc EXCEPT ![c] = "idle"] /\ UNCHANGED <<active, work>>
          /\ pc[c] = "locking" \/ owner' = owner
      BY <1>5 DEF LockFails, Ends
    <2>2. \A d \in Callers : S(d)' = S(d) /\ N(d)' = N(d)
      BY <2>1 DEF S, N
    <2> QED
      BY <1>1, <2>1, <2>2, NoHolder DEF Holding, Stages
  <1>6. ASSUME NEW c \in Callers, Begin(c) \/ Recovered(c)
        PROVE  LockHeld' /\ Owned'
    <2>1. /\ pc[c] \in Past /\ pc' = [pc EXCEPT ![c] = "idle"]
          /\ active' = active \cup {Recording(c)} /\ owner' = owner
      BY <1>6 DEF Begin, Recovered, Goto, Ends, files, Past, Holding, Stages
    <2> QED
      BY <1>1, <2>1, HolderRecords
  <1>7. ASSUME NEW c \in Callers,
               \/ \E resolved \in BOOLEAN : BeginFails(c, resolved)
               \/ Clear(c) \/ WriteEvidence(c) \/ Release(c) \/ ReleaseFails(c)
               \/ EngineFinalizes(c) \/ FinalizeFails(c)
               \/ InstallAudio(c) \/ SyncAudio(c) \/ InstallManifest(c) \/ SyncManifest(c)
        PROVE  LockHeld' /\ Owned'
    <2>1. pc[c] \in Past
      BY <1>7 DEF BeginFails, Clear, WriteEvidence, Release, ReleaseFails, EngineFinalizes,
                  FinalizeFails, InstallAudio, SyncAudio, InstallManifest, SyncManifest, Goto,
                  Past, Holding, Stages
    <2>2. PICK to \in Past \cup {"idle"} :
            pc' = [pc EXCEPT ![c] = to] /\ (owner' = owner \/ to = "idle")
      BY <1>7 DEF BeginFails, Clear, WriteEvidence, Release, ReleaseFails, EngineFinalizes,
                  FinalizeFails, InstallAudio, SyncAudio, InstallManifest, SyncManifest, Goto,
                  Ends, files, Past, Holding, Stages
    <2>3. active' = active
      BY <1>7 DEF BeginFails, Clear, WriteEvidence, Release, ReleaseFails, EngineFinalizes,
                  FinalizeFails, InstallAudio, SyncAudio, InstallManifest, SyncManifest
    <2>4. \A d \in Callers : S(d)' = S(d) /\ N(d)' = N(d)
      BY <1>1, <1>7, CallsLocals DEF LocalsKept
    <2> QED
      BY <1>1, <2>1, <2>2, <2>3, <2>4, HolderPasses
  <1>8. ASSUME NEW c \in Callers, NEW r \in active,
               FinalizeSegment(c, r) \/ \E stopped \in BOOLEAN : AbortSegment(c, r, stopped)
        PROVE  LockHeld' /\ Owned'
    <2>1. PICK to \in {"finalizing", "evidencing"} : pc' = [pc EXCEPT ![c] = to]
      BY <1>8 DEF FinalizeSegment, Take, AbortSegment, Goto
    <2>2. /\ active' = active \ {r} /\ owner' = owner
          /\ S(c)' = r.segment /\ N(c)' = r.number
      BY <1>1, <1>8 DEF FinalizeSegment, Take, AbortSegment, files, Kinds, S, N
    <2>3. /\ active' = {} /\ owner = LockOf(c)' /\ \A d \in Callers : pc[d] \notin Holding
      BY <1>1, <2>2 DEF Kinds, Lock, Owned, LockHeld, LockOf
    <2> QED
      BY <1>1, <2>1, <2>2, <2>3, NewHolder DEF LockOf, Stages
  <1>9. ASSUME NEW c \in Callers, RecoverSegment(c)
        PROVE  LockHeld' /\ Owned'
    <2>1. /\ pc' = [pc EXCEPT ![c] = "recovering"] /\ UNCHANGED <<owner, active>>
          /\ owner.readable /\ ~Handled(owner.by)
          /\ S(c)' = owner.by /\ N(c)' = owner.number
      BY <1>1, <1>9 DEF RecoverSegment, Goto, files, Kinds, S, N
    <2>2. active = {} /\ \A d \in Callers : pc[d] \notin Holding
      BY <2>1 DEF Handled, Owned, LockHeld, Holding
    <2>3. owner = LockOf(c)' /\ "recovering" \in Stages
      BY <1>1, <2>1 DEF Kinds, Lock, LockOf, Stages
    <2> QED
      BY <1>1, <2>1, <2>2, <2>3, NewHolder
  <1>10. ASSUME (\E p \in Processes : Kill(p)) \/ LosePower \/ UNCHANGED vars
         PROVE  LockHeld' /\ Owned'
    <2>1. /\ \A d \in Callers : pc'[d] \in {pc[d], "idle"}
          /\ active' \subseteq active
          /\ active' # {} \/ (\E d \in Callers : pc'[d] \in Holding) => owner' = owner
          /\ UNCHANGED work
      BY <1>1, <1>10 DEF Kill, LosePower, vars, files, Kinds, Holding
    <2>2. \A d \in Callers : pc'[d] \in Holding => pc[d] = pc'[d] /\ LockOf(d)' = LockOf(d)
      BY <2>1 DEF Holding, LockOf, S, N
    <2>3. \A d \in Callers : S(d)' = S(d) /\ N(d)' = N(d)
      BY <2>1 DEF S, N
    <2>4. LockHeld'
      BY <2>1, <2>2, <2>3 DEF LockHeld
    <2>5. Owned'
      BY <2>1 DEF Owned
    <2> QED
      BY <2>4, <2>5
  <1> QED
    BY <1>2, <1>3, <1>4, <1>5, <1>6, <1>7, <1>8, <1>9, <1>10 DEF Next

-----------------------------------------------------------------------------
(* The files, while no start or recovery crosses another call.             *)

\* What is there is among what a loss of power may leave; of a recording there is
\* the partial or the final audio; a manifest is of a segment.
SensibleAt(n) ==
  /\ media[n] \in exposed.media[n] /\ manifest[n] \in exposed.manifest[n]
  /\ \A m \in exposed.media[n] : OneName(m)
  /\ \A m \in exposed.manifest[n] : m.kind = "none" \/ m.by # NoOne

Sensible == owner \in exposed.owner /\ \A n \in Numbers : SensibleAt(n)

\* The lock of a call that has synchronised it survives.
LockDurable == \A c \in Callers : pc[c] \in Past => exposed.owner = {owner}

\* Nothing has happened to a segment that is not yet recorded.
Fresh(s) == s \notin started /\ outcome[s] = "none" /\ \A o \in exposed.owner : o.by # s

NewSegments ==
  /\ \A s \in Segments \ used : Fresh(s)
  /\ \A c \in Callers :
       /\ pc[c] = "looked" =>
            Fresh(S(c)) /\ \A d \in Callers : pc[d] = "looked" /\ S(d) = S(c) => d = c
       /\ pc[c] \in {"locking", "owned"} => S(c) \notin started /\ outcome[S(c)] = "none"

\* The lock of a segment that was recorded is durable, and the files of the number
\* are those of the segment.
ByOnly(s, m) == m.partial.by \in {NoOne, s} /\ m.final.by \in {NoOne, s}

FilesBy(s, n) ==
  /\ \A m \in exposed.media[n] : ByOnly(s, m)
  /\ \A m \in exposed.manifest[n] : m.by \in {NoOne, s}

RecordedFiles ==
  /\ owner.by \in started => exposed.owner = {owner}
  /\ \A o \in exposed.owner : o.by \in started => FilesBy(o.by, o.number)

\* What each stage of a call has found or done.
Stopping == {"finalizing", "installing", "syncing", "describing", "confirming", "recovering"}

InPartial(s, n) == media[n].partial.by = s /\ media[n].final = NoAudio
InFinal(s, n) == media[n].partial = NoAudio /\ media[n].final.by = s /\ media[n].final.whole

ProgressOf(c) ==
  /\ pc[c] \in {"locking", "owned"} => Unused(N(c))
  /\ pc[c] = "owned" =>
       /\ exposed.media[N(c)] = {media[N(c)]}
       /\ exposed.manifest[N(c)] = {manifest[N(c)]}
  /\ pc[c] \in Stopping => S(c) \in started
  /\ pc[c] \in {"recovering", "finalizing", "installing"} => InPartial(S(c), N(c))
  /\ pc[c] = "installing" => media[N(c)].partial.whole
  /\ pc[c] \in {"evidencing", "clearing"} =>
       media[N(c)].final = NoAudio /\ work[c].result # "finalized"
  /\ \/ pc[c] \in {"syncing", "describing", "confirming"}
     \/ pc[c] = "releasing" /\ work[c].result = "finalized"
     => InFinal(S(c), N(c))
  /\ \/ pc[c] = "confirming"
     \/ pc[c] = "releasing" /\ work[c].result = "finalized"
     => manifest[N(c)] = [by |-> S(c), kind |-> "finalized"]

Progress ==
  /\ \A r \in active : r.segment \in started /\ InPartial(r.segment, r.number)
  /\ \A c \in Callers : ProgressOf(c)

\* The bytes of audio are synced before it gets its final name, and its entry is
\* durable before there is a manifest.
SyncedBy(c) ==
  /\ pc[c] = "installing" => media[N(c)].partial.synced
  /\ \/ pc[c] \in {"syncing", "describing", "confirming"}
     \/ pc[c] = "releasing" /\ work[c].result = "finalized"
     => media[N(c)].final.synced
  /\ pc[c] = "describing" /\ S(c) \notin warned => exposed.media[N(c)] = {media[N(c)]}

BytesSynced == \A c \in Callers : SyncedBy(c)

RecorderInvariant ==
  Basics /\ Sensible /\ LockDurable /\ NewSegments /\ RecordedFiles /\ Progress

\* What ManifestHonest and FinalizedDurable say of calls that keep apart.
HonestAt(k) ==
  \A m \in exposed.manifest[k] :
    m.kind = "finalized" /\ m.by \notin warned =>
      \A x \in PossibleMedia(k) : x.final.by = m.by /\ x.final.whole

Honest == \A k \in Numbers : HonestAt(k)

\* The segment is finalized under the number for good.
Holds(s, k) ==
  /\ \A m \in exposed.manifest[k] : m.by = s /\ m.kind = "finalized"
  /\ \A x \in PossibleMedia(k) : x.final.by = s /\ x.final.whole

Durable ==
  \A s \in Segments :
    outcome[s] = "finalized" /\ s \notin warned =>
      (\A o \in exposed.owner : o.by # s) /\ \E k \in Numbers : Holds(s, k)

DurableInvariant == BytesSynced /\ Honest /\ Durable

-----------------------------------------------------------------------------
(* The files of one number change, those of the others may become durable. *)

OthersKept(n) ==
  \A k \in Numbers \ {n} :
    /\ media'[k] = media[k] /\ manifest'[k] = manifest[k]
    /\ media[k] \in exposed'.media[k] /\ exposed'.media[k] \subseteq exposed.media[k]
    /\ manifest[k] \in exposed'.manifest[k]
    /\ exposed'.manifest[k] \subseteq exposed.manifest[k]

LEMMA PutMediaKeeps ==
  ASSUME Kinds, Sensible, NEW n \in Numbers, NEW v \in Media, OneName(v), PutMedia(n, v),
         UNCHANGED manifest
  PROVE  /\ OthersKept(n) /\ SensibleAt(n)'
         /\ \A s : FilesBy(s, n) /\ ByOnly(s, v) => FilesBy(s, n)'
         /\ media' \in [Numbers -> Media] /\ media'[n] = v
         /\ exposed' \in Exposures /\ exposed'.owner = exposed.owner
         /\ exposed'.manifest = exposed.manifest
  <1>1. /\ media' = [media EXCEPT ![n] = v] /\ media' \in [Numbers -> Media]
        /\ exposed' \in Exposures
        /\ exposed'.media = [exposed.media EXCEPT ![n] = @ \cup {v}]
        /\ exposed'.manifest = exposed.manifest /\ exposed'.owner = exposed.owner
    BY PutMediaShape
  <1>2. /\ \A k \in Numbers \ {n} : exposed'.media[k] = exposed.media[k]
        /\ exposed'.media[n] = exposed.media[n] \cup {v} /\ media'[n] = v
        /\ \A k \in Numbers \ {n} : media'[k] = media[k]
    BY <1>1, ExposedParts DEF Kinds
  <1>3. OthersKept(n)
    BY <1>1, <1>2 DEF OthersKept, Sensible, SensibleAt
  <1>4. SensibleAt(n)'
    BY <1>1, <1>2 DEF Sensible, SensibleAt, OneName
  <1>5. \A s : FilesBy(s, n) /\ ByOnly(s, v) => FilesBy(s, n)'
    BY <1>1, <1>2 DEF FilesBy, ByOnly
  <1> QED
    BY <1>1, <1>2, <1>3, <1>4, <1>5

LEMMA SettleKeeps ==
  ASSUME Kinds, Sensible, NEW n \in Numbers, NEW v \in Audio, media[n].final = NoAudio,
         media[n].partial # NoAudio, SettleAudio(n, v), UNCHANGED manifest
  PROVE  /\ OthersKept(n) /\ SensibleAt(n)'
         /\ \A s : FilesBy(s, n) /\ v.by \in {NoOne, s} => FilesBy(s, n)'
         /\ media' \in [Numbers -> Media] /\ media'[n] = [partial |-> v, final |-> NoAudio]
         /\ exposed' \in Exposures /\ exposed'.owner = exposed.owner
         /\ exposed'.manifest = exposed.manifest
  <1>1. /\ media' = [media EXCEPT ![n] = [partial |-> v, final |-> media[n].final]]
        /\ media' \in [Numbers -> Media]
        /\ exposed' \in Exposures
        /\ exposed'.manifest = exposed.manifest /\ exposed'.owner = exposed.owner
        /\ \A k \in Numbers \ {n} : exposed'.media[k] = exposed.media[k]
        /\ media[n] \in exposed.media[n] => media'[n] \in exposed'.media[n]
        /\ \A x \in exposed'.media[n] :
             \E m \in exposed.media[n] :
               \/ x = m
               \/ m.partial = media[n].partial /\ x = [partial |-> v, final |-> m.final]
    BY SettleShape
  <1>2. /\ media'[n] = [partial |-> v, final |-> NoAudio]
        /\ \A k \in Numbers \ {n} : media'[k] = media[k]
    BY <1>1 DEF Kinds
  <1>3. OthersKept(n)
    BY <1>1, <1>2 DEF OthersKept, Sensible, SensibleAt
  <1>4. \A x \in exposed'.media[n] : OneName(x)
    BY <1>1 DEF Sensible, SensibleAt, OneName
  <1>5. SensibleAt(n)'
    BY <1>1, <1>2, <1>4 DEF Sensible, SensibleAt
  <1>6. ASSUME NEW s, FilesBy(s, n), v.by \in {NoOne, s}
        PROVE  FilesBy(s, n)'
    <2>1. \A x \in exposed'.media[n] : ByOnly(s, x)
      BY <1>1, <1>6 DEF FilesBy, ByOnly
    <2> QED
      BY <1>1, <1>6, <2>1 DEF FilesBy
  <1> QED
    BY <1>1, <1>2, <1>3, <1>5, <1>6

LEMMA SyncKeeps ==
  ASSUME Kinds, Sensible, NEW n \in Numbers,
         media' \in [Numbers -> Media], manifest' \in [Numbers -> Manifest], owner' \in Lock,
         \A k \in Numbers \ {n} : media'[k] = media[k] /\ manifest'[k] = manifest[k],
         OneName(media'[n]), manifest'[n].kind = "none" \/ manifest'[n].by # NoOne,
         exposed' = Synced(media', manifest', owner')
  PROVE  /\ OthersKept(n) /\ SensibleAt(n)'
         /\ exposed'.media[n] = {media'[n]} /\ exposed'.manifest[n] = {manifest'[n]}
         /\ \A s : ByOnly(s, media'[n]) /\ manifest'[n].by \in {NoOne, s} => FilesBy(s, n)'
         /\ exposed' \in Exposures /\ exposed'.owner = {owner'}
  <1>1. /\ exposed' \in Exposures /\ exposed'.owner = {owner'}
        /\ \A k \in Numbers : /\ exposed'.media[k] = {media'[k]}
                              /\ exposed'.manifest[k] = {manifest'[k]}
    BY SyncShape
  <1>2. OthersKept(n)
    BY <1>1 DEF OthersKept, Sensible, SensibleAt
  <1>3. SensibleAt(n)'
    BY <1>1 DEF SensibleAt, OneName
  <1>4. \A s : ByOnly(s, media'[n]) /\ manifest'[n].by \in {NoOne, s} => FilesBy(s, n)'
    BY <1>1 DEF FilesBy, ByOnly
  <1> QED
    BY <1>1, <1>2, <1>3, <1>4

LEMMA SyncFailsKeeps ==
  ASSUME Kinds, Sensible, NEW n \in Numbers, NEW c \in Callers,
         UNCHANGED media, manifest' \in [Numbers -> Manifest], owner' \in Lock,
         \A k \in Numbers \ {n} : manifest'[k] = manifest[k],
         manifest'[n].kind = "none" \/ manifest'[n].by # NoOne,
         SyncDirectoryFails(c)
  PROVE  /\ OthersKept(n) /\ SensibleAt(n)'
         /\ exposed'.media = exposed.media
         /\ exposed'.manifest[n] = exposed.manifest[n] \cup {manifest'[n]}
         /\ \A s : FilesBy(s, n) /\ manifest'[n].by \in {NoOne, s} => FilesBy(s, n)'
         /\ exposed' \in Exposures /\ exposed'.owner = exposed.owner \cup {owner'}
         /\ warned' = warned \cup {S(c)}
  <1>1. /\ exposed' \in Exposures /\ exposed'.owner = exposed.owner \cup {owner'}
        /\ exposed'.media = exposed.media
        /\ \A k \in Numbers :
             exposed'.manifest[k] = exposed.manifest[k] \cup {manifest'[k]}
    BY SyncFailsShape
  <1>2. OthersKept(n)
    BY <1>1 DEF OthersKept, Sensible, SensibleAt
  <1>3. SensibleAt(n)'
    BY <1>1 DEF Sensible, SensibleAt
  <1>4. \A s : FilesBy(s, n) /\ manifest'[n].by \in {NoOne, s} => FilesBy(s, n)'
    BY <1>1 DEF FilesBy
  <1>5. warned' = warned \cup {S(c)}
    BY DEF SyncDirectoryFails
  <1> QED
    BY <1>1, <1>2, <1>3, <1>4, <1>5

-----------------------------------------------------------------------------
(* A step of a call that has the lock.                                     *)

\* It is about its segment and its number, and leaves the others alone, though it
\* may make what is there of them durable; it may end, and then release the lock
\* or leave the recording to the process.
HolderStep(c, to) ==
  /\ pc[c] \in Past /\ to \in (Past \ {"owned"}) \cup {"idle"}
  /\ pc' = [pc EXCEPT ![c] = to]
  /\ \A d \in Callers : S(d)' = S(d) /\ N(d)' = N(d)
  /\ used' = used /\ warned \subseteq warned'
  /\ started' \in {started, started \cup {S(c)}}
  /\ \A s \in Segments \ {S(c)} : outcome'[s] = outcome[s]
  /\ \/ owner' = owner /\ exposed'.owner = {owner}
     \/ /\ to = "idle" /\ owner' = NoLock
        /\ NoLock \in exposed'.owner /\ exposed'.owner \subseteq {owner, NoLock}
  /\ \/ active' = {}
     \/ to = "idle" /\ owner' = owner /\ active' = {Recording(c)}
  /\ OthersKept(N(c))

\* A step that cannot make the recording a finished one: there is no final audio.
OpenStep(c) ==
  /\ \E to : HolderStep(c, to)
  /\ media[N(c)].final = NoAudio
  /\ exposed'.manifest[N(c)] \subseteq
       exposed.manifest[N(c)] \cup {[by |-> S(c), kind |-> "failed"]}
  /\ outcome'[S(c)] = "finalized" => outcome[S(c)] = "finalized"
  /\ Engine = "synthetic" /\ SyncedBy(c) => SyncedBy(c)'

\* A step that leaves the files as they are; it may make them durable, and put the
\* lock of a segment there that is not reported as finalized.
QuietStep ==
  /\ UNCHANGED <<media, manifest, warned>>
  /\ \A k \in Numbers :
       /\ media[k] \in exposed'.media[k] /\ exposed'.media[k] \subseteq exposed.media[k]
       /\ exposed'.manifest[k] \subseteq exposed.manifest[k]
  /\ \A s \in Segments : outcome'[s] = "finalized" => outcome[s] = "finalized"
  /\ \A o \in exposed'.owner : o \in exposed.owner \/ outcome'[o.by] # "finalized"
  /\ \A d \in Callers :
       \/ pc'[d] = pc[d] /\ work'[d] = work[d]
       \/ pc'[d] \in Stages \ {"installing", "syncing", "describing", "confirming", "releasing"}

\* It keeps the invariant if the files of its number and its own progress are right.
LEMMA HolderKeeps ==
  ASSUME RecorderInvariant, Basics',
         NEW c \in Callers, NEW to, HolderStep(c, to),
         NEW s, s = S(c), NEW n, n = N(c),
         SensibleAt(n)', s \in started' => FilesBy(s, n)', ProgressOf(c)',
         active' # {} => s \in started' /\ InPartial(s, n)'
  PROVE  RecorderInvariant'
  <1>1. /\ Kinds /\ LockHeld /\ Sensible /\ LockDurable /\ NewSegments /\ RecordedFiles
        /\ Progress
    BY DEF RecorderInvariant, Basics, General
  <1>2. /\ pc[c] \in Holding /\ s \in used /\ s \in Segments /\ n \in Numbers
        /\ owner = [by |-> s, number |-> n, readable |-> TRUE]
        /\ exposed.owner = {owner} /\ active = {}
        /\ \A d \in Callers : pc[d] \in Holding => d = c
    <2>1. pc[c] \in Past /\ pc[c] \in Holding /\ pc[c] # "idle"
      BY DEF HolderStep, Past, Holding
    <2> QED
      BY <1>1, <2>1 DEF Kinds, LockHeld, LockDurable, LockOf
  <1>3. /\ \A d \in Callers : pc'[d] = IF d = c THEN to ELSE pc[d]
        /\ to # "looked" /\ (to \in Holding => to \in Past)
    BY <1>1 DEF HolderStep, Kinds, Past, Holding
  <1>4. s # NoOne /\ NoLock.by = NoOne /\ NoOne \notin started
    BY <1>1, <1>2, RecorderAssumption DEF HolderStep, Kinds, RecorderAssumption, NoLock
  <1>5. Sensible'
    <2>1. owner' \in exposed'.owner
      BY DEF HolderStep
    <2>2. ASSUME NEW k \in Numbers
          PROVE  SensibleAt(k)'
      BY <1>1, <2>2 DEF HolderStep, OthersKept, Sensible, SensibleAt
    <2> QED
      BY <2>1, <2>2 DEF Sensible
  <1>6. LockDurable'
    <2>1. ASSUME NEW d \in Callers, pc'[d] \in Past
          PROVE  exposed'.owner = {owner'}
      <3>1. d = c /\ to # "idle"
        BY <1>2, <1>3, <2>1 DEF Past, Holding
      <3> QED
        BY <3>1 DEF HolderStep
    <2> QED
      BY <2>1 DEF LockDurable
  <1>7. NewSegments'
    <2>1. ASSUME NEW x \in Segments, x # s, Fresh(x)
          PROVE  Fresh(x)'
      <3>1. x \notin started' /\ outcome'[x] = "none"
        BY <1>2, <2>1 DEF Fresh, HolderStep
      <3>2. exposed'.owner \subseteq {owner, NoLock} /\ owner.by = s /\ x # NoOne
        BY <1>2, <2>1, RecorderAssumption DEF HolderStep, RecorderAssumption
      <3> QED
        BY <1>4, <2>1, <3>1, <3>2 DEF Fresh
    <2>2. ASSUME NEW d \in Callers, pc'[d] = "looked"
          PROVE  d # c /\ pc[d] = "looked" /\ S(d)' = S(d)
      BY <1>3, <2>2 DEF HolderStep
    <2>3. ASSUME NEW d \in Callers, pc'[d] = "looked"
          PROVE  Fresh(S(d))'
      <3>1. S(d) \in Segments /\ S(d) # s /\ Fresh(S(d))
        BY <1>1, <1>2, <2>2, <2>3 DEF NewSegments, Fresh, Kinds
      <3> QED
        BY <2>1, <2>2, <2>3, <3>1 DEF Fresh
    <2>4. ASSUME NEW d \in Callers, NEW e \in Callers, pc'[d] = "looked", pc'[e] = "looked",
                 S(e)' = S(d)'
          PROVE  e = d
      BY <1>1, <2>2, <2>4 DEF NewSegments
    <2>5. ASSUME NEW d \in Callers, pc'[d] \in {"locking", "owned"}
          PROVE  FALSE
      BY <1>2, <1>3, <2>5 DEF HolderStep, Past, Holding, Stages
    <2>6. \A x \in Segments \ used' : Fresh(x)'
      BY <1>1, <1>2, <2>1 DEF NewSegments, HolderStep
    <2> QED
      BY <2>3, <2>4, <2>5, <2>6 DEF NewSegments
  <1>8. RecordedFiles'
    <2>1. owner'.by \in started' => exposed'.owner = {owner'}
      BY <1>2, <1>4 DEF HolderStep
    <2>2. ASSUME NEW o \in exposed'.owner, o.by \in started'
          PROVE  FilesBy(o.by, o.number)'
      BY <1>2, <1>4, <2>2 DEF HolderStep
    <2> QED
      BY <2>1, <2>2 DEF RecordedFiles
  <1>9. Progress'
    <2>1. ASSUME NEW d \in Callers, d # c
          PROVE  ProgressOf(d)'
      <3>1. pc'[d] \in {"idle", "looked"}
        BY <1>1, <1>2, <1>3, <2>1 DEF Kinds, Holding
      <3> QED
        BY <3>1 DEF ProgressOf, Stopping
    <2>2. ASSUME NEW r \in active'
          PROVE  r.segment \in started' /\ InPartial(r.segment, r.number)'
      BY <1>2, <2>2 DEF HolderStep, Recording
    <2> QED
      BY <2>1, <2>2 DEF Progress
  <1> QED
    BY <1>5, <1>6, <1>7, <1>8, <1>9 DEF RecorderInvariant

\* What is known of a call that has the lock.
LEMMA HolderKnown ==
  ASSUME RecorderInvariant, NEW c \in Callers, pc[c] \in Past
  PROVE  /\ Kinds /\ Sensible /\ ProgressOf(c) /\ SensibleAt(N(c))
         /\ S(c) \in Segments /\ S(c) \in used /\ S(c) # NoOne /\ N(c) \in Numbers
         /\ owner = LockOf(c) /\ exposed.owner = {owner} /\ active = {}
         /\ S(c) \in started => FilesBy(S(c), N(c))
         /\ work[c] \in Work /\ NoOne \notin started
  <1>1. /\ Kinds /\ Sensible /\ LockHeld /\ LockDurable /\ Progress /\ RecordedFiles
        /\ pc[c] \in Holding /\ pc[c] # "idle"
    BY DEF RecorderInvariant, Basics, General, Past, Holding
  <1>2. /\ S(c) \in used /\ S(c) \in Segments /\ N(c) \in Numbers /\ work[c] \in Work
        /\ NoOne \notin started
    BY <1>1, RecorderAssumption DEF Kinds, RecorderAssumption
  <1>3. owner = LockOf(c) /\ exposed.owner = {owner} /\ active = {}
    BY <1>1 DEF LockHeld, LockDurable
  <1>4. S(c) \in started => FilesBy(S(c), N(c))
    BY <1>1, <1>3 DEF RecordedFiles, LockOf
  <1> QED
    BY <1>1, <1>2, <1>3, <1>4, RecorderAssumption DEF Sensible, Progress, RecorderAssumption

LEMMA SameFiles ==
  ASSUME Sensible, NEW n \in Numbers, UNCHANGED <<media, manifest, exposed>>
  PROVE  OthersKept(n) /\ SensibleAt(n)' /\ \A s : FilesBy(s, n) => FilesBy(s, n)'
  BY DEF OthersKept, Sensible, SensibleAt, FilesBy

\* Audio that is being recorded.
LEMMA GrowingAudio ==
  ASSUME NEW s \in Segments
  PROVE  LET v == [partial |-> Growing(s), final |-> NoAudio] IN
         v \in Media /\ OneName(v) /\ ByOnly(s, v)
  <1>1. Growing(s) \in Audio /\ NoAudio \in Audio /\ Growing(s).by = s /\ NoAudio.by = NoOne
    BY DEF Audio, Growing, NoAudio
  <1> QED
    BY <1>1 DEF Media, OneName, ByOnly

LEMMA BeginKeeps ==
  ASSUME RecorderInvariant, Basics', NEW c \in Callers, Begin(c),
         NEW s, s = S(c), NEW n, n = N(c)
  PROVE  RecorderInvariant' /\ OpenStep(c)
  <1> DEFINE v == [partial |-> Growing(s), final |-> NoAudio]
  <1>1. /\ pc[c] = "owned" /\ pc[c] \in Past
        /\ PutMedia(n, [media[n] EXCEPT !.partial = Growing(s)])
        /\ active' = active \cup {Recording(c)} /\ started' = started \cup {s}
        /\ pc' = [pc EXCEPT ![c] = "idle"] /\ outcome' = [outcome EXCEPT ![s] = "started"]
        /\ UNCHANGED <<manifest, owner, work, used, warned>>
    BY DEF Begin, Ends, Past, Holding, Stages
  <1>2. /\ Kinds /\ Sensible /\ ProgressOf(c) /\ SensibleAt(n)
        /\ s \in Segments /\ s # NoOne /\ n \in Numbers
        /\ owner = LockOf(c) /\ exposed.owner = {owner} /\ active = {}
    BY <1>1, HolderKnown
  <1>3. /\ media[n] = [partial |-> NoAudio, final |-> NoAudio] /\ manifest[n] = NoManifest
        /\ exposed.media[n] = {media[n]} /\ exposed.manifest[n] = {manifest[n]}
    BY <1>1, <1>2 DEF ProgressOf, Unused
  <1>4. v \in Media /\ OneName(v) /\ ByOnly(s, v) /\ PutMedia(n, v)
    <2>1. v = [media[n] EXCEPT !.partial = Growing(s)]
      BY <1>3
    <2> QED
      BY <1>1, <1>2, <2>1, GrowingAudio
  <1>5. FilesBy(s, n)
    BY <1>3 DEF FilesBy, ByOnly, NoAudio, NoManifest
  <1> HIDE DEF v
  <1>6. /\ OthersKept(n) /\ SensibleAt(n)' /\ FilesBy(s, n)'
        /\ media' \in [Numbers -> Media] /\ media'[n] = v
        /\ exposed' \in Exposures /\ exposed'.owner = exposed.owner
        /\ exposed'.manifest = exposed.manifest
    BY <1>1, <1>2, <1>4, <1>5, PutMediaKeeps
  <1>7. \A d \in Callers : S(d)' = S(d) /\ N(d)' = N(d)
    BY <1>1 DEF S, N
  <1>8. HolderStep(c, "idle")
    BY <1>1, <1>2, <1>6, <1>7 DEF HolderStep, Kinds
  <1>9. pc'[c] = "idle"
    BY <1>1, <1>2 DEF Kinds
  <1>10. ProgressOf(c)'
    BY <1>9 DEF ProgressOf, Stopping
  <1>11. InPartial(s, n)'
    BY <1>6 DEF InPartial, v, Growing
  <1>12. s \in started'
    BY <1>1
  <1>13. RecorderInvariant'
    BY <1>6, <1>8, <1>10, <1>11, <1>12, HolderKeeps
  <1>14. OpenStep(c)
    <2>1. outcome'[s] # "finalized"
      BY <1>1, <1>2 DEF Kinds
    <2>2. SyncedBy(c)'
      BY <1>9 DEF SyncedBy
    <2> QED
      BY <1>3, <1>6, <1>8, <2>1, <2>2 DEF OpenStep
  <1> QED
    BY <1>13, <1>14

\* A step that records nothing new.
LEMMA HolderGoesOn ==
  ASSUME RecorderInvariant, Basics', NEW c \in Callers, NEW s, s = S(c), NEW n, n = N(c),
         pc[c] \in Past, NEW to \in (Past \ {"owned"}) \cup {"idle"},
         pc' = [pc EXCEPT ![c] = to],
         LocalsKept,
         UNCHANGED outcome \/ \E r \in Outcomes : outcome' = [outcome EXCEPT ![s] = r],
         UNCHANGED <<active, used, started>>, warned' \in {warned, warned \cup {s}},
         \/ owner' = owner /\ exposed'.owner = {owner}
         \/ /\ to = "idle" /\ owner' = NoLock
            /\ NoLock \in exposed'.owner /\ exposed'.owner \subseteq {owner, NoLock},
         OthersKept(n), SensibleAt(n)', s \in started => FilesBy(s, n)', ProgressOf(c)'
  PROVE  RecorderInvariant' /\ HolderStep(c, to)
  <1>1. Kinds /\ active = {}
    BY HolderKnown
  <1>2. \A d \in Callers : S(d)' = S(d) /\ N(d)' = N(d)
    BY DEF LocalsKept
  <1>3. \A x \in Segments \ {s} : outcome'[x] = outcome[x]
    BY <1>1 DEF Kinds
  <1>4. HolderStep(c, to)
    BY <1>1, <1>2, <1>3 DEF HolderStep
  <1> QED
    BY <1>1, <1>4, HolderKeeps

LEMMA BeginFailsKeeps ==
  ASSUME RecorderInvariant, Basics', NEW c \in Callers, NEW resolved \in BOOLEAN,
         BeginFails(c, resolved), NEW s, s = S(c), NEW n, n = N(c)
  PROVE  RecorderInvariant' /\ OpenStep(c)
  <1> DEFINE v == [partial |-> Growing(s), final |-> NoAudio]
  <1>1. /\ pc[c] = "owned" /\ pc[c] \in Past
        /\ work' = [work EXCEPT ![c].keep = ~resolved, ![c].result = "partial"]
        /\ UNCHANGED <<manifest, owner, active, used, started, warned>>
    BY DEF BeginFails, Past, Holding, Stages
  <1>2. /\ Kinds /\ Sensible /\ ProgressOf(c) /\ SensibleAt(n)
        /\ s \in Segments /\ s # NoOne /\ n \in Numbers
        /\ owner = LockOf(c) /\ exposed.owner = {owner} /\ active = {}
        /\ s \in started => FilesBy(s, n)
    BY <1>1, HolderKnown
  <1>3. /\ media[n] = [partial |-> NoAudio, final |-> NoAudio] /\ manifest[n] = NoManifest
    BY <1>1, <1>2 DEF ProgressOf, Unused
  <1>4. PICK to \in {"evidencing", "clearing", "idle"} :
          /\ pc' = [pc EXCEPT ![c] = to]
          /\ UNCHANGED outcome \/ outcome' = [outcome EXCEPT ![s] = "uncertain"]
          /\ PutMedia(n, v) \/ UNCHANGED <<media, exposed>>
    <2>1. v = [media[n] EXCEPT !.partial = Growing(s)] /\ Overwrites(n)
      BY <1>3 DEF Overwrites
    <2> HIDE DEF v
    <2> QED
      BY <2>1 DEF BeginFails, Ends
  <1>5. v \in Media /\ OneName(v) /\ ByOnly(s, v)
    BY <1>2, GrowingAudio
  <1>6. v.final = NoAudio
    OBVIOUS
  <1> HIDE DEF v
  <1>7. /\ OthersKept(n) /\ SensibleAt(n)' /\ (s \in started => FilesBy(s, n)')
        /\ media' \in [Numbers -> Media] /\ media'[n].final = NoAudio
        /\ exposed' \in Exposures /\ exposed'.owner = exposed.owner
        /\ exposed'.manifest = exposed.manifest
    <2>1. CASE PutMedia(n, v)
      BY <1>1, <1>2, <1>5, <1>6, <2>1, PutMediaKeeps
    <2>2. CASE UNCHANGED <<media, exposed>>
      BY <1>1, <1>2, <1>3, <2>2, SameFiles DEF Kinds
    <2> QED
      BY <1>4, <2>1, <2>2
  <1>8. pc'[c] = to /\ N(c)' = n /\ work'[c].result = "partial" /\ LocalsKept
    <2>1. PICK keep \in BOOLEAN :
            work' = [work EXCEPT ![c].keep = keep, ![c].result = "partial"]
      <3>1. (~resolved) \in BOOLEAN
        OBVIOUS
      <3>2. \E keep \in BOOLEAN :
              work' = [work EXCEPT ![c].keep = keep, ![c].result = "partial"]
        <4> WITNESS (~resolved) \in BOOLEAN
        <4> QED
          BY <1>1
      <3> QED
        BY <3>2
    <2>2. "partial" \in Outcomes
      BY DEF Outcomes
    <2>3. LocalsKept
      BY <1>2, <2>1, <2>2, WorkKeeps
    <2>4. work'[c].result = "partial"
      BY <1>2, <2>1 DEF Kinds, Work
    <2> QED
      BY <1>2, <1>4, <2>3, <2>4 DEF Kinds, LocalsKept
  <1>9. ProgressOf(c)'
    BY <1>4, <1>7, <1>8 DEF ProgressOf, Stopping
  <1>10. /\ "partial" \in Outcomes /\ "uncertain" \in Outcomes
         /\ to \in (Past \ {"owned"}) \cup {"idle"}
    BY DEF Outcomes, Past, Holding, Stages
  <1>11. manifest' \in [Numbers -> Manifest]
    BY <1>1, <1>2 DEF Kinds
  <1> QED
    <2>1. UNCHANGED outcome \/ \E r \in Outcomes : outcome' = [outcome EXCEPT ![s] = r]
      BY <1>4, <1>10
    <2>2. /\ UNCHANGED <<active, used, started>> /\ warned' \in {warned, warned \cup {s}}
          /\ owner' = owner /\ exposed'.owner = {owner} /\ pc[c] \in Past
          /\ pc' = [pc EXCEPT ![c] = to]
      BY <1>1, <1>2, <1>4, <1>7
    <2>3. RecorderInvariant' /\ HolderStep(c, to)
      BY <1>7, <1>8, <1>9, <1>10, <1>11, <2>1, <2>2, HolderGoesOn
    <2>4. outcome'[s] = outcome[s] \/ outcome'[s] # "finalized"
      BY <1>2, <1>4 DEF Kinds
    <2>5. SyncedBy(c)'
      BY <1>4, <1>8 DEF SyncedBy
    <2>6. OpenStep(c)
      BY <1>3, <1>7, <2>3, <2>4, <2>5 DEF OpenStep
    <2> QED
      BY <2>3, <2>6

\* A call that only ends.
LEMMA EndsKeeps ==
  ASSUME RecorderInvariant, Basics', NEW c \in Callers, NEW s, s = S(c), NEW n, n = N(c),
         pc[c] \in Past, NEW r \in Outcomes \ {"finalized"}, Ends(c, r),
         UNCHANGED <<files, exposed, active, work, used, started, warned>>
  PROVE  RecorderInvariant' /\ HolderStep(c, "idle") /\ QuietStep
  <1>1. /\ Kinds /\ Sensible /\ n \in Numbers
        /\ exposed.owner = {owner} /\ (s \in started => FilesBy(s, n))
    BY HolderKnown
  <1>2. /\ UNCHANGED <<media, manifest, owner, exposed, active, work, used, started, warned>>
        /\ pc' = [pc EXCEPT ![c] = "idle"] /\ outcome' = [outcome EXCEPT ![s] = r]
    BY DEF files, Ends
  <1>3. OthersKept(n) /\ SensibleAt(n)' /\ (s \in started => FilesBy(s, n)')
    BY <1>1, <1>2, SameFiles
  <1>4. LocalsKept
    BY <1>1, <1>2 DEF Kinds, LocalsKept, S, N
  <1>5. pc'[c] = "idle"
    BY <1>1, <1>2 DEF Kinds
  <1>6. ProgressOf(c)'
    BY <1>5 DEF ProgressOf, Stopping
  <1>7. /\ media' \in [Numbers -> Media] /\ manifest' \in [Numbers -> Manifest]
        /\ exposed' \in Exposures /\ warned' \in {warned, warned \cup {s}}
        /\ owner' = owner /\ exposed'.owner = {owner}
    BY <1>1, <1>2 DEF Kinds
  <1>8. RecorderInvariant' /\ HolderStep(c, "idle")
    BY <1>2, <1>3, <1>4, <1>6, <1>7, HolderGoesOn
  <1>9. QuietStep
    <2>1. \A d \in Callers :
            \/ pc'[d] = pc[d] /\ work'[d] = work[d]
            \/ pc'[d] \in Stages \ {"installing", "syncing", "describing", "confirming",
                                    "releasing"}
      BY <1>1, <1>2 DEF Kinds, Stages
    <2> QED
      BY <1>1, <1>2, <2>1 DEF QuietStep, Sensible, SensibleAt
  <1> QED
    BY <1>8, <1>9

LEMMA ClearKeeps ==
  ASSUME RecorderInvariant, Basics', NEW c \in Callers, Clear(c),
         NEW s, s = S(c), NEW n, n = N(c)
  PROVE  RecorderInvariant' /\ OpenStep(c)
  <1>1. /\ pc[c] = "clearing" /\ pc[c] \in Past
        /\ UNCHANGED <<manifest, owner, active, used, started, warned>>
    BY DEF Clear, Past, Holding, Stages
  <1>2. /\ Kinds /\ Sensible /\ ProgressOf(c) /\ SensibleAt(n)
        /\ s \in Segments /\ s # NoOne /\ n \in Numbers
        /\ owner = LockOf(c) /\ exposed.owner = {owner} /\ active = {}
        /\ s \in started => FilesBy(s, n)
    BY <1>1, HolderKnown
  <1> DEFINE v == [partial |-> NoAudio, final |-> NoAudio]
  <1>3. v \in Media /\ OneName(v) /\ ByOnly(s, v) /\ v = [media[n] EXCEPT !.partial = NoAudio]
    <2>1. media[n].final = NoAudio /\ media[n] \in Media
      BY <1>1, <1>2 DEF ProgressOf, Kinds
    <2>2. v = [media[n] EXCEPT !.partial = NoAudio]
      BY <2>1 DEF Media
    <2>3. NoAudio \in Audio /\ NoAudio.by = NoOne
      BY DEF Audio, NoAudio
    <2> QED
      BY <2>2, <2>3 DEF Media, OneName, ByOnly
  <1>4. manifest' \in [Numbers -> Manifest] /\ "failed" \in Outcomes /\ "uncertain" \in Outcomes
    BY <1>1, <1>2 DEF Kinds, Outcomes
  <1>5. CASE /\ PutMedia(n, [media[n] EXCEPT !.partial = NoAudio])
             /\ pc' = [pc EXCEPT ![c] = "releasing"]
             /\ work' = [work EXCEPT ![c].result = "failed"]
             /\ UNCHANGED outcome
    <2>1. PutMedia(n, v)
      BY <1>3, <1>5
    <2> HIDE DEF v
    <2>2. /\ OthersKept(n) /\ SensibleAt(n)' /\ (s \in started => FilesBy(s, n)')
          /\ media' \in [Numbers -> Media]
          /\ exposed' \in Exposures /\ exposed'.owner = exposed.owner
          /\ exposed'.manifest = exposed.manifest
      BY <1>1, <1>2, <1>3, <2>1, PutMediaKeeps
    <2>3. LocalsKept /\ work'[c].result = "failed"
      <3>1. TRUE \in BOOLEAN
        OBVIOUS
      <3>2. work'[c].result = "failed"
        BY <1>2, <1>5 DEF Kinds, Work
      <3> QED
        BY <1>2, <1>4, <1>5, <3>1, <3>2, WorkKeeps
    <2>4. ProgressOf(c)'
      <3>1. pc'[c] = "releasing"
        BY <1>2, <1>5 DEF Kinds
      <3> QED
        BY <2>3, <3>1 DEF ProgressOf, Stopping
    <2>5. "releasing" \in (Past \ {"owned"}) \cup {"idle"}
      BY DEF Past, Holding, Stages
    <2>6. /\ UNCHANGED <<active, used, started>> /\ warned' \in {warned, warned \cup {s}}
          /\ owner' = owner /\ exposed'.owner = {owner}
      BY <1>1, <1>2, <2>2
    <2>7. RecorderInvariant' /\ HolderStep(c, "releasing")
      BY <1>1, <1>4, <1>5, <2>2, <2>3, <2>4, <2>5, <2>6, HolderGoesOn
    <2>8. SyncedBy(c)'
      <3>1. pc'[c] = "releasing"
        BY <1>2, <1>5 DEF Kinds
      <3> QED
        BY <2>3, <3>1 DEF SyncedBy
    <2>9. OpenStep(c)
      BY <1>1, <1>2, <1>5, <2>2, <2>7, <2>8 DEF OpenStep, ProgressOf
    <2> QED
      BY <2>7, <2>9
  <1>6. CASE Ends(c, "uncertain") /\ UNCHANGED <<media, exposed, work>>
    <2>1. RecorderInvariant' /\ HolderStep(c, "idle")
      BY <1>1, <1>4, <1>6, EndsKeeps DEF files
    <2>2. pc'[c] = "idle" /\ outcome'[s] # "finalized"
      BY <1>2, <1>6 DEF Ends, Kinds
    <2>3. SyncedBy(c)'
      BY <2>2 DEF SyncedBy
    <2>4. OpenStep(c)
      BY <1>1, <1>2, <1>6, <2>1, <2>2, <2>3 DEF OpenStep, ProgressOf
    <2> QED
      BY <2>1, <2>4
  <1> QED
    BY <1>5, <1>6 DEF Clear

LEMMA ReleaseFailsKeeps ==
  ASSUME RecorderInvariant, Basics', NEW c \in Callers, ReleaseFails(c) \/ FinalizeFails(c),
         NEW s, s = S(c), NEW n, n = N(c)
  PROVE  RecorderInvariant' /\ HolderStep(c, "idle") /\ QuietStep
  <1>1. "uncertain" \in Outcomes /\ pc[c] \in Past
    BY DEF Outcomes, ReleaseFails, FinalizeFails, Past, Holding, Stages
  <1> QED
    BY <1>1, EndsKeeps DEF ReleaseFails, FinalizeFails

\* The type of a manifest, and whose it is.
LEMMA NewManifest ==
  ASSUME Kinds, NEW n \in Numbers, NEW s \in Segments, NEW kind \in {"finalized", "failed"},
         manifest' = [manifest EXCEPT ![n] = [by |-> s, kind |-> kind]]
  PROVE  /\ manifest' \in [Numbers -> Manifest]
         /\ manifest'[n] = [by |-> s, kind |-> kind] /\ manifest'[n].by = s
         /\ \A k \in Numbers \ {n} : manifest'[k] = manifest[k]
  BY DEF Kinds, Manifest

LEMMA WriteEvidenceKeeps ==
  ASSUME RecorderInvariant, Basics', NEW c \in Callers, WriteEvidence(c),
         NEW s, s = S(c), NEW n, n = N(c)
  PROVE  RecorderInvariant' /\ OpenStep(c)
  <1>1. /\ pc[c] = "evidencing" /\ pc[c] \in Past
        /\ UNCHANGED <<media, owner, active, used, started>>
    BY DEF WriteEvidence, Past, Holding, Stages
  <1>2. /\ Kinds /\ Sensible /\ ProgressOf(c) /\ SensibleAt(n)
        /\ s \in Segments /\ s # NoOne /\ n \in Numbers
        /\ owner = LockOf(c) /\ exposed.owner = {owner} /\ active = {}
        /\ s \in started => FilesBy(s, n)
    BY <1>1, HolderKnown
  <1>3. PICK to \in {"idle", "releasing"} :
          /\ pc' = [pc EXCEPT ![c] = to]
          /\ UNCHANGED outcome \/ outcome' = [outcome EXCEPT ![s] = "uncertain"]
    BY DEF WriteEvidence, Ends
  <1>4. /\ media \in [Numbers -> Media] /\ manifest \in [Numbers -> Manifest]
        /\ owner \in Lock /\ OneName(media[n]) /\ work[c].result # "finalized"
        /\ (s \in started => ByOnly(s, media[n]))
    BY <1>1, <1>2 DEF Kinds, SensibleAt, OneName, ProgressOf, FilesBy, ByOnly
  <1>5. /\ manifest' \in [Numbers -> Manifest] /\ exposed' \in Exposures
        /\ OthersKept(n) /\ SensibleAt(n)' /\ (s \in started => FilesBy(s, n)')
        /\ exposed'.owner = {owner} /\ warned' \in {warned, warned \cup {s}}
        /\ exposed'.manifest[n] \subseteq
             exposed.manifest[n] \cup {[by |-> s, kind |-> "failed"]}
    <2>1. CASE manifest' = [manifest EXCEPT ![n] = [by |-> s, kind |-> "failed"]]
      <3>1. /\ manifest' \in [Numbers -> Manifest] /\ manifest'[n].by = s
            /\ manifest'[n] = [by |-> s, kind |-> "failed"]
            /\ \A k \in Numbers \ {n} : manifest'[k] = manifest[k]
        BY <1>2, <2>1, NewManifest
      <3>2. CASE SyncDirectory
        BY <1>1, <1>2, <1>4, <3>1, <3>2, SyncKeeps DEF SyncDirectory
      <3>3. CASE SyncDirectoryFails(c)
        BY <1>1, <1>2, <1>4, <3>1, <3>3, SyncFailsKeeps
      <3>4. CASE UNCHANGED <<manifest, exposed, warned>>
        BY <1>1, <1>2, <1>4, <3>4, SameFiles DEF Kinds
      <3> QED
        BY <3>2, <3>3, <3>4 DEF WriteEvidence
    <2>2. CASE UNCHANGED <<manifest, exposed, warned>>
      BY <1>1, <1>2, <1>4, <2>2, SameFiles DEF Kinds
    <2> QED
      BY <2>1, <2>2 DEF WriteEvidence
  <1>6. LocalsKept /\ (UNCHANGED work \/ work'[c].result = "uncertain")
    <2>1. UNCHANGED work \/ work' = [work EXCEPT ![c].result = "uncertain"]
      BY DEF WriteEvidence
    <2>2. "uncertain" \in Outcomes /\ TRUE \in BOOLEAN
      BY DEF Outcomes
    <2> QED
      BY <1>2, <2>1, <2>2, WorkKeeps
  <1>7. ProgressOf(c)'
    <2>1. pc'[c] = to /\ work'[c].result # "finalized"
      BY <1>2, <1>3, <1>4, <1>6 DEF Kinds
    <2> QED
      BY <1>3, <2>1 DEF ProgressOf, Stopping
  <1>8. /\ to \in (Past \ {"owned"}) \cup {"idle"}
        /\ UNCHANGED outcome \/ \E r \in Outcomes : outcome' = [outcome EXCEPT ![s] = r]
    BY <1>3 DEF Outcomes, Past, Holding, Stages
  <1>9. RecorderInvariant' /\ HolderStep(c, to)
    BY <1>1, <1>3, <1>4, <1>5, <1>6, <1>7, <1>8, HolderGoesOn
  <1>10. SyncedBy(c)'
    <2>1. pc'[c] = to /\ work'[c].result # "finalized"
      BY <1>2, <1>3, <1>4, <1>6 DEF Kinds
    <2> QED
      BY <1>3, <2>1 DEF SyncedBy
  <1>11. outcome'[s] = outcome[s] \/ outcome'[s] # "finalized"
    BY <1>2, <1>3 DEF Kinds
  <1>12. media[n].final = NoAudio
    BY <1>1, <1>2 DEF ProgressOf
  <1> QED
    BY <1>5, <1>9, <1>10, <1>11, <1>12 DEF OpenStep

LEMMA ReleaseKeeps ==
  ASSUME RecorderInvariant, Basics', NEW c \in Callers, Release(c),
         NEW s, s = S(c), NEW n, n = N(c)
  PROVE  /\ RecorderInvariant' /\ HolderStep(c, "idle") /\ pc'[c] = "idle"
         /\ pc[c] = "releasing" /\ UNCHANGED <<media, manifest>>
         /\ exposed'.media[n] \subseteq exposed.media[n]
         /\ exposed'.manifest[n] \subseteq exposed.manifest[n]
         /\ outcome'[s] = "finalized" => work[c].result = "finalized"
         /\ \/ s \in warned'
            \/ /\ exposed'.owner = {NoLock} /\ exposed'.media[n] = {media[n]}
               /\ exposed'.manifest[n] = {manifest[n]}
  <1>1. /\ pc[c] = "releasing" /\ pc[c] \in Past /\ owner' = NoLock
        /\ UNCHANGED <<media, manifest, active, work, used, started>>
        /\ pc' = [pc EXCEPT ![c] = "idle"]
        /\ SyncDirectory \/ SyncDirectoryFails(c)
    BY DEF Release, Ends, Past, Holding, Stages
  <1>2. /\ Kinds /\ Sensible /\ ProgressOf(c) /\ SensibleAt(n)
        /\ s \in Segments /\ s # NoOne /\ n \in Numbers
        /\ owner = LockOf(c) /\ exposed.owner = {owner} /\ active = {}
        /\ work[c] \in Work
    BY <1>1, HolderKnown
  <1>3. s \in started => FilesBy(s, n)
    BY <1>1, HolderKnown
  <1>4. /\ media \in [Numbers -> Media] /\ manifest \in [Numbers -> Manifest]
        /\ NoLock \in Lock /\ OneName(media[n])
        /\ manifest[n].kind = "none" \/ manifest[n].by # NoOne
        /\ media[n] \in exposed.media[n] /\ manifest[n] \in exposed.manifest[n]
    BY <1>2 DEF Kinds, SensibleAt, OneName, Lock, NoLock
  <1>5. s \in started => ByOnly(s, media[n]) /\ manifest[n].by \in {NoOne, s}
    BY <1>2, <1>3 DEF SensibleAt, FilesBy, ByOnly
  <1>6. /\ exposed' \in Exposures
        /\ OthersKept(n) /\ SensibleAt(n)' /\ (s \in started => FilesBy(s, n)')
        /\ NoLock \in exposed'.owner /\ exposed'.owner \subseteq {owner, NoLock}
        /\ warned' \in {warned, warned \cup {s}}
        /\ exposed'.media[n] \subseteq exposed.media[n]
        /\ exposed'.manifest[n] \subseteq exposed.manifest[n]
        /\ \/ s \in warned'
           \/ /\ exposed'.owner = {NoLock} /\ exposed'.media[n] = {media[n]}
              /\ exposed'.manifest[n] = {manifest[n]}
    <2>1. CASE SyncDirectory
      BY <1>1, <1>2, <1>4, <1>5, <2>1, SyncKeeps DEF SyncDirectory
    <2>2. CASE SyncDirectoryFails(c)
      BY <1>1, <1>2, <1>3, <1>4, <1>5, <2>2, SyncFailsKeeps
    <2> QED
      BY <1>1, <2>1, <2>2
  <1>7. LocalsKept
    BY <1>1, <1>2 DEF Kinds, LocalsKept, S, N
  <1>8. ProgressOf(c)'
    <2>1. pc'[c] = "idle"
      BY <1>1, <1>2 DEF Kinds
    <2> QED
      BY <2>1 DEF ProgressOf, Stopping
  <1>9. \E r \in Outcomes : outcome' = [outcome EXCEPT ![s] = r]
    BY <1>2 DEF Release, Ends, Work, Outcomes
  <1>10. /\ media' \in [Numbers -> Media] /\ manifest' \in [Numbers -> Manifest]
         /\ "idle" \in (Past \ {"owned"}) \cup {"idle"}
    BY <1>1, <1>4
  <1>11. RecorderInvariant' /\ HolderStep(c, "idle")
    <2>1. /\ exposed' \in Exposures /\ OthersKept(n) /\ SensibleAt(n)'
          /\ s \in started => FilesBy(s, n)'
          /\ NoLock \in exposed'.owner /\ exposed'.owner \subseteq {owner, NoLock}
          /\ warned' \in {warned, warned \cup {s}}
          /\ pc[c] \in Past /\ pc' = [pc EXCEPT ![c] = "idle"] /\ owner' = NoLock
          /\ UNCHANGED <<active, used, started>>
      BY <1>1, <1>6
    <2> QED
      BY <1>7, <1>8, <1>9, <1>10, <2>1, HolderGoesOn
  <1>12. pc'[c] = "idle" /\ (outcome'[s] = "finalized" => work[c].result = "finalized")
    <2>1. outcome'[s] \in {work[c].result, "uncertain", "finalized"}
          /\ (outcome'[s] = "finalized" => work[c].result = "finalized")
      BY <1>2 DEF Kinds, Release, Ends
    <2> QED
      BY <1>1, <1>2, <2>1 DEF Kinds
  <1> QED
    BY <1>1, <1>6, <1>11, <1>12

LEMMA EngineFinalizesKeeps ==
  ASSUME RecorderInvariant, Basics', NEW c \in Callers, EngineFinalizes(c),
         NEW s, s = S(c), NEW n, n = N(c)
  PROVE  RecorderInvariant' /\ OpenStep(c)
  <1> DEFINE v == [by |-> s, whole |-> TRUE, synced |-> Engine = "synthetic"]
  <1>1. /\ pc[c] = "finalizing" /\ pc[c] \in Past
        /\ pc' = [pc EXCEPT ![c] = "installing"]
        /\ SettleAudio(n, [by |-> media[n].partial.by, whole |-> TRUE,
                           synced |-> Engine = "synthetic"])
        /\ UNCHANGED <<manifest, owner, active, work, used, started, outcome, warned>>
    BY DEF EngineFinalizes, Goto, Past, Holding, Stages
  <1>2. /\ Kinds /\ Sensible /\ ProgressOf(c) /\ SensibleAt(n)
        /\ s \in Segments /\ s # NoOne /\ n \in Numbers
        /\ owner = LockOf(c) /\ exposed.owner = {owner} /\ active = {}
        /\ s \in started => FilesBy(s, n)
    BY <1>1, HolderKnown
  <1>3. media[n].partial.by = s /\ media[n].final = NoAudio /\ s \in started
    BY <1>1, <1>2 DEF ProgressOf, InPartial, Stopping
  <1>4. v \in Audio /\ SettleAudio(n, v) /\ media[n].partial # NoAudio
    <2>1. media[n].partial \in Audio
      BY <1>2 DEF Kinds, Media
    <2>2. SettleAudio(n, v)
      BY <1>1, <1>3
    <2>3. v \in Audio
      BY <1>2 DEF Audio
    <2>4. media[n].partial # NoAudio
      BY <1>2, <1>3 DEF NoAudio
    <2> HIDE DEF v
    <2> QED
      BY <2>2, <2>3, <2>4
  <1>5. v.by = s /\ v.whole /\ v.synced = (Engine = "synthetic")
    OBVIOUS
  <1> HIDE DEF v
  <1>6. /\ OthersKept(n) /\ SensibleAt(n)' /\ (s \in started => FilesBy(s, n)')
        /\ media' \in [Numbers -> Media] /\ media'[n] = [partial |-> v, final |-> NoAudio]
        /\ exposed' \in Exposures /\ exposed'.owner = exposed.owner
        /\ exposed'.manifest = exposed.manifest
    BY <1>1, <1>2, <1>3, <1>4, <1>5, SettleKeeps
  <1>7. LocalsKept
    BY <1>1, <1>2 DEF Kinds, LocalsKept, S, N
  <1>8. media'[n].partial = v /\ media'[n].final = NoAudio
    BY <1>6
  <1>9. ProgressOf(c)'
    <2>1. pc'[c] = "installing" /\ S(c)' = s /\ N(c)' = n
      BY <1>1, <1>2, <1>7 DEF Kinds, LocalsKept
    <2> QED
      BY <1>1, <1>3, <1>5, <1>8, <2>1 DEF ProgressOf, InPartial, Stopping
  <1>10. /\ "installing" \in (Past \ {"owned"}) \cup {"idle"}
         /\ manifest' \in [Numbers -> Manifest] /\ warned' \in {warned, warned \cup {s}}
         /\ owner' = owner /\ exposed'.owner = {owner}
    BY <1>1, <1>2, <1>6 DEF Kinds, Past, Holding, Stages
  <1>11. RecorderInvariant' /\ HolderStep(c, "installing")
    BY <1>1, <1>6, <1>7, <1>9, <1>10, HolderGoesOn
  <1>12. Engine = "synthetic" => SyncedBy(c)'
    <2>1. pc'[c] = "installing" /\ N(c)' = n
      BY <1>1, <1>2, <1>7 DEF Kinds, LocalsKept
    <2> QED
      BY <1>5, <1>8, <2>1 DEF SyncedBy
  <1> QED
    BY <1>1, <1>3, <1>6, <1>11, <1>12 DEF OpenStep

LEMMA InstallAudioKeeps ==
  ASSUME RecorderInvariant, Basics', NEW c \in Callers, InstallAudio(c),
         NEW s, s = S(c), NEW n, n = N(c)
  PROVE  RecorderInvariant' /\ OpenStep(c)
  <1> DEFINE v == [partial |-> NoAudio, final |-> media[n].partial]
  <1>1. /\ pc[c] = "installing" /\ pc[c] \in Past
        /\ pc' = [pc EXCEPT ![c] = "syncing"] /\ PutMedia(n, v)
        /\ UNCHANGED <<manifest, owner, active, work, used, started, outcome, warned>>
    BY DEF InstallAudio, Goto, Past, Holding, Stages
  <1>2. /\ Kinds /\ Sensible /\ ProgressOf(c) /\ SensibleAt(n)
        /\ s \in Segments /\ s # NoOne /\ n \in Numbers
        /\ owner = LockOf(c) /\ exposed.owner = {owner} /\ active = {}
        /\ s \in started => FilesBy(s, n)
    BY <1>1, HolderKnown
  <1>3. /\ media[n].partial.by = s /\ media[n].final = NoAudio /\ s \in started
        /\ media[n].partial.whole
    BY <1>1, <1>2 DEF ProgressOf, InPartial, Stopping
  <1>4. v \in Media /\ OneName(v) /\ ByOnly(s, v)
    <2>1. media[n].partial \in Audio /\ NoAudio \in Audio /\ NoAudio.by = NoOne
      BY <1>2 DEF Kinds, Media, Audio, NoAudio
    <2> QED
      BY <1>3, <2>1 DEF Media, OneName, ByOnly
  <1>5. v.partial = NoAudio /\ v.final = media[n].partial
    OBVIOUS
  <1> HIDE DEF v
  <1>6. /\ OthersKept(n) /\ SensibleAt(n)' /\ (s \in started => FilesBy(s, n)')
        /\ media' \in [Numbers -> Media] /\ media'[n] = v
        /\ exposed' \in Exposures /\ exposed'.owner = exposed.owner
        /\ exposed'.manifest = exposed.manifest
    BY <1>1, <1>2, <1>4, PutMediaKeeps
  <1>7. LocalsKept
    BY <1>1, <1>2 DEF Kinds, LocalsKept, S, N
  <1>8. ProgressOf(c)'
    <2>1. pc'[c] = "syncing" /\ S(c)' = s /\ N(c)' = n
      BY <1>1, <1>2, <1>7 DEF Kinds, LocalsKept
    <2> QED
      BY <1>1, <1>3, <1>5, <1>6, <2>1 DEF ProgressOf, InFinal, Stopping
  <1>9. /\ "syncing" \in (Past \ {"owned"}) \cup {"idle"}
        /\ manifest' \in [Numbers -> Manifest] /\ warned' \in {warned, warned \cup {s}}
        /\ owner' = owner /\ exposed'.owner = {owner}
    BY <1>1, <1>2, <1>6 DEF Kinds, Past, Holding, Stages
  <1>10. RecorderInvariant' /\ HolderStep(c, "syncing")
    BY <1>1, <1>6, <1>7, <1>8, <1>9, HolderGoesOn
  <1>11. SyncedBy(c) => SyncedBy(c)'
    <2>1. pc'[c] = "syncing" /\ N(c)' = n
      BY <1>1, <1>2, <1>7 DEF Kinds, LocalsKept
    <2> QED
      BY <1>1, <1>5, <1>6, <2>1 DEF SyncedBy
  <1> QED
    BY <1>1, <1>3, <1>6, <1>10, <1>11 DEF OpenStep

\* Synchronising the directory, whether it succeeds or not.
LEMMA SyncStepKeeps ==
  ASSUME RecorderInvariant, Basics', NEW c \in Callers, SyncAudio(c) \/ SyncManifest(c),
         NEW s, s = S(c), NEW n, n = N(c)
  PROVE  /\ RecorderInvariant' /\ \E to : HolderStep(c, to)
         /\ exposed'.media[n] \subseteq exposed.media[n]
         /\ exposed'.manifest[n] \subseteq exposed.manifest[n]
         /\ InFinal(s, n) /\ UNCHANGED <<media, manifest, work, outcome>>
         /\ SyncAudio(c) => exposed'.media[n] = {media[n]} \/ s \in warned'
         /\ pc'[c] = IF pc[c] = "syncing" THEN "describing" ELSE "releasing"
         /\ pc[c] = "syncing" <=> SyncAudio(c)
  <1>1. /\ pc[c] \in {"syncing", "confirming"} /\ pc[c] \in Past
        /\ pc' = [pc EXCEPT ![c] = IF pc[c] = "syncing" THEN "describing" ELSE "releasing"]
        /\ UNCHANGED <<media, manifest, owner, active, work, used, started, outcome>>
        /\ SyncDirectory \/ SyncDirectoryFails(c)
        /\ pc[c] = "syncing" <=> SyncAudio(c)
    BY DEF SyncAudio, SyncManifest, Goto, files, Past, Holding, Stages
  <1>2. /\ Kinds /\ Sensible /\ ProgressOf(c) /\ SensibleAt(n)
        /\ s \in Segments /\ s # NoOne /\ n \in Numbers
        /\ owner = LockOf(c) /\ exposed.owner = {owner} /\ active = {}
        /\ s \in started => FilesBy(s, n)
    BY <1>1, HolderKnown
  <1>3. InFinal(s, n) /\ s \in started /\ FilesBy(s, n)
        /\ (pc[c] = "confirming" => manifest[n] = [by |-> s, kind |-> "finalized"])
    BY <1>1, <1>2 DEF ProgressOf, Stopping
  <1>4. /\ media \in [Numbers -> Media] /\ manifest \in [Numbers -> Manifest]
        /\ owner \in Lock /\ OneName(media[n]) /\ ByOnly(s, media[n])
        /\ manifest[n].kind = "none" \/ manifest[n].by # NoOne
        /\ manifest[n].by \in {NoOne, s}
        /\ media[n] \in exposed.media[n] /\ manifest[n] \in exposed.manifest[n]
    BY <1>2, <1>3 DEF Kinds, SensibleAt, OneName, FilesBy, ByOnly
  <1>5. /\ OthersKept(n) /\ SensibleAt(n)' /\ FilesBy(s, n)'
        /\ exposed' \in Exposures /\ exposed'.owner = {owner}
        /\ warned' \in {warned, warned \cup {s}}
        /\ exposed'.media[n] \subseteq exposed.media[n]
        /\ exposed'.manifest[n] \subseteq exposed.manifest[n]
        /\ exposed'.media[n] = {media[n]} \/ s \in warned'
    <2>1. CASE SyncDirectory
      BY <1>1, <1>2, <1>4, <2>1, SyncKeeps DEF SyncDirectory
    <2>2. CASE SyncDirectoryFails(c)
      BY <1>1, <1>2, <1>3, <1>4, <2>2, SyncFailsKeeps
    <2> QED
      BY <1>1, <2>1, <2>2
  <1>6. LocalsKept
    BY <1>1, <1>2 DEF Kinds, LocalsKept, S, N
  <1>7. PICK to \in {"describing", "releasing"} :
          /\ to = IF pc[c] = "syncing" THEN "describing" ELSE "releasing"
          /\ pc' = [pc EXCEPT ![c] = to] /\ pc'[c] = to
    BY <1>1, <1>2 DEF Kinds
  <1>8. ProgressOf(c)'
    <2>1. S(c)' = s /\ N(c)' = n /\ InFinal(s, n)'
      BY <1>1, <1>3, <1>6 DEF LocalsKept, InFinal
    <2> QED
      BY <1>1, <1>3, <1>7, <2>1 DEF ProgressOf, Stopping
  <1>9. /\ to \in (Past \ {"owned"}) \cup {"idle"}
        /\ media' \in [Numbers -> Media] /\ manifest' \in [Numbers -> Manifest]
        /\ owner' = owner
    BY <1>1, <1>4, <1>7 DEF Past, Holding, Stages
  <1>10. RecorderInvariant' /\ HolderStep(c, to)
    BY <1>1, <1>5, <1>6, <1>7, <1>8, <1>9, HolderGoesOn
  <1> QED
    BY <1>1, <1>3, <1>5, <1>7, <1>10

LEMMA InstallManifestKeeps ==
  ASSUME RecorderInvariant, Basics', NEW c \in Callers, InstallManifest(c),
         NEW s, s = S(c), NEW n, n = N(c)
  PROVE  /\ RecorderInvariant' /\ HolderStep(c, "confirming")
         /\ InFinal(s, n) /\ manifest'[n] = [by |-> s, kind |-> "finalized"]
         /\ exposed'.media = exposed.media
         /\ exposed'.manifest[n] = exposed.manifest[n] \cup {manifest'[n]}
         /\ UNCHANGED <<media, work, outcome, warned>>
  <1>1. /\ pc[c] = "describing" /\ pc[c] \in Past
        /\ pc' = [pc EXCEPT ![c] = "confirming"]
        /\ manifest' = [manifest EXCEPT ![n] = [by |-> s, kind |-> "finalized"]]
        /\ exposed' = [exposed EXCEPT !.manifest[n] = @ \cup {manifest'[n]}]
        /\ UNCHANGED <<media, owner, active, work, used, started, outcome, warned>>
    BY DEF InstallManifest, Goto, Past, Holding, Stages
  <1>2. /\ Kinds /\ Sensible /\ ProgressOf(c) /\ SensibleAt(n)
        /\ s \in Segments /\ s # NoOne /\ n \in Numbers
        /\ owner = LockOf(c) /\ exposed.owner = {owner} /\ active = {}
        /\ s \in started => FilesBy(s, n)
    BY <1>1, HolderKnown
  <1>3. InFinal(s, n) /\ s \in started /\ FilesBy(s, n)
    BY <1>1, <1>2 DEF ProgressOf, Stopping
  <1>4. /\ manifest' \in [Numbers -> Manifest]
        /\ manifest'[n] = [by |-> s, kind |-> "finalized"] /\ manifest'[n].by = s
        /\ manifest'[n] \in Manifest
        /\ \A k \in Numbers \ {n} : manifest'[k] = manifest[k]
    BY <1>1, <1>2, NewManifest
  <1>5. /\ exposed' \in Exposures
        /\ exposed'.manifest = [exposed.manifest EXCEPT ![n] = @ \cup {manifest'[n]}]
        /\ exposed'.media = exposed.media /\ exposed'.owner = exposed.owner
    BY <1>1, <1>2, <1>4, ManifestShape
  <1>6. /\ exposed'.manifest[n] = exposed.manifest[n] \cup {manifest'[n]}
        /\ \A k \in Numbers \ {n} : exposed'.manifest[k] = exposed.manifest[k]
    BY <1>2, <1>5, ExposedParts
  <1>7. OthersKept(n)
    BY <1>1, <1>2, <1>4, <1>5, <1>6 DEF OthersKept, Sensible, SensibleAt
  <1>8. SensibleAt(n)'
    BY <1>1, <1>2, <1>4, <1>5, <1>6 DEF SensibleAt
  <1>9. FilesBy(s, n)'
    BY <1>3, <1>4, <1>5, <1>6 DEF FilesBy
  <1>10. LocalsKept
    BY <1>1, <1>2 DEF Kinds, LocalsKept, S, N
  <1>11. ProgressOf(c)'
    <2>1. /\ pc'[c] = "confirming" /\ S(c)' = s /\ N(c)' = n /\ InFinal(s, n)'
      BY <1>1, <1>2, <1>3, <1>10 DEF Kinds, LocalsKept, InFinal
    <2> QED
      BY <1>1, <1>3, <1>4, <2>1 DEF ProgressOf, Stopping
  <1>12. /\ "confirming" \in (Past \ {"owned"}) \cup {"idle"}
         /\ media' \in [Numbers -> Media] /\ warned' \in {warned, warned \cup {s}}
         /\ owner' = owner /\ exposed'.owner = {owner}
    BY <1>1, <1>2, <1>5 DEF Kinds, Past, Holding, Stages
  <1>13. RecorderInvariant' /\ HolderStep(c, "confirming")
    BY <1>1, <1>4, <1>5, <1>7, <1>8, <1>9, <1>10, <1>11, <1>12, HolderGoesOn
  <1> QED
    BY <1>1, <1>3, <1>4, <1>5, <1>6, <1>13

\* The recovered recording goes into the table.
LEMMA RecoveredKeeps ==
  ASSUME RecorderInvariant, Basics', NEW c \in Callers, Recovered(c),
         NEW s, s = S(c), NEW n, n = N(c)
  PROVE  RecorderInvariant' /\ HolderStep(c, "idle") /\ QuietStep
  <1>1. /\ pc[c] = "recovering" /\ pc[c] \in Past
        /\ pc' = [pc EXCEPT ![c] = "idle"]
        /\ active' = active \cup {Recording(c)}
        /\ UNCHANGED <<media, manifest, owner, exposed, work, used, started, outcome, warned>>
    BY DEF Recovered, Goto, files, Past, Holding, Stages
  <1>2. /\ Kinds /\ Sensible /\ ProgressOf(c) /\ SensibleAt(n)
        /\ s \in Segments /\ s # NoOne /\ n \in Numbers
        /\ owner = LockOf(c) /\ exposed.owner = {owner} /\ active = {}
        /\ s \in started => FilesBy(s, n)
    BY <1>1, HolderKnown
  <1>3. InPartial(s, n) /\ s \in started
    BY <1>1, <1>2 DEF ProgressOf, Stopping
  <1>4. OthersKept(n) /\ SensibleAt(n)' /\ (s \in started => FilesBy(s, n)')
    BY <1>1, <1>2, SameFiles
  <1>5. \A d \in Callers : S(d)' = S(d) /\ N(d)' = N(d)
    BY <1>1 DEF S, N
  <1>6. HolderStep(c, "idle")
    BY <1>1, <1>2, <1>4, <1>5 DEF HolderStep
  <1>7. ProgressOf(c)'
    <2>1. pc'[c] = "idle"
      BY <1>1, <1>2 DEF Kinds
    <2> QED
      BY <2>1 DEF ProgressOf, Stopping
  <1>8. s \in started' /\ InPartial(s, n)'
    BY <1>1, <1>3 DEF InPartial
  <1>9. SensibleAt(n)' /\ FilesBy(s, n)'
    BY <1>3, <1>4
  <1>10. RecorderInvariant'
    BY <1>6, <1>7, <1>8, <1>9, HolderKeeps
  <1>11. QuietStep
    <2>1. \A d \in Callers :
            \/ pc'[d] = pc[d] /\ work'[d] = work[d]
            \/ pc'[d] \in Stages \ {"installing", "syncing", "describing", "confirming",
                                    "releasing"}
      BY <1>1, <1>2 DEF Kinds, Stages
    <2> QED
      BY <1>1, <1>2, <2>1 DEF QuietStep, Sensible, SensibleAt
  <1> QED
    BY <1>6, <1>10, <1>11

-----------------------------------------------------------------------------
(* Steps of a call that does not have the lock yet.                        *)

\* A step that changes none of the files keeps what is said of them.
LEMMA FilesSame ==
  ASSUME Sensible, RecordedFiles, UNCHANGED <<files, exposed, started>>
  PROVE  Sensible' /\ RecordedFiles'
  <1>1. UNCHANGED <<media, manifest, owner, exposed, started>>
    BY DEF files
  <1>2. Sensible'
    BY <1>1 DEF Sensible, SensibleAt
  <1>3. RecordedFiles'
    BY <1>1 DEF RecordedFiles, FilesBy
  <1> QED
    BY <1>2, <1>3

\* A step of one call that changes none of the files, and makes nothing final, leaves
\* them as durable as they are.
LEMMA SameQuiet ==
  ASSUME Kinds, Sensible, NEW c \in Callers,
         NEW to \in {"idle", "looked", "finalizing", "evidencing", "recovering"},
         pc' = [pc EXCEPT ![c] = to], work' = work \/ \E w : work' = [work EXCEPT ![c] = w],
         UNCHANGED <<media, manifest, exposed, warned>>,
         \A s \in Segments : outcome'[s] = "finalized" => outcome[s] = "finalized"
  PROVE  QuietStep
  <1>1. \A d \in Callers :
          \/ pc'[d] = pc[d] /\ work'[d] = work[d]
          \/ pc'[d] \in Stages \ {"installing", "syncing", "describing", "confirming",
                                  "releasing"}
    BY DEF Kinds, Stages
  <1> QED
    BY <1>1 DEF QuietStep, Sensible, SensibleAt

LEMMA LookKeeps ==
  ASSUME RecorderInvariant, Basics', NEW c \in Callers,
         NEW s \in Segments, NEW n \in Numbers, Look(c, s, n)
  PROVE  RecorderInvariant' /\ QuietStep
  <1> DEFINE w == [segment |-> s, number |-> n, keep |-> FALSE, result |-> "none"]
  <1>1. /\ Kinds /\ Sensible /\ LockHeld /\ LockDurable /\ NewSegments /\ RecordedFiles
        /\ Progress
    BY DEF RecorderInvariant, Basics, General
  <1>2. /\ pc[c] = "idle" /\ pc' = [pc EXCEPT ![c] = "looked"]
        /\ work' = [work EXCEPT ![c] = w]
        /\ s \notin used /\ used' = used \cup {s}
        /\ UNCHANGED <<media, manifest, owner, exposed, active, started, outcome, warned>>
        /\ UNCHANGED <<files, exposed, started>>
    BY DEF Look, Goto, files
  <1>3. w.segment = s /\ w.number = n
    OBVIOUS
  <1> HIDE DEF w
  <1>4. /\ pc'[c] = "looked" /\ S(c)' = s
        /\ \A d \in Callers \ {c} : /\ pc'[d] = pc[d] /\ S(d)' = S(d) /\ N(d)' = N(d)
                                    /\ work'[d] = work[d]
    BY <1>1, <1>2, <1>3 DEF Kinds, S, N
  <1>5. Sensible' /\ RecordedFiles'
    BY <1>1, <1>2, FilesSame
  <1>6. LockDurable'
    BY <1>1, <1>2, <1>4 DEF LockDurable, Past, Holding
  <1>7. NewSegments'
    <2>1. \A x \in Segments : Fresh(x) => Fresh(x)'
      BY <1>2 DEF Fresh
    <2>2. Fresh(s)' /\ \A x \in Segments \ used' : Fresh(x)'
      BY <1>1, <1>2, <2>1 DEF NewSegments
    <2>3. ASSUME NEW d \in Callers \ {c}, pc'[d] = "looked"
          PROVE  pc[d] = "looked" /\ S(d)' = S(d) /\ S(d) \in used /\ S(d) # s /\ Fresh(S(d))
      BY <1>1, <1>2, <1>4, <2>3 DEF Kinds, NewSegments
    <2>4. ASSUME NEW d \in Callers, pc'[d] = "looked"
          PROVE  Fresh(S(d))'
      <3>1. CASE d = c
        BY <1>4, <2>2, <3>1 DEF Fresh, S
      <3>2. CASE d # c
        BY <1>2, <2>3, <2>4, <3>2 DEF Fresh
      <3> QED
        BY <3>1, <3>2
    <2>5. ASSUME NEW d \in Callers, NEW e \in Callers, pc'[d] = "looked", pc'[e] = "looked",
                 S(e)' = S(d)'
          PROVE  e = d
      <3>1. CASE d = c \/ e = c
        BY <1>4, <2>3, <2>5, <3>1 DEF S
      <3>2. CASE d # c /\ e # c
        BY <1>1, <2>3, <2>5, <3>2 DEF NewSegments
      <3> QED
        BY <3>1, <3>2
    <2>6. ASSUME NEW d \in Callers, pc'[d] \in {"locking", "owned"}
          PROVE  S(d)' \notin started' /\ outcome'[S(d)'] = "none"
      <3>1. d # c
        BY <1>4, <2>6
      <3> QED
        BY <1>1, <1>2, <1>4, <2>6, <3>1 DEF NewSegments
    <2> QED
      BY <2>2, <2>4, <2>5, <2>6 DEF NewSegments
  <1>8. Progress'
    <2>1. ProgressOf(c)'
      BY <1>4 DEF ProgressOf, Stopping
    <2>2. ASSUME NEW d \in Callers \ {c}
          PROVE  ProgressOf(d)'
      BY <1>1, <1>2, <1>4, <2>2 DEF Progress, ProgressOf, Unused, InPartial, InFinal
    <2>3. \A r \in active' : r.segment \in started' /\ InPartial(r.segment, r.number)'
      BY <1>1, <1>2 DEF Progress, InPartial
    <2> QED
      BY <2>1, <2>2, <2>3 DEF Progress
  <1>9. QuietStep
    BY <1>1, <1>2, SameQuiet
  <1> QED
    BY <1>5, <1>6, <1>7, <1>8, <1>9 DEF RecorderInvariant

\* What is known of a call that is about to create the lock, or is creating it.
LEMMA LockerKnown ==
  ASSUME RecorderInvariant, NEW c \in Callers, pc[c] \in {"looked", "locking"}
  PROVE  /\ S(c) \in Segments /\ S(c) \in used /\ S(c) # NoOne /\ N(c) \in Numbers
         /\ S(c) \notin started /\ outcome[S(c)] = "none"
         /\ pc[c] = "locking" => Unused(N(c))
         /\ \A d \in Callers \ {c} : pc[d] \in {"looked", "locking", "owned"} => S(d) # S(c)
         /\ NoOne \notin started
  <1>1. Kinds /\ Sensible /\ LockHeld /\ NewSegments /\ Progress /\ pc[c] # "idle"
    BY DEF RecorderInvariant, Basics, General
  <1>2. /\ S(c) \in used /\ S(c) \in Segments /\ S(c) # NoOne /\ N(c) \in Numbers
        /\ NoOne \notin started
    BY <1>1, RecorderAssumption DEF Kinds, RecorderAssumption
  <1>3. /\ S(c) \notin started /\ outcome[S(c)] = "none"
        /\ pc[c] = "locking" => Unused(N(c))
    BY <1>1 DEF NewSegments, Fresh, Progress, ProgressOf
  <1>4. ASSUME NEW d \in Callers \ {c}, pc[d] \in {"looked", "locking", "owned"}
        PROVE  S(d) # S(c)
    <2>1. CASE pc[c] = "looked" /\ pc[d] = "looked"
      BY <1>1, <2>1 DEF NewSegments
    <2>2. CASE pc[c] = "looked" /\ pc[d] # "looked"
      BY <1>1, <1>4, <2>2 DEF LockHeld, NewSegments, Fresh, Sensible, Holding, Stages
    <2>3. CASE pc[c] = "locking" /\ pc[d] = "looked"
      BY <1>1, <2>3 DEF LockHeld, NewSegments, Fresh, Sensible, Holding, Stages
    <2>4. CASE pc[c] = "locking" /\ pc[d] # "looked"
      BY <1>1, <1>4, <2>4 DEF LockHeld, Holding, Stages
    <2> QED
      BY <2>1, <2>2, <2>3, <2>4
  <1> QED
    BY <1>2, <1>3, <1>4

LEMMA LockStepKeeps ==
  ASSUME RecorderInvariant, Basics', NEW c \in Callers, pc[c] \in {"looked", "locking"},
         NEW s, s = S(c), NEW n, n = N(c),
         NEW to \in {"locking", "owned", "idle"}, pc' = [pc EXCEPT ![c] = to],
         UNCHANGED <<media, manifest, active, work, used, started, warned>>,
         UNCHANGED outcome \/ (to = "idle" /\ outcome' = [outcome EXCEPT ![s] = "failed"]),
         \A k \in Numbers :
           /\ media[k] \in exposed'.media[k] /\ exposed'.media[k] \subseteq exposed.media[k]
           /\ manifest[k] \in exposed'.manifest[k]
           /\ exposed'.manifest[k] \subseteq exposed.manifest[k],
         owner' \in exposed'.owner /\ exposed'.owner \subseteq exposed.owner \cup {owner'},
         \/ to = "idle" /\ owner' = owner
         \/ /\ owner'.by = s
            /\ \A d \in Callers : pc[d] \in Holding => d = c,
         to # "idle" => Unused(n),
         to = "owned" => /\ exposed'.owner = {owner'}
                         /\ exposed'.media[n] = {media[n]}
                         /\ exposed'.manifest[n] = {manifest[n]}
  PROVE  RecorderInvariant' /\ QuietStep
  <1>1. /\ Kinds /\ LocksNamed /\ Sensible /\ LockDurable /\ NewSegments /\ RecordedFiles
        /\ Progress
    BY DEF RecorderInvariant, Basics, General
  <1>2. /\ s \in Segments /\ s \in used /\ s # NoOne /\ n \in Numbers
        /\ s \notin started /\ outcome[s] = "none"
        /\ \A d \in Callers \ {c} : pc[d] \in {"looked", "locking", "owned"} => S(d) # s
        /\ NoOne \notin started
    BY LockerKnown
  <1>3. /\ \A d \in Callers : S(d)' = S(d) /\ N(d)' = N(d)
        /\ \A d \in Callers : pc'[d] = IF d = c THEN to ELSE pc[d]
        /\ outcome' \in [Segments -> Outcomes]
        /\ \A x \in Segments \ {s} : outcome'[x] = outcome[x]
        /\ to # "idle" => UNCHANGED outcome
    BY <1>1, <1>2 DEF Kinds, S, N, Outcomes
  <1>4. owner' # owner => owner'.by = s
    OBVIOUS
  <1>5. Sensible'
    BY <1>1 DEF Sensible, SensibleAt
  <1>6. RecordedFiles'
    <2>1. owner'.by \in started => exposed'.owner = {owner'}
      BY <1>1, <1>2, <1>4 DEF RecordedFiles
    <2>2. ASSUME NEW o \in exposed'.owner, o.by \in started
          PROVE  FilesBy(o.by, o.number)'
      <3>1. o \in exposed.owner
        BY <1>1, <1>2, <1>4, <2>2 DEF Sensible
      <3>2. o.number \in Numbers
        BY <1>1, <1>2, <2>2, <3>1 DEF LocksNamed, Named, NoLock
      <3> QED
        BY <1>1, <2>2, <3>1, <3>2 DEF RecordedFiles, FilesBy
    <2> QED
      BY <2>1, <2>2 DEF RecordedFiles
  <1>7. LockDurable'
    <2>1. ASSUME NEW d \in Callers, pc'[d] \in Past
          PROVE  exposed'.owner = {owner'}
      <3>1. CASE d = c
        BY <1>3, <2>1, <3>1 DEF Past, Holding
      <3>2. CASE d # c
        <4>1. pc[d] \in Past /\ pc[d] \in Holding
          BY <1>3, <2>1, <3>2 DEF Past
        <4>2. owner' = owner /\ exposed.owner = {owner}
          BY <1>1, <3>2, <4>1 DEF LockDurable
        <4> QED
          BY <4>2
      <3> QED
        BY <3>1, <3>2
    <2> QED
      BY <2>1 DEF LockDurable
  <1>8. NewSegments'
    <2>1. ASSUME NEW x \in Segments, x # s, Fresh(x)
          PROVE  Fresh(x)'
      BY <1>1, <1>3, <1>4, <2>1 DEF Fresh, Sensible
    <2>2. \A x \in Segments \ used' : Fresh(x)'
      BY <1>1, <1>2, <2>1 DEF NewSegments
    <2>3. ASSUME NEW d \in Callers, pc'[d] = "looked"
          PROVE  d # c /\ pc[d] = "looked" /\ S(d)' = S(d) /\ Fresh(S(d))'
      <3>1. d # c /\ pc[d] = "looked" /\ S(d) \in Segments /\ S(d) # s /\ Fresh(S(d))
        BY <1>1, <1>2, <1>3, <2>3 DEF Kinds, NewSegments
      <3> QED
        BY <1>3, <2>1, <3>1 DEF Fresh
    <2>4. ASSUME NEW d \in Callers, NEW e \in Callers, pc'[d] = "looked", pc'[e] = "looked",
                 S(e)' = S(d)'
          PROVE  e = d
      BY <1>1, <2>3, <2>4 DEF NewSegments
    <2>5. ASSUME NEW d \in Callers, pc'[d] \in {"locking", "owned"}
          PROVE  S(d)' \notin started' /\ outcome'[S(d)'] = "none"
      <3>1. CASE d = c
        <4>1. S(d)' = s /\ to # "idle"
          BY <1>3, <2>5, <3>1 DEF S
        <4> QED
          BY <1>2, <1>3, <4>1
      <3>2. CASE d # c
        BY <1>1, <1>2, <1>3, <2>5, <3>2 DEF NewSegments, Kinds
      <3> QED
        BY <3>1, <3>2
    <2> QED
      BY <2>2, <2>3, <2>4, <2>5 DEF NewSegments
  <1>9. Progress'
    <2>1. ASSUME NEW d \in Callers, d # c
          PROVE  ProgressOf(d)'
      <3>1. pc'[d] = pc[d] /\ ProgressOf(d) /\ (pc[d] # "idle" => N(d) \in Numbers)
        BY <1>1, <1>3, <2>1 DEF Progress, Kinds
      <3>2. pc[d] = "owned" => /\ exposed'.media[N(d)] = {media[N(d)]}
                               /\ exposed'.manifest[N(d)] = {manifest[N(d)]}
        BY <3>1 DEF ProgressOf
      <3> QED
        BY <1>3, <3>1, <3>2 DEF ProgressOf, Unused, InPartial, InFinal
    <2>2. ProgressOf(c)'
      <3>1. pc'[c] = to /\ N(c)' = n
        BY <1>3
      <3>2. to # "idle" => Unused(n)'
        BY DEF Unused
      <3> QED
        BY <3>1, <3>2 DEF ProgressOf, Stopping
    <2> QED
      BY <1>1, <2>1, <2>2 DEF Progress, InPartial
  <1>10. QuietStep
    <2>1. \A o \in exposed'.owner : o \in exposed.owner \/ outcome'[o.by] # "finalized"
      <3>1. outcome'[s] # "finalized"
        BY <1>1, <1>2, <1>3 DEF Kinds
      <3> QED
        BY <1>1, <1>4, <3>1 DEF Sensible
    <2>2. \A d \in Callers :
            \/ pc'[d] = pc[d] /\ work'[d] = work[d]
            \/ pc'[d] \in Stages \ {"installing", "syncing", "describing", "confirming",
                                    "releasing"}
      BY <1>3 DEF Stages
    <2>3. \A x \in Segments : outcome'[x] = "finalized" => outcome[x] = "finalized"
      BY <1>1, <1>2, <1>3 DEF Kinds
    <2> QED
      BY <2>1, <2>2, <2>3 DEF QuietStep
  <1> QED
    BY <1>5, <1>6, <1>7, <1>8, <1>9, <1>10 DEF RecorderInvariant

LEMMA CreateLockKeeps ==
  ASSUME RecorderInvariant, Basics', late' = {}, NEW c \in Callers, CreateLock(c)
  PROVE  RecorderInvariant' /\ QuietStep
  <1>1. /\ pc[c] = "looked" /\ pc' = [pc EXCEPT ![c] = "locking"] /\ owner = NoLock
        /\ owner' = Bare(c)
        /\ exposed' = [exposed EXCEPT !.owner = @ \cup {owner'}]
        /\ UNCHANGED <<media, manifest, active, work, used, started, outcome, warned>>
        /\ Unused(N(c))
    BY DEF CreateLock, Goto, Overlooks
  <1>2. Kinds /\ Sensible /\ LockHeld /\ Owned
    BY DEF RecorderInvariant, Basics, General
  <1>3. owner' \in Lock /\ owner'.by = S(c)
    BY <1>1, LockerKnown DEF Lock, Bare
  <1>4. \A d \in Callers : pc[d] \in Holding => d = c
    BY <1>1, <1>2, Someone
  <1>5. /\ exposed'.owner = exposed.owner \cup {owner'}
        /\ exposed'.media = exposed.media /\ exposed'.manifest = exposed.manifest
    BY <1>1, <1>2, <1>3, OwnerShape
  <1>6. \A k \in Numbers :
          /\ media[k] \in exposed'.media[k] /\ exposed'.media[k] \subseteq exposed.media[k]
          /\ manifest[k] \in exposed'.manifest[k]
          /\ exposed'.manifest[k] \subseteq exposed.manifest[k]
    BY <1>2, <1>5 DEF Sensible, SensibleAt
  <1>7. /\ "locking" \in {"locking", "owned", "idle"} /\ "locking" # "owned"
        /\ pc[c] \in {"looked", "locking"} /\ UNCHANGED outcome
        /\ UNCHANGED <<media, manifest, active, work, used, started, warned>>
        /\ owner' \in exposed'.owner /\ exposed'.owner \subseteq exposed.owner \cup {owner'}
    BY <1>1, <1>5
  <1> QED
    BY <1>1, <1>3, <1>4, <1>6, <1>7, LockStepKeeps

LEMMA SyncLockKeeps ==
  ASSUME RecorderInvariant, Basics', NEW c \in Callers, SyncLock(c),
         NEW s, s = S(c), NEW n, n = N(c)
  PROVE  RecorderInvariant' /\ QuietStep
  <1>1. /\ pc[c] = "locking" /\ pc' = [pc EXCEPT ![c] = "owned"]
        /\ owner' = Written(c)
        /\ exposed' = Synced(media', manifest', owner')
        /\ UNCHANGED <<media, manifest, active, work, used, started, outcome, warned>>
    BY DEF SyncLock, Goto, SyncDirectory
  <1>2. Kinds /\ Sensible /\ LockHeld
    BY DEF RecorderInvariant, Basics, General
  <1>3. s \in Segments /\ n \in Numbers /\ Unused(n)
    BY <1>1, LockerKnown
  <1>4. /\ owner' = LockOf(c) /\ owner'.by = s
        /\ \A d \in Callers : pc[d] \in Holding => d = c
    BY <1>1, <1>2, OwnLock DEF LockOf
  <1>5. owner' \in Lock
    BY <1>3, <1>4 DEF Lock, LockOf
  <1>6. /\ exposed'.owner = {owner'}
        /\ \A k \in Numbers : /\ exposed'.media[k] = {media[k]}
                              /\ exposed'.manifest[k] = {manifest[k]}
    BY <1>1, <1>2, <1>5, SyncShape DEF Kinds
  <1>7. \A k \in Numbers :
          /\ media[k] \in exposed'.media[k] /\ exposed'.media[k] \subseteq exposed.media[k]
          /\ manifest[k] \in exposed'.manifest[k]
          /\ exposed'.manifest[k] \subseteq exposed.manifest[k]
    BY <1>2, <1>6 DEF Sensible, SensibleAt
  <1>8. /\ "owned" \in {"locking", "owned", "idle"}
        /\ pc[c] \in {"looked", "locking"} /\ UNCHANGED outcome
        /\ UNCHANGED <<media, manifest, active, work, used, started, warned>>
        /\ owner' \in exposed'.owner /\ exposed'.owner \subseteq exposed.owner \cup {owner'}
        /\ exposed'.media[n] = {media[n]} /\ exposed'.manifest[n] = {manifest[n]}
    BY <1>1, <1>3, <1>6
  <1> QED
    BY <1>1, <1>3, <1>4, <1>6, <1>7, <1>8, LockStepKeeps

LEMMA LockFailsKeeps ==
  ASSUME RecorderInvariant, Basics', NEW c \in Callers, LockFails(c)
  PROVE  RecorderInvariant' /\ QuietStep
  <1>1. /\ pc[c] \in {"looked", "locking"} /\ pc' = [pc EXCEPT ![c] = "idle"]
        /\ exposed' = [exposed EXCEPT !.owner = @ \cup {owner'}]
        /\ outcome' = [outcome EXCEPT ![S(c)] = "failed"]
        /\ UNCHANGED <<media, manifest, active, work, used, started, warned>>
        /\ owner' # owner => pc[c] = "locking" /\ owner' = Written(c)
    BY DEF LockFails, Ends
  <1>2. Kinds /\ Sensible /\ LockHeld
    BY DEF RecorderInvariant, Basics, General
  <1>3. S(c) \in Segments /\ N(c) \in Numbers
    BY <1>1, LockerKnown
  <1>4. /\ owner' \in Lock
        /\ \/ owner' = owner
           \/ owner'.by = S(c) /\ \A d \in Callers : pc[d] \in Holding => d = c
    <2>1. CASE owner' = owner
      BY <1>2, <2>1 DEF Kinds
    <2>2. CASE owner' # owner
      <3>1. owner' = LockOf(c) /\ \A d \in Callers : pc[d] \in Holding => d = c
        BY <1>1, <1>2, <2>2, OwnLock
      <3> QED
        BY <1>3, <3>1 DEF Lock, LockOf
    <2> QED
      BY <2>1, <2>2
  <1>5. /\ exposed'.owner = exposed.owner \cup {owner'}
        /\ exposed'.media = exposed.media /\ exposed'.manifest = exposed.manifest
    BY <1>1, <1>2, <1>4, OwnerShape
  <1>6. \A k \in Numbers :
          /\ media[k] \in exposed'.media[k] /\ exposed'.media[k] \subseteq exposed.media[k]
          /\ manifest[k] \in exposed'.manifest[k]
          /\ exposed'.manifest[k] \subseteq exposed.manifest[k]
    BY <1>2, <1>5 DEF Sensible, SensibleAt
  <1> QED
    BY <1>1, <1>4, <1>5, <1>6, LockStepKeeps

\* A call that takes the recording out of the table, or takes it over from the
\* lock, has the lock from then on.
LEMMA TakesOverKeeps ==
  ASSUME RecorderInvariant, Basics', NEW c \in Callers, pc[c] = "idle",
         NEW to \in {"finalizing", "evidencing", "recovering"}, pc' = [pc EXCEPT ![c] = to],
         NEW w \in Work, work' = [work EXCEPT ![c] = w], active' = {},
         UNCHANGED <<media, manifest, owner, exposed, used, started, outcome, warned>>,
         owner.by = w.segment, w.segment \in started, InPartial(w.segment, w.number),
         to = "evidencing" => w.result # "finalized",
         \A d \in Callers : pc[d] \notin Holding
  PROVE  RecorderInvariant' /\ QuietStep
  <1>1. /\ Kinds /\ Sensible /\ NewSegments /\ RecordedFiles /\ Progress
        /\ exposed.owner = {owner}
    BY DEF RecorderInvariant, Basics, General, RecordedFiles
  <1>2. /\ pc'[c] = to /\ S(c)' = w.segment /\ N(c)' = w.number /\ work'[c] = w
        /\ \A d \in Callers \ {c} : pc'[d] = pc[d] /\ S(d)' = S(d) /\ N(d)' = N(d)
    BY <1>1 DEF Kinds, S, N
  <1>3. Sensible' /\ RecordedFiles'
    BY <1>1, FilesSame DEF files
  <1>4. LockDurable'
    BY <1>1 DEF LockDurable
  <1>5. NewSegments'
    <2>1. \A x \in Segments \ used' : Fresh(x)'
      BY <1>1 DEF NewSegments, Fresh
    <2>2. ASSUME NEW d \in Callers, pc'[d] \in {"looked", "locking", "owned"}
          PROVE  d # c /\ pc'[d] = pc[d] /\ S(d)' = S(d)
      BY <1>2, <2>2
    <2>3. ASSUME NEW d \in Callers, pc'[d] = "looked"
          PROVE  Fresh(S(d))' /\ \A e \in Callers : pc'[e] = "looked" /\ S(e)' = S(d)' => e = d
      BY <1>1, <2>2, <2>3 DEF NewSegments, Fresh
    <2>4. ASSUME NEW d \in Callers, pc'[d] \in {"locking", "owned"}
          PROVE  S(d)' \notin started' /\ outcome'[S(d)'] = "none"
      BY <1>1, <2>2, <2>4 DEF NewSegments
    <2> QED
      BY <2>1, <2>3, <2>4 DEF NewSegments
  <1>6. Progress'
    <2>1. ProgressOf(c)'
      <3>1. InPartial(w.segment, w.number)'
        BY DEF InPartial
      <3> QED
        BY <1>2, <3>1 DEF ProgressOf, InPartial, Stopping
    <2>2. ASSUME NEW d \in Callers \ {c}
          PROVE  ProgressOf(d)'
      <3>1. pc'[d] \in {"idle", "looked"}
        BY <1>1, <1>2, <2>2 DEF Holding, Kinds
      <3> QED
        BY <3>1 DEF ProgressOf, Stopping
    <2> QED
      BY <2>1, <2>2 DEF Progress
  <1>7. QuietStep
    BY <1>1, SameQuiet
  <1> QED
    BY <1>3, <1>4, <1>5, <1>6, <1>7 DEF RecorderInvariant

\* There is one recording, if any, and no call has the lock then.
LEMMA OneRecording ==
  ASSUME RecorderInvariant, NEW r \in active
  PROVE  /\ active = {r} /\ owner.by = r.segment
         /\ r.segment \in started /\ InPartial(r.segment, r.number)
         /\ r.segment \in Segments /\ r.number \in Numbers
         /\ \A d \in Callers : pc[d] \notin Holding
  BY DEF RecorderInvariant, Basics, General, Kinds, LockHeld, Owned, Progress

LEMMA TakeKeeps ==
  ASSUME RecorderInvariant, Basics', NEW c \in Callers, NEW r \in active,
         FinalizeSegment(c, r) \/ \E stopped \in BOOLEAN : AbortSegment(c, r, stopped)
  PROVE  RecorderInvariant' /\ QuietStep
  <1>1. PICK to \in {"finalizing", "evidencing"}, keep \in BOOLEAN,
             result \in {"finalized", "partial"} :
          /\ pc[c] = "idle" /\ pc' = [pc EXCEPT ![c] = to]
          /\ work' = [work EXCEPT ![c] = [segment |-> r.segment, number |-> r.number,
                                          keep |-> keep, result |-> result]]
          /\ to = "evidencing" => result # "finalized"
          /\ active' = active \ {r}
          /\ UNCHANGED <<media, manifest, owner, exposed, used, started, outcome, warned>>
    BY DEF FinalizeSegment, Take, AbortSegment, Goto, files
  <1> DEFINE w == [segment |-> r.segment, number |-> r.number, keep |-> keep,
                   result |-> result]
  <1>2. w \in Work /\ w.segment = r.segment /\ w.number = r.number /\ w.result = result
    BY OneRecording DEF Work, Outcomes
  <1>3. work' = [work EXCEPT ![c] = w]
    BY <1>1
  <1> HIDE DEF w
  <1>4. active' = {}
    BY <1>1, OneRecording
  <1>5. owner.by = w.segment /\ w.segment \in started /\ InPartial(w.segment, w.number)
        /\ \A d \in Callers : pc[d] \notin Holding
    BY <1>2, OneRecording
  <1> QED
    BY <1>1, <1>2, <1>3, <1>4, <1>5, TakesOverKeeps

LEMMA RecoverSegmentKeeps ==
  ASSUME RecorderInvariant, Basics', retaken' = {}, NEW c \in Callers, RecoverSegment(c)
  PROVE  RecorderInvariant' /\ QuietStep
  <1> DEFINE w == [segment |-> owner.by, number |-> owner.number, keep |-> FALSE,
                   result |-> "none"]
  <1>1. /\ pc[c] = "idle" /\ pc' = [pc EXCEPT ![c] = "recovering"]
        /\ work' = [work EXCEPT ![c] = w]
        /\ owner.by \in started /\ media[owner.number].partial.by # NoOne
        /\ ~Handled(owner.by)
        /\ UNCHANGED <<media, manifest, owner, exposed, active, used, started, outcome, warned>>
    BY DEF RecoverSegment, Goto, files
  <1>2. /\ Kinds /\ LocksNamed /\ Sensible /\ LockHeld /\ Owned /\ RecordedFiles
        /\ NoOne \notin started
    BY RecorderAssumption DEF RecorderInvariant, Basics, General, Kinds, RecorderAssumption
  <1>3. active' = {} /\ \A d \in Callers : pc[d] \notin Holding
    BY <1>1, <1>2 DEF Handled, Owned, LockHeld, Holding
  <1>4. owner.number \in Numbers
    BY <1>1, <1>2 DEF LocksNamed, Named, NoLock
  <1>5. InPartial(owner.by, owner.number)
    <2>1. media[owner.number] \in exposed.media[owner.number] /\ owner \in exposed.owner
      BY <1>4, <1>2 DEF Sensible, SensibleAt
    <2>2. media[owner.number].partial.by \in {NoOne, owner.by}
      BY <1>1, <1>2, <2>1 DEF RecordedFiles, FilesBy, ByOnly
    <2>3. media[owner.number].partial # NoAudio
      BY <1>1 DEF NoAudio
    <2>4. media[owner.number].final = NoAudio
      BY <1>2, <1>4, <2>1, <2>3 DEF Sensible, SensibleAt, OneName
    <2> QED
      BY <1>1, <2>2, <2>4 DEF InPartial
  <1>6. w \in Work /\ w.segment = owner.by /\ w.number = owner.number
    BY <1>2, <1>4 DEF Kinds, Lock, Work, Outcomes
  <1> HIDE DEF w
  <1> QED
    BY <1>1, <1>3, <1>5, <1>6, TakesOverKeeps

-----------------------------------------------------------------------------
(* A process is killed, or power is lost, or nothing happens.              *)

LEMMA StopKeeps ==
  ASSUME RecorderInvariant, Basics', (\E p \in Processes : Kill(p)) \/ UNCHANGED vars
  PROVE  RecorderInvariant' /\ QuietStep
  <1>1. /\ active' \subseteq active /\ \A c \in Callers : pc'[c] \in {pc[c], "idle"}
        /\ UNCHANGED <<media, manifest, owner, exposed, work, used, started, outcome, warned>>
    BY DEF Kill, vars, files, RecorderInvariant, Basics, General, Kinds
  <1>2. /\ Kinds /\ Sensible /\ LockDurable /\ NewSegments /\ RecordedFiles /\ Progress
    BY DEF RecorderInvariant, Basics, General
  <1>3. Sensible' /\ RecordedFiles'
    BY <1>1, <1>2, FilesSame DEF files
  <1>4. LockDurable'
    BY <1>1, <1>2 DEF LockDurable, Past, Holding
  <1>5. NewSegments'
    BY <1>1, <1>2 DEF NewSegments, Fresh, S
  <1>6. Progress'
    <2>1. ASSUME NEW c \in Callers
          PROVE  ProgressOf(c)'
      <3>1. CASE pc'[c] = "idle"
        BY <3>1 DEF ProgressOf, Stopping
      <3>2. CASE pc'[c] = pc[c]
        BY <1>1, <1>2, <3>2 DEF Progress, ProgressOf, Unused, InPartial, InFinal, S, N
      <3> QED
        BY <1>1, <3>1, <3>2
    <2> QED
      BY <1>1, <1>2, <2>1 DEF Progress, InPartial
  <1>7. QuietStep
    BY <1>1, <1>2 DEF QuietStep, Sensible, SensibleAt, Stages
  <1> QED
    BY <1>3, <1>4, <1>5, <1>6, <1>7 DEF RecorderInvariant

LEMMA LosePowerKeeps ==
  ASSUME RecorderInvariant, Basics', LosePower
  PROVE  /\ RecorderInvariant' /\ \A c \in Callers : pc'[c] = "idle"
         /\ UNCHANGED <<outcome, warned>>
         /\ owner' \in exposed.owner /\ exposed'.owner = {owner'}
         /\ \A n \in Numbers :
              /\ media'[n] \in PossibleMedia(n) /\ manifest'[n] \in exposed.manifest[n]
              /\ exposed'.media[n] = {media'[n]} /\ exposed'.manifest[n] = {manifest'[n]}
  <1>1. Kinds /\ LocksNamed /\ Sensible /\ RecordedFiles /\ NewSegments
    BY DEF RecorderInvariant, Basics, General
  <1>2. /\ \A n \in Numbers : media'[n] \in PossibleMedia(n)
        /\ \A n \in Numbers : manifest'[n] \in exposed.manifest[n]
        /\ owner' \in exposed.owner /\ exposed' = Synced(media', manifest', owner')
        /\ active' = {} /\ pc' = [c \in Callers |-> "idle"]
        /\ UNCHANGED <<work, used, started, outcome, warned>>
    BY DEF LosePower
  <1>3. /\ media' \in [Numbers -> Media] /\ manifest' \in [Numbers -> Manifest]
        /\ owner' \in Lock
    BY DEF Basics, General, Kinds
  <1>4. /\ exposed'.owner = {owner'}
        /\ \A n \in Numbers : /\ exposed'.media[n] = {media'[n]}
                              /\ exposed'.manifest[n] = {manifest'[n]}
    BY <1>2, <1>3, SyncShape
  <1>5. ASSUME NEW n \in Numbers
        PROVE  SensibleAt(n)' /\ \A s : FilesBy(s, n) => FilesBy(s, n)'
    <2>1. PICK m \in exposed.media[n] :
            /\ media'[n].partial.by = m.partial.by /\ media'[n].final.by = m.final.by
            /\ OneName(m) => OneName(media'[n])
      BY <1>1, <1>2, PossibleKnown
    <2>2. OneName(m) /\ (manifest'[n].kind = "none" \/ manifest'[n].by # NoOne)
      BY <1>1, <1>2 DEF Sensible, SensibleAt
    <2>3. /\ exposed'.media[n] = {media'[n]} /\ exposed'.manifest[n] = {manifest'[n]}
          /\ manifest'[n] \in exposed.manifest[n]
      BY <1>2, <1>4
    <2>4. SensibleAt(n)'
      BY <2>1, <2>2, <2>3 DEF SensibleAt, OneName
    <2>5. ASSUME NEW s, FilesBy(s, n)
          PROVE  FilesBy(s, n)'
      BY <2>1, <2>3, <2>5 DEF FilesBy, ByOnly
    <2> QED
      BY <2>4, <2>5
  <1>6. Sensible'
    BY <1>4, <1>5 DEF Sensible
  <1>7. RecordedFiles'
    <2>1. ASSUME NEW o \in exposed'.owner, o.by \in started'
          PROVE  FilesBy(o.by, o.number)'
      <3>1. o = owner' /\ o \in exposed.owner /\ o.by \in started
        BY <1>2, <1>4, <2>1
      <3>2. FilesBy(o.by, o.number)
        BY <1>1, <3>1 DEF RecordedFiles
      <3>3. o.number \in Numbers
        BY <1>1, <3>1, RecorderAssumption
           DEF LocksNamed, Named, NoLock, Kinds, RecorderAssumption
      <3> QED
        BY <1>5, <3>2, <3>3
    <2> QED
      BY <1>4, <2>1 DEF RecordedFiles
  <1>8. \A c \in Callers : pc'[c] = "idle"
    BY <1>2
  <1>9. LockDurable' /\ NewSegments' /\ Progress'
    BY <1>1, <1>2, <1>4, <1>8
       DEF LockDurable, NewSegments, Fresh, Progress, ProgressOf, Stopping, Past, Holding
  <1> QED
    BY <1>2, <1>4, <1>6, <1>7, <1>8, <1>9 DEF RecorderInvariant

-----------------------------------------------------------------------------
(* The recorder's invariant.                                               *)

LEMMA RecorderInit ==
  ASSUME Init
  PROVE  RecorderInvariant /\ DurableInvariant
  <1>1. /\ media = [n \in Numbers |-> [partial |-> NoAudio, final |-> NoAudio]]
        /\ manifest = [n \in Numbers |-> NoManifest] /\ owner = NoLock
        /\ exposed = Synced(media, manifest, owner) /\ active = {}
        /\ pc = [c \in Callers |-> "idle"] /\ work = [c \in Callers |-> NoWork]
        /\ used = {} /\ started = {} /\ outcome = [s \in Segments |-> "none"] /\ warned = {}
        /\ late = {} /\ retaken = {}
    BY DEF Init
  <1>2. NoAudio \in Audio /\ NoManifest \in Manifest /\ NoLock \in Lock /\ NoWork \in Work
    BY DEF Audio, NoAudio, Manifest, NoManifest, Lock, NoLock, Work, NoWork, Outcomes
  <1>3. media \in [Numbers -> Media] /\ manifest \in [Numbers -> Manifest]
    BY <1>1, <1>2 DEF Media
  <1>4. /\ exposed \in Exposures /\ exposed.owner = {owner}
        /\ \A n \in Numbers : /\ exposed.media[n] = {media[n]}
                              /\ exposed.manifest[n] = {manifest[n]}
    BY <1>1, <1>2, <1>3 DEF Synced, Exposures
  <1>5. \A c \in Callers : pc[c] = "idle"
    BY <1>1
  <1>6. Basics
    <2>1. Kinds
      BY <1>1, <1>2, <1>3, <1>4 DEF Kinds, Stages, Outcomes
    <2>2. LocksNamed /\ NamesApart
      BY <1>1, <1>4 DEF LocksNamed, Named, NamesApart, OneName
    <2>3. LockHeld /\ Owned
      BY <1>1, <1>5 DEF LockHeld, Owned, Holding
    <2> QED
      BY <2>1, <2>2, <2>3 DEF Basics, General
  <1>7. Sensible
    <2>1. ASSUME NEW n \in Numbers
          PROVE  SensibleAt(n)
      <3>1. /\ OneName(media[n]) /\ manifest[n].kind = "none"
            /\ exposed.media[n] = {media[n]} /\ exposed.manifest[n] = {manifest[n]}
        BY <1>1, <1>4 DEF NoManifest, OneName
      <3> QED
        BY <3>1 DEF SensibleAt
    <2> QED
      BY <1>4, <2>1 DEF Sensible
  <1>8. LockDurable /\ RecordedFiles
    BY <1>1, <1>4 DEF LockDurable, RecordedFiles
  <1>9. NewSegments
    <2>1. \A s \in Segments : Fresh(s)
      <3>1. owner.by = NoOne /\ exposed.owner = {owner}
        BY <1>1, <1>4 DEF NoLock
      <3> QED
        BY <1>1, <3>1, RecorderAssumption DEF Fresh, RecorderAssumption
    <2> QED
      BY <1>5, <2>1 DEF NewSegments
  <1>10. Progress
    BY <1>1, <1>5 DEF Progress, ProgressOf, Stopping
  <1>11. BytesSynced
    BY <1>5 DEF BytesSynced, SyncedBy
  <1>12. Honest /\ Durable
    BY <1>1, <1>4 DEF Honest, HonestAt, Durable, NoManifest
  <1> QED
    BY <1>6, <1>7, <1>8, <1>9, <1>10, <1>11, <1>12 DEF RecorderInvariant, DurableInvariant

\* Every step keeps the invariant while calls keep apart, and is of one of these kinds.
LEMMA RecorderStep ==
  ASSUME RecorderInvariant, [Next]_vars, Apart'
  PROVE  /\ Basics' /\ RecorderInvariant'
         /\ \/ QuietStep \/ LosePower
            \/ \E c \in Callers : OpenStep(c) \/ SyncAudio(c) \/ SyncManifest(c)
                                  \/ InstallManifest(c) \/ Release(c)
  <1>1. Basics' /\ late' = {} /\ retaken' = {}
    BY GeneralStep, LockStep DEF RecorderInvariant, Basics, Apart
  <1>2. CASE LosePower
    BY <1>1, <1>2, LosePowerKeeps
  <1>3. CASE (\E p \in Processes : Kill(p)) \/ UNCHANGED vars
    BY <1>1, <1>3, StopKeeps
  <1>4. ASSUME NEW c \in Callers,
               \/ \E s \in Segments, n \in Numbers : Look(c, s, n)
               \/ CreateLock(c) \/ SyncLock(c) \/ LockFails(c)
               \/ ReleaseFails(c) \/ FinalizeFails(c)
               \/ \E r \in active : FinalizeSegment(c, r)
               \/ \E r \in active, stopped \in BOOLEAN : AbortSegment(c, r, stopped)
               \/ RecoverSegment(c) \/ Recovered(c)
        PROVE  RecorderInvariant' /\ QuietStep
    BY <1>1, <1>4, LookKeeps, CreateLockKeeps, SyncLockKeeps, LockFailsKeeps,
       ReleaseFailsKeeps, TakeKeeps, RecoverSegmentKeeps, RecoveredKeeps
  <1>5. ASSUME NEW c \in Callers,
               \/ Begin(c) \/ \E resolved \in BOOLEAN : BeginFails(c, resolved)
               \/ Clear(c) \/ WriteEvidence(c) \/ EngineFinalizes(c) \/ InstallAudio(c)
        PROVE  RecorderInvariant' /\ OpenStep(c)
    BY <1>1, <1>5, BeginKeeps, BeginFailsKeeps, ClearKeeps, WriteEvidenceKeeps,
       EngineFinalizesKeeps, InstallAudioKeeps
  <1>6. ASSUME NEW c \in Callers,
               SyncAudio(c) \/ SyncManifest(c) \/ InstallManifest(c) \/ Release(c)
        PROVE  RecorderInvariant'
    BY <1>1, <1>6, SyncStepKeeps, InstallManifestKeeps, ReleaseKeeps
  <1> QED
    BY <1>1, <1>2, <1>3, <1>4, <1>5, <1>6 DEF Next

\* What has crossed stays on record.
LEMMA OverlapsStay ==
  ASSUME [Next]_vars
  PROVE  late \subseteq late' /\ retaken \subseteq retaken'
  BY DEF Next, vars, overlaps, Look, CreateLock, SyncLock, LockFails, Begin, BeginFails, Clear,
         WriteEvidence, Release, ReleaseFails, FinalizeSegment, Take, EngineFinalizes,
         FinalizeFails, InstallAudio, SyncAudio, InstallManifest, SyncManifest, AbortSegment,
         RecoverSegment, Recovered, Kill, LosePower, Overlooks

-----------------------------------------------------------------------------
(* What a step leaves of the files that are final.                         *)

LEMMA ManifestStays ==
  ASSUME RecorderInvariant, Apart, [Next]_vars, ~LosePower,
         NEW n \in Numbers, media[n].final # NoAudio, manifest[n].kind = "finalized"
  PROVE  manifest'[n] = manifest[n]
  <1>1. CASE Apart'
    <2>1. \/ QuietStep
          \/ \E c \in Callers : OpenStep(c) \/ SyncAudio(c) \/ SyncManifest(c)
                                \/ InstallManifest(c) \/ Release(c)
      BY <1>1, RecorderStep
    <2>2. CASE QuietStep
      BY <2>2 DEF QuietStep
    <2>3. ASSUME NEW c \in Callers, OpenStep(c)
          PROVE  manifest'[n] = manifest[n]
      BY <2>3 DEF OpenStep, HolderStep, OthersKept
    <2>4. ASSUME NEW c \in Callers, SyncAudio(c) \/ SyncManifest(c) \/ Release(c)
          PROVE  manifest'[n] = manifest[n]
      BY <2>4 DEF SyncAudio, SyncManifest, Release, files
    <2>5. ASSUME NEW c \in Callers, InstallManifest(c)
          PROVE  manifest'[n] = manifest[n]
      <3>1. /\ pc[c] = "describing" /\ pc[c] \in Past
            /\ manifest' = [manifest EXCEPT ![N(c)] = [by |-> S(c), kind |-> "finalized"]]
        BY <2>5 DEF InstallManifest, Goto, Past, Holding, Stages
      <3>2. /\ Kinds /\ Sensible /\ ProgressOf(c) /\ N(c) \in Numbers
            /\ S(c) \in started => FilesBy(S(c), N(c))
        BY <3>1, HolderKnown
      <3>3. FilesBy(S(c), N(c))
        BY <3>1, <3>2 DEF ProgressOf, Stopping
      <3>4. manifest[N(c)].kind = "finalized" => manifest[N(c)].by = S(c)
        BY <3>2, <3>3 DEF FilesBy, Sensible, SensibleAt
      <3>5. manifest[N(c)].kind = "finalized"
              => manifest[N(c)] = [by |-> S(c), kind |-> "finalized"]
        BY <3>2, <3>4 DEF Kinds, Manifest
      <3> QED
        BY <3>1, <3>2, <3>5 DEF Kinds
    <2> QED
      BY <2>1, <2>2, <2>3, <2>4, <2>5
  <1>2. CASE ~Apart'
    <2>1. ASSUME NEW c \in Callers,
                 \/ CreateLock(c) \/ Begin(c) \/ RecoverSegment(c)
                 \/ \E resolved \in BOOLEAN : BeginFails(c, resolved)
          PROVE  manifest' = manifest
      BY <2>1 DEF CreateLock, Begin, RecoverSegment, BeginFails, files
    <2>2. ASSUME NEW c \in Callers,
                 \/ \E s \in Segments, k \in Numbers : Look(c, s, k)
                 \/ SyncLock(c) \/ LockFails(c)
                 \/ Clear(c) \/ WriteEvidence(c) \/ Release(c) \/ ReleaseFails(c)
                 \/ \E r \in active : FinalizeSegment(c, r)
                 \/ EngineFinalizes(c) \/ FinalizeFails(c)
                 \/ InstallAudio(c) \/ SyncAudio(c) \/ InstallManifest(c) \/ SyncManifest(c)
                 \/ \E r \in active, stopped \in BOOLEAN : AbortSegment(c, r, stopped)
                 \/ Recovered(c)
          PROVE  late' = late /\ retaken' = retaken
      BY <2>2 DEF overlaps, Look, SyncLock, LockFails, Clear, WriteEvidence, Release,
                  ReleaseFails, FinalizeSegment, Take, EngineFinalizes, FinalizeFails,
                  InstallAudio, SyncAudio, InstallManifest, SyncManifest, AbortSegment,
                  Recovered
    <2>3. ASSUME UNCHANGED vars \/ \E p \in Processes : Kill(p)
          PROVE  late' = late /\ retaken' = retaken
      BY <2>3 DEF vars, files, Kill, overlaps
    <2>4. manifest' = manifest \/ (late' = late /\ retaken' = retaken)
      BY <2>1, <2>2, <2>3 DEF Next
    <2> QED
      BY <1>2, <2>4 DEF Apart
  <1> QED
    BY <1>1, <1>2

-----------------------------------------------------------------------------
(* The theorems.                                                           *)

LEMMA GeneralAlways ==
  Spec => []General
  <1>1. Init => General
    BY RecorderInit DEF RecorderInvariant, Basics
  <1>2. General /\ [Next]_vars => General'
    BY GeneralStep
  <1> QED
    BY <1>1, <1>2, PTL DEF Spec

\* The variables of the recorder stay of their types, however calls cross.
THEOREM RecorderTypeCorrect ==
  Spec => []TypeOK
  <1>1. General => TypeOK
    BY ExposedParts DEF General, Kinds, TypeOK
  <1> QED
    BY <1>1, GeneralAlways, PTL

\* What is being recorded is what the ownership lock names, and nobody else records,
\* after any failure, kill or loss of power and however starts cross, in any number of
\* processes, as long as no recovery takes over a recording that somebody still has
\* (recorder.go, ownership.go).
THEOREM RecordingsOwned ==
  Spec => []RecordingOwned
  <1>1. Init => retaken # {} \/ (LockHeld /\ Owned)
    BY RecorderInit DEF RecorderInvariant, Basics
  <1>2. General /\ (retaken # {} \/ (LockHeld /\ Owned)) /\ [Next]_vars
          => (retaken # {} \/ (LockHeld /\ Owned))'
    BY LockStep, OverlapsStay
  <1>3. retaken # {} \/ (LockHeld /\ Owned) => RecordingOwned
    BY DEF Owned, RecordingOwned
  <1> QED
    BY <1>1, <1>2, <1>3, GeneralAlways, PTL DEF Spec

\* No call ever overwrites or removes final audio, whichever cross, unless a start
\* missed files of the number; nor the manifest that finalizes it while calls keep
\* apart (recorder.go: FinalizeSegment, AbortSegment, RecoverSegment).
THEOREM FinalAudioKept ==
  Spec => FinalKept
  <1>1. Init => ~Apart \/ RecorderInvariant
    BY RecorderInit
  <1>2. (~Apart \/ RecorderInvariant) /\ [Next]_vars => (~Apart \/ RecorderInvariant)'
    BY RecorderStep, OverlapsStay DEF Apart
  <1>3. General /\ (~Apart \/ RecorderInvariant) /\ [Next]_vars =>
          [LosePower \/
           \A n \in Numbers :
             media[n].final # NoAudio =>
               /\ n \notin late => media'[n].final = media[n].final
               /\ Apart /\ manifest[n].kind = "finalized" => manifest'[n] = manifest[n]]_vars
    BY AudioStays, ManifestStays
  <1> QED
    BY <1>1, <1>2, <1>3, GeneralAlways, PTL DEF Spec, FinalKept

-----------------------------------------------------------------------------
(* What survives a loss of power, with the synthetic engine.               *)

\* Losing unsynced bytes twice is losing them once.
LEMMA ShornTwice ==
  ASSUME NEW a \in Audio, NEW b \in Shorn(a), NEW d \in Shorn(b)
  PROVE  d \in Shorn(a)
  <1>1. CASE a.synced
    BY <1>1 DEF Shorn
  <1>2. CASE ~a.synced
    <2>1. b = a \/ b = [a EXCEPT !.whole = FALSE]
      BY <1>2 DEF Shorn
    <2>2. CASE b = a
      BY <2>2
    <2>3. CASE b = [a EXCEPT !.whole = FALSE]
      <3>1. [b EXCEPT !.whole = FALSE] = b
        BY <2>3 DEF Audio
      <3> QED
        BY <1>2, <2>3, <3>1 DEF Shorn
    <2> QED
      BY <2>1, <2>2, <2>3
  <1> QED
    BY <1>1, <1>2

LEMMA FewerPossible ==
  ASSUME NEW k, exposed'.media[k] \subseteq exposed.media[k]
  PROVE  PossibleMedia(k)' \subseteq PossibleMedia(k)
  BY DEF PossibleMedia

\* What is there may survive.
LEMMA PresentPossible ==
  ASSUME Kinds, Sensible, NEW k \in Numbers
  PROVE  media[k] \in PossibleMedia(k)
  <1>1. /\ media[k] \in exposed.media[k] /\ media[k] \in Media
        /\ media[k].partial \in Shorn(media[k].partial)
        /\ media[k].final \in Shorn(media[k].final)
    BY DEF Kinds, Sensible, SensibleAt, Shorn
  <1>2. media[k] \in [partial : Shorn(media[k].partial), final : Shorn(media[k].final)]
    <2>1. media[k] = [partial |-> media[k].partial, final |-> media[k].final]
      BY <1>1 DEF Media
    <2> QED
      BY <1>1, <2>1
  <1> QED
    BY <1>1, <1>2 DEF PossibleMedia

\* Synced bytes under a durable name are still there.
LEMMA SyncedPossible ==
  ASSUME Kinds, NEW k \in Numbers, exposed.media[k] = {media[k]}, media[k].final.synced,
         NEW x \in PossibleMedia(k)
  PROVE  x.final = media[k].final
  <1>1. PICK m \in exposed.media[k] : m \in Media /\ x.final \in Shorn(m.final)
    BY PossibleKnown
  <1>2. m = media[k] /\ m.final \in Audio
    BY <1>1 DEF Media
  <1> QED
    BY <1>1, <1>2, ShornAudio

\* No manifest claims audio that has no final name.
LEMMA NothingClaimed ==
  ASSUME Kinds, Sensible, Honest, NEW k \in Numbers, media[k].final = NoAudio,
         NEW m \in exposed.manifest[k], m.kind = "finalized"
  PROVE  m.by \in warned
  <1>1. m.by # NoOne
    BY DEF Sensible, SensibleAt
  <1>2. media[k] \in PossibleMedia(k)
    BY PresentPossible
  <1>3. media[k].final.by = NoOne
    BY DEF NoAudio
  <1> QED
    BY <1>1, <1>2, <1>3 DEF Honest, HonestAt

LEMMA QuietDurable ==
  ASSUME RecorderInvariant, DurableInvariant, QuietStep
  PROVE  DurableInvariant'
  <1>1. /\ Kinds /\ Sensible /\ BytesSynced /\ Honest /\ Durable
        /\ UNCHANGED <<media, manifest, warned>>
        /\ \A k \in Numbers :
             /\ media[k] \in exposed'.media[k] /\ exposed'.media[k] \subseteq exposed.media[k]
             /\ exposed'.manifest[k] \subseteq exposed.manifest[k]
        /\ \A s \in Segments : outcome'[s] = "finalized" => outcome[s] = "finalized"
        /\ \A o \in exposed'.owner : o \in exposed.owner \/ outcome'[o.by] # "finalized"
        /\ \A d \in Callers :
             \/ pc'[d] = pc[d] /\ work'[d] = work[d]
             \/ pc'[d] \in Stages \ {"installing", "syncing", "describing", "confirming",
                                     "releasing"}
    BY DEF RecorderInvariant, DurableInvariant, QuietStep, Basics, General
  <1>2. \A k \in Numbers : PossibleMedia(k)' \subseteq PossibleMedia(k)
    BY <1>1, FewerPossible
  <1>3. BytesSynced'
    <2>1. ASSUME NEW d \in Callers
          PROVE  SyncedBy(d)'
      <3>1. CASE pc'[d] = pc[d] /\ work'[d] = work[d]
        <4>1. S(d)' = S(d) /\ N(d)' = N(d) /\ SyncedBy(d)
              /\ (pc[d] # "idle" => N(d) \in Numbers)
          BY <1>1, <3>1 DEF S, N, BytesSynced, Kinds
        <4>2. pc[d] = "describing" /\ S(d) \notin warned => exposed'.media[N(d)] = {media[N(d)]}
          BY <1>1, <4>1 DEF SyncedBy
        <4> QED
          BY <1>1, <3>1, <4>1, <4>2 DEF SyncedBy
      <3>2. CASE pc'[d] \in Stages \ {"installing", "syncing", "describing", "confirming",
                                      "releasing"}
        BY <3>2 DEF SyncedBy
      <3> QED
        BY <1>1, <3>1, <3>2
    <2> QED
      BY <2>1 DEF BytesSynced
  <1>4. Honest'
    BY <1>1, <1>2 DEF Honest, HonestAt
  <1>5. Durable'
    <2>1. ASSUME NEW s \in Segments, outcome'[s] = "finalized", s \notin warned'
          PROVE  /\ \A o \in exposed'.owner : o.by # s
                 /\ \E k \in Numbers : Holds(s, k)'
      <3>1. /\ \A o \in exposed.owner : o.by # s
            /\ \E k \in Numbers : Holds(s, k)
        BY <1>1, <2>1 DEF Durable
      <3>2. PICK k \in Numbers : Holds(s, k)
        BY <3>1
      <3>3. Holds(s, k)'
        BY <1>1, <1>2, <3>2 DEF Holds
      <3> QED
        BY <1>1, <2>1, <3>1, <3>3
    <2> QED
      BY <2>1 DEF Durable
  <1> QED
    BY <1>3, <1>4, <1>5 DEF DurableInvariant

\* A step of a call that has the lock is right about all files if it is right about
\* those of its own number, and about its own segment.
LEMMA HolderDurable ==
  ASSUME RecorderInvariant, DurableInvariant, NEW c \in Callers, NEW to, HolderStep(c, to),
         NEW s, s = S(c), NEW n, n = N(c),
         SyncedBy(c)', HonestAt(n)',
         \/ media[n].final = NoAudio \/ s \in started
         \/ /\ exposed'.media[n] \subseteq exposed.media[n]
            /\ exposed'.manifest[n] \subseteq exposed.manifest[n],
         \/ outcome'[s] = "finalized" => outcome[s] = "finalized"
         \/ s \in warned'
         \/ Holds(s, n)' /\ \A o \in exposed'.owner : o.by # s
  PROVE  DurableInvariant'
  <1>1. /\ Kinds /\ Sensible /\ BytesSynced /\ Honest /\ Durable
        /\ LockHeld /\ RecordedFiles /\ pc[c] \in Holding
    BY DEF RecorderInvariant, Basics, General, DurableInvariant, HolderStep, Past
  <1>2. /\ s \in Segments /\ s # NoOne /\ n \in Numbers /\ owner.by = s
        /\ exposed.owner = {owner} /\ (s \in started => FilesBy(s, n))
        /\ \A d \in Callers : pc[d] \in Holding => d = c
    <2>1. pc[c] \in Past
      BY DEF HolderStep
    <2> QED
      BY <1>1, <2>1, HolderKnown DEF LockOf, LockHeld
  <1>3. \A k \in Numbers \ {n} :
          /\ PossibleMedia(k)' \subseteq PossibleMedia(k)
          /\ exposed'.manifest[k] \subseteq exposed.manifest[k]
    BY FewerPossible DEF HolderStep, OthersKept
  <1>4. /\ warned \subseteq warned' /\ \A x \in Segments \ {s} : outcome'[x] = outcome[x]
        /\ exposed'.owner \subseteq {owner, NoLock} /\ NoLock.by = NoOne
    BY DEF HolderStep, NoLock
  <1>5. BytesSynced'
    <2>1. ASSUME NEW d \in Callers \ {c}
          PROVE  SyncedBy(d)'
      <3>1. pc'[d] = pc[d] /\ pc[d] \notin Holding /\ pc[d] \in Stages
        BY <1>1, <1>2, <2>1 DEF HolderStep, Kinds
      <3> QED
        BY <3>1 DEF SyncedBy, Holding
    <2> QED
      BY <2>1 DEF BytesSynced
  <1>6. Honest'
    <2>1. ASSUME NEW k \in Numbers \ {n}
          PROVE  HonestAt(k)'
      BY <1>1, <1>3, <1>4, <2>1 DEF Honest, HonestAt
    <2> QED
      BY <2>1 DEF Honest, HonestAt
  <1>7. Durable'
    <2>1. ASSUME NEW x \in Segments, x # s, outcome'[x] = "finalized", x \notin warned'
          PROVE  /\ \A o \in exposed'.owner : o.by # x
                 /\ \E k \in Numbers : Holds(x, k)'
      <3>1. x # NoOne /\ outcome[x] = "finalized" /\ x \notin warned
        BY <1>4, <2>1, RecorderAssumption DEF RecorderAssumption
      <3>2. PICK k \in Numbers : Holds(x, k)
        BY <1>1, <3>1 DEF Durable
      <3>3. k = n => /\ media[n].final # NoAudio /\ s \notin started
        <4>1. media[k] \in PossibleMedia(k) /\ media[k] \in exposed.media[k]
          BY <1>1, PresentPossible DEF Sensible, SensibleAt
        <4>2. media[k].final.by = x
          BY <3>2, <4>1 DEF Holds
        <4>3. media[k].final # NoAudio
          BY <3>1, <4>2 DEF NoAudio
        <4>4. k = n /\ s \in started => media[k].final.by \in {NoOne, s}
          BY <1>2, <4>1 DEF FilesBy, ByOnly
        <4> QED
          BY <2>1, <3>1, <4>2, <4>3, <4>4
      <3>4. Holds(x, k)'
        <4>1. PossibleMedia(k)' \subseteq PossibleMedia(k)
              /\ exposed'.manifest[k] \subseteq exposed.manifest[k]
          BY <1>3, <3>3, FewerPossible
        <4> QED
          BY <3>2, <4>1 DEF Holds
      <3> QED
        BY <1>2, <1>4, <2>1, <3>1, <3>4
    <2>2. ASSUME outcome'[s] = "finalized", s \notin warned'
          PROVE  /\ \A o \in exposed'.owner : o.by # s
                 /\ \E k \in Numbers : Holds(s, k)'
      <3>1. outcome[s] # "finalized"
        BY <1>1, <1>2, <1>4, <2>2 DEF Durable
      <3> QED
        BY <1>2, <2>2, <3>1
    <2> QED
      BY <2>1, <2>2 DEF Durable
  <1> QED
    BY <1>5, <1>6, <1>7 DEF DurableInvariant

LEMMA OpenDurable ==
  ASSUME RecorderInvariant, DurableInvariant, Engine = "synthetic",
         NEW c \in Callers, OpenStep(c), NEW s, s = S(c), NEW n, n = N(c)
  PROVE  DurableInvariant'
  <1>1. PICK to : HolderStep(c, to)
    BY DEF OpenStep
  <1>2. /\ Kinds /\ Sensible /\ Honest /\ SyncedBy(c) /\ n \in Numbers
        /\ warned \subseteq warned'
    <2>1. pc[c] \in Past /\ warned \subseteq warned'
      BY <1>1 DEF HolderStep
    <2> QED
      BY <2>1, HolderKnown DEF DurableInvariant, BytesSynced
  <1>3. /\ media[n].final = NoAudio
        /\ exposed'.manifest[n]
             \subseteq exposed.manifest[n] \cup {[by |-> s, kind |-> "failed"]}
        /\ outcome'[s] = "finalized" => outcome[s] = "finalized"
        /\ SyncedBy(c)'
    BY <1>2 DEF OpenStep
  <1>4. HonestAt(n)'
    <2>1. ASSUME NEW m \in exposed'.manifest[n], m.kind = "finalized"
          PROVE  m.by \in warned'
      <3>1. m \in exposed.manifest[n]
        BY <1>3, <2>1
      <3> QED
        BY <1>2, <1>3, <2>1, <3>1, NothingClaimed
    <2> QED
      BY <2>1 DEF HonestAt
  <1> QED
    BY <1>1, <1>3, <1>4, HolderDurable

LEMMA SyncDurable ==
  ASSUME RecorderInvariant, Basics', DurableInvariant, NEW c \in Callers,
         SyncAudio(c) \/ SyncManifest(c), NEW s, s = S(c), NEW n, n = N(c)
  PROVE  DurableInvariant'
  <1>1. /\ \E to : HolderStep(c, to)
        /\ exposed'.media[n] \subseteq exposed.media[n]
        /\ exposed'.manifest[n] \subseteq exposed.manifest[n]
        /\ InFinal(s, n) /\ UNCHANGED <<media, manifest, work, outcome>>
        /\ SyncAudio(c) => exposed'.media[n] = {media[n]} \/ s \in warned'
        /\ pc'[c] = IF pc[c] = "syncing" THEN "describing" ELSE "releasing"
        /\ pc[c] = "syncing" <=> SyncAudio(c)
    BY SyncStepKeeps
  <1>2. PICK to : HolderStep(c, to)
    BY <1>1
  <1>3. /\ Honest /\ SyncedBy(c) /\ n \in Numbers /\ warned \subseteq warned'
        /\ pc[c] \in {"syncing", "confirming"}
    <2>1. pc[c] \in Past /\ warned \subseteq warned'
      BY <1>2 DEF HolderStep
    <2> QED
      BY <2>1, HolderKnown DEF DurableInvariant, BytesSynced, SyncAudio, SyncManifest, Goto
  <1>4. SyncedBy(c)'
    <2>1. S(c)' = s /\ N(c)' = n /\ media'[n] = media[n]
      BY <1>1 DEF S, N
    <2>2. media[n].final.synced
      BY <1>3 DEF SyncedBy
    <2>3. pc'[c] = "describing" /\ s \notin warned' => exposed'.media[n] = {media[n]}
      BY <1>1
    <2>4. pc'[c] # "installing"
      BY <1>1
    <2> QED
      BY <2>1, <2>2, <2>3, <2>4 DEF SyncedBy
  <1>5. HonestAt(n)'
    <2>1. PossibleMedia(n)' \subseteq PossibleMedia(n)
      BY <1>1, FewerPossible
    <2> QED
      BY <1>1, <1>3, <2>1 DEF Honest, HonestAt
  <1> QED
    BY <1>1, <1>2, <1>4, <1>5, HolderDurable

LEMMA InstallManifestDurable ==
  ASSUME RecorderInvariant, Basics', DurableInvariant, NEW c \in Callers, InstallManifest(c),
         NEW s, s = S(c), NEW n, n = N(c)
  PROVE  DurableInvariant'
  <1>1. /\ HolderStep(c, "confirming")
        /\ InFinal(s, n) /\ manifest'[n] = [by |-> s, kind |-> "finalized"]
        /\ exposed'.media = exposed.media
        /\ exposed'.manifest[n] = exposed.manifest[n] \cup {manifest'[n]}
        /\ UNCHANGED <<media, work, outcome, warned>>
    BY InstallManifestKeeps
  <1>2. pc[c] = "describing" /\ pc[c] \in Past
    BY DEF InstallManifest, Goto, Past, Holding, Stages
  <1>3. /\ Kinds /\ Honest /\ SyncedBy(c) /\ n \in Numbers /\ s \in started
        /\ pc'[c] = "confirming"
    BY <1>1, <1>2, HolderKnown
       DEF DurableInvariant, BytesSynced, ProgressOf, Stopping, HolderStep, Kinds
  <1>4. /\ media[n].final.synced
        /\ s \notin warned => exposed.media[n] = {media[n]}
    BY <1>2, <1>3 DEF SyncedBy
  <1>5. SyncedBy(c)'
    <2>1. N(c)' = n /\ media'[n] = media[n]
      BY <1>1 DEF N
    <2> QED
      BY <1>3, <1>4, <2>1 DEF SyncedBy
  <1>6. HonestAt(n)'
    <2>1. PossibleMedia(n)' \subseteq PossibleMedia(n)
      BY <1>1, FewerPossible
    <2>2. s \notin warned => \A x \in PossibleMedia(n) : x.final.by = s /\ x.final.whole
      BY <1>1, <1>3, <1>4, SyncedPossible DEF InFinal
    <2>3. \A m \in exposed'.manifest[n] : m \in exposed.manifest[n] \/ m.by = s
      BY <1>1
    <2> QED
      BY <1>1, <1>3, <2>1, <2>2, <2>3 DEF Honest, HonestAt
  <1> QED
    BY <1>1, <1>3, <1>5, <1>6, HolderDurable

LEMMA ReleaseDurable ==
  ASSUME RecorderInvariant, Basics', DurableInvariant, NEW c \in Callers, Release(c),
         NEW s, s = S(c), NEW n, n = N(c)
  PROVE  DurableInvariant'
  <1>1. /\ RecorderInvariant' /\ HolderStep(c, "idle") /\ pc'[c] = "idle"
        /\ pc[c] = "releasing" /\ UNCHANGED <<media, manifest>>
        /\ exposed'.media[n] \subseteq exposed.media[n]
        /\ exposed'.manifest[n] \subseteq exposed.manifest[n]
        /\ outcome'[s] = "finalized" => work[c].result = "finalized"
        /\ \/ s \in warned'
           \/ /\ exposed'.owner = {NoLock} /\ exposed'.media[n] = {media[n]}
              /\ exposed'.manifest[n] = {manifest[n]}
    BY ReleaseKeeps
  <1>2. /\ Kinds /\ ProgressOf(c) /\ Honest /\ SyncedBy(c) /\ n \in Numbers
        /\ s # NoOne /\ warned \subseteq warned'
    <2>1. pc[c] \in Past /\ warned \subseteq warned'
      BY <1>1 DEF HolderStep
    <2> QED
      BY <2>1, HolderKnown DEF DurableInvariant, BytesSynced
  <1>3. SyncedBy(c)'
    BY <1>1 DEF SyncedBy
  <1>4. HonestAt(n)'
    <2>1. PossibleMedia(n)' \subseteq PossibleMedia(n)
      BY <1>1, FewerPossible
    <2> QED
      BY <1>1, <1>2, <2>1 DEF Honest, HonestAt
  <1>5. ASSUME outcome'[s] = "finalized", s \notin warned'
        PROVE  Holds(s, n)' /\ \A o \in exposed'.owner : o.by # s
    <2>1. /\ InFinal(s, n) /\ manifest[n] = [by |-> s, kind |-> "finalized"]
          /\ media[n].final.synced
      BY <1>1, <1>2, <1>5 DEF ProgressOf, SyncedBy
    <2>2. /\ exposed'.owner = {NoLock} /\ exposed'.media[n] = {media'[n]}
          /\ exposed'.manifest[n] = {manifest[n]} /\ media' = media
      BY <1>1, <1>5
    <2>4. ASSUME NEW x \in PossibleMedia(n)'
          PROVE  x.final.by = s /\ x.final.whole
      <3>1. x.final = media[n].final
        <4>1. PICK m \in exposed'.media[n] :
                x \in [partial : Shorn(m.partial), final : Shorn(m.final)]
          BY <2>4 DEF PossibleMedia
        <4>2. m = media[n] /\ x.final \in Shorn(m.final)
          BY <2>2, <4>1
        <4>3. media[n].final \in Audio
          BY <1>2 DEF Kinds, Media
        <4> QED
          BY <2>1, <4>2, <4>3, ShornAudio
      <3> QED
        BY <2>1, <3>1 DEF InFinal
    <2>5. \A o \in exposed'.owner : o.by # s
      BY <1>2, <2>2 DEF NoLock
    <2> QED
      BY <2>1, <2>2, <2>4, <2>5 DEF Holds
  <1> QED
    BY <1>1, <1>3, <1>4, <1>5, HolderDurable

LEMMA LosePowerDurable ==
  ASSUME RecorderInvariant, Basics', DurableInvariant, LosePower
  PROVE  DurableInvariant'
  <1>1. /\ \A c \in Callers : pc'[c] = "idle"
        /\ UNCHANGED <<outcome, warned>>
        /\ owner' \in exposed.owner /\ exposed'.owner = {owner'}
        /\ \A n \in Numbers :
             /\ media'[n] \in PossibleMedia(n) /\ manifest'[n] \in exposed.manifest[n]
             /\ exposed'.media[n] = {media'[n]} /\ exposed'.manifest[n] = {manifest'[n]}
        /\ RecorderInvariant'
    BY LosePowerKeeps
  <1>2. Kinds /\ Kinds' /\ Honest /\ Durable
    BY DEF RecorderInvariant, Basics, General, DurableInvariant
  <1>3. ASSUME NEW n \in Numbers, NEW y \in PossibleMedia(n)'
        PROVE  \E x \in PossibleMedia(n) : y.final = x.final
    <2>1. PICK z \in exposed'.media[n] :
            y \in [partial : Shorn(z.partial), final : Shorn(z.final)]
      BY <1>3 DEF PossibleMedia
    <2>2. z = media'[n] /\ y.final \in Shorn(z.final)
      BY <1>1, <2>1
    <2>3. PICK m \in exposed.media[n] :
            z \in [partial : Shorn(m.partial), final : Shorn(m.final)]
      BY <1>1, <2>2 DEF PossibleMedia
    <2>4. m.partial \in Audio /\ m.final \in Audio
      BY <1>2, ExposedParts DEF Media
    <2>5. y.final \in Shorn(m.final)
      <3>1. z.final \in Shorn(m.final)
        BY <2>3
      <3> QED
        BY <2>2, <2>4, <3>1, ShornTwice
    <2>6. [partial |-> z.partial, final |-> y.final] \in PossibleMedia(n)
      BY <2>3, <2>5 DEF PossibleMedia
    <2> QED
      BY <2>6
  <1>4. BytesSynced'
    BY <1>1 DEF BytesSynced, SyncedBy
  <1>5. Honest'
    <2>1. ASSUME NEW n \in Numbers, NEW m \in exposed'.manifest[n],
                 m.kind = "finalized", m.by \notin warned',
                 NEW y \in PossibleMedia(n)'
          PROVE  y.final.by = m.by /\ y.final.whole
      <3>1. m \in exposed.manifest[n] /\ m.by \notin warned
        BY <1>1, <2>1
      <3>2. PICK x \in PossibleMedia(n) : y.final = x.final
        BY <1>3, <2>1
      <3>3. x.final.by = m.by /\ x.final.whole
        BY <1>2, <2>1, <3>1 DEF Honest, HonestAt
      <3> QED
        BY <3>2, <3>3
    <2> QED
      BY <2>1 DEF Honest, HonestAt
  <1>6. Durable'
    <2>1. ASSUME NEW s \in Segments, outcome'[s] = "finalized", s \notin warned'
          PROVE  /\ \A o \in exposed'.owner : o.by # s
                 /\ \E k \in Numbers : Holds(s, k)'
      <3>1. \A o \in exposed.owner : o.by # s
        BY <1>1, <1>2, <2>1 DEF Durable
      <3>2. PICK k \in Numbers : Holds(s, k)
        BY <1>1, <1>2, <2>1 DEF Durable
      <3>3. Holds(s, k)'
        <4>1. \A m \in exposed'.manifest[k] : m.by = s /\ m.kind = "finalized"
          BY <1>1, <3>2 DEF Holds
        <4>2. ASSUME NEW y \in PossibleMedia(k)'
              PROVE  y.final.by = s /\ y.final.whole
          <5>1. PICK x \in PossibleMedia(k) : y.final = x.final
            BY <1>3, <4>2
          <5> QED
            BY <3>2, <5>1 DEF Holds
        <4> QED
          BY <4>1, <4>2 DEF Holds
      <3> QED
        BY <1>1, <3>1, <3>3
    <2> QED
      BY <2>1 DEF Durable
  <1> QED
    BY <1>4, <1>5, <1>6 DEF DurableInvariant

LEMMA DurableStep ==
  ASSUME RecorderInvariant, DurableInvariant, Engine = "synthetic", [Next]_vars, Apart'
  PROVE  RecorderInvariant' /\ DurableInvariant'
  <1>1. /\ Basics' /\ RecorderInvariant'
        /\ \/ QuietStep \/ LosePower
           \/ \E c \in Callers : OpenStep(c) \/ SyncAudio(c) \/ SyncManifest(c)
                                 \/ InstallManifest(c) \/ Release(c)
    BY RecorderStep
  <1> QED
    BY <1>1, QuietDurable, LosePowerDurable, OpenDurable, SyncDurable,
       InstallManifestDurable, ReleaseDurable

LEMMA DurableAlways ==
  ASSUME Engine = "synthetic"
  PROVE  Spec => [](~Apart \/ (RecorderInvariant /\ DurableInvariant))
  <1>1. Init => ~Apart \/ (RecorderInvariant /\ DurableInvariant)
    BY RecorderInit
  <1>2. (~Apart \/ (RecorderInvariant /\ DurableInvariant)) /\ [Next]_vars
          => (~Apart \/ (RecorderInvariant /\ DurableInvariant))'
    BY DurableStep, OverlapsStay DEF Apart
  <1> QED
    BY <1>1, <1>2, PTL DEF Spec

\* A finalized manifest never claims a segment that does not exist, whatever a loss
\* of power undoes, unless the caller was warned of a failed sync or calls crossed
\* (recorder.go: FinalizeSegment installs the audio and syncs before it writes the
\* manifest).
THEOREM ManifestsHonest ==
  ASSUME Engine = "synthetic"
  PROVE  Spec => []ManifestHonest
  <1>1. ~Apart \/ (RecorderInvariant /\ DurableInvariant) => ManifestHonest
    BY DEF DurableInvariant, Honest, HonestAt, ManifestHonest
  <1> QED
    BY <1>1, DurableAlways, PTL

\* A segment reported as finalized without a warning stays finalized while calls keep
\* apart: its audio, its manifest and the release of its lock survive any later call
\* and loss of power.
THEOREM FinalizedForGood ==
  ASSUME Engine = "synthetic"
  PROVE  Spec => []FinalizedDurable
  <1>1. ~Apart \/ (RecorderInvariant /\ DurableInvariant) => FinalizedDurable
    BY DEF DurableInvariant, Durable, Holds, FinalizedDurable
  <1> QED
    BY <1>1, DurableAlways, PTL

=============================================================================
