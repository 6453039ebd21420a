--------------------------- MODULE RecorderProofs ---------------------------
(***************************************************************************)
(* Recorder keeps its types, its pre-roll ring holds the latest frames,    *)
(* and a picture it writes is the picture of the song.  Its takes are      *)
(* pieces of the broadcast that do not overlap, each temporary file has    *)
(* one owner, and Recorder implements Capture: the ring, the lists and the *)
(* countdowns of the recorder record the intervals of the broadcast that   *)
(* Capture promises.  All of it holds for every number of songs, frames,   *)
(* takes, pictures, failures and exits, and every length of the pre-roll   *)
(* and of the post-roll.                                                   *)
(***************************************************************************)
EXTENDS Recorder, TLAPS, WellFoundedInduction

-----------------------------------------------------------------------------
(* Types *)

Handling == {"feed", "split", "close"}

Openings == [song : Songs, lot : Lots \cup {NoLot}]

\* What the types rest on: a handler that has nothing left to finalize is
\* over, a song about to be opened has a number left, and so has an exit.
TInv ==
    /\ TypeOK
    /\ DOMAIN tracks \subseteq 1 .. last_id
    /\ pc \notin Handling => todo = {}
    /\ pc \in {"split", "open"} => opening \in Openings /\ last_id < MaxTakes
    /\ pc \in {"close", "exit"} => exits < MaxExits
    /\ pc = "down" => tracks = Empty /\ jobs = Empty

-----------------------------------------------------------------------------
(* Operators *)

LEMMA WithType ==
    ASSUME NEW S, NEW f, f \in [DOMAIN f -> S], NEW i, NEW v \in S
    PROVE  /\ DOMAIN With(f, i, v) = DOMAIN f \cup {i}
           /\ With(f, i, v) \in [DOMAIN With(f, i, v) -> S]
           /\ With(f, i, v)[i] = v
           /\ \A j \in DOMAIN f \ {i} : With(f, i, v)[j] = f[j]
BY DEF With

LEMMA WithoutType ==
    ASSUME NEW S, NEW f, f \in [DOMAIN f -> S], NEW i
    PROVE  /\ DOMAIN Without(f, i) = DOMAIN f \ {i}
           /\ Without(f, i) \in [DOMAIN Without(f, i) -> S]
           /\ \A j \in DOMAIN f \ {i} : Without(f, i)[j] = f[j]
BY DEF Without

LEMMA Smallest ==
    ASSUME NEW S \in SUBSET Nat, S # {}
    PROVE  \E n \in S : \A k \in S : n <= k
<1>1. PICK n \in S : \A k \in S : ~ (<<k, n>> \in OpToRel(<, Nat))
  BY WFMin, NatLessThanWellFounded
<1>2. ASSUME NEW k \in S PROVE n <= k
  <2>1. n \in Nat /\ k \in Nat
    OBVIOUS
  <2>2. ~ (k < n)
    BY <1>1, <2>1 DEF OpToRel
  <2> QED
    BY <2>1, <2>2
<1> QED
  BY <1>2

\* The newest of some ids is one of them.
LEMMA NewestIn ==
    ASSUME NEW n \in Nat, NEW S \in SUBSET (1 .. n), S # {}
    PROVE  Newest(S) \in S /\ \A j \in S : j <= Newest(S)
<1> DEFINE below == {n - i : i \in S}
<1>1. below \in SUBSET Nat /\ below # {}
  <2>1. ASSUME NEW i \in S PROVE n - i \in Nat
    <3>1. i \in 1 .. n
      OBVIOUS
    <3> QED
      BY <3>1
  <2> QED
    BY <2>1
<1>2. PICK k \in below : \A l \in below : k <= l
  <2> HIDE DEF below
  <2> QED
    BY <1>1, Smallest
<1>3. PICK i \in S : k = n - i
  BY <1>2
<1>4. \A j \in S : j <= i
  <2> SUFFICES ASSUME NEW j \in S PROVE j <= i
    OBVIOUS
  <2>1. n - j \in below
    OBVIOUS
  <2> QED
    BY <1>2, <1>3, <2>1
<1> QED
  BY <1>3, <1>4 DEF Newest

LEMMA CachedArtType ==
    ASSUME TypeOK, NEW lot
    PROVE  CachedArt(lot) \in Nat
<1> DEFINE hits == {i \in 0 .. CacheSize - 1 : lot_cache[i].data # 0 /\ lot_cache[i].lot = lot}
<1>1. CASE lot = NoLot \/ hits = {}
  BY <1>1 DEF CachedArt
<1>2. CASE lot # NoLot /\ hits # {}
  <2>1. hits \in SUBSET Nat
    BY RecorderAssumption
  <2>2. PICK i \in hits : \A j \in hits : i <= j
    <3> HIDE DEF hits
    <3> QED
      BY <1>2, <2>1, Smallest
  <2>3. (CHOOSE k \in hits : \A j \in hits : k <= j) \in hits
    BY <2>2
  <2>4. CachedArt(lot) = lot_cache[CHOOSE k \in hits : \A j \in hits : k <= j].data
    BY <1>2 DEF CachedArt
  <2> QED
    BY <2>3, <2>4 DEF TypeOK
<1> QED
  BY <1>1, <1>2

LEMMA ResolveGives ==
    ASSUME NEW name, NEW d \in Resolve(name)
    PROVE  \/ \E t \in LastResort : d = <<name, t>>
           \/ \E k \in 1 .. MaxSuffix : d = <<name, k>> /\ d \notin DOMAIN archive
<1> DEFINE free == {n \in 1 .. MaxSuffix : <<name, n>> \notin DOMAIN archive}
<1>1. CASE free = {}
  <2>1. Resolve(name) = {name} \X LastResort
    BY <1>1 DEF Resolve
  <2> QED
    BY <2>1
<1>2. CASE free # {}
  <2>1. free \in SUBSET Nat
    BY RecorderAssumption
  <2>2. PICK n \in free : \A m \in free : n <= m
    <3> HIDE DEF free
    <3> QED
      BY <1>2, <2>1, Smallest
  <2>3. (CHOOSE k \in free : \A m \in free : k <= m) \in free
    BY <2>2
  <2>4. Resolve(name) = {<<name, CHOOSE k \in free : \A m \in free : k <= m>>}
    BY <1>2 DEF Resolve
  <2> HIDE DEF free
  <2>5. PICK k \in free : d = <<name, k>>
    BY <2>3, <2>4
  <2> QED
    BY <2>5 DEF free
<1> QED
  BY <1>1, <1>2

LEMMA ResolveType == ASSUME NEW s \in Songs PROVE Resolve(FileName[s]) \subseteq Dests
<1> SUFFICES ASSUME NEW d \in Resolve(FileName[s]) PROVE d \in Dests
  OBVIOUS
<1> QED
  BY ResolveGives DEF Dests

LEMMA FeedType ==
    ASSUME NEW t \in Track, NEW frame \in Nat
    PROVE  Feed(t, frame) \in Track
<1>1. t.file \in Seq(Nat) /\ Append(t.file, frame) \in Seq(Nat)
  BY DEF Track
<1>2. CASE ~t.tmp_fp
  BY <1>2 DEF Feed
<1>3. CASE t.tmp_fp /\ t.is_postroll
  <2> DEFINE n == IF t.remaining > 0 THEN t.remaining - 1 ELSE 0
  <2>1. t.packets_postroll + 1 \in Nat /\ n \in Nat
    BY DEF Track
  <2>2. Feed(t, frame) = [t EXCEPT !.file = Append(t.file, frame),
                                   !.packets_postroll = t.packets_postroll + 1, !.remaining = n]
    BY <1>3 DEF Feed
  <2> HIDE DEF n
  <2> QED
    BY <1>1, <2>1, <2>2 DEF Track
<1>4. CASE t.tmp_fp /\ ~t.is_postroll
  <2>1. t.packets_body + 1 \in Nat
    BY DEF Track
  <2>2. Feed(t, frame) = [t EXCEPT !.file = Append(t.file, frame),
                                   !.packets_body = t.packets_body + 1]
    BY <1>4 DEF Feed
  <2> QED
    BY <1>1, <2>1, <2>2 DEF Track
<1> QED
  BY <1>2, <1>3, <1>4

LEMMA RingType ==
    ASSUME TypeOK
    PROVE  PrerollFramesHeld \in Seq(Nat)
<1> DEFINE start == IF preroll_count < PrerollCap THEN 0 ELSE preroll_head
<1>1. ASSUME NEW k \in 1 .. preroll_count
      PROVE  preroll[(start + k - 1) % PrerollCap] \in Nat
  <2>1. preroll_head \in Nat /\ preroll_count \in Nat /\ preroll_count <= PrerollCap
    BY RecorderAssumption DEF TypeOK
  <2>2. PrerollCap \in Nat \ {0} /\ start + k - 1 \in Nat
    BY <2>1, RecorderAssumption
  <2>3. ASSUME NEW x \in Nat PROVE x % PrerollCap \in 0 .. PrerollCap - 1
    BY <2>2
  <2> HIDE DEF start
  <2>4. (start + k - 1) % PrerollCap \in 0 .. PrerollCap - 1
    BY <2>2, <2>3
  <2> QED
    BY <2>4 DEF TypeOK
<1>2. preroll_count \in Nat
  BY RecorderAssumption DEF TypeOK
<1>3. PrerollFramesHeld = [k \in 1 .. preroll_count |-> preroll[(start + k - 1) % PrerollCap]]
  BY DEF PrerollFramesHeld
<1> HIDE DEF start
<1> QED
  BY <1>1, <1>2, <1>3

LEMMA NewTrackType ==
    ASSUME TypeOK, NEW s \in Songs, NEW lot \in Lots \cup {NoLot}
    PROVE  NewTrack(s, lot) \in Track
<1>0. preroll_count \in Nat
  BY RecorderAssumption DEF TypeOK
<1>1. CachedArt(lot) \in Nat /\ PrerollFramesHeld \in Seq(Nat)
  BY CachedArtType, RingType, Zenon
<1> DEFINE a == CachedArt(lot)
           h == PrerollFramesHeld
<1>2. NewTrack(s, lot) =
        [song |-> s, tmp_fp |-> TRUE, xhdr_lot |-> lot, art |-> a, file |-> h,
         packets_preroll |-> preroll_count, packets_body |-> 0, packets_postroll |-> 0,
         is_postroll |-> FALSE, remaining |-> 0]
  BY Zenon DEF NewTrack
<1>3. a \in Nat /\ h \in Seq(Nat)
  BY <1>1
<1> HIDE DEF a, h
<1> QED
  BY <1>0, <1>2, <1>3 DEF Track

-----------------------------------------------------------------------------
(* Types *)

\* TypeOK, in the groups of variables that a step changes or leaves.
EventType ==
    /\ pc \in {"down", "idle", "feed", "split", "open", "close", "exit"}
    /\ opening = NoSong \/ opening \in [song : Songs, lot : Lots \cup {NoLot}]
    /\ has_seen_first_transition \in BOOLEAN
TracksType ==
    DOMAIN tracks \subseteq Id /\ tracks \in [DOMAIN tracks -> Track]
PrerollType ==
    /\ preroll \in [0 .. PrerollCap - 1 -> Nat]
    /\ preroll_head \in 0 .. PrerollCap /\ preroll_count \in 0 .. PrerollCap
    /\ PrerollCap > 0 => preroll_head < PrerollCap
PicsType ==
    /\ lot_cache \in [0 .. CacheSize - 1 -> [lot : Lots \cup {NoLot}, data : Nat]]
    /\ lot_cache_idx \in 0 .. CacheSize - 1
    /\ pictures \in Seq(Lots)
JobsType == DOMAIN jobs \subseteq Id /\ jobs \in [DOMAIN jobs -> Job]
OrphansType == DOMAIN orphans \subseteq Id /\ orphans \in [DOMAIN orphans -> Dests]
TempsType == tmp_rec \subseteq Id /\ staging \subseteq Id /\ tmp_art \subseteq Id
DiskType ==
    /\ DOMAIN archive \subseteq Dests
    /\ archive \in [DOMAIN archive -> [take : Id, whole : BOOLEAN, rivals : SUBSET Id]]
    /\ DOMAIN info \subseteq Dests /\ info \in [DOMAIN info -> Id]
CountsType == clock \in 0 .. MaxFrames /\ last_id \in 0 .. MaxTakes /\ exits \in 0 .. MaxExits

LEMMA TypeParts ==
    TypeOK <=> /\ EventType /\ TracksType /\ PrerollType /\ PicsType /\ JobsType
               /\ OrphansType /\ TempsType /\ DiskType /\ CountsType
               /\ todo \subseteq DOMAIN tracks /\ helping \in {0} \cup DOMAIN jobs
BY Zenon DEF TypeOK, EventType, TracksType, PrerollType, PicsType, JobsType, OrphansType,
             TempsType, DiskType, CountsType

\* The same of the next state.
LEMMA TypePartsNext ==
    (/\ EventType /\ TracksType /\ PrerollType /\ PicsType /\ JobsType
     /\ OrphansType /\ TempsType /\ DiskType /\ CountsType
     /\ todo \subseteq DOMAIN tracks /\ helping \in {0} \cup DOMAIN jobs)' => TypeOK'
BY TypeParts, PTL

LEMMA EmptyType == DOMAIN Empty = {} /\ \A S : Empty \in [{} -> S]
BY DEF Empty

LEMMA TInit == Init => TInv
<1> SUFFICES ASSUME Init PROVE TInv
  OBVIOUS
<1> USE RecorderAssumption
<1>1. EventType /\ TempsType /\ CountsType /\ pc = "down"
  <2>1. TempsType /\ pc = "down"
    BY DEF Init, TempsType
  <2>2. CountsType
    BY DEF Init, CountsType
  <2>3. EventType
    BY <2>1, Zenon DEF Init, EventType
  <2> QED
    BY <2>1, <2>2, <2>3
<1>2. PrerollType /\ PicsType
  BY DEF Init, PrerollType, PicsType, EmptyRing, EmptyCache, NoPicture
<1>3. TracksType /\ JobsType /\ OrphansType /\ DiskType
  BY EmptyType, Zenon DEF Init, TracksType, JobsType, OrphansType, DiskType
<1>4. todo = {} /\ helping = 0 /\ tracks = Empty /\ jobs = Empty /\ DOMAIN tracks = {}
  BY EmptyType, Zenon DEF Init
<1>5. TypeOK
  BY <1>1, <1>2, <1>3, <1>4, TypeParts, Zenon
<1>6. DOMAIN tracks \subseteq 1 .. last_id
  BY <1>4
<1>7. ~ (pc \in {"split", "open"}) /\ ~ (pc \in {"close", "exit"})
  BY <1>1
<1> QED
  BY <1>1, <1>4, <1>5, <1>6, <1>7, Zenon DEF TInv

LEMMA CreateType == TInv /\ Create => TInv'
<1> SUFFICES ASSUME TInv, Create PROVE TInv'
  OBVIOUS
<1>1. EventType' /\ TempsType'
  BY TypeParts DEF TInv, Create, EventType, TempsType
<1>2. /\ UNCHANGED <<tracks, todo, helping, ring, pics, jobs, orphans, disk, clock, last_id, exits>>
      /\ pc' = "idle" /\ pc = "down"
  BY Zenon DEF Create
<1>3. (TracksType /\ PrerollType /\ PicsType /\ JobsType /\ OrphansType /\ DiskType /\ CountsType)'
  BY <1>2, TypeParts, Zenon
     DEF TInv, TracksType, PrerollType, PicsType, JobsType, OrphansType, DiskType, CountsType,
         ring, pics, disk
<1>4. (todo \subseteq DOMAIN tracks /\ helping \in {0} \cup DOMAIN jobs)'
  BY <1>2, Zenon DEF TInv, TypeOK
<1>5. TypeOK'
  BY <1>1, <1>3, <1>4, TypePartsNext, Zenon
<1>6. todo' = {} /\ (DOMAIN tracks \subseteq 1 .. last_id)'
  BY <1>2, "down" \notin Handling DEF TInv, Handling
<1> QED
  BY <1>2, <1>5, <1>6 DEF TInv

LEMMA OnHdcType == TInv /\ OnHdc => TInv'
<1> SUFFICES ASSUME TInv, OnHdc PROVE TInv'
  OBVIOUS
<1> USE RecorderAssumption
<1>1. /\ UNCHANGED <<opening, helping, has_seen_first_transition, pics, jobs, orphans, temps,
                      disk, last_id, exits>>
      /\ pc = "idle" /\ pc' \in {"idle", "feed"} /\ (pc' = "idle" => todo' = {})
      /\ todo' \subseteq Open /\ DOMAIN tracks' = DOMAIN tracks
      /\ tracks' = [i \in DOMAIN tracks |-> Feed(tracks[i], clock')]
      /\ clock' = clock + 1 /\ clock < MaxFrames
  BY DEF OnHdc
<1>2. EventType' /\ CountsType'
  BY <1>1, TypeParts DEF TInv, EventType, CountsType
<1>3. TracksType'
  <2>1. clock' \in Nat
    BY <1>2 DEF CountsType
  <2>2. \A i \in DOMAIN tracks : Feed(tracks[i], clock') \in Track
    BY <2>1, FeedType, TypeParts DEF TInv, TracksType
  <2> QED
    BY <1>1, <2>2, TypeParts, Zenon DEF TInv, TracksType
<1>4. PrerollType'
  <2>0. PrerollType
    BY TypeParts, Zenon DEF TInv
  <2>1. PrerollType /\ clock' \in Nat
    BY <1>2, <2>0 DEF CountsType
  <2>2. StoreInRing(clock')
    BY DEF OnHdc
  <2>3. CASE PrerollCap = 0
    BY <2>1, <2>2, <2>3 DEF StoreInRing, ring, PrerollType
  <2>4. CASE PrerollCap # 0
    <3>1. preroll' \in [0 .. PrerollCap - 1 -> Nat]
      BY <1>2, <2>1, <2>2, <2>4 DEF StoreInRing, PrerollType, CountsType
    <3>2. preroll_head' \in 0 .. PrerollCap - 1
      <4>1. preroll_head + 1 \in Nat /\ PrerollCap \in Nat \ {0}
        BY <2>1, <2>4 DEF PrerollType
      <4>2. ASSUME NEW x \in Nat PROVE x % PrerollCap \in 0 .. PrerollCap - 1
        BY <4>1
      <4> QED
        <5>1. preroll_head' = (preroll_head + 1) % PrerollCap
          BY <2>2, <2>4 DEF StoreInRing
        <5> QED
          BY <4>1, <4>2, <5>1
    <3>3. preroll_count' \in 0 .. PrerollCap
      BY <2>1, <2>2, <2>4 DEF StoreInRing, PrerollType
    <3> QED
      BY <3>1, <3>2, <3>3 DEF PrerollType
  <2> QED
    BY <2>3, <2>4
<1>5. (PicsType /\ JobsType /\ OrphansType /\ TempsType /\ DiskType)'
  BY <1>1, TypeParts, Zenon
     DEF TInv, PicsType, JobsType, OrphansType, TempsType, DiskType, pics, temps, disk
<1>6. (todo \subseteq DOMAIN tracks /\ helping \in {0} \cup DOMAIN jobs)'
  <2>1. helping' = helping /\ jobs' = jobs
    BY <1>1
  <2>2. todo' \subseteq DOMAIN tracks'
    BY <1>1 DEF Open
  <2> QED
    BY <2>1, <2>2 DEF TInv, TypeOK
<1>7. TypeOK'
  BY <1>2, <1>3, <1>4, <1>5, <1>6, TypePartsNext, Zenon
<1>8. (DOMAIN tracks \subseteq 1 .. last_id)' /\ (pc' \notin Handling => todo' = {})
  BY <1>1 DEF TInv, Handling
<1>9. ~ (pc' \in {"split", "open"}) /\ ~ (pc' \in {"close", "exit"}) /\ pc' # "down"
  BY <1>1
<1> QED
  BY <1>7, <1>8, <1>9, Zenon DEF TInv

\* finalize_track takes the newest of the tracks it has to, and hands its file
\* over or removes it.
LEMMA FinalizesOne ==
    ASSUME TInv, Finalize
    PROVE  \E i \in todo :
              /\ i \in DOMAIN tracks /\ i \in Id /\ tracks[i] \in Track
              /\ \A j \in todo : j <= i
              /\ todo' = todo \ {i}
              /\ tracks' = IF pc = "split"
                          THEN [tracks EXCEPT ![i].tmp_fp = FALSE, ![i].art = 0]
                          ELSE Without(tracks, i)
              /\ HandOver(i) \/ Discard(i)
<1>1. last_id \in Nat /\ todo \in SUBSET (1 .. last_id) /\ todo # {} /\ todo \subseteq DOMAIN tracks
  <2>1. last_id \in Nat
    BY RecorderAssumption, TypeParts DEF TInv, CountsType
  <2> QED
    BY <2>1 DEF TInv, TypeOK, Finalize
<1>2. Newest(todo) \in todo /\ \A j \in todo : j <= Newest(todo)
  BY <1>1, NewestIn
<1>3. Newest(todo) \in DOMAIN tracks /\ Newest(todo) \in Id /\ tracks[Newest(todo)] \in Track
  BY <1>1, <1>2, TypeParts DEF TInv, TracksType
<1>4. /\ todo' = todo \ {Newest(todo)}
      /\ tracks' = IF pc = "split"
                  THEN [tracks EXCEPT ![Newest(todo)].tmp_fp = FALSE, ![Newest(todo)].art = 0]
                  ELSE Without(tracks, Newest(todo))
      /\ HandOver(Newest(todo)) \/ Discard(Newest(todo))
  BY Zenon DEF Finalize
<1> QED
  BY <1>2, <1>3, <1>4, Zenon

\* What becomes of the files and the list of jobs.
LEMMA HandOverType ==
    ASSUME TypeOK, NEW i \in Id, i \in DOMAIN tracks, HandOver(i) \/ Discard(i), helping = 0
    PROVE  /\ TempsType' /\ JobsType' /\ (helping \in {0} \cup DOMAIN jobs)'
           /\ DOMAIN jobs' \subseteq DOMAIN jobs \cup {i}
<1>1. JobsType /\ TempsType
  BY TypeParts, Zenon
<1>2. CASE Discard(i)
  BY <1>1, <1>2 DEF Discard, JobsType, TempsType
<1>3. CASE HandOver(i)
  <2>1. PICK art \in BOOLEAN, renamed \in BOOLEAN, spawned \in BOOLEAN,
             d \in Resolve(FileName[tracks[i].song]) :
          /\ jobs' = With(jobs, i, [dest |-> d, has_art |-> art,
                                   stage |-> "queued", ok |-> FALSE])
          /\ tmp_art' = IF art THEN tmp_art \cup {i} ELSE tmp_art
          /\ tmp_rec' = IF renamed THEN tmp_rec \ {i} ELSE tmp_rec
          /\ staging' = IF renamed THEN staging \cup {i} ELSE staging
          /\ helping' = IF spawned THEN 0 ELSE i
    BY <1>3, Zenon DEF HandOver
  <2>2. tracks[i].song \in Songs
    BY TypeParts DEF TracksType, Track
  <2> DEFINE job == [dest |-> d, has_art |-> art, stage |-> "queued", ok |-> FALSE]
  <2>3. job \in Job
    <3>1. d \in Dests
      BY <2>1, <2>2, ResolveType
    <3> QED
      BY <3>1 DEF Job
  <2>4. jobs' = With(jobs, i, job)
    BY <2>1
  <2> HIDE DEF job
  <2>40. jobs \in [DOMAIN jobs -> Job]
    BY <1>1 DEF JobsType
  <2>5. DOMAIN jobs' = DOMAIN jobs \cup {i} /\ jobs' \in [DOMAIN jobs' -> Job]
    <3> HIDE DEF Job
    <3> QED
      BY <2>3, <2>4, <2>40 DEF With
  <2>6. JobsType' /\ (helping \in {0} \cup DOMAIN jobs)'
    BY <1>1, <2>1, <2>5 DEF JobsType
  <2>7. TempsType'
    BY <1>1, <2>1 DEF TempsType
  <2> QED
    BY <2>5, <2>6, <2>7
<1> QED
  BY <1>2, <1>3

LEMMA FinalizeType == TInv /\ Finalize => TInv'
<1> SUFFICES ASSUME TInv, Finalize PROVE TInv'
  OBVIOUS
<1>1. PICK i \in todo :
              /\ i \in DOMAIN tracks /\ i \in Id /\ tracks[i] \in Track
              /\ todo' = todo \ {i}
              /\ tracks' = IF pc = "split"
                          THEN [tracks EXCEPT ![i].tmp_fp = FALSE, ![i].art = 0]
                          ELSE Without(tracks, i)
              /\ HandOver(i) \/ Discard(i)
  BY FinalizesOne, Zenon
<1>2. /\ UNCHANGED <<opening, ring, has_seen_first_transition, pics, orphans,
                     disk, clock, last_id, exits>>
      /\ helping = 0 /\ pc \in Handling
      /\ pc' = IF todo' # {} THEN pc
               ELSE CASE pc = "feed"  -> "idle"
                      [] pc = "split" -> "open"
                      [] pc = "close" -> "exit"
  BY Zenon DEF Finalize, Handling
<1>3. TypeOK /\ EventType /\ TracksType /\ PrerollType /\ PicsType /\ OrphansType /\ DiskType /\ CountsType
  BY TypeParts, Zenon DEF TInv
<1>4. (PrerollType /\ PicsType /\ OrphansType /\ DiskType /\ CountsType)'
  BY <1>2, <1>3, Zenon DEF PrerollType, PicsType, OrphansType, DiskType, CountsType, ring, pics, disk
<1>5. /\ pc' \in {pc, "idle", "open", "exit"}
      /\ pc' \notin Handling => todo' = {}
      /\ pc' \in {"split", "open"} => pc = "split"
      /\ pc' \in {"close", "exit"} => pc = "close"
      /\ pc' # "down"
  <2>1. CASE todo' # {}
    BY <1>2, <2>1 DEF Handling
  <2>2. CASE todo' = {} /\ pc = "feed"
    BY <1>2, <2>2
  <2>3. CASE todo' = {} /\ pc = "split"
    BY <1>2, <2>3
  <2>4. CASE todo' = {} /\ pc = "close"
    BY <1>2, <2>4
  <2> QED
    BY <1>2, <2>1, <2>2, <2>3, <2>4 DEF Handling
<1>6. EventType'
  <2>1. pc' \in {"down", "idle", "feed", "split", "open", "close", "exit"}
    BY <1>2, <1>5 DEF Handling
  <2>2. opening' = opening /\ has_seen_first_transition' = has_seen_first_transition
    BY <1>2, Zenon
  <2> QED
    BY <1>3, <2>1, <2>2, Zenon DEF EventType
<1>7. TracksType' /\ (todo \subseteq DOMAIN tracks)' /\ DOMAIN tracks' \subseteq DOMAIN tracks
  <2>1. CASE pc = "split"
    <3>1. [tracks[i] EXCEPT !.tmp_fp = FALSE, !.art = 0] \in Track
      BY <1>1 DEF Track
    <3>2. tracks' = [tracks EXCEPT ![i] = [tracks[i] EXCEPT !.tmp_fp = FALSE, !.art = 0]]
      BY <1>1, <2>1, <1>3 DEF TracksType
    <3> QED
      BY <1>1, <1>3, <3>1, <3>2 DEF TracksType, TInv, TypeOK
  <2>2. CASE pc # "split"
    <3>1. tracks' = Without(tracks, i)
      BY <1>1, <2>2
    <3>2. DOMAIN tracks' = DOMAIN tracks \ {i} /\ tracks' \in [DOMAIN tracks' -> Track]
      BY <1>3, <3>1, WithoutType, Zenon DEF TracksType
    <3>3. todo \subseteq DOMAIN tracks
      BY Zenon DEF TInv, TypeOK
    <3> QED
      BY <1>1, <1>3, <3>2, <3>3 DEF TracksType
  <2> QED
    BY <2>1, <2>2
<1>8. TempsType' /\ JobsType' /\ (helping \in {0} \cup DOMAIN jobs)'
  BY <1>1, <1>2, <1>3, HandOverType, Zenon
<1>9. TypeOK'
  BY <1>4, <1>6, <1>7, <1>8, TypePartsNext, Zenon
<1>10. /\ (DOMAIN tracks \subseteq 1 .. last_id)' /\ (pc' \notin Handling => todo' = {})
       /\ pc' # "down" /\ UNCHANGED <<opening, last_id, exits>>
  BY <1>2, <1>5, <1>7 DEF TInv
<1>11. /\ pc' \in {"split", "open"} => opening' \in Openings /\ last_id' < MaxTakes
       /\ pc' \in {"close", "exit"} => exits' < MaxExits
  BY <1>5, <1>10 DEF TInv
<1> QED
  BY <1>9, <1>10, <1>11, Zenon DEF TInv

\* A track that is only changed in some of its fields leaves the rest as it is.
LEMMA SameType ==
    ASSUME TInv, pc \in {"idle", "open"}, pc' \in {"idle", "split", "open"},
           UNCHANGED <<ring, pics, jobs, orphans, disk, clock, exits, helping>>,
           EventType', TracksType', TempsType', last_id' \in 0 .. MaxTakes,
           (todo \subseteq DOMAIN tracks)', (DOMAIN tracks \subseteq 1 .. last_id)',
           pc' # "split" => todo' = {},
           pc' \in {"split", "open"} => opening' \in Openings /\ last_id' < MaxTakes
    PROVE  TInv'
<1>1. TypeOK /\ PrerollType /\ PicsType /\ JobsType /\ OrphansType /\ DiskType /\ CountsType
  BY TypeParts, Zenon DEF TInv
<1>2. (PrerollType /\ PicsType /\ JobsType /\ OrphansType /\ DiskType /\ CountsType)'
  BY <1>1, Zenon DEF PrerollType, PicsType, JobsType, OrphansType, DiskType, CountsType,
                     ring, pics, disk
<1>3. helping' \in {0} \cup DOMAIN jobs'
  BY <1>1, Zenon DEF TypeOK
<1>4. TypeOK'
  BY <1>2, <1>3, TypePartsNext, Zenon
<1>5. ~ (pc' \in {"close", "exit"}) /\ pc' # "down" /\ (pc' \notin Handling => todo' = {})
  BY DEF Handling
<1> QED
  BY <1>4, <1>5, Zenon DEF TInv

LEMMA OnId3Type ==
    ASSUME TInv, NEW s \in Songs, NEW lot \in Lots \cup {NoLot}, OnId3(s, lot)
    PROVE  TInv'
<1>1. /\ pc = "idle" /\ helping = 0 /\ has_seen_first_transition' = TRUE
      /\ UNCHANGED <<helping, ring, pics, jobs, orphans, temps, disk, clock, last_id, exits>>
      /\ \/ NotPostroll # {} /\ RepeatTag(lot)
         \/ StartNewSong(s, lot)
         \/ UNCHANGED <<pc, todo, opening, tracks>>
  BY Zenon DEF OnId3
<1>2. /\ TypeOK /\ EventType /\ TracksType /\ TempsType /\ CountsType /\ todo = {}
      /\ DOMAIN tracks \subseteq 1 .. last_id /\ last_id \in 0 .. MaxTakes
  <2>1. pc \notin Handling
    BY <1>1 DEF Handling
  <2> QED
    BY <1>1, <2>1, TypeParts, Zenon DEF TInv, CountsType
<1>3. TempsType' /\ last_id' \in 0 .. MaxTakes
  BY <1>1, <1>2, Zenon DEF TempsType, temps
<1>4. CASE UNCHANGED <<pc, todo, opening, tracks>>
  <2>1. EventType' /\ TracksType' /\ (todo \subseteq DOMAIN tracks)' /\ pc' \in {"idle"}
        /\ (DOMAIN tracks \subseteq 1 .. last_id)' /\ todo' = {}
    BY <1>1, <1>2, <1>4 DEF EventType, TracksType
  <2> QED
    BY <1>1, <1>3, <2>1, SameType
<1>5. CASE NotPostroll # {} /\ RepeatTag(lot)
  <2>1. Primary \in NotPostroll
    <3>1. last_id \in Nat /\ NotPostroll \in SUBSET (1 .. last_id)
      BY <1>2, RecorderAssumption DEF NotPostroll
    <3> QED
      BY <1>5, <3>1, NewestIn DEF Primary
  <2>2. Primary \in DOMAIN tracks /\ tracks[Primary] \in Track
    BY <1>2, <2>1 DEF NotPostroll, TracksType
  <2> DEFINE a == IF tracks[Primary].art = 0 THEN CachedArt(lot) ELSE tracks[Primary].art
  <2>3. a \in Nat
    BY <1>2, <2>2, CachedArtType DEF Track
  <2>4. \/ tracks' = tracks
        \/ tracks' = [tracks EXCEPT ![Primary] = [tracks[Primary] EXCEPT !.xhdr_lot = lot, !.art = a]]
    BY <1>2, <1>5, <2>2 DEF RepeatTag, TracksType
  <2>5. [tracks[Primary] EXCEPT !.xhdr_lot = lot, !.art = a] \in Track
    <3> HIDE DEF a
    <3> QED
      BY <2>2, <2>3 DEF Track
  <2> HIDE DEF a
  <2>6. TracksType' /\ DOMAIN tracks' = DOMAIN tracks
    <3> DEFINE r == [tracks[Primary] EXCEPT !.xhdr_lot = lot, !.art = a]
    <3>1. r \in Track /\ (tracks' = tracks \/ tracks' = [tracks EXCEPT ![Primary] = r])
      BY <2>4, <2>5
    <3> HIDE DEF r
    <3> QED
      BY <1>2, <3>1 DEF TracksType
  <2>7. pc' = "idle" /\ todo' = {} /\ opening' = opening
    BY <1>1, <1>2, <1>5 DEF RepeatTag
  <2>8. EventType' /\ (todo \subseteq DOMAIN tracks)' /\ (DOMAIN tracks \subseteq 1 .. last_id)'
    BY <1>1, <1>2, <2>6, <2>7 DEF EventType
  <2> QED
    BY <1>1, <1>3, <2>6, <2>7, <2>8, SameType
<1>6. CASE StartNewSong(s, lot)
  <2>1. /\ opening' = [song |-> s, lot |-> lot] /\ last_id < MaxTakes
        /\ pc' \in {"open", "split"} /\ (pc' # "split" => todo' = {})
        /\ todo' \subseteq Open
    BY <1>2, <1>6 DEF StartNewSong
  <2>2. opening' \in Openings
    BY <2>1 DEF Openings
  <2>3. TracksType' /\ DOMAIN tracks' = DOMAIN tracks
    <3>1. CASE tracks' = tracks
      BY <1>2, <3>1 DEF TracksType
    <3>2. CASE tracks' # tracks
      <4>1. /\ NotPostroll # {}
            /\ tracks' = [tracks EXCEPT ![Primary].is_postroll = TRUE, ![Primary].remaining = PostrollFrames]
        BY <1>6, <3>2 DEF StartNewSong
      <4>2. Primary \in NotPostroll
        <5>1. last_id \in Nat /\ NotPostroll \in SUBSET (1 .. last_id)
          BY <1>2, RecorderAssumption DEF NotPostroll
        <5> QED
          BY <4>1, <5>1, NewestIn DEF Primary
      <4>3. Primary \in DOMAIN tracks /\ tracks[Primary] \in Track
        BY <1>2, <4>2 DEF NotPostroll, TracksType
      <4> DEFINE r == [tracks[Primary] EXCEPT !.is_postroll = TRUE, !.remaining = PostrollFrames]
      <4>4. r \in Track
        BY <4>3, RecorderAssumption DEF Track
      <4>5. tracks' = [tracks EXCEPT ![Primary] = r]
        BY <1>2, <4>1, <4>3 DEF TracksType
      <4> HIDE DEF r
      <4> QED
        BY <1>2, <4>4, <4>5 DEF TracksType
    <3> QED
      BY <3>1, <3>2
  <2>4. EventType' /\ (todo \subseteq DOMAIN tracks)' /\ (DOMAIN tracks \subseteq 1 .. last_id)'
    <3>1. EventType'
      BY <1>1, <2>1, <2>2 DEF EventType, Openings
    <3>2. todo' \subseteq DOMAIN tracks' /\ DOMAIN tracks' \subseteq 1 .. last_id'
      BY <1>1, <1>2, <2>1, <2>3 DEF Open
    <3> QED
      BY <3>1, <3>2
  <2> QED
    BY <1>1, <1>3, <2>1, <2>2, <2>3, <2>4, SameType
<1> QED
  BY <1>1, <1>4, <1>5, <1>6

LEMMA OpenTrackType == TInv /\ OpenTrack => TInv'
<1> SUFFICES ASSUME TInv, OpenTrack PROVE TInv'
  OBVIOUS
<1>1. /\ pc = "open" /\ pc' = "idle" /\ opening' = NoSong /\ helping = 0
      /\ UNCHANGED <<todo, helping, ring, has_seen_first_transition, pics,
                     jobs, orphans, staging, tmp_art, disk, clock, exits>>
      /\ \/ /\ last_id' = last_id + 1
            /\ tracks' = With(tracks, last_id', NewTrack(opening.song, opening.lot))
            /\ tmp_rec' = tmp_rec \cup {last_id'}
         \/ UNCHANGED <<last_id, tracks, tmp_rec>>
  BY Zenon DEF OpenTrack
<1>2. /\ TypeOK /\ EventType /\ TracksType /\ TempsType /\ CountsType /\ todo = {}
      /\ DOMAIN tracks \subseteq 1 .. last_id /\ last_id \in 0 .. MaxTakes
      /\ opening \in Openings /\ last_id < MaxTakes
  <2>1. pc \notin Handling /\ pc \in {"split", "open"}
    BY <1>1 DEF Handling
  <2> QED
    BY <1>1, <2>1, TypeParts, Zenon DEF TInv, CountsType
<1>3. EventType'
  BY <1>1, <1>2 DEF EventType
<1>4. CASE UNCHANGED <<last_id, tracks, tmp_rec>>
  <2>1. TracksType' /\ TempsType' /\ (todo \subseteq DOMAIN tracks)'
        /\ (DOMAIN tracks \subseteq 1 .. last_id)' /\ todo' = {} /\ last_id' \in 0 .. MaxTakes
    BY <1>1, <1>2, <1>4 DEF TracksType, TempsType
  <2> QED
    BY <1>1, <1>3, <2>1, SameType
<1>5. CASE /\ last_id' = last_id + 1
           /\ tracks' = With(tracks, last_id', NewTrack(opening.song, opening.lot))
           /\ tmp_rec' = tmp_rec \cup {last_id'}
  <2> DEFINE t == NewTrack(opening.song, opening.lot)
  <2>1. t \in Track
    BY <1>2, NewTrackType DEF Openings
  <2>2. last_id' \in 1 .. MaxTakes /\ last_id' \in Id /\ last_id' \in 0 .. MaxTakes
    BY <1>2, <1>5, RecorderAssumption DEF Id
  <2> HIDE DEF t
  <2>3. tracks' = With(tracks, last_id', t)
    BY <1>5 DEF t
  <2>4. DOMAIN tracks' = DOMAIN tracks \cup {last_id'} /\ tracks' \in [DOMAIN tracks' -> Track]
    <3> HIDE DEF Track
    <3> QED
      BY <1>2, <2>1, <2>3 DEF With, TracksType
  <2>5. TracksType' /\ TempsType'
    BY <1>1, <1>2, <1>5, <2>2, <2>4 DEF TracksType, TempsType
  <2>6. (DOMAIN tracks \subseteq 1 .. last_id)'
    BY <1>2, <1>5, <2>2, <2>4
  <2>7. todo' = {} /\ (todo \subseteq DOMAIN tracks)'
    BY <1>1, <1>2
  <2> QED
    BY <1>1, <1>3, <2>2, <2>5, <2>6, <2>7, SameType
<1> QED
  BY <1>1, <1>4, <1>5

LEMMA OnLotType ==
    ASSUME TInv, NEW lot \in Lots, OnLot(lot)
    PROVE  TInv'
<1> USE RecorderAssumption
<1>1. /\ pc = "idle"
      /\ UNCHANGED <<event, ring, has_seen_first_transition, jobs, orphans,
                     temps, disk, clock, last_id, exits>>
  BY Zenon DEF OnLot
<1>2. UNCHANGED <<pc, todo, opening, helping>>
  BY <1>1 DEF event
<1>3. /\ TypeOK /\ EventType /\ TracksType /\ PrerollType /\ PicsType /\ JobsType
      /\ OrphansType /\ TempsType /\ DiskType /\ CountsType
  BY TypeParts, Zenon DEF TInv
<1>4. (EventType /\ PrerollType /\ JobsType /\ OrphansType /\ TempsType /\ DiskType /\ CountsType)'
  BY <1>1, <1>2, <1>3, Zenon
     DEF EventType, PrerollType, JobsType, OrphansType, TempsType, DiskType, CountsType, ring,
         temps, disk
<1>5. pictures' \in Seq(Lots) /\ Len(pictures') \in Nat
  BY <1>3 DEF OnLot, PicsType
<1>6. PicsType'
  <2>1. lot_cache' = [lot_cache EXCEPT ![lot_cache_idx] = [lot |-> lot, data |-> Len(pictures')]]
    BY DEF OnLot
  <2>2. [lot |-> lot, data |-> Len(pictures')] \in [lot : Lots \cup {NoLot}, data : Nat]
    BY <1>5
  <2>3. lot_cache' \in [0 .. CacheSize - 1 -> [lot : Lots \cup {NoLot}, data : Nat]]
    BY <1>3, <2>1, <2>2 DEF PicsType
  <2>4. lot_cache_idx' \in 0 .. CacheSize - 1
    <3>1. lot_cache_idx' = (lot_cache_idx + 1) % CacheSize
      BY DEF OnLot
    <3>2. lot_cache_idx + 1 \in Nat /\ CacheSize \in Nat \ {0}
      BY <1>3 DEF PicsType
    <3>3. ASSUME NEW x \in Nat PROVE x % CacheSize \in 0 .. CacheSize - 1
      BY <3>2
    <3> QED
      BY <3>1, <3>2, <3>3
  <2> QED
    BY <1>5, <2>3, <2>4 DEF PicsType
<1>7. TracksType' /\ DOMAIN tracks' = DOMAIN tracks
  <2> DEFINE n == Len(pictures')
             r(i) == IF tracks[i].tmp_fp /\ tracks[i].art = 0 /\ tracks[i].xhdr_lot = lot
                     THEN [tracks[i] EXCEPT !.art = n] ELSE tracks[i]
  <2>1. \A i \in DOMAIN tracks : r(i) \in Track
    <3>1. n \in Nat
      BY <1>5
    <3>2. \A i \in DOMAIN tracks : tracks[i] \in Track
      BY <1>3 DEF TracksType
    <3> HIDE DEF n
    <3> QED
      BY <3>1, <3>2 DEF Track
  <2>2. tracks' = [i \in DOMAIN tracks |-> r(i)]
    BY DEF OnLot
  <2> HIDE DEF r, Track
  <2> QED
    BY <1>3, <2>1, <2>2 DEF TracksType
<1>8. (todo \subseteq DOMAIN tracks /\ helping \in {0} \cup DOMAIN jobs)'
  BY <1>1, <1>2, <1>7, Zenon DEF TInv, TypeOK
<1>9. TypeOK'
  BY <1>4, <1>6, <1>7, <1>8, TypePartsNext, Zenon
<1>10. /\ (DOMAIN tracks \subseteq 1 .. last_id)' /\ (pc' \notin Handling => todo' = {})
  BY <1>1, <1>2, <1>7 DEF TInv
<1>11. ~ (pc' \in {"split", "open"}) /\ ~ (pc' \in {"close", "exit"}) /\ pc' # "down"
  BY <1>1, <1>2
<1> QED
  BY <1>9, <1>10, <1>11, Zenon DEF TInv

\* What a worker does to a job and its files leaves the event thread alone.
LEMMA BesidesType ==
    ASSUME TInv, (JobsType /\ OrphansType /\ TempsType /\ DiskType)',
           UNCHANGED <<pc, todo, opening, ring, has_seen_first_transition, tracks, pics,
                       clock, last_id, exits>>,
           (helping \in {0} \cup DOMAIN jobs)', pc = "down" => jobs' = Empty
    PROVE  TInv'
<1>1. EventType /\ TracksType /\ PrerollType /\ PicsType /\ CountsType /\ todo \subseteq DOMAIN tracks
  BY TypeParts, Zenon DEF TInv
<1>2. (EventType /\ TracksType /\ PrerollType /\ PicsType /\ CountsType /\ todo \subseteq DOMAIN tracks)'
  BY <1>1, Zenon DEF EventType, TracksType, PrerollType, PicsType, CountsType, ring, pics
<1>3. TypeOK'
  BY <1>2, TypePartsNext, Zenon
<1>4. /\ (DOMAIN tracks \subseteq 1 .. last_id)' /\ (pc' \notin Handling => todo' = {})
      /\ pc' \in {"split", "open"} => opening' \in Openings /\ last_id' < MaxTakes
      /\ pc' \in {"close", "exit"} => exits' < MaxExits
      /\ pc' = "down" => tracks' = Empty
  BY Zenon DEF TInv
<1> QED
  BY <1>3, <1>4, Zenon DEF TInv

Take == [take : Id, whole : BOOLEAN, rivals : SUBSET Id]

LEMMA WrittenType ==
    ASSUME TypeOK, NEW i \in Id, NEW d
    PROVE  /\ DOMAIN Written(i, d) = DOMAIN archive
           /\ Written(i, d) \in [DOMAIN archive -> Take]
<1>1. archive \in [DOMAIN archive -> Take] /\ Workers \subseteq Id
  BY DEF TypeOK, Take, Workers
<1> DEFINE R == {j \in Workers \ {i} : DestOf(j) = d}
<1>2. R \in SUBSET Id
  BY <1>1
<1> HIDE DEF R
<1>3. CASE d \notin DOMAIN archive
  BY <1>1, <1>3 DEF Written
<1>4. CASE d \in DOMAIN archive
  <2> DEFINE a == [archive[d] EXCEPT !.whole = FALSE]
             b == [archive[d] EXCEPT !.whole = TRUE, !.rivals = R]
  <2>1. a \in Take /\ b \in Take
    BY <1>1, <1>2, <1>4 DEF Take
  <2>2. Written(i, d) = [archive EXCEPT ![d] = a] \/ Written(i, d) = [archive EXCEPT ![d] = b]
    BY <1>1, <1>4 DEF Written, Take, R
  <2> HIDE DEF a, b, Take
  <2> QED
    BY <1>1, <2>1, <2>2
<1> QED
  BY <1>3, <1>4

LEMMA WorkerType ==
    ASSUME TInv, NEW i \in Id, Worker(i)
    PROVE  TInv'
<1>1. /\ i \in DOMAIN jobs
      /\ UNCHANGED <<pc, todo, opening, ring, has_seen_first_transition, tracks,
                     pics, orphans, clock, last_id, exits>>
  BY Zenon DEF Worker
<1>2. TypeOK /\ JobsType /\ OrphansType /\ TempsType /\ DiskType /\ helping \in {0} \cup DOMAIN jobs
  BY TypeParts, Zenon DEF TInv
<1>3. pc # "down"
  BY <1>1, EmptyType DEF TInv
<1>4. jobs[i] \in Job /\ jobs[i].dest \in Dests
  BY <1>1, <1>2 DEF JobsType, Job
<1>5. OrphansType'
  BY <1>1, <1>2, Zenon DEF OrphansType
\* A later stage of the same job.
<1>6. ASSUME NEW job \in Job, jobs' = [jobs EXCEPT ![i] = job], helping' = helping
      PROVE  JobsType' /\ (helping \in {0} \cup DOMAIN jobs)'
  <2> HIDE DEF Job
  <2> QED
    BY <1>2, <1>6 DEF JobsType
<1>7. CASE ForkFfmpeg(i)
  <2> DEFINE job == [jobs[i] EXCEPT !.stage = "remuxing"]
             new == [take |-> i, whole |-> FALSE, rivals |-> {}]
             d == jobs[i].dest
  <2>1. job \in Job /\ new \in Take
    BY <1>4 DEF Job, Take
  <2>2. jobs' = [jobs EXCEPT ![i] = job] /\ archive' = With(archive, d, new)
        /\ UNCHANGED <<helping, tmp_art, tmp_rec, staging, info>>
    BY <1>1, <1>2, <1>7 DEF ForkFfmpeg, JobsType, Job
  <2>3. d \in Dests
    BY <1>4
  <2> HIDE DEF job, new, d
  <2>4. JobsType' /\ (helping \in {0} \cup DOMAIN jobs)'
    BY <1>6, <2>1, <2>2
  <2>5. DOMAIN archive \subseteq Dests /\ archive \in [DOMAIN archive -> Take]
    BY <1>2, Zenon DEF DiskType, Take
  <2>6. DOMAIN archive' \subseteq Dests /\ archive' \in [DOMAIN archive' -> Take]
    <3> HIDE DEF Take
    <3> QED
      BY <2>1, <2>2, <2>3, <2>5 DEF With
  <2>7. DiskType' /\ TempsType'
    BY <1>2, <2>2, <2>6, Zenon DEF DiskType, TempsType, Take
  <2> QED
    BY <1>1, <1>3, <1>5, <2>4, <2>7, BesidesType
<1>8. CASE NoFfmpeg(i)
  <2> DEFINE job == [jobs[i] EXCEPT !.stage = "exited"]
  <2>1. job \in Job
    BY <1>4 DEF Job
  <2>2. jobs' = [jobs EXCEPT ![i] = job] /\ UNCHANGED <<helping, tmp_art, tmp_rec, staging, disk>>
    BY <1>1, <1>2, <1>8 DEF NoFfmpeg, JobsType, Job
  <2> HIDE DEF job
  <2>3. JobsType' /\ (helping \in {0} \cup DOMAIN jobs)'
    BY <1>6, <2>1, <2>2
  <2>4. DiskType' /\ TempsType'
    BY <1>2, <2>2, Zenon DEF DiskType, TempsType, disk
  <2> QED
    BY <1>1, <1>3, <1>5, <2>3, <2>4, BesidesType
<1>9. CASE FfmpegExits(i)
  <2> DEFINE job1 == [jobs[i] EXCEPT !.stage = "exited", !.ok = TRUE]
             job2 == [jobs[i] EXCEPT !.stage = "exited"]
  <2>1. job1 \in Job /\ job2 \in Job
    BY <1>4 DEF Job
  <2>2. /\ UNCHANGED <<helping, tmp_art, tmp_rec, staging, info>>
        /\ jobs' = [jobs EXCEPT ![i] = job1] \/ jobs' = [jobs EXCEPT ![i] = job2]
        /\ archive' = archive \/ archive' = Written(i, jobs[i].dest)
    BY <1>1, <1>2, <1>9 DEF FfmpegExits, JobsType, Job
  <2> HIDE DEF job1, job2
  <2>3. JobsType' /\ (helping \in {0} \cup DOMAIN jobs)'
    BY <1>6, <2>1, <2>2
  <2>4. DOMAIN archive \subseteq Dests /\ archive \in [DOMAIN archive -> Take]
    BY <1>2, Zenon DEF DiskType, Take
  <2>5. DOMAIN archive' \subseteq Dests /\ archive' \in [DOMAIN archive' -> Take]
    <3> HIDE DEF Take
    <3>1. /\ DOMAIN Written(i, jobs[i].dest) = DOMAIN archive
          /\ Written(i, jobs[i].dest) \in [DOMAIN archive -> Take]
      BY <1>2, WrittenType
    <3> QED
      BY <2>2, <2>4, <3>1
  <2>6. DiskType' /\ TempsType'
    BY <1>2, <2>2, <2>5, Zenon DEF DiskType, TempsType, Take
  <2> QED
    BY <1>1, <1>3, <1>5, <2>3, <2>6, BesidesType
<1>10. CASE Verify(i)
  <2> DEFINE job == [jobs[i] EXCEPT !.stage = "cleanup"]
             d == jobs[i].dest
  <2>1. job \in Job /\ d \in Dests
    BY <1>4 DEF Job
  <2>2. /\ jobs' = [jobs EXCEPT ![i] = job] /\ UNCHANGED <<helping, tmp_art, tmp_rec, staging>>
        /\ \/ info' = With(info, d, i) /\ archive' = archive
           \/ archive' = Without(archive, d) /\ info' = info
    BY <1>1, <1>2, <1>10 DEF Verify, JobsType, Job
  <2> HIDE DEF job, d
  <2>3. JobsType' /\ (helping \in {0} \cup DOMAIN jobs)'
    BY <1>6, <2>1, <2>2
  <2>4. DOMAIN archive \subseteq Dests /\ archive \in [DOMAIN archive -> Take]
        /\ DOMAIN info \subseteq Dests /\ info \in [DOMAIN info -> Id]
    BY <1>2, Zenon DEF DiskType, Take
  <2>5. DOMAIN archive' \subseteq Dests /\ archive' \in [DOMAIN archive' -> Take]
        /\ DOMAIN info' \subseteq Dests /\ info' \in [DOMAIN info' -> Id]
    <3> HIDE DEF Take
    <3>1. CASE info' = With(info, d, i) /\ archive' = archive
      BY <2>1, <2>4, <3>1 DEF With
    <3>2. CASE archive' = Without(archive, d) /\ info' = info
      BY <2>1, <2>4, <3>2 DEF Without
    <3> QED
      BY <2>2, <3>1, <3>2
  <2>6. DiskType' /\ TempsType'
    BY <1>2, <2>2, <2>5, Zenon DEF DiskType, TempsType, Take
  <2> QED
    BY <1>1, <1>3, <1>5, <2>3, <2>6, BesidesType
<1>11. CASE Cleanup(i)
  <2>1. /\ tmp_art' \subseteq tmp_art /\ tmp_rec' \subseteq tmp_rec /\ staging' \subseteq staging
        /\ jobs' = Without(jobs, i) /\ helping' = (IF helping = i THEN 0 ELSE helping)
        /\ UNCHANGED disk
    BY <1>11 DEF Cleanup
  <2>2. JobsType' /\ (helping \in {0} \cup DOMAIN jobs)'
    <3> HIDE DEF Job
    <3> QED
      BY <1>1, <1>2, <2>1 DEF JobsType, Without
  <2>3. DiskType'
    BY <1>2, <2>1, Zenon DEF DiskType, disk
  <2>4. TempsType'
    BY <1>2, <2>1 DEF TempsType
  <2> QED
    BY <1>1, <1>3, <1>5, <2>2, <2>3, <2>4, BesidesType
<1> QED
  BY <1>7, <1>8, <1>9, <1>10, <1>11 DEF Worker

LEMMA OrphanExitsType ==
    ASSUME TInv, NEW i \in Id, OrphanExits(i)
    PROVE  TInv'
<1>1. /\ i \in DOMAIN orphans /\ orphans' = Without(orphans, i)
      /\ archive' = archive \/ archive' = Written(i, orphans[i])
      /\ UNCHANGED <<event, ring, has_seen_first_transition, tracks, pics, jobs,
                     temps, info, clock, last_id, exits>>
  BY DEF OrphanExits
<1>2. TypeOK /\ JobsType /\ OrphansType /\ TempsType /\ DiskType /\ helping \in {0} \cup DOMAIN jobs
  BY TypeParts, Zenon DEF TInv
<1>3. OrphansType'
  BY <1>1, <1>2 DEF OrphansType, Without
<1>4. DOMAIN archive' \subseteq Dests /\ archive' \in [DOMAIN archive' -> Take]
  <2>1. DOMAIN archive \subseteq Dests /\ archive \in [DOMAIN archive -> Take]
    BY <1>2, Zenon DEF DiskType, Take
  <2>2. /\ DOMAIN Written(i, orphans[i]) = DOMAIN archive
        /\ Written(i, orphans[i]) \in [DOMAIN archive -> Take]
    BY <1>2, WrittenType, Zenon
  <2> HIDE DEF Take
  <2> QED
    BY <1>1, <2>1, <2>2
<1>5. JobsType' /\ TempsType' /\ DiskType' /\ (helping \in {0} \cup DOMAIN jobs)'
  BY <1>1, <1>2, <1>4, Zenon DEF JobsType, TempsType, DiskType, Take, temps, event
<1>6. UNCHANGED <<pc, todo, opening, helping>>
  BY <1>1 DEF event
<1>7. pc = "down" => jobs' = Empty
  BY <1>1, Zenon DEF TInv
<1> QED
  BY <1>1, <1>3, <1>5, <1>6, <1>7, BesidesType

LEMMA DestroyType ==
    ASSUME TInv, NEW clean \in BOOLEAN, Destroy(clean)
    PROVE  TInv'
<1>1. /\ pc = "idle" /\ helping = 0 /\ exits < MaxExits
      /\ UNCHANGED <<opening, helping, ring, has_seen_first_transition, pics, jobs, orphans,
                     staging, tmp_art, disk, clock, last_id, exits>>
  BY Zenon DEF Destroy
<1>2. /\ TypeOK /\ EventType /\ TracksType /\ PrerollType /\ PicsType /\ JobsType
      /\ OrphansType /\ TempsType /\ DiskType /\ CountsType
      /\ helping \in {0} \cup DOMAIN jobs /\ todo = {}
  <2>1. pc \notin Handling
    BY <1>1 DEF Handling
  <2> QED
    BY <2>1, TypeParts, Zenon DEF TInv
<1>3. (PrerollType /\ PicsType /\ JobsType /\ OrphansType /\ DiskType /\ CountsType
       /\ helping \in {0} \cup DOMAIN jobs)'
  BY <1>1, <1>2, Zenon DEF PrerollType, PicsType, JobsType, OrphansType, DiskType, CountsType,
                           ring, pics, disk
<1>4. /\ tmp_rec' \subseteq tmp_rec /\ todo' \subseteq DOMAIN tracks'
      /\ DOMAIN tracks' \subseteq DOMAIN tracks /\ tracks' \in [DOMAIN tracks' -> Track]
      /\ pc' \in {"close", "exit"} /\ (pc' = "exit" => todo' = {})
  <2>1. tracks \in [DOMAIN tracks -> Track] /\ Open \subseteq DOMAIN tracks
    BY <1>2 DEF TracksType, Open
  <2>2. CASE clean
    <3> HIDE DEF Track
    <3> QED
      BY <1>2, <2>1, <2>2 DEF Destroy
  <2>3. CASE ~clean
    <3>1. tracks' = Empty /\ todo' = {} /\ tmp_rec' \subseteq tmp_rec /\ pc' = "exit"
      BY <1>2, <2>3 DEF Destroy
    <3>2. DOMAIN tracks' = {} /\ tracks' \in [{} -> Track]
      BY <3>1, EmptyType, Zenon
    <3> QED
      BY <3>1, <3>2
  <2> QED
    BY <2>2, <2>3
<1>5. TempsType' /\ TracksType' /\ EventType'
  <2>1. TempsType'
    BY <1>1, <1>2, <1>4 DEF TempsType
  <2>2. TracksType'
    BY <1>2, <1>4 DEF TracksType
  <2>3. pc' \in {"down", "idle", "feed", "split", "open", "close", "exit"}
    BY <1>4
  <2>4. EventType'
    BY <1>1, <1>2, <2>3, Zenon DEF EventType
  <2> QED
    BY <2>1, <2>2, <2>4
<1>6. TypeOK'
  BY <1>3, <1>4, <1>5, TypePartsNext, Zenon
<1>7. /\ (DOMAIN tracks \subseteq 1 .. last_id)' /\ (pc' \notin Handling => todo' = {})
      /\ ~ (pc' \in {"split", "open"}) /\ exits' < MaxExits /\ pc' # "down"
  BY <1>1, <1>4 DEF TInv, Handling
<1> QED
  BY <1>6, <1>7, Zenon DEF TInv

LEMMA EndType ==
    ASSUME TInv, Exit \/ Crash
    PROVE  TInv'
<1> USE RecorderAssumption
<1>1. /\ TypeOK /\ EventType /\ JobsType /\ OrphansType /\ TempsType /\ DiskType /\ CountsType
  BY TypeParts, Zenon DEF TInv
<1>2. exits < MaxExits /\ ProcessEnds
  BY DEF Exit, Crash, TInv
<1>3. /\ pc' = "down" /\ todo' = {} /\ opening' = NoSong /\ helping' = 0
      /\ has_seen_first_transition' = FALSE /\ tracks' = Empty /\ jobs' = Empty
      /\ exits' = exits + 1 /\ clock' = 0
      /\ UNCHANGED <<temps, disk, last_id>>
  BY <1>2, Zenon DEF ProcessEnds
<1>4. EventType'
  <2>1. pc' \in {"down", "idle", "feed", "split", "open", "close", "exit"}
    BY <1>3
  <2> QED
    BY <1>3, <2>1, Zenon DEF EventType
<1>5. TempsType' /\ DiskType'
  BY <1>1, <1>3, Zenon DEF TempsType, DiskType, temps, disk
<1>6. CountsType'
  BY <1>1, <1>2, <1>3 DEF CountsType
<1>7. PrerollType' /\ PicsType'
  BY <1>2 DEF ProcessEnds, PrerollType, PicsType, EmptyRing, EmptyCache, NoPicture
<1>8. OrphansType'
  <2>1. PICK S \in SUBSET {i \in DOMAIN jobs : jobs[i].stage = "remuxing"} :
          orphans' = [i \in DOMAIN orphans \cup S |-> DestOf(i)]
    BY <1>2, Zenon DEF ProcessEnds
  <2>2. \A i \in DOMAIN orphans \cup S : i \in Id /\ DestOf(i) \in Dests
    BY <1>1, <2>1 DEF DestOf, JobsType, OrphansType, Job
  <2> QED
    BY <2>1, <2>2 DEF OrphansType
<1>9. TracksType' /\ JobsType' /\ (todo \subseteq DOMAIN tracks /\ helping \in {0} \cup DOMAIN jobs)'
  BY <1>3, EmptyType, Zenon DEF TracksType, JobsType
<1>10. TypeOK'
  BY <1>4, <1>5, <1>6, <1>7, <1>8, <1>9, TypePartsNext, Zenon
<1>11. (DOMAIN tracks \subseteq 1 .. last_id)'
  BY <1>3, EmptyType
<1>12. ~ (pc' \in {"split", "open"}) /\ ~ (pc' \in {"close", "exit"})
  BY <1>3
<1> QED
  BY <1>3, <1>10, <1>11, <1>12, Zenon DEF TInv

LEMMA StutterType == TInv /\ UNCHANGED vars => TInv'
<1> SUFFICES ASSUME TInv, UNCHANGED vars PROVE TInv'
  OBVIOUS
<1>1. /\ EventType /\ TracksType /\ PrerollType /\ PicsType /\ JobsType
      /\ OrphansType /\ TempsType /\ DiskType /\ CountsType
      /\ todo \subseteq DOMAIN tracks /\ helping \in {0} \cup DOMAIN jobs
  BY TypeParts, Zenon DEF TInv
<1>2. (JobsType /\ OrphansType /\ TempsType /\ DiskType /\ helping \in {0} \cup DOMAIN jobs)'
  BY <1>1, Zenon DEF JobsType, OrphansType, TempsType, DiskType, vars, event, ring, pics, temps, disk
<1>3. UNCHANGED <<pc, todo, opening, ring, has_seen_first_transition, tracks, pics, clock, last_id, exits>>
  BY Zenon DEF vars, event
<1>4. pc = "down" => jobs' = Empty
  BY Zenon DEF vars, TInv
<1> QED
  BY <1>2, <1>3, <1>4, BesidesType

LEMMA TInvStep == TInv /\ [Next]_vars => TInv'
<1> SUFFICES ASSUME TInv, [Next]_vars PROVE TInv'
  OBVIOUS
<1>1. CASE Create
  BY <1>1, CreateType
<1>2. CASE OnHdc
  BY <1>2, OnHdcType
<1>3. CASE Finalize
  BY <1>3, FinalizeType
<1>4. CASE OpenTrack
  BY <1>4, OpenTrackType
<1>5. ASSUME NEW s \in Songs, NEW lot \in Lots \cup {NoLot}, OnId3(s, lot) PROVE TInv'
  BY <1>5, OnId3Type
<1>6. ASSUME NEW lot \in Lots, OnLot(lot) PROVE TInv'
  BY <1>6, OnLotType
<1>7. ASSUME NEW i \in Id, Worker(i) PROVE TInv'
  BY <1>7, WorkerType
<1>8. ASSUME NEW i \in Id, OrphanExits(i) PROVE TInv'
  BY <1>8, OrphanExitsType
<1>9. ASSUME NEW clean \in BOOLEAN, Destroy(clean) PROVE TInv'
  BY <1>9, DestroyType
<1>10. CASE Exit \/ Crash
  BY <1>10, EndType
<1>11. CASE UNCHANGED vars
  BY <1>11, StutterType
<1> QED
  BY <1>1, <1>2, <1>3, <1>4, <1>5, <1>6, <1>7, <1>8, <1>9, <1>10, <1>11, Zenon DEF Next

\* Every variable of the recorder keeps the type the code gives it, for every
\* number of songs, tracks, pictures, failures and exits.
THEOREM RecorderTypes == Spec => []TypeOK
<1>1. Spec => []TInv
  BY TInit, TInvStep, PTL DEF Spec
<1>2. TInv => TypeOK
  BY Zenon DEF TInv
<1> QED
  BY <1>1, <1>2, PTL

-----------------------------------------------------------------------------
(* What the steps leave alone *)

LEMMA TracksTyped ==
    TInv => /\ tracks \in [DOMAIN tracks -> Track] /\ last_id \in Nat /\ clock \in Nat
            /\ DOMAIN tracks \subseteq 1 .. last_id
<1> SUFFICES ASSUME TInv PROVE /\ tracks \in [DOMAIN tracks -> Track]
                               /\ last_id \in Nat /\ clock \in Nat
                               /\ DOMAIN tracks \subseteq 1 .. last_id
  OBVIOUS
<1>1. TracksType /\ CountsType /\ DOMAIN tracks \subseteq 1 .. last_id
  BY TypeParts, Zenon DEF TInv
<1>2. last_id \in Nat /\ clock \in Nat
  BY <1>1, RecorderAssumption DEF CountsType
<1> QED
  BY <1>1, <1>2, Zenon DEF TracksType

\* Only the picture, its announcement or nothing of track i changes.
SameAudio(i) ==
    /\ tracks'[i].tmp_fp = tracks[i].tmp_fp /\ tracks'[i].file = tracks[i].file
    /\ tracks'[i].packets_preroll = tracks[i].packets_preroll
    /\ tracks'[i].packets_body = tracks[i].packets_body
    /\ tracks'[i].packets_postroll = tracks[i].packets_postroll
    /\ tracks'[i].is_postroll = tracks[i].is_postroll
    /\ tracks'[i].remaining = tracks[i].remaining

SameTakes ==
    /\ DOMAIN tracks' = DOMAIN tracks /\ Open' = Open
    /\ \A i \in DOMAIN tracks : SameAudio(i)

LEMMA NewestPostroll ==
    ASSUME TInv, NotPostroll # {}
    PROVE  /\ Primary \in NotPostroll /\ Primary \in DOMAIN tracks
           /\ \A j \in NotPostroll : j <= Primary
<1>1. last_id \in Nat /\ NotPostroll \in SUBSET (1 .. last_id)
  BY TracksTyped DEF NotPostroll
<1> QED
  BY <1>1, NewestIn DEF Primary, NotPostroll

LEMMA RepeatKeeps ==
    ASSUME TInv, NotPostroll # {}, NEW lot, RepeatTag(lot)
    PROVE  SameTakes
<1>1. tracks \in [DOMAIN tracks -> Track] /\ Primary \in DOMAIN tracks
  BY TracksTyped, NewestPostroll
<1>2. DOMAIN tracks' = DOMAIN tracks /\ \A i \in DOMAIN tracks : SameAudio(i)
  BY <1>1 DEF RepeatTag, Track, SameAudio
<1> QED
  BY <1>2 DEF SameTakes, SameAudio, Open

LEMMA OnLotKeeps ==
    ASSUME TInv, NEW lot, OnLot(lot)
    PROVE  SameTakes
<1>1. tracks \in [DOMAIN tracks -> Track]
  BY TracksTyped
<1>2. DOMAIN tracks' = DOMAIN tracks /\ \A i \in DOMAIN tracks : SameAudio(i)
  BY <1>1 DEF OnLot, Track, SameAudio
<1> QED
  BY <1>2 DEF SameTakes, SameAudio, Open

\* The song before goes into its post-roll.
LEMMA StartsPostroll ==
    ASSUME TInv, NEW s, NEW lot, StartNewSong(s, lot), NotPostroll # {}, PostrollOn
    PROVE  /\ pc' = "open" /\ todo' = todo /\ DOMAIN tracks' = DOMAIN tracks /\ Open' = Open
           /\ \A i \in DOMAIN tracks : i # Primary => tracks'[i] = tracks[i]
           /\ tracks'[Primary].is_postroll /\ tracks'[Primary].remaining = PostrollFrames
           /\ tracks'[Primary].file = tracks[Primary].file
           /\ tracks'[Primary].packets_preroll = tracks[Primary].packets_preroll
           /\ tracks'[Primary].packets_body = tracks[Primary].packets_body
           /\ tracks'[Primary].packets_postroll = tracks[Primary].packets_postroll
<1>1. tracks \in [DOMAIN tracks -> Track] /\ Primary \in DOMAIN tracks
  BY TracksTyped, NewestPostroll
<1>2. /\ tracks' = [tracks EXCEPT ![Primary].is_postroll = TRUE, ![Primary].remaining = PostrollFrames]
      /\ pc' = "open" /\ todo' = todo
  BY DEF StartNewSong
<1>3. /\ DOMAIN tracks' = DOMAIN tracks
      /\ \A i \in DOMAIN tracks : i # Primary => tracks'[i] = tracks[i]
      /\ tracks'[Primary].tmp_fp = tracks[Primary].tmp_fp
      /\ tracks'[Primary].is_postroll /\ tracks'[Primary].remaining = PostrollFrames
      /\ tracks'[Primary].file = tracks[Primary].file
      /\ tracks'[Primary].packets_preroll = tracks[Primary].packets_preroll
      /\ tracks'[Primary].packets_body = tracks[Primary].packets_body
      /\ tracks'[Primary].packets_postroll = tracks[Primary].packets_postroll
  BY <1>1, <1>2 DEF Track
<1>4. Open' = Open
  BY <1>3 DEF Open
<1> QED
  BY <1>2, <1>3, <1>4

LEMMA FrameKeeps ==
    ASSUME TInv, OnHdc
    PROVE  /\ Open' = Open /\ DOMAIN tracks' = DOMAIN tracks
           /\ \A i \in Open : tracks'[i] = Feed(tracks[i], clock')
<1>1. /\ tracks' = [i \in DOMAIN tracks |-> Feed(tracks[i], clock')]
      /\ tracks \in [DOMAIN tracks -> Track]
  BY TracksTyped DEF OnHdc
<1>2. \A i \in DOMAIN tracks : Feed(tracks[i], clock').tmp_fp = tracks[i].tmp_fp
  BY <1>1 DEF Feed, Track
<1> QED
  BY <1>1, <1>2 DEF Open

\* What the frame does to a track that is being written.
LEMMA FrameTaken ==
    ASSUME TInv, OnHdc, NEW i \in Open
    PROVE  /\ tracks[i] \in Track /\ tracks'[i].is_postroll = tracks[i].is_postroll
           /\ tracks'[i].file = Append(tracks[i].file, clock')
           /\ tracks'[i].packets_preroll = tracks[i].packets_preroll
           /\ tracks[i].is_postroll =>
                /\ tracks'[i].packets_body = tracks[i].packets_body
                /\ tracks'[i].packets_postroll = tracks[i].packets_postroll + 1
                /\ tracks'[i].remaining = IF tracks[i].remaining > 0
                                          THEN tracks[i].remaining - 1 ELSE 0
           /\ ~tracks[i].is_postroll =>
                /\ tracks'[i].packets_body = tracks[i].packets_body + 1
                /\ tracks'[i].packets_postroll = tracks[i].packets_postroll
<1>1. tracks[i].tmp_fp /\ tracks[i] \in Track /\ tracks'[i] = Feed(tracks[i], clock')
  BY TracksTyped, FrameKeeps DEF Open
<1> QED
  BY <1>1 DEF Feed, Track

LEMMA FinalizedOne ==
    ASSUME TInv, Finalize
    PROVE  \E i \in todo :
              /\ i \in DOMAIN tracks
              /\ HandOver(i) \/ Discard(i)
              /\ todo' = todo \ {i} /\ Open' = Open \ {i}
              /\ DOMAIN tracks' \subseteq DOMAIN tracks
              /\ \A j \in Open \ {i} : tracks'[j] = tracks[j]
<1>1. PICK i \in todo :
              /\ i \in DOMAIN tracks /\ i \in Id /\ tracks[i] \in Track
              /\ todo' = todo \ {i}
              /\ tracks' = IF pc = "split"
                          THEN [tracks EXCEPT ![i].tmp_fp = FALSE, ![i].art = 0]
                          ELSE Without(tracks, i)
              /\ HandOver(i) \/ Discard(i)
  BY FinalizesOne, Zenon
<1>2. /\ Open' = Open \ {i} /\ DOMAIN tracks' \subseteq DOMAIN tracks
      /\ \A j \in Open \ {i} : tracks'[j] = tracks[j]
  <2>1. tracks \in [DOMAIN tracks -> Track]
    BY TracksTyped
  <2>2. CASE pc = "split"
    <3>1. DOMAIN tracks' = DOMAIN tracks
      BY <1>1, <2>2
    <3>2. ~tracks'[i].tmp_fp /\ \A j \in DOMAIN tracks \ {i} : tracks'[j] = tracks[j]
      BY <1>1, <2>1, <2>2 DEF Track
    <3> QED
      BY <1>1, <3>1, <3>2 DEF Open
  <2>3. CASE pc # "split"
    BY <1>1, <2>3 DEF Open, Without
  <2> QED
    BY <2>2, <2>3
<1> QED
  BY <1>1, <1>2, Zenon

LEMMA FinalizeMoves ==
    ASSUME Finalize
    PROVE  /\ clock' = clock /\ pc \in {"feed", "split", "close"} /\ pc' # "down"
           /\ pc' = "feed" => pc = "feed"
           /\ pc' = "split" => pc = "split"
           /\ pc' = "open" => pc = "split" /\ todo' = {}
           /\ pc' \in {"close", "exit"} <=> pc = "close"
<1>1. CASE todo' # {}
  BY <1>1 DEF Finalize
<1>2. CASE todo' = {} /\ pc = "feed"
  BY <1>2 DEF Finalize
<1>3. CASE todo' = {} /\ pc = "split"
  BY <1>3 DEF Finalize
<1>4. CASE todo' = {} /\ pc = "close"
  BY <1>4 DEF Finalize
<1> QED
  BY <1>1, <1>2, <1>3, <1>4 DEF Finalize

-----------------------------------------------------------------------------
(* The pre-roll ring *)

\* An index runs once around the ring at most.
LEMMA WrapOnce ==
    ASSUME NEW c \in Nat \ {0}, NEW x \in 0 .. 2 * c - 1
    PROVE  x % c = IF x < c THEN x ELSE x - c
<1>1. CASE x < c
  BY <1>1
<1>2. CASE x >= c
  BY <1>2
<1> QED
  BY <1>1, <1>2

\* The slots below the head were written in the current round, the others in
\* the round before it; in the first round there are no others.
RingInv ==
    /\ clock \in Nat
    /\ DOMAIN preroll = 0 .. PrerollCap - 1
    /\ preroll_head \in Nat /\ preroll_head <= PrerollCap
    /\ PrerollCap > 0 => preroll_head < PrerollCap
    /\ preroll_count = IF clock < PrerollCap THEN clock ELSE PrerollCap
    /\ clock < PrerollCap => preroll_head = clock
    /\ \A i \in 0 .. preroll_head - 1 :
          preroll[i] = clock - preroll_head + i + 1
    /\ preroll_count = PrerollCap =>
          \A i \in preroll_head .. PrerollCap - 1 :
             preroll[i] = clock - preroll_head - PrerollCap + i + 1

LEMMA RingInit == Init => RingInv
BY RecorderAssumption DEF Init, RingInv, EmptyRing

\* The new frame goes to the head, which moves on or back to slot 0.
LEMMA RingStore ==
    ASSUME RingInv, clock' = clock + 1, StoreInRing(clock')
    PROVE  RingInv'
<1> USE RecorderAssumption
<1>1. CASE PrerollCap = 0
  BY <1>1 DEF RingInv, StoreInRing, ring
<1>2. CASE PrerollCap > 0
  <2>1. preroll_head' = IF preroll_head + 1 < PrerollCap
                        THEN preroll_head + 1 ELSE 0
    <3>1. /\ PrerollCap \in Nat \ {0} /\ preroll_head + 1 \in 0 .. 2 * PrerollCap - 1
          /\ preroll_head + 1 <= PrerollCap
      BY <1>2 DEF RingInv
    <3>2. preroll_head' = (preroll_head + 1) % PrerollCap
      BY <1>2 DEF StoreInRing
    <3>3. (preroll_head + 1) % PrerollCap =
            IF preroll_head + 1 < PrerollCap THEN preroll_head + 1
            ELSE preroll_head + 1 - PrerollCap
      <4> DEFINE x == preroll_head + 1
      <4>1. x \in 0 .. 2 * PrerollCap - 1 /\ PrerollCap \in Nat \ {0}
        BY <3>1
      <4> HIDE DEF x
      <4>2. x % PrerollCap = IF x < PrerollCap THEN x ELSE x - PrerollCap
        BY <4>1, WrapOnce
      <4> QED
        BY <3>1, <4>2 DEF x, RingInv
    <3> QED
      BY <3>1, <3>2, <3>3 DEF RingInv
  <2>2. preroll' = [preroll EXCEPT ![preroll_head] = clock + 1]
    BY <1>2 DEF StoreInRing
  <2>3. preroll_count' = IF preroll_count < PrerollCap
                         THEN preroll_count + 1 ELSE preroll_count
    BY <1>2 DEF StoreInRing
  <2>4. /\ preroll'[preroll_head] = clock + 1
        /\ \A i \in 0 .. PrerollCap - 1 :
              i # preroll_head => preroll'[i] = preroll[i]
        /\ DOMAIN preroll' = 0 .. PrerollCap - 1
    BY <1>2, <2>2 DEF RingInv
  <2>5. /\ clock' \in Nat /\ preroll_head' \in Nat
        /\ preroll_head' <= PrerollCap /\ preroll_head' < PrerollCap
        /\ preroll_count' = IF clock' < PrerollCap THEN clock' ELSE PrerollCap
        /\ clock' < PrerollCap => preroll_head' = clock'
    BY <1>2, <2>1, <2>3 DEF RingInv
  <2>6. ASSUME NEW i \in 0 .. preroll_head' - 1
        PROVE  preroll'[i] = clock' - preroll_head' + i + 1
    <3>1. preroll_head' = preroll_head + 1 /\ preroll_head + 1 < PrerollCap
      BY <2>1 DEF RingInv
    <3>2. CASE i = preroll_head
      BY <2>4, <3>1, <3>2 DEF RingInv
    <3>3. CASE i # preroll_head
      <4>1. i \in 0 .. preroll_head - 1 /\ i \in 0 .. PrerollCap - 1
        BY <3>1, <3>3 DEF RingInv
      <4> QED
        BY <2>4, <3>1, <3>3, <4>1 DEF RingInv
    <3> QED
      BY <3>2, <3>3
  <2>7. ASSUME preroll_count' = PrerollCap,
               NEW i \in preroll_head' .. PrerollCap - 1
        PROVE  preroll'[i] = clock' - preroll_head' - PrerollCap + i + 1
    <3>1. CASE preroll_head + 1 < PrerollCap
      <4>1. /\ preroll_head' = preroll_head + 1 /\ preroll_count = PrerollCap
            /\ i \in preroll_head .. PrerollCap - 1 /\ i # preroll_head
            /\ i \in 0 .. PrerollCap - 1
        BY <1>2, <2>1, <2>3, <2>7, <3>1 DEF RingInv
      <4> QED
        BY <2>4, <4>1 DEF RingInv
    <3>2. CASE preroll_head + 1 >= PrerollCap
      <4>1. preroll_head' = 0 /\ preroll_head = PrerollCap - 1
        BY <1>2, <2>1, <3>2 DEF RingInv
      <4>2. CASE i = preroll_head
        BY <2>4, <4>1, <4>2 DEF RingInv
      <4>3. CASE i # preroll_head
        <5>1. i \in 0 .. preroll_head - 1 /\ i \in 0 .. PrerollCap - 1
          BY <4>1, <4>3 DEF RingInv
        <5> QED
          BY <2>4, <4>1, <4>3, <5>1 DEF RingInv
      <4> QED
        BY <4>2, <4>3
    <3> QED
      BY <3>1, <3>2 DEF RingInv
  <2> QED
    BY <2>4, <2>5, <2>6, <2>7, Zenon DEF RingInv
<1> QED
  BY <1>1, <1>2

\* Only recorder_on_hdc and the end of the process touch the ring.
LEMMA RingStep == RingInv /\ [Next]_vars => RingInv'
<1> SUFFICES ASSUME RingInv, [Next]_vars PROVE RingInv'
  OBVIOUS
<1>1. CASE OnHdc
  BY <1>1, RingStore DEF OnHdc
<1>2. CASE Exit \/ Crash
  <2>1. ProcessEnds
    BY <1>2 DEF Exit, Crash
  <2> QED
    BY <2>1, RecorderAssumption DEF ProcessEnds, RingInv, EmptyRing
<1>3. CASE UNCHANGED <<ring, clock>>
  BY <1>3 DEF ring, RingInv
<1>4. CASE Create \/ Finalize \/ OpenTrack
  BY <1>3, <1>4, Zenon DEF Create, Finalize, OpenTrack
<1>5. ASSUME NEW s \in Songs, NEW lot \in Lots \cup {NoLot}, OnId3(s, lot)
      PROVE  RingInv'
  BY <1>3, <1>5, Zenon DEF OnId3
<1>6. ASSUME NEW lot \in Lots, OnLot(lot)
      PROVE  RingInv'
  BY <1>3, <1>6, Zenon DEF OnLot
<1>7. ASSUME NEW i \in Id, Worker(i) \/ OrphanExits(i)
      PROVE  RingInv'
  BY <1>3, <1>7, Zenon DEF Worker, OrphanExits
<1>8. ASSUME NEW clean \in BOOLEAN, Destroy(clean)
      PROVE  RingInv'
  BY <1>3, <1>8, Zenon DEF Destroy
<1>9. CASE UNCHANGED vars
  BY <1>3, <1>9 DEF vars
<1> QED
  BY <1>1, <1>2, <1>4, <1>5, <1>6, <1>7, <1>8, <1>9 DEF Next

\* What is read out of the ring, from its oldest slot on, is in order.
LEMMA RingReadsInOrder == RingInv => RingHoldsLatest
<1> SUFFICES ASSUME RingInv PROVE RingHoldsLatest
  OBVIOUS
<1> USE RecorderAssumption
<1> DEFINE start == IF preroll_count < PrerollCap THEN 0 ELSE preroll_head
<1>1. ASSUME NEW k \in 1 .. preroll_count
      PROVE  preroll[(start + k - 1) % PrerollCap] = clock - preroll_count + k
  <2>1. /\ PrerollCap \in Nat \ {0} /\ clock \in Nat
        /\ preroll_count \in Nat /\ preroll_count <= PrerollCap
        /\ preroll_head \in 0 .. PrerollCap - 1
        /\ preroll_count < PrerollCap => preroll_head = clock
        /\ preroll_count < PrerollCap => preroll_count = clock
    BY DEF RingInv
  <2>2. start \in 0 .. PrerollCap - 1
    BY <2>1
  <2>3. (start + k - 1) % PrerollCap =
          IF start + k - 1 < PrerollCap THEN start + k - 1
          ELSE start + k - 1 - PrerollCap
    <3> DEFINE x == start + k - 1
    <3>1. x \in 0 .. 2 * PrerollCap - 1
      BY <2>1, <2>2
    <3> HIDE DEF x
    <3>2. x % PrerollCap = IF x < PrerollCap THEN x ELSE x - PrerollCap
      BY <2>1, <3>1, WrapOnce
    <3> QED
      BY <2>1, <2>2, <3>2 DEF x
  <2>4. CASE preroll_count < PrerollCap
    <3>1. (start + k - 1) % PrerollCap = k - 1 /\ k - 1 \in 0 .. preroll_head - 1
      BY <2>1, <2>3, <2>4
    <3>2. preroll[k - 1] = clock - preroll_head + (k - 1) + 1
      BY <3>1 DEF RingInv
    <3> QED
      BY <2>1, <2>4, <3>1, <3>2
  <2>5. CASE preroll_count = PrerollCap /\ preroll_head + k - 1 < PrerollCap
    <3>1. /\ (start + k - 1) % PrerollCap = preroll_head + k - 1
          /\ preroll_head + k - 1 \in preroll_head .. PrerollCap - 1
      BY <2>1, <2>3, <2>5
    <3> DEFINE i == preroll_head + k - 1
    <3>2. preroll[i] = clock - preroll_head - PrerollCap + i + 1
      BY <2>5, <3>1 DEF RingInv
    <3> QED
      BY <2>1, <2>5, <3>1, <3>2
  <2>6. CASE preroll_count = PrerollCap /\ preroll_head + k - 1 >= PrerollCap
    <3>1. /\ (start + k - 1) % PrerollCap = preroll_head + k - 1 - PrerollCap
          /\ preroll_head + k - 1 - PrerollCap \in 0 .. preroll_head - 1
      BY <2>1, <2>3, <2>6
    <3> DEFINE i == preroll_head + k - 1 - PrerollCap
    <3>2. preroll[i] = clock - preroll_head + i + 1
      BY <3>1 DEF RingInv
    <3> QED
      BY <2>1, <2>6, <3>1, <3>2
  <2> QED
    BY <2>1, <2>4, <2>5, <2>6
<1>2. PrerollFramesHeld = [k \in 1 .. preroll_count |-> clock - preroll_count + k]
  BY <1>1 DEF PrerollFramesHeld
<1> QED
  BY <1>2 DEF RingInv, RingHoldsLatest

\* A new track starts with exactly the latest frames of the broadcast, in
\* order, whatever the capacity of the ring and however often it has wrapped.
THEOREM PrerollIsLatest == Spec => []RingHoldsLatest
<1>1. Spec => []RingInv
  BY RingInit, RingStep, PTL DEF Spec
<1> QED
  BY <1>1, RingReadsInOrder, PTL

-----------------------------------------------------------------------------
(* The cache of pictures *)

\* The number of the picture in slot s: the slots below lot_cache_idx were
\* written in the current round, the others in the round before it, if any.
PictureIn(s) ==
    IF s < lot_cache_idx THEN Len(pictures) - lot_cache_idx + s + 1
    ELSE Len(pictures) - lot_cache_idx - CacheSize + s + 1

CacheInv ==
    /\ lot_cache_idx <= Len(pictures)
    /\ \A s \in 0 .. CacheSize - 1 :
          lot_cache[s] = IF PictureIn(s) > 0
                         THEN [lot |-> pictures[PictureIn(s)], data |-> PictureIn(s)]
                         ELSE NoPicture

PicturesTyped == pictures \in Seq(Lots) /\ Len(pictures) \in Nat
                 /\ lot_cache_idx \in 0 .. CacheSize - 1

LEMMA PicturesType == TInv => PicturesTyped
<1> SUFFICES ASSUME TInv PROVE PicturesTyped
  OBVIOUS
<1>1. PicsType
  BY TypeParts, Zenon DEF TInv
<1> QED
  BY <1>1 DEF PicsType, PicturesTyped

LEMMA CacheInit == Init => CacheInv
<1> SUFFICES ASSUME Init PROVE CacheInv
  OBVIOUS
<1>1. /\ lot_cache_idx = 0 /\ Len(pictures) = 0 /\ lot_cache = EmptyCache
  BY DEF Init
<1>2. \A s \in 0 .. CacheSize - 1 : ~ (PictureIn(s) > 0)
  BY <1>1, RecorderAssumption DEF PictureIn
<1> QED
  BY <1>1, <1>2 DEF CacheInv, EmptyCache

\* The new picture takes the slot, and the index moves on or back to slot 0.
LEMMA CacheStore ==
    ASSUME TInv, CacheInv, NEW lot \in Lots, OnLot(lot)
    PROVE  CacheInv'
<1> DEFINE n == Len(pictures)
           x == lot_cache_idx
           nx == IF x + 1 < CacheSize THEN x + 1 ELSE 0
<1> USE RecorderAssumption
<1>1. /\ pictures \in Seq(Lots) /\ n \in Nat /\ x \in 0 .. CacheSize - 1 /\ x <= n
      /\ CacheSize \in Nat \ {0}
  BY PicturesType DEF PicturesTyped, CacheInv
<1>2. /\ Len(pictures') = n + 1 /\ pictures'[n + 1] = lot
      /\ \A k \in 1 .. n : pictures'[k] = pictures[k]
  BY <1>1 DEF OnLot
<1>3. /\ lot_cache'[x] = [lot |-> lot, data |-> n + 1]
      /\ \A s \in 0 .. CacheSize - 1 : s # x => lot_cache'[s] = lot_cache[s]
  <2>1. lot_cache \in [0 .. CacheSize - 1 -> [lot : Lots \cup {NoLot}, data : Nat]]
    BY TypeParts DEF TInv, PicsType
  <2>2. lot_cache' = [lot_cache EXCEPT ![x] = [lot |-> lot, data |-> n + 1]]
    BY <1>2 DEF OnLot
  <2> QED
    BY <1>1, <2>1, <2>2
<1>4. lot_cache_idx' = nx
  <2>1. lot_cache_idx' = (x + 1) % CacheSize
    BY DEF OnLot
  <2>2. x + 1 \in 0 .. 2 * CacheSize - 1 /\ x + 1 <= CacheSize
    BY <1>1
  <2> DEFINE y == x + 1
  <2> HIDE DEF x, y
  <2>3. y % CacheSize = IF y < CacheSize THEN y ELSE y - CacheSize
    BY <1>1, <2>2, WrapOnce DEF y
  <2> QED
    BY <1>1, <2>1, <2>2, <2>3 DEF y, nx
<1>8. nx \in 0 .. CacheSize - 1 /\ nx <= n + 1
  BY <1>1
<1> HIDE DEF n, x, nx
<1>5. ASSUME NEW s \in 0 .. CacheSize - 1
      PROVE  PictureIn(s)' = IF s = x THEN n + 1 ELSE PictureIn(s)
  <2>1. PictureIn(s) = IF s < x THEN n - x + s + 1 ELSE n - x - CacheSize + s + 1
    BY DEF PictureIn, n, x
  <2>2. PictureIn(s)' = IF s < nx THEN n + 1 - nx + s + 1 ELSE n + 1 - nx - CacheSize + s + 1
    <3>1. Len(pictures') = n + 1 /\ lot_cache_idx' = nx
      BY <1>2, <1>4
    <3> DEFINE m == Len(pictures')
    <3>2. PictureIn(s)' = IF s < lot_cache_idx' THEN m - lot_cache_idx' + s + 1
                          ELSE m - lot_cache_idx' - CacheSize + s + 1
      BY Zenon DEF PictureIn
    <3>3. m = n + 1 /\ n \in Int /\ nx \in Int
      BY <1>1, <1>8, <3>1
    <3> HIDE DEF m, PictureIn
    <3> QED
      BY <3>1, <3>2, <3>3
  <2>3. nx = IF x + 1 < CacheSize THEN x + 1 ELSE 0
    BY DEF nx
  <2> QED
    BY <1>1, <2>1, <2>2, <2>3
<1>6. ASSUME NEW s \in 0 .. CacheSize - 1
      PROVE  (lot_cache[s] = IF PictureIn(s) > 0
                             THEN [lot |-> pictures[PictureIn(s)], data |-> PictureIn(s)]
                             ELSE NoPicture)'
  <2>1. CASE s = x
    BY <1>1, <1>2, <1>3, <1>5, <2>1
  <2>2. CASE s # x
    <3>1. lot_cache'[s] = lot_cache[s] /\ PictureIn(s)' = PictureIn(s)
      BY <1>3, <1>5, <2>2
    <3>2. PictureIn(s) \in Int /\ PictureIn(s) <= n
      BY <1>1, <2>2 DEF PictureIn, n, x
    <3>3. PictureIn(s) > 0 => pictures'[PictureIn(s)] = pictures[PictureIn(s)]
      BY <1>1, <1>2, <3>2
    <3> QED
      BY <3>1, <3>3 DEF CacheInv, NoPicture
  <2> QED
    BY <2>1, <2>2
<1>7. lot_cache_idx' <= Len(pictures')
  BY <1>2, <1>4, <1>8
<1> QED
  BY <1>6, <1>7 DEF CacheInv

\* What one track may embed, when these are the pictures received so far.
ArtRight(t, p) ==
    /\ t.art # 0 => t.art \in 1 .. Len(p) /\ p[t.art] = t.xhdr_lot
    /\ \A k \in 1 .. Len(p) :
          k > Len(p) - CacheSize /\ p[k] = t.xhdr_lot => t.art # 0

ArtInv == CacheInv /\ \A i \in Open : ArtRight(tracks[i], pictures)

\* The cache answers with a picture of that LOT id, if a recent one has it.
LEMMA CacheFinds ==
    ASSUME TInv, CacheInv, NEW lot \in Lots \cup {NoLot}
    PROVE  /\ CachedArt(lot) \in Nat
           /\ CachedArt(lot) # 0 => /\ CachedArt(lot) \in 1 .. Len(pictures)
                                    /\ pictures[CachedArt(lot)] = lot
           /\ \A k \in 1 .. Len(pictures) :
                 k > Len(pictures) - CacheSize /\ pictures[k] = lot => CachedArt(lot) # 0
<1> DEFINE n == Len(pictures)
           hits == {i \in 0 .. CacheSize - 1 : lot_cache[i].data # 0 /\ lot_cache[i].lot = lot}
<1> USE RecorderAssumption
<1>1. /\ pictures \in Seq(Lots) /\ n \in Nat /\ lot_cache_idx \in 0 .. CacheSize - 1
      /\ lot_cache_idx <= n /\ CacheSize \in Nat \ {0}
  BY PicturesType DEF PicturesTyped, CacheInv
<1>2. ASSUME NEW s \in hits
      PROVE  /\ lot_cache[s].data \in 1 .. n /\ pictures[lot_cache[s].data] = lot
  <2>1. lot_cache[s] = IF PictureIn(s) > 0
                       THEN [lot |-> pictures[PictureIn(s)], data |-> PictureIn(s)]
                       ELSE NoPicture
    BY DEF CacheInv
  <2>2. PictureIn(s) > 0
    BY <2>1 DEF NoPicture
  <2>3. PictureIn(s) \in Int /\ PictureIn(s) <= n
    BY <1>1 DEF PictureIn
  <2>4. lot_cache[s].data = PictureIn(s) /\ lot_cache[s].lot = pictures[PictureIn(s)]
    BY <2>1, <2>2
  <2> HIDE DEF n
  <2> QED
    BY <1>1, <2>2, <2>3, <2>4
<1>3. ASSUME NEW k \in 1 .. n, k > n - CacheSize, pictures[k] = lot, lot # NoLot
      PROVE  hits # {}
  <2> DEFINE s == IF k > n - lot_cache_idx THEN k - (n - lot_cache_idx) - 1
                  ELSE k - (n - lot_cache_idx) + CacheSize - 1
  <2>1. s \in 0 .. CacheSize - 1 /\ PictureIn(s) = k
    BY <1>1, <1>3 DEF PictureIn
  <2>2. lot_cache[s] = [lot |-> lot, data |-> k]
    <3> HIDE DEF s
    <3> QED
      BY <1>3, <2>1 DEF CacheInv
  <2>3. s \in hits
    <3> HIDE DEF s
    <3> QED
      BY <2>1, <2>2
  <2> QED
    BY <2>3, Zenon
<1>4. ASSUME NEW k \in 1 .. n, pictures[k] = lot PROVE lot # NoLot
  <2>1. pictures[k] \in Lots
    BY <1>1
  <2> QED
    BY <1>4, <2>1 DEF NoLot
<1>5. CASE lot = NoLot \/ hits = {}
  <2>1. CachedArt(lot) = 0
    BY <1>5 DEF CachedArt
  <2> HIDE DEF hits
  <2> QED
    BY <1>3, <1>4, <1>5, <2>1
<1>6. CASE lot # NoLot /\ hits # {}
  <2>1. hits \in SUBSET Nat
    OBVIOUS
  <2>2. PICK i \in hits : \A j \in hits : i <= j
    <3> HIDE DEF hits
    <3> QED
      BY <1>6, <2>1, Smallest
  <2>3. (CHOOSE k \in hits : \A j \in hits : k <= j) \in hits
    BY <2>2, Zenon
  <2>4. CachedArt(lot) = lot_cache[CHOOSE k \in hits : \A j \in hits : k <= j].data
    BY <1>6 DEF CachedArt
  <2>5. PICK s \in hits : CachedArt(lot) = lot_cache[s].data
    BY <2>3, <2>4, Zenon
  <2> HIDE DEF hits
  <2> QED
    BY <1>2, <2>5
<1> QED
  BY <1>5, <1>6, Zenon

\* Whatever leaves the pictures, the cache and what the tracks carry alone.
LEMMA ArtKept ==
    ASSUME ArtInv, UNCHANGED pics, Open' \subseteq Open,
           \A i \in Open' : /\ tracks'[i].art = tracks[i].art
                            /\ tracks'[i].xhdr_lot = tracks[i].xhdr_lot
    PROVE  ArtInv'
<1>1. CacheInv'
  BY DEF ArtInv, CacheInv, PictureIn, pics
<1>2. \A i \in Open' : ArtRight(tracks'[i], pictures)
  BY DEF ArtInv, ArtRight
<1> QED
  BY <1>1, <1>2, Zenon DEF ArtInv, pics

LEMMA OnHdcArt ==
    ASSUME TInv, ArtInv, OnHdc
    PROVE  ArtInv'
<1>1. UNCHANGED pics
  BY Zenon DEF OnHdc
<1>2. Open' = Open /\ \A i \in Open : tracks'[i] = Feed(tracks[i], clock')
  BY FrameKeeps
<1>3. ASSUME NEW i \in Open
      PROVE  tracks'[i].art = tracks[i].art /\ tracks'[i].xhdr_lot = tracks[i].xhdr_lot
  <2>1. tracks[i] \in Track
    BY TracksTyped DEF Open
  <2> QED
    BY <1>2, <2>1 DEF Feed, Track
<1> QED
  BY <1>1, <1>2, <1>3, ArtKept

LEMMA OnId3Art ==
    ASSUME TInv, ArtInv, NEW s \in Songs, NEW lot \in Lots \cup {NoLot}, OnId3(s, lot)
    PROVE  ArtInv'
<1>1. UNCHANGED pics
  BY Zenon DEF OnId3
<1>2. CASE UNCHANGED tracks
  BY <1>1, <1>2, ArtKept DEF Open
<1>3. CASE NotPostroll # {} /\ PostrollOn /\ StartNewSong(s, lot)
  <2>1. tracks \in [DOMAIN tracks -> Track] /\ Primary \in DOMAIN tracks
    BY <1>3, TracksTyped, NewestPostroll
  <2>2. tracks' = [tracks EXCEPT ![Primary].is_postroll = TRUE, ![Primary].remaining = PostrollFrames]
    BY <1>3 DEF StartNewSong
  <2>3. \A i \in DOMAIN tracks : /\ tracks'[i].art = tracks[i].art
                                 /\ tracks'[i].xhdr_lot = tracks[i].xhdr_lot
    BY <2>1, <2>2 DEF Track
  <2>4. Open' = Open
    BY <1>3, StartsPostroll
  <2> QED
    BY <1>1, <2>3, <2>4, ArtKept DEF Open
<1>4. CASE NotPostroll # {} /\ RepeatTag(lot) /\ tracks[Primary].xhdr_lot = NoLot /\ lot # NoLot
  <2> DEFINE p == Primary
             art == IF tracks[p].art = 0 THEN CachedArt(lot) ELSE tracks[p].art
  <2>1. tracks \in [DOMAIN tracks -> Track] /\ p \in DOMAIN tracks
    BY <1>4, TracksTyped, NewestPostroll
  <2>2. tracks' = [tracks EXCEPT ![p].xhdr_lot = lot, ![p].art = art]
    BY <1>4, <2>1 DEF RepeatTag, Track
  <2> HIDE DEF p
  <2>3. /\ \A i \in DOMAIN tracks \ {p} : tracks'[i] = tracks[i]
        /\ tracks'[p].art = art /\ tracks'[p].xhdr_lot = lot
    <3> HIDE DEF art
    <3> QED
      BY <2>1, <2>2 DEF Track
  <2>4. Open' = Open
    BY <1>4, RepeatKeeps DEF SameTakes
  <2>5. CASE p \in Open
    <3>1. tracks[p].art = 0
      <4>1. tracks[p].art # 0 => /\ tracks[p].art \in 1 .. Len(pictures)
                                 /\ pictures[tracks[p].art] = NoLot
        BY <1>4, <2>5 DEF ArtInv, ArtRight, p
      <4>2. \A k \in 1 .. Len(pictures) : pictures[k] # NoLot
        BY PicturesType, RecorderAssumption DEF PicturesTyped, NoLot
      <4> QED
        BY <4>1, <4>2
    <3>2. tracks'[p].art = CachedArt(lot)
      BY <2>3, <3>1
    <3>3. ArtRight(tracks'[p], pictures)
      BY <2>3, <3>2, CacheFinds DEF ArtRight, ArtInv
    <3>4. \A i \in Open \ {p} : ArtRight(tracks'[i], pictures)
      BY <2>3, Zenon DEF ArtInv, Open
    <3>5. \A i \in Open' : ArtRight(tracks'[i], pictures')
      BY <1>1, <2>4, <3>3, <3>4, Zenon DEF pics
    <3>6. CacheInv'
      BY <1>1 DEF ArtInv, CacheInv, PictureIn, pics
    <3> QED
      BY <3>5, <3>6, Zenon DEF ArtInv
  <2>6. CASE p \notin Open
    BY <1>1, <2>3, <2>4, <2>6, ArtKept DEF Open
  <2> QED
    BY <2>5, <2>6
<1> QED
  BY <1>2, <1>3, <1>4 DEF OnId3, StartNewSong, RepeatTag

LEMMA OpenTrackArt ==
    ASSUME TInv, ArtInv, OpenTrack
    PROVE  ArtInv'
<1>1. /\ pc = "open" /\ UNCHANGED pics
      /\ \/ /\ last_id' = last_id + 1
            /\ tracks' = With(tracks, last_id', NewTrack(opening.song, opening.lot))
         \/ UNCHANGED tracks
  BY Zenon DEF OpenTrack
<1>2. opening.lot \in Lots \cup {NoLot}
  BY <1>1 DEF TInv, Openings
<1>3. CASE UNCHANGED tracks
  BY <1>1, <1>3, ArtKept DEF Open
<1>4. CASE tracks' = With(tracks, last_id', NewTrack(opening.song, opening.lot))
  <2> DEFINE t == NewTrack(opening.song, opening.lot)
  <2>1. t.art = CachedArt(opening.lot) /\ t.xhdr_lot = opening.lot
    BY DEF NewTrack
  <2>2. ArtRight(t, pictures)
    BY <1>2, <2>1, CacheFinds DEF ArtRight, ArtInv
  <2>3. \A i \in Open' : i = last_id' \/ (i \in Open /\ tracks'[i] = tracks[i])
    BY <1>4 DEF Open, With
  <2>4. tracks'[last_id'] = t
    BY <1>4 DEF With
  <2> HIDE DEF t
  <2>5. \A i \in Open' : ArtRight(tracks'[i], pictures)
    BY <2>2, <2>3, <2>4, Zenon DEF ArtInv
  <2>6. CacheInv'
    BY <1>1 DEF ArtInv, CacheInv, PictureIn, pics
  <2> QED
    BY <1>1, <2>5, <2>6, Zenon DEF ArtInv, pics
<1> QED
  BY <1>1, <1>3, <1>4

\* A picture that arrives goes to the open tracks that still wait for it.
LEMMA OnLotArt ==
    ASSUME TInv, ArtInv, NEW lot \in Lots, OnLot(lot)
    PROVE  ArtInv'
<1> DEFINE n == Len(pictures)
<1>1. pictures \in Seq(Lots) /\ n \in Nat
  BY PicturesType DEF PicturesTyped
<1>2. /\ Len(pictures') = n + 1 /\ pictures'[n + 1] = lot
      /\ \A k \in 1 .. n : pictures'[k] = pictures[k]
  BY <1>1 DEF OnLot
<1> HIDE DEF n
<1>3. CacheInv'
  BY CacheStore DEF ArtInv
<1>4. Open' = Open
  BY OnLotKeeps DEF SameTakes
<1>5. ASSUME NEW i \in Open PROVE ArtRight(tracks'[i], pictures')
  <2>1. tracks[i] \in Track /\ tracks[i].tmp_fp
    BY TracksTyped DEF Open
  <2>2. tracks'[i] = IF tracks[i].art = 0 /\ tracks[i].xhdr_lot = lot
                     THEN [tracks[i] EXCEPT !.art = n + 1] ELSE tracks[i]
    BY <1>2, <2>1 DEF OnLot, Open
  <2>3. /\ tracks[i].art # 0 => tracks[i].art \in 1 .. n /\ pictures[tracks[i].art] = tracks[i].xhdr_lot
        /\ \A k \in 1 .. n :
              k > n - CacheSize /\ pictures[k] = tracks[i].xhdr_lot => tracks[i].art # 0
    BY DEF ArtInv, ArtRight, n
  <2>4. CASE tracks[i].art = 0 /\ tracks[i].xhdr_lot = lot
    <3>1. tracks'[i].art = n + 1 /\ tracks'[i].xhdr_lot = lot
      BY <2>1, <2>2, <2>4 DEF Track
    <3>2. n + 1 # 0 /\ n + 1 \in 1 .. n + 1
      BY <1>1
    <3> QED
      BY <1>2, <3>1, <3>2 DEF ArtRight
  <2>5. CASE tracks[i].art # 0
    <3>1. tracks'[i] = tracks[i]
      BY <2>2, <2>5
    <3>2. tracks[i].art \in 1 .. n + 1 /\ pictures'[tracks[i].art] = tracks[i].xhdr_lot
      BY <1>1, <1>2, <2>3, <2>5
    <3> QED
      BY <1>2, <2>5, <3>1, <3>2 DEF ArtRight
  <2>6. CASE tracks[i].art = 0 /\ tracks[i].xhdr_lot # lot
    <3>1. tracks'[i] = tracks[i]
      BY <2>2, <2>6
    <3>2. ASSUME NEW k \in 1 .. n + 1, k > n + 1 - CacheSize
          PROVE  pictures'[k] # tracks[i].xhdr_lot
      <4>1. CASE k = n + 1
        BY <1>2, <2>6, <4>1
      <4>2. CASE k # n + 1
        <5>1. k \in 1 .. n /\ k > n - CacheSize
          BY <1>1, <3>2, <4>2, RecorderAssumption
        <5> QED
          BY <1>2, <2>3, <2>6, <5>1
      <4> QED
        BY <4>1, <4>2
    <3>3. \A k \in 1 .. Len(pictures') :
             k > Len(pictures') - CacheSize /\ pictures'[k] = tracks'[i].xhdr_lot => tracks'[i].art # 0
      BY <1>1, <1>2, <3>1, <3>2, RecorderAssumption
    <3> QED
      BY <2>6, <3>1, <3>3, Zenon DEF ArtRight
  <2> QED
    BY <2>4, <2>5, <2>6
<1> QED
  BY <1>3, <1>4, <1>5, Zenon DEF ArtInv

LEMMA ArtStep == TInv /\ ArtInv /\ [Next]_vars => ArtInv'
<1> SUFFICES ASSUME TInv, ArtInv, [Next]_vars PROVE ArtInv'
  OBVIOUS
\* No track gets or loses a picture.
<1>0. ASSUME UNCHANGED <<pics, tracks>> PROVE ArtInv'
  BY <1>0, ArtKept DEF Open
<1>1. CASE Create
  BY <1>0, <1>1, Zenon DEF Create
<1>2. CASE OnHdc
  BY <1>2, OnHdcArt
<1>3. CASE Finalize
  <2>1. UNCHANGED pics
    BY <1>3, Zenon DEF Finalize
  <2>2. Open' \subseteq Open /\ \A j \in Open' : tracks'[j] = tracks[j]
    BY <1>3, FinalizedOne
  <2> QED
    BY <2>1, <2>2, ArtKept
<1>4. CASE OpenTrack
  BY <1>4, OpenTrackArt
<1>5. ASSUME NEW s \in Songs, NEW lot \in Lots \cup {NoLot}, OnId3(s, lot) PROVE ArtInv'
  BY <1>5, OnId3Art
<1>6. ASSUME NEW lot \in Lots, OnLot(lot) PROVE ArtInv'
  BY <1>6, OnLotArt
<1>7. ASSUME NEW i \in Id, Worker(i) \/ OrphanExits(i) PROVE ArtInv'
  BY <1>0, <1>7, Zenon DEF Worker, OrphanExits
<1>8. ASSUME NEW clean \in BOOLEAN, Destroy(clean) PROVE ArtInv'
  <2>1. UNCHANGED pics
    BY <1>8, Zenon DEF Destroy
  <2>2. Open' \subseteq Open /\ \A j \in Open' : tracks'[j] = tracks[j]
    BY <1>8, EmptyType DEF Destroy, Open
  <2> QED
    BY <2>1, <2>2, ArtKept
<1>9. CASE Exit \/ Crash
  <2>1. /\ lot_cache_idx' = 0 /\ pictures' = <<>> /\ lot_cache' = EmptyCache /\ tracks' = Empty
    BY <1>9 DEF Exit, Crash, ProcessEnds
  <2>2. \A s \in 0 .. CacheSize - 1 : ~ (PictureIn(s)' > 0)
    BY <2>1, RecorderAssumption DEF PictureIn
  <2>3. CacheInv'
    BY <2>1, <2>2 DEF CacheInv, EmptyCache
  <2>4. Open' = {}
    BY <2>1, EmptyType DEF Open
  <2> QED
    BY <2>3, <2>4 DEF ArtInv
<1>10. CASE UNCHANGED vars
  BY <1>0, <1>10 DEF vars
<1> QED
  BY <1>1, <1>2, <1>3, <1>4, <1>5, <1>6, <1>7, <1>8, <1>9, <1>10, Zenon DEF Next

\* A take embeds no other picture than the one its own ID3 tags announced, and
\* misses none of the CacheSize latest, whichever of picture and announcement
\* came first and however often the cache has wrapped.
THEOREM PictureOfSong == Spec => []ArtOfSong
<1>1. Init => TInv /\ ArtInv
  <2>1. Init => Open = {}
    BY EmptyType DEF Init, Open
  <2> QED
    BY <2>1, TInit, CacheInit DEF ArtInv
<1>2. TInv /\ ArtInv /\ [Next]_vars => (TInv /\ ArtInv)'
  BY TInvStep, ArtStep
<1>3. ArtInv => ArtOfSong
  BY DEF ArtInv, ArtRight, ArtOfSong, ArtIsAnnounced, ArtNotMissed
<1> QED
  BY <1>1, <1>2, <1>3, PTL DEF Spec

-----------------------------------------------------------------------------
(* The temporary files *)

\* What a handler still has to finalize is being written, and no job has the
\* number of a track that is yet to come.
FilesInv ==
    /\ FilesOwned
    /\ todo \subseteq Open
    /\ DOMAIN jobs \subseteq 1 .. last_id

LEMMA FilesInit == Init => FilesInv
BY EmptyType DEF Init, FilesInv, FilesOwned, Open

\* The files are right with the open tracks and the jobs as they are.
Owned ==
    /\ Open \cap DOMAIN jobs = {} /\ tmp_rec \cap staging = {}
    /\ tmp_rec \cup staging = Open \cup DOMAIN jobs
    /\ Open \subseteq tmp_rec
    /\ {i \in DOMAIN jobs : jobs[i].has_art} \subseteq tmp_art

LEMMA FilesKept ==
    ASSUME FilesInv, pc # "down", UNCHANGED <<tmp_rec, staging, tmp_art, jobs, last_id>>,
           Open' = Open, todo' \subseteq Open
    PROVE  FilesInv'
BY DEF FilesInv, FilesOwned

LEMMA FinalizeFiles ==
    ASSUME TInv, FilesInv, Finalize
    PROVE  FilesInv'
<1>1. PICK i \in todo :
              /\ i \in DOMAIN tracks
              /\ HandOver(i) \/ Discard(i)
              /\ todo' = todo \ {i} /\ Open' = Open \ {i}
  BY FinalizedOne, Zenon
<1>2. last_id' = last_id /\ pc # "down"
  BY DEF Finalize
<1>3. Owned /\ todo \subseteq Open /\ DOMAIN jobs \subseteq 1 .. last_id
  BY <1>2, Zenon DEF FilesInv, FilesOwned, Owned
<1>4. i \in Open /\ i \in tmp_rec /\ i \notin staging /\ i \notin DOMAIN jobs /\ i \in 1 .. last_id
  <2>1. i \in todo /\ i \in DOMAIN tracks
    BY <1>1, Zenon
  <2>2. i \in 1 .. last_id
    BY <2>1, TracksTyped, Zenon
  <2> QED
    BY <1>3, <2>1, <2>2 DEF Owned
<1>5. Open' = Open \ {i}
  BY <1>1
<1>6. CASE Discard(i)
  <2>1. Owned'
    BY <1>3, <1>4, <1>5, <1>6 DEF Discard, Owned
  <2> QED
    BY <1>1, <1>2, <1>3, <1>5, <1>6, <2>1 DEF Discard, Owned, FilesInv, FilesOwned
<1>7. CASE HandOver(i)
  <2>1. PICK art \in BOOLEAN, renamed \in BOOLEAN, d \in Resolve(FileName[tracks[i].song]) :
          /\ jobs' = With(jobs, i, [dest |-> d, has_art |-> art,
                                   stage |-> "queued", ok |-> FALSE])
          /\ tmp_art' = IF art THEN tmp_art \cup {i} ELSE tmp_art
          /\ tmp_rec' = IF renamed THEN tmp_rec \ {i} ELSE tmp_rec
          /\ staging' = IF renamed THEN staging \cup {i} ELSE staging
    BY <1>7 DEF HandOver
  <2>2. /\ DOMAIN jobs' = DOMAIN jobs \cup {i}
        /\ jobs'[i].has_art = art
        /\ \A j \in DOMAIN jobs : jobs'[j] = jobs[j]
    BY <1>4, <2>1 DEF With
  <2>3. Owned'
    <3>1. (Open \cap DOMAIN jobs = {} /\ tmp_rec \cap staging = {} /\ Open \subseteq tmp_rec)'
      BY <1>3, <1>4, <1>5, <2>1, <2>2 DEF Owned
    <3>2. (tmp_rec \cup staging = Open \cup DOMAIN jobs)'
      BY <1>3, <1>4, <1>5, <2>1, <2>2 DEF Owned
    <3>3. ({j \in DOMAIN jobs : jobs[j].has_art} \subseteq tmp_art)'
      BY <1>3, <2>1, <2>2 DEF Owned
    <3> QED
      BY <3>1, <3>2, <3>3 DEF Owned
  <2> QED
    BY <1>1, <1>2, <1>3, <1>4, <1>5, <2>2, <2>3 DEF Owned, FilesInv, FilesOwned
<1> QED
  BY <1>1, <1>6, <1>7

LEMMA OpenTrackFiles ==
    ASSUME TInv, FilesInv, OpenTrack
    PROVE  FilesInv'
<1>1. /\ pc = "open" /\ UNCHANGED <<todo, jobs, staging, tmp_art>>
      /\ \/ /\ last_id' = last_id + 1
            /\ tracks' = With(tracks, last_id', NewTrack(opening.song, opening.lot))
            /\ tmp_rec' = tmp_rec \cup {last_id'}
         \/ UNCHANGED <<last_id, tracks, tmp_rec>>
  BY Zenon DEF OpenTrack
<1>2. Owned /\ todo \subseteq Open /\ DOMAIN jobs \subseteq 1 .. last_id /\ last_id \in Nat
      /\ DOMAIN tracks \subseteq 1 .. last_id
  <2>1. last_id \in Nat
    BY RecorderAssumption DEF TInv, TypeOK
  <2> QED
    BY <1>1, <2>1, Zenon DEF FilesInv, FilesOwned, Owned, TInv
<1>3. CASE UNCHANGED <<last_id, tracks, tmp_rec>>
  BY <1>1, <1>2, <1>3, FilesKept DEF Open
<1>4. CASE /\ last_id' = last_id + 1
           /\ tracks' = With(tracks, last_id', NewTrack(opening.song, opening.lot))
           /\ tmp_rec' = tmp_rec \cup {last_id'}
  <2>1. Open' = Open \cup {last_id'}
    <3>1. NewTrack(opening.song, opening.lot).tmp_fp
      BY DEF NewTrack
    <3> HIDE DEF NewTrack
    <3> QED
      BY <1>2, <1>4, <3>1 DEF Open, With
  <2>2. last_id' \notin DOMAIN jobs /\ last_id' \notin tmp_rec /\ last_id' \notin staging
    <3>1. last_id + 1 \notin 1 .. last_id
      BY <1>2
    <3>2. Open \subseteq 1 .. last_id
      BY <1>2 DEF Open
    <3> QED
      BY <1>2, <1>4, <3>1, <3>2 DEF Owned
  <2>3. Owned'
    BY <1>1, <1>2, <1>4, <2>1, <2>2 DEF Owned
  <2>4. todo' \subseteq Open' /\ DOMAIN jobs' \subseteq 1 .. last_id'
    BY <1>1, <1>2, <1>4, <2>1
  <2> QED
    BY <2>3, <2>4 DEF Owned, FilesInv, FilesOwned
<1> QED
  BY <1>1, <1>3, <1>4

LEMMA WorkerFiles ==
    ASSUME TInv, FilesInv, NEW i \in Id, Worker(i)
    PROVE  FilesInv'
<1>1. i \in DOMAIN jobs /\ UNCHANGED <<pc, todo, tracks, last_id>> /\ Open' = Open
  BY DEF Worker, Open
<1>2. pc # "down"
  BY <1>1, EmptyType DEF TInv
<1>3. Owned /\ todo \subseteq Open /\ DOMAIN jobs \subseteq 1 .. last_id
      /\ jobs \in [DOMAIN jobs -> Job]
  BY <1>2, Zenon DEF FilesInv, FilesOwned, Owned, TInv, TypeOK
<1>4. CASE ForkFfmpeg(i) \/ NoFfmpeg(i) \/ FfmpegExits(i) \/ Verify(i)
  <2>1. /\ DOMAIN jobs' = DOMAIN jobs /\ \A j \in DOMAIN jobs : jobs'[j].has_art = jobs[j].has_art
        /\ UNCHANGED <<tmp_rec, staging, tmp_art>>
    <3>1. jobs[i] \in Job
      BY <1>1, <1>3
    <3>2. UNCHANGED <<tmp_rec, staging, tmp_art>>
      BY <1>4, Zenon DEF ForkFfmpeg, NoFfmpeg, FfmpegExits, Verify
    <3>3. DOMAIN jobs' = DOMAIN jobs /\ \A j \in DOMAIN jobs : jobs'[j].has_art = jobs[j].has_art
      BY <1>1, <1>3, <1>4, <3>1 DEF ForkFfmpeg, NoFfmpeg, FfmpegExits, Verify, Job
    <3> QED
      BY <3>2, <3>3
  <2>2. Owned'
    BY <1>1, <1>3, <2>1 DEF Owned
  <2> QED
    BY <1>1, <1>3, <2>1, <2>2 DEF Owned, FilesInv, FilesOwned
<1>5. CASE Cleanup(i)
  <2>1. /\ jobs' = Without(jobs, i) /\ tmp_rec' = tmp_rec \ {i} /\ staging' = staging \ {i}
        /\ tmp_art' = IF jobs[i].has_art THEN tmp_art \ {i} ELSE tmp_art
    BY <1>5 DEF Cleanup
  <2>2. DOMAIN jobs' = DOMAIN jobs \ {i} /\ \A j \in DOMAIN jobs \ {i} : jobs'[j] = jobs[j]
    BY <2>1 DEF Without
  <2>3. i \notin Open
    BY <1>1, <1>3 DEF Owned
  <2>4. Owned'
    BY <1>1, <1>3, <2>1, <2>2, <2>3 DEF Owned
  <2> QED
    BY <1>1, <1>3, <2>2, <2>4 DEF Owned, FilesInv, FilesOwned
<1> QED
  BY <1>4, <1>5 DEF Worker

LEMMA DestroyFiles ==
    ASSUME TInv, FilesInv, NEW clean \in BOOLEAN, Destroy(clean)
    PROVE  FilesInv'
<1>1. pc = "idle" /\ UNCHANGED <<jobs, staging, tmp_art, last_id>> /\ pc' # "down"
  BY DEF Destroy
<1>2. Owned /\ todo \subseteq Open /\ DOMAIN jobs \subseteq 1 .. last_id
  BY <1>1, Zenon DEF FilesInv, FilesOwned, Owned
<1>3. todo = {}
  BY <1>1 DEF TInv, Handling
<1>4. CASE clean
  <2>1. tmp_rec' = tmp_rec /\ todo' = Open /\ tracks' = [i \in Open |-> tracks[i]]
    BY <1>4 DEF Destroy
  <2>2. Open' = Open
    BY <2>1 DEF Open
  <2> QED
    BY <1>1, <1>2, <2>1, <2>2, FilesKept
<1>5. CASE ~clean
  <2>1. tmp_rec' = tmp_rec \ Open /\ todo' = {} /\ tracks' = Empty
    BY <1>3, <1>5 DEF Destroy
  <2>2. Open' = {}
    BY <2>1, EmptyType DEF Open
  <2>3. Owned'
    BY <1>1, <1>2, <2>1, <2>2 DEF Owned
  <2> QED
    BY <1>1, <1>2, <2>1, <2>3 DEF Owned, FilesInv, FilesOwned
<1> QED
  BY <1>4, <1>5

LEMMA FilesStep == TInv /\ FilesInv /\ [Next]_vars => FilesInv'
<1> SUFFICES ASSUME TInv, FilesInv, [Next]_vars PROVE FilesInv'
  OBVIOUS
\* The files and their owners stay as they are.
<1>0. ASSUME UNCHANGED <<tmp_rec, staging, tmp_art, jobs, last_id>>, Open' = Open, todo' \subseteq Open,
             pc = "down" => pc' = "down"
      PROVE  FilesInv'
  BY <1>0 DEF FilesInv, FilesOwned
<1>1. CASE Create
  <2>1. pc = "down" /\ tmp_rec' = {} /\ staging' = {} /\ UNCHANGED <<tracks, jobs, todo, last_id>>
    BY <1>1, Zenon DEF Create
  <2>2. tracks = Empty /\ jobs = Empty
    BY <2>1, Zenon DEF TInv
  <2>3. Open' = {} /\ Open = {} /\ DOMAIN jobs' = {}
    BY <2>1, <2>2, EmptyType DEF Open
  <2> QED
    BY <2>1, <2>3 DEF FilesInv, FilesOwned
<1>2. CASE OnHdc
  <2>1. UNCHANGED <<temps, jobs, last_id>> /\ todo' \subseteq Open /\ pc = "idle"
    BY <1>2 DEF OnHdc
  <2> QED
    BY <1>0, <1>2, <2>1, FrameKeeps DEF temps
<1>3. CASE Finalize
  BY <1>3, FinalizeFiles
<1>4. CASE OpenTrack
  BY <1>4, OpenTrackFiles
<1>5. ASSUME NEW s \in Songs, NEW lot \in Lots \cup {NoLot}, OnId3(s, lot) PROVE FilesInv'
  <2>1. UNCHANGED <<temps, jobs, last_id>> /\ pc = "idle"
    BY <1>5, Zenon DEF OnId3
  <2>2. todo = {}
    BY <2>1 DEF TInv, Handling
  <2>3. Open' = Open /\ todo' \subseteq Open
    <3>1. CASE UNCHANGED <<pc, todo, opening, tracks>>
      BY <2>2, <3>1 DEF Open
    <3>2. CASE NotPostroll # {} /\ RepeatTag(lot)
      BY <2>2, <3>2, RepeatKeeps DEF RepeatTag, SameTakes
    <3>3. CASE StartNewSong(s, lot)
      <4>1. CASE NotPostroll # {} /\ PostrollOn
        BY <2>2, <3>3, <4>1, StartsPostroll
      <4>2. CASE ~(NotPostroll # {} /\ PostrollOn)
        BY <2>2, <3>3, <4>2 DEF StartNewSong, Open
      <4> QED
        BY <4>1, <4>2
    <3> QED
      BY <1>5, <3>1, <3>2, <3>3, Zenon DEF OnId3
  <2> QED
    BY <1>0, <2>1, <2>3 DEF temps
<1>6. ASSUME NEW lot \in Lots, OnLot(lot) PROVE FilesInv'
  <2>1. UNCHANGED <<temps, jobs, last_id, event>> /\ pc = "idle"
    BY <1>6, Zenon DEF OnLot
  <2>2. Open' = Open
    BY <1>6, OnLotKeeps DEF SameTakes
  <2> QED
    BY <1>0, <2>1, <2>2 DEF temps, event, FilesInv
<1>7. ASSUME NEW i \in Id, Worker(i) PROVE FilesInv'
  BY <1>7, WorkerFiles
<1>8. ASSUME NEW i \in Id, OrphanExits(i) PROVE FilesInv'
  BY <1>0, <1>8 DEF OrphanExits, temps, event, FilesInv, Open
<1>9. ASSUME NEW clean \in BOOLEAN, Destroy(clean) PROVE FilesInv'
  BY <1>9, DestroyFiles
<1>10. CASE Exit \/ Crash
  <2>1. pc' = "down" /\ todo' = {} /\ jobs' = Empty
    BY <1>10 DEF Exit, Crash, ProcessEnds
  <2> QED
    BY <2>1, EmptyType DEF FilesInv, FilesOwned
<1>11. CASE UNCHANGED vars
  BY <1>0, <1>11 DEF vars, temps, event, FilesInv, Open
<1> QED
  BY <1>1, <1>2, <1>3, <1>4, <1>5, <1>6, <1>7, <1>8, <1>9, <1>10, <1>11, Zenon DEF Next

\* While the process lives every temporary file belongs to one track being
\* written or to one job that will unlink it, and none of them is without its
\* file: whatever the workers do meanwhile, and whichever calls fail.
THEOREM EveryFileOwned == Spec => []FilesOwned
<1>1. Init => TInv /\ FilesInv
  BY TInit, FilesInit
<1>2. TInv /\ FilesInv /\ [Next]_vars => (TInv /\ FilesInv)'
  BY TInvStep, FilesStep
<1>3. FilesInv => FilesOwned
  BY Zenon DEF FilesInv
<1> QED
  BY <1>1, <1>2, <1>3, PTL DEF Spec

-----------------------------------------------------------------------------
(* The takes *)

\* A track that records its body is the newest of all; when the next one is
\* about to be opened nobody does, once the handler has finalized the last.
TakesInv ==
    /\ TakesGapless /\ SongsDisjoint
    /\ \A i \in Open : ~tracks[i].is_postroll => \A j \in DOMAIN tracks : j <= i
    /\ pc = "open" => \A i \in Open : tracks[i].is_postroll
    /\ pc = "split" => \A i \in Open \ todo : tracks[i].is_postroll

LEMMA NoTakes == Open = {} => TakesInv
BY DEF TakesInv, TakesGapless, SongsDisjoint

\* A run of the broadcast up to frame c, and frame c + 1 after it.
LEMMA RunGrows ==
    ASSUME NEW n \in Nat, NEW c \in Nat, NEW f, f = [k \in 1 .. n |-> c - n + k]
    PROVE  /\ Len(f) = n
           /\ Append(f, c + 1) = [k \in 1 .. n + 1 |-> (c + 1) - (n + 1) + k]
           /\ Len(Append(f, c + 1)) = n + 1
<1>1. f \in Seq(Int) /\ Len(f) = n
  OBVIOUS
<1> DEFINE g == Append(f, c + 1)
<1>2. g \in Seq(Int) /\ Len(g) = n + 1 /\ DOMAIN g = 1 .. n + 1
  BY <1>1
<1>3. ASSUME NEW k \in 1 .. n + 1 PROVE g[k] = (c + 1) - (n + 1) + k
  <2>1. CASE k = n + 1
    BY <1>1, <2>1
  <2>2. CASE k # n + 1
    <3>1. k \in 1 .. n
      BY <2>2
    <3> QED
      BY <1>1, <3>1
  <2> QED
    BY <2>1, <2>2
<1>4. g = [k \in 1 .. n + 1 |-> g[k]]
  <2> HIDE DEF g
  <2> QED
    BY <1>2
<1> HIDE DEF g
<1> QED
  BY <1>1, <1>2, <1>3, <1>4 DEF g

\* No frame comes, no track is opened, and none goes back from its post-roll.
LEMMA TakesKept ==
    ASSUME TInv, TakesInv, clock' = clock, Open' \subseteq Open,
           DOMAIN tracks' \subseteq DOMAIN tracks,
           \A i \in Open' :
              /\ tracks'[i].file = tracks[i].file
              /\ tracks'[i].packets_preroll = tracks[i].packets_preroll
              /\ tracks'[i].packets_body = tracks[i].packets_body
              /\ tracks'[i].packets_postroll = tracks[i].packets_postroll
              /\ tracks[i].is_postroll => tracks'[i].is_postroll,
           pc' = "open" => \A i \in Open' : tracks'[i].is_postroll,
           pc' = "split" => \A i \in Open' \ todo' : tracks'[i].is_postroll
    PROVE  TakesInv'
<1>1. TakesGapless'
  BY DEF TakesInv, TakesGapless, Packets
<1>2. SongsDisjoint'
  <2> SUFFICES ASSUME NEW i \in Open', NEW j \in Open', i < j
               PROVE  /\ tracks'[i].is_postroll
                      /\ tracks'[i].packets_postroll >=
                           tracks'[j].packets_body + tracks'[j].packets_postroll
    BY DEF SongsDisjoint
  <2>1. i \in Open /\ j \in Open
    OBVIOUS
  <2>2. /\ tracks[i].is_postroll
        /\ tracks[i].packets_postroll >= tracks[j].packets_body + tracks[j].packets_postroll
    BY <2>1 DEF TakesInv, SongsDisjoint
  <2> QED
    BY <2>1, <2>2
<1>3. \A i \in Open' : ~tracks'[i].is_postroll => \A j \in DOMAIN tracks' : j <= i
  BY DEF TakesInv
<1> QED
  BY <1>1, <1>2, <1>3 DEF TakesInv

LEMMA OnHdcTakes ==
    ASSUME TInv, TakesInv, OnHdc
    PROVE  TakesInv'
<1>1. clock' = clock + 1 /\ clock \in Nat /\ pc' \in {"idle", "feed"}
  BY TracksTyped DEF OnHdc
<1>3. Open' = Open /\ DOMAIN tracks' = DOMAIN tracks
  BY FrameKeeps
<1>4. ASSUME NEW i \in Open
      PROVE  /\ tracks[i] \in Track /\ tracks'[i].is_postroll = tracks[i].is_postroll
             /\ tracks'[i].file = Append(tracks[i].file, clock + 1)
             /\ tracks'[i].packets_preroll = tracks[i].packets_preroll
             /\ tracks[i].is_postroll =>
                  /\ tracks'[i].packets_body = tracks[i].packets_body
                  /\ tracks'[i].packets_postroll = tracks[i].packets_postroll + 1
             /\ ~tracks[i].is_postroll =>
                  /\ tracks'[i].packets_body = tracks[i].packets_body + 1
                  /\ tracks'[i].packets_postroll = tracks[i].packets_postroll
  BY <1>1, FrameTaken, Zenon
<1>5. TakesGapless'
  <2> SUFFICES ASSUME NEW i \in Open
               PROVE  /\ Len(tracks'[i].file) = Packets(tracks'[i])
                      /\ tracks'[i].file = [k \in 1 .. Len(tracks'[i].file) |->
                                              clock' - Len(tracks'[i].file) + k]
    BY <1>3, Zenon DEF TakesGapless
  <2> DEFINE n == Len(tracks[i].file)
  <2>1. /\ n = Packets(tracks[i]) /\ tracks[i].file = [k \in 1 .. n |-> clock - n + k]
        /\ tracks[i] \in Track /\ n \in Nat
    BY <1>4 DEF TakesInv, TakesGapless, Track
  <2>2. Packets(tracks'[i]) = Packets(tracks[i]) + 1
    <3>1. /\ tracks[i].packets_preroll \in Nat /\ tracks[i].packets_body \in Nat
          /\ tracks[i].packets_postroll \in Nat
      BY <2>1, Zenon DEF Track
    <3>2. tracks'[i].packets_preroll = tracks[i].packets_preroll
      BY <1>4, Zenon
    <3>3. \/ /\ tracks'[i].packets_body = tracks[i].packets_body
             /\ tracks'[i].packets_postroll = tracks[i].packets_postroll + 1
          \/ /\ tracks'[i].packets_body = tracks[i].packets_body + 1
             /\ tracks'[i].packets_postroll = tracks[i].packets_postroll
      BY <1>4, Zenon
    <3> QED
      BY <3>1, <3>2, <3>3 DEF Packets
  <2>3. /\ Len(tracks'[i].file) = n + 1
        /\ tracks'[i].file = [k \in 1 .. n + 1 |-> (clock + 1) - (n + 1) + k]
    <3> DEFINE f == tracks[i].file
    <3>1. tracks'[i].file = Append(f, clock + 1) /\ f = [k \in 1 .. n |-> clock - n + k]
      BY <1>4, <2>1
    <3>2. clock \in Nat /\ n \in Nat
      BY <1>1, <2>1
    <3> HIDE DEF n, f
    <3>3. /\ Append(f, clock + 1) = [k \in 1 .. n + 1 |-> (clock + 1) - (n + 1) + k]
          /\ Len(Append(f, clock + 1)) = n + 1
      BY <3>1, <3>2, RunGrows
    <3> QED
      BY <3>1, <3>3, Zenon
  <2> HIDE DEF n
  <2> QED
    BY <1>1, <2>1, <2>2, <2>3
<1>6. SongsDisjoint'
  <2> SUFFICES ASSUME NEW i \in Open, NEW j \in Open, i < j
               PROVE  /\ tracks'[i].is_postroll
                      /\ tracks'[i].packets_postroll >=
                           tracks'[j].packets_body + tracks'[j].packets_postroll
    BY <1>3 DEF SongsDisjoint
  <2>1. /\ tracks[i].is_postroll
        /\ tracks[i].packets_postroll >= tracks[j].packets_body + tracks[j].packets_postroll
    BY DEF TakesInv, SongsDisjoint
  <2>2. /\ tracks[i].packets_postroll \in Nat
        /\ tracks[j].packets_body \in Nat /\ tracks[j].packets_postroll \in Nat
    BY <1>4 DEF Track
  <2>3. tracks'[i].is_postroll /\ tracks'[i].packets_postroll = tracks[i].packets_postroll + 1
    BY <1>4, <2>1
  <2>4. tracks'[j].packets_body + tracks'[j].packets_postroll =
          tracks[j].packets_body + tracks[j].packets_postroll + 1
    <3>1. \/ /\ tracks'[j].packets_body = tracks[j].packets_body
             /\ tracks'[j].packets_postroll = tracks[j].packets_postroll + 1
          \/ /\ tracks'[j].packets_body = tracks[j].packets_body + 1
             /\ tracks'[j].packets_postroll = tracks[j].packets_postroll
      BY <1>4, Zenon
    <3> QED
      BY <2>2, <3>1
  <2> QED
    BY <2>1, <2>2, <2>3, <2>4
<1>7. \A i \in Open' : ~tracks'[i].is_postroll => \A j \in DOMAIN tracks' : j <= i
  BY <1>3, <1>4 DEF TakesInv
<1>8. pc' # "open" /\ pc' # "split"
  BY <1>1
<1> QED
  BY <1>5, <1>6, <1>7, <1>8 DEF TakesInv

LEMMA FinalizeTakes ==
    ASSUME TInv, TakesInv, FilesInv, Finalize
    PROVE  TakesInv'
<1>1. PICK i \in todo :
              /\ i \in DOMAIN tracks /\ todo' = todo \ {i} /\ Open' = Open \ {i}
              /\ DOMAIN tracks' \subseteq DOMAIN tracks
              /\ \A j \in Open \ {i} : tracks'[j] = tracks[j]
  BY FinalizedOne, Zenon
<1>2. /\ clock' = clock /\ pc \in {"feed", "split", "close"}
      /\ pc' = "split" => pc = "split"
      /\ pc' = "open" => pc = "split" /\ todo' = {}
  BY FinalizeMoves
<1>3. /\ Open' = Open \ {i} /\ DOMAIN tracks' \subseteq DOMAIN tracks
      /\ \A j \in Open \ {i} : tracks'[j] = tracks[j]
  BY <1>1
<1>4. pc = "split" => \A j \in Open' \ todo' : tracks'[j].is_postroll
  BY <1>1, <1>3 DEF TakesInv
<1> QED
  BY <1>2, <1>3, <1>4, TakesKept

LEMMA OnId3Takes ==
    ASSUME TInv, TakesInv, NEW s \in Songs, NEW lot \in Lots \cup {NoLot}, OnId3(s, lot)
    PROVE  TakesInv'
<1>1. /\ pc = "idle" /\ clock' = clock
      /\ \/ NotPostroll # {} /\ RepeatTag(lot)
         \/ StartNewSong(s, lot)
         \/ UNCHANGED <<pc, todo, opening, tracks>>
  BY Zenon DEF OnId3
<1>2. /\ tracks \in [DOMAIN tracks -> Track] /\ last_id \in Nat
      /\ NotPostroll \in SUBSET (1 .. last_id) /\ Open \subseteq 1 .. last_id
  BY TracksTyped DEF NotPostroll, Open
\* Of the tracks that are being written only the primary one is not in its
\* post-roll, for it is the newest.
<1>3. ASSUME NEW i \in Open, ~tracks[i].is_postroll
      PROVE  NotPostroll # {} /\ i = Primary
  <2>1. i \in NotPostroll
    BY <1>3 DEF Open, NotPostroll
  <2>2. Primary \in NotPostroll /\ i <= Primary
    BY <1>2, <2>1, NewestIn DEF Primary
  <2>3. Primary <= i
    BY <1>3, <2>2 DEF TakesInv, NotPostroll
  <2>4. Primary \in 1 .. last_id /\ i \in 1 .. last_id
    BY <1>2, <2>1, <2>2
  <2> QED
    BY <1>2, <2>1, <2>2, <2>3, <2>4
<1>4. CASE UNCHANGED <<pc, todo, opening, tracks>>
  BY <1>1, <1>4, TakesKept DEF Open
<1>5. CASE NotPostroll # {} /\ RepeatTag(lot)
  <2>1. pc' = "idle" /\ SameTakes
    BY <1>1, <1>5, RepeatKeeps DEF RepeatTag
  <2>2. Open \subseteq DOMAIN tracks
    BY DEF Open
  <2> QED
    BY <1>1, <2>1, <2>2, TakesKept DEF SameTakes, SameAudio
<1>6. CASE StartNewSong(s, lot)
  <2>1. CASE NotPostroll = {}
    <3>1. pc' = "open" /\ tracks' = tracks
      BY <1>6, <2>1 DEF StartNewSong
    <3> QED
      BY <1>1, <1>3, <2>1, <3>1, TakesKept DEF Open
  <2>2. CASE NotPostroll # {} /\ PostrollOn
    <3>1. /\ pc' = "open" /\ DOMAIN tracks' = DOMAIN tracks /\ Open' = Open
          /\ \A i \in DOMAIN tracks : i # Primary => tracks'[i] = tracks[i]
          /\ tracks'[Primary].is_postroll
          /\ tracks'[Primary].file = tracks[Primary].file
          /\ tracks'[Primary].packets_preroll = tracks[Primary].packets_preroll
          /\ tracks'[Primary].packets_body = tracks[Primary].packets_body
          /\ tracks'[Primary].packets_postroll = tracks[Primary].packets_postroll
      BY <1>6, <2>2, StartsPostroll
    <3>2. \A i \in Open :
             /\ tracks'[i].file = tracks[i].file
             /\ tracks'[i].packets_preroll = tracks[i].packets_preroll
             /\ tracks'[i].packets_body = tracks[i].packets_body
             /\ tracks'[i].packets_postroll = tracks[i].packets_postroll
             /\ tracks'[i].is_postroll
      BY <1>3, <3>1 DEF Open
    <3> QED
      BY <1>1, <3>1, <3>2, TakesKept
  <2>3. CASE NotPostroll # {} /\ ~PostrollOn
    <3>1. /\ todo' = {Primary} \cap Open /\ tracks' = tracks
          /\ pc' = IF todo' = {} THEN "open" ELSE "split"
      BY <1>6, <2>3 DEF StartNewSong
    <3>2. \A i \in Open \ todo' : tracks[i].is_postroll
      BY <1>3, <3>1
    <3>3. Open' = Open
      BY <3>1 DEF Open
    <3> QED
      BY <1>1, <3>1, <3>2, <3>3, TakesKept
  <2> QED
    BY <2>1, <2>2, <2>3
<1> QED
  BY <1>1, <1>4, <1>5, <1>6

LEMMA OpenTrackTakes ==
    ASSUME TInv, TakesInv, RingInv, OpenTrack
    PROVE  TakesInv'
<1>1. /\ pc = "open" /\ pc' = "idle" /\ clock' = clock
      /\ \/ /\ last_id' = last_id + 1
            /\ tracks' = With(tracks, last_id', NewTrack(opening.song, opening.lot))
         \/ tracks' = tracks
  BY DEF OpenTrack
<1>2. /\ tracks \in [DOMAIN tracks -> Track] /\ last_id \in Nat /\ clock \in Nat
      /\ DOMAIN tracks \subseteq 1 .. last_id
  BY TracksTyped
<1>3. CASE tracks' = tracks
  BY <1>1, <1>3, TakesKept DEF Open
<1>4. CASE /\ last_id' = last_id + 1
           /\ tracks' = With(tracks, last_id', NewTrack(opening.song, opening.lot))
  <2> DEFINE t == NewTrack(opening.song, opening.lot)
             n == preroll_count
  <2>1. /\ t.tmp_fp /\ t.file = PrerollFramesHeld /\ t.packets_preroll = n
        /\ t.packets_body = 0 /\ t.packets_postroll = 0
    BY DEF NewTrack
  <2>2. t.file = [k \in 1 .. n |-> clock - n + k] /\ n \in Nat
    <3>1. RingHoldsLatest /\ n \in Nat
      BY RingReadsInOrder, RecorderAssumption DEF TInv, TypeOK
    <3> QED
      BY <2>1, <3>1 DEF RingHoldsLatest
  <2>3. Len(t.file) = n /\ n = Packets(t)
    BY <2>1, <2>2 DEF Packets
  <2> HIDE DEF t, n
  <2>4. /\ last_id' \notin DOMAIN tracks /\ DOMAIN tracks' = DOMAIN tracks \cup {last_id'}
        /\ tracks'[last_id'] = t /\ \A i \in DOMAIN tracks : tracks'[i] = tracks[i]
    <3>1. last_id' \notin DOMAIN tracks
      BY <1>2, <1>4
    <3> QED
      BY <1>4, <3>1 DEF With, t
  <2>5. Open' = Open \cup {last_id'} /\ \A i \in Open : tracks'[i] = tracks[i]
    BY <2>1, <2>4 DEF Open
  <2>6. \A i \in Open : tracks[i].is_postroll /\ i < last_id' /\ tracks[i] \in Track /\ i \in 1 .. last_id
    BY <1>1, <1>2, <1>4 DEF TakesInv, Open
  <2>7. TakesGapless'
    <3> SUFFICES ASSUME NEW i \in Open'
                 PROVE  /\ Len(tracks'[i].file) = Packets(tracks'[i])
                        /\ tracks'[i].file = [k \in 1 .. Len(tracks'[i].file) |->
                                                clock - Len(tracks'[i].file) + k]
      BY <1>1 DEF TakesGapless
    <3>1. CASE i = last_id'
      BY <2>2, <2>3, <2>4, <3>1
    <3>2. CASE i \in Open
      BY <2>5, <3>2 DEF TakesInv, TakesGapless
    <3> QED
      BY <2>5, <3>1, <3>2
  <2>8. SongsDisjoint'
    <3> SUFFICES ASSUME NEW i \in Open', NEW j \in Open', i < j
                 PROVE  /\ tracks'[i].is_postroll
                        /\ tracks'[i].packets_postroll >=
                             tracks'[j].packets_body + tracks'[j].packets_postroll
      BY DEF SongsDisjoint
    <3>1. i \in Open
      BY <1>2, <1>4, <2>5, <2>6
    <3>2. CASE j \in Open
      BY <2>5, <3>1, <3>2 DEF TakesInv, SongsDisjoint
    <3>3. CASE j = last_id'
      <4>1. tracks[i].packets_postroll \in Nat
        BY <2>6, <3>1 DEF Track
      <4> QED
        BY <2>1, <2>4, <2>5, <2>6, <3>1, <3>3, <4>1
    <3> QED
      BY <2>5, <3>2, <3>3
  <2>9. \A i \in Open' : ~tracks'[i].is_postroll => \A j \in DOMAIN tracks' : j <= i
    <3>1. \A j \in DOMAIN tracks' : j <= last_id'
      BY <1>2, <1>4, <2>4
    <3> QED
      BY <2>5, <2>6, <3>1
  <2> QED
    BY <1>1, <2>7, <2>8, <2>9 DEF TakesInv
<1> QED
  BY <1>1, <1>3, <1>4

LEMMA TakesStep == TInv /\ FilesInv /\ RingInv /\ TakesInv /\ [Next]_vars => TakesInv'
<1> SUFFICES ASSUME TInv, FilesInv, RingInv, TakesInv, [Next]_vars PROVE TakesInv'
  OBVIOUS
<1>0. CASE UNCHANGED <<pc, todo, tracks, clock>>
  BY <1>0, TakesKept DEF Open, TakesInv
<1>1. CASE Create
  <2>1. tracks' = tracks /\ tracks = Empty
    BY <1>1, Zenon DEF Create, TInv
  <2>2. Open' = {}
    BY <2>1, EmptyType DEF Open
  <2> QED
    BY <2>2 DEF TakesInv, TakesGapless, SongsDisjoint
<1>2. CASE OnHdc
  BY <1>2, OnHdcTakes
<1>3. CASE Finalize
  BY <1>3, FinalizeTakes
<1>4. CASE OpenTrack
  BY <1>4, OpenTrackTakes
<1>5. ASSUME NEW s \in Songs, NEW lot \in Lots \cup {NoLot}, OnId3(s, lot) PROVE TakesInv'
  BY <1>5, OnId3Takes
<1>6. ASSUME NEW lot \in Lots, OnLot(lot) PROVE TakesInv'
  <2>1. pc = "idle" /\ pc' = pc /\ clock' = clock /\ Open \subseteq DOMAIN tracks
    BY <1>6 DEF OnLot, event, Open
  <2> QED
    BY <1>6, <2>1, OnLotKeeps, TakesKept DEF SameTakes, SameAudio
<1>7. ASSUME NEW i \in Id, Worker(i) \/ OrphanExits(i) PROVE TakesInv'
  BY <1>0, <1>7, Zenon DEF Worker, OrphanExits, event
<1>8. ASSUME NEW clean \in BOOLEAN, Destroy(clean) PROVE TakesInv'
  <2>1. clock' = clock /\ pc' \in {"close", "exit"}
    BY <1>8 DEF Destroy
  <2>2. CASE clean
    <3>1. tracks' = [i \in Open |-> tracks[i]]
      BY <1>8, <2>2 DEF Destroy
    <3>2. DOMAIN tracks' \subseteq DOMAIN tracks /\ Open' = Open /\ \A i \in Open : tracks'[i] = tracks[i]
      BY <3>1 DEF Open
    <3> QED
      BY <2>1, <3>2, TakesKept
  <2>3. CASE ~clean
    <3>1. tracks' = Empty
      BY <1>8, <2>3 DEF Destroy
    <3>2. Open' = {}
      BY <3>1, EmptyType DEF Open
    <3> QED
      BY <3>2 DEF TakesInv, TakesGapless, SongsDisjoint
  <2> QED
    BY <2>2, <2>3
<1>9. CASE Exit \/ Crash
  <2>1. tracks' = Empty
    BY <1>9 DEF Exit, Crash, ProcessEnds
  <2>2. Open' = {}
    BY <2>1, EmptyType DEF Open
  <2> QED
    BY <2>2 DEF TakesInv, TakesGapless, SongsDisjoint
<1>10. CASE UNCHANGED vars
  BY <1>0, <1>10 DEF vars, event
<1> QED
  BY <1>1, <1>2, <1>3, <1>4, <1>5, <1>6, <1>7, <1>8, <1>9, <1>10, Zenon DEF Next

\* Every take is a gapless piece of the broadcast up to the latest frame, and
\* the songs of overlapping takes do not overlap: for every length of the
\* pre-roll and of the post-roll, and every order of frames and tags.
THEOREM TakesArePieces == Spec => []TakesOfBroadcast
<1>1. Init => TInv /\ FilesInv /\ RingInv /\ TakesInv
  <2>1. Init => Open = {}
    BY EmptyType DEF Init, Open
  <2> QED
    BY <2>1, TInit, FilesInit, RingInit, NoTakes
<1>2. TInv /\ FilesInv /\ RingInv /\ TakesInv /\ [Next]_vars => (TInv /\ FilesInv /\ RingInv /\ TakesInv)'
  BY TInvStep, FilesStep, RingStep, TakesStep
<1>3. TakesInv => TakesOfBroadcast
  BY Zenon DEF TakesInv, TakesOfBroadcast
<1> QED
  BY <1>1, <1>2, <1>3, PTL DEF Spec

-----------------------------------------------------------------------------
(* The archive *)

\* The file at d is of a take handed over before.
FileRight(d) == archive[d].take \in (1 .. last_id) \ Open

\* Worker i has written its file and will not touch it again.
Through(i) ==
    /\ i = archive[DestOf(i)].take /\ i \in DOMAIN jobs
    /\ (jobs[i].stage = "exited" /\ jobs[i].ok) \/ jobs[i].stage = "cleanup"

\* A worker whose destination holds a whole file is a rival of that file, or
\* was given, as a last resort, the name of another take's, or the file is its
\* own and done.
WorkerRight(i) ==
    DestOf(i) \in DOMAIN archive /\ archive[DestOf(i)].whole =>
        \/ i \in archive[DestOf(i)].rivals
        \/ DestOf(i)[2] \in LastResort /\ i # archive[DestOf(i)].take
        \/ Through(i)

SettleInv ==
    /\ DOMAIN orphans \subseteq 1 .. last_id
    /\ DOMAIN orphans \cap (DOMAIN jobs \cup Open) = {}
    /\ \A d \in DOMAIN archive : FileRight(d)
    /\ \A i \in Workers : WorkerRight(i)

LEMMA SettleInit == Init => SettleInv
BY EmptyType DEF Init, SettleInv, Workers

\* What the lemmas below need of the other invariants.
LEMMA ArchiveFacts ==
    ASSUME TInv, FilesInv
    PROVE  /\ last_id \in Nat /\ DOMAIN jobs \subseteq 1 .. last_id /\ Open \cap DOMAIN jobs = {}
           /\ jobs \in [DOMAIN jobs -> Job] /\ orphans \in [DOMAIN orphans -> Dests]
           /\ archive \in [DOMAIN archive -> Take] /\ Open \subseteq 1 .. last_id
<1>1. JobsType /\ OrphansType /\ DiskType
  BY TypeParts, Zenon DEF TInv
<1>2. last_id \in Nat /\ DOMAIN tracks \subseteq 1 .. last_id
  BY TracksTyped
<1>3. Open \cap DOMAIN jobs = {}
  BY EmptyType DEF FilesInv, FilesOwned, TInv
<1>4. Open \subseteq 1 .. last_id
  BY <1>2 DEF Open
<1> QED
  BY <1>1, <1>2, <1>3, <1>4, Zenon DEF JobsType, OrphansType, DiskType, Take, FilesInv

\* The event thread opens and closes tracks; the workers stay where they are.
LEMMA SettleKept ==
    ASSUME TInv, SettleInv, UNCHANGED <<jobs, orphans, archive>>,
           \/ last_id' = last_id /\ Open' \subseteq Open
           \/ last_id' = last_id + 1 /\ Open' \subseteq Open \cup {last_id'}
    PROVE  SettleInv'
<1>1. last_id \in Nat /\ \A k \in 1 .. last_id : k \in 1 .. last_id' /\ k # last_id + 1
  BY TracksTyped
<1>2. DOMAIN orphans \subseteq 1 .. last_id /\ DOMAIN jobs \subseteq Id
  BY TypeParts DEF SettleInv, TInv, JobsType
<1>3. Workers' = Workers /\ \A i : DestOf(i)' = DestOf(i)
  BY DEF Workers, DestOf
<1>4. \A i \in Workers' : WorkerRight(i)'
  BY <1>3 DEF SettleInv, WorkerRight, Through
<1>5. \A d \in DOMAIN archive' : FileRight(d)'
  BY <1>1 DEF SettleInv, FileRight
<1>6. DOMAIN orphans' \subseteq 1 .. last_id' /\ DOMAIN orphans' \cap (DOMAIN jobs' \cup Open') = {}
  BY <1>1, <1>2 DEF SettleInv
<1> QED
  BY <1>4, <1>5, <1>6 DEF SettleInv

LEMMA FinalizeSettle ==
    ASSUME TInv, FilesInv, SettleInv, Finalize
    PROVE  SettleInv'
<1>1. PICK i \in todo : HandOver(i) \/ Discard(i)
  BY FinalizedOne, Zenon
<1>2. UNCHANGED <<orphans, archive, last_id>> /\ Open' \subseteq Open
  <2>1. Open' \subseteq Open
    BY FinalizedOne
  <2> QED
    BY <2>1, Zenon DEF Finalize, disk
<1>3. i \in Open /\ i \in 1 .. last_id /\ i \notin DOMAIN jobs /\ i \notin DOMAIN orphans
  BY ArchiveFacts DEF FilesInv, SettleInv
<1>4. CASE Discard(i)
  BY <1>2, <1>4, SettleKept DEF Discard
<1>5. CASE HandOver(i)
  <2>1. PICK art \in BOOLEAN, d \in Resolve(FileName[tracks[i].song]) :
          jobs' = With(jobs, i, [dest |-> d, has_art |-> art, stage |-> "queued", ok |-> FALSE])
    BY <1>5 DEF HandOver
  <2>2. d \in DOMAIN archive => d[2] \in LastResort /\ i # archive[d].take
    <3>1. d \in DOMAIN archive => i # archive[d].take
      BY <1>3 DEF SettleInv, FileRight
    <3> QED
      BY <2>1, <3>1, ResolveGives
  <2>3. /\ DOMAIN jobs' = DOMAIN jobs \cup {i} /\ jobs'[i].dest = d
        /\ \A j \in DOMAIN jobs : jobs'[j] = jobs[j]
    BY <1>3, <2>1 DEF With
  <2>4. /\ Workers' = Workers \cup {i} /\ DestOf(i)' = d
        /\ \A j \in Workers : DestOf(j)' = DestOf(j)
    BY <1>2, <1>3, <2>3 DEF Workers, DestOf
  <2>5. WorkerRight(i)'
    BY <1>2, <2>2, <2>4 DEF WorkerRight
  <2>6. ASSUME NEW j \in Workers PROVE WorkerRight(j)'
    <3>1. WorkerRight(j) /\ DestOf(j)' = DestOf(j) /\ archive' = archive
      BY <1>2, <2>4 DEF SettleInv
    <3>2. Through(j) => Through(j)'
      BY <2>3, <3>1 DEF Through
    <3> QED
      BY <3>1, <3>2 DEF WorkerRight
  <2>7. \A e \in DOMAIN archive' : FileRight(e)'
    BY <1>2 DEF SettleInv, FileRight
  <2>8. DOMAIN orphans' \subseteq 1 .. last_id' /\ DOMAIN orphans' \cap (DOMAIN jobs' \cup Open') = {}
    BY <1>2, <1>3, <2>3 DEF SettleInv
  <2> QED
    BY <2>4, <2>5, <2>6, <2>7, <2>8 DEF SettleInv
<1> QED
  BY <1>1, <1>4, <1>5

\* Worker i, or nobody, becomes the one whose step this is: the others keep
\* their destinations.
LEMMA DestsKept ==
    ASSUME TInv, NEW i \in DOMAIN jobs, NEW job \in Job, job.dest = jobs[i].dest,
           jobs' = [jobs EXCEPT ![i] = job], orphans' = orphans
    PROVE  /\ DOMAIN jobs' = DOMAIN jobs /\ Workers' = Workers /\ jobs'[i] = job
           /\ \A j \in DOMAIN jobs \ {i} : jobs'[j] = jobs[j]
           /\ \A j \in Workers : DestOf(j)' = DestOf(j)
<1>1. jobs \in [DOMAIN jobs -> Job]
  BY TypeParts, Zenon DEF TInv, JobsType
<1> HIDE DEF Job
<1>2. /\ DOMAIN jobs' = DOMAIN jobs /\ jobs'[i] = job
      /\ \A j \in DOMAIN jobs \ {i} : jobs'[j] = jobs[j]
  BY <1>1
<1> QED
  BY <1>2 DEF Workers, DestOf

\* What ffmpeg i leaves at its destination d when it has written everything.
LEMMA WrittenIs ==
    ASSUME archive \in [DOMAIN archive -> Take], NEW i, NEW d
    PROVE  /\ DOMAIN Written(i, d) = DOMAIN archive
           /\ \A e \in DOMAIN archive : Written(i, d)[e].take = archive[e].take
           /\ \A e \in DOMAIN archive \ {d} : Written(i, d)[e] = archive[e]
           /\ d \in DOMAIN archive /\ archive[d].take # i => ~Written(i, d)[d].whole
           /\ d \in DOMAIN archive /\ archive[d].take = i =>
                 Written(i, d)[d].rivals = {j \in Workers \ {i} : DestOf(j) = d}
<1> DEFINE R == {j \in Workers \ {i} : DestOf(j) = d}
<1>1. CASE d \notin DOMAIN archive
  BY <1>1 DEF Written
<1>2. CASE d \in DOMAIN archive /\ archive[d].take # i
  <2>1. Written(i, d) = [archive EXCEPT ![d].whole = FALSE]
    BY <1>2 DEF Written
  <2> QED
    BY <1>2, <2>1 DEF Take
<1>3. CASE d \in DOMAIN archive /\ archive[d].take = i
  <2>1. Written(i, d) = [archive EXCEPT ![d].whole = TRUE, ![d].rivals = R]
    BY <1>3 DEF Written
  <2> HIDE DEF R
  <2>2. Written(i, d)[d].rivals = R /\ Written(i, d)[d].take = i
    BY <1>3, <2>1 DEF Take
  <2>3. DOMAIN Written(i, d) = DOMAIN archive /\ \A e \in DOMAIN archive \ {d} : Written(i, d)[e] = archive[e]
    BY <1>3, <2>1
  <2> QED
    BY <1>3, <2>2, <2>3 DEF R
<1> QED
  BY <1>1, <1>2, <1>3

LEMMA WorkerSettle ==
    ASSUME TInv, FilesInv, SettleInv, NEW i \in Id, Worker(i)
    PROVE  SettleInv'
<1>0. PICK d : d = jobs[i].dest
  OBVIOUS
<1>1. /\ i \in DOMAIN jobs /\ orphans' = orphans /\ last_id' = last_id /\ Open' = Open
  BY DEF Worker, Open
<1>2. /\ jobs[i] \in Job /\ archive \in [DOMAIN archive -> Take] /\ i \in (1 .. last_id) \ Open
      /\ i \notin DOMAIN orphans /\ jobs \in [DOMAIN jobs -> Job]
  BY <1>1, ArchiveFacts DEF SettleInv
<1>3. DestOf(i) = d /\ i \in Workers
  BY <1>0, <1>1 DEF DestOf, Workers
<1>4. \A e \in DOMAIN archive : FileRight(e)
  BY Zenon DEF SettleInv
<1>5. \A j \in Workers : WorkerRight(j)
  BY Zenon DEF SettleInv
<1>6. ASSUME DOMAIN jobs' \subseteq DOMAIN jobs
      PROVE  DOMAIN orphans' \subseteq 1 .. last_id' /\ DOMAIN orphans' \cap (DOMAIN jobs' \cup Open') = {}
  BY <1>1, <1>6 DEF SettleInv
<1>7. CASE ForkFfmpeg(i)
  <2> DEFINE job == [jobs[i] EXCEPT !.stage = "remuxing"]
  <2>1. job \in Job /\ job.dest = jobs[i].dest
    BY <1>2 DEF Job
  <2>2. jobs' = [jobs EXCEPT ![i] = job]
    <3>1. jobs' = [jobs EXCEPT ![i].stage = "remuxing"]
      BY <1>7, Zenon DEF ForkFfmpeg
    <3> QED
      BY <1>1, <1>2, <3>1 DEF Job
  <2> HIDE DEF job
  <2>3. /\ DOMAIN jobs' = DOMAIN jobs /\ Workers' = Workers
        /\ \A j \in DOMAIN jobs \ {i} : jobs'[j] = jobs[j]
        /\ \A j \in Workers : DestOf(j)' = DestOf(j)
    BY <1>1, <2>1, <2>2, DestsKept
  <2>4. /\ DOMAIN archive' = DOMAIN archive \cup {d}
        /\ \A e \in DOMAIN archive \ {d} : archive'[e] = archive[e]
        /\ archive'[d].take = i /\ ~archive'[d].whole
    BY <1>0, <1>2, <1>7 DEF ForkFfmpeg, With
  <2>5. FileRight(d)'
    BY <1>1, <1>2, <2>4 DEF FileRight
  <2>6. \A e \in DOMAIN archive \ {d} : FileRight(e)'
    BY <1>1, <1>4, <2>4 DEF FileRight
  <2>7. ASSUME NEW j \in Workers PROVE WorkerRight(j)'
    <3>1. WorkerRight(j) /\ DestOf(j)' = DestOf(j)
      BY <1>5, <2>3
    <3>2. CASE DestOf(j) = d
      BY <2>4, <3>1, <3>2 DEF WorkerRight
    <3>3. CASE DestOf(j) # d
      <4>1. j # i
        BY <1>3, <3>3
      <4>2. Through(j) /\ DestOf(j) \in DOMAIN archive => Through(j)'
        BY <2>3, <2>4, <3>1, <3>3, <4>1 DEF Through
      <4> QED
        BY <2>4, <3>1, <3>3, <4>2 DEF WorkerRight
    <3> QED
      BY <3>2, <3>3
  <2> QED
    BY <1>6, <2>3, <2>4, <2>5, <2>6, <2>7 DEF SettleInv
\* ffmpeg could not start or write its file to the end.
<1>8. CASE /\ jobs[i].stage \in {"queued", "remuxing"} /\ archive' = archive
           /\ jobs' = [jobs EXCEPT ![i].stage = "exited"]
  <2> DEFINE job == [jobs[i] EXCEPT !.stage = "exited"]
  <2>1. job \in Job /\ job.dest = jobs[i].dest
    BY <1>2 DEF Job
  <2>2. jobs' = [jobs EXCEPT ![i] = job]
    BY <1>1, <1>2, <1>8 DEF Job
  <2> HIDE DEF job
  <2>3. /\ DOMAIN jobs' = DOMAIN jobs /\ Workers' = Workers
        /\ \A j \in DOMAIN jobs \ {i} : jobs'[j] = jobs[j]
        /\ \A j \in Workers : DestOf(j)' = DestOf(j)
    BY <1>1, <2>1, <2>2, DestsKept
  <2>4. \A e \in DOMAIN archive' : FileRight(e)'
    BY <1>1, <1>4, <1>8 DEF FileRight
  <2>5. ASSUME NEW j \in Workers PROVE WorkerRight(j)'
    <3>1. WorkerRight(j) /\ DestOf(j)' = DestOf(j)
      BY <1>5, <2>3
    <3>2. Through(j) => Through(j)'
      BY <1>8, <2>3, <3>1 DEF Through
    <3> QED
      BY <1>8, <3>1, <3>2 DEF WorkerRight
  <2> QED
    BY <1>6, <2>3, <2>4, <2>5 DEF SettleInv
\* ffmpeg has written everything: the others at d are its rivals now.
<1>9. CASE /\ jobs' = [jobs EXCEPT ![i].stage = "exited", ![i].ok = TRUE]
           /\ archive' = Written(i, d)
  <2> DEFINE job == [jobs[i] EXCEPT !.stage = "exited", !.ok = TRUE]
  <2>1. job \in Job /\ job.dest = jobs[i].dest /\ job.stage = "exited" /\ job.ok
    BY <1>2 DEF Job
  <2>2. jobs' = [jobs EXCEPT ![i] = job]
    BY <1>1, <1>2, <1>9 DEF Job
  <2> HIDE DEF job
  <2>3. /\ DOMAIN jobs' = DOMAIN jobs /\ Workers' = Workers /\ jobs'[i] = job
        /\ \A j \in DOMAIN jobs \ {i} : jobs'[j] = jobs[j]
        /\ \A j \in Workers : DestOf(j)' = DestOf(j)
    BY <1>1, <2>1, <2>2, DestsKept
  <2>4. /\ DOMAIN archive' = DOMAIN archive
        /\ \A e \in DOMAIN archive : archive'[e].take = archive[e].take
        /\ \A e \in DOMAIN archive \ {d} : archive'[e] = archive[e]
        /\ d \in DOMAIN archive /\ archive[d].take # i => ~archive'[d].whole
        /\ d \in DOMAIN archive /\ archive[d].take = i =>
              archive'[d].rivals = {j \in Workers \ {i} : DestOf(j) = d}
    BY <1>2, <1>9, WrittenIs
  <2>5. \A e \in DOMAIN archive' : FileRight(e)'
    BY <1>1, <1>4, <2>4 DEF FileRight
  <2>6. ASSUME NEW j \in Workers PROVE WorkerRight(j)'
    <3>1. WorkerRight(j) /\ DestOf(j)' = DestOf(j)
      BY <1>5, <2>3
    <3>2. CASE DestOf(j) = d /\ j # i
      BY <2>4, <3>1, <3>2 DEF WorkerRight
    <3>3. CASE j = i
      <4>1. d \in DOMAIN archive /\ archive[d].take = i => Through(i)'
        BY <1>1, <1>3, <2>1, <2>3, <2>4 DEF Through
      <4> QED
        BY <1>3, <2>4, <3>1, <3>3, <4>1 DEF WorkerRight
    <3>4. CASE DestOf(j) # d
      <4>1. Through(j) /\ DestOf(j) \in DOMAIN archive => Through(j)'
        BY <1>3, <2>3, <2>4, <3>1, <3>4 DEF Through
      <4> QED
        BY <2>4, <3>1, <3>4, <4>1 DEF WorkerRight
    <3> QED
      BY <3>2, <3>3, <3>4
  <2> QED
    BY <1>6, <2>3, <2>5, <2>6 DEF SettleInv
\* Its own file is done, so the worker looks at it and lets it be.
<1>10. CASE Verify(i)
  <2> DEFINE job == [jobs[i] EXCEPT !.stage = "cleanup"]
  <2>1. job \in Job /\ job.dest = jobs[i].dest /\ job.stage = "cleanup"
    BY <1>2 DEF Job
  <2>2. jobs' = [jobs EXCEPT ![i] = job] /\ (archive' = archive \/ archive' = Without(archive, d))
    <3>1. jobs' = [jobs EXCEPT ![i].stage = "cleanup"]
          /\ (archive' = archive \/ archive' = Without(archive, d))
      BY <1>0, <1>10, Zenon DEF Verify
    <3> QED
      BY <1>1, <1>2, <3>1 DEF Job
  <2> HIDE DEF job
  <2>3. /\ DOMAIN jobs' = DOMAIN jobs /\ Workers' = Workers /\ jobs'[i] = job
        /\ \A j \in DOMAIN jobs \ {i} : jobs'[j] = jobs[j]
        /\ \A j \in Workers : DestOf(j)' = DestOf(j)
    BY <1>1, <2>1, <2>2, DestsKept
  <2>4. DOMAIN archive' \subseteq DOMAIN archive /\ \A e \in DOMAIN archive' : archive'[e] = archive[e]
    BY <2>2 DEF Without
  <2>5. \A e \in DOMAIN archive' : FileRight(e)'
    BY <1>1, <1>4, <2>4 DEF FileRight
  <2>6. ASSUME NEW j \in Workers PROVE WorkerRight(j)'
    <3>1. WorkerRight(j) /\ DestOf(j)' = DestOf(j)
      BY <1>5, <2>3
    <3>2. Through(j) /\ DestOf(j) \in DOMAIN archive' => Through(j)'
      BY <2>1, <2>3, <2>4, <3>1 DEF Through
    <3> QED
      BY <2>4, <3>1, <3>2 DEF WorkerRight
  <2> QED
    BY <1>6, <2>3, <2>5, <2>6 DEF SettleInv
<1>11. CASE Cleanup(i)
  <2>1. jobs' = Without(jobs, i) /\ archive' = archive
    BY <1>11, Zenon DEF Cleanup, disk
  <2>2. DOMAIN jobs' = DOMAIN jobs \ {i} /\ \A j \in DOMAIN jobs' : jobs'[j] = jobs[j]
    BY <2>1 DEF Without
  <2>3. Workers' = Workers \ {i} /\ \A j \in Workers' : DestOf(j)' = DestOf(j)
    BY <1>1, <1>2, <2>2 DEF Workers, DestOf
  <2>4. \A e \in DOMAIN archive' : FileRight(e)'
    BY <1>1, <1>4, <2>1 DEF FileRight
  <2>5. ASSUME NEW j \in Workers' PROVE WorkerRight(j)'
    <3>1. WorkerRight(j) /\ DestOf(j)' = DestOf(j) /\ j # i
      BY <1>5, <2>3
    <3>2. Through(j) => Through(j)'
      BY <2>1, <2>2, <3>1 DEF Through
    <3> QED
      BY <2>1, <3>1, <3>2 DEF WorkerRight
  <2> QED
    BY <1>6, <2>2, <2>4, <2>5 DEF SettleInv
<1>12. ASSUME NoFfmpeg(i) \/ FfmpegExits(i) PROVE SettleInv'
  <2>1. CASE NoFfmpeg(i)
    BY <1>8, <2>1 DEF NoFfmpeg, disk
  <2>2. CASE FfmpegExits(i)
    <3>1. /\ jobs[i].stage = "remuxing"
          /\ \/ /\ jobs' = [jobs EXCEPT ![i].stage = "exited", ![i].ok = TRUE]
                /\ archive' = Written(i, d)
             \/ jobs' = [jobs EXCEPT ![i].stage = "exited"] /\ archive' = archive
      BY <1>0, <2>2, Zenon DEF FfmpegExits
    <3> QED
      BY <1>8, <1>9, <3>1
  <2> QED
    BY <1>12, <2>1, <2>2
<1> QED
  BY <1>7, <1>10, <1>11, <1>12, Zenon DEF Worker

LEMMA OrphanSettle ==
    ASSUME TInv, FilesInv, SettleInv, NEW i \in Id, OrphanExits(i)
    PROVE  SettleInv'
<1>0. PICK d : d = orphans[i]
  OBVIOUS
<1>1. /\ i \in DOMAIN orphans /\ orphans' = Without(orphans, i)
      /\ archive' = archive \/ archive' = Written(i, d)
      /\ jobs' = jobs /\ last_id' = last_id /\ Open' = Open
  BY <1>0 DEF OrphanExits, Open
<1>2. i \notin DOMAIN jobs /\ archive \in [DOMAIN archive -> Take]
  BY <1>1, ArchiveFacts DEF SettleInv
<1>3. DestOf(i) = d /\ i \in Workers
  BY <1>0, <1>1, <1>2 DEF DestOf, Workers
<1>4. (\A e \in DOMAIN archive : FileRight(e)) /\ (\A j \in Workers : WorkerRight(j))
  BY Zenon DEF SettleInv
<1>5. /\ DOMAIN orphans' = DOMAIN orphans \ {i} /\ Workers' = Workers \ {i}
      /\ \A j \in Workers' : DestOf(j)' = DestOf(j)
  BY <1>1, <1>2 DEF Without, Workers, DestOf
<1>6. /\ DOMAIN archive' = DOMAIN archive
      /\ \A e \in DOMAIN archive : archive'[e].take = archive[e].take
      /\ \A e \in DOMAIN archive \ {d} : archive'[e] = archive[e]
  BY <1>1, <1>2, WrittenIs
<1>7. \A e \in DOMAIN archive' : FileRight(e)'
  BY <1>1, <1>4, <1>6 DEF FileRight
<1>8. ASSUME NEW j \in Workers' PROVE WorkerRight(j)'
  <2>1. WorkerRight(j) /\ DestOf(j)' = DestOf(j) /\ j # i /\ j \in Workers
    BY <1>4, <1>5
  <2>2. Through(j) /\ DestOf(j) \in DOMAIN archive => Through(j)'
    BY <1>1, <1>6, <2>1 DEF Through
  <2>3. CASE DestOf(j) # d \/ archive' = archive
    BY <1>6, <2>1, <2>2, <2>3 DEF WorkerRight
  <2>4. CASE DestOf(j) = d /\ archive' = Written(i, d)
    <3>1. d \in DOMAIN archive => \/ ~archive'[d].whole
                                  \/ archive'[d].rivals = {k \in Workers \ {i} : DestOf(k) = d}
      BY <1>2, <2>4, WrittenIs
    <3> QED
      BY <1>6, <2>1, <2>4, <3>1 DEF WorkerRight
  <2> QED
    BY <1>1, <2>3, <2>4
<1>9. DOMAIN orphans' \subseteq 1 .. last_id' /\ DOMAIN orphans' \cap (DOMAIN jobs' \cup Open') = {}
  BY <1>1, <1>5 DEF SettleInv
<1> QED
  BY <1>7, <1>8, <1>9 DEF SettleInv

\* The process is gone; an ffmpeg that goes on was still writing.
LEMMA EndSettle ==
    ASSUME TInv, FilesInv, SettleInv, ProcessEnds
    PROVE  SettleInv'
<1>1. PICK S \in SUBSET {i \in DOMAIN jobs : jobs[i].stage = "remuxing"} :
          orphans' = [i \in DOMAIN orphans \cup S |-> DestOf(i)]
  BY DEF ProcessEnds
<1>2. /\ jobs' = Empty /\ tracks' = Empty /\ UNCHANGED <<archive, last_id>>
  BY DEF ProcessEnds, disk
<1>3. DOMAIN jobs' = {} /\ Open' = {} /\ DOMAIN orphans' = DOMAIN orphans \cup S
  BY <1>1, <1>2, EmptyType DEF Open
<1>4. Workers' = DOMAIN orphans \cup S /\ Workers' \subseteq Workers
      /\ \A j \in Workers' : DestOf(j)' = DestOf(j)
  BY <1>1, <1>3 DEF Workers, DestOf
<1>5. ASSUME NEW j \in Workers' PROVE WorkerRight(j)'
  <2>1. WorkerRight(j) /\ DestOf(j)' = DestOf(j)
    BY <1>4 DEF SettleInv
  <2>2. ~Through(j)
    BY <1>4 DEF SettleInv, Through
  <2> QED
    BY <1>2, <2>1, <2>2 DEF WorkerRight
<1>6. \A e \in DOMAIN archive' : FileRight(e)'
  BY <1>2, <1>3 DEF SettleInv, FileRight
<1>7. DOMAIN orphans' \subseteq 1 .. last_id' /\ DOMAIN orphans' \cap (DOMAIN jobs' \cup Open') = {}
  BY <1>2, <1>3, ArchiveFacts DEF SettleInv
<1> QED
  BY <1>5, <1>6, <1>7 DEF SettleInv

LEMMA SettleStep == TInv /\ FilesInv /\ SettleInv /\ [Next]_vars => SettleInv'
<1> SUFFICES ASSUME TInv, FilesInv, SettleInv, [Next]_vars PROVE SettleInv'
  OBVIOUS
\* Neither a job nor a file in the archive, and no track opened.
<1>0. ASSUME UNCHANGED <<jobs, orphans, archive, last_id>>, Open' \subseteq Open PROVE SettleInv'
  BY <1>0, SettleKept
<1>1. CASE Create
  BY <1>0, <1>1 DEF Create, disk, Open
<1>2. CASE OnHdc
  <2>1. UNCHANGED <<jobs, orphans, disk, last_id>>
    BY <1>2, Zenon DEF OnHdc
  <2> QED
    BY <1>0, <1>2, <2>1, FrameKeeps DEF disk
<1>3. CASE Finalize
  BY <1>3, FinalizeSettle
<1>4. CASE OpenTrack
  <2>1. UNCHANGED <<jobs, orphans, archive>>
    BY <1>4, Zenon DEF OpenTrack, disk
  <2>2. \/ last_id' = last_id /\ Open' \subseteq Open
        \/ last_id' = last_id + 1 /\ Open' \subseteq Open \cup {last_id'}
    <3>1. CASE UNCHANGED <<last_id, tracks>>
      BY <3>1 DEF Open
    <3>2. CASE /\ last_id' = last_id + 1
               /\ tracks' = With(tracks, last_id', NewTrack(opening.song, opening.lot))
      BY <3>2 DEF Open, With
    <3> QED
      BY <1>4, <3>1, <3>2, Zenon DEF OpenTrack
  <2> QED
    BY <2>1, <2>2, SettleKept
<1>5. ASSUME NEW s \in Songs, NEW lot \in Lots \cup {NoLot}, OnId3(s, lot) PROVE SettleInv'
  <2>1. UNCHANGED <<jobs, orphans, disk, last_id>>
    BY <1>5, Zenon DEF OnId3
  <2>2. Open' = Open
    <3>1. CASE UNCHANGED tracks
      BY <3>1 DEF Open
    <3>2. CASE NotPostroll # {} /\ RepeatTag(lot)
      BY <3>2, RepeatKeeps DEF SameTakes
    <3>3. CASE StartNewSong(s, lot)
      <4>1. CASE NotPostroll # {} /\ PostrollOn
        BY <3>3, <4>1, StartsPostroll
      <4>2. CASE ~(NotPostroll # {} /\ PostrollOn)
        BY <3>3, <4>2 DEF StartNewSong, Open
      <4> QED
        BY <4>1, <4>2
    <3> QED
      BY <1>5, <3>1, <3>2, <3>3, Zenon DEF OnId3
  <2> QED
    BY <1>0, <2>1, <2>2 DEF disk
<1>6. ASSUME NEW lot \in Lots, OnLot(lot) PROVE SettleInv'
  <2>1. UNCHANGED <<jobs, orphans, disk, last_id>>
    BY <1>6, Zenon DEF OnLot
  <2> QED
    BY <1>0, <1>6, <2>1, OnLotKeeps DEF SameTakes, disk
<1>7. ASSUME NEW i \in Id, Worker(i) PROVE SettleInv'
  BY <1>7, WorkerSettle
<1>8. ASSUME NEW i \in Id, OrphanExits(i) PROVE SettleInv'
  BY <1>8, OrphanSettle
<1>9. ASSUME NEW clean \in BOOLEAN, Destroy(clean) PROVE SettleInv'
  <2>1. UNCHANGED <<jobs, orphans, disk, last_id>>
    BY <1>9, Zenon DEF Destroy
  <2>2. Open' \subseteq Open
    BY <1>9, EmptyType DEF Destroy, Open
  <2> QED
    BY <1>0, <2>1, <2>2 DEF disk
<1>10. CASE Exit \/ Crash
  BY <1>10, EndSettle DEF Exit, Crash
<1>11. CASE UNCHANGED vars
  BY <1>0, <1>11 DEF vars, disk, Open
<1> QED
  BY <1>1, <1>2, <1>3, <1>4, <1>5, <1>6, <1>7, <1>8, <1>9, <1>10, <1>11, Zenon DEF Next

\* The one worker that could harm a whole file is a rival of it.
LEMMA WholeIsKept ==
    ASSUME TInv, FilesInv, SettleInv, [Next]_vars,
           NEW d \in DOMAIN archive, archive[d].whole, ~Threatened(d)
    PROVE  d \in DOMAIN archive' /\ archive'[d] = archive[d]
<1>0. ASSUME NEW j \in Workers, DestOf(j) = d PROVE Through(j)
  BY <1>0 DEF SettleInv, WorkerRight, Threatened
<1>1. archive \in [DOMAIN archive -> Take]
  BY ArchiveFacts
<1>2. CASE archive' = archive
  BY <1>2
<1>3. ASSUME NEW i \in Id, Worker(i) PROVE d \in DOMAIN archive' /\ archive'[d] = archive[d]
  <2>1. i \in DOMAIN jobs /\ i \in Workers /\ DestOf(i) = jobs[i].dest
    BY <1>3 DEF Worker, Workers, DestOf
  <2>2. CASE jobs[i].dest # d
    <3>1. CASE ForkFfmpeg(i)
      BY <2>2, <3>1 DEF ForkFfmpeg, With
    <3>2. CASE FfmpegExits(i)
      <4>1. archive' = archive \/ archive' = Written(i, jobs[i].dest)
        BY <3>2, Zenon DEF FfmpegExits
      <4> QED
        BY <1>1, <2>2, <4>1, WrittenIs
    <3>3. CASE Verify(i)
      BY <2>2, <3>3 DEF Verify, Without
    <3>4. CASE NoFfmpeg(i) \/ Cleanup(i)
      BY <1>2, <3>4 DEF NoFfmpeg, Cleanup, disk
    <3> QED
      BY <1>3, <3>1, <3>2, <3>3, <3>4, Zenon DEF Worker
  <2>3. CASE jobs[i].dest = d
    <3>1. (jobs[i].stage = "exited" /\ jobs[i].ok) \/ jobs[i].stage = "cleanup"
      BY <1>0, <2>1, <2>3 DEF Through
    <3>2. CASE Verify(i)
      BY <2>3, <3>1, <3>2 DEF Verify
    <3>3. CASE Cleanup(i)
      BY <1>2, <3>3 DEF Cleanup, disk
    <3>4. ~ForkFfmpeg(i) /\ ~NoFfmpeg(i) /\ ~FfmpegExits(i)
      BY <3>1 DEF ForkFfmpeg, NoFfmpeg, FfmpegExits
    <3> QED
      BY <1>3, <3>2, <3>3, <3>4, Zenon DEF Worker
  <2> QED
    BY <2>2, <2>3
<1>4. ASSUME NEW i \in Id, OrphanExits(i) PROVE d \in DOMAIN archive' /\ archive'[d] = archive[d]
  <2>1. /\ i \in DOMAIN orphans /\ i \notin DOMAIN jobs
        /\ archive' = archive \/ archive' = Written(i, orphans[i])
    BY <1>4 DEF OrphanExits, SettleInv
  <2>2. orphans[i] # d
    BY <1>0, <2>1 DEF Workers, DestOf, Through
  <2> QED
    BY <1>1, <2>1, <2>2, WrittenIs
<1>5. CASE Exit \/ Crash
  BY <1>2, <1>5 DEF Exit, Crash, ProcessEnds, disk
<1>6. CASE Create \/ OnHdc \/ Finalize \/ OpenTrack
  <2>1. UNCHANGED disk
    BY <1>6, Zenon DEF Create, OnHdc, Finalize, OpenTrack
  <2> QED
    BY <1>2, <2>1 DEF disk
<1>7. ASSUME \/ \E s \in Songs, lot \in Lots \cup {NoLot} : OnId3(s, lot)
             \/ \E lot \in Lots : OnLot(lot)
             \/ \E clean \in BOOLEAN : Destroy(clean)
      PROVE  d \in DOMAIN archive' /\ archive'[d] = archive[d]
  <2>1. UNCHANGED disk
    BY <1>7, Zenon DEF OnId3, OnLot, Destroy
  <2> QED
    BY <1>2, <2>1 DEF disk
<1>8. CASE UNCHANGED vars
  BY <1>2, <1>8 DEF vars, disk
<1> QED
  BY <1>3, <1>4, <1>5, <1>6, <1>7, <1>8, Zenon DEF Next

\* A whole take with a numbered suffix is overwritten, mixed or unlinked only by
\* a worker that had its destination before it was whole, and one named by the
\* second only by a worker of another take with that name and second: whatever
\* crashes, and whichever ffmpeg outlives the process that started it.
THEOREM ArchiveSettles == Spec => SettledTakesKept
<1>1. Init => TInv /\ FilesInv /\ SettleInv
  BY TInit, FilesInit, SettleInit
<1>2. TInv /\ FilesInv /\ SettleInv /\ [Next]_vars => (TInv /\ FilesInv /\ SettleInv)'
  BY TInvStep, FilesStep, SettleStep
<1>3. TInv /\ FilesInv /\ SettleInv /\ [Next]_vars =>
          [\A d \in DOMAIN archive :
              archive[d].whole /\ ~Threatened(d) =>
                /\ d \in DOMAIN archive'
                /\ archive'[d] = archive[d]]_vars
  BY WholeIsKept
<1> QED
  BY <1>1, <1>2, <1>3, PTL DEF Spec, SettledTakesKept

-----------------------------------------------------------------------------
(* The countdown of the post-roll *)

\* A take in its post-roll that is not due.  The code gives a post-roll of no
\* frames one frame nevertheless.
Counting(t) ==
    IF PostrollFrames = 0 THEN t.remaining = 0 /\ t.packets_postroll = 0
    ELSE t.remaining > 0 /\ t.packets_postroll + t.remaining = PostrollFrames

CountInv ==
    /\ \A i \in Open : tracks[i].is_postroll => PostrollOn
    /\ \A i \in Open : ~tracks[i].is_postroll => tracks[i].packets_postroll = 0
    /\ \A i \in Open \ todo : tracks[i].is_postroll => Counting(tracks[i])
    /\ pc = "feed" =>
         \A i \in todo : tracks[i].is_postroll /\ tracks[i].packets_postroll = TailFrames
    /\ pc = "split" => ~PostrollOn
    /\ pc = "down" => clock = 0

LEMMA NoCount ==
    ASSUME Open = {}, todo = {}, pc = "split" => ~PostrollOn, pc = "down" => clock = 0
    PROVE  CountInv
BY DEF CountInv

\* Takes may be closed, but none of them counts on.
LEMMA CountKept ==
    ASSUME CountInv, Open' \subseteq Open, Open' \ todo' \subseteq Open \ todo,
           \A i \in Open' :
              /\ tracks'[i].is_postroll = tracks[i].is_postroll
              /\ tracks'[i].packets_postroll = tracks[i].packets_postroll
              /\ tracks'[i].remaining = tracks[i].remaining,
           pc' = "feed" => pc = "feed" /\ todo' \subseteq todo /\ todo' \subseteq Open',
           pc' = "split" => ~PostrollOn,
           pc' = "down" => clock' = 0
    PROVE  CountInv'
<1>1. \A i \in Open' : (Counting(tracks[i]))' <=> Counting(tracks[i])
  BY DEF Counting
<1> QED
  BY <1>1 DEF CountInv

LEMMA OnHdcCount ==
    ASSUME TInv, CountInv, OnHdc
    PROVE  CountInv'
<1> USE RecorderAssumption
<1>1. /\ pc = "idle" /\ todo = {} /\ pc' \in {"idle", "feed"}
      /\ todo' = {i \in Open : tracks[i].is_postroll /\ tracks'[i].remaining = 0}
  <2>1. pc = "idle" /\ todo = {}
    BY DEF OnHdc, TInv, Handling
  <2> QED
    BY <2>1 DEF OnHdc
<1>3. Open' = Open
  BY FrameKeeps
<1>4. ASSUME NEW i \in Open
      PROVE  /\ tracks'[i].is_postroll = tracks[i].is_postroll
             /\ tracks[i].packets_postroll \in Nat /\ tracks[i].remaining \in Nat
             /\ ~tracks[i].is_postroll => tracks'[i].packets_postroll = tracks[i].packets_postroll
             /\ tracks[i].is_postroll =>
                  /\ tracks'[i].packets_postroll = tracks[i].packets_postroll + 1
                  /\ tracks'[i].remaining = IF tracks[i].remaining > 0
                                            THEN tracks[i].remaining - 1 ELSE 0
  BY FrameTaken DEF Track
<1>5. ASSUME NEW i \in Open, tracks[i].is_postroll
      PROVE  /\ PostrollOn
             /\ tracks'[i].remaining = 0 => tracks'[i].packets_postroll = TailFrames
             /\ tracks'[i].remaining # 0 =>
                  /\ PostrollFrames # 0 /\ tracks'[i].remaining > 0
                  /\ tracks'[i].packets_postroll + tracks'[i].remaining = PostrollFrames
  <2>1. PostrollOn /\ Counting(tracks[i])
    BY <1>1, <1>5 DEF CountInv
  <2>2. CASE PostrollFrames = 0
    <3>1. tracks'[i].packets_postroll = 1 /\ tracks'[i].remaining = 0
      BY <1>4, <1>5, <2>1, <2>2 DEF Counting
    <3> QED
      BY <2>1, <2>2, <3>1 DEF TailFrames
  <2>3. CASE PostrollFrames # 0
    <3> DEFINE p == tracks[i].packets_postroll
               r == tracks[i].remaining
    <3>1. p \in Nat /\ r \in Nat /\ r > 0 /\ p + r = PostrollFrames
      BY <1>4, <2>1, <2>3 DEF Counting
    <3>2. tracks'[i].packets_postroll = p + 1 /\ tracks'[i].remaining = r - 1
      BY <1>4, <1>5, <3>1
    <3>3. TailFrames = PostrollFrames
      BY <2>1, <2>3 DEF TailFrames
    <3> HIDE DEF p, r
    <3> QED
      BY <2>1, <2>3, <3>1, <3>2, <3>3
  <2> QED
    BY <2>2, <2>3
<1>6. \A i \in Open' \ todo' : tracks'[i].is_postroll => (Counting(tracks[i]))'
  BY <1>1, <1>3, <1>4, <1>5 DEF Counting
<1>7. \A i \in todo' : tracks'[i].is_postroll /\ tracks'[i].packets_postroll = TailFrames
  BY <1>1, <1>4, <1>5
<1>8. \A i \in Open' : /\ tracks'[i].is_postroll => PostrollOn
                       /\ ~tracks'[i].is_postroll => tracks'[i].packets_postroll = 0
  BY <1>3, <1>4 DEF CountInv
<1>9. TailFrames' = TailFrames /\ pc' # "split" /\ pc' # "down"
  BY <1>1 DEF TailFrames
<1> QED
  BY <1>6, <1>7, <1>8, <1>9 DEF CountInv

LEMMA OnId3Count ==
    ASSUME TInv, CountInv, NEW s \in Songs, NEW lot \in Lots \cup {NoLot}, OnId3(s, lot)
    PROVE  CountInv'
<1>1. /\ pc = "idle" /\ todo = {}
      /\ \/ NotPostroll # {} /\ RepeatTag(lot)
         \/ StartNewSong(s, lot)
         \/ UNCHANGED <<pc, todo, opening, tracks>>
  BY DEF OnId3, TInv, Handling
<1>4. CASE UNCHANGED <<pc, todo, opening, tracks>>
  BY <1>1, <1>4, CountKept DEF Open
<1>5. CASE NotPostroll # {} /\ RepeatTag(lot)
  <2>1. pc' = "idle" /\ todo' = {} /\ SameTakes
    <3>1. SameTakes
      BY <1>5, RepeatKeeps
    <3>2. pc' = pc /\ todo' = todo
      BY <1>5, Zenon DEF RepeatTag
    <3> QED
      BY <1>1, <3>1, <3>2
  <2>2. Open' = Open /\ Open \subseteq DOMAIN tracks
    BY <2>1, Zenon DEF Open, SameTakes
  <2>3. \A i \in Open' : /\ tracks'[i].is_postroll = tracks[i].is_postroll
                         /\ tracks'[i].packets_postroll = tracks[i].packets_postroll
                         /\ tracks'[i].remaining = tracks[i].remaining
    BY <2>1, <2>2, Zenon DEF SameTakes, SameAudio
  <2> QED
    BY <1>1, <2>1, <2>2, <2>3, CountKept
<1>6. CASE StartNewSong(s, lot)
  <2>1. CASE NotPostroll = {} \/ ~PostrollOn
    <3>1. /\ tracks' = tracks /\ pc' \in {"open", "split"} /\ (pc' = "split" => ~PostrollOn)
      BY <1>6, <2>1 DEF StartNewSong
    <3> QED
      BY <1>1, <3>1, CountKept DEF Open
  <2>2. CASE NotPostroll # {} /\ PostrollOn
    <3>1. /\ pc' = "open" /\ todo' = {} /\ DOMAIN tracks' = DOMAIN tracks /\ Open' = Open
          /\ \A i \in DOMAIN tracks : i # Primary => tracks'[i] = tracks[i]
          /\ tracks'[Primary].is_postroll /\ tracks'[Primary].remaining = PostrollFrames
          /\ tracks'[Primary].packets_postroll = tracks[Primary].packets_postroll
      BY <1>1, <1>6, <2>2, StartsPostroll
    <3>2. ASSUME NEW i \in Open PROVE tracks'[i].is_postroll => (Counting(tracks[i]))'
      <4>1. CASE i = Primary
        <5>1. Primary \in NotPostroll
          BY <2>2, NewestPostroll
        <5>2. tracks'[i].packets_postroll = 0 /\ tracks'[i].remaining = PostrollFrames
          BY <3>1, <4>1, <5>1 DEF CountInv, NotPostroll
        <5> QED
          BY <5>2, RecorderAssumption DEF Counting
      <4>2. CASE i # Primary
        <5>1. tracks'[i] = tracks[i]
          BY <3>1, <4>2 DEF Open
        <5> QED
          BY <1>1, <5>1 DEF CountInv, Counting
      <4> QED
        BY <4>1, <4>2
    <3>3. \A i \in Open : tracks'[i].is_postroll \/ tracks'[i] = tracks[i]
      BY <3>1 DEF Open
    <3> QED
      BY <1>1, <2>2, <3>1, <3>2, <3>3 DEF CountInv
  <2> QED
    BY <2>1, <2>2
<1> QED
  BY <1>1, <1>4, <1>5, <1>6

LEMMA CountStep == TInv /\ FilesInv /\ CountInv /\ [Next]_vars => CountInv'
<1> SUFFICES ASSUME TInv, FilesInv, CountInv, [Next]_vars PROVE CountInv'
  OBVIOUS
<1>0. CASE UNCHANGED <<pc, todo, tracks, clock>>
  BY <1>0, CountKept DEF Open, CountInv, FilesInv
<1>1. CASE Create
  <2>1. tracks' = tracks /\ tracks = Empty /\ pc' = "idle" /\ todo' = todo /\ todo = {}
    BY <1>1 DEF Create, TInv, Handling
  <2>2. Open' = {}
    BY <2>1, EmptyType DEF Open
  <2> QED
    BY <2>1, <2>2 DEF CountInv
<1>2. CASE OnHdc
  BY <1>2, OnHdcCount
<1>3. CASE Finalize
  <2>1. PICK i \in todo :
              /\ todo' = todo \ {i} /\ Open' = Open \ {i}
              /\ \A j \in Open \ {i} : tracks'[j] = tracks[j]
    BY <1>3, FinalizedOne, Zenon
  <2>2. /\ pc' # "down" /\ (pc' = "feed" => pc = "feed") /\ (pc' = "split" => pc = "split")
    BY <1>3, FinalizeMoves
  <2>3. todo' \subseteq Open' /\ (pc' = "split" => ~PostrollOn)
    BY <2>1, <2>2 DEF FilesInv, CountInv
  <2> QED
    BY <2>1, <2>2, <2>3, CountKept
<1>4. CASE OpenTrack
  <2>1. /\ pc' = "idle" /\ todo' = todo /\ todo = {}
        /\ \/ /\ last_id' = last_id + 1
              /\ tracks' = With(tracks, last_id', NewTrack(opening.song, opening.lot))
           \/ tracks' = tracks
    BY <1>4 DEF OpenTrack, TInv, Handling
  <2>2. CASE tracks' = tracks
    BY <2>1, <2>2, CountKept DEF Open
  <2>3. CASE /\ last_id' = last_id + 1
             /\ tracks' = With(tracks, last_id', NewTrack(opening.song, opening.lot))
    <3>1. last_id' \notin DOMAIN tracks
      BY <2>3, TracksTyped
    <3> DEFINE t == NewTrack(opening.song, opening.lot)
    <3>2. ~t.is_postroll /\ t.packets_postroll = 0
      BY DEF NewTrack
    <3> HIDE DEF t
    <3>3. /\ DOMAIN tracks' = DOMAIN tracks \cup {last_id'} /\ tracks'[last_id'] = t
          /\ \A i \in DOMAIN tracks : tracks'[i] = tracks[i]
      BY <2>3, <3>1 DEF With, t
    <3>4. \A i \in Open' : i = last_id' \/ (i \in Open /\ tracks'[i] = tracks[i])
      BY <3>3 DEF Open
    <3> QED
      BY <2>1, <3>2, <3>3, <3>4 DEF CountInv, Counting
  <2> QED
    BY <2>1, <2>2, <2>3
<1>5. ASSUME NEW s \in Songs, NEW lot \in Lots \cup {NoLot}, OnId3(s, lot) PROVE CountInv'
  BY <1>5, OnId3Count
<1>6. ASSUME NEW lot \in Lots, OnLot(lot) PROVE CountInv'
  <2>1. /\ pc = "idle" /\ pc' = pc /\ todo' = todo /\ Open \subseteq DOMAIN tracks
    BY <1>6 DEF OnLot, event, Open
  <2> QED
    BY <1>6, <2>1, OnLotKeeps, CountKept DEF SameTakes, SameAudio
<1>7. ASSUME NEW i \in Id, Worker(i) \/ OrphanExits(i) PROVE CountInv'
  BY <1>0, <1>7, Zenon DEF Worker, OrphanExits, event
<1>8. ASSUME NEW clean \in BOOLEAN, Destroy(clean) PROVE CountInv'
  <2>1. pc' \in {"close", "exit"}
    BY <1>8 DEF Destroy
  <2>2. CASE clean
    <3>1. tracks' = [i \in Open |-> tracks[i]] /\ todo' = Open
      BY <1>8, <2>2 DEF Destroy
    <3>2. Open' = Open /\ \A i \in Open : tracks'[i] = tracks[i]
      BY <3>1 DEF Open
    <3> QED
      BY <2>1, <3>1, <3>2 DEF CountInv
  <2>3. CASE ~clean
    <3>1. tracks' = Empty
      BY <1>8, <2>3 DEF Destroy
    <3>2. Open' = {}
      BY <3>1, EmptyType DEF Open
    <3> QED
      BY <2>1, <3>2 DEF CountInv
  <2> QED
    BY <2>2, <2>3
<1>9. CASE Exit \/ Crash
  <2>1. tracks' = Empty /\ pc' = "down" /\ clock' = 0
    BY <1>9 DEF Exit, Crash, ProcessEnds
  <2>2. Open' = {}
    BY <2>1, EmptyType DEF Open
  <2> QED
    BY <2>1, <2>2 DEF CountInv
<1>10. CASE UNCHANGED vars
  BY <1>0, <1>10 DEF vars, event
<1> QED
  BY <1>1, <1>2, <1>3, <1>4, <1>5, <1>6, <1>7, <1>8, <1>9, <1>10, Zenon DEF Next

-----------------------------------------------------------------------------
(* The steps of Capture, in the recorder's terms *)

Takes == [i \in Open |-> Interval(i)]
Running == pc \notin {"close", "exit", "down"}

LEMMA AsStutter ==
    ASSUME Takes' = Takes, clock' = clock, Running' = Running
    PROVE  UNCHANGED C!vars
BY DEF Takes, Running, C!vars

LEMMA AsStart ==
    ASSUME ~Running, Running', clock = 0, clock' = clock, Takes' = Takes
    PROVE  C!Next
BY DEF Takes, Running, C!Next, C!Start

LEMMA AsHear ==
    ASSUME Running, Running', clock' = clock + 1, Takes' = Takes,
           \A i \in Open : Interval(i).end # clock
    PROVE  C!Next
<1>1. C!Due = {}
  BY DEF C!Due
<1> QED
  BY <1>1 DEF Takes, Running, C!Next, C!Hear

LEMMA AsEndSong ==
    ASSUME Running, Running', clock' = clock, NEW i \in Open, i \in Id, Interval(i).end = -1,
           Takes' = [Takes EXCEPT ![i].end = clock + TailFrames]
    PROVE  C!Next
<1>1. i \in C!Current
  BY DEF C!Current, C!Unknown
<1>2. C!EndSong(i)
  BY <1>1 DEF Takes, Running, C!EndSong
<1> QED
  BY <1>2 DEF C!Next

LEMMA AsBegin ==
    ASSUME Running, Running', clock' = clock, NEW i \in Id, i \notin Open,
           \A j \in Open : Interval(j).end # -1,
           Takes' = [j \in Open \cup {i} |->
                      IF j = i
                      THEN [from |-> IF clock < PrerollCap THEN 0 ELSE clock - PrerollCap,
                            split |-> clock, end |-> -1]
                      ELSE Interval(j)]
    PROVE  C!Next
<1>1. C!Current = {}
  BY DEF C!Current, C!Unknown
<1>2. C!Begin(i)
  BY <1>1 DEF Takes, Running, C!Begin, C!Unknown
<1> QED
  BY <1>2 DEF C!Next

LEMMA AsClose ==
    ASSUME clock' = clock, Running' = Running, NEW i \in Open, i \in Id,
           Interval(i).end = clock \/ ~Running,
           Takes' = [j \in Open \ {i} |-> Interval(j)]
    PROVE  C!Next
<1>1. C!Close(i)
  BY DEF Takes, Running, C!Close
<1> QED
  BY <1>1 DEF C!Next

LEMMA AsStop ==
    ASSUME ~Running',
           \/ Takes' = Takes /\ clock' = clock
           \/ Takes' = [i \in {} |-> 0] /\ clock' \in {clock, 0}
    PROVE  C!Next
BY DEF Takes, Running, C!Next, C!Stop

-----------------------------------------------------------------------------
(* The intervals *)

\* Interval without the file: a take begins as many frames ago as it holds.
Stretch(i) ==
    LET t == tracks[i]
    IN  [from |-> clock - Packets(t),
         split |-> clock - t.packets_body - t.packets_postroll,
         end |-> IF t.is_postroll \/ EndsNow(i)
                 THEN clock - t.packets_postroll + TailFrames ELSE -1]

LEMMA Counts ==
    ASSUME TInv, NEW i \in Open
    PROVE  /\ tracks[i].packets_preroll \in Nat /\ tracks[i].packets_body \in Nat
           /\ tracks[i].packets_postroll \in Nat /\ clock \in Nat /\ i \in Id
<1>1. tracks[i] \in Track /\ clock \in Nat /\ i \in Id
  BY TracksTyped, TypeParts DEF Open, TInv, TracksType
<1> QED
  BY <1>1 DEF Track

LEMMA Stretches ==
    ASSUME TInv, TakesInv, NEW i \in Open
    PROVE  Interval(i) = Stretch(i)
<1> DEFINE t == tracks[i]
           n == Packets(t)
<1>1. /\ Len(t.file) = n /\ t.file = [k \in 1 .. n |-> clock - n + k]
  BY DEF TakesInv, TakesGapless
<1>2. n \in Nat /\ clock \in Nat
  BY Counts DEF Packets
<1> DEFINE f == t.file
<1>3. (IF f = <<>> THEN clock ELSE f[1] - 1) = clock - n
  <2>1. f = [k \in 1 .. n |-> clock - n + k] /\ Len(f) = n
    BY <1>1
  <2> HIDE DEF n, f
  <2>2. CASE n = 0
    BY <1>2, <2>1, <2>2
  <2>3. CASE n # 0
    <3>1. 1 \in 1 .. n /\ f # <<>>
      BY <1>2, <2>1, <2>3
    <3>2. f[1] = clock - n + 1
      BY <1>2, <2>1, <3>1
    <3> QED
      BY <1>2, <3>1, <3>2
  <2> QED
    BY <2>2, <2>3
<1> HIDE DEF n
<1> QED
  BY <1>3, Zenon DEF Interval, Stretch, n

LEMMA AllStretches == TInv /\ TakesInv => \A i \in Open : Interval(i) = Stretch(i)
BY Stretches

LEMMA StretchesNext == (TInv /\ TakesInv)' => \A i \in Open' : Interval(i)' = Stretch(i)'
<1>1. (TInv /\ TakesInv)' => (\A i \in Open : Interval(i) = Stretch(i))'
  BY AllStretches, PTL
<1> QED
  BY <1>1

-----------------------------------------------------------------------------
(* The steps of the recorder *)

\* All that the steps below rest on.
CInv == TInv /\ FilesInv /\ RingInv /\ TakesInv /\ CountInv

LEMMA SameIntervals ==
    ASSUME Open' = Open, \A i \in Open : Interval(i)' = Interval(i)
    PROVE  Takes' = Takes
BY DEF Takes

LEMMA NoIntervals ==
    ASSUME Open' = {}
    PROVE  Takes' = [i \in {} |-> 0]
BY DEF Takes

LEMMA TailLength == TailFrames \in Nat /\ (~PostrollOn => TailFrames = 0)
BY RecorderAssumption DEF TailFrames

\* A post-roll that counts has frames to go.
LEMMA Ahead ==
    ASSUME CInv, NEW i \in Open \ todo, tracks[i].is_postroll
    PROVE  tracks[i].packets_postroll < TailFrames
<1>1. PostrollOn /\ Counting(tracks[i]) /\ tracks[i].packets_postroll \in Nat
  BY Counts DEF CInv, CountInv
<1>2. tracks[i].remaining \in Nat
  BY TracksTyped DEF CInv, Open, Track
<1> QED
  BY <1>1, <1>2, RecorderAssumption DEF Counting, TailFrames

LEMMA OnHdcHears ==
    ASSUME CInv, CInv', OnHdc
    PROVE  C!Next
<1>1. /\ pc = "idle" /\ todo = {} /\ pc' \in {"idle", "feed"} /\ clock' = clock + 1
  BY DEF OnHdc, CInv, TInv, Handling
<1>2. Open' = Open
  BY FrameKeeps DEF CInv
<1>3. ASSUME NEW i \in Open
      PROVE  Interval(i)' = Interval(i) /\ Interval(i).end # clock
  <2> DEFINE b == tracks[i].packets_body
             p == tracks[i].packets_postroll
             h == tracks[i].packets_preroll
  <2>1. h \in Nat /\ b \in Nat /\ p \in Nat /\ clock \in Nat
    BY Counts DEF CInv
  <2>2. Interval(i) = Stretch(i) /\ Interval(i)' = Stretch(i)'
    BY <1>2, AllStretches, StretchesNext DEF CInv
  <2>3. ~EndsNow(i) /\ ~(EndsNow(i))'
    BY <1>1 DEF EndsNow
  <2>4. /\ tracks'[i].is_postroll = tracks[i].is_postroll
        /\ tracks'[i].packets_preroll = h
        /\ tracks[i].is_postroll => tracks'[i].packets_body = b /\ tracks'[i].packets_postroll = p + 1
        /\ ~tracks[i].is_postroll => tracks'[i].packets_body = b + 1 /\ tracks'[i].packets_postroll = p
    BY FrameTaken DEF CInv
  <2>5. tracks[i].is_postroll => p < TailFrames
    BY <1>1, Ahead
  <2>6. TailFrames \in Nat /\ TailFrames' = TailFrames
    BY TailLength DEF TailFrames
  <2>7. Stretch(i) = [from |-> clock - (h + b + p), split |-> clock - b - p,
                      end |-> IF tracks[i].is_postroll THEN clock - p + TailFrames ELSE -1]
    BY <2>3 DEF Stretch, Packets
  <2>8. Stretch(i)' = [from |-> clock' - Packets(tracks'[i]),
                       split |-> clock' - tracks'[i].packets_body - tracks'[i].packets_postroll,
                       end |-> IF tracks'[i].is_postroll
                               THEN clock' - tracks'[i].packets_postroll + TailFrames ELSE -1]
    BY <2>3, <2>6 DEF Stretch, Packets
  <2> HIDE DEF b, p, h
  <2>9. CASE tracks[i].is_postroll
    <3>1. /\ clock' - Packets(tracks'[i]) = clock - (h + b + p)
          /\ clock' - tracks'[i].packets_body - tracks'[i].packets_postroll = clock - b - p
          /\ clock' - tracks'[i].packets_postroll + TailFrames = clock - p + TailFrames
      BY <1>1, <2>1, <2>4, <2>6, <2>9 DEF Packets
    <3>2. Stretch(i)' = Stretch(i)
      BY <2>4, <2>7, <2>8, <2>9, <3>1
    <3>3. Stretch(i).end # clock
      BY <2>1, <2>5, <2>6, <2>7, <2>9
    <3> QED
      BY <2>2, <3>2, <3>3
  <2>10. CASE ~tracks[i].is_postroll
    <3>1. /\ clock' - Packets(tracks'[i]) = clock - (h + b + p)
          /\ clock' - tracks'[i].packets_body - tracks'[i].packets_postroll = clock - b - p
      BY <1>1, <2>1, <2>4, <2>10 DEF Packets
    <3>2. Stretch(i)' = Stretch(i)
      BY <2>4, <2>7, <2>8, <2>10, <3>1
    <3>3. Stretch(i).end # clock
      BY <2>1, <2>7, <2>10
    <3> QED
      BY <2>2, <3>2, <3>3
  <2> QED
    BY <2>9, <2>10
<1>4. Takes' = Takes
  BY <1>2, <1>3, SameIntervals
<1>5. Running /\ Running'
  BY <1>1 DEF Running
<1> QED
  BY <1>1, <1>3, <1>4, <1>5, AsHear

LEMMA FinalizeCloses ==
    ASSUME CInv, CInv', Finalize
    PROVE  C!Next
<1>1. PICK i \in todo :
              /\ i \in DOMAIN tracks /\ todo' = todo \ {i} /\ Open' = Open \ {i}
              /\ \A j \in Open \ {i} : tracks'[j] = tracks[j]
  BY FinalizedOne, Zenon DEF CInv
<1>2. /\ clock' = clock /\ pc \in {"feed", "split", "close"} /\ pc' # "down"
      /\ pc' = "split" => pc = "split"
      /\ pc' = "open" => pc = "split" /\ todo' = {}
      /\ pc' \in {"close", "exit"} <=> pc = "close"
  BY FinalizeMoves
<1>3. i \in Open /\ i \in Id
  BY <1>1, Counts DEF CInv, FilesInv
<1>4. Running' = Running /\ (~Running <=> pc = "close")
  BY <1>2 DEF Running
<1>5. pc = "split" /\ pc' # "split" => todo' = {}
  BY DEF Finalize
<1>6. ASSUME NEW j \in Open \ {i}
      PROVE  Interval(j)' = Interval(j)
  <2>1. (EndsNow(j))' = EndsNow(j)
    BY <1>1, <1>2, <1>5, <1>6 DEF EndsNow
  <2> QED
    BY <1>1, <1>2, <2>1 DEF Interval, TailFrames
<1>7. Takes' = [j \in Open \ {i} |-> Interval(j)]
  BY <1>1, <1>6 DEF Takes
<1>8. Running => Interval(i).end = clock
  <2>1. /\ Interval(i) = Stretch(i) /\ clock \in Nat
        /\ tracks[i].packets_postroll \in Nat /\ TailFrames \in Nat
    BY <1>3, AllStretches, Counts, TailLength DEF CInv
  <2>2. CASE pc = "feed"
    <3>1. tracks[i].is_postroll /\ tracks[i].packets_postroll = TailFrames
      BY <1>1, <2>2 DEF CInv, CountInv
    <3> QED
      BY <2>1, <3>1 DEF Stretch
  <2>3. CASE pc = "split"
    <3>1. TailFrames = 0 /\ tracks[i].packets_postroll = 0 /\ EndsNow(i)
      BY <1>1, <1>3, <2>3, TailLength DEF CInv, CountInv, EndsNow
    <3> QED
      BY <2>1, <3>1 DEF Stretch
  <2> QED
    BY <1>2, <1>4, <2>2, <2>3
<1> QED
  BY <1>2, <1>3, <1>4, <1>7, <1>8, AsClose

\* The same takes in the same files, and none of them ends.
LEMMA SameStutters ==
    ASSUME CInv, Open' = Open, clock' = clock, Running' = Running,
           \A i \in Open : SameAudio(i) /\ EndsNow(i)' = EndsNow(i)
    PROVE  UNCHANGED C!vars
<1>1. \A i \in Open : Interval(i)' = Interval(i)
  BY DEF SameAudio, Interval, TailFrames
<1> QED
  BY <1>1, SameIntervals, AsStutter

\* The song that was on air gets its end.
LEMMA SongEnds ==
    ASSUME CInv, clock' = clock, Running, Running', Open' = Open, NEW p, p \in Open,
           ~tracks[p].is_postroll, ~EndsNow(p), tracks'[p].is_postroll \/ EndsNow(p)',
           tracks'[p].file = tracks[p].file,
           tracks'[p].packets_body = tracks[p].packets_body,
           tracks'[p].packets_postroll = tracks[p].packets_postroll,
           \A i \in Open \ {p} : Interval(i)' = Interval(i)
    PROVE  C!Next
<1> DEFINE t == tracks[p]
           from == IF t.file = <<>> THEN clock ELSE t.file[1] - 1
           split == clock - t.packets_body - t.packets_postroll
<1>1. t.packets_postroll = 0 /\ clock \in Nat /\ p \in Id
  BY Counts DEF CInv, CountInv
<1>2. Interval(p) = [from |-> from, split |-> split, end |-> -1]
  BY DEF Interval
<1>3. Interval(p)' = [from |-> from, split |-> split, end |-> clock + TailFrames]
  <2>1. Interval(p)' = [from |-> from, split |-> split, end |-> clock - t.packets_postroll + TailFrames]
    BY DEF Interval, TailFrames
  <2>2. clock - t.packets_postroll + TailFrames = clock + TailFrames
    BY <1>1, TailLength
  <2> QED
    BY <2>1, <2>2
<1> HIDE DEF t, from, split
<1>4. Interval(p)' = [Interval(p) EXCEPT !.end = clock + TailFrames]
  BY <1>2, <1>3
<1>5. Takes' = [Takes EXCEPT ![p].end = clock + TailFrames]
  <2>1. Takes' = [i \in Open |-> IF i = p THEN Interval(p)' ELSE Interval(i)]
    BY DEF Takes
  <2>2. Takes = [i \in Open |-> Interval(i)]
    BY DEF Takes
  <2>3. [Takes EXCEPT ![p].end = clock + TailFrames] =
          [Takes EXCEPT ![p] = Interval(p)']
    BY <1>4, <2>2
  <2> QED
    BY <2>1, <2>2, <2>3
<1>6. Interval(p).end = -1
  BY <1>2
<1> QED
  BY <1>1, <1>5, <1>6, AsEndSong

LEMMA OnId3Ends ==
    ASSUME CInv, CInv', NEW s \in Songs, NEW lot \in Lots \cup {NoLot}, OnId3(s, lot)
    PROVE  [C!Next]_(C!vars)
<1>1. /\ pc = "idle" /\ todo = {} /\ clock' = clock
      /\ \/ NotPostroll # {} /\ RepeatTag(lot)
         \/ StartNewSong(s, lot)
         \/ UNCHANGED <<pc, todo, opening, tracks>>
  BY DEF OnId3, CInv, TInv, Handling
<1>2. Running /\ (\A i \in Open : i \in DOMAIN tracks /\ ~EndsNow(i))
  BY <1>1 DEF Running, EndsNow, Open
<1>3. CASE UNCHANGED <<pc, todo, opening, tracks>>
  <2>1. Open' = Open /\ Running' = Running /\ \A i \in Open : SameAudio(i) /\ EndsNow(i)' = EndsNow(i)
    BY <1>3 DEF Open, Running, SameAudio, EndsNow
  <2> QED
    BY <1>1, <2>1, SameStutters
<1>4. CASE NotPostroll # {} /\ RepeatTag(lot)
  <2>1. SameTakes /\ pc' = pc /\ todo' = todo
    BY <1>4, RepeatKeeps DEF RepeatTag, CInv
  <2>2. Open' = Open /\ Running' = Running /\ \A i \in Open : SameAudio(i) /\ EndsNow(i)' = EndsNow(i)
    BY <1>2, <2>1 DEF SameTakes, Running, EndsNow
  <2> QED
    BY <1>1, <2>2, SameStutters
<1>5. CASE StartNewSong(s, lot)
  <2>1. Running' /\ Running' = Running
    BY <1>2, <1>5 DEF StartNewSong, Running
  <2>2. CASE NotPostroll # {} /\ PostrollOn
    <3>1. /\ pc' = "open" /\ Open' = Open
          /\ \A i \in DOMAIN tracks : i # Primary => tracks'[i] = tracks[i]
          /\ tracks'[Primary].is_postroll
          /\ tracks'[Primary].file = tracks[Primary].file
          /\ tracks'[Primary].packets_body = tracks[Primary].packets_body
          /\ tracks'[Primary].packets_postroll = tracks[Primary].packets_postroll
      BY <1>5, <2>2, StartsPostroll DEF CInv
    <3>2. \A i \in Open : ~EndsNow(i)'
      BY <3>1 DEF EndsNow
    <3>3. \A i \in Open \ {Primary} : Interval(i)' = Interval(i)
      BY <1>1, <1>2, <3>1, <3>2 DEF Interval, TailFrames
    <3>4. CASE Primary \in Open
      <4>1. ~tracks[Primary].is_postroll
        BY <2>2, NewestPostroll DEF CInv, NotPostroll
      <4>2. PICK p \in Open : p = Primary
        BY <3>4
      <4>3. /\ ~tracks[p].is_postroll /\ ~EndsNow(p) /\ tracks'[p].is_postroll
            /\ tracks'[p].file = tracks[p].file
            /\ tracks'[p].packets_body = tracks[p].packets_body
            /\ tracks'[p].packets_postroll = tracks[p].packets_postroll
            /\ \A i \in Open \ {p} : Interval(i)' = Interval(i)
        BY <1>2, <3>1, <3>3, <4>1, <4>2
      <4> QED
        BY <1>1, <1>2, <2>1, <3>1, <4>3, SongEnds
    <3>5. CASE Primary \notin Open
      <4>1. \A i \in Open : Interval(i)' = Interval(i)
        BY <3>3, <3>5
      <4> QED
        BY <1>1, <2>1, <3>1, <4>1, SameIntervals, AsStutter
    <3> QED
      BY <3>4, <3>5
  <2>3. CASE NotPostroll = {}
    <3>1. pc' = "open" /\ tracks' = tracks
      BY <1>5, <2>3 DEF StartNewSong
    <3>2. Open' = Open /\ \A i \in Open : SameAudio(i) /\ EndsNow(i)' = EndsNow(i)
      BY <1>1, <3>1 DEF Open, SameAudio, EndsNow
    <3> QED
      BY <1>1, <2>1, <3>2, SameStutters
  <2>4. CASE NotPostroll # {} /\ ~PostrollOn
    <3>1. /\ todo' = {Primary} \cap Open /\ tracks' = tracks
          /\ pc' = IF todo' = {} THEN "open" ELSE "split"
      BY <1>5, <2>4 DEF StartNewSong
    <3>2. Open' = Open
      BY <3>1 DEF Open
    <3>3. \A i \in Open \ {Primary} : ~EndsNow(i)'
      BY <3>1 DEF EndsNow
    <3>4. \A i \in Open \ {Primary} : Interval(i)' = Interval(i)
      BY <1>1, <1>2, <3>1, <3>3 DEF Interval, TailFrames
    <3>5. CASE Primary \in Open
      <4>1. ~tracks[Primary].is_postroll /\ Primary \in todo' /\ pc' = "split"
        BY <2>4, <3>1, <3>5, NewestPostroll DEF CInv, NotPostroll
      <4>2. PICK p \in Open : p = Primary
        BY <3>5
      <4>3. EndsNow(p)'
        BY <4>1, <4>2 DEF EndsNow
      <4>4. ~tracks[p].is_postroll /\ ~EndsNow(p) /\ \A i \in Open \ {p} : Interval(i)' = Interval(i)
        BY <1>2, <3>4, <4>1, <4>2
      <4> QED
        BY <1>1, <1>2, <2>1, <3>1, <3>2, <4>3, <4>4, SongEnds
    <3>6. CASE Primary \notin Open
      <4>1. \A i \in Open : Interval(i)' = Interval(i)
        BY <3>4, <3>6
      <4> QED
        BY <1>1, <2>1, <3>2, <4>1, SameIntervals, AsStutter
    <3> QED
      BY <3>5, <3>6
  <2> QED
    BY <2>2, <2>3, <2>4
<1> QED
  BY <1>1, <1>3, <1>4, <1>5

LEMMA OpenTrackBegins ==
    ASSUME CInv, CInv', OpenTrack
    PROVE  [C!Next]_(C!vars)
<1>1. /\ pc = "open" /\ pc' = "idle" /\ clock' = clock
      /\ \/ /\ last_id' = last_id + 1
            /\ tracks' = With(tracks, last_id', NewTrack(opening.song, opening.lot))
         \/ tracks' = tracks
  BY DEF OpenTrack
<1>2. Running /\ Running' /\ Running' = Running /\ (\A i : ~EndsNow(i) /\ ~EndsNow(i)')
  BY <1>1 DEF Running, EndsNow
<1>3. CASE tracks' = tracks
  <2>1. Open' = Open /\ \A i \in Open : SameAudio(i) /\ EndsNow(i)' = EndsNow(i)
    BY <1>1, <1>3 DEF Open, SameAudio, EndsNow
  <2> QED
    BY <1>1, <1>2, <2>1, SameStutters
<1>4. CASE /\ last_id' = last_id + 1
           /\ tracks' = With(tracks, last_id', NewTrack(opening.song, opening.lot))
  <2>1. last_id' \notin DOMAIN tracks /\ clock \in Nat /\ last_id' \in Id
    <3>1. last_id' \notin DOMAIN tracks /\ clock \in Nat /\ last_id \in Nat
      BY <1>4, TracksTyped DEF CInv
    <3>2. last_id' \in 0 .. MaxTakes
      BY TypeParts DEF CInv, TInv, CountsType, TypeOK
    <3> QED
      BY <1>4, <3>1, <3>2, RecorderAssumption DEF Id
  <2> DEFINE t == NewTrack(opening.song, opening.lot)
             n == preroll_count
  <2>2. /\ t.tmp_fp /\ ~t.is_postroll /\ t.packets_preroll = n
        /\ t.packets_body = 0 /\ t.packets_postroll = 0
    BY DEF NewTrack
  <2>3. n = (IF clock < PrerollCap THEN clock ELSE PrerollCap) /\ n \in Nat
    BY <2>1, RecorderAssumption DEF CInv, RingInv
  <2> HIDE DEF t, n
  <2>4. PICK k \in Id : k = last_id'
    BY <2>1
  <2>5. /\ DOMAIN tracks' = DOMAIN tracks \cup {k} /\ k \notin DOMAIN tracks
        /\ tracks'[k] = t /\ \A i \in DOMAIN tracks : tracks'[i] = tracks[i]
    BY <1>4, <2>1, <2>4 DEF With, t
  <2>6. Open' = Open \cup {k} /\ k \notin Open /\ \A i \in Open : tracks'[i] = tracks[i]
    BY <2>2, <2>5 DEF Open
  <2>7. \A i \in Open : Interval(i)' = Interval(i)
    BY <1>1, <1>2, <2>6 DEF Interval, TailFrames
  <2>8. Interval(k)' = [from |-> IF clock < PrerollCap THEN 0 ELSE clock - PrerollCap,
                        split |-> clock, end |-> -1]
    <3>1. Interval(k)' = Stretch(k)'
      BY <2>6, StretchesNext DEF CInv
    <3>2. Stretch(k)' = [from |-> clock - Packets(t), split |-> clock - 0 - 0, end |-> -1]
      BY <1>1, <1>2, <2>2, <2>5 DEF Stretch, Packets
    <3>3. Packets(t) = n
      BY <2>2, <2>3 DEF Packets
    <3>4. /\ clock - Packets(t) = IF clock < PrerollCap THEN 0 ELSE clock - PrerollCap
          /\ clock - 0 - 0 = clock
      BY <2>1, <2>3, <3>3, RecorderAssumption
    <3> QED
      BY <3>1, <3>2, <3>4
  <2>9. \A j \in Open : Interval(j).end # -1
    <3> SUFFICES ASSUME NEW j \in Open PROVE Interval(j).end # -1
      OBVIOUS
    <3>1. Interval(j) = Stretch(j)
      BY AllStretches DEF CInv
    <3>2. tracks[j].is_postroll /\ j \notin todo
      BY <1>1 DEF CInv, TakesInv, TInv, Handling
    <3>3. tracks[j].packets_postroll < TailFrames /\ tracks[j].packets_postroll \in Nat
      BY <3>2, Ahead, Counts DEF CInv
    <3> QED
      BY <2>1, <3>1, <3>2, <3>3, TailLength DEF Stretch
  <2>10. Takes' = [j \in Open \cup {k} |->
                     IF j = k
                     THEN [from |-> IF clock < PrerollCap THEN 0 ELSE clock - PrerollCap,
                           split |-> clock, end |-> -1]
                     ELSE Interval(j)]
    <3>1. Takes' = [j \in Open \cup {k} |-> Interval(j)']
      BY <2>6 DEF Takes
    <3>2. \A j \in Open \cup {k} : j # k => Interval(j)' = Interval(j)
      BY <2>7
    <3> HIDE DEF Takes
    <3> QED
      BY <2>8, <3>1, <3>2
  <2>11. C!Next
    BY <1>1, <1>2, <2>6, <2>9, <2>10, AsBegin
  <2> QED
    BY <2>11
<1> QED
  BY <1>1, <1>3, <1>4

LEMMA CaptureStep ==
    ASSUME CInv, CInv', [Next]_vars
    PROVE  [C!Next]_(C!vars)
<1>0. CASE UNCHANGED <<pc, todo, tracks, clock>>
  <2>1. Open' = Open /\ Running' = Running /\ \A i \in Open : SameAudio(i) /\ EndsNow(i)' = EndsNow(i)
    BY <1>0 DEF Open, Running, SameAudio, EndsNow
  <2> QED
    BY <1>0, <2>1, SameStutters
<1>1. CASE Create
  <2>1. /\ pc = "down" /\ pc' = "idle" /\ clock = 0 /\ clock' = clock /\ tracks' = tracks
        /\ tracks = Empty
    BY <1>1 DEF Create, CInv, CountInv, TInv
  <2>2. Open = {} /\ Open' = {}
    BY <2>1, EmptyType DEF Open
  <2>3. Takes' = Takes
    BY <2>2 DEF Takes
  <2> QED
    BY <2>1, <2>3, AsStart DEF Running
<1>2. CASE OnHdc
  BY <1>2, OnHdcHears
<1>3. CASE Finalize
  BY <1>3, FinalizeCloses
<1>4. CASE OpenTrack
  BY <1>4, OpenTrackBegins
<1>5. ASSUME NEW s \in Songs, NEW lot \in Lots \cup {NoLot}, OnId3(s, lot)
      PROVE  [C!Next]_(C!vars)
  BY <1>5, OnId3Ends
<1>6. ASSUME NEW lot \in Lots, OnLot(lot)
      PROVE  [C!Next]_(C!vars)
  <2>1. SameTakes /\ pc' = pc /\ todo' = todo /\ clock' = clock /\ Open \subseteq DOMAIN tracks
    BY <1>6, OnLotKeeps DEF CInv, OnLot, event, Open
  <2>2. Open' = Open /\ Running' = Running /\ \A i \in Open : SameAudio(i) /\ EndsNow(i)' = EndsNow(i)
    BY <2>1 DEF SameTakes, Running, EndsNow
  <2> QED
    BY <2>1, <2>2, SameStutters
<1>7. ASSUME NEW i \in Id, Worker(i) \/ OrphanExits(i)
      PROVE  [C!Next]_(C!vars)
  BY <1>0, <1>7, Zenon DEF Worker, OrphanExits, event
<1>8. ASSUME NEW clean \in BOOLEAN, Destroy(clean)
      PROVE  [C!Next]_(C!vars)
  <2>1. pc = "idle" /\ pc' \in {"close", "exit"} /\ clock' = clock
    BY <1>8 DEF Destroy
  <2>2. CASE clean
    <3>1. tracks' = [i \in Open |-> tracks[i]]
      BY <1>8, <2>2 DEF Destroy
    <3>2. Open' = Open /\ \A i \in Open : tracks'[i] = tracks[i]
      BY <3>1 DEF Open
    <3>3. \A i \in Open : Interval(i)' = Interval(i)
      BY <2>1, <3>2 DEF Interval, EndsNow, TailFrames
    <3> QED
      BY <2>1, <3>2, <3>3, SameIntervals, AsStop DEF Running
  <2>3. CASE ~clean
    <3>1. tracks' = Empty
      BY <1>8, <2>3 DEF Destroy
    <3>2. Open' = {}
      BY <3>1, EmptyType DEF Open
    <3> QED
      BY <2>1, <3>2, NoIntervals, AsStop DEF Running
  <2> QED
    BY <2>2, <2>3
<1>9. CASE Exit \/ Crash
  <2>1. tracks' = Empty /\ pc' = "down" /\ clock' = 0
    BY <1>9 DEF Exit, Crash, ProcessEnds
  <2>2. Open' = {}
    BY <2>1, EmptyType DEF Open
  <2> QED
    BY <2>1, <2>2, NoIntervals, AsStop DEF Running
<1>10. CASE UNCHANGED vars
  BY <1>0, <1>10 DEF vars, event
<1> QED
  BY <1>1, <1>2, <1>3, <1>4, <1>5, <1>6, <1>7, <1>8, <1>9, <1>10, Zenon DEF Next

LEMMA CaptureInit == Init => C!Init
<1> SUFFICES ASSUME Init PROVE C!Init
  OBVIOUS
<1>1. pc = "down" /\ clock = 0 /\ tracks = Empty
  BY DEF Init
<1>2. Open = {}
  BY <1>1, EmptyType DEF Open
<1> QED
  BY <1>1, <1>2 DEF C!Init

\* What the recorder writes into its files is what Capture promises: each take
\* from the pre-roll before its song to the end of the post-roll after it, one
\* song on air at a time, and nothing heard while a take is due to be closed.
THEOREM RecorderCaptures == Spec => ImplementsCapture
<1>1. Init => CInv
  <2>1. Init => Open = {} /\ todo = {} /\ pc = "down" /\ clock = 0
    BY EmptyType DEF Init, Open
  <2>2. Init => TakesInv /\ CountInv
    BY <2>1, NoTakes, NoCount
  <2> QED
    BY <2>2, TInit, FilesInit, RingInit DEF CInv
<1>2. CInv /\ [Next]_vars => CInv'
  BY TInvStep, FilesStep, RingStep, TakesStep, CountStep, Zenon DEF CInv
<1>3. CInv /\ CInv' /\ [Next]_vars => [C!Next]_(C!vars)
  BY CaptureStep
<1> QED
  BY <1>1, <1>2, <1>3, CaptureInit, PTL DEF Spec, ImplementsCapture, C!Spec
=============================================================================
