------------------------------ MODULE Recorder ------------------------------
(***************************************************************************)
(* The song recorder of src/src/recorder.c: the pre-roll ring, the list of *)
(* tracks being written, the LOT picture cache, the hand-over of a         *)
(* finished track to a detached remux worker, the files all of them share, *)
(* and process exits and restarts.                                         *)
(*                                                                         *)
(* The event thread runs the handlers recorder_on_hdc, recorder_on_id3,    *)
(* recorder_on_lot and recorder_destroy one at a time.  A handler is one   *)
(* step unless it finalizes tracks: finalize_track may have to run the     *)
(* remux job itself, and workers run meanwhile, so pc and todo remember    *)
(* how far the handler got.  Every worker is a thread of its own.          *)
(***************************************************************************)
EXTENDS Integers, FiniteSets, Sequences

CONSTANTS
    Songs,          \* the (title, artist) pairs that ID3 tags announce
    Titled,         \* those finalize_track accepts as valid metadata
    FileName,       \* FileName[s]: sanitised <artist>/<title> of song s
    Lots,           \* LOT ids of pictures
    PrerollCap,     \* preroll_capacity, in frames
    PostrollOn,     \* postroll_sec > 0.0
    PostrollFrames, \* postroll_sec rounded to frames, 0 for a tiny post-roll
    MinPackets,     \* min_song_packets
    RecordInitial,  \* record_initial
    CacheSize,      \* LOT_CACHE_SIZE
    MaxSuffix,      \* highest _NNN suffix tried, 999 in the code
    Seconds,        \* what time(NULL) may return
    Faults,         \* the library calls that may fail
    MaxFrames,      \* bound: frames one process accepts
    MaxTakes,       \* bound: tracks opened over all processes
    MaxPictures,    \* bound: LOT pictures one process receives
    MaxExits        \* bound: exits and crashes

NoLot == -1
FaultNames == {"fopen", "art", "rename", "job", "thread", "ffmpeg"}

ASSUME RecorderAssumption ==
    /\ Titled \subseteq Songs
    /\ DOMAIN FileName = Songs
    /\ Lots \subseteq Nat
    /\ PrerollCap \in Nat
    /\ PostrollOn \in BOOLEAN
    /\ PostrollFrames \in Nat
    /\ MinPackets \in Nat
    /\ RecordInitial \in BOOLEAN
    /\ CacheSize \in Nat \ {0}
    /\ MaxSuffix \in Nat /\ Seconds \in SUBSET (Nat \ {0}) \ {{}}
    /\ Faults \subseteq FaultNames
    /\ MaxFrames \in Nat /\ MaxTakes \in Nat
    /\ MaxPictures \in Nat /\ MaxExits \in Nat

VARIABLES
    \* the song_recorder of the running process
    pc,             \* what the event thread is doing
    todo,           \* tracks the current handler has yet to finalize
    opening,        \* the song start_new_song is about to open
    helping,        \* the job the event thread runs itself, or 0
    preroll,        \* preroll[i]: the number of the frame in slot i
    preroll_head,
    preroll_count,
    has_seen_first_transition,
    tracks,         \* id -> active track; the list is newest id first
    lot_cache,
    lot_cache_idx,
    \* what outlives the recorder
    jobs,           \* id -> remux_job_t of a live worker
    orphans,        \* id -> the destination of an ffmpeg whose parent died
    tmp_rec,        \* ids of the .tmp_rec_ files in base_dir
    staging,        \* ids of the .staging_ files in base_dir
    tmp_art,        \* ids of the .tmp_art_ files in the artist directories
    archive,        \* destination -> the .m4a there
    info,           \* destination -> the take its .txt describes
    \* counters and history
    clock,          \* frames this process has accepted
    last_id,        \* g_song_seq: ids handed out so far
    pictures,       \* the LOT ids of the pictures of this process, in order
    exits

event == <<pc, todo, opening, helping>>
ring == <<preroll, preroll_head, preroll_count>>
pics == <<lot_cache, lot_cache_idx, pictures>>
temps == <<tmp_rec, staging, tmp_art>>
disk == <<archive, info>>
vars == <<event, ring, has_seen_first_transition, tracks, pics, jobs,
          orphans, temps, disk, clock, last_id, exits>>

Id == 1 .. MaxTakes
NoSong == [song |-> "none", lot |-> NoLot]
NoPicture == [lot |-> NoLot, data |-> 0]
LastResort == {MaxSuffix + t : t \in Seconds}     \* suffixes made of the time
Dests == {FileName[s] : s \in Songs} \X ((1 .. MaxSuffix) \cup LastResort)

Newest(S) == CHOOSE i \in S : \A j \in S : j <= i
Without(f, i) == [j \in DOMAIN f \ {i} |-> f[j]]
With(f, i, v) == [j \in DOMAIN f \cup {i} |-> IF j = i THEN v ELSE f[j]]
Empty == [i \in {} |-> 0]

-----------------------------------------------------------------------------
(* Reading the recorder's data *)

\* Faulty: always starts at the head, also in the first round.
PrerollFromHead ==
    [i \in 1 .. preroll_count |-> preroll[(preroll_head + i - 1) % PrerollCap]]

\* The frames of the pre-roll ring, oldest first.
PrerollFramesHeld ==
    LET start == IF preroll_count < PrerollCap THEN 0 ELSE preroll_head
    IN  [i \in 1 .. preroll_count |-> preroll[(start + i - 1) % PrerollCap]]

Open == {i \in DOMAIN tracks : tracks[i].tmp_fp}
NotPostroll == {i \in DOMAIN tracks : ~tracks[i].is_postroll}
Primary == Newest(NotPostroll)     \* get_primary_track, when NotPostroll # {}

\* Faulty: takes the first picture there is.
AnyCachedArt(lot) ==
    LET hits == {i \in 0 .. CacheSize - 1 : lot_cache[i].data # 0}
    IN  IF lot = NoLot \/ hits = {} THEN 0
        ELSE lot_cache[CHOOSE i \in hits : TRUE].data

\* The lowest cache slot that holds the LOT id wins.
CachedArt(lot) ==
    LET hits == {i \in 0 .. CacheSize - 1 :
                    lot_cache[i].data # 0 /\ lot_cache[i].lot = lot}
    IN  IF lot = NoLot \/ hits = {} THEN 0
        ELSE lot_cache[CHOOSE i \in hits : \A j \in hits : i <= j].data

\* Faulty: does not look for a free suffix.
FirstSuffix(name) == {<<name, 1>>}

\* resolve_destination_paths: the first suffix nobody has created a file for.
\* After the last one the name is made of the current second, and there may be
\* a file of that name: nobody looks, and two takes may share a second.
Resolve(name) ==
    LET free == {n \in 1 .. MaxSuffix : <<name, n>> \notin DOMAIN archive}
    IN  IF free = {} THEN {name} \X LastResort
        ELSE {<<name, CHOOSE n \in free : \A m \in free : n <= m>>}

Packets(t) == t.packets_preroll + t.packets_body + t.packets_postroll
Eligible(t) == Packets(t) >= MinPackets /\ t.song \in Titled

NewTrack(s, lot) ==
    [song |-> s, tmp_fp |-> TRUE, xhdr_lot |-> lot, art |-> CachedArt(lot),
     file |-> PrerollFramesHeld, packets_preroll |-> preroll_count,
     packets_body |-> 0, packets_postroll |-> 0,
     is_postroll |-> FALSE, remaining |-> 0]

-----------------------------------------------------------------------------
(* recorder_create and the initial state *)

EmptyRing == [i \in 0 .. PrerollCap - 1 |-> 0]
EmptyCache == [i \in 0 .. CacheSize - 1 |-> NoPicture]

Init ==
    /\ pc = "down" /\ todo = {} /\ opening = NoSong /\ helping = 0
    /\ preroll = EmptyRing /\ preroll_head = 0 /\ preroll_count = 0
    /\ has_seen_first_transition = FALSE
    /\ tracks = Empty
    /\ lot_cache = EmptyCache /\ lot_cache_idx = 0
    /\ jobs = Empty /\ orphans = Empty
    /\ tmp_rec = {} /\ staging = {} /\ tmp_art = {}
    /\ archive = Empty /\ info = Empty
    /\ clock = 0 /\ last_id = 0 /\ pictures = <<>> /\ exits = 0

\* A new process sweeps .tmp_* and .staging_* out of base_dir; it does not
\* look into the artist directories, where the .tmp_art_ files are.
Create ==
    /\ pc = "down"
    /\ pc' = "idle"
    /\ tmp_rec' = {} /\ staging' = {}
    /\ UNCHANGED <<todo, opening, helping, ring, has_seen_first_transition,
                   tracks, pics, jobs, orphans, tmp_art, disk, clock,
                   last_id, exits>>

-----------------------------------------------------------------------------
(* recorder_on_hdc *)

\* Faulty: the post-roll is counted as body.
FeedCountsBody(t, frame) ==
    IF ~t.tmp_fp THEN t
    ELSE [t EXCEPT !.file = Append(@, frame), !.packets_body = @ + 1,
                   !.remaining = IF @ > 0 THEN @ - 1 ELSE 0]

\* One frame for one track: a finalized track still in the list is skipped.
Feed(t, frame) ==
    IF ~t.tmp_fp THEN t
    ELSE IF t.is_postroll
    THEN [t EXCEPT !.file = Append(@, frame),
                   !.packets_postroll = @ + 1,
                   !.remaining = IF @ > 0 THEN @ - 1 ELSE 0]
    ELSE [t EXCEPT !.file = Append(@, frame), !.packets_body = @ + 1]

\* Faulty: the head wraps one slot too late.
StoreWrapsLate(frame) ==
    IF PrerollCap = 0 THEN UNCHANGED ring
    ELSE /\ preroll' = [preroll EXCEPT ![preroll_head] = frame]
         /\ preroll_head' = (preroll_head + 1) % (PrerollCap + 1)
         /\ preroll_count' = IF preroll_count < PrerollCap
                             THEN preroll_count + 1 ELSE preroll_count

StoreInRing(frame) ==
    IF PrerollCap = 0 THEN UNCHANGED ring
    ELSE /\ preroll' = [preroll EXCEPT ![preroll_head] = frame]
         /\ preroll_head' = (preroll_head + 1) % PrerollCap
         /\ preroll_count' = IF preroll_count < PrerollCap
                             THEN preroll_count + 1 ELSE preroll_count

\* Faulty: looks at the countdown before the frame.
OnHdcLate ==
    /\ pc = "idle" /\ helping = 0 /\ clock < MaxFrames
    /\ clock' = clock + 1
    /\ tracks' = [i \in DOMAIN tracks |-> Feed(tracks[i], clock')]
    /\ todo' = {i \in Open : tracks[i].is_postroll /\ tracks[i].remaining = 0}
    /\ pc' = IF todo' = {} THEN "idle" ELSE "feed"
    /\ StoreInRing(clock')
    /\ UNCHANGED <<opening, helping, has_seen_first_transition, pics, jobs,
                   orphans, temps, disk, last_id, exits>>

\* A frame of the recorded program that is neither flagged nor rejected by
\* the remuxer.  Every other frame leaves the recorder as it is.
OnHdc ==
    /\ pc = "idle" /\ helping = 0 /\ clock < MaxFrames
    /\ clock' = clock + 1
    /\ tracks' = [i \in DOMAIN tracks |-> Feed(tracks[i], clock')]
    /\ todo' = {i \in Open : tracks[i].is_postroll /\ tracks'[i].remaining = 0}
    /\ pc' = IF todo' = {} THEN "idle" ELSE "feed"
    /\ StoreInRing(clock')
    /\ UNCHANGED <<opening, helping, has_seen_first_transition, pics, jobs,
                   orphans, temps, disk, last_id, exits>>

-----------------------------------------------------------------------------
(* finalize_track *)

\* The take becomes a remux job.  Any of the staging calls may fail: without
\* the rename the job reads the .tmp_rec_ file, without the picture file it
\* embeds none, without a thread the event thread runs the job itself.
HandOver(i) ==
    \E art, renamed, spawned \in BOOLEAN :
        /\ art => tracks[i].art # 0
        /\ ~art => tracks[i].art = 0 \/ "art" \in Faults
        /\ ~renamed => "rename" \in Faults
        /\ ~spawned => "thread" \in Faults
        /\ \E d \in Resolve(FileName[tracks[i].song]) :
              jobs' = With(jobs, i, [dest |-> d, has_art |-> art,
                                     stage |-> "queued", ok |-> FALSE])
        /\ tmp_art' = IF art THEN tmp_art \cup {i} ELSE tmp_art
        /\ tmp_rec' = IF renamed THEN tmp_rec \ {i} ELSE tmp_rec
        /\ staging' = IF renamed THEN staging \cup {i} ELSE staging
        /\ helping' = IF spawned THEN 0 ELSE i

\* Faulty: forgets the file.
DiscardKeepsFile(i) == UNCHANGED <<tmp_rec, jobs, tmp_art, staging, helping>>

\* Too short, no valid metadata, or no memory for the job: every file the
\* track had is unlinked.
Discard(i) ==
    /\ tmp_rec' = tmp_rec \ {i}
    /\ UNCHANGED <<jobs, tmp_art, staging, helping>>

Finalize ==
    /\ pc \in {"feed", "split", "close"} /\ helping = 0 /\ todo # {}
    /\ LET i == Newest(todo)
       IN  /\ todo' = todo \ {i}
           /\ tracks' = IF pc = "split"
                        THEN [tracks EXCEPT ![i].tmp_fp = FALSE, ![i].art = 0]
                        ELSE Without(tracks, i)
           /\ \/ Eligible(tracks[i]) /\ HandOver(i)
              \/ ~Eligible(tracks[i]) /\ Discard(i)
              \/ Eligible(tracks[i]) /\ "job" \in Faults /\ Discard(i)
    /\ pc' = IF todo' # {} THEN pc
             ELSE CASE pc = "feed"  -> "idle"
                    [] pc = "split" -> "open"
                    [] pc = "close" -> "exit"
    /\ UNCHANGED <<opening, ring, has_seen_first_transition, pics, orphans,
                   disk, clock, last_id, exits>>

-----------------------------------------------------------------------------
(* recorder_on_id3 *)

\* The same song again only fills in the LOT id the track still lacks.
RepeatTag(lot) ==
    /\ tracks' = IF tracks[Primary].xhdr_lot = NoLot /\ lot # NoLot
                 THEN [tracks EXCEPT
                         ![Primary].xhdr_lot = lot,
                         ![Primary].art = IF @ = 0 THEN CachedArt(lot) ELSE @]
                 ELSE tracks
    /\ UNCHANGED <<pc, todo, opening>>

\* start_new_song up to the point where it opens the new track: the running
\* track goes into its post-roll or, without one, is finalized and left in
\* the list.
StartNewSong(s, lot) ==
    /\ last_id < MaxTakes
    /\ opening' = [song |-> s, lot |-> lot]
    /\ IF NotPostroll = {}
       THEN pc' = "open" /\ UNCHANGED <<tracks, todo>>
       ELSE IF PostrollOn
       THEN /\ tracks' = [tracks EXCEPT ![Primary].is_postroll = TRUE,
                                        ![Primary].remaining = PostrollFrames]
            /\ pc' = "open" /\ UNCHANGED todo
       ELSE /\ todo' = {Primary} \cap Open
            /\ pc' = IF todo' = {} THEN "open" ELSE "split"
            /\ UNCHANGED tracks

OnId3(s, lot) ==
    /\ pc = "idle" /\ helping = 0
    /\ has_seen_first_transition' = TRUE
    /\ IF /\ has_seen_first_transition
          /\ NotPostroll # {} /\ tracks[Primary].song = s
       THEN RepeatTag(lot)
       ELSE IF has_seen_first_transition \/ RecordInitial
       THEN StartNewSong(s, lot)
       ELSE UNCHANGED <<pc, todo, opening, tracks>>
    /\ UNCHANGED <<helping, ring, pics, jobs, orphans, temps, disk, clock,
                   last_id, exits>>

\* The rest of start_new_song.  Without memory or a file there is no track.
OpenTrack ==
    /\ pc = "open" /\ helping = 0
    /\ pc' = "idle" /\ opening' = NoSong
    /\ \/ /\ last_id' = last_id + 1
          /\ tracks' = With(tracks, last_id', NewTrack(opening.song, opening.lot))
          /\ tmp_rec' = tmp_rec \cup {last_id'}
       \/ /\ "fopen" \in Faults
          /\ UNCHANGED <<last_id, tracks, tmp_rec>>
    /\ UNCHANGED <<todo, helping, ring, has_seen_first_transition, pics, jobs,
                   orphans, staging, tmp_art, disk, clock, exits>>

-----------------------------------------------------------------------------
(* recorder_on_lot: pictures are numbered in the order they arrive *)

OnLot(lot) ==
    /\ pc = "idle" /\ helping = 0 /\ Len(pictures) < MaxPictures
    /\ pictures' = Append(pictures, lot)
    /\ lot_cache' = [lot_cache EXCEPT ![lot_cache_idx] =
                        [lot |-> lot, data |-> Len(pictures')]]
    /\ lot_cache_idx' = (lot_cache_idx + 1) % CacheSize
    /\ tracks' = [i \in DOMAIN tracks |->
                    IF /\ tracks[i].tmp_fp /\ tracks[i].art = 0
                       /\ tracks[i].xhdr_lot = lot
                    THEN [tracks[i] EXCEPT !.art = Len(pictures')]
                    ELSE tracks[i]]
    /\ UNCHANGED <<event, ring, has_seen_first_transition, jobs, orphans,
                   temps, disk, clock, last_id, exits>>

-----------------------------------------------------------------------------
(* remux_worker_thread.  ffmpeg -y truncates its output when it opens it. *)

Workers == DOMAIN jobs \cup DOMAIN orphans
DestOf(i) == IF i \in DOMAIN jobs THEN jobs[i].dest ELSE orphans[i]

\* ffmpeg i has written all it had to d.  A file somebody else truncated or
\* created since then holds a mixture; a file unlinked since then is gone.
\* rivals: the other workers that had d as their destination at that moment.
Written(i, d) ==
    IF d \notin DOMAIN archive THEN archive
    ELSE IF archive[d].take # i THEN [archive EXCEPT ![d].whole = FALSE]
    ELSE [archive EXCEPT ![d].whole = TRUE,
                         ![d].rivals = {j \in Workers \ {i} : DestOf(j) = d}]

ForkFfmpeg(i) ==
    /\ jobs[i].stage = "queued"
    /\ jobs' = [jobs EXCEPT ![i].stage = "remuxing"]
    /\ archive' = With(archive, jobs[i].dest,
                       [take |-> i, whole |-> FALSE, rivals |-> {}])
    /\ UNCHANGED <<helping, tmp_art, tmp_rec, staging, info>>

\* fork, exec or opening the input fails: no output was touched.
NoFfmpeg(i) ==
    /\ jobs[i].stage = "queued" /\ "ffmpeg" \in Faults
    /\ jobs' = [jobs EXCEPT ![i].stage = "exited"]
    /\ UNCHANGED <<helping, tmp_art, tmp_rec, staging, disk>>

FfmpegExits(i) ==
    /\ jobs[i].stage = "remuxing"
    /\ \/ /\ jobs' = [jobs EXCEPT ![i].stage = "exited", ![i].ok = TRUE]
          /\ archive' = Written(i, jobs[i].dest)
       \/ /\ "ffmpeg" \in Faults
          /\ jobs' = [jobs EXCEPT ![i].stage = "exited"]
          /\ UNCHANGED archive
    /\ UNCHANGED <<helping, tmp_art, tmp_rec, staging, info>>

\* The exit status and the size of whatever is at the destination decide
\* whether the .txt is written or the destination unlinked.  A whole file is
\* large enough; one that is being written may not be yet.
Verify(i) ==
    LET d == jobs[i].dest
    IN  /\ jobs[i].stage = "exited"
        /\ jobs' = [jobs EXCEPT ![i].stage = "cleanup"]
        /\ \/ /\ jobs[i].ok /\ d \in DOMAIN archive
              /\ info' = With(info, d, i) /\ UNCHANGED archive
           \/ /\ jobs[i].ok /\ d \in DOMAIN archive => ~archive[d].whole
              /\ archive' = Without(archive, d) /\ UNCHANGED info
        /\ UNCHANGED <<helping, tmp_art, tmp_rec, staging>>

\* Faulty: keeps the audio of a take whose packaging failed.
CleanupIfOk(i) ==
    /\ jobs[i].stage = "cleanup"
    /\ tmp_art' = IF jobs[i].has_art THEN tmp_art \ {i} ELSE tmp_art
    /\ tmp_rec' = IF jobs[i].ok THEN tmp_rec \ {i} ELSE tmp_rec
    /\ staging' = IF jobs[i].ok THEN staging \ {i} ELSE staging
    /\ jobs' = Without(jobs, i)
    /\ helping' = IF helping = i THEN 0 ELSE helping
    /\ UNCHANGED disk

Cleanup(i) ==
    /\ jobs[i].stage = "cleanup"
    /\ tmp_art' = IF jobs[i].has_art THEN tmp_art \ {i} ELSE tmp_art
    /\ tmp_rec' = tmp_rec \ {i} /\ staging' = staging \ {i}
    /\ jobs' = Without(jobs, i)
    /\ helping' = IF helping = i THEN 0 ELSE helping
    /\ UNCHANGED disk

Worker(i) ==
    /\ i \in DOMAIN jobs
    /\ \/ ForkFfmpeg(i) \/ NoFfmpeg(i) \/ FfmpegExits(i)
       \/ Verify(i) \/ Cleanup(i)
    /\ UNCHANGED <<pc, todo, opening, ring, has_seen_first_transition, tracks,
                   pics, orphans, clock, last_id, exits>>

\* An ffmpeg whose parent is gone ends, having written everything or not.
OrphanExits(i) ==
    /\ i \in DOMAIN orphans
    /\ orphans' = Without(orphans, i)
    /\ archive' \in {archive, Written(i, orphans[i])}
    /\ UNCHANGED <<event, ring, has_seen_first_transition, tracks, pics, jobs,
                   temps, info, clock, last_id, exits>>

-----------------------------------------------------------------------------
(* recorder_destroy and the end of the process *)

\* A clean shutdown finalizes the open tracks, an interrupted one drops them.
Destroy(clean) ==
    /\ pc = "idle" /\ helping = 0 /\ exits < MaxExits
    /\ IF clean
       THEN /\ tracks' = [i \in Open |-> tracks[i]]
            /\ todo' = Open
            /\ pc' = IF Open = {} THEN "exit" ELSE "close"
            /\ UNCHANGED tmp_rec
       ELSE /\ tracks' = Empty
            /\ tmp_rec' = tmp_rec \ Open
            /\ pc' = "exit" /\ UNCHANGED todo
    /\ UNCHANGED <<opening, helping, ring, has_seen_first_transition, pics,
                   jobs, orphans, staging, tmp_art, disk, clock, last_id,
                   exits>>

\* The process ends: its threads die where they are, an ffmpeg they waited
\* for may go on by itself.
ProcessEnds ==
    /\ pc' = "down" /\ todo' = {} /\ opening' = NoSong /\ helping' = 0
    /\ preroll' = EmptyRing /\ preroll_head' = 0 /\ preroll_count' = 0
    /\ has_seen_first_transition' = FALSE
    /\ tracks' = Empty /\ lot_cache' = EmptyCache /\ lot_cache_idx' = 0
    /\ jobs' = Empty
    /\ \E S \in SUBSET {i \in DOMAIN jobs : jobs[i].stage = "remuxing"} :
          orphans' = [i \in DOMAIN orphans \cup S |-> DestOf(i)]
    /\ clock' = 0 /\ pictures' = <<>> /\ exits' = exits + 1
    /\ UNCHANGED <<temps, disk, last_id>>

Exit == pc = "exit" /\ helping = 0 /\ ProcessEnds
Crash == pc # "down" /\ exits < MaxExits /\ ProcessEnds

-----------------------------------------------------------------------------
Next ==
    \/ Create \/ OnHdc \/ Finalize \/ OpenTrack
    \/ \E s \in Songs, lot \in Lots \cup {NoLot} : OnId3(s, lot)
    \/ \E lot \in Lots : OnLot(lot)
    \/ \E i \in Id : Worker(i) \/ OrphanExits(i)
    \/ \E clean \in BOOLEAN : Destroy(clean)
    \/ Exit \/ Crash

Spec == Init /\ [][Next]_vars

\* Threads run, ffmpeg ends, and systemd restarts the process
\* (nrsc5-recorder.service: Restart=always).  The broadcast owes nothing.
Fairness ==
    /\ WF_vars(Create) /\ WF_vars(Finalize) /\ WF_vars(OpenTrack) /\ WF_vars(Exit)
    /\ \A i \in Id : WF_vars(Worker(i)) /\ WF_vars(OrphanExits(i))

FairSpec == Spec /\ Fairness

-----------------------------------------------------------------------------
(* Properties *)

Track ==
    [song : Songs, tmp_fp : BOOLEAN, xhdr_lot : Lots \cup {NoLot}, art : Nat,
     file : Seq(Nat), packets_preroll : Nat, packets_body : Nat,
     packets_postroll : Nat, is_postroll : BOOLEAN, remaining : Nat]
Job ==
    [dest : Dests, has_art : BOOLEAN,
     stage : {"queued", "remuxing", "exited", "cleanup"}, ok : BOOLEAN]

\* Every variable has the type the code gives it.
TypeOK ==
    /\ pc \in {"down", "idle", "feed", "split", "open", "close", "exit"}
    /\ todo \subseteq DOMAIN tracks
    /\ opening = NoSong \/ opening \in [song : Songs, lot : Lots \cup {NoLot}]
    /\ helping \in {0} \cup DOMAIN jobs
    /\ preroll \in [0 .. PrerollCap - 1 -> Nat]
    /\ preroll_head \in 0 .. PrerollCap /\ preroll_count \in 0 .. PrerollCap
    /\ PrerollCap > 0 => preroll_head < PrerollCap
    /\ has_seen_first_transition \in BOOLEAN
    /\ DOMAIN tracks \subseteq Id /\ tracks \in [DOMAIN tracks -> Track]
    /\ lot_cache \in [0 .. CacheSize - 1 ->
                        [lot : Lots \cup {NoLot}, data : Nat]]
    /\ lot_cache_idx \in 0 .. CacheSize - 1
    /\ DOMAIN jobs \subseteq Id /\ jobs \in [DOMAIN jobs -> Job]
    /\ DOMAIN orphans \subseteq Id /\ orphans \in [DOMAIN orphans -> Dests]
    /\ tmp_rec \subseteq Id /\ staging \subseteq Id /\ tmp_art \subseteq Id
    /\ DOMAIN archive \subseteq Dests
    /\ archive \in [DOMAIN archive ->
                      [take : Id, whole : BOOLEAN, rivals : SUBSET Id]]
    /\ DOMAIN info \subseteq Dests /\ info \in [DOMAIN info -> Id]
    /\ clock \in 0 .. MaxFrames /\ last_id \in 0 .. MaxTakes
    /\ pictures \in Seq(Lots) /\ exits \in 0 .. MaxExits

\* What start_new_song would prepend is exactly the latest frames, oldest
\* first, as many as there are and fit, at every point of the wrap-around.
RingHoldsLatest ==
    /\ preroll_count = IF clock < PrerollCap THEN clock ELSE PrerollCap
    /\ PrerollFramesHeld =
         [k \in 1 .. preroll_count |-> clock - preroll_count + k]

\* Parts of TakesOfBroadcast, below.
\* The file of every track still being written is one gapless run of the
\* broadcast that ends with the latest frame, and the three packet counters
\* (which become the trimmer's offsets) add up to its length.
TakesGapless ==
    \A i \in Open :
        LET n == Len(tracks[i].file)
        IN  /\ n = Packets(tracks[i])
            /\ tracks[i].file = [k \in 1 .. n |-> clock - n + k]

\* The songs' bodies never overlap: what a later track calls body or
\* post-roll lies within the post-roll of every earlier one.  In particular
\* one track at most is recording its body.
SongsDisjoint ==
    \A i, j \in Open : i < j =>
        /\ tracks[i].is_postroll
        /\ tracks[i].packets_postroll >=
             tracks[j].packets_body + tracks[j].packets_postroll

\* Takes that overlap are each a gapless piece of the broadcast, and divide it
\* between their songs without an overlap of the songs themselves.
TakesOfBroadcast == TakesGapless /\ SongsDisjoint

\* While the process lives every .tmp_rec_ and .staging_ file has exactly one
\* owner, a track being written or a job that still has to unlink it, and no
\* owner has lost its file; no picture is unlinked before its job is over.
FilesOwned ==
    pc # "down" =>
        /\ Open \cap DOMAIN jobs = {} /\ tmp_rec \cap staging = {}
        /\ tmp_rec \cup staging = Open \cup DOMAIN jobs
        /\ Open \subseteq tmp_rec
        /\ {i \in DOMAIN jobs : jobs[i].has_art} \subseteq tmp_art

\* Parts of ArtOfSong, below.
\* A take embeds a picture only of the LOT id its own ID3 tags announced.
ArtIsAnnounced ==
    \A i \in Open : tracks[i].art # 0 =>
        /\ tracks[i].art \in 1 .. Len(pictures)
        /\ pictures[tracks[i].art] = tracks[i].xhdr_lot

\* A picture that is among the CacheSize latest is never missed, whichever of
\* picture and announcement came first.
ArtNotMissed ==
    \A i \in Open, k \in 1 .. Len(pictures) :
        /\ k > Len(pictures) - CacheSize
        /\ pictures[k] = tracks[i].xhdr_lot
        => tracks[i].art # 0

\* A take has the picture of its own song, whichever came first.
ArtOfSong == ArtIsAnnounced /\ ArtNotMissed

\* A worker that may still harm the whole take at d: one given d before that
\* take was whole or, where the name is made of the time, any other given d.
Threatened(d) ==
    \/ archive[d].rivals \cap Workers # {}
    \/ /\ d[2] \in LastResort
       /\ \E j \in Workers \ {archive[d].take} : DestOf(j) = d

\* A whole take in the archive is overwritten, mixed or unlinked only while
\* such a worker is about.  So a take with a numbered suffix is permanent once
\* the workers given its destination before it was whole are through; a take
\* named by the second is until another take of its name gets that second.
SettledTakesKept ==
    [][\A d \in DOMAIN archive :
         archive[d].whole /\ ~Threatened(d) =>
           /\ d \in DOMAIN archive'
           /\ archive'[d] = archive[d]]_vars

\* Every staged take is disposed of: packaged, found broken, or swept.  And the
\* event thread always gets back to the stream, also from a handler that has
\* to run a remux job itself.
StagedTakesSettle == \A i \in Id : i \in staging ~> i \notin staging
EventThreadReturns == pc \notin {"idle", "down"} \/ helping # 0
                        ~> pc \in {"idle", "down"} /\ helping = 0
WorkEnds == StagedTakesSettle /\ EventThreadReturns

\* The recorder implements Capture.
EndsNow(i) == pc = "split" /\ i \in todo
TailFrames == IF ~PostrollOn THEN 0
              ELSE IF PostrollFrames = 0 THEN 1 ELSE PostrollFrames
Interval(i) ==
    LET t == tracks[i]
    IN  [from |-> IF t.file = <<>> THEN clock ELSE t.file[1] - 1,
         split |-> clock - t.packets_body - t.packets_postroll,
         end |-> IF t.is_postroll \/ EndsNow(i)
                 THEN clock - t.packets_postroll + TailFrames ELSE -1]
C == INSTANCE Capture WITH
        Ids <- Id, Preroll <- PrerollCap, Postroll <- TailFrames, now <- clock,
        takes <- [i \in Open |-> Interval(i)],
        running <- pc \notin {"close", "exit", "down"}
ImplementsCapture == C!Spec

-----------------------------------------------------------------------------
(* What the repository says and the code does not do *)

\* README.md:29 "All untrimmed raw takes in recordings/raw/ are always
\* preserved": a whole take stays as it is.
TakesPreserved ==
    [][\A d \in DOMAIN archive : archive[d].whole =>
         /\ d \in DOMAIN archive'
         /\ archive'[d].take = archive[d].take /\ archive'[d].whole]_vars
=============================================================================
