------------------------------- MODULE Jukebox -------------------------------
(***************************************************************************)
(* scripts/trimmer.py, the builder of the jukebox: it looks through the    *)
(* takes the recorder has packaged, aligns every two takes of a song, and  *)
(* mints the song from the best pair that agrees well enough.  The         *)
(* recorder goes on writing takes, at their final names, while it looks:   *)
(* a name is chosen when nothing has it and written to later, or made of   *)
(* the second without a look, so that two workers may have one and write   *)
(* over, or unlink, a take that is whole.                                  *)
(*                                                                         *)
(* A song is its artist and title, a take the number in its file name.     *)
(* Confidence is a rank; 0 stands for every alignment that gives none.     *)
(* One builder runs at a time, and the ffmpeg of one that was killed is    *)
(* over before the next one starts.                                        *)
(***************************************************************************)
EXTENDS Naturals, FiniteSets

CONSTANTS
    Songs,
    MaxTakes,       \* bound: takes of a song
    LastResort,     \* the takes whose names are made of the second
    MaxConfidence,
    Threshold,      \* --threshold: enough to mint
    Excellent,      \* enough to look no further (0.95)
    MaxWorkers,     \* bound: workers that have the name of one take
    MaxShared,      \* bound: takes of a song whose name two workers get
    MaxMishaps      \* bound: ffmpeg runs that fail, builders started by hand or
                    \* killed, and names made of the second that a take has

ASSUME JukeboxAssumption ==
    /\ MaxTakes \in Nat /\ LastResort \subseteq 1 .. MaxTakes /\ MaxConfidence \in Nat
    /\ MaxWorkers \in Nat /\ MaxShared \in Nat /\ MaxMishaps \in Nat
    /\ Threshold \in 1 .. MaxConfidence /\ Excellent \in 1 .. MaxConfidence

Takes == 1 .. MaxTakes
Pairs == {p \in Takes \X Takes : p[1] # p[2]}
Unheard == MaxConfidence + 1
None == <<>>
Torn == <<0, 0>>    \* a companion file without its contents

VARIABLES
    raw,        \* raw[s][i]: recordings/raw/<s>_00<i>.m4a, 1024 bytes or less,
                \* more, or complete
    named, writing,     \* named[s][i], writing[s][i]: the workers that will
                        \* write to it, and those whose ffmpeg has opened it
    shared,     \* history, shared[s]: the takes whose name was given again while
                \* it had a worker or a file
    conf,       \* conf[s][p]: what aligning the two files gives, once heard
    tmp,        \* tmp[s]: the temporary file, what it is cut by, if whole
    minted,     \* minted[s]: the same of jukebox/<s>.m4a
    txt,        \* txt[s]: the pair that its companion file names, or Torn
    mode,       \* --watch, --apply, neither, or no builder
    pc,
    groups,     \* what find_raw_song_groups found
    todo,       \* the groups not looked at yet
    song,
    left,       \* the pairs of takes not aligned yet
    best,       \* best_align
    still,      \* history: what is being read has not been written over
    ok,         \* the exit status of ffmpeg
    mishaps     \* history: how many so far

workers == <<named, writing, shared>>
takes == <<raw, workers, conf>>
disk == <<tmp, minted, txt>>
builder == <<pc, groups, todo, song, left, best, still, ok>>
vars == <<takes, disk, mode, builder, mishaps>>

Init ==
    /\ raw = [s \in Songs |-> [i \in Takes |-> "none"]]
    /\ named = [s \in Songs |-> [i \in Takes |-> 0]] /\ writing = named
    /\ shared = [s \in Songs |-> {}] /\ conf = [s \in Songs |-> [p \in Pairs |-> Unheard]]
    /\ tmp = [s \in Songs |-> None] /\ minted = tmp /\ txt = tmp
    /\ mode = "none" /\ pc = "idle" /\ groups = [s \in Songs |-> {}]
    /\ todo = {} /\ song \in Songs /\ left = {} /\ best = None
    /\ still = TRUE /\ ok = FALSE
    /\ mishaps = 0

Mishap == mishaps < MaxMishaps /\ mishaps' = mishaps + 1

-----------------------------------------------------------------------------
(* recorder.c: resolve_destination_paths and remux_worker_thread *)

Whole(s) == {i \in Takes : raw[s][i] = "whole"}
Workers(s, i) == named[s][i] + writing[s][i]

\* The first number that nothing has yet or, after the last one, the second,
\* whatever has it; for a worker that starts later.
Resolves(s, i) ==
    /\ \A k \in Takes \ LastResort : k < i \/ i \in LastResort => raw[s][k] # "none"
    /\ i \in LastResort \/ raw[s][i] = "none"
TakeNamed(s) ==
    /\ \E i \in Takes :
          /\ Resolves(s, i) /\ Workers(s, i) < MaxWorkers
          /\ named' = [named EXCEPT ![s][i] = @ + 1]
          /\ IF raw[s][i] = "none" THEN UNCHANGED mishaps ELSE Mishap
          /\ shared' = [shared EXCEPT ![s] = IF Workers(s, i) = 0 /\ raw[s][i] = "none"
                                             THEN @ ELSE @ \cup {i}]
    /\ Cardinality(shared'[s]) <= MaxShared
    /\ UNCHANGED <<raw, writing, conf, disk, mode, builder>>

\* The pairs are compared in the order of their names.
Before(p, q) == p[1] < q[1] \/ (p[1] = q[1] /\ p[2] <= q[2])
NextPair == CHOOSE p \in left : \A q \in left : Before(p, q)

\* The builder is reading the take, in a way that the file given disturbs: a cut
\* reads on from a file that is unlinked.
Reading(i, file) ==
    \/ pc = "align" /\ i \in {NextPair[1], NextPair[2]}
    \/ pc = "trim" /\ i = best.pair[1] /\ file # "none"

\* What was heard of a take does not hold for what is written over it.
Written(s, i, file) ==
    /\ raw' = [raw EXCEPT ![s][i] = file]
    /\ IF raw[s][i] = "whole"
       THEN /\ conf' = [conf EXCEPT ![s] =
                          [p \in Pairs |-> IF i \in {p[1], p[2]} THEN Unheard ELSE conf[s][p]]]
            /\ still' = (still /\ ~ (s = song /\ Reading(i, file)))
       ELSE UNCHANGED <<conf, still>>

\* ffmpeg -y opens the name and truncates what is there, or fails before; the
\* worker then unlinks what is there.
TakeBegins(s, i) ==
    /\ named[s][i] > 0 /\ named' = [named EXCEPT ![s][i] = @ - 1]
    /\ \/ /\ writing' = [writing EXCEPT ![s][i] = @ + 1]
          /\ Written(s, i, "small") /\ UNCHANGED mishaps
       \/ Written(s, i, "none") /\ Mishap /\ UNCHANGED writing
    /\ UNCHANGED <<shared, disk, mode, pc, groups, todo, song, left, best, ok>>

\* It writes on, unless another worker has unlinked the file.
TakeWritten(s, i) ==
    /\ writing[s][i] > 0 /\ raw[s][i] # "none" /\ Written(s, i, "growing")
    /\ UNCHANGED <<workers, disk, mode, pc, groups, todo, song, left, best, ok, mishaps>>

\* It completes the file, or fails and the worker unlinks what is there; one of
\* two may leave that as it is, its own file being unlinked already.
TakeEnds(s, i) ==
    /\ writing[s][i] > 0 /\ writing' = [writing EXCEPT ![s][i] = @ - 1]
    /\ \/ raw[s][i] # "none" /\ Written(s, i, "whole") /\ UNCHANGED mishaps
       \/ /\ raw[s][i] = "none" \/ writing[s][i] > 1
          /\ UNCHANGED <<raw, conf, still, mishaps>>
       \/ Written(s, i, "none") /\ Mishap
    /\ UNCHANGED <<named, shared, disk, mode, pc, groups, todo, song, left, best, ok>>

-----------------------------------------------------------------------------
(* main and process_library *)

Start(m) ==
    /\ mode = "none" /\ mode' = m
    /\ IF m = "watch" THEN UNCHANGED mishaps ELSE Mishap
    /\ UNCHANGED <<takes, disk, builder>>

\* find_raw_song_groups, and the filters of a run by hand.
Scan ==
    /\ mode # "none" /\ pc = "idle" /\ pc' = "songs"
    /\ groups' = [s \in Songs |-> {i \in Takes : raw[s][i] \in {"growing", "whole"}}]
    /\ LET found == {s \in Songs : groups'[s] # {}}
       IN  IF mode = "watch" THEN todo' = found ELSE todo' \in SUBSET found
    /\ UNCHANGED <<takes, disk, mode, song, left, best, still, ok, mishaps>>

\* Every song is done: wait for the next round, or end.
Finished ==
    /\ pc = "songs" /\ todo = {} /\ pc' = "idle"
    /\ mode' = IF mode = "watch" THEN "watch" ELSE "none"
    /\ groups' = [s \in Songs |-> {}] /\ best' = None
    /\ UNCHANGED <<takes, disk, todo, song, left, still, ok, mishaps>>


\* analyze_song: in the jukebox already, waiting for a second airing, or pairs
\* to be compared.
Analyze(s) ==
    /\ pc = "songs" /\ s \in todo /\ todo' = todo \ {s}
    /\ song' = s /\ best' = None
    /\ IF minted[s] # None \/ Cardinality(groups[s]) < 2
       THEN pc' = "songs" /\ left' = {}
       ELSE pc' = "correlate" /\ left' = {p \in Pairs : p[1] \in groups[s] /\ p[2] \in groups[s]}
    /\ UNCHANGED <<takes, disk, mode, groups, still, ok, mishaps>>


\* multi_capture_alignment decodes the first take of the pair, or finds it
\* incomplete ...
Listen ==
    /\ pc = "correlate" /\ left # {}
    /\ IF NextPair[1] \in Whole(song)
       THEN pc' = "align" /\ UNCHANGED left
       ELSE left' = left \ {NextPair} /\ UNCHANGED pc
    /\ UNCHANGED <<takes, disk, mode, groups, todo, song, best, still, ok, mishaps>>

\* ... then the second, and aligns them.  Two files give the same answer whenever
\* they are aligned; one that is written over meanwhile makes it any.
Alignment(p, c) ==
    IF ~ still THEN UNCHANGED conf
    ELSE IF p[2] \in Whole(song)
    THEN conf[song][p] \in {c, Unheard} /\ conf' = [conf EXCEPT ![song][p] = c]
    ELSE c = 0 /\ UNCHANGED conf

\* Better than the best so far, and good enough.
Better(c) == c >= Threshold /\ (best = None \/ c > best.conf)

Correlate ==
    /\ pc = "align" /\ pc' = "correlate" /\ still' = TRUE
    /\ \E c \in 0 .. MaxConfidence :
          /\ Alignment(NextPair, c)
          /\ best' = IF Better(c) THEN [pair |-> NextPair, conf |-> c] ELSE best
          /\ left' = IF Better(c) /\ c >= Excellent THEN {} ELSE left \ {NextPair}
    /\ UNCHANGED <<raw, workers, disk, mode, groups, todo, song, ok, mishaps>>

\* Faulty: mints although no pair was good enough.
DecideAnyhow ==
    /\ pc = "correlate" /\ left = {}
    /\ pc' = IF mode # "inspect" THEN "mint" ELSE "songs"
    /\ UNCHANGED <<takes, disk, mode, groups, todo, song, left, best, still, ok, mishaps>>

\* ready_to_mint, or correlation_ambiguous; a run by hand may only show it.
Decide ==
    /\ pc = "correlate" /\ left = {}
    /\ pc' = IF best # None /\ mode # "inspect" THEN "mint" ELSE "songs"
    /\ UNCHANGED <<takes, disk, mode, groups, todo, song, left, best, still, ok, mishaps>>

-----------------------------------------------------------------------------
(* execute_lossless_trim and write_jukebox_companion_txt *)

File(whole) == [pair |-> best.pair, conf |-> best.conf, whole |-> whole]

\* ffmpeg -y truncates the temporary file, or fails before it opens it, as it
\* does when the take it shall cut is not complete, or not there, any more.
TrimBegins ==
    /\ pc = "mint"
    /\ \/ /\ best.pair[1] \in Whole(song) /\ pc' = "trim"
          /\ tmp' = [tmp EXCEPT ![song] = File(FALSE)] /\ UNCHANGED <<ok, mishaps>>
       \/ /\ pc' = "trimmed" /\ ok' = FALSE /\ UNCHANGED tmp
          /\ IF best.pair[1] \in Whole(song) THEN Mishap ELSE UNCHANGED mishaps
    /\ UNCHANGED <<takes, minted, txt, mode, groups, todo, song, left, best, still>>

\* A take written over while it is cut may end too soon, without an error.
TrimEnds ==
    /\ pc = "trim" /\ pc' = "trimmed" /\ still' = TRUE
    /\ \/ /\ ok' = TRUE /\ UNCHANGED mishaps
          /\ \E whole \in {TRUE, still} : tmp' = [tmp EXCEPT ![song] = File(whole)]
       \/ /\ ok' = FALSE /\ UNCHANGED tmp
          /\ IF still THEN Mishap ELSE UNCHANGED mishaps
    /\ UNCHANGED <<takes, minted, txt, mode, groups, todo, song, left, best>>

\* Faulty: goes by the file that is there, not by the exit status.
PublishFound ==
    /\ pc = "trimmed"
    /\ IF tmp[song] # None
       THEN pc' = "companion" /\ minted' = [minted EXCEPT ![song] = tmp[song]]
       ELSE pc' = "songs" /\ UNCHANGED minted
    /\ tmp' = [tmp EXCEPT ![song] = None] /\ ok' = FALSE
    /\ UNCHANGED <<takes, txt, mode, groups, todo, song, left, best, still, mishaps>>

\* os.replace, or the temporary file is removed.
Publish ==
    /\ pc = "trimmed"
    /\ IF ok
       THEN pc' = "companion" /\ minted' = [minted EXCEPT ![song] = tmp[song]]
       ELSE pc' = "songs" /\ UNCHANGED minted
    /\ tmp' = [tmp EXCEPT ![song] = None] /\ ok' = FALSE
    /\ UNCHANGED <<takes, txt, mode, groups, todo, song, left, best, still, mishaps>>

Companion ==
    /\ pc = "companion" /\ pc' = "songs"
    /\ txt' = [txt EXCEPT ![song] = best.pair]
    /\ UNCHANGED <<takes, tmp, minted, mode, groups, todo, song, left, best, still, ok, mishaps>>

\* Ctrl+C, an error that nobody catches, or a kill; ffmpeg may get to its end.
Killed ==
    /\ mode # "none" /\ Mishap
    /\ mode' = "none" /\ pc' = "idle" /\ groups' = [s \in Songs |-> {}]
    /\ todo' = {} /\ left' = {} /\ best' = None
    /\ still' = TRUE /\ ok' = FALSE
    /\ \/ UNCHANGED <<tmp, txt>>
       \/ pc = "trim" /\ tmp' = [tmp EXCEPT ![song] = File(TRUE)] /\ UNCHANGED txt
       \/ pc = "companion" /\ txt' = [txt EXCEPT ![song] = Torn] /\ UNCHANGED tmp
    /\ UNCHANGED <<takes, minted, song>>

-----------------------------------------------------------------------------
ProcessLibrary ==
    \/ Scan \/ Finished \/ \E s \in Songs : Analyze(s)
    \/ Listen \/ Correlate \/ Decide
    \/ TrimBegins \/ TrimEnds \/ Publish \/ Companion

Next ==
    \/ \E s \in Songs :
          \/ TakeNamed(s)
          \/ \E i \in Takes : TakeBegins(s, i) \/ TakeWritten(s, i) \/ TakeEnds(s, i)
    \/ \E m \in {"watch", "apply", "inspect"} : Start(m)
    \/ ProcessLibrary \/ Killed

Spec == Init /\ [][Next]_vars

\* The builder and ffmpeg run, and somebody starts the watch again; songs need
\* not be played again.
FairSpec == Spec /\ WF_vars(ProcessLibrary) /\ WF_vars(Start("watch"))

-----------------------------------------------------------------------------
(* Properties *)

Good == Threshold .. MaxConfidence
Aligned == [pair : Pairs, conf : Good]
Files == [pair : Pairs, conf : Good, whole : BOOLEAN]

\* The variables have their types; the builder has a pair when it mints, and
\* two takes at least of the song it compares.
TypeOK ==
    /\ raw \in [Songs -> [Takes -> {"none", "small", "growing", "whole"}]]
    /\ named \in [Songs -> [Takes -> 0 .. MaxWorkers]]
    /\ writing \in [Songs -> [Takes -> 0 .. MaxWorkers]]
    /\ \A s \in Songs, i \in Takes : Workers(s, i) <= MaxWorkers
    /\ shared \in [Songs -> SUBSET Takes] /\ conf \in [Songs -> [Pairs -> 0 .. Unheard]]
    /\ tmp \in [Songs -> Files \cup {None}] /\ minted \in [Songs -> Files \cup {None}]
    /\ txt \in [Songs -> Pairs \cup {None, Torn}]
    /\ mode \in {"none", "watch", "apply", "inspect"}
    /\ pc \in {"idle", "songs", "correlate", "align", "mint", "trim", "trimmed", "companion"}
    /\ groups \in [Songs -> SUBSET Takes] /\ todo \in SUBSET Songs /\ song \in Songs
    /\ left \in SUBSET Pairs /\ best \in Aligned \cup {None}
    /\ still \in BOOLEAN /\ ok \in BOOLEAN
    /\ mishaps \in 0 .. MaxMishaps
    /\ pc \in {"mint", "trim", "trimmed", "companion"} => best # None
    /\ pc = "align" => left # {}

\* The two-airing rule: a song in the jukebox is cut by two takes that agreed
\* well enough when they were compared, and no two that have been compared and
\* are still there agree better, unless these agree excellently.  Its companion,
\* if it was written, names that pair, and no temporary file is left beside it,
\* whatever failed, was killed or was written over on the way.  Unless two
\* workers had the name of one of the two takes, the song is complete, and the
\* takes are, and are the ones that were compared.
Verified(s, m) ==
    /\ m.conf >= Threshold
    /\ m.conf >= Excellent \/ \A q \in Pairs : conf[s][q] = Unheard \/ conf[s][q] <= m.conf
    /\ {m.pair[1], m.pair[2]} \cap shared[s] = {} =>
          {m.pair[1], m.pair[2]} \subseteq Whole(s) /\ conf[s][m.pair] = m.conf
SongsVerified ==
    \A s \in Songs : minted[s] # None =>
        /\ Verified(s, minted[s])
        /\ minted[s].whole \/ {minted[s].pair[1], minted[s].pair[2]} \cap shared[s] # {}
        /\ txt[s] \in {None, Torn, minted[s].pair} /\ tmp[s] = None

\* A song with two complete takes that no worker has the name of any more is
\* minted in the end, or every two such takes were compared and none agree well
\* enough.
Settled(s) == {i \in Whole(s) : Workers(s, i) = 0}
=============================================================================
