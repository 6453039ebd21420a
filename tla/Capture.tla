------------------------------ MODULE Capture ------------------------------
(***************************************************************************)
(* What the recorder promises about the audio of a take, without rings,    *)
(* lists, counters or files.  A take is an interval of the broadcast: it   *)
(* begins up to Preroll frames before its song was announced, and once the    *)
(* song has been followed by another it goes on for Postroll frames more and   *)
(* is then closed at once.  Only one song is current at a time.            *)
(***************************************************************************)
EXTENDS Integers

CONSTANTS
    Ids,        \* names of takes
    Preroll,       \* frames kept from before the announcement
    Postroll        \* frames recorded after the song

VARIABLES
    now,        \* frames heard since the receiver was started
    takes,      \* id -> interval (from, split, end] being recorded
    running

vars == <<now, takes, running>>

Unknown == -1   \* the end of the song that is on air
Current == {i \in DOMAIN takes : takes[i].end = Unknown}
Due == {i \in DOMAIN takes : takes[i].end = now}

Init == now = 0 /\ takes = [i \in {} |-> 0] /\ running = FALSE

Start == ~running /\ running' = TRUE /\ now = 0 /\ UNCHANGED <<now, takes>>

\* No frame is heard while a take is due.
Hear ==
    /\ running /\ Due = {}
    /\ now' = now + 1
    /\ UNCHANGED <<takes, running>>

EndSong(i) ==
    /\ running /\ i \in Current
    /\ takes' = [takes EXCEPT ![i].end = now + Postroll]
    /\ UNCHANGED <<now, running>>

Begin(i) ==
    /\ running /\ Current = {} /\ i \notin DOMAIN takes
    /\ takes' = [j \in DOMAIN takes \cup {i} |->
                   IF j = i
                   THEN [from |-> IF now < Preroll THEN 0 ELSE now - Preroll,
                         split |-> now, end |-> Unknown]
                   ELSE takes[j]]
    /\ UNCHANGED <<now, running>>

\* A take is closed when it is due, or early because the receiver stops.
Close(i) ==
    /\ i \in DOMAIN takes
    /\ takes[i].end = now \/ ~running
    /\ takes' = [j \in DOMAIN takes \ {i} |-> takes[j]]
    /\ UNCHANGED <<now, running>>

\* The receiver stops: the takes are closed one by one or dropped together,
\* and the next run counts its frames from zero.
Stop ==
    /\ running' = FALSE
    /\ takes' \in {takes, [i \in {} |-> 0]}
    /\ now' \in {now, 0}
    /\ now' = 0 => takes' = [i \in {} |-> 0] \/ now = 0

Next ==
    \/ Start \/ Hear \/ Stop
    \/ \E i \in Ids : EndSong(i) \/ Begin(i) \/ Close(i)

Spec == Init /\ [][Next]_vars
=============================================================================
