------------------------------- MODULE Player -------------------------------
(***************************************************************************)
(* The threads of the command-line player, src/src/main.c, around the      *)
(* audio buffers they share: the thread that decodes and pushes audio (the *)
(* main thread when it reads a file, the radio's worker thread when there  *)
(* is a receiver), the audio thread, the input thread and an interrupt.    *)
(*                                                                         *)
(* The buffers are linked lists: nxt[b] is b->next and 0 is NULL.  There   *)
(* is one mutex and one condition variable: waiters are the threads inside *)
(* pthread_cond_wait, and a signal wakes any one of them.                  *)
(***************************************************************************)
EXTENDS Integers, FiniteSets, Sequences

CONSTANTS
    Buffers,        \* 1 .. AUDIO_BUFFERS
    Programs,       \* audio programs the station carries
    Keys,           \* keys the user may press: programs and "q"
    Sources,        \* where the audio may come from: "file", "radio"
    MaxPackets,     \* bound: packets decoded
    MaxKeys,        \* bound: keys pressed
    ChunkPackets,   \* most packets one chunk of the file decodes to
    Interruptible   \* threads a SIGINT or SIGTERM may be delivered to

NoBuffer == 0
NoProgram == -1
Nobody == "nobody"
Handler == "handler"
Threads == {"main", "radio", "audio", "input"}

ASSUME PlayerAssumption ==
    /\ IsFiniteSet(Buffers) /\ Buffers = 1 .. Cardinality(Buffers) /\ Buffers # {}
    /\ Programs \subseteq 0 .. 7 /\ Programs # {}
    /\ Keys \subseteq 0 .. 7 \cup {8}
    /\ Sources \subseteq {"file", "radio"}
    /\ MaxPackets \in Nat /\ MaxKeys \in Nat /\ ChunkPackets \in Nat
    /\ Interruptible \subseteq Threads

Quit == 8       \* stands for the key 'q'
VARIABLES
    source,         \* "file" when st->input_name # NULL
    head, tail, free, nxt,  \* the two lists
    data,           \* data[b]: the packet in buffer b
    program,        \* st->program
    done,
    mutex,          \* the thread that holds st->mutex
    waiters,
    pc,             \* where each thread is
    packet,         \* the packet the producer is pushing
    chunk,          \* packets left of the chunk of file being decoded
    playing,        \* the buffer the audio thread holds
    handling,       \* the thread the signal handler runs on
    interrupted,
    pressed,        \* the key the input thread acts on
    decoded,        \* packets decoded
    offered,        \* those of them that were of the selected program
    heard,          \* packets played
    keys            \* keys pressed

counters == <<decoded, offered, heard, keys>>
lists == <<head, tail, free, nxt, data>>
vars == <<source, lists, program, done, mutex, waiters, pc, packet, chunk, playing,
          handling, interrupted, pressed, counters>>

NoPacket == [program |-> NoProgram, number |-> 0]
FileMode == source = "file"
Producer == IF FileMode THEN "main" ELSE "radio"

-----------------------------------------------------------------------------
(* init_audio_buffers puts the buffers on the free list, the last one first *)

Init ==
    /\ source \in Sources
    /\ head = NoBuffer /\ tail = NoBuffer
    /\ free = Cardinality(Buffers)
    /\ nxt = [b \in Buffers |-> b - 1]
    /\ data = [b \in Buffers |-> NoPacket]
    /\ program \in Programs
    /\ done = FALSE /\ mutex = Nobody /\ waiters = {}
    /\ \E isatty \in BOOLEAN : pc =
         [t \in Threads |->
               CASE t = "audio" -> "get"
                 [] t = "input" -> IF isatty THEN "poll" ELSE "gone"
                 [] t = "main"  -> IF FileMode THEN "read" ELSE "join"
                 [] OTHER       -> IF FileMode THEN "gone" ELSE "read"]
    /\ packet = NoPacket /\ chunk = 0 /\ playing = NoBuffer
    /\ handling = Nobody /\ interrupted = FALSE
    /\ pressed = NoProgram
    /\ decoded = 0 /\ offered = 0 /\ heard = 0 /\ keys = 0

\* A thread runs unless the signal handler runs on it.
At(t, place) == pc[t] = place /\ handling # t
GoTo(t, place) == pc' = [pc EXCEPT ![t] = place]

\* pthread_mutex_lock on the way from one place to the next.
Lock(t, from, to) ==
    /\ At(t, from) /\ mutex = Nobody
    /\ mutex' = t /\ GoTo(t, to)
    /\ UNCHANGED <<source, lists, program, done, waiters, packet, chunk,
                   playing, handling, interrupted, pressed, counters>>

\* pthread_cond_wait lets go of the mutex; it returns, holding it again, once
\* somebody has taken the thread out of waiters.
Wait(t) == waiters' = waiters \cup {t} /\ mutex' = Nobody
Return(t, from, to) == t \notin waiters /\ Lock(t, from, to)

\* pthread_cond_signal
Signal == IF waiters = {} THEN UNCHANGED waiters
          ELSE \E t \in waiters : waiters' = waiters \ {t}

-----------------------------------------------------------------------------
(* push_audio_buffer, on the producer's thread *)

\* Where the producer goes on after a packet.
AfterPacket == IF FileMode /\ chunk > 0 THEN "decode" ELSE "read"

\* The program is looked at once, before any wait for a free buffer.
PushChecks ==
    /\ At(Producer, "check")
    /\ IF packet.program # program
       THEN GoTo(Producer, AfterPacket) /\ mutex' = Nobody /\ packet' = NoPacket
       ELSE GoTo(Producer, "room") /\ UNCHANGED <<mutex, packet>>
    /\ UNCHANGED <<source, lists, program, done, waiters, chunk, playing,
                   handling, interrupted, pressed, counters>>

\* Faulty: dropping a packet leaves the mutex locked.
PushDropsLocked ==
    /\ At(Producer, "room") /\ free = NoBuffer
    /\ IF FileMode
       THEN Wait(Producer) /\ GoTo(Producer, "full") /\ UNCHANGED packet
       ELSE /\ GoTo(Producer, AfterPacket) /\ packet' = NoPacket
            /\ UNCHANGED <<waiters, mutex>>
    /\ UNCHANGED <<source, lists, program, done, chunk, playing, handling,
                   interrupted, pressed, counters>>

\* No free buffer: a file waits, a receiver drops the packet.
PushFindsNone ==
    /\ At(Producer, "room") /\ free = NoBuffer
    /\ IF FileMode
       THEN Wait(Producer) /\ GoTo(Producer, "full") /\ UNCHANGED packet
       ELSE /\ mutex' = Nobody /\ GoTo(Producer, AfterPacket)
            /\ packet' = NoPacket /\ UNCHANGED waiters
    /\ UNCHANGED <<source, lists, program, done, chunk, playing, handling,
                   interrupted, pressed, counters>>

\* Faulty: queues at the wrong end.
PushQueuesFirst ==
    /\ At(Producer, "room") /\ free # NoBuffer
    /\ free' = nxt[free]
    /\ data' = [data EXCEPT ![free] = packet]
    /\ nxt' = [nxt EXCEPT ![free] = head] /\ head' = free
    /\ tail' = IF tail = NoBuffer THEN free ELSE tail
    /\ Signal /\ mutex' = Nobody
    /\ packet' = NoPacket /\ GoTo(Producer, AfterPacket)
    /\ UNCHANGED <<source, program, done, chunk, playing, handling,
                   interrupted, pressed, counters>>

PushQueues ==
    /\ At(Producer, "room") /\ free # NoBuffer
    /\ free' = nxt[free]
    /\ data' = [data EXCEPT ![free] = packet]
    /\ IF tail # NoBuffer
       THEN nxt' = [nxt EXCEPT ![free] = NoBuffer, ![tail] = free] /\ UNCHANGED head
       ELSE nxt' = [nxt EXCEPT ![free] = NoBuffer] /\ head' = free
    /\ tail' = free
    /\ Signal /\ mutex' = Nobody
    /\ packet' = NoPacket /\ GoTo(Producer, AfterPacket)
    /\ UNCHANGED <<source, program, done, chunk, playing, handling,
                   interrupted, pressed, counters>>

Push ==
    \/ Lock(Producer, "push", "check")
    \/ PushChecks \/ PushFindsNone \/ PushQueues
    \/ Return(Producer, "full", "room")

-----------------------------------------------------------------------------
(* Where the audio comes from *)

Decode(t) ==
    /\ decoded < MaxPackets
    /\ decoded' = decoded + 1
    /\ \E p \in Programs :
          /\ packet' = [program |-> p, number |-> decoded']
          /\ offered' = IF p = program THEN offered + 1 ELSE offered
    /\ GoTo(t, "push")

\* The receiver: decoded packets arrive until nrsc5_stop; the device may be
\* lost, upon which the callback runs done_signal.
RadioDecodes ==
    /\ ~FileMode /\ At("radio", "read") /\ pc["main"] # "ended"
    /\ Decode("radio")
    /\ UNCHANGED <<source, lists, program, done, mutex, waiters, chunk,
                   playing, handling, interrupted, pressed, heard, keys>>

RadioLost ==
    /\ ~FileMode /\ At("radio", "read") /\ pc["main"] # "ended"
    /\ GoTo("radio", "lost")
    /\ UNCHANGED <<source, lists, program, done, mutex, waiters, packet, chunk,
                   playing, handling, interrupted, pressed, counters>>

\* done_signal, entered at one place and left for another.
DoneSignal(t, from, to) ==
    /\ At(t, from)
    /\ done' = TRUE /\ Signal /\ mutex' = Nobody /\ GoTo(t, to)
    /\ UNCHANGED <<source, lists, program, packet, chunk, playing, handling,
                   interrupted, pressed, counters>>

RadioLoses ==
    \/ Lock("radio", "lost", "losing") \/ DoneSignal("radio", "losing", "gone")

Radio == RadioDecodes \/ RadioLost \/ RadioLoses

\* The file: while (!is_done) read a chunk, decode it, push its packets.  A
\* chunk that completes no packet changes nothing and is left out.
FileLoop ==
    \/ FileMode /\ Lock("main", "read", "is_done")
    \/ /\ At("main", "is_done")
       /\ mutex' = Nobody
       /\ \/ done /\ GoTo("main", "join") /\ UNCHANGED chunk
          \/ ~done /\ GoTo("main", "eof") /\ UNCHANGED chunk
          \/ /\ ~done /\ GoTo("main", "decode")
             /\ chunk' \in 1 .. ChunkPackets /\ decoded + chunk' <= MaxPackets
       /\ UNCHANGED <<source, lists, program, done, waiters, packet, playing,
                      handling, interrupted, pressed, counters>>
    \/ /\ At("main", "decode") /\ chunk > 0
       /\ Decode("main") /\ chunk' = chunk - 1
       /\ UNCHANGED <<source, lists, program, done, mutex, waiters, playing,
                      handling, interrupted, pressed, heard, keys>>
    \/ Lock("main", "eof", "ending")
    \/ DoneSignal("main", "ending", "join")

-----------------------------------------------------------------------------
(* audio_main *)

AudioTakes ==
    /\ At("audio", "take")
    /\ IF head = NoBuffer
       THEN IF done
            THEN /\ GoTo("audio", "gone") /\ mutex' = Nobody
                 /\ UNCHANGED <<lists, waiters, playing>>
            ELSE /\ GoTo("audio", "idle") /\ Wait("audio")
                 /\ UNCHANGED <<lists, playing>>
       ELSE /\ playing' = head
            /\ head' = nxt[head]
            /\ tail' = IF nxt[head] = NoBuffer THEN NoBuffer ELSE tail
            /\ mutex' = Nobody /\ GoTo("audio", "play")
            /\ UNCHANGED <<free, nxt, data, waiters>>
    /\ UNCHANGED <<source, program, done, packet, chunk, handling, interrupted,
                   pressed, counters>>

AudioPlays ==
    /\ At("audio", "play")
    /\ heard' = heard + 1 /\ GoTo("audio", "put")
    /\ UNCHANGED <<source, lists, program, done, mutex, waiters, packet, chunk,
                   playing, handling, interrupted, pressed, decoded, offered,
                   keys>>

\* Faulty: does not tell a waiting producer.
AudioPutsBackSilently ==
    /\ At("audio", "putting")
    /\ nxt' = [nxt EXCEPT ![playing] = free]
    /\ free' = playing /\ playing' = NoBuffer
    /\ mutex' = Nobody /\ GoTo("audio", "get")
    /\ UNCHANGED <<source, head, tail, data, program, done, waiters, packet,
                   chunk, handling, interrupted, pressed, counters>>

AudioPutsBack ==
    /\ At("audio", "putting")
    /\ nxt' = [nxt EXCEPT ![playing] = free]
    /\ free' = playing /\ playing' = NoBuffer
    /\ Signal /\ mutex' = Nobody /\ GoTo("audio", "get")
    /\ UNCHANGED <<source, head, tail, data, program, done, packet, chunk,
                   handling, interrupted, pressed, counters>>

Audio ==
    \/ Lock("audio", "get", "take")
    \/ AudioTakes \/ Return("audio", "idle", "take")
    \/ AudioPlays
    \/ Lock("audio", "put", "putting") \/ AudioPutsBack

-----------------------------------------------------------------------------
(* input_main and on_key_press: 'q' is done_signal, then change_program(-1) *)

InputPolls ==
    \/ Lock("input", "poll", "is_done")
    \/ /\ At("input", "is_done")
       /\ mutex' = Nobody
       /\ GoTo("input", IF done THEN "gone" ELSE "key")
       /\ UNCHANGED <<source, lists, program, done, waiters, packet, chunk,
                      playing, handling, interrupted, pressed, counters>>

\* The poll times out, a key is there, or it fails.
InputReads ==
    /\ At("input", "key")
    /\ \/ GoTo("input", "poll") /\ UNCHANGED <<pressed, keys>>
       \/ GoTo("input", "gone") /\ UNCHANGED <<pressed, keys>>
       \/ /\ keys < MaxKeys /\ keys' = keys + 1
          /\ pressed' \in Keys
          /\ GoTo("input", IF pressed' = Quit THEN "quit" ELSE "change")
    /\ UNCHANGED <<source, lists, program, done, mutex, waiters, packet, chunk,
                   playing, handling, interrupted, decoded, offered, heard>>

\* Faulty: does not link the queue's end to the free list.
ChangeDropsFree ==
    /\ At("input", "changing")
    /\ IF tail # NoBuffer
       THEN free' = head /\ head' = NoBuffer /\ tail' = NoBuffer
       ELSE UNCHANGED <<free, head, tail>>
    /\ program' = IF pressed = Quit THEN NoProgram ELSE pressed
    /\ pressed' = NoProgram
    /\ mutex' = Nobody /\ GoTo("input", "poll")
    /\ UNCHANGED <<source, nxt, data, done, waiters, packet, chunk, playing,
                   handling, interrupted, counters>>

\* The queue goes back to the free list; nobody is told that it has grown.
ChangeProgram ==
    /\ At("input", "changing")
    /\ IF tail # NoBuffer
       THEN /\ nxt' = [nxt EXCEPT ![tail] = free]
            /\ free' = head /\ head' = NoBuffer /\ tail' = NoBuffer
       ELSE UNCHANGED <<nxt, free, head, tail>>
    /\ program' = IF pressed = Quit THEN NoProgram ELSE pressed
    /\ pressed' = NoProgram
    /\ mutex' = Nobody /\ GoTo("input", "poll")
    /\ UNCHANGED <<source, data, done, waiters, packet, chunk, playing,
                   handling, interrupted, counters>>

Input ==
    \/ InputPolls \/ InputReads
    \/ Lock("input", "quit", "quitting")
    \/ DoneSignal("input", "quitting", "change")
    \/ Lock("input", "change", "changing") \/ ChangeProgram

-----------------------------------------------------------------------------
(* sigint_handler, on whichever thread the signal was delivered to *)

Interrupt(t) ==
    /\ ~interrupted /\ handling = Nobody
    /\ pc[t] \notin {"gone", "ended"}
    /\ interrupted' = TRUE /\ handling' = t
    /\ UNCHANGED <<source, lists, program, done, mutex, waiters, pc, packet,
                   chunk, playing, pressed, counters>>

HandlerLocks ==
    /\ handling # Nobody /\ mutex = Nobody
    /\ mutex' = Handler
    /\ UNCHANGED <<source, lists, program, done, waiters, pc, packet, chunk,
                   playing, handling, interrupted, pressed, counters>>

\* Faulty: sets done and tells nobody.
HandlerSilent ==
    /\ mutex = Handler
    /\ done' = TRUE /\ mutex' = Nobody /\ handling' = Nobody
    /\ UNCHANGED <<source, lists, program, waiters, pc, packet, chunk, playing,
                   interrupted, pressed, counters>>

HandlerSignals ==
    /\ mutex = Handler
    /\ done' = TRUE /\ Signal /\ mutex' = Nobody /\ handling' = Nobody
    /\ UNCHANGED <<source, lists, program, pc, packet, chunk, playing,
                   interrupted, pressed, counters>>

-----------------------------------------------------------------------------
(* main after its loop: join the threads, nrsc5_stop, cleanup *)

MainJoins ==
    /\ At("main", "join")
    /\ pc["audio"] = "gone" /\ pc["input"] = "gone"
    /\ GoTo("main", "stop")
    /\ UNCHANGED <<source, lists, program, done, mutex, waiters, packet, chunk,
                   playing, handling, interrupted, pressed, counters>>

\* reset_audio_buffers
ResetAudioBuffers ==
    /\ IF head # NoBuffer
       THEN nxt' = [nxt EXCEPT ![tail] = free] /\ free' = head
       ELSE UNCHANGED <<nxt, free>>
    /\ head' = NoBuffer /\ tail' = NoBuffer

\* nrsc5_stop returns once the worker is out of its callback; then cleanup
\* returns what is still queued to the free list (and frees it all).
MainStops ==
    /\ At("main", "stop") /\ pc["radio"] \in {"read", "gone"}
    /\ pc' = [pc EXCEPT !["main"] = "ended", !["radio"] = "gone"]
    /\ ResetAudioBuffers
    /\ UNCHANGED <<source, data, program, done, mutex, waiters, packet, chunk,
                   playing, handling, interrupted, pressed, counters>>

Main == FileLoop \/ MainJoins \/ MainStops

-----------------------------------------------------------------------------
Next ==
    \/ Push \/ Radio \/ Main \/ Audio \/ Input
    \/ HandlerLocks \/ HandlerSignals
    \/ \E t \in Interruptible : Interrupt(t)
    \/ pc["main"] = "ended" /\ UNCHANGED vars

Spec == Init /\ [][Next]_vars

\* Every thread runs and gets the mutex in the end: between two of its own
\* locks each of them sleeps, in poll, in the sound card or in the decoder.
\* Nobody has to press a key and no device has to be lost.
Fairness ==
    /\ SF_vars(Push) /\ SF_vars(Main) /\ SF_vars(Audio) /\ SF_vars(Input)
    /\ SF_vars(RadioLoses) /\ SF_vars(HandlerLocks \/ HandlerSignals)

FairSpec == Spec /\ Fairness

-----------------------------------------------------------------------------
(* Properties *)

\* The buffers on the list that starts at b (cut off if the list is circular).
ListFrom(b) ==
    LET walk[n \in 0 .. Cardinality(Buffers) + 1] ==
            IF n = 0 THEN <<>>
            ELSE LET s == walk[n - 1]
                     c == IF s = <<>> THEN b ELSE nxt[s[Len(s)]]
                 IN  IF c = NoBuffer THEN s ELSE Append(s, c)
    IN  walk[Cardinality(Buffers) + 1]
SetOf(s) == {s[k] : k \in 1 .. Len(s)}
Queue == ListFrom(head)
Playing == IF playing = NoBuffer THEN <<>> ELSE <<playing>>

\* The places where a thread holds the mutex.
Critical == {"check", "room", "losing", "is_done", "ending", "take", "putting",
             "quitting", "changing"}
Places == Critical \cup
    {"push", "full", "read", "lost", "decode", "eof", "join", "stop", "ended", "get",
     "idle", "play", "put", "poll", "key", "quit", "change", "gone"}

\* Every variable has the type the code gives it, and a thread has the mutex
\* just where the code does.
TypeOK ==
    /\ {head, tail, free, playing} \subseteq Buffers \cup {NoBuffer}
    /\ nxt \in [Buffers -> Buffers \cup {NoBuffer}]
    /\ source \in Sources /\ program \in 0 .. 7 \cup {NoProgram}
    /\ done \in BOOLEAN /\ interrupted \in BOOLEAN
    /\ mutex \in Threads \cup {Nobody, Handler}
    /\ \A t \in Threads : mutex = t <=> pc[t] \in Critical
    /\ handling \in Interruptible \cup {Nobody}
    /\ waiters \subseteq {t \in Threads : pc[t] \in {"idle", "full"}}
    /\ pc \in [Threads -> Places]
    /\ chunk \in 0 .. ChunkPackets /\ pressed \in Keys \cup {NoProgram}

\* Parts of ListsSound, below.
\* No buffer is ever lost, in two places at once, or behind a stale tail: each
\* one is free, queued or with the audio thread.
BuffersConserved ==
    LET q == Queue  f == ListFrom(free)
    IN  /\ Len(q) + Len(f) + Len(Playing) = Cardinality(Buffers)
        /\ SetOf(q) \cup SetOf(f) \cup SetOf(Playing) = Buffers
        /\ tail = IF q = <<>> THEN NoBuffer ELSE q[Len(q)]

\* The lists, key presses included, are a first-in first-out queue of bounded
\* size.  A packet leaves the sound card when its buffer is put back.
PB == INSTANCE Playback WITH
        Packets <- [program : Programs, number : 1 .. MaxPackets],
        Size <- Cardinality(Buffers),
        queue <- [k \in 1 .. Len(Queue) |-> data[Queue[k]]],
        sounding <- [k \in 1 .. Len(Playing) |-> data[Playing[k]]]
ImplementsPlayback == PB!Spec

\* What is queued is of the selected program, whatever keys were pressed
\* (README.md:187 "To switch between audio programs at runtime, press 0 through
\* 7").  A file's producer, which looks at the program before it waits for a
\* buffer, is exempt once a key was pressed.
QueueOfProgram ==
    ~FileMode \/ keys = 0 =>
        \A k \in 1 .. Len(Queue) : data[Queue[k]].program = program

\* The lists hold every buffer once, and nothing of another program.
ListsSound == BuffersConserved /\ QueueOfProgram

\* Once done is set, by a key, an interrupt or the loss of the device, the
\* player of a receiver ends: no thread is left waiting for another.
ReceiverQuits == ~FileMode /\ (done \/ interrupted) ~> pc["main"] = "ended"

\* The player of a file that nobody interrupts ends by itself, its producer
\* never waits for ever, and everybody hears of the end; but not before the
\* last packet was played.
FileHeard ==
    /\ FileMode ~> pc["main"] = "ended" \/ keys > 0 \/ interrupted
    /\ [](FileMode /\ pc["main"] = "ended" /\ keys = 0 /\ ~interrupted => heard = offered)

-----------------------------------------------------------------------------
(* What the repository says and the code does not do *)

\* README.md:187 "To switch between audio programs at runtime, press 0 through
\* 7": a producer that waits for a free buffer gets on all the same.
ProducerGetsOn == pc[Producer] = "full" ~> pc[Producer] # "full"
=============================================================================
