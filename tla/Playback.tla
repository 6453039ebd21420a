------------------------------ MODULE Playback ------------------------------
(***************************************************************************)
(* What the player's audio buffers are for: a bounded first-in first-out   *)
(* queue of packets in front of the sound card, which a key press empties. *)
(***************************************************************************)
EXTENDS Integers, Sequences

CONSTANTS Packets, Size

VARIABLES
    queue,      \* packets waiting, in the order they will be played
    sounding    \* the packets (at most one) handed to the sound card

vars == <<queue, sounding>>

Init == queue = <<>> /\ sounding = <<>>

Accept(p) ==
    /\ Len(queue) + Len(sounding) < Size
    /\ queue' = Append(queue, p)
    /\ UNCHANGED sounding

Play ==
    /\ queue # <<>> /\ sounding = <<>>
    /\ sounding' = <<Head(queue)>> /\ queue' = Tail(queue)

Played == sounding # <<>> /\ sounding' = <<>> /\ UNCHANGED queue

Flush == queue' = <<>> /\ UNCHANGED sounding

Next == Play \/ Played \/ Flush \/ \E p \in Packets : Accept(p)

Spec == Init /\ [][Next]_vars
=============================================================================
