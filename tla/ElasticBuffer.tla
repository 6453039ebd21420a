---------------------------- MODULE ElasticBuffer ----------------------------
(***************************************************************************)
(* The way of the audio packets of one program: frame_process in           *)
(* src/src/frame.c takes them out of the station's PDUs and finds the      *)
(* place of each in the elastic buffer of src/src/output.c, from which     *)
(* acquire_process plays a few with every block of symbols it is given.    *)
(*                                                                         *)
(* The station numbers its packets and puts a varying number of them into  *)
(* each PDU, the last one of which may go on in the next PDU.  A PDU is on *)
(* air for a fixed number of blocks and says, modulo a small number, where *)
(* in the sequence it belongs.  The receiver tunes in at any time, misses  *)
(* PDUs, gets damaged packets, loses blocks of samples, and handles some   *)
(* samples twice when it has to search for the beginning of a block.       *)
(***************************************************************************)
EXTENDS Integers, FiniteSets

CONSTANTS
    BufferLen,            \* ELASTIC_BUFFER_LEN
    PduSeqs,        \* how far the PDUs are numbered: values of hdr.pdu_seq
    Latency,        \* hdr.latency, in pairs of packets
    Modes,          \* [avg: packets per PDU, frames: packets per block]
    MaxPdus,        \* bound: PDUs of the station
    MaxSlips        \* bound: blocks lost or repeated

ASSUME ElasticAssumption ==
    /\ BufferLen \in Nat \ {0} /\ BufferLen % 2 = 0
    /\ PduSeqs \in Nat \ {0}
    /\ Latency \in Nat /\ 2 * Latency <= BufferLen
    /\ Modes \subseteq [avg : 1 .. BufferLen \div 2, frames : Nat \ {0}]
    /\ \A m \in Modes :
          m.avg % m.frames = 0 /\ (PduSeqs * m.avg) % (BufferLen \div 2) = 0
    /\ MaxPdus \in Nat /\ MaxSlips \in Nat

VARIABLES
    \* the station
    mode,
    pdu,            \* the PDU on air
    block,          \* blocks of it that are over
    next,           \* the first packet in it,
    split,          \* whose front half was in the PDU before
    \* the receiver
    audio_offset,   \* the slot to play next, or Unaligned
    elastic,        \* the slots
    \* history
    torn,           \* a block of the PDU on air was lost or repeated
    slips,          \* how many were so far
    steady,         \* packets played since the last of them, up to BufferLen, or Adrift
    front,          \* the front half of packet next: "missed", "bad" or "good"
    whole,          \* packets received with all their parts, not yet due
    sound,          \* those of them that were not damaged
    heard           \* what the latest step played

station == <<mode, pdu, block, next, split>>
received == <<front, whole, sound>>
vars == <<station, audio_offset, elastic, torn, slips, steady, received, heard>>

Unaligned == -1
Adrift == -1        \* a block was lost or repeated, and no PDU came since

Slots == 0 .. BufferLen - 1
Half == BufferLen \div 2
Blocks == mode.avg \div mode.frames

\* Slots: what of a packet is there, undamaged or not, and the numbers of the
\* packets that the data is from (none if damaged: the code sets the size to 0).
Empty == [shape |-> "none", ok |-> TRUE, data |-> {}]

\* The packet played in the first block of PDU n.
Due(n) == n * mode.avg - 2 * Latency

\* The packet due in the next block of the PDU on air: its packets are played
\* after it is complete.
Position == Due(pdu - 1) + block * mode.frames

\* The packets with which PDU n may begin: none is late, and none a whole
\* half of the buffer early.
Begins(n) == Due(n) .. Due(n) + Half - 1

\* Anywhere in the broadcast.
Init ==
    /\ mode \in Modes
    /\ pdu = 0 /\ block \in 0 .. Blocks - 1
    /\ next \in Begins(0) /\ split \in BOOLEAN
    /\ audio_offset = Unaligned /\ elastic = [s \in Slots |-> Empty]
    /\ torn = (block # 0) /\ slips = 0 /\ steady = Adrift
    /\ front = "missed" /\ whole = {} /\ sound = {} /\ heard = {}

-----------------------------------------------------------------------------
(* output_advance *)

\* The slots that this block plays, by the number of the packet due.
Playing ==
    IF audio_offset = Unaligned THEN {}
    ELSE {[due |-> Position + f, slot |-> (audio_offset + f) % BufferLen] :
             f \in 0 .. mode.frames - 1}

\* Only complete packets are reported, damaged ones too; the others are
\* silence.
Reports ==
    {[due |-> x.due, ok |-> elastic[x.slot].ok, data |-> elastic[x.slot].data] :
        x \in {y \in Playing : elastic[y.slot].shape = "full"}}

\* Faulty: leaves incomplete packets for later.
PlayedFull ==
    [s \in Slots |->
        IF (\E x \in Playing : x.slot = s) /\ elastic[s].shape = "full"
        THEN Empty ELSE elastic[s]]

\* The slots that were played are empty.
Played ==
    [s \in Slots |-> IF \E x \in Playing : x.slot = s THEN Empty ELSE elastic[s]]

\* Faulty: runs off the end.
AdvancedOn ==
    IF audio_offset = Unaligned THEN Unaligned ELSE audio_offset + mode.frames

Advanced ==
    IF audio_offset = Unaligned THEN Unaligned
    ELSE (audio_offset + mode.frames) % BufferLen

-----------------------------------------------------------------------------
(* frame_process and output_push *)

\* A PDU with the packets from the first one up to another one, that may only
\* have begun.  hdr.seq numbers the first packet that begins in the PDU.
Pdu(to, cut) ==
    [pdu_seq |-> pdu % PduSeqs,
     seq |-> (IF split THEN next + 1 ELSE next) % BufferLen,
     pfirst |-> split, plast |-> cut,
     nop |-> IF cut THEN to - next + 1 ELSE to - next]

FirstSeq(hdr) == (BufferLen + hdr.seq - (IF hdr.pfirst THEN 1 ELSE 0)) % BufferLen

\* Faulty: trusts the number of the PDU.
OffsetAsSent(hdr) == (BufferLen + hdr.pdu_seq * mode.avg - 2 * Latency) % BufferLen

\* The slot to be played next.  The number of the PDU leaves two places; it is
\* the one less than half a buffer before the first packet.
Offset(hdr) ==
    LET o == (BufferLen + hdr.pdu_seq * mode.avg - 2 * Latency) % BufferLen
    IN  IF (BufferLen + FirstSeq(hdr) - o) % BufferLen >= Half THEN (o + Half) % BufferLen ELSE o

Shape(hdr, j) ==
    IF j = 0 /\ hdr.pfirst THEN "back"
    ELSE IF j = hdr.nop - 1 /\ hdr.plast THEN "front"
    ELSE "full"

\* What is in the slot of packet k after a part of it: a second half is
\* worth something after a first one only.
Pushed(pkt, shape, ok, k) ==
    IF shape = "back" /\ pkt.shape = "front"
    THEN [shape |-> "full", ok |-> pkt.ok /\ ok,
          data |-> IF pkt.ok /\ ok THEN pkt.data \cup {k} ELSE {}]
    ELSE IF shape = "back" THEN pkt
    ELSE [shape |-> shape, ok |-> ok, data |-> IF ok THEN {k} ELSE {}]

\* All packets of a PDU, in the slots from the first one on.
Filled(slots, hdr, bad) ==
    [s \in Slots |->
        LET j == (BufferLen + s - FirstSeq(hdr)) % BufferLen
        IN  IF j < hdr.nop
            THEN Pushed(slots[s], Shape(hdr, j), j \notin bad, next + j)
            ELSE slots[s]]

-----------------------------------------------------------------------------
(* acquire_process: a block is played, and the PDU that is complete with it *)
(* is received                                                              *)

Later(S, n) == {k \in S : k >= n}

\* The station begins the next PDU, the first packet of which is given and may
\* have begun in this one, or goes on to the next block of this one.
NextPdu(to, cut) ==
    /\ block = Blocks - 1 /\ pdu < MaxPdus
    /\ to \in Begins(pdu + 1)
    /\ IF split \/ ~cut THEN to > next ELSE to >= next
    /\ pdu' = pdu + 1 /\ block' = 0 /\ next' = to /\ split' = cut
    /\ torn' = FALSE
    /\ UNCHANGED mode

NextBlock ==
    /\ block < Blocks - 1
    /\ block' = block + 1
    /\ UNCHANGED <<mode, pdu, next, split>>

Play ==
    /\ heard' = Reports
    /\ elastic' = Played /\ audio_offset' = Advanced
    /\ steady' = IF steady = Adrift THEN Adrift
                 ELSE IF steady + mode.frames < BufferLen THEN steady + mode.frames ELSE BufferLen

Forget(n) == whole' = Later(whole, n) /\ sound' = Later(sound, n)

\* A block in the middle of a PDU.
Block ==
    /\ NextBlock /\ Play
    /\ Forget(Position + mode.frames)
    /\ UNCHANGED <<torn, slips, front>>

\* The last block of a PDU that cannot be decoded, or has no header.
PduMissed ==
    /\ \E to \in Begins(pdu + 1), cut \in BOOLEAN : NextPdu(to, cut)
    /\ Play
    /\ Forget(Position + mode.frames)
    /\ front' = "missed"
    /\ UNCHANGED slips

\* The last block of a PDU that is received.  First it is played; then the PDU
\* sets the read position and its packets are put into their slots.
PduReceived(to, cut, bad) ==
    LET hdr == Pdu(to, cut)
        Complete(j) == IF j = 0 /\ split THEN front # "missed"
                       ELSE j < hdr.nop - 1 \/ ~cut
        Good(j) == j \notin bad /\ (j = 0 /\ split => front = "good")
        new == {j \in 0 .. hdr.nop - 1 : Complete(j)}
    IN  /\ ~torn
        /\ NextPdu(to, cut)
        /\ heard' = Reports
        /\ audio_offset' = Offset(hdr)
        /\ elastic' = Filled(Played, hdr, bad)
        /\ steady' = IF audio_offset = Unaligned THEN BufferLen
                     ELSE IF steady = Adrift THEN 0
                     ELSE IF steady + mode.frames < BufferLen THEN steady + mode.frames
                     ELSE BufferLen
        /\ whole' = Later(whole, Position + mode.frames) \cup {next + j : j \in new}
        /\ sound' = Later(sound, Position + mode.frames)
                       \cup {next + j : j \in {i \in new : Good(i)}}
        /\ front' = IF ~cut THEN "missed"
                    ELSE IF hdr.nop - 1 \in bad THEN "bad" ELSE "good"
        /\ UNCHANGED slips

-----------------------------------------------------------------------------
(* What happens to the samples, and nrsc5_reset *)

Slip == slips < MaxSlips /\ slips' = slips + 1 /\ steady' = Adrift

\* A block's samples never arrive: nothing is played, and time goes on.
BlockLost ==
    /\ Slip
    /\ \/ NextBlock /\ torn' = TRUE /\ front' = front
       \/ /\ \E to \in Begins(pdu + 1), cut \in BOOLEAN : NextPdu(to, cut)
          /\ front' = "missed"
    /\ Forget(Position + mode.frames)
    /\ heard' = {}
    /\ UNCHANGED <<audio_offset, elastic>>

\* acquire_keep_extra: samples are used again, and a block too many is played.
BlockRepeated ==
    /\ Slip
    /\ heard' = Reports /\ elastic' = Played /\ audio_offset' = Advanced
    /\ torn' = TRUE
    /\ UNCHANGED <<station, received>>

\* The rest of the PDU on air is not enough to decode it.
OutputReset ==
    /\ audio_offset # Unaligned
    /\ audio_offset' = Unaligned /\ elastic' = [s \in Slots |-> Empty]
    /\ torn' = (block # 0)
    /\ steady' = Adrift
    /\ front' = "missed" /\ whole' = {} /\ sound' = {} /\ heard' = {}
    /\ UNCHANGED <<station, slips>>

Next ==
    \/ Block \/ PduMissed \/ BlockLost \/ BlockRepeated \/ OutputReset
    \/ \E to \in Begins(pdu + 1), cut \in BOOLEAN :
          \E bad \in SUBSET (0 .. Pdu(to, cut).nop - 1) : PduReceived(to, cut, bad)

Spec == Init /\ [][Next]_vars

-----------------------------------------------------------------------------
(* Properties *)

Packet == [shape : {"none", "front", "full"}, ok : BOOLEAN, data : SUBSET Int]

\* Every variable has the type the code gives it: the read position stays in
\* the buffer, and no slot ever holds a second half alone.
TypeOK ==
    /\ mode \in Modes /\ pdu \in 0 .. MaxPdus /\ block \in 0 .. Blocks - 1
    /\ next \in Begins(pdu) /\ split \in BOOLEAN
    /\ audio_offset \in Slots \cup {Unaligned}
    /\ DOMAIN elastic = Slots
    /\ \A s \in Slots : elastic[s].shape \in {"none", "front", "full"}
    /\ torn \in BOOLEAN /\ slips \in 0 .. MaxSlips
    /\ steady \in 0 .. BufferLen \cup {Adrift}
    /\ front \in {"missed", "bad", "good"} /\ sound \subseteq whole

\* From the first PDU received on, and again from the first one after a slip,
\* the read position is that of the packet due, however the PDUs vary and
\* however many are missed: no PDU moves it.
Aligned == steady # Adrift => audio_offset = Position % BufferLen

\* In step: every slot was played since the last slip.
InStep == steady = BufferLen /\ steady' = BufferLen

\* What is played is the packet due, complete and of one piece: nothing left
\* from an earlier round, nothing of a packet whose other half was missed.
\* Every packet that was received with all its parts is played, when it is due,
\* and is reported as good exactly if all its parts were.
PlaysReceived ==
    [][InStep =>
         /\ \A r \in heard' : /\ r.due \in whole /\ (r.ok => r.data = {r.due})
                              /\ r.ok <=> r.due \in sound
         /\ \A k \in whole : k < Position + mode.frames => \E r \in heard' : r.due = k]_vars
=============================================================================
