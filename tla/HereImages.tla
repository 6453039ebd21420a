----------------------------- MODULE HereImages -----------------------------
(***************************************************************************)
(* Traffic and weather images: src/src/here_images.c.  An image is a       *)
(* marker, a length and a body, cut into the packets of a stream wherever  *)
(* a packet is full.  Only the number of a packet tells that one is        *)
(* missing: an image has no checksum.                                      *)
(***************************************************************************)
EXTENDS Integers, Sequences, SequencesExt

CONSTANTS
    PacketSeqs,     \* numbers of packets: 2^16
    Tiles,          \* HERE_TRAFFIC_TILES: traffic has the tiles 1 .. Tiles, weather is 0
    TilesOnAir,     \* bound: a sequence of tiles, in the order they are sent
    Editions,       \* bound: different timestamps of a tile
    ImageBody,      \* bound: length of the body
    Body            \* bound: length of a packet

ASSUME HereAssumption ==
    /\ PacketSeqs \in Nat \ {0, 1} /\ Tiles \in Nat /\ TilesOnAir \in Seq(Nat) \ {<<>>}
    /\ Editions \in Nat \ {0} /\ ImageBody \in Nat \ {0} /\ Body \in Nat \ {0}

VARIABLES
    here,           \* here_images_t
    images          \* history: the images that the latest step reported

hereVars == <<here, images>>

\* The stream of a station repeats its images, each of them twice in a row.
ImageLength == 2 + ImageBody
ImageCount == 2 * Len(TilesOnAir) * Editions
ImageSymbols == ImageCount * ImageLength
Packets == ImageSymbols \div Body

\* A symbol of the stream: a part of the marker and length, or of the body.
ImageSymbol(station, m) ==
    LET part == m % ImageLength
    IN  [kind |-> IF part < 2 THEN "marker" ELSE "body", station |-> station,
         image |-> (m \div ImageLength) % ImageCount, part |-> IF part < 2 THEN part ELSE part - 2]

TileOf(image) == TilesOnAir[1 + (image % Len(TilesOnAir))]
TimestampOf(image) == 1 + (image \div (2 * Len(TilesOnAir)))

NoTimestamps == [tile \in 0 .. Tiles |-> 0]
NoHere ==
    [expected_seq |-> -1, payload |-> FALSE, sync_state |-> <<>>, buffer |-> <<>>,
     last_timestamp |-> NoTimestamps,
     next |-> 0,                    \* history: the packet after the last one
     missed |-> 0,                  \* history: packets missing in the buffer
     reported |-> <<>>]             \* by the packets at hand

\* process_packet: the header is in the first symbol of the body.
ProcessPacket(h) ==
    LET header == h.buffer[1]
        tile == TileOf(header.image)
        timestamp == TimestampOf(header.image)
    IN  IF tile \in 0 .. Tiles /\ h.last_timestamp[tile] # timestamp
        THEN [h EXCEPT !.last_timestamp[tile] = timestamp,
                        !.reported = Append(@, [parts |-> h.buffer, missed |-> h.missed])]
        ELSE h

\* One symbol; the marker is looked for across packets.
HereSymbol(h, x) ==
    LET shifted == [h EXCEPT !.sync_state = IF Len(@) < 2 THEN Append(@, x) ELSE <<@[2], x>>]
        s == shifted.sync_state
        full == [shifted EXCEPT !.buffer = Append(@, x)]
    IN  CASE ~h.payload ->
                IF /\ Len(s) = 2 /\ \A i \in 1 .. 2 : s[i].kind = "marker" /\ s[i].part = i - 1
                THEN [shifted EXCEPT !.payload = TRUE, !.buffer = <<>>] ELSE shifted
          [] h.payload /\ Len(full.buffer) < ImageBody -> full
          [] OTHER -> [ProcessPacket(full) EXCEPT !.payload = FALSE, !.missed = 0]

\* Faulty: waits for a marker, but remembers the part of one it has seen.
HereUnsyncKeeps(h) == [h EXCEPT !.buffer = <<>>]

\* A packet is missing: what has been collected is of no use.
HereUnsync(h) == [h EXCEPT !.buffer = <<>>, !.payload = FALSE, !.sync_state = <<>>, !.missed = 0]

\* The number is the expected one.  It also is when as many packets are missing
\* as there are numbers, which nothing tells; the history counts them.
HereGoesOn(h, packet) ==
    IF h.payload THEN [h EXCEPT !.missed = @ + ((packet.number - h.next) % Packets)] ELSE h

\* here_images_push
HerePush(h, packet) ==
    [FoldLeft(HereSymbol,
              IF packet.seq = h.expected_seq THEN HereGoesOn(h, packet) ELSE HereUnsync(h),
              packet.symbols)
        EXCEPT !.expected_seq = (packet.seq + 1) % PacketSeqs, !.next = (packet.number + 1) % Packets]

HerePushes(packets) ==
    LET h == FoldLeft(HerePush, here, packets)
    IN  here' = [h EXCEPT !.reported = <<>>] /\ images' = h.reported

HereStart == here = NoHere /\ images = <<>>

\* here_images_reset
HereReset == [here EXCEPT !.expected_seq = -1, !.last_timestamp = NoTimestamps]

-----------------------------------------------------------------------------
HereTypeOK ==
    /\ here.expected_seq \in -1 .. PacketSeqs - 1 /\ here.payload \in BOOLEAN
    /\ Len(here.sync_state) <= 2
    /\ Len(here.buffer) <= ImageBody
    /\ here.last_timestamp \in [0 .. Tiles -> 0 .. Editions]
    /\ here.next \in 0 .. Packets - 1 /\ here.missed \in Nat

\* Every image that is reported has its parts in order, all of one image.
WholeImage(image) ==
    \A i \in 1 .. ImageBody :
        image[i] = [image[1] EXCEPT !.part = i - 1] /\ image[1].kind = "body"
=============================================================================
