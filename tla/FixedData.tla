----------------------------- MODULE FixedData ------------------------------
(***************************************************************************)
(* The data at the end of the frames: process_fixed_data, parse_hdlc and   *)
(* aas_push of src/src/frame.c, for one subchannel of one logical channel. *)
(* The last byte of a frame tells how many bytes before it belong to the   *)
(* channel that describes the subchannels (CCC), in packets of HDLC.       *)
(* Before them is a part of the subchannel, a stream of blocks that begin  *)
(* with a pattern (BBM) and hold packets of HDLC again, each cut wherever  *)
(* a block or a frame is full.  Frames may be missing.                     *)
(*                                                                         *)
(* The pattern is two symbols here, other bytes are a symbol each, and the *)
(* checksums are ideal.  The packets carry the images of HereImages, on a  *)
(* port that the SIG declares; LotFiles has those that process_port drops. *)
(***************************************************************************)
EXTENDS HereImages

CONSTANTS
    Width,          \* bound: bytes of CCC in a frame
    CccLength,      \* bound: length of its packet
    PduData,        \* bound: bytes of the subchannel in a frame
    BlockData,      \* bound: bytes of a block: 255
    MaxAas          \* size of the buffer of packets: MAX_AAS_LEN

ASSUME FixedAssumption ==
    /\ \A x \in {Width, CccLength, PduData, BlockData} : x \in Nat \ {0}
    /\ MaxAas \in Nat /\ MaxAas >= Body

VARIABLES
    station, at, ccc_at,    \* the station, and the symbols it sends next
    fixed                   \* ccc_data_t

airVars == <<station, at, ccc_at>>
fixedVars == <<station, at, ccc_at, fixed>>

\* The period of the stream, after which the images and blocks repeat.
PacketLength == Body + 1
BlockLength == BlockData + 2
Blocks == (Packets * PacketLength) \div BlockData
Period == Blocks * BlockLength

ASSUME PeriodAssumption ==
    /\ ImageSymbols % Body = 0 /\ (Packets * PacketLength) % BlockData = 0
    /\ Packets % PacketSeqs = 0 /\ PduData <= Period

Flag == [kind |-> "flag", station |-> 0, packet |-> 0, part |-> 0]
Garbage == [Flag EXCEPT !.kind = "garbage"]

\* The symbol of the subchannel at a place of the period.
Symbol(i) ==
    LET r == i % BlockLength
        d == (i \div BlockLength) * BlockData + r - 2
    IN  IF r < 2 THEN [Flag EXCEPT !.kind = "bbm", !.part = r]
        ELSE IF d % PacketLength = 0 THEN Flag
        ELSE [kind |-> "byte", station |-> station, packet |-> d \div PacketLength,
              part |-> (d % PacketLength) - 1]

CccSymbol(i) ==
    IF i % (CccLength + 1) = 0 THEN Flag
    ELSE [kind |-> "ccc", station |-> station, packet |-> 0, part |-> (i % (CccLength + 1)) - 1]

\* What a frame holds.
Sent == [i \in 1 .. PduData |-> Symbol((at + i - 1) % Period)]
CccSent == [i \in 1 .. Width |-> CccSymbol(ccc_at + i - 1)]

-----------------------------------------------------------------------------
\* The buffer of parse_hdlc; not on: waits for a flag.
Waiting == [on |-> FALSE, bytes |-> <<>>]

\* Faulty: looks at the size of the buffer a byte too late.
HdlcOverruns(buffer, x, size) ==
    CASE x = Flag -> [on |-> TRUE, bytes |-> <<>>]
      [] x # Flag /\ buffer.on /\ Len(buffer.bytes) > size -> Waiting
      [] x # Flag /\ buffer.on /\ Len(buffer.bytes) <= size -> [buffer EXCEPT !.bytes = Append(@, x)]
      [] OTHER -> buffer

\* parse_hdlc: the buffer after a byte.
Hdlc(buffer, x, size) ==
    CASE x = Flag -> [on |-> TRUE, bytes |-> <<>>]
      [] x # Flag /\ buffer.on /\ Len(buffer.bytes) = size -> Waiting
      [] x # Flag /\ buffer.on /\ Len(buffer.bytes) < size -> [buffer EXCEPT !.bytes = Append(@, x)]
      [] OTHER -> buffer

\* The bytes that the flag x ends, if it does.
Ended(buffer, x) == IF x = Flag /\ buffer.on THEN buffer.bytes ELSE <<>>

NoFixed ==
    [sync_width |-> 0, sync_count |-> 0, ccc_buf |-> Waiting, fixed_ready |-> FALSE,
     blocks |-> <<>>, data |-> Waiting,
     packets |-> <<>>]              \* of the frame at hand

\* frame_reset: what is in the subchannels stays.
FrameReset(f) ==
    [NoFixed EXCEPT !.blocks = f.blocks, !.data = f.data]

\* aas_push: the checksum is right.
Intact(bytes, kind, length) ==
    /\ Len(bytes) = length
    /\ \A i \in 1 .. length : bytes[i] = [bytes[1] EXCEPT !.part = i - 1] /\ bytes[i].kind = kind

\* A packet of AAS, as here_images_push gets it.
Aas(bytes) ==
    [seq |-> bytes[1].packet % PacketSeqs, number |-> bytes[1].packet,
     symbols |-> [i \in 1 .. Body |-> ImageSymbol(bytes[1].station, bytes[1].packet * Body + i - 1)]]

AasPush(f, bytes) ==
    IF Intact(bytes, "byte", Body) THEN [f EXCEPT !.packets = Append(@, Aas(bytes))] ELSE f

\* process_fixed_ccc: taken once; begins the subchannel.
ProcessCcc(f, bytes) ==
    IF ~f.fixed_ready /\ Intact(bytes, "ccc", CccLength)
    THEN [f EXCEPT !.fixed_ready = TRUE, !.blocks = <<>>, !.data = Waiting] ELSE f

CccByte(f, x) ==
    [ProcessCcc(f, Ended(f.ccc_buf, x)) EXCEPT !.ccc_buf = Hdlc(@, x, 2 * CccLength)]

DataByte(f, x) ==
    [AasPush(f, Ended(f.data, x)) EXCEPT !.data = Hdlc(@, x, MaxAas)]

\* Faulty: the pattern is not looked for, a block begins where the last one ended.
UnalignedBlocks(blocks) == blocks

\* If it does not begin with the pattern, the first byte is skipped.
Aligned(blocks) ==
    IF Len(blocks) = 2 /\ \E i \in 1 .. 2 : blocks[i].kind # "bbm" \/ blocks[i].part # i - 1
    THEN Tail(blocks) ELSE blocks

\* A byte of the subchannel; process_fixed_block, when the block is full.
BlockByte(f, x) ==
    LET blocks == Aligned(Append(f.blocks, x))
    IN  IF Len(blocks) < BlockLength THEN [f EXCEPT !.blocks = blocks]
        ELSE [FoldLeft(DataByte, f, SubSeq(blocks, 3, BlockLength)) EXCEPT !.blocks = <<>>]

\* The width is taken from the last byte, which has to be the same three times,
\* and then for good.
Synced(f, width) ==
    LET count == IF width > 0 /\ f.sync_width = width THEN f.sync_count + 1 ELSE 0
    IN  IF f.sync_count = 2 THEN f ELSE [f EXCEPT !.sync_count = count, !.sync_width = width]

\* process_fixed_data: CCC first, and the subchannel if it is known.  With a
\* wrong width none of them is where it is looked for.
FixedRead(f, width) ==
    LET s == Synced(f, width)
        Read(symbols) == IF s.sync_width = Width THEN symbols ELSE [i \in DOMAIN symbols |-> Garbage]
        c == FoldLeft(CccByte, s, Read(CccSent))
    IN  IF s.sync_count < 2 THEN s
        ELSE IF ~c.fixed_ready THEN c ELSE FoldLeft(BlockByte, c, Read(Sent))

\* Another frame was sent.
FrameSent(n) ==
    /\ at' = (at + n * PduData) % Period
    /\ ccc_at' = (ccc_at + n * Width) % (CccLength + 1)
    /\ UNCHANGED station

\* A frame arrives, with this width.
Pdu(width) ==
    LET f == FixedRead(fixed, width)
    IN  /\ fixed' = [f EXCEPT !.packets = <<>>]
        /\ HerePushes(f.packets)
        /\ FrameSent(1)

FixedStart ==
    /\ station = 1 /\ at \in 0 .. PduData - 1 /\ ccc_at = 0
    /\ fixed = NoFixed

-----------------------------------------------------------------------------
FixedTypeOK ==
    /\ at \in 0 .. Period - 1 /\ ccc_at \in 0 .. CccLength
    /\ fixed.sync_count \in 0 .. 2
    /\ Len(fixed.ccc_buf.bytes) <= 2 * CccLength /\ Len(fixed.data.bytes) <= MaxAas
    /\ Len(fixed.blocks) < BlockLength
    /\ fixed.fixed_ready => fixed.sync_count = 2
=============================================================================
