--------------------------- MODULE ElasticProofs ---------------------------
(***************************************************************************)
(* Proof that the read position of ElasticBuffer is that of the packet     *)
(* due, and that every packet received whole is played when it is due and  *)
(* nothing else is, for every length of the buffer, latency and mode of    *)
(* the station.                                                            *)
(***************************************************************************)
EXTENDS ElasticBuffer, TLAPS

-----------------------------------------------------------------------------
(* Remainders *)

\* A quotient and a remainder exist, and there is no other pair.
LEMMA ModExists ==
    ASSUME NEW n \in Nat \ {0}, NEW a \in Int
    PROVE  /\ a % n \in 0 .. n - 1 /\ a \div n \in Int
           /\ a = (a \div n) * n + (a % n)
OBVIOUS

LEMMA ModUnique ==
    ASSUME NEW n \in Nat \ {0}, NEW z \in Int, NEW r \in 0 .. n - 1
    PROVE  (z * n + r) % n = r
OBVIOUS

\* A multiple of n more or less makes no difference.
LEMMA ModShift ==
    ASSUME NEW n \in Nat \ {0}, NEW a \in Int, NEW z \in Int
    PROVE  (a + z * n) % n = a % n
<1> DEFINE q == a \div n
           r == a % n
<1>1. r \in 0 .. n - 1 /\ q \in Int /\ a = q * n + r
  BY ModExists
<1> HIDE DEF q, r
<1>2. a + z * n = (q + z) * n + r
  BY <1>1
<1>3. ((q + z) * n + r) % n = r
  BY <1>1, ModUnique
<1> QED
  BY <1>2, <1>3 DEF r

LEMMA ModRound ==
    ASSUME NEW n \in Nat \ {0}, NEW a \in Int
    PROVE  (a + n) % n = a % n
<1> DEFINE z == 1
<1>1. z \in Int /\ a + n = a + z * n
  OBVIOUS
<1> HIDE DEF z
<1>2. (a + z * n) % n = a % n
  BY <1>1, ModShift
<1> QED
  BY <1>1, <1>2

\* A remainder may be taken before an addition.
LEMMA ModAdd ==
    ASSUME NEW n \in Nat \ {0}, NEW a \in Int, NEW b \in Int
    PROVE  ((a % n) + b) % n = (a + b) % n
<1> DEFINE q == a \div n
           r == a % n
           s == r + b
<1>1. r \in 0 .. n - 1 /\ q \in Int /\ a = q * n + r
  BY ModExists
<1> HIDE DEF q, r
<1>2. s \in Int /\ a + b = s + q * n
  BY <1>1
<1> HIDE DEF s
<1>3. (s + q * n) % n = s % n
  BY <1>1, <1>2, ModShift
<1> QED
  BY <1>2, <1>3 DEF r, s

LEMMA DivExact ==
    ASSUME NEW n \in Nat \ {0}, NEW a \in Int, a % n = 0
    PROVE  \E c \in Int : c = a \div n /\ a = c * n
<1>1. a \div n \in Int /\ a = (a \div n) * n + (a % n)
  BY ModExists
<1>2. a \div n \in Int /\ a = (a \div n) * n
  BY <1>1
<1> QED
  BY <1>2

-----------------------------------------------------------------------------
(* The station's clock *)

LEMMA Constants ==
    /\ BufferLen \in Nat \ {0} /\ Half \in Nat \ {0} /\ BufferLen = 2 * Half
    /\ PduSeqs \in Nat \ {0} /\ Latency \in Nat
<1>1. BufferLen \in Nat \ {0} /\ BufferLen % 2 = 0
  BY ElasticAssumption
<1>2. BufferLen = (BufferLen \div 2) * 2
  BY <1>1
<1> QED
  BY <1>1, <1>2, ElasticAssumption DEF Half

\* The blocks of a PDU play the packets of one.
LEMMA BlocksOfPdu ==
    ASSUME mode \in Modes
    PROVE  /\ mode.avg \in Nat \ {0} /\ mode.frames \in Nat \ {0}
           /\ Blocks \in Nat \ {0} /\ Blocks * mode.frames = mode.avg
           /\ \E c \in Int : PduSeqs * mode.avg = c * Half
<1> DEFINE avg == mode.avg
           frames == mode.frames
           span == PduSeqs * avg
<1>1. /\ avg \in 1 .. Half /\ frames \in Nat \ {0}
      /\ avg % frames = 0 /\ span % Half = 0
  BY ElasticAssumption DEF Half
<1>2. Blocks = avg \div frames
  BY DEF Blocks
<1> HIDE DEF avg, frames
<1>3. avg \in Nat \ {0} /\ avg \in Int /\ span \in Int
  BY <1>1, Constants
<1>4. Blocks \in Int /\ avg = Blocks * frames
  BY <1>1, <1>2, <1>3, DivExact
<1>5. Blocks \in Nat \ {0}
  BY <1>1, <1>3, <1>4
<1> HIDE DEF span
<1>6. \E c \in Int : span = c * Half
  BY <1>1, <1>3, Constants, DivExact
<1> QED
  BY <1>1, <1>3, <1>4, <1>5, <1>6 DEF avg, frames, span

-----------------------------------------------------------------------------
(* The place of a PDU *)

\* The distance of two slots is that of their packets, but for whole rounds.
LEMMA Distance ==
    ASSUME NEW n \in Nat \ {0}, NEW a \in Int, NEW b \in Int,
           a - b \in 0 .. n - 1
    PROVE  (n + (a % n) - (b % n)) % n = a - b
<1> DEFINE qa == a \div n
           ra == a % n
           qb == b \div n
           rb == b % n
           d == a - b
           z == qb - qa + 1
<1>1. ra \in 0 .. n - 1 /\ qa \in Int /\ a = qa * n + ra
  BY ModExists
<1>2. rb \in 0 .. n - 1 /\ qb \in Int /\ b = qb * n + rb
  BY ModExists
<1> HIDE DEF qa, ra, qb, rb
<1>3. z \in Int /\ z * n = qb * n - qa * n + n
  BY <1>1, <1>2
<1>4. d \in 0 .. n - 1
  OBVIOUS
<1>5. n + ra - rb = z * n + d
  BY <1>1, <1>2, <1>3
<1> HIDE DEF z, d
<1>6. (z * n + d) % n = d
  BY <1>3, <1>4, ModUnique
<1> QED
  BY <1>5, <1>6 DEF ra, rb, d

\* The number of a PDU gives its place but for a number of half buffers, since
\* all numbers together are a number of half buffers.
LEMMA PlaceOfNumber ==
    ASSUME mode \in Modes, pdu \in Nat
    PROVE  \E z \in Int :
              Due(pdu) = (pdu % PduSeqs) * mode.avg - 2 * Latency + z * Half
<1> DEFINE avg == mode.avg
           q == pdu \div PduSeqs
           r == pdu % PduSeqs
<1>1. PICK c \in Int : PduSeqs * avg = c * Half
  BY BlocksOfPdu
<1>2. avg \in Int /\ PduSeqs \in Nat \ {0} /\ Latency \in Int /\ Half \in Int
  BY BlocksOfPdu, Constants
<1>3. r \in Int /\ q \in Int /\ pdu = q * PduSeqs + r
  BY <1>2, ModExists
<1> HIDE DEF avg, q, r
<1>4. pdu * avg = q * (PduSeqs * avg) + r * avg
  BY <1>2, <1>3
<1>5. q * (PduSeqs * avg) = q * (c * Half)
  BY <1>1
<1>6. q * c \in Int /\ q * (c * Half) = (q * c) * Half
  BY <1>1, <1>2, <1>3
<1>7. r * avg \in Int /\ (q * c) * Half \in Int
  BY <1>2, <1>3, <1>6
<1>8. pdu * avg - 2 * Latency = r * avg - 2 * Latency + (q * c) * Half
  BY <1>2, <1>4, <1>5, <1>6, <1>7
<1> QED
  BY <1>6, <1>8 DEF Due, avg, r

\* Of the two places that the number leaves, the one less than half a buffer
\* before the first packet is the right one.
LEMMA TwoPlaces ==
    ASSUME NEW base \in Int, NEW z \in Int, NEW x \in Int,
           x - (base + z * Half) \in 0 .. Half - 1
    PROVE  LET o == base % BufferLen
           IN  (IF (BufferLen + (x % BufferLen) - o) % BufferLen >= Half
                THEN (o + Half) % BufferLen ELSE o) = (base + z * Half) % BufferLen
<1> DEFINE y == z \div 2
           n == BufferLen
           o == base % n
<1>1. n \in Nat \ {0} /\ Half \in Nat \ {0} /\ n = 2 * Half
  BY Constants
<1>2. y \in Int /\ (z = 2 * y \/ z = 2 * y + 1)
  OBVIOUS
<1> HIDE DEF y, n
<1>3. (2 * y) * Half = y * n /\ (2 * y + 1) * Half = y * n + Half /\ y * n \in Int
  BY <1>1, <1>2
<1>4. CASE z = 2 * y
  <2> DEFINE p == base + y * n
  <2>1. p \in Int /\ p = base + z * Half
    BY <1>3, <1>4
  <2>2. p % n = o
    BY <1>1, <1>2, ModShift
  <2>3. x - p \in 0 .. Half - 1 /\ x - p \in 0 .. n - 1
    BY <1>1, <2>1
  <2> HIDE DEF p, o
  <2>4. (n + (x % n) - (p % n)) % n = x - p
    BY <1>1, <2>1, <2>3, Distance
  <2>5. ~ (n + (x % n) - o) % n >= Half
    BY <1>1, <2>1, <2>2, <2>3, <2>4
  <2> QED
    BY <2>1, <2>2, <2>5 DEF o, n
<1>5. CASE z = 2 * y + 1
  <2> DEFINE p == base + y * n
             d == p + Half
  <2>1. p \in Int /\ d \in Int /\ d = base + z * Half
    BY <1>1, <1>3, <1>5
  <2>2. p % n = o
    BY <1>1, <1>2, ModShift
  <2>3. x - p \in Half .. n - 1 /\ x - p \in 0 .. n - 1
    BY <1>1, <2>1
  <2> HIDE DEF p, o
  <2> DEFINE h == Half
  <2>4. ((p % n) + h) % n = (p + h) % n
    <3>1. n \in Nat \ {0} /\ p \in Int /\ h \in Int
      BY <1>1, <2>1
    <3> HIDE DEF h
    <3> QED
      BY <3>1, ModAdd
  <2>5. (n + (x % n) - (p % n)) % n = x - p
    BY <1>1, <2>1, <2>3, Distance
  <2>6. (n + (x % n) - o) % n >= Half
    BY <1>1, <2>1, <2>2, <2>3, <2>5
  <2> QED
    BY <2>1, <2>2, <2>4, <2>6 DEF o, n, d
<1> QED
  BY <1>2, <1>4, <1>5

\* The number of the first packet that begins in a PDU gives the slot of its
\* first packet.
LEMMA FirstSeqRight ==
    ASSUME next \in Int, split \in BOOLEAN, NEW to, NEW cut
    PROVE  FirstSeq(Pdu(to, cut)) = next % BufferLen
<1> DEFINE hdr == Pdu(to, cut)
           first == IF split THEN 1 ELSE 0
           seq == next + first
           r == seq % BufferLen
           a == BufferLen - first
           b == seq + a
<1>1. BufferLen \in Nat \ {0}
  BY Constants
<1>2. first \in Int /\ seq \in Int /\ seq - first = next
  OBVIOUS
<1>3. hdr.seq = r /\ hdr.pfirst = split
  BY DEF Pdu
<1> HIDE DEF hdr, first, seq
<1>4. FirstSeq(hdr) = (BufferLen + r - first) % BufferLen
  BY <1>3 DEF FirstSeq, first
<1>5. r \in Int /\ a \in Int /\ b \in Int /\ b = next + BufferLen
  BY <1>1, <1>2
<1>6. BufferLen + r - first = r + a
  BY <1>1, <1>2, <1>5
<1>7. (r + a) % BufferLen = b % BufferLen
  BY <1>1, <1>2, <1>5, ModAdd
<1>8. (next + BufferLen) % BufferLen = next % BufferLen
  BY <1>1, ModRound
<1> HIDE DEF a, b
<1> QED
  BY <1>4, <1>5, <1>6, <1>7, <1>8 DEF hdr

\* What a PDU says puts the read position at the packet due when it is over.
LEMMA OffsetRight ==
    ASSUME mode \in Modes, pdu \in Nat, next \in Begins(pdu), split \in BOOLEAN,
           NEW to, NEW cut
    PROVE  Offset(Pdu(to, cut)) = Due(pdu) % BufferLen
<1> DEFINE hdr == Pdu(to, cut)
           base == (pdu % PduSeqs) * mode.avg - 2 * Latency
           o == base % BufferLen
<1>1. /\ BufferLen \in Nat \ {0} /\ Half \in Nat \ {0} /\ PduSeqs \in Nat \ {0}
      /\ Latency \in Int /\ mode.avg \in Int
  BY Constants, BlocksOfPdu
<1>2. pdu % PduSeqs \in Int
  BY <1>1
<1>3. base \in Int
  BY <1>1, <1>2
<1>4. PICK z \in Int : Due(pdu) = base + z * Half
  BY PlaceOfNumber
<1>5. z * Half \in Int /\ Due(pdu) \in Int
  BY <1>1, <1>3, <1>4
<1>6. next \in Int /\ next - Due(pdu) \in 0 .. Half - 1
  BY <1>1, <1>5 DEF Begins
<1>7. FirstSeq(hdr) = next % BufferLen
  BY <1>6, FirstSeqRight
<1>8. hdr.pdu_seq = pdu % PduSeqs
  BY DEF Pdu
<1> HIDE DEF hdr, base
<1>9. (BufferLen + hdr.pdu_seq * mode.avg - 2 * Latency) % BufferLen = o
  <2>1. BufferLen + (pdu % PduSeqs) * mode.avg - 2 * Latency = base + BufferLen
    <3> DEFINE t == (pdu % PduSeqs) * mode.avg
    <3>1. t \in Int /\ base = t - 2 * Latency
      BY <1>1, <1>2 DEF base
    <3> HIDE DEF t
    <3>2. BufferLen + t - 2 * Latency = base + BufferLen
      BY <1>1, <3>1
    <3> QED
      BY <3>2 DEF t
  <2>2. (base + BufferLen) % BufferLen = base % BufferLen
    BY <1>1, <1>3, ModRound
  <2> QED
    BY <1>8, <2>1, <2>2
<1>10. next - (base + z * Half) \in 0 .. Half - 1
  BY <1>4, <1>6
<1> HIDE DEF o
<1>11. (IF (BufferLen + (next % BufferLen) - o) % BufferLen >= Half
        THEN (o + Half) % BufferLen ELSE o) = (base + z * Half) % BufferLen
  BY <1>3, <1>6, <1>10, TwoPlaces DEF o
<1>12. Offset(hdr) =
          IF (BufferLen + FirstSeq(hdr) - o) % BufferLen >= Half
          THEN (o + Half) % BufferLen ELSE o
  BY <1>9 DEF Offset
<1> QED
  BY <1>4, <1>7, <1>11, <1>12 DEF hdr

-----------------------------------------------------------------------------
(* The read position *)

\* The part of the type invariant that the proof is about, without the bounds
\* of the instances.
Clock ==
    /\ mode \in Modes /\ pdu \in Nat /\ block \in 0 .. Blocks - 1
    /\ next \in Begins(pdu) /\ split \in BOOLEAN

\* The station goes on as it should, whatever the receiver does.
LEMMA ClockGoesOn ==
    ASSUME Clock,
           \/ NextBlock
           \/ \E to \in Begins(pdu + 1), cut \in BOOLEAN : NextPdu(to, cut)
           \/ UNCHANGED station
    PROVE  Clock'
<1>1. CASE NextBlock
  BY <1>1, BlocksOfPdu DEF Clock, NextBlock, Blocks, Begins, Due
<1>2. ASSUME NEW to \in Begins(pdu + 1), NEW cut \in BOOLEAN, NextPdu(to, cut)
      PROVE  Clock'
  <2>1. /\ mode' = mode /\ pdu' = pdu + 1 /\ block' = 0
        /\ next' = to /\ split' = cut
    BY <1>2 DEF NextPdu
  <2>2. Blocks' = Blocks /\ Begins(pdu)' = Begins(pdu + 1)
    BY <2>1 DEF Blocks, Begins, Due
  <2>3. Blocks \in Nat \ {0} /\ pdu + 1 \in Nat
    BY BlocksOfPdu DEF Clock
  <2> QED
    BY <1>2, <2>1, <2>2, <2>3 DEF Clock
<1>3. CASE UNCHANGED station
  BY <1>3 DEF Clock, station, Blocks, Begins, Due
<1> QED
  BY <1>1, <1>2, <1>3

\* The packet due is a block's packets on after every block, the last of a PDU
\* included.
LEMMA PositionGoesOn ==
    ASSUME Clock,
           \/ NextBlock
           \/ \E to \in Begins(pdu + 1), cut \in BOOLEAN : NextPdu(to, cut)
    PROVE  Position \in Int /\ Position' = Position + mode.frames
<1> DEFINE avg == mode.avg
           frames == mode.frames
           before == (pdu - 1) * avg
<1>1. /\ avg \in Nat \ {0} /\ frames \in Nat \ {0} /\ Latency \in Nat
      /\ Blocks \in Nat \ {0} /\ Blocks * frames = avg
      /\ pdu \in Nat /\ block \in Nat
  BY BlocksOfPdu, Constants DEF Clock
<1>2. before \in Int /\ pdu * avg = before + avg
  BY <1>1
<1>3. block * frames \in Int /\ (block + 1) * frames = block * frames + frames
  BY <1>1
<1>4. Position = before - 2 * Latency + block * frames
  BY DEF Position, Due
<1> HIDE DEF before, avg, frames
<1>5. Position \in Int
  BY <1>1, <1>2, <1>3, <1>4
<1>6. CASE NextBlock
  <2>1. Position' = before - 2 * Latency + (block + 1) * frames
    BY <1>6 DEF NextBlock, Position, Due, before, avg, frames
  <2> QED
    BY <1>1, <1>2, <1>3, <1>4, <1>5, <2>1 DEF frames
<1>7. ASSUME NEW to \in Begins(pdu + 1), NEW cut \in BOOLEAN, NextPdu(to, cut)
      PROVE  Position' = Position + frames
  <2>1. block + 1 = Blocks /\ pdu' = pdu + 1 /\ block' = 0 /\ mode' = mode
    BY <1>1, <1>7 DEF NextPdu
  <2>2. Position' = pdu * avg - 2 * Latency + 0 * frames
    <3>1. pdu' - 1 = pdu
      BY <1>1, <2>1
    <3>2. Position' = (pdu' - 1) * mode'.avg - 2 * Latency + block' * mode'.frames
      BY DEF Position, Due
    <3> QED
      BY <2>1, <3>1, <3>2 DEF avg, frames
  <2>3. block * frames + frames = avg
    BY <1>1, <1>3, <2>1
  <2> QED
    BY <1>1, <1>2, <1>3, <1>4, <1>5, <2>2, <2>3
<1> QED
  BY <1>5, <1>6, <1>7 DEF frames

\* Once it is right, the read position goes on with the packet due.
LEMMA AdvancedRight ==
    ASSUME Clock, Aligned, steady # Adrift,
           \/ NextBlock
           \/ \E to \in Begins(pdu + 1), cut \in BOOLEAN : NextPdu(to, cut)
    PROVE  Advanced = Position' % BufferLen
<1>1. /\ Position \in Int /\ Position' = Position + mode.frames
      /\ BufferLen \in Nat \ {0} /\ mode.frames \in Int
  BY PositionGoesOn, Constants, BlocksOfPdu DEF Clock
<1>2. audio_offset = Position % BufferLen
  BY DEF Aligned
<1>3. Position % BufferLen \in 0 .. BufferLen - 1
  BY <1>1
<1>4. audio_offset # Unaligned
  BY <1>1, <1>2, <1>3 DEF Unaligned
<1>5. ((Position % BufferLen) + mode.frames) % BufferLen
         = (Position + mode.frames) % BufferLen
  BY <1>1, ModAdd
<1> QED
  BY <1>1, <1>2, <1>4, <1>5 DEF Advanced

\* When a PDU is over, its first packets are due.
LEMMA PositionOfNext ==
    ASSUME Clock, NEW to \in Begins(pdu + 1), NEW cut \in BOOLEAN, NextPdu(to, cut)
    PROVE  Position' = Due(pdu)
<1> DEFINE a == pdu * mode.avg - 2 * Latency
<1>1. a \in Int
  BY BlocksOfPdu, Constants DEF Clock
<1>2. Position' = a + 0 * mode.frames
  <2>1. pdu' - 1 = pdu /\ block' = 0 /\ mode' = mode
    BY DEF NextPdu, Clock
  <2>2. Position' = (pdu' - 1) * mode'.avg - 2 * Latency + block' * mode'.frames
    BY DEF Position, Due
  <2> QED
    BY <2>1, <2>2
<1>3. 0 * mode.frames = 0
  BY BlocksOfPdu DEF Clock
<1> HIDE DEF a
<1>4. Position' = a
  BY <1>1, <1>2, <1>3
<1> QED
  BY <1>4 DEF a, Due

LEMMA AlignedStep ==
    ASSUME Clock, Aligned, [Next]_vars
    PROVE  Clock' /\ Aligned'
<1>1. CASE Block
  <2>1. NextBlock /\ Play
    BY <1>1 DEF Block
  <2>2. steady' # Adrift => steady # Adrift /\ audio_offset' = Advanced
    BY <2>1 DEF Play
  <2> QED
    BY <2>1, <2>2, ClockGoesOn, AdvancedRight DEF Aligned
<1>2. CASE PduMissed
  <2>1. /\ \E to \in Begins(pdu + 1), cut \in BOOLEAN : NextPdu(to, cut)
        /\ Play
    BY <1>2 DEF PduMissed
  <2>2. steady' # Adrift => steady # Adrift /\ audio_offset' = Advanced
    BY <2>1 DEF Play
  <2> QED
    BY <2>1, <2>2, ClockGoesOn, AdvancedRight DEF Aligned
<1>3. ASSUME NEW to \in Begins(pdu + 1), NEW cut \in BOOLEAN,
             NEW bad, PduReceived(to, cut, bad)
      PROVE  Clock' /\ Aligned'
  <2>1. NextPdu(to, cut) /\ audio_offset' = Offset(Pdu(to, cut))
    BY <1>3 DEF PduReceived
  <2>2. Clock'
    BY <2>1, ClockGoesOn
  <2>3. audio_offset' = Due(pdu) % BufferLen
    BY <2>1, OffsetRight DEF Clock
  <2>4. Position' = Due(pdu)
    BY <2>1, PositionOfNext
  <2> QED
    BY <2>2, <2>3, <2>4 DEF Aligned
<1>4. CASE BlockLost
  BY <1>4, ClockGoesOn DEF BlockLost, Slip, Aligned
<1>5. CASE BlockRepeated
  BY <1>5, ClockGoesOn DEF BlockRepeated, Slip, Aligned
<1>6. CASE OutputReset
  BY <1>6, ClockGoesOn DEF OutputReset, Aligned
<1>7. CASE UNCHANGED vars
  <2>1. Clock'
    BY <1>7, ClockGoesOn DEF vars
  <2> QED
    BY <1>7, <2>1 DEF vars, station, Aligned, Position, Due
<1> QED
  BY <1>1, <1>2, <1>3, <1>4, <1>5, <1>6, <1>7 DEF Next

\* The read position is that of the packet due from the first PDU received on,
\* and again from the first one after a slip: frame_process finds it from the
\* number of the PDU and that of its first packet, for every buffer, latency and
\* mode, and whichever PDUs are missed.
THEOREM ReadPosition == Spec => []Aligned
<1> DEFINE IInv == Clock /\ Aligned
<1>1. Init => IInv
  BY DEF Init, Clock, Aligned
<1>2. IInv /\ [Next]_vars => IInv'
  BY AlignedStep
<1>3. IInv => Aligned
  OBVIOUS
<1> QED
  BY <1>1, <1>2, <1>3, PTL DEF Spec

-----------------------------------------------------------------------------
(* Slots of packets *)

\* Packets less than a whole round apart have different slots.
LEMMA SlotsDiffer ==
    ASSUME NEW n \in Nat \ {0}, NEW a \in Int, NEW b \in Int, a - b \in 1 .. n - 1
    PROVE  a % n # b % n
<1> DEFINE r == b % n
           d == a - b
<1>1. r \in Int /\ d \in 1 .. n - 1 /\ d \in 0 .. n - 1
  BY ModExists
<1>2. (n + (a % n) - r) % n = d
  BY <1>1, Distance
<1> SUFFICES ASSUME a % n = r PROVE FALSE
  OBVIOUS
<1> DEFINE one == 1
           zero == 0
<1>3. one \in Int /\ zero \in 0 .. n - 1 /\ n + r - r = one * n + zero
  BY <1>1
<1> HIDE DEF r, d, one, zero
<1>4. (one * n + zero) % n = zero
  BY <1>3, ModUnique
<1>5. zero = 0
  BY DEF zero
<1> QED
  BY <1>1, <1>2, <1>3, <1>4, <1>5

\* How many slots after that of packet x the one of packet k is.
LEMMA SlotsApart ==
    ASSUME NEW n \in Nat \ {0}, NEW k \in Int, NEW x \in Int, k - x \in 1 - n .. n - 1
    PROVE  (n + (k % n) - (x % n)) % n = IF k >= x THEN k - x ELSE k - x + n
<1>1. CASE k >= x
  <2>1. k - x \in 0 .. n - 1
    BY <1>1
  <2> QED
    BY <1>1, <2>1, Distance
<1>2. CASE ~(k >= x)
  <2> DEFINE m == k + n
  <2>1. m \in Int /\ m - x \in 0 .. n - 1 /\ m - x = k - x + n
    BY <1>2
  <2>2. m % n = k % n
    BY ModRound
  <2> HIDE DEF m
  <2>3. (n + (m % n) - (x % n)) % n = m - x
    BY <2>1, Distance
  <2> QED
    BY <1>2, <2>1, <2>2, <2>3
<1> QED
  BY <1>1, <1>2

-----------------------------------------------------------------------------
(* What a slot holds *)

\* The slot of packet k holds e: k itself if it was received with all its
\* parts, its first half if the other is to come, else nothing to be played.
Right(k, e, w, good, first, cut, half) ==
    /\ e.shape = "full" <=> k \in w
    /\ k \in w => (e.ok <=> k \in good) /\ (e.ok => e.data = {k})
    /\ e.shape = "front" => k <= first /\ (k = first => cut /\ half # "missed")
    /\ k = first /\ cut /\ half # "missed" =>
         e.shape = "front" /\ (e.ok <=> half = "good") /\ (e.ok => e.data = {k})

\* The next rounds' packets of the slots that were played since the last slip.
Swept == Position + BufferLen - steady .. Position + BufferLen - 1

SlotsRight ==
    steady # Adrift =>
        \A k \in Swept : Right(k, elastic[k % BufferLen], whole, sound, next, split, front)

Typed ==
    /\ audio_offset \in Slots \cup {Unaligned} /\ elastic \in [Slots -> Packet]
    /\ steady \in 0 .. BufferLen \cup {Adrift}
    /\ front \in {"missed", "bad", "good"} /\ sound \subseteq whole

\* What was received is due later, and came in PDUs that are over.
Awaited == whole \subseteq Position .. next - 1

\* After a reset nothing is left, and nothing begun.
Clean ==
    audio_offset = Unaligned =>
        /\ steady = Adrift /\ elastic = [s \in Slots |-> Empty]
        /\ whole = {} /\ sound = {} /\ front = "missed"

PlayInv == Clock /\ Aligned /\ Typed /\ Awaited /\ Clean /\ SlotsRight

\* The packets of a PDU are due in the round that its last block begins.
LEMMA NextAhead ==
    ASSUME Clock
    PROVE  /\ Position \in Int /\ next \in Int /\ next < Position + BufferLen
           /\ mode.frames \in 1 .. BufferLen - 1 /\ mode.avg \in 1 .. Half
<1> DEFINE avg == mode.avg
           frames == mode.frames
           before == (pdu - 1) * avg
           some == block * frames
<1>1. /\ avg \in 1 .. Half /\ frames \in Nat \ {0} /\ Latency \in Nat
      /\ Blocks \in Nat \ {0} /\ Blocks * frames = avg
      /\ pdu \in Nat /\ block \in Nat
  BY ElasticAssumption, BlocksOfPdu, Constants DEF Clock, Half
<1>2. before \in Int /\ pdu * avg = before + avg /\ some \in Nat
  BY <1>1
<1>3. frames <= avg
  <2>1. Blocks * frames >= 1 * frames
    BY <1>1
  <2> QED
    BY <1>1, <2>1
<1>4. Position = before - 2 * Latency + some /\ Due(pdu) = pdu * avg - 2 * Latency
  BY DEF Position, Due
<1>5. next \in Due(pdu) .. Due(pdu) + Half - 1
  BY DEF Clock, Begins
<1>6. BufferLen = 2 * Half /\ Half \in Nat \ {0}
  BY Constants
<1> HIDE DEF before, some, avg, frames
<1>7. /\ Position \in Int /\ next \in Int /\ next < Position + BufferLen
      /\ frames \in 1 .. BufferLen - 1
  BY <1>1, <1>2, <1>3, <1>4, <1>5, <1>6
<1> QED
  BY <1>1, <1>7 DEF avg, frames

\* A block empties the slots of the packets due in it, which are those of the
\* packets a round later, and leaves the others as they are.
LEMMA PlayedSlot ==
    ASSUME Clock, elastic \in [Slots -> Packet], audio_offset = Position % BufferLen,
           NEW k \in Position + mode.frames .. Position + mode.frames + BufferLen - 1
    PROVE  /\ k \in Int /\ k % BufferLen \in Slots
           /\ k < Position + BufferLen => Played[k % BufferLen] = elastic[k % BufferLen]
           /\ k >= Position + BufferLen => Played[k % BufferLen] = Empty
<1> DEFINE n == BufferLen
           frames == mode.frames
           P == Position
<1>1. n \in Nat \ {0} /\ P \in Int /\ frames \in 1 .. n - 1
  BY NextAhead, Constants
<1>2. k \in Int /\ k % n \in Slots
  <2>1. k \in Int
    BY <1>1
  <2> HIDE DEF n
  <2>2. k % n \in 0 .. n - 1
    BY <1>1, <2>1, ModExists
  <2> QED
    BY <2>1, <2>2 DEF n, Slots
<1>3. audio_offset # Unaligned
  BY <1>1, ModExists DEF Unaligned
<1>4. \A f \in 0 .. frames - 1 : (audio_offset + f) % n = (P + f) % n
  <2> SUFFICES ASSUME NEW f \in 0 .. frames - 1
               PROVE  ((P % n) + f) % n = (P + f) % n
    OBVIOUS
  <2>1. f \in Int
    BY <1>1
  <2> HIDE DEF n, P
  <2> QED
    BY <1>1, <2>1, ModAdd
<1>5. Playing = {[due |-> P + f, slot |-> (audio_offset + f) % n] : f \in 0 .. frames - 1}
  BY <1>3 DEF Playing
<1>6. \A x \in Playing : \E f \in 0 .. frames - 1 : x.slot = (P + f) % n
  BY <1>4, <1>5
<1>7. \A f \in 0 .. frames - 1 : \E x \in Playing : x.slot = (P + f) % n
  <2> SUFFICES ASSUME NEW f \in 0 .. frames - 1
               PROVE  \E x \in Playing : x.slot = (P + f) % n
    OBVIOUS
  <2> DEFINE x == [due |-> P + f, slot |-> (audio_offset + f) % n]
  <2>1. x \in Playing
    BY <1>5
  <2>2. x.slot = (P + f) % n
    BY <1>4
  <2> QED
    BY <2>1, <2>2
<1>8. Played[k % n] = IF \E x \in Playing : x.slot = k % n THEN Empty ELSE elastic[k % n]
  BY <1>2 DEF Played
<1> HIDE DEF n, P, frames
<1>9. CASE k < P + n
  <2>1. ASSUME NEW f \in 0 .. frames - 1 PROVE (P + f) % n # k % n
    <3> DEFINE b == P + f
    <3>1. b \in Int /\ k - b \in 1 .. n - 1
      BY <1>1, <1>2, <1>9 DEF P, frames, n
    <3> HIDE DEF b
    <3>2. k % n # b % n
      BY <1>1, <1>2, <3>1, SlotsDiffer
    <3> QED
      BY <3>2 DEF b
  <2>2. Played[k % n] = elastic[k % n]
    BY <1>6, <1>8, <2>1
  <2> QED
    BY <1>1, <1>2, <1>9, <2>2 DEF n, P
<1>10. CASE k >= P + n
  <2> DEFINE f == k - n - P
             a == k - n
  <2>1. f \in 0 .. frames - 1 /\ a \in Int /\ a = P + f /\ a + n = k
    BY <1>1, <1>2, <1>10 DEF P, frames, n
  <2> HIDE DEF f, a
  <2>2. a % n = k % n
    BY <1>1, <2>1, ModRound
  <2>3. Played[k % n] = Empty
    BY <1>7, <1>8, <2>1, <2>2
  <2> QED
    BY <1>1, <1>2, <1>10, <2>3 DEF n, P
<1> QED
  BY <1>1, <1>2, <1>9, <1>10 DEF P, n

\* After a block, the slots that were played have what their next packets need.
LEMMA PlayRight ==
    ASSUME PlayInv, steady # Adrift, NEW m \in 0 .. BufferLen, m <= steady + mode.frames,
           NEW k \in Position + mode.frames + BufferLen - m
                       .. Position + mode.frames + BufferLen - 1
    PROVE  Right(k, Played[k % BufferLen], whole, sound, next, split, front)
<1>1. /\ Position \in Int /\ next \in Int /\ next < Position + BufferLen
      /\ mode.frames \in Int /\ BufferLen \in Nat \ {0} /\ steady \in Nat
  BY NextAhead, Constants DEF PlayInv, Typed
<1>2. k \in Int /\ k \in Position + mode.frames .. Position + mode.frames + BufferLen - 1
  BY <1>1
<1>3. audio_offset = Position % BufferLen
  BY DEF PlayInv, Aligned
<1>4. /\ k < Position + BufferLen => Played[k % BufferLen] = elastic[k % BufferLen]
      /\ k >= Position + BufferLen => Played[k % BufferLen] = Empty
  BY <1>2, <1>3, PlayedSlot DEF PlayInv, Typed
<1>5. CASE k < Position + BufferLen
  <2>1. k \in Swept
    BY <1>1, <1>2, <1>5 DEF Swept
  <2> QED
    BY <1>4, <1>5, <2>1 DEF PlayInv, SlotsRight
<1>6. CASE k >= Position + BufferLen
  <2>1. k # next /\ k \notin whole
    BY <1>1, <1>2, <1>6 DEF PlayInv, Awaited
  <2> QED
    BY <1>4, <1>6, <2>1 DEF Right, Empty
<1> QED
  BY <1>1, <1>2, <1>5, <1>6

\* So have all slots before the first PDU after a reset.
LEMMA CleanRight ==
    ASSUME PlayInv, audio_offset = Unaligned, NEW s \in Slots, NEW k
    PROVE  Right(k, Played[s], whole, sound, next, split, front)
<1>1. Played[s] = Empty
  BY DEF Played, Playing, PlayInv, Clean
<1> QED
  BY <1>1 DEF Right, Empty, PlayInv, Clean

\* It does not matter what else is due.
LEMMA LaterRight ==
    ASSUME NEW k, NEW p, k >= p, NEW e, NEW w, NEW good, NEW first, NEW cut, NEW half,
           Right(k, e, w, good, first, cut, half)
    PROVE  Right(k, e, Later(w, p), Later(good, p), first, cut, half)
BY DEF Right, Later

\* What a missed PDU began, or should have completed, is never played.
LEMMA MissedRight ==
    ASSUME NEW k \in Int, NEW e, NEW w, NEW good, NEW first \in Int, NEW was \in BOOLEAN,
           NEW half, NEW to \in Int, NEW cut \in BOOLEAN,
           IF was \/ ~cut THEN to > first ELSE to >= first,
           Right(k, e, w, good, first, was, half)
    PROVE  Right(k, e, w, good, to, cut, "missed")
<1>1. e.shape = "front" => k <= to /\ k # to
  BY DEF Right
<1> QED
  BY <1>1 DEF Right

\* The parts of a packet that its PDU completes, and whether all are good.
Count(to, cut) == IF cut THEN to - next + 1 ELSE to - next
Completes(j, to, cut) ==
    IF j = 0 /\ split THEN front # "missed" ELSE j < Count(to, cut) - 1 \/ ~cut
New(to, cut) == {j \in 0 .. Count(to, cut) - 1 : Completes(j, to, cut)}
NewGood(to, cut, bad) ==
    {j \in New(to, cut) : j \notin bad /\ (j = 0 /\ split => front = "good")}
HalfOf(to, cut, bad) ==
    IF ~cut THEN "missed" ELSE IF Count(to, cut) - 1 \in bad THEN "bad" ELSE "good"

\* The packets of a PDU are all in the round that its last block begins.
LEMMA CountFits ==
    ASSUME Clock, NEW to \in Begins(pdu + 1), NEW cut \in BOOLEAN, NextPdu(to, cut)
    PROVE  /\ Due(pdu) \in Int /\ next \in Int /\ to \in Int
           /\ next \in Due(pdu) .. Due(pdu) + Half - 1
           /\ Count(to, cut) \in Nat \ {0} /\ next + Count(to, cut) <= Due(pdu) + BufferLen
           /\ next + Count(to, cut) - 1 <= to /\ (split \/ ~cut => to > next) /\ to >= next
<1> DEFINE avg == mode.avg
           before == pdu * avg
           after == (pdu + 1) * avg
<1>1. avg \in 1 .. Half /\ Latency \in Nat /\ pdu \in Nat
  BY NextAhead, Constants DEF Clock
<1>2. before \in Int /\ after = before + avg
  BY <1>1
<1>3. Due(pdu) = before - 2 * Latency /\ Due(pdu + 1) = after - 2 * Latency
  BY DEF Due
<1>4. next \in Due(pdu) .. Due(pdu) + Half - 1 /\ to \in Due(pdu + 1) .. Due(pdu + 1) + Half - 1
  BY DEF Clock, Begins
<1>5. IF split \/ ~cut THEN to > next ELSE to >= next
  BY DEF NextPdu
<1>6. BufferLen = 2 * Half /\ Half \in Nat \ {0}
  BY Constants
<1> HIDE DEF before, after, avg
<1>7. /\ Due(pdu) \in Int /\ next \in Int /\ to \in Int
      /\ to <= Due(pdu) + BufferLen - 1
  BY <1>1, <1>2, <1>3, <1>4, <1>6
<1> QED
  BY <1>4, <1>5, <1>6, <1>7 DEF Count

\* What a PDU does to the slot of packet k.
LEMMA FilledSlot ==
    ASSUME Clock, NEW to \in Begins(pdu + 1), NEW cut \in BOOLEAN, NextPdu(to, cut),
           NEW bad, NEW slots, NEW k \in Due(pdu) .. Due(pdu) + BufferLen - 1
    PROVE  LET hdr == Pdu(to, cut)  j == k - next  s == k % BufferLen
           IN  Filled(slots, hdr, bad)[s] =
                  IF j \in 0 .. Count(to, cut) - 1
                  THEN Pushed(slots[s], Shape(hdr, j), j \notin bad, k) ELSE slots[s]
<1> DEFINE n == BufferLen
           hdr == Pdu(to, cut)
           s == k % n
           c == Count(to, cut)
           i == (n + s - FirstSeq(hdr)) % n
<1>1. /\ Due(pdu) \in Int /\ next \in Int /\ k \in Int
      /\ next \in Due(pdu) .. Due(pdu) + Half - 1
      /\ c \in Nat \ {0} /\ next + c <= Due(pdu) + n
  BY CountFits
<1>2. n \in Nat \ {0} /\ Half \in Nat \ {0} /\ n = 2 * Half
  BY Constants
<1>3. FirstSeq(hdr) = next % n
  BY <1>1, FirstSeqRight DEF Clock
<1>4. k - next \in 1 - n .. n - 1
  BY <1>1, <1>2
<1>5. s \in Slots
  <2> HIDE DEF n
  <2>1. k % n \in 0 .. n - 1
    BY <1>1, <1>2, ModExists
  <2> QED
    BY <2>1 DEF n, Slots
<1>6. i = IF k >= next THEN k - next ELSE k - next + n
  <2>1. i = (n + (k % n) - (next % n)) % n
    BY <1>3
  <2> HIDE DEF i, n
  <2> QED
    BY <1>1, <1>2, <1>4, <2>1, SlotsApart
<1>7. hdr.nop = c
  BY DEF Pdu, Count
<1>8. Filled(slots, hdr, bad)[s] =
         IF i < c THEN Pushed(slots[s], Shape(hdr, i), i \notin bad, next + i) ELSE slots[s]
  BY <1>5, <1>7 DEF Filled
<1> HIDE DEF n, hdr, s, c, i
<1>9. CASE k >= next
  <2>1. i = k - next /\ next + i = k /\ (i < c <=> k - next \in 0 .. c - 1)
    BY <1>1, <1>6, <1>9
  <2> QED
    BY <1>8, <2>1 DEF hdr, s, c, n
<1>10. CASE ~(k >= next)
  <2>1. ~(i < c) /\ k - next \notin 0 .. c - 1
    BY <1>1, <1>2, <1>6, <1>10 DEF n
  <2> QED
    BY <1>8, <2>1 DEF hdr, s, c, n
<1> QED
  BY <1>9, <1>10

\* After a PDU all slots that had what their packets needed have what they need
\* now.
LEMMA PushedRight ==
    ASSUME Clock, NEW to \in Begins(pdu + 1), NEW cut \in BOOLEAN, NextPdu(to, cut),
           NEW bad, NEW slots, NEW k \in Due(pdu) .. Due(pdu) + BufferLen - 1,
           slots[k % BufferLen] \in Packet,
           NEW w, NEW good, good \subseteq w, \A x \in w : x < next,
           front \in {"missed", "bad", "good"},
           Right(k, slots[k % BufferLen], w, good, next, split, front)
    PROVE  Right(k, Filled(slots, Pdu(to, cut), bad)[k % BufferLen],
                 w \cup {next + j : j \in New(to, cut)},
                 good \cup {next + j : j \in NewGood(to, cut, bad)},
                 to, cut, HalfOf(to, cut, bad))
<1> DEFINE c == Count(to, cut)
           j == k - next
           e == slots[k % BufferLen]
           g == Filled(slots, Pdu(to, cut), bad)[k % BufferLen]
           ww == w \cup {next + i : i \in New(to, cut)}
           gg == good \cup {next + i : i \in NewGood(to, cut, bad)}
           half == HalfOf(to, cut, bad)
<1>1. /\ next \in Int /\ k \in Int /\ to \in Int /\ c \in Nat \ {0} /\ next + c - 1 <= to
      /\ (split \/ ~cut => to > next) /\ to >= next
  BY CountFits
<1>2. g = IF j \in 0 .. c - 1
          THEN Pushed(e, Shape(Pdu(to, cut), j), j \notin bad, k) ELSE e
  BY FilledSlot
<1>3. k \in ww <=> k \in w \/ j \in New(to, cut)
  <2>1. \A i \in New(to, cut) : i \in Int
    BY <1>1 DEF New
  <2> QED
    BY <1>1, <2>1
<1>4. k \in gg <=> k \in good \/ j \in NewGood(to, cut, bad)
  <2>1. \A i \in NewGood(to, cut, bad) : i \in Int
    BY <1>1 DEF NewGood, New
  <2> QED
    BY <1>1, <2>1
<1>5. New(to, cut) \subseteq 0 .. c - 1 /\ NewGood(to, cut, bad) \subseteq New(to, cut)
  BY DEF New, NewGood
<1>6. c = IF cut THEN to - next + 1 ELSE to - next
  BY DEF Count
<1>7. Right(k, e, w, good, next, split, front) /\ e \in Packet
  OBVIOUS
<1> HIDE DEF g, e, ww, gg, c
<1>8. CASE j \notin 0 .. c - 1
  <2>1. g = e /\ (k \in ww <=> k \in w) /\ (k \in gg <=> k \in good)
    BY <1>2, <1>3, <1>4, <1>5, <1>8
  <2>2. k < next \/ (k > next /\ k >= next + c)
    BY <1>1, <1>8
  <2>3. e.shape = "front" => k < next
    BY <1>1, <1>7, <2>2 DEF Right
  <2>4. ~(k = to /\ cut)
    BY <1>1, <1>6, <2>2
  <2> QED
    BY <1>1, <1>7, <2>1, <2>3, <2>4 DEF Right, ww, gg, g, c
<1>9. CASE j \in 0 .. c - 1
  <2>1. k >= next /\ k \notin w /\ k \notin good /\ k <= to
    BY <1>1, <1>9
  <2>2. e.shape # "full" /\ (e.shape = "front" <=> j = 0 /\ split /\ front # "missed")
    BY <1>1, <1>7, <2>1 DEF Right
  <2>3. /\ k \in ww <=> Completes(j, to, cut)
        /\ k \in gg <=> Completes(j, to, cut) /\ j \notin bad /\ (j = 0 /\ split => front = "good")
    BY <1>3, <1>4, <1>9, <2>1 DEF New, NewGood, c
  <2>4. g = Pushed(e, Shape(Pdu(to, cut), j), j \notin bad, k)
    BY <1>2, <1>9
  <2>5. Shape(Pdu(to, cut), j) = IF j = 0 /\ split THEN "back"
                                 ELSE IF j = c - 1 /\ cut THEN "front" ELSE "full"
    BY DEF Shape, Pdu, c, Count
  <2>6. CASE j = 0 /\ split
    <3>1. k # to /\ k = next
      BY <1>1, <2>6
    <3>2. CASE front = "missed"
      <4>1. g = e
        BY <2>2, <2>4, <2>5, <2>6, <3>2 DEF Pushed
      <4>2. k \notin ww
        BY <2>3, <2>6, <3>2 DEF Completes
      <4> QED
        BY <2>2, <2>6, <3>1, <3>2, <4>1, <4>2 DEF Right, ww, gg, g, c
    <3>3. CASE front # "missed"
      <4>1. e.shape = "front" /\ (e.ok <=> front = "good") /\ (e.ok => e.data = {k})
        BY <1>7, <2>6, <3>1, <3>3 DEF Right
      <4>2. g = [shape |-> "full", ok |-> e.ok /\ j \notin bad,
                 data |-> IF e.ok /\ j \notin bad THEN e.data \cup {k} ELSE {}]
        BY <2>4, <2>5, <2>6, <4>1 DEF Pushed
      <4>3. k \in ww /\ (k \in gg <=> j \notin bad /\ front = "good")
        BY <2>3, <2>6, <3>3 DEF Completes
      <4> HIDE DEF j
      <4>4. g.shape = "full" /\ (g.ok <=> k \in gg) /\ (g.ok => g.data = {k})
        BY <4>1, <4>2, <4>3
      <4> QED
        BY <3>1, <4>3, <4>4 DEF Right, ww, gg, g, c
    <3> QED
      BY <3>2, <3>3
  <2>7. CASE ~(j = 0 /\ split) /\ j = c - 1 /\ cut
    <3>1. k = to
      BY <1>1, <1>6, <2>7
    <3>2. g = [shape |-> "front", ok |-> j \notin bad, data |-> IF j \notin bad THEN {k} ELSE {}]
      BY <2>4, <2>5, <2>7 DEF Pushed
    <3>3. half = IF j \in bad THEN "bad" ELSE "good"
      BY <2>7 DEF HalfOf, c
    <3>4. k \notin ww
      <4>1. ~(j < c - 1) /\ cut
        BY <1>1, <2>7
      <4>2. ~Completes(j, to, cut)
        BY <2>7, <4>1, Zenon DEF Completes, c
      <4> QED
        BY <2>3, <4>2
    <3> HIDE DEF j, half
    <3>5. g.shape = "front" /\ (g.ok <=> j \notin bad) /\ (j \notin bad => g.data = {k})
      BY <3>2
    <3>6. half # "missed" /\ (half = "good" <=> j \notin bad)
      BY <3>3
    <3>7. Right(k, g, ww, gg, to, cut, half)
      BY <1>1, <2>7, <3>1, <3>4, <3>5, <3>6 DEF Right
    <3> QED
      BY <3>7 DEF ww, gg, g, c, half
  <2>8. CASE ~(j = 0 /\ split) /\ ~(j = c - 1 /\ cut)
    <3>1. ~(k = to /\ cut)
      BY <1>1, <1>6, <2>8
    <3>2. g = [shape |-> "full", ok |-> j \notin bad, data |-> IF j \notin bad THEN {k} ELSE {}]
      BY <2>4, <2>5, <2>8 DEF Pushed
    <3>3. k \in ww /\ (k \in gg <=> j \notin bad)
      <4>1. Completes(j, to, cut)
        BY <1>1, <1>9, <2>8 DEF Completes, c
      <4> QED
        BY <2>3, <2>8, <4>1
    <3> HIDE DEF j, half
    <3>4. g.shape = "full" /\ (g.ok <=> j \notin bad) /\ (j \notin bad => g.data = {k})
      BY <3>2
    <3>5. Right(k, g, ww, gg, to, cut, half)
      BY <3>1, <3>3, <3>4 DEF Right
    <3> QED
      BY <3>5 DEF ww, gg, g, c, half
  <2> QED
    BY <2>6, <2>7, <2>8
<1> QED
  BY <1>8, <1>9

-----------------------------------------------------------------------------
(* The steps *)

\* What playing does to the receiver alone.
LEMMA PlayTyped ==
    ASSUME PlayInv
    PROVE  /\ Played \in [Slots -> Packet] /\ Advanced \in Slots \cup {Unaligned}
           /\ Advanced = Unaligned <=> audio_offset = Unaligned
           /\ audio_offset = Unaligned => Played = elastic
<1>1. BufferLen \in Nat \ {0} /\ mode.frames \in Int
  BY NextAhead, Constants DEF PlayInv
<1>2. Empty \in Packet /\ elastic \in [Slots -> Packet] /\ Unaligned \notin Slots
  BY <1>1 DEF Empty, Packet, PlayInv, Typed, Unaligned, Slots
<1>3. Played \in [Slots -> Packet]
  BY <1>2 DEF Played
<1>4. CASE audio_offset = Unaligned
  <2>1. Playing = {}
    BY <1>4 DEF Playing
  <2> QED
    BY <1>2, <1>3, <1>4, <2>1 DEF Advanced, Played
<1>5. CASE audio_offset # Unaligned
  <2> DEFINE a == audio_offset + mode.frames
  <2>1. a \in Int
    BY <1>1, <1>5 DEF PlayInv, Typed, Slots
  <2> HIDE DEF a
  <2>2. a % BufferLen \in Slots
    BY <1>1, <2>1, ModExists DEF Slots
  <2>3. Advanced = a % BufferLen
    BY <1>5 DEF Advanced, a
  <2> QED
    BY <1>2, <1>3, <1>5, <2>2, <2>3
<1> QED
  BY <1>4, <1>5

\* The count of the packets played since the last slip.
LEMMA SteadyGrows ==
    ASSUME PlayInv,
           steady' = IF steady = Adrift THEN Adrift
                     ELSE IF steady + mode.frames < BufferLen THEN steady + mode.frames
                     ELSE BufferLen
    PROVE  /\ steady' \in 0 .. BufferLen \cup {Adrift}
           /\ steady' # Adrift => /\ steady # Adrift /\ steady' \in 0 .. BufferLen
                                  /\ steady' <= steady + mode.frames
BY NextAhead, Constants DEF PlayInv, Typed, Adrift

LEMMA LaterRange ==
    ASSUME NEW a \in Int, NEW p \in Int, NEW x \in Int, NEW y \in Int, x <= y,
           NEW S \in SUBSET (a .. x - 1)
    PROVE  Later(S, p) \subseteq p .. y - 1
<1> SUFFICES ASSUME NEW k \in S, k >= p PROVE k \in p .. y - 1
  BY DEF Later
<1>1. k \in Int /\ k <= x - 1
  OBVIOUS
<1> QED
  BY <1>1

LEMMA BlockKeeps ==
    ASSUME PlayInv, Block
    PROVE  Typed' /\ Awaited' /\ Clean' /\ SlotsRight'
<1> DEFINE P == Position + mode.frames
<1>1. /\ NextBlock /\ Play /\ whole' = Later(whole, P) /\ sound' = Later(sound, P)
      /\ front' = front /\ next' = next /\ split' = split
  BY DEF Block, Forget, NextBlock
<1>2. Position' = P /\ Position \in Int /\ P \in Int
  BY <1>1, PositionGoesOn, NextAhead DEF PlayInv
<1>3. elastic' = Played /\ audio_offset' = Advanced
  BY <1>1 DEF Play
<1>4. /\ steady' \in 0 .. BufferLen \cup {Adrift}
      /\ steady' # Adrift => /\ steady # Adrift /\ steady' \in 0 .. BufferLen
                             /\ steady' <= steady + mode.frames
  BY <1>1, SteadyGrows DEF Play
<1> HIDE DEF P
<1>5. Typed'
  BY <1>1, <1>3, <1>4, PlayTyped DEF PlayInv, Typed, Later
<1>6. Awaited'
  <2>1. whole \subseteq Position .. next - 1 /\ next \in Int /\ next <= next
    BY NextAhead DEF PlayInv, Awaited
  <2>2. Later(whole, P) \subseteq P .. next - 1
    BY <1>2, <2>1, LaterRange
  <2> QED
    BY <1>1, <1>2, <2>2 DEF Awaited
<1>7. Clean'
  BY <1>1, <1>3, <1>4, PlayTyped DEF PlayInv, Clean, Later
<1>8. SlotsRight'
  <2> SUFFICES ASSUME steady' # Adrift, NEW k \in Swept'
               PROVE  Right(k, elastic'[k % BufferLen], whole', sound', next', split', front')
    BY DEF SlotsRight
  <2>1. k \in P + BufferLen - steady' .. P + BufferLen - 1
    BY <1>2 DEF Swept
  <2>2. Right(k, Played[k % BufferLen], whole, sound, next, split, front)
    BY <1>4, <2>1, PlayRight DEF P
  <2>3. k >= P
    <3> DEFINE m == steady'
    <3>1. m \in 0 .. BufferLen /\ BufferLen \in Nat
      BY <1>4, Constants
    <3>2. k \in P + BufferLen - m .. P + BufferLen - 1
      BY <2>1
    <3> HIDE DEF m
    <3> QED
      BY <1>2, <3>1, <3>2
  <2>4. Right(k, Played[k % BufferLen], whole', sound', next, split, front)
    BY <1>1, <2>2, <2>3, LaterRight
  <2> QED
    BY <1>1, <1>3, <2>4
<1> QED
  BY <1>5, <1>6, <1>7, <1>8

LEMMA MissedKeeps ==
    ASSUME PlayInv, PduMissed
    PROVE  Typed' /\ Awaited' /\ Clean' /\ SlotsRight'
<1> DEFINE P == Position + mode.frames
<1>1. PICK to \in Begins(pdu + 1), cut \in BOOLEAN : NextPdu(to, cut)
  BY DEF PduMissed
<1>2. /\ Play /\ whole' = Later(whole, P) /\ sound' = Later(sound, P)
      /\ front' = "missed" /\ next' = to /\ split' = cut
  BY <1>1 DEF PduMissed, Forget, NextPdu
<1>3. Position' = P /\ Position \in Int /\ P \in Int
  BY <1>1, PositionGoesOn, NextAhead DEF PlayInv
<1>4. /\ to \in Int /\ next \in Int /\ to >= next
      /\ IF split \/ ~cut THEN to > next ELSE to >= next
  BY <1>1, CountFits DEF PlayInv
<1>5. elastic' = Played /\ audio_offset' = Advanced
  BY <1>2 DEF Play
<1>6. /\ steady' \in 0 .. BufferLen \cup {Adrift}
      /\ steady' # Adrift => /\ steady # Adrift /\ steady' \in 0 .. BufferLen
                             /\ steady' <= steady + mode.frames
  BY <1>2, SteadyGrows DEF Play
<1> HIDE DEF P
<1>7. Typed'
  BY <1>2, <1>5, <1>6, PlayTyped DEF PlayInv, Typed, Later
<1>8. Awaited'
  <2>1. whole \subseteq Position .. next - 1
    BY DEF PlayInv, Awaited
  <2>2. Later(whole, P) \subseteq P .. to - 1
    BY <1>3, <1>4, <2>1, LaterRange
  <2> QED
    BY <1>2, <1>3, <2>2 DEF Awaited
<1>9. Clean'
  BY <1>2, <1>5, <1>6, PlayTyped DEF PlayInv, Clean, Later
<1>10. SlotsRight'
  <2> SUFFICES ASSUME steady' # Adrift, NEW k \in Swept'
               PROVE  Right(k, elastic'[k % BufferLen], whole', sound', next', split', front')
    BY DEF SlotsRight
  <2>1. k \in P + BufferLen - steady' .. P + BufferLen - 1
    BY <1>3 DEF Swept
  <2>2. Right(k, Played[k % BufferLen], whole, sound, next, split, front)
    BY <1>6, <2>1, PlayRight DEF P
  <2>3. k >= P /\ k \in Int
    <3> DEFINE m == steady'
    <3>1. m \in 0 .. BufferLen /\ BufferLen \in Nat
      BY <1>6, Constants
    <3>2. k \in P + BufferLen - m .. P + BufferLen - 1
      BY <2>1
    <3> HIDE DEF m
    <3> QED
      BY <1>3, <3>1, <3>2
  <2>4. Right(k, Played[k % BufferLen], whole', sound', next, split, front)
    BY <1>2, <2>2, <2>3, LaterRight
  <2>5. split \in BOOLEAN
    BY DEF PlayInv, Clock
  <2>6. Right(k, Played[k % BufferLen], whole', sound', to, cut, "missed")
    BY <1>4, <2>3, <2>4, <2>5, MissedRight
  <2> QED
    BY <1>2, <1>5, <2>6
<1> QED
  BY <1>7, <1>8, <1>9, <1>10

LEMMA ReceivedKeeps ==
    ASSUME PlayInv, NEW to \in Begins(pdu + 1), NEW cut \in BOOLEAN, NEW bad,
           PduReceived(to, cut, bad), Aligned'
    PROVE  Typed' /\ Awaited' /\ Clean' /\ SlotsRight'
<1> DEFINE P == Position + mode.frames
           w == Later(whole, P)
           good == Later(sound, P)
<1>1. NextPdu(to, cut) /\ next' = to /\ split' = cut
  BY DEF PduReceived, NextPdu
<1>2. /\ whole' = w \cup {next + j : j \in New(to, cut)}
      /\ sound' = good \cup {next + j : j \in NewGood(to, cut, bad)}
      /\ front' = HalfOf(to, cut, bad)
  <2>1. Pdu(to, cut).nop = Count(to, cut)
    BY DEF Pdu, Count
  <2>2. New(to, cut) = {j \in 0 .. Pdu(to, cut).nop - 1 :
                          IF j = 0 /\ split THEN front # "missed"
                          ELSE j < Pdu(to, cut).nop - 1 \/ ~cut}
    BY <2>1 DEF New, Completes
  <2>3. NewGood(to, cut, bad) =
           {i \in New(to, cut) : i \notin bad /\ (i = 0 /\ split => front = "good")}
    BY DEF NewGood
  <2> QED
    BY <2>1, <2>2, <2>3 DEF PduReceived, HalfOf
<1>3. /\ elastic' = Filled(Played, Pdu(to, cut), bad)
      /\ steady' = IF audio_offset = Unaligned THEN BufferLen
                   ELSE IF steady = Adrift THEN 0
                   ELSE IF steady + mode.frames < BufferLen THEN steady + mode.frames
                   ELSE BufferLen
  BY DEF PduReceived
<1>4. /\ Position' = P /\ Position' = Due(pdu) /\ Position \in Int /\ P \in Int
      /\ next \in Int /\ mode.frames \in Int
  BY <1>1, PositionGoesOn, PositionOfNext, NextAhead DEF PlayInv
<1>5. /\ to \in Int /\ next \in Due(pdu) .. Due(pdu) + Half - 1 /\ to >= next
      /\ Count(to, cut) \in Nat \ {0} /\ next + Count(to, cut) - 1 <= to
      /\ Count(to, cut) = IF cut THEN to - next + 1 ELSE to - next
      /\ (split \/ ~cut => to > next)
  BY <1>1, CountFits DEF PlayInv, Count
<1>6. BufferLen \in Nat \ {0}
  BY Constants
<1>7. /\ steady' \in 0 .. BufferLen
      /\ audio_offset # Unaligned /\ steady = Adrift => steady' = 0
      /\ steady # Adrift /\ audio_offset # Unaligned => steady' <= steady + mode.frames
  BY <1>3, <1>4, <1>6, NextAhead DEF PlayInv, Typed
<1>8. steady' # Adrift /\ audio_offset' \in Slots
  <2>1. steady' # Adrift
    BY <1>6, <1>7 DEF Adrift
  <2>2. audio_offset' = P % BufferLen
    BY <1>4, <2>1 DEF Aligned
  <2> HIDE DEF P
  <2>3. P % BufferLen \in 0 .. BufferLen - 1
    BY <1>4, <1>6, ModExists
  <2> QED
    BY <2>1, <2>2, <2>3 DEF Slots
<1>9. \A x \in w : x < next
  BY <1>4 DEF PlayInv, Awaited, Later
<1>10. good \subseteq w
  BY DEF PlayInv, Typed, Later
<1> HIDE DEF P
<1>11. Typed'
  <2>1. elastic' \in [Slots -> Packet]
    <3>1. ASSUME NEW pkt \in Packet, NEW shape \in {"back", "front", "full"}, NEW ok \in BOOLEAN,
                 NEW k \in Int
          PROVE  Pushed(pkt, shape, ok, k) \in Packet
      BY <3>1 DEF Pushed, Packet
    <3>2. \A j \in Int : Shape(Pdu(to, cut), j) \in {"back", "front", "full"}
      BY DEF Shape
    <3>3. ASSUME NEW s \in Slots
          PROVE  Filled(Played, Pdu(to, cut), bad)[s] \in Packet
      <4> DEFINE j == (BufferLen + s - FirstSeq(Pdu(to, cut))) % BufferLen
      <4>1. FirstSeq(Pdu(to, cut)) \in Int /\ s \in Int
        <5>1. FirstSeq(Pdu(to, cut)) = next % BufferLen
          BY <1>4, FirstSeqRight DEF PlayInv, Clock
        <5> QED
          BY <1>4, <1>6, <5>1, ModExists DEF Slots
      <4>2. j \in Int
        BY <1>6, <4>1
      <4>3. Filled(Played, Pdu(to, cut), bad)[s] =
               IF j < Pdu(to, cut).nop
               THEN Pushed(Played[s], Shape(Pdu(to, cut), j), j \notin bad, next + j)
               ELSE Played[s]
        BY DEF Filled
      <4> HIDE DEF j
      <4>4. next + j \in Int /\ (j \notin bad) \in BOOLEAN /\ Played[s] \in Packet
        BY <1>4, <4>2, PlayTyped
      <4> QED
        BY <3>1, <3>2, <4>2, <4>3, <4>4
    <3>4. elastic' = [s \in Slots |-> Filled(Played, Pdu(to, cut), bad)[s]]
      BY <1>3 DEF Filled
    <3> QED
      BY <3>3, <3>4
  <2>2. sound' \subseteq whole'
    BY <1>2, <1>10 DEF NewGood
  <2>3. front' \in {"missed", "bad", "good"}
    BY <1>2 DEF HalfOf
  <2> QED
    BY <1>7, <1>8, <2>1, <2>2, <2>3 DEF Typed
<1>12. Awaited'
  <2>1. w \subseteq P .. to - 1
    <3>1. whole \subseteq Position .. next - 1
      BY DEF PlayInv, Awaited
    <3> QED
      BY <1>4, <1>5, <3>1, LaterRange
  <2>2. ASSUME NEW j \in New(to, cut) PROVE next + j \in P .. to - 1
    <3>1. j \in 0 .. Count(to, cut) - 1 /\ Completes(j, to, cut)
      BY DEF New
    <3>2. P <= next /\ j \in Nat
      BY <1>4, <1>5, <3>1
    <3>3. CASE ~cut
      BY <1>4, <1>5, <3>1, <3>2, <3>3
    <3>4. CASE cut /\ j = 0 /\ split
      BY <1>4, <1>5, <3>2, <3>4
    <3>5. CASE cut /\ ~(j = 0 /\ split)
      <4>1. j < Count(to, cut) - 1
        BY <3>1, <3>5 DEF Completes
      <4> QED
        BY <1>4, <1>5, <3>2, <3>5, <4>1
    <3> QED
      BY <3>3, <3>4, <3>5
  <2>3. whole' \subseteq P .. to - 1
    BY <1>2, <2>1, <2>2
  <2> QED
    BY <1>1, <1>4, <2>3 DEF Awaited
<1>13. Clean'
  <2>1. audio_offset' # Unaligned
    BY <1>6, <1>8 DEF Slots, Unaligned
  <2> QED
    BY <2>1 DEF Clean
<1>14. SlotsRight'
  <2> DEFINE m == steady'
  <2> SUFFICES ASSUME NEW k \in Swept'
               PROVE  Right(k, elastic'[k % BufferLen], whole', sound', next', split', front')
    BY DEF SlotsRight
  <2>1. k \in P + BufferLen - m .. P + BufferLen - 1
    BY <1>4 DEF Swept
  <2>2. m \in 0 .. BufferLen
    BY <1>7
  <2> HIDE DEF m
  <2>3. k \in P .. P + BufferLen - 1 /\ k \in Int /\ m # 0
    BY <1>4, <1>6, <2>1, <2>2
  <2>4. k % BufferLen \in Slots
    <3>1. k % BufferLen \in 0 .. BufferLen - 1
      BY <1>6, <2>3, ModExists
    <3> QED
      BY <3>1 DEF Slots
  <2>5. Right(k, Played[k % BufferLen], whole, sound, next, split, front)
    <3>1. CASE audio_offset = Unaligned
      BY <2>4, <3>1, CleanRight
    <3>2. CASE audio_offset # Unaligned
      <4>1. steady # Adrift /\ m <= steady + mode.frames
        BY <1>7, <2>3, <3>2 DEF m
      <4> QED
        BY <2>1, <2>2, <4>1, PlayRight DEF P
    <3> QED
      BY <3>1, <3>2
  <2>6. Right(k, Played[k % BufferLen], w, good, next, split, front)
    BY <1>4, <2>3, <2>5, LaterRight
  <2>7. Played[k % BufferLen] \in Packet /\ front \in {"missed", "bad", "good"}
    BY <2>4, PlayTyped DEF PlayInv, Typed
  <2>8. k \in Due(pdu) .. Due(pdu) + BufferLen - 1
    BY <1>4, <2>3
  <2> HIDE DEF w, good
  <2>9. Right(k, Filled(Played, Pdu(to, cut), bad)[k % BufferLen],
              w \cup {next + j : j \in New(to, cut)},
              good \cup {next + j : j \in NewGood(to, cut, bad)},
              to, cut, HalfOf(to, cut, bad))
    BY <1>1, <1>9, <1>10, <2>6, <2>7, <2>8, PushedRight DEF PlayInv
  <2> QED
    BY <1>1, <1>2, <1>3, <2>9
<1> QED
  BY <1>11, <1>12, <1>13, <1>14

\* A block that is lost or repeated, or a reset, leaves nothing to be said of
\* the slots until they have all been played again.
LEMMA SlipKeeps ==
    ASSUME PlayInv, BlockLost \/ BlockRepeated \/ OutputReset
    PROVE  Typed' /\ Awaited' /\ Clean' /\ SlotsRight'
<1>1. steady' = Adrift
  BY DEF BlockLost, BlockRepeated, OutputReset, Slip
<1>2. SlotsRight'
  BY <1>1 DEF SlotsRight
<1>3. CASE BlockLost
  <2> DEFINE P == Position + mode.frames
  <2>1. /\ whole' = Later(whole, P) /\ sound' = Later(sound, P) /\ front' \in {front, "missed"}
        /\ audio_offset' = audio_offset /\ elastic' = elastic
    BY <1>3, Zenon DEF BlockLost, Forget
  <2>2. \/ NextBlock
        \/ \E to \in Begins(pdu + 1), cut \in BOOLEAN : NextPdu(to, cut)
    BY <1>3, Zenon DEF BlockLost
  <2>3. Position' = P /\ Position \in Int /\ P \in Int /\ next \in Int
    BY <2>2, PositionGoesOn, NextAhead DEF PlayInv
  <2>4. next' \in Int /\ next <= next'
    <3>1. CASE NextBlock
      BY <2>3, <3>1 DEF NextBlock
    <3>2. ASSUME NEW to \in Begins(pdu + 1), NEW cut \in BOOLEAN, NextPdu(to, cut)
          PROVE  next' \in Int /\ next <= next'
      BY <3>2, CountFits DEF PlayInv, NextPdu
    <3> QED
      BY <2>2, <3>1, <3>2
  <2> HIDE DEF P
  <2>5. Awaited'
    <3> DEFINE to == next'
    <3>1. whole \subseteq Position .. next - 1 /\ to \in Int /\ next <= to
      BY <2>4 DEF PlayInv, Awaited
    <3> HIDE DEF to
    <3>2. Later(whole, P) \subseteq P .. to - 1
      BY <2>3, <3>1, LaterRange
    <3> QED
      BY <2>1, <2>3, <3>2 DEF Awaited, to
  <2>6. Typed'
    BY <1>1, <2>1 DEF PlayInv, Typed, Later
  <2>7. Clean'
    BY <1>1, <2>1 DEF PlayInv, Clean, Later
  <2> QED
    BY <1>2, <2>5, <2>6, <2>7
<1>4. CASE BlockRepeated
  <2>1. /\ elastic' = Played /\ audio_offset' = Advanced
        /\ UNCHANGED <<mode, pdu, block, next, whole, sound, front>>
    BY <1>4 DEF BlockRepeated, station, received
  <2>2. Typed'
    BY <1>1, <2>1, PlayTyped DEF PlayInv, Typed
  <2>3. Awaited'
    BY <2>1 DEF PlayInv, Awaited, Position, Due
  <2>4. Clean'
    BY <1>1, <2>1, PlayTyped DEF PlayInv, Clean
  <2> QED
    BY <1>2, <2>2, <2>3, <2>4
<1>5. CASE OutputReset
  <2>1. /\ audio_offset' = Unaligned /\ elastic' = [s \in Slots |-> Empty]
        /\ whole' = {} /\ sound' = {} /\ front' = "missed"
    BY <1>5 DEF OutputReset
  <2>2. Empty \in Packet
    BY DEF Empty, Packet
  <2>3. elastic' \in [Slots -> Packet]
    BY <2>1, <2>2
  <2>4. Typed' /\ Awaited' /\ Clean'
    BY <1>1, <2>1, <2>3 DEF Typed, Awaited, Clean
  <2> QED
    BY <1>2, <2>4
<1> QED
  BY <1>3, <1>4, <1>5

LEMMA PlayInit == Init => PlayInv
<1> SUFFICES ASSUME Init PROVE PlayInv
  OBVIOUS
<1>1. Empty \in Packet
  BY DEF Empty, Packet
<1>2. elastic = [s \in Slots |-> Empty] /\ elastic \in [Slots -> Packet]
  BY <1>1 DEF Init
<1> QED
  BY <1>2 DEF Init, PlayInv, Clock, Aligned, Typed, Awaited, Clean, SlotsRight

LEMMA PlayStep ==
    ASSUME PlayInv, [Next]_vars
    PROVE  PlayInv'
<1>1. Clock' /\ Aligned'
  BY AlignedStep DEF PlayInv
<1>2. CASE Block \/ PduMissed \/ BlockLost \/ BlockRepeated \/ OutputReset
  BY <1>1, <1>2, BlockKeeps, MissedKeeps, SlipKeeps DEF PlayInv
<1>3. ASSUME NEW to \in Begins(pdu + 1), NEW cut \in BOOLEAN,
             NEW bad, PduReceived(to, cut, bad)
      PROVE  PlayInv'
  BY <1>1, <1>3, ReceivedKeeps DEF PlayInv
<1>4. CASE UNCHANGED vars
  BY <1>1, <1>4
     DEF vars, station, received, PlayInv, Typed, Awaited, Clean, SlotsRight, Swept, Position, Due
<1> QED
  BY <1>2, <1>3, <1>4 DEF Next

\* What is played in a step of PlayInv, once all slots were played in step.
LEMMA PlaysRight ==
    ASSUME PlayInv, steady = BufferLen, heard' = Reports
    PROVE  /\ \A r \in heard' : /\ r.due \in whole /\ (r.ok => r.data = {r.due})
                                /\ r.ok <=> r.due \in sound
           /\ \A k \in whole : k < Position + mode.frames => \E r \in heard' : r.due = k
<1> DEFINE n == BufferLen
           frames == mode.frames
           P == Position
<1>1. n \in Nat \ {0} /\ P \in Int /\ frames \in 1 .. n - 1
  BY NextAhead, Constants DEF PlayInv
<1>2. steady # Adrift /\ audio_offset = P % n
  BY <1>1 DEF PlayInv, Aligned, Adrift
<1>3. audio_offset # Unaligned
  BY <1>2 DEF PlayInv, Clean
<1>4. ASSUME NEW f \in 0 .. frames - 1
      PROVE  /\ (audio_offset + f) % n = (P + f) % n
             /\ Right(P + f, elastic[(P + f) % n], whole, sound, next, split, front)
  <2>1. f \in Int /\ P + f \in P .. P + n - 1
    BY <1>1
  <2>2. P + f \in Swept
    BY <1>1, <2>1 DEF Swept
  <2>3. ((P % n) + f) % n = (P + f) % n
    <3> HIDE DEF n, P
    <3> QED
      BY <1>1, <2>1, ModAdd
  <2> QED
    BY <1>2, <2>2, <2>3 DEF PlayInv, SlotsRight
<1>5. Playing = {[due |-> P + f, slot |-> (audio_offset + f) % n] : f \in 0 .. frames - 1}
  BY <1>3 DEF Playing
<1>6. ASSUME NEW r \in heard'
      PROVE  r.due \in whole /\ (r.ok => r.data = {r.due}) /\ (r.ok <=> r.due \in sound)
  <2>1. PICK x \in Playing : /\ elastic[x.slot].shape = "full"
                             /\ r = [due |-> x.due, ok |-> elastic[x.slot].ok,
                                     data |-> elastic[x.slot].data]
    BY <1>6 DEF Reports
  <2>2. PICK f \in 0 .. frames - 1 : x.due = P + f /\ x.slot = (audio_offset + f) % n
    BY <1>5
  <2> DEFINE e == elastic[(P + f) % n]
             k == P + f
  <2>3. Right(k, e, whole, sound, next, split, front) /\ x.slot = (P + f) % n
    BY <1>4, <2>2
  <2>4. e.shape = "full" /\ r.due = k /\ r.ok = e.ok /\ r.data = e.data
    BY <2>1, <2>2, <2>3
  <2> HIDE DEF e, k
  <2> QED
    BY <2>3, <2>4 DEF Right
<1>7. ASSUME NEW k \in whole, k < P + frames
      PROVE  \E r \in heard' : r.due = k
  <2> DEFINE f == k - P
             e == elastic[(P + f) % n]
             x == [due |-> P + f, slot |-> (audio_offset + f) % n]
             r == [due |-> x.due, ok |-> elastic[x.slot].ok, data |-> elastic[x.slot].data]
  <2>1. k \in Int /\ k >= P
    BY <1>1, NextAhead DEF PlayInv, Awaited
  <2>2. f \in 0 .. frames - 1 /\ P + f = k
    BY <1>1, <1>7, <2>1
  <2>3. x \in Playing
    BY <1>5, <2>2
  <2>4. x.slot = (P + f) % n /\ Right(P + f, e, whole, sound, next, split, front)
    BY <1>4, <2>2
  <2>5. elastic[x.slot].shape = "full"
    BY <2>2, <2>4 DEF Right
  <2>6. r \in heard' /\ r.due = k
    BY <2>2, <2>3, <2>5 DEF Reports
  <2> QED
    BY <2>6
<1> QED
  BY <1>6, <1>7

\* Once every slot was played since the last slip, each packet that was received
\* whole is played when it is due, and nothing else is: no half of another
\* packet, nothing from an earlier round; for every buffer, latency and mode,
\* whatever number of packets the PDUs have and whichever of them are missed.
THEOREM ReceivedIsPlayed == Spec => PlaysReceived
<1> DEFINE A == InStep =>
                  /\ \A r \in heard' : /\ r.due \in whole /\ (r.ok => r.data = {r.due})
                                       /\ r.ok <=> r.due \in sound
                  /\ \A k \in whole : k < Position + mode.frames => \E r \in heard' : r.due = k
<1>1. PlayInv /\ [Next]_vars => [A]_vars
  <2> SUFFICES ASSUME PlayInv, Next, steady = BufferLen, steady' = BufferLen PROVE heard' = Reports
    BY PlaysRight DEF InStep
  <2>1. BufferLen # Adrift
    BY Constants DEF Adrift
  <2>2. ~BlockLost /\ ~OutputReset
    BY <2>1 DEF BlockLost, OutputReset, Slip
  <2> QED
    BY <2>2 DEF Next, Block, PduMissed, PduReceived, BlockRepeated, Play
<1>2. PlayInv /\ [Next]_vars => PlayInv'
  BY PlayStep
<1> QED
  BY <1>1, <1>2, PlayInit, PTL DEF Spec, PlaysReceived

\* Every variable keeps its type, and the read position stays in the buffer.
THEOREM ElasticTypes == Spec => []TypeOK
<1> DEFINE IInv == PlayInv /\ pdu <= MaxPdus /\ torn \in BOOLEAN /\ slips \in 0 .. MaxSlips
<1>1. Init => IInv
  BY PlayInit, ElasticAssumption DEF Init
<1>2. IInv /\ [Next]_vars => IInv'
  <2> SUFFICES ASSUME PlayInv, pdu <= MaxPdus, torn \in BOOLEAN, slips \in 0 .. MaxSlips,
                      [Next]_vars
               PROVE  pdu' <= MaxPdus /\ torn' \in BOOLEAN /\ slips' \in 0 .. MaxSlips
    BY PlayStep
  <2>1. MaxPdus \in Nat /\ MaxSlips \in Nat /\ pdu \in Nat
    BY ElasticAssumption DEF PlayInv, Clock
  <2>2. ASSUME NEW to, NEW cut, NextPdu(to, cut)
        PROVE  pdu' <= MaxPdus /\ torn' = FALSE
    BY <2>1, <2>2 DEF NextPdu
  <2>3. ASSUME NextBlock PROVE pdu' = pdu
    BY <2>3 DEF NextBlock
  <2>4. CASE Block
    BY <2>3, <2>4 DEF Block
  <2>5. CASE PduMissed
    BY <2>2, <2>5 DEF PduMissed
  <2>6. ASSUME NEW to, NEW cut, NEW bad, PduReceived(to, cut, bad)
        PROVE  pdu' <= MaxPdus /\ torn' = FALSE /\ slips' = slips
    BY <2>2, <2>6 DEF PduReceived
  <2>7. CASE BlockLost
    <3>1. slips' \in 0 .. MaxSlips
      BY <2>1, <2>7 DEF BlockLost, Slip
    <3>2. \/ NextBlock /\ torn' = TRUE
          \/ \E to \in Begins(pdu + 1), cut \in BOOLEAN : NextPdu(to, cut)
      BY <2>7, Zenon DEF BlockLost
    <3> QED
      BY <2>2, <2>3, <3>1, <3>2
  <2>8. CASE BlockRepeated
    BY <2>1, <2>8 DEF BlockRepeated, Slip, station
  <2>9. CASE OutputReset
    BY <2>9 DEF OutputReset, station
  <2>10. CASE UNCHANGED vars
    BY <2>10 DEF vars, station
  <2> QED
    BY <2>4, <2>5, <2>6, <2>7, <2>8, <2>9, <2>10 DEF Next
<1>3. IInv => TypeOK
  BY ElasticAssumption DEF PlayInv, Clock, Typed, TypeOK, Packet
<1> QED
  BY <1>1, <1>2, <1>3, PTL DEF Spec
=============================================================================
