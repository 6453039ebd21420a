--------------------------- MODULE ReceiverProofs ---------------------------
(***************************************************************************)
(* A receiver that says it is synchronised has its window on the blocks of *)
(* the station, knows their numbers, and hands on whole frames only: for   *)
(* every length of a block, a frame, the interleavers and the delays, for  *)
(* FM and AM.                                                              *)
(*                                                                         *)
(* The invariant says of each buffer of the decoder how long ago what is   *)
(* in it was sent (Collected...): as long as a frame takes, a buffer that  *)
(* was filled since the synchronisation holds a frame and nothing else.    *)
(* Block numbers and ages go round, so that most of the arithmetic is      *)
(* about what a remainder is.                                              *)
(***************************************************************************)
EXTENDS Receiver, TLAPS, SequenceTheorems, WellFoundedInduction

-----------------------------------------------------------------------------
(* Arithmetic *)

LEMMA Constants ==
    /\ Symbols \in Nat /\ Symbols >= 2 /\ Blocks \in Nat /\ Blocks >= 4 /\ Blocks % 2 = 0
    /\ CfoWait \in Nat /\ Pairs \in Nat /\ Pairs >= 1 /\ Delay \in Nat /\ Delay >= 1
    /\ Losses \subseteq Nat /\ MaxFaults \in Nat
BY ReceiverAssumption

\* The symbols of a frame.
Round == Symbols * Blocks

LEMMA RoundType == Round \in Nat /\ Round >= 4 * Symbols
BY Constants DEF Round

LEMMA DivMod ==
    ASSUME NEW n \in Nat \ {0}, NEW a \in Int
    PROVE  /\ a % n \in 0 .. n - 1 /\ a \div n \in Int
           /\ a = (a \div n) * n + (a % n)
OBVIOUS

LEMMA ModOf ==
    ASSUME NEW n \in Nat \ {0}, NEW z \in Int, NEW r \in 0 .. n - 1
    PROVE  (z * n + r) % n = r
OBVIOUS

\* What is less than n, and what is less than twice as much.
LEMMA ModSmall ==
    ASSUME NEW n \in Nat \ {0}, NEW a \in 0 .. 2 * n - 1
    PROVE  a % n = IF a < n THEN a ELSE a - n
<1> DEFINE z == IF a < n THEN 0 ELSE 1
           r == a - z * n
<1>1. z \in Int /\ r \in 0 .. n - 1 /\ a = z * n + r
  OBVIOUS
<1>2. r = IF a < n THEN a ELSE a - n
  OBVIOUS
<1> HIDE DEF z, r
<1> QED
  BY <1>1, <1>2, ModOf

LEMMA DivOf ==
    ASSUME NEW n \in Nat \ {0}, NEW z \in Int, NEW r \in 0 .. n - 1
    PROVE  (z * n + r) \div n = z
OBVIOUS

LEMMA DivSmall ==
    ASSUME NEW n \in Nat \ {0}, NEW a \in 0 .. 2 * n - 1
    PROVE  a \div n = IF a < n THEN 0 ELSE 1
<1> DEFINE z == IF a < n THEN 0 ELSE 1
           r == a - z * n
<1>1. z \in Int /\ r \in 0 .. n - 1 /\ a = z * n + r
  OBVIOUS
<1> HIDE DEF z, r
<1>2. a \div n = z
  BY <1>1, DivOf
<1> QED
  BY <1>2 DEF z

\* The next block is odd if this one is even.
LEMMA Parity ==
    ASSUME NEW n \in 0 .. Blocks - 1
    PROVE  /\ (n + 1) % Blocks = IF n = Blocks - 1 THEN 0 ELSE n + 1
           /\ n % 2 \in {0, 1} /\ ((n + 1) % Blocks) % 2 = 1 - (n % 2)
<1>1. (n + 1) % Blocks = IF n = Blocks - 1 THEN 0 ELSE n + 1
  <2>1. n + 1 \in 0 .. 2 * Blocks - 1 /\ Blocks \in Nat \ {0}
    BY Constants
  <2> DEFINE m == n + 1
  <2> HIDE DEF m
  <2>2. m % Blocks = IF m < Blocks THEN m ELSE m - Blocks
    BY <2>1, ModSmall DEF m
  <2> QED
    BY <2>2, Constants DEF m
<1>2. CASE n = Blocks - 1
  BY <1>1, <1>2, Constants
<1>3. CASE n # Blocks - 1
  BY <1>1, <1>3, Constants
<1> QED
  BY <1>1, <1>2, <1>3

-----------------------------------------------------------------------------
(* The types of the decoder *)

LEMMA MaxAgeType ==
    /\ MaxAge \in Nat
    /\ mode = "FM" => MaxAge >= Blocks /\ MaxAge >= 2 * Pairs + 1
    /\ mode = "AM" => MaxAge = Delay * Blocks + 1
<1>1. Delay * Blocks \in Nat
  BY Constants
<1> QED
  BY <1>1, Constants DEF MaxAge

LEMMA AgedType ==
    ASSUME NEW a \in Ages, NEW n \in Nat
    PROVE  Aged(a, n) \in Ages
BY MaxAgeType DEF Aged, Ages, Bad

LEMMA AgedIs ==
    ASSUME NEW a \in Nat, NEW n \in Nat, a # 0, a + n <= MaxAge
    PROVE  Aged(a, n) = a + n
BY MaxAgeType DEF Aged, Bad

LEMMA OlderType ==
    ASSUME NEW d \in Decoders, NEW n \in Nat
    PROVE  /\ Older(d, n) \in Decoders
           /\ \A f \in {"started_pm", "px_started", "px_ready", "px_i", "am_diversity_wait"} :
                Older(d, n)[f] = d[f]
           /\ \A b \in 0 .. Blocks - 1 : Older(d, n).buffer[b] = Aged(d.buffer[b], n)
           /\ Older(d, n).px_half = Aged(d.px_half, n)
           /\ \A j \in 0 .. Pairs - 1 : Older(d, n).px_internal[j] = Aged(d.px_internal[j], n)
           /\ \A f \in 1 .. Delay : Older(d, n).delayed[f] = Aged(d.delayed[f], n)
           /\ Older(d, n).coded = [whole |-> d.coded.whole, age |-> Aged(d.coded.age, n)]
BY AgedType DEF Older, Decoders

LEMMA DecodeResetType ==
    ASSUME NEW d \in Decoders
    PROVE  /\ DecodeReset(d) \in Decoders
           /\ DecodeReset(d).started_pm = FALSE /\ DecodeReset(d).px_started = FALSE
           /\ DecodeReset(d).px_i = 0 /\ DecodeReset(d).px_ready = FALSE
           /\ DecodeReset(d).am_diversity_wait = Delay + 1
<1>1. Delay + 1 \in 0 .. Delay + 1 /\ 0 \in 0 .. Pairs
  BY Constants
<1>2. DecodeReset(d) \in Decoders
  BY <1>1 DEF DecodeReset, Decoders
<1>3. /\ DecodeReset(d).started_pm = FALSE /\ DecodeReset(d).px_started = FALSE
      /\ DecodeReset(d).px_i = 0 /\ DecodeReset(d).px_ready = FALSE
      /\ DecodeReset(d).am_diversity_wait = Delay + 1
  BY DEF DecodeReset, Decoders
<1> QED
  BY <1>2, <1>3

LEMMA NoDataType == NoData \in Decoders
<1>1. [started_pm |-> FALSE, buffer |-> [b \in 0 .. Blocks - 1 |-> Bad],
       px_started |-> FALSE, px_ready |-> FALSE, px_i |-> 0, px_half |-> Bad,
       px_internal |-> [j \in 0 .. Pairs - 1 |-> Bad],
       am_diversity_wait |-> 0, delayed |-> [f \in 1 .. Delay |-> Bad],
       coded |-> [whole |-> "none", age |-> Bad]] \in Decoders
  BY Constants, MaxAgeType DEF Decoders, Ages, Bad, Verdicts
<1> QED
  BY <1>1, DecodeResetType DEF NoData

-----------------------------------------------------------------------------
(* Frames that are whole *)

\* What the decoder d has collected when block n is the next one, and the station
\* has completed it (x = 1) or not yet (x = 0): the blocks of the frame before n.
Collected(d, n, x) == \A b \in 0 .. n - 1 : d.buffer[b] = n - b + x

\* FM: of the frame of P1, if its first block was collected; of the interleaver,
\* everything that was written since it was started.
CollectedPm(d, n, x) == d.started_pm => Collected(d, n, x)

PairAge(i, j, n, x) == 1 + 2 * ((Pairs + i - 1 - j) % Pairs) + (n % 2) + x

CollectedPx(d, n, x) ==
    IF d.px_started
    THEN /\ n % 2 = 1 => d.px_half = 1 + x
         /\ \A j \in 0 .. Pairs - 1 : j < d.px_i \/ d.px_ready =>
               d.px_internal[j] = PairAge(d.px_i, j, n, x)
    ELSE d.px_i = 0 /\ ~d.px_ready

\* AM: the main parts of the latest frames, as many as were waited for; and with
\* all of them, the frame interleaved last is whole.
CollectedAm(d, n, x) ==
    /\ Collected(d, n, x)
    /\ \A f \in 1 .. Delay :
         f >= d.am_diversity_wait => d.delayed[f] = (Delay - f) * Blocks + 1 + n + x
    /\ d.am_diversity_wait <= Delay => d.coded.age = n + 1 + x
    /\ d.am_diversity_wait = 0 => d.coded.whole = "whole"

CollectedAll(d, n, x) ==
    IF mode = "FM" THEN CollectedPm(d, n, x) /\ CollectedPx(d, n, x) ELSE CollectedAm(d, n, x)

LEMMA CollectedType ==
    ASSUME NEW d \in Decoders
    PROVE  /\ d.started_pm \in BOOLEAN /\ d.px_started \in BOOLEAN /\ d.px_ready \in BOOLEAN
           /\ d.px_i \in 0 .. Pairs /\ d.am_diversity_wait \in 0 .. Delay + 1
           /\ d.px_half \in Ages /\ d.coded.age \in Ages /\ d.coded.whole \in Verdicts
           /\ d.buffer \in [0 .. Blocks - 1 -> Ages]
           /\ d.px_internal \in [0 .. Pairs - 1 -> Ages]
           /\ d.delayed \in [1 .. Delay -> Ages]
BY DEF Decoders

LEMMA Back ==
    ASSUME NEW i \in 0 .. Pairs, NEW j \in 0 .. Pairs - 1
    PROVE  (Pairs + i - 1 - j) % Pairs = IF j < i THEN i - 1 - j ELSE Pairs + i - 1 - j
<1> DEFINE m == Pairs + i - 1 - j
<1>1. m \in 0 .. 2 * Pairs - 1 /\ Pairs \in Nat \ {0}
  BY Constants
<1> HIDE DEF m
<1>2. m % Pairs = IF m < Pairs THEN m ELSE m - Pairs
  BY <1>1, ModSmall
<1> QED
  BY <1>2, Constants DEF m

LEMMA PairAgeIs ==
    ASSUME NEW i \in 0 .. Pairs, NEW j \in 0 .. Pairs - 1, NEW n \in 0 .. Blocks - 1
    PROVE  /\ PairAge(i, j, n, 0) =
                1 + 2 * (IF j < i THEN i - 1 - j ELSE Pairs + i - 1 - j) + (n % 2)
           /\ PairAge(i, j, n, 0) \in 1 .. 2 * Pairs
           /\ PairAge(i, j, n, 1) = PairAge(i, j, n, 0) + 1
<1> DEFINE z == (Pairs + i - 1 - j) % Pairs
<1>1. z = (IF j < i THEN i - 1 - j ELSE Pairs + i - 1 - j) /\ n % 2 \in {0, 1}
  BY Back, Parity
<1>2. PairAge(i, j, n, 0) = 1 + 2 * z + (n % 2) + 0 /\ PairAge(i, j, n, 1) = 1 + 2 * z + (n % 2) + 1
  BY DEF PairAge
<1> HIDE DEF z
<1> QED
  BY <1>1, <1>2, Constants

\* The station completes block n.
LEMMA OlderPm ==
    ASSUME mode = "FM", NEW d \in Decoders, NEW n \in 0 .. Blocks - 1, CollectedPm(d, n, 0)
    PROVE  CollectedPm(Older(d, 1), n, 1)
<1>1. ASSUME d.started_pm, NEW b \in 0 .. n - 1 PROVE Older(d, 1).buffer[b] = n - b + 1
  <2>1. d.buffer[b] = n - b /\ b \in 0 .. Blocks - 1 /\ n - b \in Nat /\ n - b # 0 /\ n - b + 1 <= MaxAge
    BY <1>1, Constants, MaxAgeType DEF CollectedPm, Collected
  <2>2. Aged(n - b, 1) = n - b + 1
    BY <2>1, AgedIs
  <2>3. Older(d, 1).buffer[b] = Aged(d.buffer[b], 1)
    BY <2>1, OlderType
  <2> QED
    BY <2>1, <2>2, <2>3
<1>2. Older(d, 1).started_pm = d.started_pm
  BY OlderType
<1> QED
  BY <1>1, <1>2 DEF CollectedPm, Collected

LEMMA OlderPx ==
    ASSUME mode = "FM", NEW d \in Decoders, NEW n \in 0 .. Blocks - 1, CollectedPx(d, n, 0)
    PROVE  CollectedPx(Older(d, 1), n, 1)
<1> DEFINE e == Older(d, 1)
<1>1. /\ e.px_started = d.px_started /\ e.px_i = d.px_i /\ e.px_ready = d.px_ready
      /\ e.px_half = Aged(d.px_half, 1)
      /\ \A j \in 0 .. Pairs - 1 : e.px_internal[j] = Aged(d.px_internal[j], 1)
  BY OlderType
<1>2. CASE ~d.px_started
  BY <1>1, <1>2 DEF CollectedPx
<1>3. CASE d.px_started
  <2>1. n % 2 = 1 => Aged(d.px_half, 1) = 2
    BY <1>3, AgedIs, MaxAgeType, Constants DEF CollectedPx
  <2>2. ASSUME NEW j \in 0 .. Pairs - 1, j < d.px_i \/ d.px_ready
        PROVE  Aged(d.px_internal[j], 1) = PairAge(d.px_i, j, n, 1)
    <3>1. d.px_i \in 0 .. Pairs /\ d.px_internal[j] = PairAge(d.px_i, j, n, 0)
      BY <1>3, <2>2, CollectedType DEF CollectedPx
    <3> DEFINE a == PairAge(d.px_i, j, n, 0)
    <3>2. a \in 1 .. 2 * Pairs /\ PairAge(d.px_i, j, n, 1) = a + 1
      BY <3>1, PairAgeIs
    <3> HIDE DEF a
    <3>3. Aged(a, 1) = a + 1
      BY <3>2, AgedIs, MaxAgeType, Constants
    <3> QED
      BY <3>1, <3>2, <3>3 DEF a
  <2>3. e.px_started
    BY <1>1, <1>3, Zenon
  <2>4. ASSUME NEW j \in 0 .. Pairs - 1, j < e.px_i \/ e.px_ready
        PROVE  e.px_internal[j] = PairAge(e.px_i, j, n, 1)
    BY <1>1, <2>2, <2>4
  <2>5. n % 2 = 1 => e.px_half = 1 + 1
    BY <1>1, <2>1
  <2> QED
    BY <2>3, <2>4, <2>5 DEF CollectedPx
<1> QED
  BY <1>2, <1>3

LEMMA DelayAge ==
    ASSUME NEW f \in 1 .. Delay, NEW n \in 0 .. Blocks - 1, NEW x \in {0, 1}
    PROVE  (Delay - f) * Blocks + 1 + n + x \in 1 .. (Delay - f + 1) * Blocks + x
                /\ (Delay - f + 1) * Blocks <= Delay * Blocks
<1> DEFINE y == (Delay - f) * Blocks
           z == (Delay - f + 1) * Blocks
<1>1. y \in Nat /\ z = y + Blocks
  BY Constants
<1>2. z <= Delay * Blocks
  BY Constants
<1> HIDE DEF y, z
<1>3. y + 1 + n + x \in 1 .. z + x
  BY <1>1, Constants
<1> QED
  BY <1>2, <1>3 DEF y, z

LEMMA OlderAm ==
    ASSUME mode = "AM", NEW d \in Decoders, NEW n \in 0 .. Blocks - 1, CollectedAm(d, n, 0)
    PROVE  CollectedAm(Older(d, 1), n, 1)
<1> DEFINE e == Older(d, 1)
           wait == d.am_diversity_wait
<1>1. /\ e.am_diversity_wait = wait /\ wait \in Int
      /\ \A b \in 0 .. Blocks - 1 : e.buffer[b] = Aged(d.buffer[b], 1)
      /\ \A f \in 1 .. Delay : e.delayed[f] = Aged(d.delayed[f], 1)
      /\ e.coded = [whole |-> d.coded.whole, age |-> Aged(d.coded.age, 1)]
  BY OlderType, CollectedType
<1>2. MaxAge = Delay * Blocks + 1 /\ MaxAge \in Nat /\ Delay * Blocks >= Blocks
  BY MaxAgeType, Constants
<1>3. ASSUME NEW b \in 0 .. n - 1 PROVE e.buffer[b] = n - b + 1
  <2>1. d.buffer[b] = n - b /\ b \in 0 .. Blocks - 1 /\ n - b \in Nat /\ n - b # 0 /\ n - b + 1 <= MaxAge
    BY <1>2, <1>3, Constants DEF CollectedAm, Collected
  <2>2. Aged(n - b, 1) = n - b + 1
    BY <2>1, AgedIs
  <2> QED
    BY <2>1, <2>2, <1>1
<1>4. ASSUME NEW f \in 1 .. Delay, f >= wait
      PROVE  e.delayed[f] = (Delay - f) * Blocks + 1 + n + 1
  <2> DEFINE a == (Delay - f) * Blocks + 1 + n + 0
  <2>1. d.delayed[f] = a
    BY <1>4 DEF CollectedAm
  <2>2. a \in 1 .. MaxAge - 1 /\ (Delay - f) * Blocks + 1 + n + 1 = a + 1
    <3>1. a \in 1 .. (Delay - f + 1) * Blocks + 0 /\ (Delay - f + 1) * Blocks <= Delay * Blocks
      BY DelayAge
    <3>2. (Delay - f) * Blocks \in Int /\ (Delay - f + 1) * Blocks \in Int /\ Delay * Blocks \in Int
      BY Constants
    <3> QED
      BY <3>1, <3>2, <1>2
  <2> HIDE DEF a
  <2>3. Aged(a, 1) = a + 1
    BY <2>2, <1>2, AgedIs
  <2> QED
    BY <1>1, <2>1, <2>2, <2>3
<1>5. ASSUME wait <= Delay PROVE e.coded.age = n + 1 + 1
  <2>1. d.coded.age = n + 1 /\ n + 1 \in Nat /\ n + 1 # 0 /\ n + 1 + 1 <= MaxAge
    BY <1>5, <1>2, Constants DEF CollectedAm
  <2>2. Aged(n + 1, 1) = n + 1 + 1
    BY <2>1, AgedIs
  <2> QED
    BY <1>1, <2>1, <2>2
<1>6. wait = 0 => e.coded.whole = "whole"
  BY <1>1 DEF CollectedAm
<1> HIDE DEF e
<1>7. Collected(e, n, 1)
  BY <1>3 DEF Collected
<1> QED
  BY <1>1, <1>4, <1>5, <1>6, <1>7 DEF CollectedAm, e

\* Nothing is known of a decoder that was just reset.
LEMMA ResetPm ==
    ASSUME NEW d \in Decoders, NEW n \in 0 .. Blocks - 1, NEW x \in {0, 1}
    PROVE  CollectedPm(DecodeReset(d), n, x) /\ CollectedPx(DecodeReset(d), n, x)
BY DecodeResetType DEF CollectedPm, CollectedPx

LEMMA ResetAm ==
    ASSUME NEW d \in Decoders, NEW x \in {0, 1}
    PROVE  CollectedAm(DecodeReset(d), 0, x)
<1> DEFINE e == DecodeReset(d)
<1>1. e.am_diversity_wait = Delay + 1
  BY DecodeResetType
<1> HIDE DEF e
<1>2. ~(e.am_diversity_wait <= Delay) /\ e.am_diversity_wait # 0
  BY <1>1, Constants
<1>3. \A f \in 1 .. Delay : ~(f >= e.am_diversity_wait)
  BY <1>1, Constants
<1>4. Collected(e, 0, x)
  BY DEF Collected
<1>5. CollectedAm(e, 0, x)
  BY <1>2, <1>3, <1>4 DEF CollectedAm
<1> QED
  BY <1>5 DEF e

-----------------------------------------------------------------------------
(* Pushing a block *)

Whole(frames) == \A f \in frames : f[2] = "whole"

\* The frames that a decoder may hand on.
Frames == {"P1", "P3", "PIDS"} \X Verdicts

LEMMA VerdictType ==
    ASSUME NEW right
    PROVE  /\ Verdict(right) \in Verdicts
           /\ (\A x \in DOMAIN right : right[x]) => Verdict(right) = "whole"
BY DEF Verdict, Verdicts

LEMMA PidsWhole ==
    ASSUME NEW d, NEW n
    PROVE  /\ ProcessPids(d, n) \subseteq Frames
           /\ d.buffer[n] = 1 => Whole(ProcessPids(d, n))
BY DEF ProcessPids, InterleaverIi, Frames, Verdicts, Whole

LEMMA PidsAmWhole ==
    ASSUME NEW age
    PROVE  /\ ProcessPidsAm(age) \subseteq Frames
           /\ age = 1 => Whole(ProcessPidsAm(age))
BY DEF ProcessPidsAm, Frames, Verdicts, Whole

LEMMA P1Whole ==
    ASSUME NEW d
    PROVE  /\ ProcessP1(d) \subseteq Frames
           /\ (\A b \in 0 .. Blocks - 1 : d.buffer[b] = Blocks - b)
                => Verdict(InterleaverI(d)) = "whole" /\ Whole(ProcessP1(d))
<1>1. ProcessP1(d) \subseteq Frames
  BY VerdictType DEF ProcessP1, Frames
<1>2. ASSUME \A b \in 0 .. Blocks - 1 : d.buffer[b] = Blocks - b
      PROVE  Verdict(InterleaverI(d)) = "whole"
  <2>1. \A x \in DOMAIN InterleaverI(d) : InterleaverI(d)[x]
    BY <1>2 DEF InterleaverI
  <2> QED
    BY <2>1, VerdictType
<1> QED
  BY <1>1, <1>2 DEF ProcessP1, Whole

\* A block put in the buffer: what is collected, and a frame at its last block.
LEMMA PutType ==
    ASSUME NEW d \in Decoders, NEW n \in 0 .. Blocks - 1, NEW age \in Ages
    PROVE  [d EXCEPT !.buffer[n] = age] \in Decoders
BY DEF Decoders

LEMMA Put ==
    ASSUME NEW d, NEW e, NEW n \in 0 .. Blocks - 1, Collected(d, n, 1),
           e.buffer[n] = 1, \A b \in 0 .. n - 1 : e.buffer[b] = d.buffer[b]
    PROVE  /\ n = Blocks - 1 => \A b \in 0 .. Blocks - 1 : e.buffer[b] = Blocks - b
           /\ Collected(e, (n + 1) % Blocks, 0)
<1>1. \A b \in 0 .. n : e.buffer[b] = n + 1 - b
  BY Constants DEF Collected
<1>2. ASSUME n = Blocks - 1, NEW b \in 0 .. Blocks - 1 PROVE e.buffer[b] = Blocks - b
  <2>1. b \in 0 .. n /\ n + 1 - b = Blocks - b
    BY <1>2, Constants
  <2> QED
    BY <2>1, <1>1
<1>3. \A b \in 0 .. ((n + 1) % Blocks) - 1 : e.buffer[b] = ((n + 1) % Blocks) - b + 0
  <2>1. CASE n = Blocks - 1
    <3>1. (n + 1) % Blocks = 0
      BY <2>1, Parity
    <3> QED
      BY <3>1
  <2>2. CASE n # Blocks - 1
    <3>1. (n + 1) % Blocks = n + 1
      BY <2>2, Parity
    <3> QED
      BY <3>1, <1>1, Constants
  <2> QED
    BY <2>1, <2>2
<1> QED
  BY <1>2, <1>3 DEF Collected

LEMMA PushPmIs ==
    ASSUME NEW d \in Decoders, NEW n \in 0 .. Blocks - 1, NEW age \in Ages
    PROVE  LET e == PushPm(d, n, age).decode IN
           /\ e \in Decoders /\ (e.started_pm <=> d.started_pm \/ n = 0)
           /\ e.buffer[n] = age /\ \A b \in (0 .. Blocks - 1) \ {n} : e.buffer[b] = d.buffer[b]
           /\ e.px_half = d.px_half /\ e.px_internal = d.px_internal /\ e.px_i = d.px_i
           /\ (e.px_started <=> d.px_started) /\ (e.px_ready <=> d.px_ready)
           /\ PushPm(d, n, age).frames =
                ProcessPids(e, n) \cup IF e.started_pm /\ n = Blocks - 1 THEN ProcessP1(e) ELSE {}
<1> DEFINE started == d.started_pm \/ n = 0
           c == [d EXCEPT !.buffer[n] = age]
           e == [c EXCEPT !.started_pm = started]
<1>1. c \in Decoders
  BY PutType
<1> HIDE DEF c
<1>2. started \in BOOLEAN
  BY CollectedType
<1> HIDE DEF started
<1>3. e \in Decoders
  BY <1>1, <1>2 DEF Decoders
<1>4. e = [d EXCEPT !.buffer[n] = age, !.started_pm = @ \/ n = 0]
  BY DEF c, started, Decoders
<1>5. PushPm(d, n, age).decode = e
  BY <1>4 DEF PushPm
<1>6. PushPm(d, n, age).frames =
        ProcessPids(e, n) \cup IF e.started_pm /\ n = Blocks - 1 THEN ProcessP1(e) ELSE {}
  BY <1>4 DEF PushPm
<1>7. e.started_pm = started
  BY <1>1 DEF Decoders
<1>8. e.buffer = c.buffer /\ e.px_half = c.px_half /\ e.px_internal = c.px_internal /\ e.px_i = c.px_i
      /\ e.px_started = c.px_started /\ e.px_ready = c.px_ready
  BY <1>1 DEF Decoders
<1> HIDE DEF e
<1>9. c.buffer[n] = age /\ \A b \in (0 .. Blocks - 1) \ {n} : c.buffer[b] = d.buffer[b]
  BY DEF c, Decoders
<1>10. c.px_half = d.px_half /\ c.px_internal = d.px_internal /\ c.px_i = d.px_i
       /\ c.px_started = d.px_started /\ c.px_ready = d.px_ready
  BY DEF c, Decoders
<1>11. e.started_pm <=> d.started_pm \/ n = 0
  BY <1>7 DEF started
<1>12. (e.px_started <=> d.px_started) /\ (e.px_ready <=> d.px_ready)
  BY <1>8, <1>10, Zenon
<1> QED
  BY <1>3, <1>5, <1>6, <1>8, <1>9, <1>10, <1>11, <1>12

LEMMA PushPmType ==
    ASSUME NEW d \in Decoders, NEW n \in 0 .. Blocks - 1, NEW age \in Ages
    PROVE  PushPm(d, n, age).decode \in Decoders /\ PushPm(d, n, age).frames \subseteq Frames
<1> DEFINE e == PushPm(d, n, age).decode
<1>1. /\ e \in Decoders
      /\ PushPm(d, n, age).frames =
           ProcessPids(e, n) \cup IF e.started_pm /\ n = Blocks - 1 THEN ProcessP1(e) ELSE {}
  BY PushPmIs
<1> HIDE DEF e
<1>2. ProcessPids(e, n) \subseteq Frames /\ ProcessP1(e) \subseteq Frames
  BY PidsWhole, P1Whole
<1> QED
  BY <1>1, <1>2 DEF e

LEMMA PushPmWhole ==
    ASSUME NEW d \in Decoders, NEW n \in 0 .. Blocks - 1, 1 \in Ages, CollectedPm(d, n, 1)
    PROVE  /\ Whole(PushPm(d, n, 1).frames)
           /\ CollectedPm(PushPm(d, n, 1).decode, (n + 1) % Blocks, 0)
<1> DEFINE e == PushPm(d, n, 1).decode
<1>1. /\ e.started_pm <=> d.started_pm \/ n = 0
      /\ e.buffer[n] = 1 /\ \A b \in (0 .. Blocks - 1) \ {n} : e.buffer[b] = d.buffer[b]
      /\ PushPm(d, n, 1).frames =
           ProcessPids(e, n) \cup IF e.started_pm /\ n = Blocks - 1 THEN ProcessP1(e) ELSE {}
  BY PushPmIs
<1> HIDE DEF e
<1>2. \A b \in 0 .. n - 1 : e.buffer[b] = d.buffer[b]
  BY <1>1, Constants
<1>3. ASSUME e.started_pm
      PROVE  /\ n = Blocks - 1 => \A b \in 0 .. Blocks - 1 : e.buffer[b] = Blocks - b
             /\ Collected(e, (n + 1) % Blocks, 0)
  <2>1. Collected(d, n, 1)
    BY <1>1, <1>3 DEF CollectedPm, Collected
  <2> QED
    BY <1>1, <1>2, <2>1, Put
<1>4. Whole(ProcessPids(e, n))
  BY <1>1, PidsWhole
<1>5. e.started_pm /\ n = Blocks - 1 => Whole(ProcessP1(e))
  BY <1>3, P1Whole
<1>6. Whole(PushPm(d, n, 1).frames)
  BY <1>1, <1>4, <1>5 DEF Whole
<1>7. CollectedPm(e, (n + 1) % Blocks, 0)
  BY <1>3 DEF CollectedPm
<1> QED
  BY <1>6, <1>7 DEF e

LEMMA InterleaverIvIs ==
    ASSUME NEW d \in Decoders, NEW pair \in Ages
    PROVE  LET e == InterleaverIv(d, pair).decode
               i == IF d.px_i = Pairs THEN 0 ELSE d.px_i IN
           /\ e \in Decoders /\ i \in 0 .. Pairs - 1 /\ e.px_i = i + 1
           /\ (e.px_ready <=> d.px_ready \/ d.px_i = Pairs)
           /\ e.px_internal[i] = pair
           /\ \A j \in (0 .. Pairs - 1) \ {i} : e.px_internal[j] = d.px_internal[j]
           /\ e.buffer = d.buffer /\ (e.started_pm <=> d.started_pm) /\ (e.px_started <=> d.px_started)
<1> DEFINE i == IF d.px_i = Pairs THEN 0 ELSE d.px_i
           ready == d.px_ready \/ d.px_i = Pairs
           internal == [d.px_internal EXCEPT ![i] = pair]
           e == [d EXCEPT !.px_i = i + 1, !.px_ready = ready, !.px_internal = internal]
<1>1. InterleaverIv(d, pair).decode = e
  BY DEF InterleaverIv, Decoders
<1>2. i \in 0 .. Pairs - 1 /\ i + 1 \in 0 .. Pairs
  BY CollectedType, Constants
<1>3. ready \in BOOLEAN
  OBVIOUS
<1>4. /\ internal \in [0 .. Pairs - 1 -> Ages] /\ internal[i] = pair
      /\ \A j \in (0 .. Pairs - 1) \ {i} : internal[j] = d.px_internal[j]
  BY <1>2, CollectedType
<1> HIDE DEF i, ready, internal
<1>5. e \in Decoders
  BY <1>2, <1>3, <1>4 DEF Decoders
<1>6. e.px_i = i + 1 /\ e.px_ready = ready /\ e.px_internal = internal
  BY DEF Decoders
<1>7. e.buffer = d.buffer /\ e.started_pm = d.started_pm /\ e.px_started = d.px_started
  BY DEF Decoders
<1> HIDE DEF e
<1>8. (e.started_pm <=> d.started_pm) /\ (e.px_started <=> d.px_started)
  BY <1>7, Zenon
<1>9. e.px_ready <=> d.px_ready \/ d.px_i = Pairs
  BY <1>6 DEF ready
<1> QED
  BY <1>1, <1>2, <1>4, <1>5, <1>6, <1>7, <1>8, <1>9 DEF i

\* What decode_push_px1 does before it interleaves.
PxHalf(d, n, age) ==
    [d EXCEPT !.px_started = @ \/ n % 2 = 0, !.px_half = IF n % 2 = 0 THEN age ELSE @]

LEMMA PxHalfIs ==
    ASSUME NEW d \in Decoders, NEW n \in 0 .. Blocks - 1, NEW age \in Ages
    PROVE  LET e == PxHalf(d, n, age) IN
           /\ e \in Decoders /\ (e.px_started <=> d.px_started \/ n % 2 = 0)
           /\ e.px_half = (IF n % 2 = 0 THEN age ELSE d.px_half)
           /\ e.px_internal = d.px_internal /\ e.px_i = d.px_i /\ (e.px_ready <=> d.px_ready)
           /\ e.buffer = d.buffer /\ (e.started_pm <=> d.started_pm)
<1> DEFINE started == d.px_started \/ n % 2 = 0
           half == IF n % 2 = 0 THEN age ELSE d.px_half
           e == [d EXCEPT !.px_started = started, !.px_half = half]
<1>1. PxHalf(d, n, age) = e
  BY DEF PxHalf, Decoders
<1>2. started \in BOOLEAN /\ half \in Ages
  BY CollectedType
<1> HIDE DEF started, half
<1>3. e \in Decoders
  BY <1>2 DEF Decoders
<1>4. e.px_started = started /\ e.px_half = half
  BY DEF Decoders
<1>5. /\ e.buffer = d.buffer /\ e.started_pm = d.started_pm /\ e.px_internal = d.px_internal
      /\ e.px_i = d.px_i /\ e.px_ready = d.px_ready
  BY DEF Decoders
<1> HIDE DEF e
<1>6. (e.started_pm <=> d.started_pm) /\ (e.px_ready <=> d.px_ready)
  BY <1>5, Zenon
<1>7. e.px_started <=> d.px_started \/ n % 2 = 0
  BY <1>4 DEF started
<1> QED
  BY <1>1, <1>3, <1>4, <1>5, <1>6, <1>7 DEF half

LEMMA PushPxIs ==
    ASSUME NEW d, NEW n, NEW age
    PROVE  LET e == PxHalf(d, n, age)
               f == InterleaverIv(e, IF e.px_half = 2 /\ age = 1 THEN 1 ELSE Bad) IN
           /\ PushPx(d, n, age).decode = IF e.px_started /\ n % 2 = 1 THEN f.decode ELSE e
           /\ PushPx(d, n, age).frames =
                IF e.px_started /\ n % 2 = 1 /\ f.decode.px_ready
                THEN {<<"P3", Verdict(f.right)>>} ELSE {}
BY DEF PushPx, PxHalf

LEMMA PushPxType ==
    ASSUME NEW d \in Decoders, NEW n \in 0 .. Blocks - 1, NEW age \in Ages
    PROVE  PushPx(d, n, age).decode \in Decoders /\ PushPx(d, n, age).frames \subseteq Frames
<1> DEFINE e == PxHalf(d, n, age)
           pair == IF e.px_half = 2 /\ age = 1 THEN 1 ELSE Bad
           f == InterleaverIv(e, pair)
<1>1. e \in Decoders
  BY PxHalfIs
<1>2. pair \in Ages
  BY MaxAgeType DEF Ages, Bad
<1> HIDE DEF e, pair
<1>3. f.decode \in Decoders
  BY <1>1, <1>2, InterleaverIvIs
<1>4. {<<"P3", Verdict(f.right)>>} \subseteq Frames
  BY VerdictType DEF Frames
<1>5. /\ PushPx(d, n, age).decode = IF e.px_started /\ n % 2 = 1 THEN f.decode ELSE e
      /\ PushPx(d, n, age).frames =
           IF e.px_started /\ n % 2 = 1 /\ f.decode.px_ready THEN {<<"P3", Verdict(f.right)>>} ELSE {}
  BY PushPxIs DEF e, pair
<1> HIDE DEF f
<1> QED
  BY <1>1, <1>3, <1>4, <1>5

\* What comes out of the interleaver once it was filled since it was started.
LEMMA InterleaverIvWhole ==
    ASSUME NEW d \in Decoders, NEW n \in 0 .. Blocks - 1, 1 \in Ages, n % 2 = 1,
           d.px_started, CollectedPx(d, n, 1)
    PROVE  /\ InterleaverIv(d, 1).decode.px_ready => Verdict(InterleaverIv(d, 1).right) = "whole"
           /\ CollectedPx(InterleaverIv(d, 1).decode, (n + 1) % Blocks, 0)
<1>0. d.px_i \in 0 .. Pairs
  BY CollectedType
<1> DEFINE e == InterleaverIv(d, 1).decode
           right == InterleaverIv(d, 1).right
           i == IF d.px_i = Pairs THEN 0 ELSE d.px_i
           c == (n + 1) % Blocks
<1>1. /\ e.px_i = i + 1 /\ i \in 0 .. Pairs - 1
      /\ (e.px_ready <=> d.px_ready \/ d.px_i = Pairs) /\ e.px_internal[i] = 1
      /\ \A j \in (0 .. Pairs - 1) \ {i} : e.px_internal[j] = d.px_internal[j]
      /\ (e.px_started <=> d.px_started)
  BY InterleaverIvIs
<1>2. right = [j \in 0 .. Pairs |->
                 IF j = Pairs THEN 1 = 1
                 ELSE d.px_internal[j] = 3 + 2 * ((Pairs + i - j - 1) % Pairs)]
  BY DEF InterleaverIv
<1>20. /\ DOMAIN right = 0 .. Pairs /\ right[Pairs]
       /\ \A j \in 0 .. Pairs - 1 :
            right[j] <=> d.px_internal[j] = 3 + 2 * ((Pairs + i - j - 1) % Pairs)
  <2> HIDE DEF right, i
  <2>1. DOMAIN right = 0 .. Pairs
    BY <1>2, Zenon
  <2>2. Pairs \in 0 .. Pairs /\ \A j \in 0 .. Pairs - 1 : j \in 0 .. Pairs /\ j # Pairs
    BY Constants
  <2>3. right[Pairs]
    BY <1>2, <2>2, Zenon
  <2>4. \A j \in 0 .. Pairs - 1 :
          right[j] <=> d.px_internal[j] = 3 + 2 * ((Pairs + i - j - 1) % Pairs)
    BY <1>2, <2>2, Zenon
  <2> QED
    BY <2>1, <2>3, <2>4
<1>3. i = d.px_i \/ (i = 0 /\ d.px_i = Pairs)
  BY Zenon
<1>4. c \in 0 .. Blocks - 1 /\ c % 2 = 0
  BY Parity, Constants
<1> HIDE DEF e, right, i, c
<1>5. ASSUME NEW j \in 0 .. Pairs - 1, j < d.px_i \/ d.px_ready
      PROVE  d.px_internal[j] =
                3 + 2 * (IF j < d.px_i THEN d.px_i - 1 - j ELSE Pairs + d.px_i - 1 - j)
  <2> DEFINE a == PairAge(d.px_i, j, n, 0)
             z == IF j < d.px_i THEN d.px_i - 1 - j ELSE Pairs + d.px_i - 1 - j
  <2>1. d.px_internal[j] = PairAge(d.px_i, j, n, 1)
    BY <1>5 DEF CollectedPx
  <2>2. a = 1 + 2 * z + (n % 2) /\ PairAge(d.px_i, j, n, 1) = a + 1
    BY <1>3, <1>0, PairAgeIs
  <2>3. z \in Int
    BY <1>3, <1>0, Constants
  <2> HIDE DEF a, z
  <2>4. d.px_internal[j] = 3 + 2 * z
    BY <2>1, <2>2, <2>3
  <2> QED
    BY <2>4 DEF z
<1>6. ASSUME e.px_ready, NEW j \in 0 .. Pairs - 1 PROVE right[j]
  <2>1. d.px_internal[j] = 3 + 2 * (IF j < d.px_i THEN d.px_i - 1 - j ELSE Pairs + d.px_i - 1 - j)
    BY <1>1, <1>3, <1>0, <1>5, <1>6
  <2> DEFINE z == IF j < i THEN i - 1 - j ELSE Pairs + i - 1 - j
  <2>2. d.px_internal[j] = 3 + 2 * z
    BY <2>1, <1>3, <1>0, Constants
  <2>3. (Pairs + i - 1 - j) % Pairs = z /\ Pairs + i - 1 - j = Pairs + i - j - 1
    <3>1. i \in 0 .. Pairs
      BY <1>1, Constants
    <3> QED
      BY <3>1, Back, Constants
  <2> HIDE DEF z
  <2>4. d.px_internal[j] = 3 + 2 * ((Pairs + i - j - 1) % Pairs)
    BY <2>2, <2>3
  <2> QED
    BY <2>4, <1>20
<1>7. e.px_ready => Verdict(right) = "whole"
  <2>1. e.px_ready => \A x \in DOMAIN right : right[x]
    <3> SUFFICES ASSUME e.px_ready, NEW x \in 0 .. Pairs PROVE right[x]
      BY <1>20
    <3>1. CASE x = Pairs
      BY <3>1, <1>20
    <3>2. CASE x # Pairs
      BY <3>2, <1>6, Constants
    <3> QED
      BY <3>1, <3>2
  <2> QED
    BY <2>1, VerdictType
<1>8. ASSUME NEW j \in 0 .. Pairs - 1, j < e.px_i \/ e.px_ready
      PROVE  e.px_internal[j] = PairAge(e.px_i, j, c, 0)
  <2> DEFINE z == IF j < e.px_i THEN e.px_i - 1 - j ELSE Pairs + e.px_i - 1 - j
  <2>1. PairAge(e.px_i, j, c, 0) = 1 + 2 * z
    <3>0. e.px_i \in 0 .. Pairs
      BY <1>1, Constants
    <3>1. PairAge(e.px_i, j, c, 0) = 1 + 2 * z + (c % 2)
      BY <3>0, <1>4, PairAgeIs
    <3>2. z \in Int
      BY <3>0, Constants
    <3> HIDE DEF z
    <3> QED
      BY <3>1, <3>2, <1>4
  <2>2. CASE j = i
    <3>1. z = 0
      <4>1. e.px_i = j + 1 /\ j \in Int
        BY <2>2, <1>1, Constants
      <4> QED
        BY <4>1
    <3> HIDE DEF z
    <3> QED
      BY <2>1, <2>2, <3>1, <1>1
  <2>3. CASE j # i
    <3>1. e.px_internal[j] = d.px_internal[j]
      BY <2>3, <1>1
    <3>2. j < d.px_i \/ d.px_ready
      BY <2>3, <1>1, <1>3, <1>0, <1>8
    <3> DEFINE y == IF j < d.px_i THEN d.px_i - 1 - j ELSE Pairs + d.px_i - 1 - j
    <3>3. d.px_internal[j] = 3 + 2 * y
      BY <3>2, <1>5
    <3>4. z = y + 1 /\ y \in Int
      <4>1. /\ e.px_i = i + 1 /\ i \in 0 .. Pairs - 1 /\ d.px_i \in 0 .. Pairs
            /\ Pairs \in Nat /\ Pairs >= 1 /\ j \in 0 .. Pairs - 1 /\ j # i
        BY <2>3, <1>1, <1>0, Constants
      <4>2. CASE i = d.px_i
        BY <4>1, <4>2
      <4>3. CASE i = 0 /\ d.px_i = Pairs
        BY <4>1, <4>3
      <4> QED
        BY <4>2, <4>3, <1>3
    <3> HIDE DEF y, z
    <3> QED
      BY <2>1, <3>1, <3>3, <3>4
  <2> QED
    BY <2>2, <2>3
<1>9. CollectedPx(e, c, 0)
  BY <1>1, <1>4, <1>8 DEF CollectedPx
<1> QED
  BY <1>7, <1>9 DEF e, c, right

LEMMA PushPxWhole ==
    ASSUME NEW d \in Decoders, NEW n \in 0 .. Blocks - 1, 1 \in Ages, CollectedPx(d, n, 1)
    PROVE  /\ Whole(PushPx(d, n, 1).frames)
           /\ CollectedPx(PushPx(d, n, 1).decode, (n + 1) % Blocks, 0)
           /\ PushPx(d, n, 1).decode.buffer = d.buffer
           /\ (PushPx(d, n, 1).decode.started_pm <=> d.started_pm)
<1> DEFINE e == PxHalf(d, n, 1)
           f == InterleaverIv(e, IF e.px_half = 2 /\ 1 = 1 THEN 1 ELSE Bad)
           p == PushPx(d, n, 1)
           c == (n + 1) % Blocks
<1>1. /\ e \in Decoders /\ (e.px_started <=> d.px_started \/ n % 2 = 0)
      /\ e.px_half = (IF n % 2 = 0 THEN 1 ELSE d.px_half)
      /\ e.px_internal = d.px_internal /\ e.px_i = d.px_i /\ (e.px_ready <=> d.px_ready)
      /\ e.buffer = d.buffer /\ (e.started_pm <=> d.started_pm)
  BY PxHalfIs
<1>2. /\ p.decode = IF e.px_started /\ n % 2 = 1 THEN f.decode ELSE e
      /\ p.frames = IF e.px_started /\ n % 2 = 1 /\ f.decode.px_ready
                    THEN {<<"P3", Verdict(f.right)>>} ELSE {}
  BY PushPxIs
<1>3. c \in 0 .. Blocks - 1 /\ n % 2 \in {0, 1} /\ c % 2 = 1 - (n % 2)
  BY Parity, Constants
<1> HIDE DEF e, f, p, c
<1>4. CASE n % 2 = 0
  <2>1. e.px_started /\ e.px_half = 1 /\ c % 2 = 1
    BY <1>1, <1>3, <1>4
  <2>2. p.decode = e /\ p.frames = {}
    BY <1>2, <1>4
  <2>3. ASSUME NEW j \in 0 .. Pairs - 1, j < e.px_i \/ e.px_ready
        PROVE  e.px_internal[j] = PairAge(e.px_i, j, c, 0)
    <3>1. e.px_i \in 0 .. Pairs
      BY <1>1, CollectedType
    <3>2. d.px_started
      <4>1. CASE d.px_started
        BY <4>1
      <4>2. CASE ~d.px_started
        <5>1. d.px_i = 0 /\ ~d.px_ready
          BY <4>2 DEF CollectedPx
        <5> QED
          BY <5>1, <2>3, <1>1
      <4> QED
        BY <4>1, <4>2
    <3>3. e.px_internal[j] = PairAge(e.px_i, j, n, 1)
      BY <3>2, <2>3, <1>1 DEF CollectedPx
    <3> DEFINE z == IF j < e.px_i THEN e.px_i - 1 - j ELSE Pairs + e.px_i - 1 - j
    <3>4. PairAge(e.px_i, j, n, 0) = 1 + 2 * z + (n % 2)
      BY <3>1, PairAgeIs
    <3>5. PairAge(e.px_i, j, n, 1) = PairAge(e.px_i, j, n, 0) + 1
      BY <3>1, PairAgeIs
    <3>6. PairAge(e.px_i, j, c, 0) = 1 + 2 * z + (c % 2)
      BY <3>1, <1>3, PairAgeIs
    <3>7. z \in Int
      BY <3>1, Constants
    <3> HIDE DEF z
    <3> QED
      BY <3>3, <3>4, <3>5, <3>6, <3>7, <2>1, <1>4
  <2>4. CollectedPx(e, c, 0)
    BY <2>1, <2>3 DEF CollectedPx
  <2>5. Whole(p.frames)
    BY <2>2 DEF Whole
  <2> QED
    BY <1>1, <2>2, <2>4, <2>5 DEF p, c
<1>5. CASE n % 2 = 1 /\ ~d.px_started
  <2>1. ~e.px_started /\ p.decode = e /\ p.frames = {}
    BY <1>1, <1>2, <1>5
  <2>2. e.px_i = 0 /\ ~e.px_ready
    BY <1>1, <1>5 DEF CollectedPx
  <2>3. CollectedPx(e, c, 0) /\ Whole(p.frames)
    BY <2>1, <2>2 DEF CollectedPx, Whole
  <2> QED
    BY <1>1, <2>1, <2>3 DEF p, c
<1>6. CASE n % 2 = 1 /\ d.px_started
  <2>1. e.px_started /\ e.px_half = d.px_half
    BY <1>1, <1>6
  <2>2. d.px_half = 2
    BY <1>6 DEF CollectedPx
  <2>3. f = InterleaverIv(e, 1)
    BY <2>1, <2>2 DEF f
  <2>4. CollectedPx(e, n, 1)
    <3>1. \A j \in 0 .. Pairs - 1 : j < e.px_i \/ e.px_ready =>
             e.px_internal[j] = PairAge(e.px_i, j, n, 1)
      BY <1>1, <1>6 DEF CollectedPx
    <3> QED
      BY <2>1, <2>2, <3>1 DEF CollectedPx
  <2>5. /\ f.decode.px_ready => Verdict(f.right) = "whole"
        /\ CollectedPx(f.decode, c, 0)
    BY <1>1, <1>6, <2>1, <2>3, <2>4, InterleaverIvWhole DEF c
  <2>6. p.decode = f.decode
        /\ p.frames = IF f.decode.px_ready THEN {<<"P3", Verdict(f.right)>>} ELSE {}
    BY <1>2, <1>6, <2>1
  <2>7. Whole(p.frames)
    BY <2>5, <2>6 DEF Whole
  <2>8. f.decode.buffer = e.buffer /\ (f.decode.started_pm <=> e.started_pm)
    BY <1>1, <2>3, InterleaverIvIs
  <2> QED
    BY <1>1, <2>5, <2>6, <2>7, <2>8 DEF p, c
<1> QED
  BY <1>3, <1>4, <1>5, <1>6

\* A block in FM.
LEMMA DecodeFmType ==
    ASSUME NEW d \in Decoders, NEW n \in 0 .. Blocks - 1, NEW age \in Ages
    PROVE  DecodeFm(d, n, age).decode \in Decoders /\ DecodeFm(d, n, age).frames \subseteq Frames
BY PushPmType, PushPxType DEF DecodeFm

LEMMA DecodeFmWhole ==
    ASSUME NEW d \in Decoders, NEW n \in 0 .. Blocks - 1, 1 \in Ages,
           CollectedPm(d, n, 1), CollectedPx(d, n, 1)
    PROVE  /\ Whole(DecodeFm(d, n, 1).frames)
           /\ CollectedPm(DecodeFm(d, n, 1).decode, (n + 1) % Blocks, 0)
           /\ CollectedPx(DecodeFm(d, n, 1).decode, (n + 1) % Blocks, 0)
<1> DEFINE pm == PushPm(d, n, 1)
           px == PushPx(pm.decode, n, 1)
           c == (n + 1) % Blocks
<1>1. DecodeFm(d, n, 1).decode = px.decode /\ DecodeFm(d, n, 1).frames = pm.frames \cup px.frames
  BY DEF DecodeFm
<1>2. Whole(pm.frames) /\ CollectedPm(pm.decode, c, 0) /\ pm.decode \in Decoders
  BY PushPmWhole, PushPmType
<1>3. /\ pm.decode.px_half = d.px_half /\ pm.decode.px_internal = d.px_internal
      /\ pm.decode.px_i = d.px_i /\ (pm.decode.px_started <=> d.px_started)
      /\ (pm.decode.px_ready <=> d.px_ready)
  BY PushPmIs
<1> HIDE DEF pm, c
<1>4. CollectedPx(pm.decode, n, 1)
  BY <1>3 DEF CollectedPx
<1>5. /\ Whole(px.frames) /\ CollectedPx(px.decode, c, 0)
      /\ px.decode.buffer = pm.decode.buffer /\ (px.decode.started_pm <=> pm.decode.started_pm)
  BY <1>2, <1>4, PushPxWhole DEF c
<1> HIDE DEF px
<1>6. CollectedPm(px.decode, c, 0)
  BY <1>2, <1>5 DEF CollectedPm, Collected
<1>7. Whole(pm.frames \cup px.frames)
  BY <1>2, <1>5 DEF Whole
<1> QED
  BY <1>1, <1>5, <1>6, <1>7 DEF c

LEMMA Shifted ==
    ASSUME NEW s \in [1 .. Delay -> Ages], NEW x \in Ages
    PROVE  LET r == Append(Tail(s), x) IN
           /\ r \in [1 .. Delay -> Ages] /\ r[Delay] = x
           /\ \A f \in 1 .. Delay - 1 : r[f] = s[f + 1]
<1>1. s \in Seq(Ages) /\ Len(s) = Delay /\ s # <<>>
  BY Constants
<1> DEFINE t == Tail(s)
<1>2. t \in Seq(Ages) /\ Len(t) = Delay - 1 /\ \A f \in 1 .. Delay - 1 : t[f] = s[f + 1]
  BY <1>1, HeadTailProperties, Constants
<1> HIDE DEF t
<1> DEFINE r == Append(t, x)
<1>3. r \in Seq(Ages) /\ Len(r) = Delay /\ r[Delay] = x /\ \A f \in 1 .. Delay - 1 : r[f] = t[f]
  BY <1>2, Constants
<1> HIDE DEF r
<1>4. r \in [1 .. Delay -> Ages]
  BY <1>3
<1>5. \A f \in 1 .. Delay - 1 : r[f] = s[f + 1]
  BY <1>2, <1>3
<1> QED
  BY <1>3, <1>4, <1>5 DEF r, t

\* What interleaver_ma1 finds, and keeps.
LEMMA InterleaverMa1Is ==
    ASSUME NEW d \in Decoders
    PROVE  LET e == InterleaverMa1(d) IN
           /\ e \in Decoders /\ e.buffer = d.buffer /\ e.am_diversity_wait = d.am_diversity_wait
           /\ e.coded.age = 1
           /\ Verdict(InterleaverI(d)) = "whole" /\ d.delayed[1] = Delay * Blocks + 1
                => e.coded.whole = "whole"
           /\ \A f \in 1 .. Delay - 1 : e.delayed[f] = d.delayed[f + 1]
           /\ Verdict(InterleaverI(d)) = "whole" => e.delayed[Delay] = 1
<1> DEFINE frame == InterleaverI(d)
           right == [b \in 0 .. Blocks |->
                       IF b < Blocks THEN frame[b] ELSE d.delayed[1] = Delay * Blocks + 1]
           kept == IF Verdict(frame) = "whole" THEN 1 ELSE Bad
           coded == [whole |-> Verdict(right), age |-> 1]
           delayed == Append(Tail(d.delayed), kept)
           e == [d EXCEPT !.coded = coded, !.delayed = delayed]
<1>1. InterleaverMa1(d) = e
  BY DEF InterleaverMa1, Decoders
<1>2. 1 \in Ages /\ kept \in Ages
  BY MaxAgeType, Constants DEF MaxAge, Ages, Bad
<1>3. /\ delayed \in [1 .. Delay -> Ages] /\ delayed[Delay] = kept
      /\ \A f \in 1 .. Delay - 1 : delayed[f] = d.delayed[f + 1]
  <2>1. d.delayed \in [1 .. Delay -> Ages]
    BY CollectedType
  <2> HIDE DEF kept
  <2> QED
    BY <1>2, <2>1, Shifted
<1>4. Verdict(right) \in Verdicts
  BY VerdictType
<1>5. ASSUME Verdict(frame) = "whole", d.delayed[1] = Delay * Blocks + 1
      PROVE  Verdict(right) = "whole"
  <2>1. \A b \in 0 .. Blocks - 1 : frame[b]
    <3>1. DOMAIN frame = 0 .. Blocks - 1
      BY DEF InterleaverI
    <3> QED
      BY <3>1, <1>5 DEF Verdict
  <2>2. \A x \in DOMAIN right : right[x]
    <3> SUFFICES ASSUME NEW x \in 0 .. Blocks
                 PROVE  IF x < Blocks THEN frame[x] ELSE d.delayed[1] = Delay * Blocks + 1
      BY Zenon
    <3>1. CASE x < Blocks
      BY <3>1, <2>1, Constants
    <3>2. CASE ~(x < Blocks)
      BY <3>2, <1>5
    <3> QED
      BY <3>1, <3>2
  <2> HIDE DEF right
  <2> QED
    BY <2>2, VerdictType
<1> HIDE DEF frame, right, delayed
<1>6. coded \in [whole : Verdicts, age : Ages] /\ coded.age = 1 /\ coded.whole = Verdict(right)
  BY <1>2, <1>4
<1> HIDE DEF coded
<1>7. e \in Decoders
  BY <1>3, <1>6 DEF Decoders
<1>8. /\ e.coded = coded /\ e.delayed = delayed /\ e.buffer = d.buffer
      /\ e.am_diversity_wait = d.am_diversity_wait
  BY DEF Decoders
<1> HIDE DEF e
<1> QED
  BY <1>1, <1>3, <1>5, <1>6, <1>7, <1>8 DEF frame

\* What a block of AM leaves of the decoder and hands on, at the end of a frame and before.
LEMMA ProcessP1P3AmIs ==
    ASSUME NEW d \in Decoders, NEW n \in 0 .. Blocks - 1
    PROVE  LET p == ProcessP1P3Am(d, n)
               m == InterleaverMa1(d)
               piece == IF d.coded.age = n + 2 THEN d.coded.whole ELSE "none" IN
           /\ p.decode \in Decoders /\ p.decode.buffer = d.buffer
           /\ n # Blocks - 1 => p.decode = d
           /\ n = Blocks - 1 =>
                /\ p.decode.coded = m.coded /\ p.decode.delayed = m.delayed
                /\ p.decode.am_diversity_wait =
                     IF d.am_diversity_wait > 0 THEN d.am_diversity_wait - 1 ELSE 0
           /\ p.frames \subseteq Frames
           /\ d.am_diversity_wait > 0 \/ piece = "whole" => Whole(p.frames)
<1> DEFINE p == ProcessP1P3Am(d, n)
           m == InterleaverMa1(d)
           piece == IF d.coded.age = n + 2 THEN d.coded.whole ELSE "none"
           wait == d.am_diversity_wait
           left == IF wait > 0 THEN wait - 1 ELSE 0
<1>1. wait \in 0 .. Delay + 1 /\ piece \in Verdicts
  BY CollectedType DEF Verdicts
<1>2. left \in 0 .. Delay + 1
  BY <1>1, Constants
<1>3. m \in Decoders /\ m.am_diversity_wait = wait /\ m.buffer = d.buffer
  BY InterleaverMa1Is
<1>4. p.decode = IF n = Blocks - 1
                 THEN [m EXCEPT !.am_diversity_wait = IF @ > 0 THEN @ - 1 ELSE 0] ELSE d
  BY DEF ProcessP1P3Am
<1>5. p.frames = IF wait > 0 THEN {}
                 ELSE {<<"P1", piece>>} \cup IF n = Blocks - 1 THEN {<<"P3", piece>>} ELSE {}
  BY DEF ProcessP1P3Am
<1> HIDE DEF p, piece
<1>6. p.frames \subseteq Frames /\ (wait > 0 \/ piece = "whole" => Whole(p.frames))
  BY <1>1, <1>5 DEF Frames, Whole
<1> HIDE DEF m
<1>7. ASSUME n = Blocks - 1
      PROVE  /\ p.decode \in Decoders /\ p.decode.buffer = d.buffer
             /\ p.decode.coded = m.coded /\ p.decode.delayed = m.delayed
             /\ p.decode.am_diversity_wait = left
  <2>1. p.decode = [m EXCEPT !.am_diversity_wait = left]
    BY <1>3, <1>4, <1>7 DEF Decoders
  <2> HIDE DEF left
  <2> QED
    BY <2>1, <1>2, <1>3 DEF Decoders
<1>8. n # Blocks - 1 => p.decode = d
  BY <1>4
<1> QED
  BY <1>6, <1>7, <1>8 DEF p, m, piece

LEMMA DecodeAmIs ==
    ASSUME NEW d, NEW n, NEW age
    PROVE  LET p == ProcessP1P3Am([d EXCEPT !.buffer[n] = age], n) IN
           /\ DecodeAm(d, n, age).decode = p.decode
           /\ DecodeAm(d, n, age).frames = p.frames \cup ProcessPidsAm(age)
<1> DEFINE c == [d EXCEPT !.buffer[n] = age]
           p == ProcessP1P3Am(c, n)
<1>1. /\ [p EXCEPT !.frames = @ \cup ProcessPidsAm(age)].decode = p.decode
      /\ [p EXCEPT !.frames = @ \cup ProcessPidsAm(age)].frames
            = p.frames \cup ProcessPidsAm(age)
  <2>1. DOMAIN p = {"decode", "frames"}
    BY DEF ProcessP1P3Am
  <2> HIDE DEF p
  <2> QED
    BY <2>1
<1> QED
  BY <1>1 DEF DecodeAm, PushAm

\* A block in AM.
LEMMA DecodeAmType ==
    ASSUME NEW d \in Decoders, NEW n \in 0 .. Blocks - 1, NEW age \in Ages
    PROVE  DecodeAm(d, n, age).decode \in Decoders /\ DecodeAm(d, n, age).frames \subseteq Frames
<1> DEFINE c == [d EXCEPT !.buffer[n] = age]
           p == ProcessP1P3Am(c, n)
<1>1. c \in Decoders
  BY PutType
<1>2. /\ DecodeAm(d, n, age).decode = p.decode
      /\ DecodeAm(d, n, age).frames = p.frames \cup ProcessPidsAm(age)
  BY DecodeAmIs
<1> HIDE DEF c
<1>3. p.decode \in Decoders /\ p.frames \subseteq Frames
  BY <1>1, ProcessP1P3AmIs
<1> HIDE DEF p
<1> QED
  BY <1>2, <1>3, PidsAmWhole

LEMMA DecodeAmWhole ==
    ASSUME NEW d \in Decoders, NEW n \in 0 .. Blocks - 1, 1 \in Ages, CollectedAm(d, n, 1)
    PROVE  /\ Whole(DecodeAm(d, n, 1).frames)
           /\ CollectedAm(DecodeAm(d, n, 1).decode, (n + 1) % Blocks, 0)
<1> DEFINE c == [d EXCEPT !.buffer[n] = 1]
           p == ProcessP1P3Am(c, n)
           m == InterleaverMa1(c)
           e == p.decode
           wait == d.am_diversity_wait
           next == (n + 1) % Blocks
<1>1. /\ DecodeAm(d, n, 1).decode = e
      /\ DecodeAm(d, n, 1).frames = p.frames \cup ProcessPidsAm(1)
  BY DecodeAmIs
<1>2. /\ c \in Decoders /\ c.coded = d.coded /\ c.delayed = d.delayed /\ c.am_diversity_wait = wait
      /\ c.buffer[n] = 1 /\ \A b \in 0 .. n - 1 : c.buffer[b] = d.buffer[b]
  <2>1. c \in Decoders
    BY PutType
  <2>2. c.coded = d.coded /\ c.delayed = d.delayed /\ c.am_diversity_wait = wait
    BY DEF Decoders
  <2>3. c.buffer[n] = 1 /\ \A b \in 0 .. n - 1 : c.buffer[b] = d.buffer[b]
    BY Constants DEF Decoders
  <2> QED
    BY <2>1, <2>2, <2>3
<1>3. wait \in 0 .. Delay + 1
  BY CollectedType
<1>4. /\ \A f \in 1 .. Delay : f >= wait => d.delayed[f] = (Delay - f) * Blocks + 1 + n + 1
      /\ wait <= Delay => d.coded.age = n + 1 + 1
      /\ wait = 0 => d.coded.whole = "whole"
      /\ Collected(d, n, 1)
  BY DEF CollectedAm
<1> HIDE DEF c, wait
<1>5. /\ e.buffer = c.buffer /\ (n # Blocks - 1 => e = c)
      /\ n = Blocks - 1 => /\ e.coded = m.coded /\ e.delayed = m.delayed
                           /\ e.am_diversity_wait = IF wait > 0 THEN wait - 1 ELSE 0
      /\ wait > 0 \/ (IF d.coded.age = n + 2 THEN d.coded.whole ELSE "none") = "whole"
            => Whole(p.frames)
  BY <1>2, ProcessP1P3AmIs
<1> HIDE DEF p, e
<1>6. /\ n = Blocks - 1 => \A b \in 0 .. Blocks - 1 : c.buffer[b] = Blocks - b
      /\ Collected(c, next, 0)
  BY <1>2, <1>4, Put
<1>7. Whole(p.frames)
  <2>1. CASE wait > 0
    BY <2>1, <1>5
  <2>2. CASE wait = 0
    <3>1. d.coded.age = n + 2 /\ d.coded.whole = "whole"
      BY <2>2, <1>4, Constants
    <3> QED
      BY <3>1, <1>5
  <2> QED
    BY <2>1, <2>2, <1>3
<1>8. Whole(DecodeAm(d, n, 1).frames)
  <2>1. Whole(ProcessPidsAm(1))
    BY PidsAmWhole
  <2> QED
    BY <2>1, <1>1, <1>7 DEF Whole
<1>9. Collected(e, next, 0)
  BY <1>5, <1>6 DEF Collected
<1>10. CollectedAm(e, next, 0)
  <2>1. CASE n # Blocks - 1
    <3>1. next = n + 1 /\ e = c
      BY <2>1, <1>5, Parity
    <3> HIDE DEF next
    <3>2. e.coded = d.coded /\ e.delayed = d.delayed /\ e.am_diversity_wait = wait
      BY <3>1, <1>2
    <3>3. ASSUME NEW f \in 1 .. Delay, f >= wait
          PROVE  e.delayed[f] = (Delay - f) * Blocks + 1 + next + 0
      <4> DEFINE z == (Delay - f) * Blocks
      <4>1. e.delayed[f] = z + 1 + n + 1 /\ z \in Int
        BY <3>2, <3>3, <1>4, Constants
      <4> HIDE DEF z
      <4>2. e.delayed[f] = z + 1 + next + 0
        BY <4>1, <3>1, Constants
      <4> QED
        BY <4>2 DEF z
    <3>4. wait <= Delay => e.coded.age = next + 1 + 0
      BY <3>1, <3>2, <1>4, Constants
    <3>5. wait = 0 => e.coded.whole = "whole"
      BY <3>2, <1>4
    <3> QED
      BY <3>2, <3>3, <3>4, <3>5, <1>9 DEF CollectedAm
  <2>2. CASE n = Blocks - 1
    <3>1. next = 0
      BY <2>2, Parity
    <3> HIDE DEF next
    <3> DEFINE left == IF wait > 0 THEN wait - 1 ELSE 0
    <3>2. e.coded = m.coded /\ e.delayed = m.delayed /\ e.am_diversity_wait = left
      BY <2>2, <1>5
    <3>3. Verdict(InterleaverI(c)) = "whole"
      BY <2>2, <1>6, P1Whole
    <3>4. /\ m.coded.age = 1
          /\ d.delayed[1] = Delay * Blocks + 1 => m.coded.whole = "whole"
          /\ \A f \in 1 .. Delay - 1 : m.delayed[f] = d.delayed[f + 1]
          /\ m.delayed[Delay] = 1
      BY <1>2, <3>3, InterleaverMa1Is
    <3> HIDE DEF m
    <3>5. ASSUME NEW f \in 1 .. Delay, f >= left
          PROVE  e.delayed[f] = (Delay - f) * Blocks + 1 + next + 0
      <4>1. CASE f = Delay
        <5>1. (Delay - f) * Blocks = 0
          BY <4>1, Constants
        <5> QED
          BY <5>1, <4>1, <3>1, <3>2, <3>4
      <4>2. CASE f # Delay
        <5> DEFINE y == (Delay - (f + 1)) * Blocks
                   z == (Delay - f) * Blocks
        <5>1. f \in 1 .. Delay - 1 /\ f + 1 \in 1 .. Delay /\ f + 1 >= wait
          BY <4>2, <3>5, <1>3, Constants
        <5>2. d.delayed[f + 1] = y + 1 + n + 1 /\ e.delayed[f] = d.delayed[f + 1]
          BY <5>1, <1>4, <3>2, <3>4
        <5>3. y \in Int /\ z = y + Blocks
          BY Constants
        <5> HIDE DEF y, z
        <5>4. e.delayed[f] = z + 1 + next + 0
          BY <5>2, <5>3, <2>2, <3>1, Constants
        <5> QED
          BY <5>4 DEF z
      <4> QED
        BY <4>1, <4>2
    <3>6. e.coded.age = next + 1 + 0
      BY <3>1, <3>2, <3>4
    <3>7. ASSUME left = 0 PROVE e.coded.whole = "whole"
      <4> DEFINE y == (Delay - 1) * Blocks
      <4>1. 1 \in 1 .. Delay /\ 1 >= wait
        BY <3>7, <1>3, Constants
      <4>2. d.delayed[1] = y + 1 + n + 1
        BY <4>1, <1>4
      <4>3. y \in Int /\ Delay * Blocks = y + Blocks
        BY Constants
      <4> HIDE DEF y
      <4>4. d.delayed[1] = Delay * Blocks + 1
        BY <4>2, <4>3, <2>2, Constants
      <4> QED
        BY <4>4, <3>2, <3>4
    <3> HIDE DEF left
    <3> QED
      BY <3>2, <3>5, <3>6, <3>7, <1>9 DEF CollectedAm
  <2> QED
    BY <2>1, <2>2
<1> QED
  BY <1>1, <1>8, <1>10

-----------------------------------------------------------------------------
(* The window *)

\* A set of numbers with 0 and the successor of each of its members below m has
\* everything up to m.
LEMMA Steps ==
    ASSUME NEW m \in Nat, NEW S \in SUBSET (0 .. m), 0 \in S,
           \A n \in 1 .. m : n - 1 \in S => n \in S
    PROVE  S = 0 .. m
<1> DEFINE Out == {n \in 0 .. m : n \notin S}
<1>1. SUFFICES ASSUME Out # {} PROVE FALSE
  OBVIOUS
<1>2. Out \subseteq Nat
  OBVIOUS
<1>3. PICK x \in Out : \A y \in Out : ~(<<y, x>> \in OpToRel(<, Nat))
  BY <1>1, <1>2, NatLessThanWellFounded, WFMin
<1>4. x \in 0 .. m /\ x \notin S /\ x # 0
  OBVIOUS
<1>5. x - 1 \in 0 .. m /\ x - 1 < x
  BY <1>4
<1>6. x - 1 \notin S
  BY <1>4, <1>5
<1>7. x - 1 \in Out
  BY <1>5, <1>6
<1> QED
  BY <1>3, <1>5, <1>7, <1>2 DEF OpToRel

\* The symbols of the frame, its last block, and the next one.
LEMMA Place ==
    ASSUME NEW b \in 0 .. Blocks - 1
    PROVE  /\ b * Symbols \in 0 .. Round - Symbols
           /\ (b * Symbols + Symbols = Round) <=> b = Blocks - 1
           /\ ((b + 1) % Blocks) * Symbols =
                IF b * Symbols + Symbols = Round THEN 0 ELSE b * Symbols + Symbols
<1> DEFINE y == b * Symbols
           z == (Blocks - 1 - b) * Symbols
<1>1. y \in Nat /\ z \in Nat /\ Round = y + z + Symbols /\ Symbols \in Nat
  BY Constants DEF Round
<1>2. z = 0 <=> b = Blocks - 1
  BY Constants
<1>3. CASE b = Blocks - 1
  <2>1. (b + 1) % Blocks = 0
    BY <1>3, Parity
  <2>2. ((b + 1) % Blocks) * Symbols = 0
    BY <2>1, Constants
  <2> HIDE DEF y, z
  <2>3. y \in 0 .. Round - Symbols /\ y + Symbols = Round
    BY <1>1, <1>2, <1>3
  <2> QED
    BY <2>2, <2>3, <1>3 DEF y
<1>4. CASE b # Blocks - 1
  <2>1. (b + 1) % Blocks = b + 1
    BY <1>4, Parity
  <2>2. ((b + 1) % Blocks) * Symbols = y + Symbols
    BY <2>1, Constants
  <2> HIDE DEF y, z
  <2>3. y \in 0 .. Round - Symbols /\ y + Symbols # Round
    BY <1>1, <1>2, <1>4
  <2> QED
    BY <2>2, <2>3, <1>4 DEF y
<1> QED
  BY <1>3, <1>4

\* Types that only depend on the mode.
LEMMA SameTypes ==
    ASSUME mode' = mode
    PROVE  Decoders' = Decoders /\ Ages' = Ages
BY DEF Decoders, Ages, MaxAge

LEMMA DivNat ==
    ASSUME NEW a \in Nat, NEW n \in Nat \ {0}
    PROVE  a \div n \in Nat
<1>1. /\ a % n \in 0 .. n - 1 /\ a \div n \in Int /\ a = (a \div n) * n + (a % n)
  BY DivMod
<1> QED
  BY <1>1

LEMMA CompletedType ==
    ASSUME now \in 0 .. Round - 1, NEW n \in Nat
    PROVE  Completed(n) \in Nat
<1>1. now % Symbols \in Nat
  BY Constants, RoundType
<1>2. (now % Symbols) + n \in Nat
  BY <1>1
<1> QED
  BY <1>2, DivNat, Constants DEF Completed

\* The window of a full buffer is the buffer; what is kept ends with the symbol on air.
LEMMA WindowIs ==
    ASSUME in_buffer \in Seq(0 .. Round - 1), now \in 0 .. Round - 1, Full
    PROVE  /\ Window \in Seq(0 .. Round - 1) /\ Len(Window) = Symbols
           /\ \A i \in 1 .. Symbols : Window[i] = in_buffer[i]
<1> DEFINE s == Append(in_buffer, now)
<1>1. /\ s \in Seq(0 .. Round - 1) /\ Len(s) = Symbols + 1
      /\ \A i \in 1 .. Symbols : s[i] = in_buffer[i]
  BY Constants DEF Full
<1> HIDE DEF s
<1>2. \A i \in 1 .. Symbols : s[i] \in 0 .. Round - 1
  <2> DEFINE P == 0 .. Round - 1
  <2>1. s \in Seq(P)
    BY <1>1
  <2> HIDE DEF P
  <2>2. \A i \in 1 .. Symbols : s[i] \in P
    BY <2>1, <1>1, Constants
  <2> QED
    BY <2>2 DEF P
<1> DEFINE w == SubSeq(s, 1, Symbols)
<1>3. /\ w \in Seq(0 .. Round - 1) /\ Len(w) = Symbols
      /\ \A i \in 1 .. Symbols : w[i] = s[i]
  <2>1. /\ w \in Seq(0 .. Round - 1) /\ Len(w) = IF 1 <= Symbols THEN Symbols - 1 + 1 ELSE 0
        /\ \A i \in 1 .. Symbols - 1 + 1 : w[i] = s[1 + i - 1]
    BY <1>2, Constants, SubSeqProperties
  <2> HIDE DEF w
  <2> QED
    BY <2>1, Constants
<1> HIDE DEF w
<1>4. \A i \in 1 .. Symbols : w[i] = in_buffer[i]
  BY <1>1, <1>3
<1> QED
  BY <1>3, <1>4 DEF w, s, Window

LEMMA KeptIs ==
    ASSUME in_buffer \in Seq(0 .. Round - 1), now \in 0 .. Round - 1, Full, NEW extra \in 0 .. Symbols - 1
    PROVE  /\ Kept(extra) \in Seq(0 .. Round - 1) /\ Len(Kept(extra)) = extra + 1
           /\ extra = 0 => Kept(extra)[1] = now
<1> DEFINE s == Append(in_buffer, now)
           m == Symbols + 1 - extra
           n == Symbols + 1
<1>1. /\ s \in Seq(0 .. Round - 1) /\ Len(s) = n /\ s[n] = now
  BY Constants DEF Full
<1>2. m \in Int /\ n \in Int /\ m >= 1 /\ m <= n /\ n - m + 1 = extra + 1
  BY Constants
<1> HIDE DEF s
<1>3. \A i \in m .. n : s[i] \in 0 .. Round - 1
  <2> DEFINE P == 0 .. Round - 1
  <2>1. s \in Seq(P)
    BY <1>1
  <2> HIDE DEF P, m, n
  <2>2. \A i \in m .. n : s[i] \in P
    BY <2>1, <1>1, <1>2
  <2> QED
    BY <2>2 DEF P
<1>4. extra = 0 => m = n
  BY Constants
<1> HIDE DEF m, n
<1> DEFINE w == SubSeq(s, m, n)
<1>5. /\ w \in Seq(0 .. Round - 1) /\ Len(w) = IF m <= n THEN n - m + 1 ELSE 0
      /\ \A i \in 1 .. n - m + 1 : w[i] = s[m + i - 1]
  BY <1>2, <1>3, SubSeqProperties
<1> HIDE DEF w
<1>6. w \in Seq(0 .. Round - 1) /\ Len(w) = extra + 1
  BY <1>2, <1>5
<1>7. extra = 0 => w[1] = now
  BY <1>1, <1>2, <1>4, <1>5
<1> QED
  BY <1>6, <1>7 DEF w, s, m, n, Kept

\* The symbols of a window that is a block of the station.
LEMMA BlockIs ==
    ASSUME NEW w \in Seq(0 .. Round - 1), Len(w) = Symbols, IsBlock(w)
    PROVE  /\ Number(w) \in 0 .. Blocks - 1
           /\ \A i \in 1 .. Symbols : w[i] = Number(w) * Symbols + i - 1
<1> DEFINE q == Number(w)
<1>0. w[1] \in 0 .. Round - 1
  <2> DEFINE P == 0 .. Round - 1
  <2>1. w \in Seq(P) /\ 1 \in 1 .. Len(w)
    BY Constants
  <2> HIDE DEF P
  <2>2. w[1] \in P
    BY <2>1
  <2> QED
    BY <2>2 DEF P
<1>1. w[1] = q * Symbols /\ q \in Nat
  <2>1. w[1] % Symbols = 0 /\ Symbols \in Nat \ {0}
    BY Constants DEF IsBlock
  <2> DEFINE a == w[1]
  <2>2. a \in Nat /\ a \in Int
    BY <1>0, RoundType
  <2> HIDE DEF a
  <2>3. a = (a \div Symbols) * Symbols + (a % Symbols) /\ a \div Symbols \in Int
    BY <2>1, <2>2, DivMod
  <2>4. a \div Symbols \in Nat
    BY <2>1, <2>2, DivNat
  <2>5. a % Symbols = 0 /\ q = a \div Symbols
    BY <2>1 DEF a, Number
  <2> HIDE DEF q
  <2>6. a = q * Symbols /\ q \in Nat
    BY <2>1, <2>3, <2>4, <2>5
  <2> QED
    BY <2>6 DEF a
<1>2. q \in 0 .. Blocks - 1
  <2>1. q * Symbols < Blocks * Symbols
    BY <1>0, <1>1, Constants DEF Round
  <2>2. ~(q >= Blocks)
    BY <1>1, <2>1, Constants
  <2> QED
    BY <1>1, <2>2, Constants
<1> DEFINE y == q * Symbols
<1>3. y \in 0 .. Round - Symbols
  BY <1>2, Place
<1>4. \A i \in 1 .. Symbols - 1 : w[i + 1] = (w[i] + 1) % Round
  BY DEF IsBlock, Unbroken, Round
<1> HIDE DEF q, y
<1> DEFINE m == Symbols - 1
           S == {n \in 0 .. m : w[n + 1] = y + n}
<1>5. 0 \in S /\ S \in SUBSET (0 .. m) /\ m \in Nat
  <2>1. w[0 + 1] = y + 0 /\ m \in Nat
    BY <1>1, <1>3, Constants DEF y
  <2> QED
    BY <2>1
<1>6. ASSUME NEW n \in 1 .. m, n - 1 \in S PROVE n \in S
  <2>1. w[n] = y + n - 1
    BY <1>6, <1>5, <1>3
  <2>2. w[n + 1] = (w[n] + 1) % Round
    BY <1>4, Constants
  <2>3. w[n] + 1 = y + n /\ y + n \in 0 .. Round - 1
    BY <2>1, <1>3, Constants, RoundType
  <2> DEFINE a == y + n
  <2>4. a % Round = a
    <3>1. a \in 0 .. 2 * Round - 1 /\ a < Round /\ Round \in Nat \ {0}
      BY <2>3, RoundType, Constants
    <3> HIDE DEF a
    <3> QED
      BY <3>1, ModSmall
  <2>5. w[n + 1] = y + n
    BY <2>2, <2>3, <2>4
  <2> QED
    BY <2>5, <1>5
<1> HIDE DEF S, m
<1>7. S = 0 .. m
  BY <1>5, <1>6, Steps
<1>8. ASSUME NEW i \in 1 .. Symbols PROVE w[i] = y + i - 1
  <2>1. i - 1 \in 0 .. m /\ (i - 1) + 1 = i
    BY Constants DEF m
  <2>2. w[(i - 1) + 1] = y + (i - 1)
    BY <2>1, <1>7 DEF S
  <2> QED
    BY <2>1, <2>2, <1>3
<1> QED
  BY <1>2, <1>8 DEF q, y

LEMMA BlockFrom ==
    ASSUME NEW w \in Seq(0 .. Round - 1), Len(w) = Symbols, NEW b \in 0 .. Blocks - 1,
           \A i \in 1 .. Symbols : w[i] = b * Symbols + i - 1
    PROVE  IsBlock(w) /\ Number(w) = b
<1> DEFINE y == b * Symbols
<1>1. y \in 0 .. Round - Symbols
  BY Place
<1>2. w[1] = y
  BY <1>1, Constants
<1>3. y % Symbols = 0 /\ y \div Symbols = b
  <2>1. 0 \in 0 .. Symbols - 1 /\ Symbols \in Nat \ {0} /\ b \in Int
    BY Constants
  <2>2. (b * Symbols + 0) % Symbols = 0
    BY <2>1, ModOf
  <2>3. y % Symbols = 0
    BY <2>2, <1>1
  <2>4. y = (y \div Symbols) * Symbols + (y % Symbols) /\ y \div Symbols \in Int
    <3>1. y \in Int
      BY <1>1, RoundType
    <3> HIDE DEF y
    <3> QED
      BY <3>1, <2>1, DivMod
  <2> DEFINE z == y \div Symbols
  <2>5. b * Symbols = z * Symbols /\ z \in Int
    BY <2>3, <2>4
  <2> HIDE DEF z
  <2>6. b = z
    BY <2>1, <2>5
  <2> QED
    BY <2>3, <2>6 DEF z
<1> HIDE DEF y
<1>4. ASSUME NEW i \in 1 .. Symbols - 1 PROVE w[i + 1] = (w[i] + 1) % Round
  <2>1. w[i] = y + i - 1 /\ w[i + 1] = y + (i + 1) - 1
    BY Constants DEF y
  <2> DEFINE a == w[i] + 1
  <2>2. a = y + i /\ w[i + 1] = y + i /\ y + i \in 0 .. Round - 1
    BY <2>1, <1>1, Constants, RoundType
  <2>3. a % Round = a
    <3>1. a \in 0 .. 2 * Round - 1 /\ a < Round /\ Round \in Nat \ {0}
      BY <2>2, RoundType, Constants
    <3> HIDE DEF a
    <3> QED
      BY <3>1, ModSmall
  <2> QED
    BY <2>2, <2>3
<1>5. IsBlock(w)
  BY <1>2, <1>3, <1>4 DEF IsBlock, Unbroken, Round
<1>6. Number(w) = b
  BY <1>2, <1>3 DEF Number
<1> QED
  BY <1>5, <1>6

-----------------------------------------------------------------------------
(* In step *)

\* The symbol on air, after n symbols of block b in the buffer.
LEMMA FirstIs ==
    ASSUME NEW t \in 0 .. Round - 1, NEW n \in 0 .. Symbols, NEW b \in 0 .. Blocks - 1
    PROVE  (t + Round - n) % Round = b * Symbols
             <=> t = IF b * Symbols + n = Round THEN 0 ELSE b * Symbols + n
<1> DEFINE y == b * Symbols
           a == t + Round - n
<1>1. y \in 0 .. Round - Symbols /\ n <= Symbols /\ Symbols \in Nat \ {0} /\ Symbols < Round /\ Round \in Nat
  BY Place, RoundType, Constants
<1>2. a \in 0 .. 2 * Round - 1 /\ Round \in Nat \ {0}
  BY <1>1
<1> HIDE DEF y
<1>3. a % Round = IF a < Round THEN a ELSE a - Round
  <2> HIDE DEF a
  <2> QED
    BY <1>2, ModSmall
<1>4. (a % Round = y) <=> t = IF y + n = Round THEN 0 ELSE y + n
  <2> DEFINE z == a % Round
  <2>1. z = IF t < n THEN t + Round - n ELSE t - n
    BY <1>1, <1>3
  <2> HIDE DEF z, a
  <2>2. (z = y) <=> (t = IF y + n = Round THEN 0 ELSE y + n)
    <3>1. CASE t < n
      BY <2>1, <1>1, <3>1
    <3>2. CASE t >= n
      BY <2>1, <1>1, <3>2
    <3> QED
      BY <3>1, <3>2, <1>1
  <2> QED
    BY <2>2 DEF z
<1> QED
  BY <1>4 DEF y

\* InStep, without the modulus.
InStepOf(t, s, b) ==
    /\ t = IF b * Symbols + Len(s) = Round THEN 0 ELSE b * Symbols + Len(s)
    /\ \A i \in 1 .. Len(s) : s[i] = b * Symbols + i - 1

LEMMA InStepIs ==
    ASSUME now \in 0 .. Round - 1, in_buffer \in Seq(0 .. Round - 1), Len(in_buffer) <= Symbols,
           bc \in 0 .. Blocks - 1
    PROVE  InStep <=> InStepOf(now, in_buffer, bc)
<1> DEFINE n == Len(in_buffer)
           first == (now + Round - n) % Round
           y == bc * Symbols
<1>1. n \in 0 .. Symbols
  BY Constants
<1>2. first = y <=> now = IF y + n = Round THEN 0 ELSE y + n
  BY <1>1, FirstIs
<1>3. InStep <=> first = y /\ \A i \in 1 .. n : in_buffer[i] = first + i - 1
  BY DEF InStep, Round
<1> HIDE DEF first
<1> QED
  BY <1>2, <1>3 DEF InStepOf

\* What the decoder of a receiver in step has collected.
Collects == CollectedAll(decode, bc, IF Full THEN 1 ELSE 0)

LEMMA OlderNone ==
    ASSUME NEW d \in Decoders
    PROVE  Older(d, 0) = d
<1>1. ASSUME NEW a \in Ages PROVE Aged(a, 0) = a
  BY MaxAgeType DEF Aged, Ages, Bad
<1> DEFINE buffer == [b \in DOMAIN d.buffer |-> Aged(d.buffer[b], 0)]
           half == Aged(d.px_half, 0)
           internal == [j \in DOMAIN d.px_internal |-> Aged(d.px_internal[j], 0)]
           delayed == [f \in DOMAIN d.delayed |-> Aged(d.delayed[f], 0)]
           age == Aged(d.coded.age, 0)
<1>2. Older(d, 0) = [d EXCEPT !.buffer = buffer, !.px_half = half, !.px_internal = internal,
                              !.delayed = delayed, !.coded.age = age]
  BY DEF Older, Decoders
<1>3. buffer = d.buffer
  BY <1>1, CollectedType
<1>4. internal = d.px_internal
  BY <1>1, CollectedType
<1>5. delayed = d.delayed
  BY <1>1, CollectedType
<1>6. half = d.px_half /\ age = d.coded.age
  BY <1>1, CollectedType
<1> HIDE DEF buffer, half, internal, delayed, age
<1>7. [d EXCEPT !.buffer = d.buffer, !.px_half = d.px_half, !.px_internal = d.px_internal,
                !.delayed = d.delayed, !.coded.age = d.coded.age] = d
  BY DEF Decoders
<1> QED
  BY <1>2, <1>3, <1>4, <1>5, <1>6, <1>7

LEMMA OlderAll ==
    ASSUME mode \in Modes, NEW d \in Decoders, NEW n \in 0 .. Blocks - 1, CollectedAll(d, n, 0)
    PROVE  CollectedAll(Older(d, 1), n, 1)
BY OlderPm, OlderPx, OlderAm, ReceiverAssumption DEF CollectedAll

\* How many blocks the station completes with the next symbol.
LEMMA CompletedIs ==
    ASSUME NEW n \in 0 .. Symbols, NEW b \in 0 .. Blocks - 1,
           now = IF b * Symbols + n = Round THEN 0 ELSE b * Symbols + n
    PROVE  Completed(1) = IF n + 1 = Symbols THEN 1 ELSE 0
<1> DEFINE r == IF n = Symbols THEN 0 ELSE n
<1>1. now % Symbols = r
  <2>1. CASE n = Symbols
    <3>1. b + 1 \in Int /\ 0 \in 0 .. Symbols - 1 /\ Symbols \in Nat \ {0} /\ 0 \in Int
      BY Constants
    <3>2. ((b + 1) * Symbols + 0) % Symbols = 0 /\ (0 * Symbols + 0) % Symbols = 0
      BY <3>1, ModOf
    <3>3. now = 0 * Symbols + 0 \/ now = (b + 1) * Symbols + 0
      BY <2>1, Constants
    <3> QED
      BY <2>1, <3>2, <3>3
  <2>2. CASE n # Symbols
    <3>1. b \in Int /\ n \in 0 .. Symbols - 1 /\ Symbols \in Nat \ {0}
      BY <2>2, Constants
    <3>2. (b * Symbols + n) % Symbols = n
      BY <3>1, ModOf
    <3>3. now = b * Symbols + n
      <4>1. b * Symbols \in 0 .. Round - Symbols
        BY Place
      <4> QED
        BY <4>1, <3>1
    <3> QED
      BY <2>2, <3>2, <3>3
  <2> QED
    BY <2>1, <2>2
<1>2. r \in 0 .. Symbols - 1 /\ (r + 1 = Symbols <=> n + 1 = Symbols)
  BY Constants
<1> HIDE DEF r
<1>3. (r + 1) \div Symbols = IF r + 1 = Symbols THEN 1 ELSE 0
  <2> DEFINE a == r + 1
  <2>1. a \in 0 .. 2 * Symbols - 1 /\ Symbols \in Nat \ {0} /\ a <= Symbols
    BY <1>2, Constants
  <2> HIDE DEF a
  <2>2. a \div Symbols = IF a < Symbols THEN 0 ELSE 1
    BY <2>1, DivSmall
  <2>3. a \div Symbols = IF a = Symbols THEN 1 ELSE 0
    BY <2>1, <2>2
  <2> QED
    BY <2>3 DEF a
<1> QED
  BY <1>1, <1>2, <1>3 DEF Completed

\* A block that is decoded: what is handed on, and what the decoder has then.
LEMMA OneAge == 1 \in Ages /\ Bad \in Ages
BY MaxAgeType, Constants DEF MaxAge, Ages, Bad

LEMMA DecodedType ==
    ASSUME TypeOK, NEW d \in Decoders, NEW n \in 0 .. Blocks - 1, NEW clear \in BOOLEAN,
           Decoded(d, n, clear)
    PROVE  /\ decode' \in Decoders /\ pushed' \subseteq Frames
           /\ bc' = (n + 1) % Blocks /\ sync_state' \in {"NONE", "FINE"}
<1>1. PICK age \in Ages :
        \E block \in {IF mode = "FM" THEN DecodeFm(d, n, age) ELSE DecodeAm(d, n, age)} :
            decode' = block.decode /\ FramePush(block.frames) /\ bc' = (n + 1) % Blocks
  BY OneAge DEF Decoded
<1> DEFINE block == IF mode = "FM" THEN DecodeFm(d, n, age) ELSE DecodeAm(d, n, age)
<1>2. decode' = block.decode /\ FramePush(block.frames) /\ bc' = (n + 1) % Blocks
  BY <1>1
<1>3. block.decode \in Decoders /\ block.frames \subseteq Frames
  BY DecodeFmType, DecodeAmType
<1> HIDE DEF block
<1> QED
  BY <1>2, <1>3 DEF FramePush

LEMMA DecodedWhole ==
    ASSUME TypeOK, NEW d \in Decoders, NEW n \in 0 .. Blocks - 1, Decoded(d, n, TRUE), mode' = mode,
           IsBlock(Window), Number(Window) = n, CollectedAll(d, n, 1)
    PROVE  /\ Whole(pushed') /\ sync_state' = "FINE"
           /\ CollectedAll(decode, bc, 0)'
<1>1. PICK block \in {IF mode = "FM" THEN DecodeFm(d, n, 1) ELSE DecodeAm(d, n, 1)} :
        decode' = block.decode /\ FramePush(block.frames) /\ bc' = (n + 1) % Blocks
  BY DEF Decoded
<1>2. /\ Whole(block.frames)
      /\ IF mode = "FM" THEN /\ CollectedPm(block.decode, (n + 1) % Blocks, 0)
                             /\ CollectedPx(block.decode, (n + 1) % Blocks, 0)
         ELSE CollectedAm(block.decode, (n + 1) % Blocks, 0)
  <2>1. CASE mode = "FM"
    <3>1. block = DecodeFm(d, n, 1) /\ CollectedPm(d, n, 1) /\ CollectedPx(d, n, 1)
      BY <2>1, <1>1 DEF CollectedAll
    <3> QED
      BY <3>1, <2>1, OneAge, DecodeFmWhole
  <2>2. CASE mode # "FM"
    <3>1. block = DecodeAm(d, n, 1) /\ CollectedAm(d, n, 1)
      BY <2>2, <1>1 DEF CollectedAll
    <3> QED
      BY <3>1, <2>2, OneAge, DecodeAmWhole
  <2> QED
    BY <2>1, <2>2
<1>3. pushed' = block.frames /\ sync_state' = "FINE"
  <2> DEFINE frames == block.frames
             p1 == {f \in frames : f[1] = "P1"}
  <2>1. frames \subseteq Frames
    BY <1>1, OneAge, DecodeFmType, DecodeAmType
  <2>2. p1 \subseteq {<<"P1", "whole">>}
    BY <1>2, <2>1 DEF Whole, Frames
  <2>3. FramePush(frames)
    BY <1>1
  <2> HIDE DEF frames
  <2>4. <<"P1", "none">> # <<"P1", "whole">>
    OBVIOUS
  <2>5. pushed' = frames /\ sync_state' = "FINE"
    BY <2>2, <2>3, <2>4 DEF FramePush
  <2> QED
    BY <2>5 DEF frames
<1>4. CollectedAll(decode, bc, 0)'
  BY <1>1, <1>2 DEF CollectedAll
<1> QED
  BY <1>2, <1>3, <1>4

\* The receiver is in step right after it took a block of the station, if nothing
\* was lost behind it.
LEMMA TakenInStep ==
    ASSUME NEW b \in 0 .. Blocks - 1, now \in 0 .. Round - 1,
           now = IF b * Symbols + Symbols = Round THEN 0 ELSE b * Symbols + Symbols,
           now' = (now + 1) % Round, in_buffer' = <<now>>, bc' = (b + 1) % Blocks
    PROVE  InStep' /\ Len(in_buffer') # Symbols
<1>1. bc' \in 0 .. Blocks - 1 /\ bc' * Symbols = now
  BY Place, Parity, Constants
<1>2. now + 1 < Round
  BY <1>1, Place, Constants, RoundType
<1>3. now' = now + 1
  <2> DEFINE a == now + 1
  <2>1. a \in 0 .. 2 * Round - 1 /\ a < Round /\ Round \in Nat \ {0}
    BY <1>2, RoundType, Constants
  <2> HIDE DEF a
  <2>2. a % Round = a
    BY <2>1, ModSmall
  <2> QED
    BY <2>2 DEF a
<1>4. Len(in_buffer') = 1 /\ in_buffer'[1] = now /\ in_buffer' \in Seq(0 .. Round - 1)
  OBVIOUS
<1>5. InStepOf(now', in_buffer', bc')
  BY <1>1, <1>2, <1>3, <1>4 DEF InStepOf
<1>6. (InStep <=> InStepOf(now, in_buffer, bc))'
  <2>1. (/\ now \in 0 .. Round - 1 /\ in_buffer \in Seq(0 .. Round - 1) /\ Len(in_buffer) <= Symbols
         /\ bc \in 0 .. Blocks - 1)'
    BY <1>1, <1>2, <1>3, <1>4, Constants, RoundType
  <2> QED
    BY <2>1, InStepIs, PTL
<1> QED
  BY <1>4, <1>5, <1>6, Constants

-----------------------------------------------------------------------------
(* The steps *)

\* While the receiver is synchronised, and nothing was lost since: it is in step, and
\* what its decoder has collected is what the station sent.
InFrame == sync_state = "FINE" /\ ~faulty => InStep /\ Collects

\* The inductive invariant.
RInv == TypeOK /\ InFrame

\* What is shown of every step.
StepOK ==
    /\ TypeOK' /\ InFrame' /\ FramesWhole'
    /\ sync_state = "FINE" /\ sync_state' = "NONE" => faulty \/ faults' > faults

LEMMA SendsType ==
    ASSUME now \in 0 .. Round - 1, NEW n \in Nat, Sends(n)
    PROVE  now' \in 0 .. Round - 1
<1> DEFINE a == now + n
<1>1. a \in Int /\ Round \in Nat \ {0} /\ now' = a % Round
  BY RoundType, Constants DEF Sends, Round
<1> HIDE DEF a
<1> QED
  BY <1>1, DivMod

LEMMA TypesInRound ==
    ASSUME TypeOK
    PROVE  /\ now \in 0 .. Round - 1 /\ in_buffer \in Seq(0 .. Round - 1)
           /\ Len(in_buffer) \in 0 .. Symbols /\ Decoder \in Decoders
           /\ \A n \in Nat : Completed(n) \in Nat /\ Older(decode, Completed(n)) \in Decoders
<1>1. now \in 0 .. Round - 1 /\ in_buffer \in Seq(0 .. Round - 1) /\ Len(in_buffer) \in 0 .. Symbols
  BY Constants DEF TypeOK, Round
<1>2. decode \in Decoders
  BY DEF TypeOK
<1>3. ASSUME NEW n \in Nat PROVE Completed(n) \in Nat /\ Older(decode, Completed(n)) \in Decoders
  <2>1. Completed(n) \in Nat
    BY <1>1, CompletedType
  <2> QED
    BY <1>2, <2>1, OlderType
<1> QED
  BY <1>1, <1>3 DEF Decoder

\* The type invariant in parts, for a step of the receiver.
LEMMA TypeStep ==
    ASSUME TypeOK, mode' = mode, now' \in 0 .. Round - 1,
           in_buffer' \in Seq(0 .. Round - 1), Len(in_buffer') <= Symbols,
           tuned' \in BOOLEAN, sync_state' \in {"NONE", "COARSE", "FINE"},
           bc' \in 0 .. Blocks - 1, cfo_wait' \in Passed .. CfoWait,
           offset_history' \in Seq(0 .. Blocks - 1), Len(offset_history') = 4,
           decode' \in Decoders, pushed' \subseteq Frames,
           faulty' \in BOOLEAN, faults' \in 0 .. MaxFaults
    PROVE  TypeOK'
BY SameTypes DEF TypeOK, Frames, Round

LEMMA SymbolStep == ASSUME RInv, Symbol PROVE StepOK
<1>1. TypeOK /\ InFrame
  BY DEF RInv
<1> DEFINE L == Len(in_buffer)
<1>2. /\ now \in 0 .. Round - 1 /\ in_buffer \in Seq(0 .. Round - 1) /\ L \in 0 .. Symbols - 1
      /\ ~Full /\ bc \in 0 .. Blocks - 1 /\ decode \in Decoders
  <2>1. now \in 0 .. Round - 1 /\ in_buffer \in Seq(0 .. Round - 1) /\ L \in 0 .. Symbols
    BY <1>1, TypesInRound
  <2>2. bc \in 0 .. Blocks - 1 /\ decode \in Decoders
    BY <1>1 DEF TypeOK
  <2>3. ~Full /\ L # Symbols
    BY DEF Symbol, Full
  <2> QED
    BY <2>1, <2>2, <2>3, Constants
<1>3. /\ in_buffer' \in Seq(0 .. Round - 1) /\ Len(in_buffer') = L + 1 /\ in_buffer'[L + 1] = now
      /\ \A i \in 1 .. L : in_buffer'[i] = in_buffer[i]
  <2> DEFINE P == 0 .. Round - 1
  <2>1. in_buffer \in Seq(P) /\ now \in P /\ in_buffer' = Append(in_buffer, now)
    BY <1>2 DEF Symbol
  <2> HIDE DEF P
  <2>2. /\ in_buffer' \in Seq(P) /\ Len(in_buffer') = L + 1 /\ in_buffer'[L + 1] = now
        /\ \A i \in 1 .. L : in_buffer'[i] = in_buffer[i]
    BY <2>1
  <2> QED
    BY <2>2 DEF P
<1>4. now' \in 0 .. Round - 1
  BY <1>2, SendsType DEF Symbol
<1>5. decode' = Older(decode, Completed(1)) /\ decode' \in Decoders
  BY <1>1, TypesInRound DEF Symbol
<1>6. TypeOK'
  <2>1. /\ UNCHANGED <<mode, tuned, sync_state, bc, cfo_wait, offset_history, faulty, faults>>
        /\ pushed' = {}
    BY DEF Symbol
  <2>2. /\ tuned' \in BOOLEAN /\ sync_state' \in {"NONE", "COARSE", "FINE"}
        /\ bc' \in 0 .. Blocks - 1 /\ cfo_wait' \in Passed .. CfoWait
        /\ offset_history' \in Seq(0 .. Blocks - 1) /\ Len(offset_history') = 4
        /\ faulty' \in BOOLEAN /\ faults' \in 0 .. MaxFaults
    BY <1>1, <2>1 DEF TypeOK
  <2>3. mode' = mode /\ pushed' \subseteq Frames /\ Len(in_buffer') <= Symbols
    BY <2>1, <1>2, <1>3, Constants
  <2> QED
    BY <1>1, <1>3, <1>4, <1>5, <2>2, <2>3, TypeStep
<1>7. ASSUME sync_state' = "FINE", ~faulty' PROVE InStep' /\ Collects'
  <2>1. InStep /\ Collects /\ mode' = mode /\ bc' = bc
    BY <1>1, <1>7 DEF InFrame, Symbol
  <2> DEFINE y == bc * Symbols
  <2>2. InStepOf(now, in_buffer, bc)
    BY <2>1, <1>2, InStepIs, Constants
  <2>3. y \in 0 .. Round - Symbols
    BY <1>2, Place
  <2>4. /\ now = y + L /\ y + L < Round
        /\ \A i \in 1 .. L : in_buffer[i] = y + i - 1
    BY <2>2, <2>3, <1>2, RoundType, Constants DEF InStepOf
  <2>5. Completed(1) = IF L + 1 = Symbols THEN 1 ELSE 0
    <3>1. L \in 0 .. Symbols
      BY <1>2, Constants
    <3> QED
      BY <2>2, <3>1, <1>2, CompletedIs DEF InStepOf
  <2>6. now' = IF y + L + 1 = Round THEN 0 ELSE y + L + 1
    <3> DEFINE a == now + 1
    <3>1. a \in 0 .. 2 * Round - 1 /\ a <= Round /\ Round \in Nat \ {0} /\ now' = a % Round
      BY <1>2, RoundType, Constants DEF Symbol, Sends, Round
    <3>2. a % Round = IF a < Round THEN a ELSE a - Round
      <4> HIDE DEF a
      <4> QED
        BY <3>1, ModSmall
    <3>3. a = y + L + 1
      BY <2>4
    <3> HIDE DEF a, y
    <3> QED
      BY <3>1, <3>2, <3>3
  <2>7. InStepOf(now', in_buffer', bc')
    <3>1. ASSUME NEW i \in 1 .. L + 1 PROVE in_buffer'[i] = y + i - 1
      <4>1. CASE i = L + 1
        BY <4>1, <1>2, <1>3, <2>3, <2>4, RoundType, Constants
      <4>2. CASE i # L + 1
        <5>1. i \in 1 .. L
          BY <4>2, <1>2
        <5> QED
          BY <5>1, <1>3, <2>4
      <4> QED
        BY <4>1, <4>2
    <3> HIDE DEF L
    <3>2. y + (L + 1) = y + L + 1
      BY <1>2, <2>3
    <3> QED
      BY <2>1, <2>6, <1>3, <3>1, <3>2 DEF InStepOf
  <2>8. InStep'
    <3>1. (/\ now \in 0 .. Round - 1 /\ in_buffer \in Seq(0 .. Round - 1)
           /\ Len(in_buffer) <= Symbols /\ bc \in 0 .. Blocks - 1)'
      BY <1>2, <1>3, <1>4, <2>1, Constants
    <3>2. (InStep <=> InStepOf(now, in_buffer, bc))'
      BY <3>1, InStepIs, PTL
    <3> QED
      BY <3>2, <2>7
  <2>9. Collects'
    <3>1. CollectedAll(decode, bc, 0)
      BY <2>1, <1>2 DEF Collects
    <3>2. mode \in Modes
      BY <1>1 DEF TypeOK
    <3>3. CASE L + 1 = Symbols
      <4>1. CollectedAll(Older(decode, 1), bc, 1)
        BY <3>1, <3>2, <1>2, OlderAll
      <4>2. Full' /\ decode' = Older(decode, 1)
        BY <3>3, <1>3, <1>5, <2>5 DEF Full
      <4> QED
        BY <4>1, <4>2, <2>1 DEF Collects, CollectedAll
    <3>4. CASE L + 1 # Symbols
      <4>1. ~Full' /\ decode' = decode
        BY <3>4, <1>2, <1>3, <1>5, <2>5, OlderNone DEF Full
      <4> QED
        BY <4>1, <3>1, <2>1 DEF Collects, CollectedAll
    <3> QED
      BY <3>3, <3>4
  <2> QED
    BY <2>8, <2>9
<1>8. FramesWhole' /\ ~(sync_state = "FINE" /\ sync_state' = "NONE")
  BY DEF Symbol, FramesWhole
<1> QED
  BY <1>6, <1>7, <1>8 DEF StepOK, InFrame

LEMMA KeptNone ==
    ASSUME TypeOK, Full
    PROVE  Kept(0) = <<now>>
<1>1. Kept(0) \in Seq(0 .. Round - 1) /\ Len(Kept(0)) = 1 /\ Kept(0)[1] = now
  <2>1. /\ in_buffer \in Seq(0 .. Round - 1) /\ now \in 0 .. Round - 1 /\ 0 \in 0 .. Symbols - 1
    BY TypesInRound, Constants
  <2>2. Len(Kept(0)) = 0 + 1 /\ Kept(0) \in Seq(0 .. Round - 1) /\ Kept(0)[1] = now
    BY <2>1, KeptIs
  <2> QED
    BY <2>2
<1> DEFINE k == Kept(0)
           P == 0 .. Round - 1
<1>2. k \in Seq(P) /\ Len(k) = 1 /\ k[1] = now
  BY <1>1
<1> HIDE DEF k, P
<1>3. k = <<now>>
  BY <1>2
<1> QED
  BY <1>3 DEF k

\* The end of every block that is decoded, and right, in step or from now on.
LEMMA TakeStep ==
    ASSUME TypeOK, Full, Sends(1), mode' = mode, NEW d \in Decoders, Decoded(d, Number(Window), TRUE),
           IsBlock(Window), CollectedAll(d, Number(Window), 1), in_buffer' = Kept(0),
           ~faulty' => ~Torn
    PROVE  FramesWhole' /\ InFrame' /\ sync_state' = "FINE"
<1> DEFINE w == Window
           b == Number(w)
           y == b * Symbols
<1>1. /\ w \in Seq(0 .. Round - 1) /\ Len(w) = Symbols /\ now \in 0 .. Round - 1
  BY TypesInRound, WindowIs
<1>2. b \in 0 .. Blocks - 1 /\ \A i \in 1 .. Symbols : w[i] = y + i - 1
  BY <1>1, BlockIs
<1>3. /\ Whole(pushed') /\ sync_state' = "FINE" /\ CollectedAll(decode, bc, 0)'
  BY <1>2, DecodedWhole
<1>4. bc' = (b + 1) % Blocks
  BY DEF Decoded
<1>5. ASSUME ~faulty' PROVE InStep' /\ Collects'
  <2>1. y \in 0 .. Round - Symbols
    BY <1>2, Place
  <2>2. now = (w[Symbols] + 1) % Round
    BY <1>5 DEF Torn, Round
  <2>3. w[Symbols] = y + Symbols - 1
    BY <1>2, Constants
  <2>4. now = IF y + Symbols = Round THEN 0 ELSE y + Symbols
    <3> HIDE DEF w, y
    <3> DEFINE a == w[Symbols] + 1
    <3>1. a = y + Symbols /\ a \in 0 .. 2 * Round - 1 /\ a <= Round /\ Round \in Nat \ {0}
      BY <2>1, <2>3, RoundType, Constants
    <3> HIDE DEF a
    <3>2. a % Round = IF a < Round THEN a ELSE a - Round
      BY <3>1, ModSmall
    <3>3. now = a % Round
      BY <2>2 DEF a
    <3> QED
      BY <3>1, <3>2, <3>3
  <2>5. in_buffer' = <<now>> /\ now' = (now + 1) % Round
    BY KeptNone DEF Sends, Round
  <2> HIDE DEF b
  <2>6. InStep' /\ Len(in_buffer') # Symbols
    BY <1>1, <1>2, <1>4, <2>4, <2>5, TakenInStep
  <2>7. ~Full'
    BY <2>6 DEF Full
  <2>8. Collects'
    BY <1>3, <2>7 DEF Collects, CollectedAll
  <2> QED
    BY <2>6, <2>8
<1> QED
  BY <1>3, <1>5 DEF FramesWhole, Whole, InFrame

\* The next window of a receiver in step is the block it waits for, with nothing lost
\* behind it.
LEMMA InStepWindow ==
    ASSUME TypeOK, Full, InStep
    PROVE  IsBlock(Window) /\ Number(Window) = bc /\ ~Torn
<1> DEFINE w == Window
           y == bc * Symbols
<1>1. /\ w \in Seq(0 .. Round - 1) /\ Len(w) = Symbols /\ now \in 0 .. Round - 1
      /\ \A i \in 1 .. Symbols : w[i] = in_buffer[i]
      /\ in_buffer \in Seq(0 .. Round - 1) /\ Len(in_buffer) = Symbols /\ bc \in 0 .. Blocks - 1
  BY TypesInRound, WindowIs DEF TypeOK, Full
<1>2. InStepOf(now, in_buffer, bc)
  BY <1>1, InStepIs, Constants
<1>3. /\ now = IF y + Symbols = Round THEN 0 ELSE y + Symbols
      /\ \A i \in 1 .. Symbols : w[i] = y + i - 1
  BY <1>1, <1>2 DEF InStepOf
<1>4. IsBlock(w) /\ Number(w) = bc
  BY <1>1, <1>3, BlockFrom
<1>5. now = (w[Symbols] + 1) % Round
  <2>1. y \in 0 .. Round - Symbols
    BY <1>1, Place
  <2>2. w[Symbols] = y + Symbols - 1
    BY <1>3, Constants
  <2> HIDE DEF w, y
  <2> DEFINE a == w[Symbols] + 1
  <2>3. a = y + Symbols /\ a \in 0 .. 2 * Round - 1 /\ a <= Round /\ Round \in Nat \ {0}
    BY <2>1, <2>2, RoundType, Constants
  <2> HIDE DEF a
  <2>4. a % Round = IF a < Round THEN a ELSE a - Round
    BY <2>3, ModSmall
  <2>5. now = a % Round
    BY <1>3, <2>3, <2>4
  <2> QED
    BY <2>5 DEF a
<1> QED
  BY <1>4, <1>5 DEF Torn, Round

\* What every block of symbols does to the types.
LEMMA ArrivesType ==
    ASSUME TypeOK, Arrives
    PROVE  /\ now' \in 0 .. Round - 1 /\ mode' = mode /\ Full /\ Sends(1)
           /\ Kept(0) \in Seq(0 .. Round - 1) /\ Len(Kept(0)) <= Symbols
           /\ \A offset \in Int : /\ Kept(Keep(offset)) \in Seq(0 .. Round - 1)
                                  /\ Len(Kept(Keep(offset))) <= Symbols
<1>1. Full /\ Sends(1) /\ mode' = mode
  BY DEF Arrives
<1>2. now \in 0 .. Round - 1 /\ in_buffer \in Seq(0 .. Round - 1)
  BY TypesInRound
<1>3. now' \in 0 .. Round - 1
  BY <1>1, <1>2, SendsType
<1>4. ASSUME NEW extra \in 0 .. Symbols - 1
      PROVE  Kept(extra) \in Seq(0 .. Round - 1) /\ Len(Kept(extra)) <= Symbols
  <2>1. Kept(extra) \in Seq(0 .. Round - 1) /\ Len(Kept(extra)) = extra + 1
    BY <1>1, <1>2, KeptIs
  <2> QED
    BY <2>1, Constants
<1>5. 0 \in 0 .. Symbols - 1 /\ \A offset \in Int : Keep(offset) \in 0 .. Symbols - 1
  <2>1. 0 \in 0 .. Symbols - 1 /\ Symbols \in Nat \ {0} /\ \A offset \in Int : Symbols - offset \in Int
    BY Constants
  <2> QED
    BY <2>1, DivMod DEF Keep
<1>6. \A offset \in Int : Kept(Keep(offset)) \in Seq(0 .. Round - 1) /\ Len(Kept(Keep(offset))) <= Symbols
  BY <1>4, <1>5
<1> QED
  BY <1>1, <1>3, <1>4, <1>5, <1>6

LEMMA NoiseType ==
    ASSUME TypeOK, Noise \/ Clear
    PROVE  faults' \in 0 .. MaxFaults /\ (Noise => faults' > faults)
BY Constants DEF TypeOK, Noise, Clear

LEMMA FineStep == ASSUME RInv, Fine PROVE StepOK
<1>1. TypeOK /\ InFrame /\ sync_state = "FINE" /\ Arrives
  BY DEF RInv, Fine
<1>2. /\ now' \in 0 .. Round - 1 /\ mode' = mode /\ Full /\ Sends(1)
      /\ in_buffer' = Kept(0) /\ in_buffer' \in Seq(0 .. Round - 1) /\ Len(in_buffer') <= Symbols
  BY <1>1, ArrivesType DEF Fine
<1>3. Decoder \in Decoders /\ bc \in 0 .. Blocks - 1
  BY <1>1, TypesInRound DEF TypeOK
<1>4. PICK clear \in BOOLEAN :
        Decoded(Decoder, bc, clear) /\ (IF clear THEN Clear /\ faulty' = faulty ELSE Noise /\ faulty' = TRUE)
  BY DEF Fine
<1>5. /\ decode' \in Decoders /\ pushed' \subseteq Frames
      /\ bc' = (bc + 1) % Blocks /\ sync_state' \in {"NONE", "FINE"}
  BY <1>1, <1>3, <1>4, DecodedType
<1>6. faults' \in 0 .. MaxFaults /\ (Noise => faults' > faults)
  BY <1>1, <1>4, NoiseType
<1>7. TypeOK'
  <2>1. bc' \in 0 .. Blocks - 1
    BY <1>3, <1>5, Parity, Constants
  <2>2. UNCHANGED <<tuned, offset_history>> /\ cfo_wait' = IF mode = "AM" THEN Waited ELSE cfo_wait
    BY DEF Fine
  <2>3. /\ tuned' \in BOOLEAN /\ cfo_wait' \in Passed .. CfoWait
        /\ offset_history' \in Seq(0 .. Blocks - 1) /\ Len(offset_history') = 4
    BY <1>1, <2>2, Constants DEF TypeOK, Waited, Passed
  <2>4. faulty' \in BOOLEAN
    BY <1>1, <1>4 DEF TypeOK
  <2> QED
    BY <1>1, <1>2, <1>5, <1>6, <2>1, <2>3, <2>4, TypeStep
<1>8. ASSUME ~faulty, clear
      PROVE  FramesWhole' /\ InFrame' /\ sync_state' = "FINE"
  <2>1. InStep /\ CollectedAll(decode, bc, 1)
    BY <1>1, <1>2, <1>8 DEF InFrame, Collects
  <2>2. IsBlock(Window) /\ Number(Window) = bc /\ ~Torn
    BY <1>1, <1>2, <2>1, InStepWindow
  <2>3. Decoder = decode
    <3>1. /\ now \in 0 .. Round - 1 /\ in_buffer \in Seq(0 .. Round - 1) /\ Len(in_buffer) = Symbols
          /\ decode \in Decoders
      BY <1>1, <1>2, TypesInRound DEF TypeOK, Full
    <3>2. InStepOf(now, in_buffer, bc)
      BY <1>3, <2>1, <3>1, InStepIs, Constants
    <3>3. Symbols \in 0 .. Symbols /\ now = IF bc * Symbols + Symbols = Round THEN 0 ELSE bc * Symbols + Symbols
      BY <3>1, <3>2, Constants DEF InStepOf
    <3>4. Completed(1) = 0
      BY <1>3, <3>3, CompletedIs, Constants
    <3> QED
      BY <3>1, <3>4, OlderNone DEF Decoder
  <2>4. Decoded(Decoder, Number(Window), TRUE) /\ CollectedAll(Decoder, Number(Window), 1)
    BY <1>4, <1>8, <2>1, <2>2, <2>3
  <2> QED
    BY <1>1, <1>2, <1>3, <2>2, <2>4, TakeStep
<1>9. CASE ~faulty /\ clear
  BY <1>7, <1>8, <1>9 DEF StepOK
<1>10. CASE faulty \/ ~clear
  <2>1. faulty' /\ (faulty \/ faults' > faults)
    BY <1>4, <1>6, <1>10
  <2> QED
    BY <1>7, <2>1 DEF StepOK, InFrame, FramesWhole
<1> QED
  BY <1>9, <1>10

\* The number of a window, block or not.
LEMMA NumberType ==
    ASSUME TypeOK, Full
    PROVE  Number(Window) \in 0 .. Blocks - 1
<1> DEFINE a == Window[1]
           P == 0 .. Round - 1
<1>1. Window \in Seq(P) /\ Len(Window) = Symbols
  BY TypesInRound, WindowIs
<1> HIDE DEF P
<1>2. a \in P
  BY <1>1, Constants
<1>3. a \in 0 .. Round - 1
  BY <1>2 DEF P
<1> HIDE DEF a
<1> DEFINE q == a \div Symbols
<1>4. q \in Nat /\ a = q * Symbols + (a % Symbols) /\ a % Symbols \in 0 .. Symbols - 1
  <2>1. a \in Nat /\ a \in Int /\ Symbols \in Nat \ {0}
    BY <1>3, RoundType, Constants
  <2> QED
    BY <2>1, DivMod, DivNat
<1> DEFINE m == a % Symbols
<1>5. m \in 0 .. Symbols - 1 /\ a = q * Symbols + m
  BY <1>4
<1> HIDE DEF q, m
<1>6. q * Symbols < Blocks * Symbols
  BY <1>3, <1>4, <1>5, Constants DEF Round
<1>7. ~(q >= Blocks)
  BY <1>4, <1>6, Constants
<1> QED
  BY <1>4, <1>7, Constants DEF a, q, Number

\* A receiver that stays without synchronisation.
LEMMA CoarseStep ==
    ASSUME TypeOK, sync_state # "FINE", Arrives, Noise \/ Clear, Coarse,
           in_buffer' \in Seq(0 .. Round - 1), Len(in_buffer') <= Symbols,
           tuned' \in BOOLEAN, cfo_wait' \in Passed .. CfoWait,
           offset_history' \in Seq(0 .. Blocks - 1), Len(offset_history') = 4
    PROVE  StepOK
<1>1. now' \in 0 .. Round - 1 /\ mode' = mode
  BY ArrivesType
<1>2. /\ sync_state' = "COARSE" /\ decode' = Decoder /\ pushed' = {} /\ bc' = bc /\ faulty' = faulty
      /\ Decoder \in Decoders
  BY TypesInRound DEF Coarse
<1>3. faults' \in 0 .. MaxFaults
  BY NoiseType
<1>4. /\ bc' \in 0 .. Blocks - 1 /\ faulty' \in BOOLEAN
      /\ sync_state' \in {"NONE", "COARSE", "FINE"} /\ pushed' \subseteq Frames
      /\ decode' \in Decoders
  BY <1>2 DEF TypeOK
<1>5. TypeOK'
  BY <1>1, <1>3, <1>4, TypeStep
<1> QED
  BY <1>2, <1>5 DEF StepOK, InFrame, FramesWhole

\* A receiver that finds a block.
LEMMA FoundStep ==
    ASSUME TypeOK, Arrives, sync_state # "FINE", Readable, Clear \/ Noise,
           Decoded(DecodeReset(Decoder), Number(Window), TRUE),
           mode = "FM" \/ Number(Window) = 0,
           faulty' = Torn, in_buffer' = Kept(0),
           tuned' \in BOOLEAN, cfo_wait' \in Passed .. CfoWait,
           offset_history' \in Seq(0 .. Blocks - 1), Len(offset_history') = 4
    PROVE  StepOK
<1> DEFINE d == DecodeReset(Decoder)
           n == Number(Window)
<1>1. /\ now' \in 0 .. Round - 1 /\ mode' = mode /\ Full /\ Sends(1)
      /\ in_buffer' \in Seq(0 .. Round - 1) /\ Len(in_buffer') <= Symbols
  BY ArrivesType
<1>2. d \in Decoders
  BY TypesInRound, DecodeResetType
<1>3. n \in 0 .. Blocks - 1
  BY <1>1, NumberType
<1>4. CollectedAll(d, n, 1)
  <2>1. Decoder \in Decoders /\ 1 \in {0, 1}
    BY TypesInRound
  <2>2. CASE mode = "FM"
    BY <2>1, <2>2, <1>3, ResetPm DEF CollectedAll
  <2>3. CASE mode # "FM"
    BY <2>1, <2>3, ResetAm DEF CollectedAll
  <2> QED
    BY <2>2, <2>3
<1>5. IsBlock(Window)
  BY DEF Readable
<1> HIDE DEF d, n
<1>6. Decoded(d, n, TRUE)
  BY DEF d, n
<1>7. /\ decode' \in Decoders /\ pushed' \subseteq Frames /\ bc' = (n + 1) % Blocks
      /\ sync_state' \in {"NONE", "FINE"}
  BY <1>2, <1>3, <1>6, DecodedType
<1>8. bc' \in 0 .. Blocks - 1
  BY <1>3, <1>7, Parity, Constants
<1>9. FramesWhole' /\ InFrame' /\ sync_state' = "FINE"
  BY <1>1, <1>2, <1>4, <1>5, <1>6, TakeStep DEF n
<1>10. faults' \in 0 .. MaxFaults
  BY NoiseType
<1>11. faulty' \in BOOLEAN
  BY DEF Torn
<1>12. TypeOK'
  BY <1>1, <1>7, <1>8, <1>10, <1>11, TypeStep
<1> QED
  BY <1>9, <1>12 DEF StepOK

LEMMA OffsetsType ==
    ASSUME TypeOK, Full
    PROVE  /\ Offsets(Window) \subseteq Int
           /\ IsBlock(Window) => Offsets(Window) = {0}
<1>1. Window[1] \in Int /\ Symbols \in Nat \ {0}
  <2> DEFINE P == 0 .. Round - 1
  <2>1. Window \in Seq(P) /\ Len(Window) = Symbols /\ Symbols \in Nat \ {0}
    BY TypesInRound, WindowIs, Constants
  <2> HIDE DEF P
  <2>2. Window[1] \in P
    BY <2>1
  <2> QED
    BY <2>1, <2>2 DEF P
<1> DEFINE r == Window[1] % Symbols
<1>2. r \in 0 .. Symbols - 1
  BY <1>1, DivMod
<1>3. IsBlock(Window) => Unbroken(Window) /\ r = 0
  BY DEF IsBlock
<1> HIDE DEF r
<1>4. Symbols - r \in Int
  BY <1>1, <1>2
<1> DEFINE z == (Symbols - r) % Symbols
<1>5. z \in 0 .. Symbols - 1
  BY <1>1, <1>4, DivMod
<1>6. r = 0 => z = 0
  <2>1. (1 * Symbols + 0) % Symbols = 0 /\ 1 * Symbols + 0 = Symbols
    BY <1>1, ModOf
  <2>2. r = 0 => Symbols - r = Symbols
    BY <1>1
  <2> QED
    BY <2>1, <2>2
<1>7. Offsets(Window) = IF Unbroken(Window) THEN {z} ELSE -1 .. Symbols - 1
  BY DEF Offsets, r
<1> HIDE DEF z
<1> QED
  BY <1>1, <1>3, <1>5, <1>6, <1>7

LEMMA CoarseFmStep == ASSUME RInv, CoarseFm PROVE StepOK
<1>1. TypeOK /\ InFrame /\ mode = "FM" /\ sync_state # "FINE" /\ Arrives
  BY DEF RInv, CoarseFm
<1>2. /\ Full /\ Kept(0) \in Seq(0 .. Round - 1) /\ Len(Kept(0)) <= Symbols
      /\ \A offset \in Int : /\ Kept(Keep(offset)) \in Seq(0 .. Round - 1)
                             /\ Len(Kept(Keep(offset))) <= Symbols
  BY <1>1, ArrivesType
<1>3. /\ tuned \in BOOLEAN /\ cfo_wait \in Passed .. CfoWait
      /\ offset_history \in Seq(0 .. Blocks - 1) /\ Len(offset_history) = 4
  BY <1>1 DEF TypeOK
<1>4. CASE SyncFm
  BY <1>1, <1>3, <1>4, FoundStep DEF SyncFm
<1>5. CASE DisagreeFm
  BY <1>1, <1>2, <1>3, <1>5, CoarseStep DEF DisagreeFm
<1>6. CASE DetectCfo
  <2>1. Coarse /\ (Noise \/ Clear) /\ UNCHANGED offset_history
    BY <1>6 DEF DetectCfo
  <2>2. CASE in_buffer' = Kept(0) /\ UNCHANGED <<tuned, cfo_wait>>
    BY <1>1, <1>2, <1>3, <2>1, <2>2, CoarseStep
  <2>3. CASE \E offset \in Offsets(Window) :
               in_buffer' = Kept(Keep(offset)) /\ tuned' = TRUE /\ cfo_wait' = CfoWait
    <3>1. PICK offset \in Int : in_buffer' = Kept(Keep(offset)) /\ tuned' = TRUE /\ cfo_wait' = CfoWait
      BY <2>3, <1>1, <1>2, OffsetsType
    <3>2. in_buffer' \in Seq(0 .. Round - 1) /\ Len(in_buffer') <= Symbols
      BY <3>1, <1>2
    <3>3. tuned' \in BOOLEAN /\ cfo_wait' \in Passed .. CfoWait
      BY <3>1, Constants DEF Passed
    <3> QED
      BY <1>1, <1>3, <2>1, <3>2, <3>3, CoarseStep
  <2> QED
    BY <1>6, <2>2, <2>3 DEF DetectCfo
<1>7. CASE WaitCfo
  <2>1. cfo_wait' \in Passed .. CfoWait
    BY <1>3, <1>7, Constants DEF WaitCfo, Passed
  <2> QED
    BY <1>1, <1>2, <1>3, <1>7, <2>1, CoarseStep DEF WaitCfo
<1> QED
  BY <1>4, <1>5, <1>6, <1>7 DEF CoarseFm

\* The numbers of the latest blocks are those that AM waits for: this one is block 0.
LEMMA ExpectedIs ==
    ASSUME TypeOK, Full, NEW clear \in BOOLEAN
    PROVE  /\ FindBlockAm(clear) \in Seq(0 .. Blocks - 1) /\ Len(FindBlockAm(clear)) = 4
           /\ FindBlockAm(clear) = Expected => clear /\ Readable /\ Number(Window) = 0
<1> DEFINE n == Number(Window)
           h == offset_history
           P == 0 .. Blocks - 1
<1>1. n \in P /\ h \in Seq(P) /\ Len(h) = 4 /\ 0 \in P /\ Blocks - 3 # 0
  BY NumberType, Constants DEF TypeOK
<1> HIDE DEF n, h, P
<1>2. /\ Append(Tail(h), n) \in Seq(P) /\ Len(Append(Tail(h), n)) = 4 /\ Append(Tail(h), n)[4] = n
  <2>1. h # <<>>
    BY <1>1
  <2> DEFINE t == Tail(h)
  <2>2. t \in Seq(P) /\ Len(t) = 3
    BY <1>1, <2>1, HeadTailProperties
  <2> HIDE DEF t
  <2>3. Append(t, n) \in Seq(P) /\ Len(Append(t, n)) = Len(t) + 1 /\ Append(t, n)[Len(t) + 1] = n
    <3>1. n \in P /\ t \in Seq(P)
      BY <1>1, <2>2
    <3> QED
      BY <3>1, AppendProperties
  <2>4. Append(t, n) \in Seq(P) /\ Len(Append(t, n)) = 4 /\ Append(t, n)[4] = n
    BY <2>2, <2>3
  <2> QED
    BY <2>4 DEF t
<1>3. <<0, 0, 0, 0>> \in Seq(P) /\ Len(<<0, 0, 0, 0>>) = 4
  BY <1>1
<1>4. Expected[4] = 0 /\ Expected # <<0, 0, 0, 0>>
  BY <1>1 DEF Expected
<1>5. FindBlockAm(clear) = IF clear /\ Readable THEN Append(Tail(h), n) ELSE <<0, 0, 0, 0>>
  BY DEF FindBlockAm, n, h
<1>6. FindBlockAm(clear) \in Seq(P) /\ Len(FindBlockAm(clear)) = 4
  BY <1>2, <1>3, <1>5
<1>7. FindBlockAm(clear) = Expected => clear /\ Readable /\ n = 0
  BY <1>2, <1>4, <1>5
<1> QED
  BY <1>6, <1>7 DEF n, P

LEMMA CoarseAmStep == ASSUME RInv, CoarseAm PROVE StepOK
<1>1. TypeOK /\ InFrame /\ mode = "AM" /\ sync_state # "FINE" /\ Arrives /\ tuned' = TRUE
  BY DEF RInv, CoarseAm
<1>2. /\ Full /\ Kept(0) \in Seq(0 .. Round - 1) /\ Len(Kept(0)) <= Symbols
      /\ \A offset \in Int : /\ Kept(Keep(offset)) \in Seq(0 .. Round - 1)
                             /\ Len(Kept(Keep(offset))) <= Symbols
  BY <1>1, ArrivesType
<1> DEFINE Step(clear, offset, history) ==
             /\ IF clear THEN Clear ELSE Noise
             /\ in_buffer' = Kept(IF cfo_wait = 0 /\ offset > 0 THEN Keep(offset) ELSE 0)
             /\ cfo_wait' = IF cfo_wait # 0 THEN Waited ELSE IF offset > 0 THEN CfoWait ELSE 0
             /\ IF history = Expected
                THEN /\ offset_history' = <<0, 0, 0, 0>>
                     /\ Decoded(DecodeReset(Decoder), 0, TRUE) /\ faulty' = Torn
                ELSE offset_history' = history /\ Coarse
<1>3. PICK clear \in BOOLEAN : \E offset \in IF clear /\ tuned THEN Offsets(Window) ELSE {-1} :
                                  Step(clear, offset, FindBlockAm(clear))
  BY DEF CoarseAm
<1>4. PICK offset \in IF clear /\ tuned THEN Offsets(Window) ELSE {-1} :
             Step(clear, offset, FindBlockAm(clear))
  BY <1>3
<1>5. offset \in Int
  BY <1>1, <1>2, OffsetsType
<1>6. in_buffer' \in Seq(0 .. Round - 1) /\ Len(in_buffer') <= Symbols
  BY <1>2, <1>4, <1>5
<1>7. cfo_wait' \in Passed .. CfoWait
  BY <1>1, <1>4, Constants DEF Waited, Passed, TypeOK
<1>8. /\ FindBlockAm(clear) \in Seq(0 .. Blocks - 1) /\ Len(FindBlockAm(clear)) = 4
      /\ FindBlockAm(clear) = Expected => clear /\ Readable /\ Number(Window) = 0
  BY <1>1, <1>2, ExpectedIs
<1>9. Noise \/ Clear
  BY <1>4
<1>10. CASE FindBlockAm(clear) = Expected
  <2>1. clear /\ Readable /\ Number(Window) = 0 /\ tuned
    BY <1>8, <1>10 DEF Readable
  <2>2. ~(offset > 0)
    <3>1. offset \in Offsets(Window) /\ IsBlock(Window)
      BY <1>4, <2>1 DEF Readable
    <3>2. offset = 0
      BY <3>1, <1>1, <1>2, OffsetsType
    <3> QED
      BY <3>2
  <2>3. in_buffer' = Kept(0)
    BY <1>4, <2>2
  <2>4. /\ offset_history' = <<0, 0, 0, 0>> /\ Decoded(DecodeReset(Decoder), Number(Window), TRUE)
        /\ faulty' = Torn
    BY <1>4, <1>10, <2>1
  <2>5. offset_history' \in Seq(0 .. Blocks - 1) /\ Len(offset_history') = 4
    <3>1. 0 \in 0 .. Blocks - 1
      BY Constants
    <3> DEFINE P == 0 .. Blocks - 1
    <3> HIDE DEF P
    <3>2. 0 \in P => <<0, 0, 0, 0>> \in Seq(P)
      OBVIOUS
    <3> QED
      BY <2>4, <3>1, <3>2 DEF P
  <2> QED
    BY <1>1, <1>7, <1>9, <2>1, <2>3, <2>4, <2>5, FoundStep
<1>11. CASE FindBlockAm(clear) # Expected
  <2>1. offset_history' = FindBlockAm(clear) /\ Coarse
    BY <1>4, <1>11
  <2>2. offset_history' \in Seq(0 .. Blocks - 1) /\ Len(offset_history') = 4
    BY <2>1, <1>8
  <2> QED
    BY <1>1, <1>6, <1>7, <1>9, <2>1, <2>2, CoarseStep
<1> QED
  BY <1>10, <1>11

LEMMA LostStep == ASSUME RInv, Lost PROVE StepOK
<1>1. TypeOK /\ Noise /\ faulty' = TRUE /\ pushed' = {}
      /\ UNCHANGED <<mode, in_buffer, tuned, sync_state, bc, cfo_wait, offset_history>>
  BY DEF RInv, Lost
<1>2. PICK n \in Losses : Sends(n) /\ decode' = Older(decode, Completed(n))
  BY DEF Lost
<1>3. n \in Nat
  BY Constants
<1>4. now' \in 0 .. Round - 1 /\ decode' \in Decoders
  BY <1>1, <1>2, <1>3, TypesInRound, SendsType
<1>5. faults' \in 0 .. MaxFaults
  BY <1>1, NoiseType
<1>6. /\ in_buffer' \in Seq(0 .. Round - 1) /\ Len(in_buffer') <= Symbols
  BY <1>1, TypesInRound DEF TypeOK
<1>7. /\ tuned' \in BOOLEAN /\ sync_state' \in {"NONE", "COARSE", "FINE"}
      /\ bc' \in 0 .. Blocks - 1 /\ cfo_wait' \in Passed .. CfoWait
      /\ offset_history' \in Seq(0 .. Blocks - 1) /\ Len(offset_history') = 4
      /\ faulty' \in BOOLEAN /\ pushed' \subseteq Frames /\ mode' = mode
  BY <1>1 DEF TypeOK
<1>8. TypeOK'
  BY <1>1, <1>4, <1>5, <1>6, <1>7, TypeStep
<1> QED
  BY <1>1, <1>8 DEF StepOK, InFrame, FramesWhole

LEMMA InputResetStep == ASSUME RInv, InputReset PROVE StepOK
<1>1. TypeOK /\ Noise /\ pushed' = {} /\ sync_state' = "NONE" /\ in_buffer' = <<>>
      /\ UNCHANGED <<mode, bc, faulty>> /\ tuned' \in BOOLEAN /\ cfo_wait' = 0
      /\ offset_history' = <<0, 0, 0, 0>> /\ now' \in 0 .. Round - 1
      /\ decode' = DecodeReset(Older(decode, MaxAge))
  BY DEF RInv, InputReset, SyncReset, Round
<1>2. decode' \in Decoders
  BY <1>1, MaxAgeType, OlderType, DecodeResetType DEF TypeOK
<1>3. faults' \in 0 .. MaxFaults /\ faults' > faults
  BY <1>1, NoiseType
<1>4. in_buffer' \in Seq(0 .. Round - 1) /\ Len(in_buffer') <= Symbols
  BY <1>1, Constants
<1>5. offset_history' \in Seq(0 .. Blocks - 1) /\ Len(offset_history') = 4
  <2>1. 0 \in 0 .. Blocks - 1
    BY Constants
  <2> DEFINE P == 0 .. Blocks - 1
  <2> HIDE DEF P
  <2>2. 0 \in P => <<0, 0, 0, 0>> \in Seq(P)
    OBVIOUS
  <2> QED
    BY <1>1, <2>1, <2>2 DEF P
<1>6. /\ sync_state' \in {"NONE", "COARSE", "FINE"} /\ bc' \in 0 .. Blocks - 1
      /\ cfo_wait' \in Passed .. CfoWait /\ faulty' \in BOOLEAN /\ pushed' \subseteq Frames
  BY <1>1, Constants DEF TypeOK, Passed
<1>7. TypeOK'
  BY <1>1, <1>2, <1>3, <1>4, <1>5, <1>6, TypeStep
<1> QED
  BY <1>1, <1>3, <1>7 DEF StepOK, InFrame, FramesWhole

LEMMA StutterStep == ASSUME RInv, UNCHANGED vars, FramesWhole PROVE StepOK
BY DEF vars, StepOK, RInv, InFrame, Collects, CollectedAll, FramesWhole, TypeOK, InStep, Full,
       Decoders, Ages, MaxAge

-----------------------------------------------------------------------------
(* The theorems *)

LEMMA RInit == Init => RInv /\ FramesWhole
<1> SUFFICES ASSUME Init PROVE RInv /\ FramesWhole
  OBVIOUS
<1>1. TypeOK
  <2>1. /\ mode \in Modes /\ now \in 0 .. Symbols * Blocks - 1 /\ tuned \in BOOLEAN
        /\ sync_state \in {"NONE", "COARSE", "FINE"} /\ faulty \in BOOLEAN /\ decode \in Decoders
    BY NoDataType DEF Init
  <2>2. bc \in 0 .. Blocks - 1 /\ cfo_wait \in Passed .. CfoWait /\ faults \in 0 .. MaxFaults
    BY Constants DEF Init, Passed
  <2>3. in_buffer \in Seq(0 .. Symbols * Blocks - 1) /\ Len(in_buffer) <= Symbols
    BY Constants DEF Init
  <2>4. offset_history \in Seq(0 .. Blocks - 1) /\ Len(offset_history) = 4
    <3>1. 0 \in 0 .. Blocks - 1 /\ offset_history = <<0, 0, 0, 0>>
      BY Constants DEF Init
    <3> DEFINE P == 0 .. Blocks - 1
    <3> HIDE DEF P
    <3>2. 0 \in P => <<0, 0, 0, 0>> \in Seq(P)
      OBVIOUS
    <3> QED
      BY <3>1, <3>2 DEF P
  <2>5. pushed = {}
    BY DEF Init
  <2> QED
    BY <2>1, <2>2, <2>3, <2>4, <2>5 DEF TypeOK
<1> QED
  BY <1>1 DEF Init, RInv, InFrame, FramesWhole

LEMMA RStep == ASSUME RInv, FramesWhole, [Next]_vars PROVE StepOK
BY SymbolStep, FineStep, CoarseFmStep, CoarseAmStep, LostStep, InputResetStep, StutterStep
   DEF Next, Receive

LEMMA RInvariant == Spec => [](RInv /\ FramesWhole)
<1>1. ASSUME RInv /\ FramesWhole, [Next]_vars PROVE (RInv /\ FramesWhole)'
  BY <1>1, RStep DEF StepOK, RInv
<1> QED
  BY <1>1, RInit, PTL DEF Spec

\* Every variable keeps the type that the code gives it, and acquire_process always leaves
\* room in its buffer.
THEOREM ReceiverTypes == Spec => []TypeOK
BY RInvariant, PTL DEF RInv

\* input.c, acquire.c, sync.c: whatever the receiver began with and however often the
\* signal was lost, once it says that it is synchronised it takes the blocks of the
\* station and knows their numbers, until something is lost again.
THEOREM ReceiverSynchronised == Spec => []Synchronised
<1>1. RInv => Synchronised
  BY DEF RInv, InFrame, Synchronised
<1> QED
  BY <1>1, RInvariant, PTL

\* decode.c: no frame of P1, P3 or PIDS that is handed on has a block missing, or one
\* from before the synchronisation or of another frame, as long as nothing was lost
\* since: the interleavers hand on nothing until they are full.
THEOREM ReceiverFramesWhole == Spec => []FramesWhole
BY RInvariant, PTL

\* frame.c, input.c: the receiver never gives up the synchronisation for a reason of
\* its own, like a frame that it did not have in full.
THEOREM ReceiverKeepsSync == Spec => KeepsSync
<1>1. ASSUME RInv /\ FramesWhole, [Next]_vars
      PROVE  [sync_state = "FINE" /\ sync_state' = "NONE" => faulty \/ faults' > faults]_vars
  BY <1>1, RStep DEF StepOK
<1> QED
  BY <1>1, RInvariant, PTL DEF Spec, KeepsSync
=============================================================================
