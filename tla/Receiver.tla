------------------------------ MODULE Receiver ------------------------------
(***************************************************************************)
(* How the receiver finds the blocks and frames of a station in a stream   *)
(* of samples and hands frames on: the control of src/src/acquire.c,       *)
(* sync.c and decode.c, with input_set_sync_state and input_reset of       *)
(* input.c and the end of frame_push in frame.c, where the loss of         *)
(* synchronisation is noticed.                                             *)
(*                                                                         *)
(* The station sends symbols; so many make a block, so many blocks a       *)
(* frame.  acquire_process takes a window of the length of a block, and    *)
(* keeps a part of its buffer for the next.  Whether that window is a      *)
(* block, and which one, is what sync_process_fm and sync_process_am find  *)
(* out from the reference subcarriers.  The decoder collects blocks until  *)
(* it has a frame, and mixes each frame with earlier ones, as the station  *)
(* spread it over time.                                                    *)
(***************************************************************************)
EXTENDS Integers, Sequences

CONSTANTS
    Modes,          \* of {"FM", "AM"}
    Symbols,        \* BLKSZ and ACQUIRE_SYMBOLS: symbols of a block
    Blocks,         \* blocks of a frame: 16 in FM, 8 in AM
    CfoWait,        \* blocks between two measurements: 8
    Pairs,          \* pairs of blocks that the P3 interleaver spreads data over: 16
    Delay,          \* frames by which AM sends the main part of P1 later: 3
    Losses,         \* bound: how many symbols may be lost at once
    MaxFaults       \* bound: losses of samples, noisy blocks and retunings

ASSUME ReceiverAssumption ==
    /\ Modes \subseteq {"FM", "AM"}
    /\ Symbols \in Nat \ {0, 1} /\ Blocks \in Nat \ (0 .. 3) /\ Blocks % 2 = 0
    /\ CfoWait \in Nat /\ Pairs \in Nat \ {0} /\ Delay \in Nat \ {0}
    /\ Losses \subseteq Nat \ {0} /\ MaxFaults \in Nat

VARIABLES
    \* the station
    mode,
    now,            \* the symbol of the frame it sends next
    \* the receiver
    in_buffer,      \* the symbols received, as places in the frame
    tuned,          \* the carrier offset, cfo, is the right one
    sync_state,
    bc,             \* number of the next block, while synchronised
    cfo_wait,       \* Passed once it has gone below 0
    offset_history, \* AM: the latest four block numbers
    decode,         \* decode_t, see NoData
    \* history
    pushed,         \* the frames of the latest step
    faulty,         \* something was lost or noisy since synchronisation
    faults          \* how often so far

vars == <<mode, now, in_buffer, tuned, sync_state, bc, cfo_wait, offset_history, decode,
          pushed, faulty, faults>>

Passed == -1

\* The data of a block in a buffer of the decoder is known by its age, the
\* number of blocks that the station has completed since (1: the latest), or
\* is Bad: noise, not a block, put in the place of another one, or too old
\* to matter.
Bad == 0
MaxAge ==
    IF mode = "AM" THEN Delay * Blocks + 1
    ELSE IF Blocks > 2 * Pairs THEN Blocks ELSE 2 * Pairs + 1
Ages == 0 .. MaxAge
Aged(age, n) == IF age = Bad \/ age + n > MaxAge THEN Bad ELSE age + n

\* Faulty: leaves the interleaver of P3 as it is.
DecodeResetPm(d) == [d EXCEPT !.started_pm = FALSE, !.am_diversity_wait = Delay + 1]

\* decode_reset: the counters, not the buffers.
DecodeReset(d) ==
    [d EXCEPT !.started_pm = FALSE, !.am_diversity_wait = Delay + 1,
              !.px_started = FALSE, !.px_i = 0, !.px_ready = FALSE]

NoData ==
    DecodeReset(
    [started_pm |-> FALSE,
     buffer |-> [b \in 0 .. Blocks - 1 |-> Bad],    \* buffer_pm; AM: buffer_pl, _pu, _s, _t
     px_started |-> FALSE, px_ready |-> FALSE, px_i |-> 0,  \* interleaver_px1 and _px2
     px_half |-> Bad,                               \* its first block
     px_internal |-> [j \in 0 .. Pairs - 1 |-> Bad],
     am_diversity_wait |-> 0,
     delayed |-> [f \in 1 .. Delay |-> Bad],        \* ml, mu
     coded |-> [whole |-> "none", age |-> Bad]])    \* viterbi_p1_am, viterbi_p3_am

Verdicts == {"whole", "mixed", "none"}

\* decode_t
Decoders ==
    [started_pm : BOOLEAN, buffer : [0 .. Blocks - 1 -> Ages],
     px_started : BOOLEAN, px_ready : BOOLEAN, px_i : 0 .. Pairs, px_half : Ages,
     px_internal : [0 .. Pairs - 1 -> Ages],
     am_diversity_wait : 0 .. Delay + 1, delayed : [1 .. Delay -> Ages],
     coded : [whole : Verdicts, age : Ages]]

Older(d, n) ==
    [d EXCEPT !.buffer = [b \in DOMAIN @ |-> Aged(@[b], n)],
              !.px_half = Aged(@, n),
              !.px_internal = [j \in DOMAIN @ |-> Aged(@[j], n)],
              !.delayed = [f \in DOMAIN @ |-> Aged(@[f], n)],
              !.coded.age = Aged(@, n)]

Init ==
    /\ mode \in Modes
    /\ now \in 0 .. Symbols * Blocks - 1
    /\ in_buffer = <<>> /\ tuned \in BOOLEAN
    /\ sync_state = "NONE" /\ bc = 0 /\ cfo_wait = 0 /\ offset_history = <<0, 0, 0, 0>>
    /\ decode = NoData
    /\ pushed = {} /\ faulty = FALSE /\ faults = 0

-----------------------------------------------------------------------------
(* The window *)

\* The symbols of the next window, when the one on air has arrived.
Window == SubSeq(Append(in_buffer, now), 1, Symbols)
Full == Len(in_buffer) = Symbols

Unbroken(w) == \A i \in 1 .. Symbols - 1 : w[i + 1] = (w[i] + 1) % (Symbols * Blocks)
IsBlock(w) == w[1] % Symbols = 0 /\ Unbroken(w)
Number(w) == w[1] \div Symbols

\* find_ref_fm and find_ref_am: where the beginning of a block may be seen; in a
\* window with a gap, anywhere or nowhere.
Offsets(w) ==
    IF Unbroken(w) THEN {(Symbols - (w[1] % Symbols)) % Symbols} ELSE -1 .. Symbols - 1

\* Faulty: not modulo the length of a block.
KeepAll(offset) == Symbols - offset

\* acquire_keep_extra, in symbols
Keep(offset) == (Symbols - offset) % Symbols

\* The buffer after acquire_process: the last symbol and those asked for.
Kept(extra) == SubSeq(Append(in_buffer, now), Symbols + 1 - extra, Symbols + 1)

-----------------------------------------------------------------------------
(* decode.c.  Each operator returns the decoder after a block and the      *)
(* frames it gave to frame_push and pids_frame_push, with the channel:     *)
(* "whole" (one frame of the station), "none" (nothing of one) or "mixed". *)

Verdict(right) ==
    IF \A x \in DOMAIN right : right[x] THEN "whole"
    ELSE IF \E x \in DOMAIN right : right[x] THEN "mixed" ELSE "none"

\* interleaver_i reads all of buffer_pm: the blocks of the frame that ends with
\* the latest one.
InterleaverI(d) == [b \in 0 .. Blocks - 1 |-> d.buffer[b] = Blocks - b]

\* decode_process_p1
ProcessP1(d) == {<<"P1", Verdict(InterleaverI(d))>>}

\* interleaver_ii reads block n of buffer_pm: whether that is the latest block.
InterleaverIi(d, n) == d.buffer[n] = 1

\* decode_process_pids: the information in block n.
ProcessPids(d, n) == {<<"PIDS", IF InterleaverIi(d, n) THEN "whole" ELSE "none">>}

\* decode_process_pids_am: the information in the block at hand, which is not
\* interleaved with others.
ProcessPidsAm(age) == {<<"PIDS", IF age = 1 THEN "whole" ELSE "none">>}

\* Faulty: takes a frame from whichever block it begins with.
PushPmAny(d, n, age) ==
    LET e == [d EXCEPT !.buffer[n] = age, !.started_pm = TRUE]
    IN  [decode |-> e,
         frames |-> ProcessPids(e, n)
                    \cup IF e.started_pm /\ n = Blocks - 1 THEN ProcessP1(e) ELSE {}]

\* decode_push_pm: a frame is decoded at its last block, if it was collected
\* from its first one on.
PushPm(d, n, age) ==
    LET e == [d EXCEPT !.buffer[n] = age, !.started_pm = @ \/ n = 0]
    IN  [decode |-> e,
         frames |-> ProcessPids(e, n)
                    \cup IF e.started_pm /\ n = Blocks - 1 THEN ProcessP1(e) ELSE {}]

\* interleaver_iv: the pair of blocks goes in at i, and the frame that comes out
\* has a part of each of the latest Pairs pairs before it.
InterleaverIv(d, pair) ==
    LET i == IF d.px_i = Pairs THEN 0 ELSE d.px_i
    IN  [decode |-> [d EXCEPT !.px_i = i + 1, !.px_ready = @ \/ d.px_i = Pairs,
                              !.px_internal[i] = pair],
         right |-> [j \in 0 .. Pairs |->
                      IF j = Pairs THEN pair = 1
                      ELSE d.px_internal[j] = 3 + 2 * ((Pairs + i - j - 1) % Pairs)]]

\* decode_push_px1 and decode_push_px2
PushPx(d, n, age) ==
    LET e == [d EXCEPT !.px_started = @ \/ n % 2 = 0,
                       !.px_half = IF n % 2 = 0 THEN age ELSE @]
        f == InterleaverIv(e, IF e.px_half = 2 /\ age = 1 THEN 1 ELSE Bad)
    IN  IF e.px_started /\ n % 2 = 1
        THEN [decode |-> f.decode,
              frames |-> IF f.decode.px_ready THEN {<<"P3", Verdict(f.right)>>} ELSE {}]
        ELSE [decode |-> e, frames |-> {}]

\* interleaver_ma1: the frame just collected, with the part of it that was sent
\* with the frame Delay frames before.
InterleaverMa1(d) ==
    LET frame == InterleaverI(d)
        right == [b \in 0 .. Blocks |->
                    IF b < Blocks THEN frame[b] ELSE d.delayed[1] = Delay * Blocks + 1]
    IN  [d EXCEPT !.coded = [whole |-> Verdict(right), age |-> 1],
                  !.delayed = Append(Tail(@), IF Verdict(frame) = "whole" THEN 1 ELSE Bad)]

\* decode_process_p1_p3_am: every block gives a piece of the frame that was
\* interleaved at the end of the frame before, and the last one also the P3 frame.
ProcessP1P3Am(d, n) ==
    LET piece == IF d.coded.age = n + 2 THEN d.coded.whole ELSE "none"
    IN  [decode |-> IF n = Blocks - 1
                    THEN [InterleaverMa1(d) EXCEPT !.am_diversity_wait = IF @ > 0 THEN @ - 1 ELSE 0]
                    ELSE d,
         frames |-> IF d.am_diversity_wait > 0 THEN {}
                    ELSE {<<"P1", piece>>} \cup IF n = Blocks - 1 THEN {<<"P3", piece>>} ELSE {}]

\* decode_push_pl_pu_s_t
PushAm(d, n, age) == ProcessP1P3Am([d EXCEPT !.buffer[n] = age], n)

-----------------------------------------------------------------------------
(* sync.c and acquire_process *)

Noise == faults' = faults + 1 /\ faults < MaxFaults
Clear == faults' = faults

\* The end of sync_process_fm, in SYNC_STATE_FINE.
DecodeFm(d, n, age) ==
    LET pm == PushPm(d, n, age)
        px == PushPx(pm.decode, n, age)
    IN  [decode |-> px.decode, frames |-> pm.frames \cup px.frames]

\* The end of sync_process_am.
DecodeAm(d, n, age) == [PushAm(d, n, age) EXCEPT !.frames = @ \cup ProcessPidsAm(age)]

\* frame_push, fuzzy_pci: the control word of a P1 frame without any data of one
\* does not match, which is how the loss of synchronisation is noticed; that of
\* a mixed one may.
FramePush(frames) ==
    LET p1 == {f \in frames : f[1] = "P1"}
    IN  /\ pushed' = frames
        /\ \/ <<"P1", "none">> \notin p1 /\ sync_state' = "FINE"
           \/ p1 \ {<<"P1", "whole">>} # {} /\ sync_state' = "NONE"

\* A block in SYNC_STATE_FINE is decoded with the number n, and its frames are
\* pushed.
Decoded(d, n, clear) ==
    \E age \in {IF clear /\ IsBlock(Window) /\ Number(Window) = n THEN 1 ELSE Bad}, e \in {d} :
    \E block \in {IF mode = "FM" THEN DecodeFm(e, n, age) ELSE DecodeAm(e, n, age)} :
        /\ decode' = block.decode
        /\ FramePush(block.frames)
        /\ bc' = (n + 1) % Blocks

\* The station has sent another symbol, and perhaps completed a block with it.
Sends(n) == now' = (now + n) % (Symbols * Blocks)

Completed(n) == ((now % Symbols) + n) \div Symbols

\* input_push, acquire_push: the buffer is not full yet.
Symbol ==
    /\ ~Full
    /\ in_buffer' = Append(in_buffer, now)
    /\ Sends(1) /\ decode' = Older(decode, Completed(1))
    /\ pushed' = {}
    /\ UNCHANGED <<mode, tuned, sync_state, bc, cfo_wait, offset_history, faulty, faults>>

Arrives == Full /\ Sends(1) /\ UNCHANGED mode
Decoder == Older(decode, Completed(1))

\* cfo_wait counts below 0, and is not 0 again within years.
Waited == IF cfo_wait > 0 THEN cfo_wait - 1 ELSE Passed

\* acquire_process in SYNC_STATE_FINE.  AM counts cfo_wait down here too.
Fine ==
    /\ sync_state = "FINE" /\ Arrives
    /\ in_buffer' = Kept(0)
    /\ \/ Clear /\ Decoded(Decoder, bc, TRUE) /\ faulty' = faulty
       \/ Noise /\ Decoded(Decoder, bc, FALSE) /\ faulty' = TRUE
    /\ cfo_wait' = IF mode = "AM" THEN Waited ELSE cfo_wait
    /\ UNCHANGED <<tuned, offset_history>>

\* decode_ref_fm: the references of the block can be read.
Readable == tuned /\ IsBlock(Window)

\* find_block_am: the number of the block, in the history, or nothing at all.
FindBlockAm(clear) ==
    IF clear /\ Readable THEN Append(Tail(offset_history), Number(Window)) ELSE <<0, 0, 0, 0>>

Coarse == sync_state' = "COARSE" /\ decode' = Decoder /\ pushed' = {} /\ UNCHANGED <<bc, faulty>>

\* Something was lost right after the block.
Torn == now # (Window[Symbols] + 1) % (Symbols * Blocks)

\* Faulty: keeps the number of the block it had.
SyncFmKeepsBc ==
    /\ Readable /\ Clear
    /\ Decoded(DecodeReset(Decoder), bc, TRUE)
    /\ faulty' = Torn /\ in_buffer' = Kept(0)
    /\ UNCHANGED <<tuned, cfo_wait, offset_history>>

\* Enough references agree on the number of the block: this is one.
SyncFm ==
    /\ Readable /\ Clear
    /\ Decoded(DecodeReset(Decoder), Number(Window), TRUE)
    /\ faulty' = Torn /\ in_buffer' = Kept(0)
    /\ UNCHANGED <<tuned, cfo_wait, offset_history>>

\* They are there, but do not agree.
DisagreeFm ==
    /\ Readable /\ Noise /\ Coarse
    /\ in_buffer' = Kept(0)
    /\ UNCHANGED <<tuned, cfo_wait, offset_history>>

\* detect_cfo
DetectCfo ==
    /\ cfo_wait = 0 /\ Coarse
    /\ \/ /\ Clear /\ ~Readable
          /\ \E offset \in Offsets(Window) :
                IF offset < 0 THEN in_buffer' = Kept(0) /\ UNCHANGED <<tuned, cfo_wait>>
                ELSE in_buffer' = Kept(Keep(offset)) /\ tuned' = TRUE /\ cfo_wait' = CfoWait
       \/ Noise /\ in_buffer' = Kept(0) /\ UNCHANGED <<tuned, cfo_wait>>
    /\ UNCHANGED offset_history

\* Faulty: does not count.
WaitCfoStays ==
    /\ cfo_wait > 0 /\ Coarse
    /\ \/ Clear /\ ~Readable
       \/ Noise
    /\ in_buffer' = Kept(0)
    /\ UNCHANGED <<tuned, cfo_wait, offset_history>>

WaitCfo ==
    /\ cfo_wait > 0 /\ Coarse
    /\ \/ Clear /\ ~Readable
       \/ Noise
    /\ in_buffer' = Kept(0) /\ cfo_wait' = cfo_wait - 1
    /\ UNCHANGED <<tuned, offset_history>>

\* acquire_process and sync_process_fm without synchronisation
CoarseFm ==
    /\ mode = "FM" /\ sync_state # "FINE" /\ Arrives
    /\ SyncFm \/ DisagreeFm \/ DetectCfo \/ WaitCfo

\* The block numbers that AM waits for: 5, 6, 7 and 0.
Expected == <<Blocks - 3, Blocks - 2, Blocks - 1, 0>>

\* sync_process_am looks for the beginning of a block, unless it has done so
\* lately, and for the numbers of four blocks in a row; acquire_process
\* corrects the carrier each time.
CoarseAm ==
    /\ mode = "AM" /\ sync_state # "FINE" /\ Arrives
    /\ tuned' = TRUE
    /\ \E clear \in BOOLEAN :
          LET history == FindBlockAm(clear)
          IN  /\ IF clear THEN Clear ELSE Noise
              /\ \E offset \in IF clear /\ tuned THEN Offsets(Window) ELSE {-1} :
                    /\ in_buffer' = Kept(IF cfo_wait = 0 /\ offset > 0 THEN Keep(offset) ELSE 0)
                    /\ cfo_wait' = IF cfo_wait # 0 THEN Waited
                                   ELSE IF offset > 0 THEN CfoWait ELSE 0
              /\ IF history = Expected
                 THEN /\ offset_history' = <<0, 0, 0, 0>>
                      /\ Decoded(DecodeReset(Decoder), 0, TRUE) /\ faulty' = Torn
                 ELSE offset_history' = history /\ Coarse

-----------------------------------------------------------------------------
(* What happens to the samples, and nrsc5_reset *)

\* Samples never arrive.
Lost ==
    /\ Noise
    /\ \E n \in Losses :
          Sends(n) /\ decode' = Older(decode, Completed(n))
    /\ faulty' = TRUE /\ pushed' = {}
    /\ UNCHANGED <<mode, in_buffer, tuned, sync_state, bc, cfo_wait, offset_history>>

\* sync_reset: not the number of the block, which the next synchronisation sets.
SyncReset == cfo_wait' = 0 /\ offset_history' = <<0, 0, 0, 0>> /\ UNCHANGED bc

\* input_reset, for another station: nothing in the buffers is of it.
InputReset ==
    /\ Noise
    /\ in_buffer' = <<>> /\ tuned' \in BOOLEAN
    /\ sync_state' = "NONE" /\ SyncReset
    /\ decode' = DecodeReset(Older(decode, MaxAge))
    /\ now' \in 0 .. Symbols * Blocks - 1
    /\ pushed' = {}
    /\ UNCHANGED <<mode, faulty>>

Receive == Symbol \/ Fine \/ CoarseFm \/ CoarseAm
Next == Receive \/ Lost \/ InputReset

Spec == Init /\ [][Next]_vars

\* Samples keep coming.
FairSpec == Spec /\ WF_vars(Receive)

-----------------------------------------------------------------------------
(* Properties *)

\* Every variable has the type the code gives it; acquire_process always
\* leaves room in its buffer, without which input_push would loop for ever.
TypeOK ==
    /\ mode \in Modes /\ now \in 0 .. Symbols * Blocks - 1
    /\ in_buffer \in Seq(0 .. Symbols * Blocks - 1) /\ Len(in_buffer) <= Symbols
    /\ tuned \in BOOLEAN /\ sync_state \in {"NONE", "COARSE", "FINE"}
    /\ bc \in 0 .. Blocks - 1 /\ cfo_wait \in Passed .. CfoWait
    /\ offset_history \in Seq(0 .. Blocks - 1) /\ Len(offset_history) = 4
    /\ decode \in Decoders
    /\ pushed \subseteq {"P1", "P3", "PIDS"} \X Verdicts
    /\ faulty \in BOOLEAN /\ faults \in 0 .. MaxFaults

\* The next window will be block bc of the station, and no symbol of it is missing.
InStep ==
    LET first == (now + Symbols * Blocks - Len(in_buffer)) % (Symbols * Blocks)
    IN  /\ first = bc * Symbols
        /\ \A i \in 1 .. Len(in_buffer) : in_buffer[i] = first + i - 1

\* While it believes to be synchronised, and nothing was lost since, it is:
\* whatever offset it started from, and whatever was in the buffer.
Synchronised == sync_state = "FINE" /\ ~faulty => InStep

\* Every frame handed on is one frame of the station: no block of it is
\* missing, from before the synchronisation, or of a frame before, in the
\* interleavers that have only begun to fill as well.
FramesWhole == ~faulty => \A f \in pushed : f[2] = "whole"

\* Synchronisation is not lost for a reason of the receiver's own, like a frame
\* it did not have in full.
KeepsSync ==
    [][sync_state = "FINE" /\ sync_state' = "NONE" => faulty \/ faults' > faults]_vars

\* Once the signal is clear, the receiver is synchronised for good, and frames
\* are handed on time and again.
Recovers(m) ==
    mode = m => /\ <>[](sync_state = "FINE" /\ InStep)
                /\ []<>({"P1", "P3"} \subseteq {f[1] : f \in pushed})
Resynchronises == Recovers("FM")

\* "Wait until the buffers have cleared before measuring again." (sync.c):
\* a receiver that is not synchronised does measure again.
MeasuresAgain == []<>(sync_state = "FINE" \/ cfo_wait = 0)
=============================================================================
