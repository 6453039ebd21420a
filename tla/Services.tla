------------------------------ MODULE Services ------------------------------
(***************************************************************************)
(* What a station says besides its audio, and how long it holds: the       *)
(* station information of Pids, and the images of HereImages that arrive   *)
(* in the packets of FixedData.  When the receiver finds the signal again  *)
(* it resets the decoder and the frames; an application that tunes to      *)
(* another station resets what is behind them as well.                     *)
(***************************************************************************)
EXTENDS Pids, FixedData

CONSTANTS
    MaxDamaged,     \* bound: widths damaged
    MaxFaults,      \* bound: losses of frames
    MaxResets,      \* bound: losses of synchronisation, changes of station
    MaxLost         \* bound: frames lost at once

ASSUME ServicesAssumption == \A bound \in {MaxDamaged, MaxFaults, MaxResets, MaxLost} : bound \in Nat

VARIABLES
    damaged, faults, resets     \* history: how many so far

counted == <<damaged, faults, resets>>
vars == <<pidsVars, hereVars, fixedVars, counted>>

Init ==
    /\ PidsStart /\ HereStart /\ damaged = 0 /\ faults = 0 /\ resets = 0
    /\ IF "images" \in lineup THEN FixedStart
       ELSE station = 1 /\ at = 0 /\ ccc_at = 0 /\ fixed = NoFixed

\* pids_frame_push
Information == PidsFrames /\ images' = <<>> /\ UNCHANGED <<here, fixedVars, counted>>

\* frame_push, with the right width.
Frame == "images" \in lineup /\ Pdu(Width) /\ UNCHANGED <<pidsVars, counted>>

News == (\E k \in DOMAIN version : Changes(k)) /\ images' = <<>> /\ UNCHANGED <<here, fixedVars, counted>>

Fault == faults < MaxFaults /\ faults' = faults + 1 /\ UNCHANGED <<damaged, resets>>
Reset == resets < MaxResets /\ resets' = resets + 1 /\ UNCHANGED <<damaged, faults>>

\* A frame whose last byte is wrong: no width, or another one.
DamagedFrame ==
    /\ damaged < MaxDamaged /\ damaged' = damaged + 1
    /\ "images" \in lineup
    /\ fixed.sync_count < 2
    /\ \E width \in {0, Width + 1} : Pdu(width)
    /\ UNCHANGED <<pidsVars, faults, resets>>

\* Frames that never arrive, while the receiver stays synchronised.
LostFrames ==
    /\ Fault /\ "images" \in lineup
    /\ \E n \in 1 .. MaxLost : FrameSent(n)
    /\ images' = <<>> /\ UNCHANGED <<pidsVars, here, fixed>>

\* sync_process_fm and _am find the signal again: decode_reset and frame_reset.
Resync ==
    /\ Reset
    /\ PidsReset /\ UNCHANGED version
    /\ fixed' = FrameReset(fixed)
    /\ \E n \in 0 .. MaxLost : IF "images" \in lineup THEN FrameSent(n) ELSE UNCHANGED airVars
    /\ images' = <<>> /\ UNCHANGED here

\* nrsc5_set_frequency: input_reset and output_reset; another station.
Retune ==
    /\ Reset
    /\ PidsReset
    /\ version' = [k \in DOMAIN version |-> IF version[k] < Versions THEN version[k] + 1 ELSE version[k]]
    /\ fixed' = FrameReset(fixed)
    /\ station' = station + 1
    /\ UNCHANGED <<at, ccc_at>>
    /\ here' = HereReset /\ images' = <<>>

Next == Information \/ Frame \/ News \/ DamagedFrame \/ LostFrames \/ Resync \/ Retune

Spec == Init /\ [][Next]_vars

\* The station repeats every message and image, and not all of them are lost.
FairSpec ==
    /\ Spec
    /\ []<><<"images" \in lineup => Frame>>_vars
    /\ \A k \in Sequenced, f \in Frames : []<>(k \in lineup => latest = <<k, f>>)

-----------------------------------------------------------------------------
\* Every variable has the type the code gives it.
TypeOK ==
    /\ PidsTypeOK /\ HereTypeOK /\ FixedTypeOK
    /\ damaged \in 0 .. MaxDamaged /\ faults \in 0 .. MaxFaults /\ resets \in 0 .. MaxResets

\* An image is never put together from the packets of two, or of two stations,
\* whatever was lost between them; but for one thing: if what was lost in it are
\* as many packets as there are numbers, once or several times.
ImagesWhole ==
    \A i \in DOMAIN images :
        /\ images[i].missed % PacketSeqs = 0
        /\ images[i].missed = 0 =>
              WholeImage(images[i].parts) /\ images[i].parts[1].station = station

\* The same wrong width came three times, and is kept until the frames are reset.
WrongWidth == fixed.sync_count = 2 /\ fixed.sync_width # Width

\* Wherever the frames begin and whatever was lost, the width, the blocks, the
\* packets and the marker are found again, unless a wrong width was taken.
ImagesResume == []<>("images" \in lineup => images # <<>> \/ WrongWidth)

\* What the station repeats is shown in the end: the texts whatever was lost, the
\* images whatever was lost or damaged but for a wrong width that was taken.
RepeatedIsShown == CurrentTexts /\ ImagesResume
=============================================================================
