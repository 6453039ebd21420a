---------------------------- MODULE SessionProofs ----------------------------
(***************************************************************************)
(* Proofs about Session, for every kind of device, number of gains and way *)
(* of failing.  The types and the place of the mutex come first; the       *)
(* quietness of a halted session then follows from an invariant that says  *)
(* what stopped, worker_stopped and halted mean for the worker.            *)
(***************************************************************************)
EXTENDS Session, TLAPS

\* A gain is tried only while there is one left to try.
TInv == TypeOK /\ (worker = "measure" => low <= high)

LEMMA TypeInit == Init => TInv
<1> SUFFICES ASSUME Init PROVE TInv
  OBVIOUS
<1>1. gain \in NoGain .. Gains - 1 /\ clips \in 0 .. Gains
  BY SessionAssumption DEF Init, NoGain
<1>2. low \in 0 .. Gains /\ high \in -1 .. Gains - 1 /\ best \in 0 .. Gains - 1
  BY SessionAssumption DEF Init
<1> QED
  BY <1>1, <1>2, Zenon DEF Init, TInv, TypeOK, Locked

\* No step of the worker takes a variable out of its type or leaves the mutex
\* in the wrong hands.
LEMMA WorkerType == TInv /\ Worker => TInv'
<1> SUFFICES ASSUME TInv, Worker PROVE TInv'
  OBVIOUS
<1> USE SessionAssumption DEF TInv, TypeOK, Locked, Nobody, NoGain, flags, search, fixed
<1>1. ASSUME NEW from \in {"woken", "back"}, NEW to \in {"loop", "judge"},
             WorkerLocks(from, to)
      PROVE  TInv'
  BY <1>1 DEF WorkerLocks
<1>2. CASE LoopIdles
  BY <1>2 DEF LoopIdles
<1>3. CASE LoopRuns
  <2>1. /\ low' \in 0 .. Gains /\ high' \in -1 .. Gains - 1
        /\ best' \in 0 .. Gains - 1
    BY <1>3 DEF LoopRuns
  <2>2. waiters' \subseteq {"worker", "app"}
    BY <1>3 DEF LoopRuns
  <2>3. /\ worker' \in {"gain", "read"}
        /\ mutex' = IF worker' \in Locked THEN "worker" ELSE Nobody
    BY <1>3 DEF LoopRuns
  <2> QED
    BY <1>3, <2>1, <2>2, <2>3, Zenon DEF LoopRuns
<1>4. CASE LoopEnds
  BY <1>4 DEF LoopEnds
<1>5. CASE TryGain
  BY <1>5 DEF TryGain
<1>6. CASE Measure
  BY <1>6 DEF Measure
<1>7. CASE GainFails
  BY <1>7 DEF GainFails
<1>8. CASE GainFound
  <2>1. gain' \in NoGain .. Gains - 1
    BY <1>8 DEF GainFound
  <2>2. worker' = "read" /\ mutex' = "nobody"
    BY <1>8 DEF GainFound
  <2> QED
    BY <1>8, <2>1, <2>2 DEF GainFound
<1>9. CASE Transfer \/ Chunk \/ NoChunk \/ Pushed
  <2>1. err' \in BOOLEAN
    BY <1>9 DEF Transfer, Chunk, NoChunk, Pushed
  <2>2. worker' \in {"read", "push", "back"} /\ worker \in {"read", "push"}
    BY <1>9 DEF Transfer, Chunk, NoChunk, Pushed
  <2>3. UNCHANGED <<flags, auto_gain, gain, mutex, waiters, app, search, fixed,
                    device, halted>>
    BY <1>9, Zenon DEF Transfer, Chunk, NoChunk, Pushed
  <2> QED
    BY <2>1, <2>2, <2>3
<1>10. CASE JudgeRead
  BY <1>10 DEF JudgeRead
<1>11. CASE ReportLostDevice
  BY <1>11 DEF ReportLostDevice
<1> QED
  BY <1>1, <1>2, <1>3, <1>4, <1>5, <1>6, <1>7, <1>8, <1>9, <1>10, <1>11
     DEF Worker, Loop, AutoGain, Read

\* Nor does a call of the application.
LEMMA AppType == TInv /\ App => TInv'
<1> SUFFICES ASSUME TInv, App PROVE TInv'
  OBVIOUS
<1> USE SessionAssumption DEF TInv, TypeOK, Locked, Nobody, NoGain, flags, search, fixed
<1>1. CASE Call
  BY <1>1 DEF Call
<1>2. CASE Start \/ Stop \/ Close
  <2>1. /\ app' \in {"idle", "stopping", "closing"} /\ waiters' = {}
        /\ closed' \in BOOLEAN /\ stopped' \in BOOLEAN /\ halted' \in BOOLEAN
        /\ UNCHANGED <<worker_stopped, auto_gain, gain, mutex, worker, err, low, high, best,
                       kind, clips, device>>
    BY <1>2, Zenon DEF Start, Stop, Close, Signals
  <2>2. /\ app' \in {"idle", "start", "stop", "stopping", "close", "closing", "closed", "retuning"}
        /\ waiters' \subseteq {"worker", "app"}
    BY <2>1
  <2> QED
    BY <2>1, <2>2
<1>3. CASE StopWaits \/ CloseJoins
  <2>1. /\ app' \in {app, "idle", "closed"} /\ waiters' \in {waiters, waiters \cup {"app"}}
        /\ halted' \in BOOLEAN
        /\ UNCHANGED <<flags, auto_gain, gain, mutex, worker, err, search, fixed, device>>
    BY <1>3, Zenon DEF StopWaits, CloseJoins
  <2>2. /\ app' \in {"idle", "start", "stop", "stopping", "close", "closing", "closed", "retuning"}
        /\ waiters' \subseteq {"worker", "app"}
    BY <2>1
  <2> QED
    BY <2>1, <2>2
<1>4. CASE Retune
  BY <1>4 DEF Retune
<1>5. CASE Retuned
  <2>1. gain' \in NoGain .. Gains - 1
    BY <1>5 DEF Retuned
  <2>2. /\ app' = "idle"
        /\ UNCHANGED <<flags, auto_gain, mutex, waiters, worker, err, search, fixed, device, halted>>
    BY <1>5, Zenon DEF Retuned
  <2> QED
    BY <2>1, <2>2
<1>6. CASE SetGain \/ SetAutoGain
  <2>1. gain' \in NoGain .. Gains - 1 /\ auto_gain' \in BOOLEAN
    BY <1>6 DEF SetGain, SetAutoGain
  <2>2. UNCHANGED <<flags, mutex, waiters, worker, app, err, search, fixed, device, halted>>
    BY <1>6, Zenon DEF SetGain, SetAutoGain
  <2> QED
    BY <2>1, <2>2
<1> QED
  BY <1>1, <1>2, <1>3, <1>4, <1>5, <1>6 DEF App

LEMMA TypeStep == TInv /\ [Next]_vars => TInv'
<1> SUFFICES ASSUME TInv, [Next]_vars PROVE TInv'
  OBVIOUS
<1>1. CASE Worker
  BY <1>1, WorkerType
<1>2. CASE App
  BY <1>2, AppType
<1>3. CASE Vanish
  BY <1>3 DEF Vanish, TInv, TypeOK, Locked, flags, search, fixed
<1>4. CASE UNCHANGED vars
  BY <1>4 DEF vars, TInv, TypeOK, Locked, flags, search, fixed
<1> QED
  BY <1>1, <1>2, <1>3, <1>4 DEF Next

\* Types and the mutex: the worker holds worker_mutex in its loop, while it
\* looks for a gain and in the LOST_DEVICE callback, and nowhere else.
THEOREM TypeCorrect == Spec => []TypeOK
<1>1. Spec => []TInv
  BY TypeInit, TypeStep, PTL DEF Spec
<1>2. TInv => TypeOK
  BY DEF TInv
<1> QED
  BY <1>1, <1>2, PTL

-----------------------------------------------------------------------------
(* What the three flags say about the worker *)

QuietInv ==
    /\ worker_stopped => worker \notin Busy
    /\ stopped => app = "stopping" \/ worker \notin Busy
    /\ halted => stopped /\ worker \notin Busy
    /\ worker = "report" => stopped
    /\ app \in {"stopping", "retuning"} => stopped

LEMMA QuietInit == Init => QuietInv
BY DEF Init, QuietInv, Busy

\* The worker becomes busy only in LoopRuns, which finds stopped false, and
\* sets stopped itself only where it is through with the samples.
LEMMA WorkerQuiet == TInv /\ QuietInv /\ Worker => QuietInv'
<1> SUFFICES ASSUME TInv, QuietInv, Worker PROVE QuietInv'
  OBVIOUS
<1> USE DEF TInv, TypeOK, QuietInv, Busy, Locked, flags, search, fixed
<1>1. CASE WorkerLocks("woken", "loop") \/ WorkerLocks("back", "judge")
  BY <1>1 DEF WorkerLocks
<1>2. CASE LoopIdles \/ LoopRuns \/ LoopEnds
  BY <1>2 DEF LoopIdles, LoopRuns, LoopEnds
<1>3. CASE AutoGain
  BY <1>3 DEF AutoGain, TryGain, Measure, GainFails, GainFound
<1>4. CASE Transfer \/ Chunk \/ NoChunk \/ Pushed
  <2>1. worker \in Busy /\ worker' \in Busy
    BY <1>4 DEF Transfer, Chunk, NoChunk, Pushed
  <2>2. UNCHANGED <<stopped, worker_stopped, app, halted>>
    BY <1>4, Zenon DEF Transfer, Chunk, NoChunk, Pushed
  <2> QED
    BY <2>1, <2>2
<1>5. CASE JudgeRead \/ ReportLostDevice
  BY <1>5 DEF JudgeRead, ReportLostDevice
<1> QED
  BY <1>1, <1>2, <1>3, <1>4, <1>5 DEF Worker, Loop, Read

\* nrsc5_stop returns only after worker_stopped was seen; nrsc5_start, which
\* clears stopped, cannot run in the middle of the worker's report.
LEMMA AppQuiet == TInv /\ QuietInv /\ App => QuietInv'
<1> SUFFICES ASSUME TInv, QuietInv, App PROVE QuietInv'
  OBVIOUS
<1> USE DEF TInv, TypeOK, QuietInv, Busy, Locked, flags, search, fixed
<1>1. CASE Call
  BY <1>1 DEF Call
<1>2. CASE Start \/ Stop \/ Close
  BY <1>2 DEF Start, Stop, Close, Signals, Nobody
<1>3. CASE StopWaits
  <2>1. CASE stopped = worker_stopped
    <3>1. stopped /\ worker_stopped /\ worker \notin Busy
      BY <1>3, <2>1 DEF StopWaits
    <3>2. UNCHANGED <<closed, stopped, worker_stopped, worker>> /\ app' = "idle"
      BY <1>3, <2>1 DEF StopWaits
    <3> QED
      BY <3>1, <3>2
  <2>2. CASE stopped # worker_stopped
    <3>1. UNCHANGED <<stopped, worker_stopped, worker, app, halted>>
      BY <1>3, <2>2 DEF StopWaits
    <3> QED
      BY <3>1
  <2> QED
    BY <2>1, <2>2
<1>4. CASE CloseJoins \/ Retune \/ Retuned
  BY <1>4 DEF CloseJoins, Retune, Retuned
<1>5. CASE SetGain \/ SetAutoGain
  BY <1>5 DEF SetGain, SetAutoGain
<1> QED
  BY <1>1, <1>2, <1>3, <1>4, <1>5 DEF App

LEMMA QuietStep == TInv /\ QuietInv /\ [Next]_vars => QuietInv'
<1> SUFFICES ASSUME TInv, QuietInv, [Next]_vars PROVE QuietInv'
  OBVIOUS
<1>1. CASE Worker
  BY <1>1, WorkerQuiet
<1>2. CASE App
  BY <1>2, AppQuiet
<1>3. CASE Vanish
  BY <1>3 DEF Vanish, QuietInv, Busy, flags, search, fixed
<1>4. CASE UNCHANGED vars
  BY <1>4 DEF vars, QuietInv, Busy, flags, search, fixed
<1> QED
  BY <1>1, <1>2, <1>3, <1>4 DEF Next

LEMMA QuietAlways == Spec => []QuietInv
<1>1. Spec => []TInv
  BY TypeInit, TypeStep, PTL DEF Spec
<1> QED
  BY <1>1, QuietInit, QuietStep, PTL DEF Spec

\* After nrsc5_stop has returned, or after LOST_DEVICE, the worker leaves the
\* samples alone until nrsc5_start.
THEOREM StopQuiesces == Spec => []HaltedIsQuiet
<1>1. QuietInv => HaltedIsQuiet
  BY DEF QuietInv, HaltedIsQuiet
<1> QED
  BY <1>1, QuietAlways, PTL

\* nrsc5_set_frequency and nrsc5_reset have the input and output to
\* themselves, although they look at stopped without the mutex.
THEOREM ResetIsExclusive == Spec => []RetunesAlone
<1>1. QuietInv => RetunesAlone
  BY DEF QuietInv, RetunesAlone
<1> QED
  BY <1>1, QuietAlways, PTL

-----------------------------------------------------------------------------
(* The binary search of do_auto_gain *)

\* The lowest gain that overloads the tuner stays between low and high + 1,
\* and best is the last gain below low.
SearchInv ==
    worker \in {"gain", "measure"} =>
        /\ low <= clips /\ clips <= high + 1
        /\ best = IF low = 0 THEN 0 ELSE low - 1

LEMMA SearchInit == Init => SearchInv
BY DEF Init, SearchInv

\* One measurement keeps what is known of the overload inside the interval.
LEMMA MeasureNarrows == TInv /\ SearchInv /\ Measure => SearchInv'
<1> SUFFICES ASSUME TInv, SearchInv, Measure PROVE SearchInv'
  OBVIOUS
<1> DEFINE mid == (low + high) \div 2
<1>1. /\ low \in Nat /\ high \in Int /\ low <= high /\ clips \in Nat
      /\ best \in Nat
  BY SessionAssumption DEF Measure, TInv, TypeOK
<1>2. mid \in Nat /\ low <= mid /\ mid <= high
  BY <1>1
<1>3. /\ low' = (IF mid < clips THEN mid + 1 ELSE low)
      /\ high' = (IF mid < clips THEN high ELSE mid - 1)
      /\ best' = (IF mid < clips \/ high' = -1 THEN mid ELSE best)
      /\ clips' = clips
  BY DEF Measure, fixed
<1>4. /\ low <= clips /\ clips <= high + 1
      /\ best = IF low = 0 THEN 0 ELSE low - 1
  BY DEF SearchInv, Measure
<1> HIDE DEF mid
<1>5. CASE mid < clips
  BY <1>1, <1>2, <1>3, <1>4, <1>5 DEF SearchInv
<1>6. CASE ~(mid < clips)
  BY <1>1, <1>2, <1>3, <1>4, <1>6 DEF SearchInv
<1> QED
  BY <1>5, <1>6

LEMMA SearchStep == TInv /\ SearchInv /\ [Next]_vars => SearchInv'
<1> SUFFICES ASSUME TInv, SearchInv, [Next]_vars PROVE SearchInv'
  OBVIOUS
<1>1. CASE Measure
  BY <1>1, MeasureNarrows
<1>2. CASE LoopRuns
  <2>1. CASE worker' = "gain"
    BY <1>2, <2>1, SessionAssumption DEF LoopRuns, TInv, TypeOK, SearchInv, fixed
  <2>2. CASE worker' # "gain"
    BY <1>2, <2>2 DEF LoopRuns, SearchInv
  <2> QED
    BY <2>1, <2>2
<1>3. CASE TryGain
  BY <1>3 DEF TryGain, SearchInv, search, fixed
<1>4. CASE GainFails \/ GainFound
  BY <1>4 DEF GainFails, GainFound, SearchInv, search, fixed
<1>5. CASE Read
  BY <1>5 DEF Read, WorkerLocks, Transfer, Chunk, NoChunk, Pushed, JudgeRead,
              ReportLostDevice, SearchInv
<1>6. CASE WorkerLocks("woken", "loop") \/ LoopIdles \/ LoopEnds
  BY <1>6 DEF WorkerLocks, LoopIdles, LoopEnds, SearchInv
<1>7. CASE App
  <2>1. UNCHANGED <<worker, search, fixed>>
    BY <1>7, Zenon
       DEF App, Call, Start, Stop, Close, Signals, StopWaits, CloseJoins,
           Retune, Retuned, SetGain, SetAutoGain
  <2> QED
    BY <2>1 DEF search, fixed, SearchInv
<1>8. CASE Vanish \/ UNCHANGED vars
  <2>1. UNCHANGED <<worker, search, fixed>>
    BY <1>8 DEF Vanish, vars
  <2> QED
    BY <2>1 DEF search, fixed, SearchInv
<1> QED
  BY <1>1, <1>2, <1>3, <1>4, <1>5, <1>6, <1>7, <1>8
     DEF Next, Worker, Loop, AutoGain

\* Whatever the number of gains and wherever the tuner overloads, the search
\* ends with the highest gain that does not overload it, or the lowest gain.
THEOREM AutoGainIsBest == Spec => GainIsBest
<1>1. Spec => [](TInv /\ SearchInv)
  BY TypeInit, TypeStep, SearchInit, SearchStep, PTL DEF Spec
<1>2. TInv /\ SearchInv /\ [Next]_vars =>
        [worker = "gain" /\ worker' = "read" =>
           gain' = IF clips = 0 THEN 0 ELSE clips - 1]_vars
  <2> SUFFICES ASSUME TInv, SearchInv, [Next]_vars,
                      worker = "gain", worker' = "read"
               PROVE  gain' = IF clips = 0 THEN 0 ELSE clips - 1
    OBVIOUS
  <2>1. ~(App \/ Vanish \/ UNCHANGED vars)
    BY Zenon
       DEF vars, App, Call, Start, Stop, Close, Signals, StopWaits, CloseJoins,
           Retune, Retuned, SetGain, SetAutoGain, Vanish
  <2>2. GainFound
    BY <2>1 DEF Next, Worker, Loop, AutoGain, Read, WorkerLocks, LoopIdles,
                LoopRuns, LoopEnds, TryGain, Measure, GainFails, Transfer,
                Chunk, NoChunk, Pushed, JudgeRead, ReportLostDevice
  <2>3. gain' = best /\ low > high
    BY <2>2 DEF GainFound
  <2>4. low \in Nat /\ high \in Int /\ clips \in Nat
    BY SessionAssumption DEF TInv, TypeOK
  <2> QED
    BY <2>3, <2>4 DEF SearchInv
<1> QED
  BY <1>1, <1>2, PTL DEF Spec, GainIsBest
=============================================================================
