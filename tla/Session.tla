------------------------------- MODULE Session -------------------------------
(***************************************************************************)
(* An nrsc5 session, src/src/nrsc5.c: the worker thread that reads a       *)
(* dongle, an rtl_tcp socket or a file and pushes the samples through the  *)
(* demodulator, and the one application thread that starts, stops, retunes *)
(* and closes it.  They share closed, stopped and worker_stopped under     *)
(* worker_mutex and worker_cond, but nrsc5_set_frequency, nrsc5_reset and  *)
(* nrsc5_set_gain look at stopped without the mutex.                       *)
(***************************************************************************)
EXTENDS Integers

CONSTANTS
    Kinds,          \* what may be opened: "dongle", "rtltcp", "file"
    Gains,          \* gain_count: the tuner's gains are 0 .. Gains - 1 here
    DeviceMayGo,    \* the device, peer or file may come to its end
    TunerFails      \* set_tuner_gain fails once the device is gone

ASSUME SessionAssumption ==
    /\ Kinds \subseteq {"dongle", "rtltcp", "file"}
    /\ Gains \in Nat \ {0}
    /\ DeviceMayGo \in BOOLEAN /\ TunerFails \in BOOLEAN

NoGain == -1
Nobody == "nobody"

VARIABLES
    kind,           \* what is open
    closed, stopped, worker_stopped,
    auto_gain, gain,
    mutex,          \* who holds worker_mutex
    waiters,        \* who waits for worker_cond
    worker,         \* where the worker thread is
    app,            \* which call the application is in
    err,            \* what the last read came to, for the worker
    low, high, best,\* the binary search of do_auto_gain
    clips,          \* the lowest gain that overloads the tuner
    device,         \* "alive" or "gone"
    halted          \* stop returned or LOST_DEVICE was sent since the start

flags == <<closed, stopped, worker_stopped>>
search == <<low, high, best>>
fixed == <<kind, clips>>
vars == <<flags, auto_gain, gain, mutex, waiters, worker, app, err, search,
          fixed, device, halted>>

HasTuner == kind # "file"

-----------------------------------------------------------------------------
(* nrsc5_init *)

Init ==
    /\ kind \in Kinds
    /\ closed = FALSE /\ stopped = TRUE /\ worker_stopped = TRUE
    /\ auto_gain = TRUE /\ gain = NoGain
    /\ mutex = Nobody /\ waiters = {}
    /\ worker = "woken" /\ app = "idle"
    /\ err = FALSE
    /\ low = 0 /\ high = 0 /\ best = 0
    /\ clips \in 0 .. Gains
    /\ device = "alive" /\ halted = TRUE

-----------------------------------------------------------------------------
(* worker_thread *)

\* pthread_mutex_lock, also on the way out of pthread_cond_wait.
WorkerLocks(from, to) ==
    /\ worker = from /\ "worker" \notin waiters
    /\ mutex = Nobody /\ mutex' = "worker" /\ worker' = to
    /\ UNCHANGED <<flags, auto_gain, gain, waiters, app, err, search, fixed,
                   device, halted>>

\* The worker acknowledges a stop or has nothing to do, and waits.
LoopIdles ==
    /\ worker = "loop" /\ ~closed /\ stopped
    /\ worker_stopped' = TRUE
    /\ waiters' = IF worker_stopped THEN waiters \cup {"worker"} ELSE {"worker"}
    /\ worker' = "woken" /\ mutex' = Nobody
    /\ UNCHANGED <<closed, stopped, auto_gain, gain, app, err, search, fixed,
                   device, halted>>

\* The worker acknowledges a start, or goes on reading.
LoopRuns ==
    /\ worker = "loop" /\ ~closed /\ ~stopped
    /\ worker_stopped' = FALSE
    /\ waiters' = IF worker_stopped THEN {} ELSE waiters
    /\ IF worker_stopped /\ HasTuner /\ auto_gain /\ gain < 0
       THEN /\ worker' = "gain" /\ UNCHANGED mutex
            /\ low' = 0 /\ high' = Gains - 1 /\ best' = 0
       ELSE worker' = "read" /\ mutex' = Nobody /\ UNCHANGED search
    /\ UNCHANGED <<closed, stopped, auto_gain, gain, app, err, fixed, device,
                   halted>>

\* Faulty: the worker ends with the mutex locked.
LoopEndsLocked ==
    /\ worker = "loop" /\ closed
    /\ worker' = "gone"
    /\ UNCHANGED <<flags, auto_gain, gain, mutex, waiters, app, err, search,
                   fixed, device, halted>>

LoopEnds ==
    /\ worker = "loop" /\ closed
    /\ worker' = "gone" /\ mutex' = Nobody
    /\ UNCHANGED <<flags, auto_gain, gain, waiters, app, err, search, fixed,
                   device, halted>>

Loop == WorkerLocks("woken", "loop") \/ LoopIdles \/ LoopRuns \/ LoopEnds

-----------------------------------------------------------------------------
(* do_auto_gain, all of it with the mutex held *)

\* A gain that cannot be set is tried again, for as long as it takes.
TryGain ==
    /\ worker = "gain" /\ low <= high
    /\ IF device = "gone" /\ TunerFails
       THEN UNCHANGED worker ELSE worker' = "measure"
    /\ UNCHANGED <<flags, auto_gain, gain, mutex, waiters, app, err, search,
                   fixed, device, halted>>

\* Faulty: the last gain tried is taken for the best.
MeasureLast ==
    /\ worker = "measure" /\ device = "alive"
    /\ worker' = "gain"
    /\ LET mid == (low + high) \div 2
       IN  /\ low' = IF mid < clips THEN mid + 1 ELSE low
           /\ high' = IF mid < clips THEN high ELSE mid - 1
           /\ best' = mid
    /\ UNCHANGED <<flags, auto_gain, gain, mutex, waiters, app, err, fixed,
                   device, halted>>

\* The samples taken with the gain in the middle narrow the search.
Measure ==
    /\ worker = "measure" /\ device = "alive"
    /\ worker' = "gain"
    /\ LET mid == (low + high) \div 2
       IN  /\ low' = IF mid < clips THEN mid + 1 ELSE low
           /\ high' = IF mid < clips THEN high ELSE mid - 1
           /\ best' = IF mid < clips \/ high' = -1 THEN mid ELSE best
    /\ UNCHANGED <<flags, auto_gain, gain, mutex, waiters, app, err, fixed,
                   device, halted>>

\* The samples cannot be read: the worker stops, and no event is sent.
GainFails ==
    /\ worker = "measure" /\ device = "gone"
    /\ stopped' = TRUE /\ worker' = "loop"
    /\ UNCHANGED <<closed, worker_stopped, auto_gain, gain, mutex, waiters, app,
                   err, search, fixed, device, halted>>

\* The gain is found, set (whatever that returns), and reading begins.
GainFound ==
    /\ worker = "gain" /\ low > high
    /\ gain' = best
    /\ worker' = "read" /\ mutex' = Nobody
    /\ UNCHANGED <<flags, auto_gain, waiters, app, err, search, fixed, device,
                   halted>>

AutoGain == TryGain \/ Measure \/ GainFails \/ GainFound

-----------------------------------------------------------------------------
(* Reading, without the mutex *)

\* Faulty: does not look at stopped.
TransferAlways ==
    /\ kind = "dongle" /\ worker = "read" /\ device = "alive"
    /\ worker' = "push" /\ err' = FALSE
    /\ UNCHANGED <<flags, auto_gain, gain, mutex, waiters, app, search, fixed,
                   device, halted>>

\* worker_cb: a transfer of the dongle is pushed, or ends the reading.
Transfer ==
    /\ kind = "dongle" /\ worker = "read" /\ device = "alive"
    /\ worker' = IF stopped THEN "back" ELSE "push"
    /\ err' = FALSE
    /\ UNCHANGED <<flags, auto_gain, gain, mutex, waiters, app, search, fixed,
                   device, halted>>

\* A chunk of the socket or the file; a short one is the last.
Chunk ==
    /\ kind # "dongle" /\ worker = "read"
    /\ worker' = "push"
    /\ err' \in IF device = "alive" THEN {FALSE} ELSE {TRUE}
    /\ UNCHANGED <<flags, auto_gain, gain, mutex, waiters, app, search, fixed,
                   device, halted>>

\* Nothing more to read: an error of any of them, the end of the file, and
\* the end of the socket's stream, which rtltcp_read returns as no bytes.
NoChunk ==
    /\ worker = "read" /\ device = "gone"
    /\ worker' = "back"
    /\ err' \in IF kind = "rtltcp" THEN BOOLEAN ELSE {TRUE}
    /\ UNCHANGED <<flags, auto_gain, gain, mutex, waiters, app, search, fixed,
                   device, halted>>

Pushed ==
    /\ worker = "push"
    /\ worker' = IF kind = "dongle" THEN "read" ELSE "back"
    /\ UNCHANGED <<flags, auto_gain, gain, mutex, waiters, app, err, search,
                   fixed, device, halted>>

\* Faulty: reports an error and goes on reading.
JudgeGoesOn ==
    /\ worker = "judge"
    /\ worker' = IF err THEN "report" ELSE "loop"
    /\ UNCHANGED <<flags, auto_gain, gain, mutex, waiters, app, err, search,
                   fixed, device, halted>>

\* With the mutex again: after an error the worker stops by itself,
JudgeRead ==
    /\ worker = "judge"
    /\ IF err THEN stopped' = TRUE /\ worker' = "report"
              ELSE worker' = "loop" /\ UNCHANGED stopped
    /\ UNCHANGED <<closed, worker_stopped, auto_gain, gain, mutex, waiters, app,
                   err, search, fixed, device, halted>>

\* and tells the application with the mutex held.
ReportLostDevice ==
    /\ worker = "report"
    /\ worker' = "loop" /\ halted' = TRUE
    /\ UNCHANGED <<flags, auto_gain, gain, mutex, waiters, app, err, search,
                   fixed, device>>

Read ==
    \/ Transfer \/ Chunk \/ NoChunk \/ Pushed
    \/ WorkerLocks("back", "judge") \/ JudgeRead \/ ReportLostDevice

Worker == Loop \/ AutoGain \/ Read

-----------------------------------------------------------------------------
(* The application's calls *)

\* nrsc5_start, nrsc5_stop or nrsc5_close is called and asks for the mutex.
Call ==
    /\ app = "idle" /\ app' \in {"start", "stop", "close"}
    /\ UNCHANGED <<flags, auto_gain, gain, mutex, waiters, worker, err, search,
                   fixed, device, halted>>

\* Its critical section, which wakes the worker.
Signals(call, next) ==
    /\ app = call /\ mutex = Nobody
    /\ app' = next /\ waiters' = {}
    /\ UNCHANGED <<worker_stopped, auto_gain, gain, mutex, worker, err, search,
                   fixed, device>>

Start ==
    /\ Signals("start", "idle")
    /\ stopped' = FALSE /\ halted' = FALSE
    /\ UNCHANGED closed

Stop ==
    /\ Signals("stop", "stopping")
    /\ stopped' = TRUE
    /\ UNCHANGED <<closed, halted>>

Close ==
    /\ Signals("close", "closing")
    /\ closed' = TRUE
    /\ UNCHANGED <<stopped, halted>>

\* Faulty: nrsc5_stop does not wait.
StopReturnsAtOnce ==
    /\ app = "stopping" /\ mutex = Nobody
    /\ app' = "idle" /\ halted' = TRUE
    /\ UNCHANGED <<flags, auto_gain, gain, mutex, waiters, worker, err, search,
                   fixed, device>>

\* nrsc5_stop waits; the comparison is made with the mutex.
StopWaits ==
    /\ app = "stopping" /\ "app" \notin waiters /\ mutex = Nobody
    /\ IF stopped # worker_stopped
       THEN waiters' = waiters \cup {"app"} /\ UNCHANGED <<app, halted>>
       ELSE app' = "idle" /\ halted' = TRUE /\ UNCHANGED waiters
    /\ UNCHANGED <<flags, auto_gain, gain, mutex, worker, err, search, fixed,
                   device>>

CloseJoins ==
    /\ app = "closing" /\ worker = "gone"
    /\ app' = "closed"
    /\ UNCHANGED <<flags, auto_gain, gain, mutex, waiters, worker, err, search,
                   fixed, device, halted>>

\* nrsc5_set_frequency to another frequency: refused unless stopped.
Retune ==
    /\ app = "idle" /\ stopped
    /\ app' = "retuning"
    /\ UNCHANGED <<flags, auto_gain, gain, mutex, waiters, worker, err, search,
                   fixed, device, halted>>

\* The tuner refuses, or nrsc5_reset sees stopped again and resets the input.
Retuned ==
    /\ app = "retuning"
    /\ app' = "idle"
    /\ gain' \in {gain, IF stopped /\ auto_gain THEN NoGain ELSE gain}
    /\ UNCHANGED <<flags, auto_gain, mutex, waiters, worker, err, search, fixed,
                   device, halted>>

SetGain ==
    /\ app = "idle" /\ stopped
    /\ gain' \in 0 .. Gains - 1
    /\ UNCHANGED <<flags, auto_gain, mutex, waiters, worker, app, err, search,
                   fixed, device, halted>>

SetAutoGain ==
    /\ app = "idle"
    /\ auto_gain' \in BOOLEAN /\ gain' = NoGain
    /\ UNCHANGED <<flags, mutex, waiters, worker, app, err, search, fixed,
                   device, halted>>

App ==
    \/ Call \/ Start \/ Stop \/ StopWaits \/ Close \/ CloseJoins
    \/ Retune \/ Retuned \/ SetGain \/ SetAutoGain

-----------------------------------------------------------------------------
Vanish ==
    /\ DeviceMayGo /\ device = "alive" /\ device' = "gone"
    /\ UNCHANGED <<flags, auto_gain, gain, mutex, waiters, worker, app, err,
                   search, fixed, halted>>

Next ==
    \/ Worker \/ App \/ Vanish
    \/ app = "closed" /\ UNCHANGED vars

Spec == Init /\ [][Next]_vars

\* The worker runs (a live device delivers), and so does an application that
\* is in a call; between its calls it sleeps often enough for the worker to
\* get the mutex, as the worker does in its reads for the application.
Fairness ==
    /\ SF_vars(Worker)
    /\ SF_vars(Start \/ Stop \/ Close) /\ SF_vars(StopWaits)
    /\ WF_vars(CloseJoins) /\ WF_vars(Retuned)

FairSpec == Spec /\ Fairness

-----------------------------------------------------------------------------
(* Properties *)

Locked == {"loop", "gain", "measure", "judge", "report"}
Busy == {"gain", "measure", "read", "push", "back", "judge"}

\* Every variable has the type the code gives it, and the worker holds the
\* mutex in exactly the places where the code does.
TypeOK ==
    /\ closed \in BOOLEAN /\ stopped \in BOOLEAN /\ worker_stopped \in BOOLEAN
    /\ auto_gain \in BOOLEAN /\ gain \in NoGain .. Gains - 1
    /\ worker \in Locked \cup {"woken", "read", "push", "back", "gone"}
    /\ app \in {"idle", "start", "stop", "stopping", "close", "closing", "closed",
               "retuning"}
    /\ waiters \subseteq {"worker", "app"} /\ err \in BOOLEAN
    /\ low \in 0 .. Gains /\ high \in -1 .. Gains - 1 /\ best \in 0 .. Gains - 1
    /\ kind \in Kinds /\ clips \in 0 .. Gains
    /\ device \in {"alive", "gone"} /\ halted \in BOOLEAN
    /\ mutex = IF worker \in Locked THEN "worker" ELSE Nobody

\* Once nrsc5_stop has returned, or LOST_DEVICE was sent, no sample is read,
\* measured or pushed until the application calls nrsc5_start again.
HaltedIsQuiet ==
    halted => worker \notin Busy

\* The input and output are never reset while the worker is pushing samples
\* through them, though the check of stopped takes no mutex and the worker
\* may set stopped at any time by itself.
RetunesAlone == app = "retuning" => worker \notin Busy

\* The automatic gain is the highest one that does not overload the tuner, or
\* the lowest gain when all of them do, whatever the number of gains.
GainIsBest ==
    [][worker = "gain" /\ worker' = "read" =>
         gain' = IF clips = 0 THEN 0 ELSE clips - 1]_vars

\* Parts of NobodyLeftWaiting, below.
\* nrsc5_stop returns, in the middle of the automatic gain, of a transfer or
\* of a loss too, as long as the tuner can be set.
\* And nrsc5_close returns for a socket or a file that is being read, and for
\* any session after nrsc5_stop.
CallsReturn ==
    /\ app \in {"stop", "stopping"} ~> app = "idle"
    /\ app \in {"close", "closing"} /\ (kind # "dongle" \/ stopped) ~> app = "closed"

\* The end of a file is always reported to an application that has not
\* stopped or closed the session meanwhile.
EndOfFileReported ==
    kind = "file" /\ device = "gone" /\ ~halted
        ~> halted \/ app \notin {"idle", "retuning"}

\* Nobody is left waiting: neither the application in a call of nrsc5_stop or
\* nrsc5_close, nor one that reads a file to its end.
NobodyLeftWaiting == CallsReturn /\ EndOfFileReported
=============================================================================
