----------------------------- MODULE D405Camera -----------------------------
(***************************************************************************)
(* The camera of a D405 worker in a joint session (devices/d405_umi/       *)
(* worker.py), from the set-up to acceptance.json, and what the verifier   *)
(* (quality/verify_session.py) later demands of its two files.             *)
(*                                                                         *)
(* A frame of one stream goes two ways: the native recorder writes it into *)
(* the bag, the driver puts it into a queue main looks at.  Health, the    *)
(* clock's evidence and the formal boundary come from the queue, the       *)
(* verdict and the CSV from the bag; the model is about their agreement.   *)
(*                                                                         *)
(* The unit of time is the period of a frame: number n of every stream is  *)
(* exposed at time n, carries the time n unless it is faulty, and arrives  *)
(* before the next exposure; main passes through its loop at least once    *)
(* between two exposures.  The IMU side of the worker is healthy here but  *)
(* for its verdict, which is a fault (ImuPipeline details it).             *)
(***************************************************************************)
EXTENDS Integers, Sequences, FiniteSets, FiniteSetsExt, SequencesExt

CONSTANTS
    CameraStreams,    \* STREAM_KEYS
    WarmupFrames, WarmupTimeout,
    ReadinessWindow,  \* JOINT_READINESS_WINDOW_NS
    CameraStale,      \* JOINT_CAMERA_STALE_NS
    OutputStale,      \* JOINT_OUTPUT_GRACE_NS and JOINT_OUTPUT_STALE_NS
    StartGuard,       \* JOINT_MINIMUM_START_GUARD_NS
    StartLead,        \* how far ahead the coordinator schedules a start
    Duration,         \* of a run that has one
    LastFrame,        \* bound: frames of a stream
    MaxFaults,        \* bound: frames and calls that go wrong
    Unset

VARIABLES
    time,
    sent,        \* per stream: the last frame delivered or lost
    frameQueue,  \* rs.frame_queue
    bag,         \* per stream: what the recorder has written
    recorder,    \* "off", "on", or "stuck": on and silent
    monitor,     \* CameraClockEvidence, JointCaptureHealth, boundary candidates
    progress,    \* OutputProgress of the bag
    barrier,     \* start, stop and failure records, the latest heartbeat
    formal,      \* the start accepted, the formal start and stop of the host
    main,        \* the position of main and its flags
    passed,      \* main has passed through its loop since the last exposure
    report, csv, \* acceptance.json, d405_frames.csv
    faults

worldVars == <<time, sent, frameQueue, bag, recorder>>
loopVars == <<monitor, progress, barrier, formal, passed>>
endVars == <<report, csv>>
vars == <<worldVars, loopVars, endVars, main, faults>>

PrestartSteps == <<"mkdir", "space", "device", "recorder", "queue", "imu", "exposure", "clock",
                   "open", "resume", "start">>
\* Before the try of _run_claimed a failure ends the process without a report.
Unguarded == {"mkdir", "space", "device", "recorder", "queue"}
\* configure_global_time only records that the option does not read back as set.
Recorded == {"clock"}
Step == PrestartSteps[main.step]
Done(step) == \E i \in 1..main.step - 1 : PrestartSteps[i] = step

PerStream(x) == [s \in CameraStreams |-> x]
NewMonitor ==
    [count |-> PerStream(0), at |-> PerStream(Unset), device |-> PerStream(Unset),
     regressed |-> FALSE, window |-> PerStream(<<>>), domains |-> PerStream({}),
     drained |-> FALSE, candidates |-> PerStream(Unset), first |-> Unset]
NoProgress == [size |-> 0, grown |-> Unset]

Init ==
    /\ time = 0 /\ sent = PerStream(0) /\ frameQueue = <<>>
    /\ bag = PerStream(<<>>) /\ recorder = "off"
    /\ monitor = NewMonitor /\ progress = NoProgress
    /\ barrier = [start |-> Unset, stop |-> FALSE, failed |-> FALSE, healthy |-> FALSE]
    /\ formal = [accepted |-> Unset, start |-> Unset, stop |-> Unset]
    /\ main \in [pc : {"prepare"}, step : {1}, duration : {Unset, Duration}, complete : {FALSE},
                 configured : {FALSE}, exposure : {FALSE}, error : {FALSE}, clean : {TRUE}, moved : {TRUE},
                 streaming : {FALSE}]
    /\ passed = FALSE /\ report = Unset /\ csv = <<>> /\ faults = 0

Faulty == faults < MaxFaults /\ faults' = faults + 1

-----------------------------------------------------------------------------
(* Set-up: run_prestart_step turns an exception into a latched failure.     *)

PrestartStep ==
    /\ main.pc = "prepare"
    /\ \E verified \in IF Step \in Recorded THEN BOOLEAN ELSE {TRUE} :
         /\ IF verified THEN UNCHANGED faults ELSE Faulty
         /\ main' = [main EXCEPT !.step = @ + 1,
                              !.configured = @ \/ (Step = "clock" /\ verified),
                              !.exposure = @ \/ Step = "exposure",
                              !.streaming = Step = "start",
                              !.pc = IF Step = "start" THEN "warm" ELSE "prepare"]
    /\ recorder' = IF Step = "resume" THEN "on" ELSE recorder
    /\ UNCHANGED <<time, sent, frameQueue, bag, loopVars, endVars>>

PrestartFails ==
    /\ main.pc = "prepare" /\ Faulty
    /\ barrier' = [barrier EXCEPT !.failed = TRUE]
    /\ main' = [main EXCEPT !.error = TRUE, !.pc = IF Step \in Unguarded THEN "exit" ELSE "pause"]
    /\ UNCHANGED <<worldVars, monitor, progress, formal, passed, endVars>>

-----------------------------------------------------------------------------
(* The camera and the coordinator.  What arrives after an error is left out: *)
(* the verdict is decided.                                                   *)

\* Bounds: an unscheduled warm-up is followed up to its timeout, and at most one
\* frame is exposed while the outputs are shut down.
Expose ==
    /\ main.streaming /\ ~main.error /\ time < LastFrame
    /\ \A s \in CameraStreams : sent[s] = time
    /\ main.pc \in {"warm", "backlog", "formal"} => passed
    /\ main.pc = "warm" /\ barrier.start = Unset => time < WarmupTimeout
    /\ main.pc \in {"pause", "stop"} => time = formal.stop
    /\ time' = time + 1 /\ passed' = FALSE
    /\ UNCHANGED <<sent, frameQueue, bag, recorder, monitor, progress, barrier, formal, endVars, main, faults>>

\* What may be wrong with a frame, or nothing.
Defects == {"none", "lost", "back", "foreign", "unmetered", "unqueued", "unrecorded"}

Deliver(s) ==
    /\ main.streaming /\ ~main.error /\ sent[s] < time
    /\ \E defect \in Defects :
         LET n == sent[s] + 1
             t == IF defect = "back" THEN n - 2 ELSE n
         IN  /\ IF defect = "none" THEN UNCHANGED faults ELSE Faulty
             /\ frameQueue' = IF defect \in {"lost", "unqueued"} THEN frameQueue
                              ELSE Append(frameQueue,
                                          [s |-> s, n |-> n, t |-> t,
                                           domain |-> IF defect = "foreign" THEN "hardware_clock"
                                                      ELSE "global_time"])
             /\ bag' = IF defect \in {"lost", "unrecorded"} \/ recorder # "on" THEN bag
                       ELSE [bag EXCEPT ![s] = Append(@, [n |-> n, t |-> t, metered |-> defect # "unmetered"])]
             /\ sent' = [sent EXCEPT ![s] = n]
    /\ UNCHANGED <<time, recorder, loopVars, endVars, main>>

RecorderSticks ==
    /\ main.streaming /\ recorder = "on" /\ Faulty
    /\ recorder' = "stuck"
    /\ UNCHANGED <<time, sent, frameQueue, bag, loopVars, endVars, main>>

\* The coordinator schedules a start once this device is ready with the others,
\* and may be late with it; it requests a stop when the run or another worker
\* has failed, or when an open run is to end.
ScheduleStart ==
    /\ main.pc = "warm" /\ barrier.healthy /\ barrier.start = Unset
    /\ \E lead \in 1..StartLead : barrier' = [barrier EXCEPT !.start = time + lead, !.healthy = FALSE]
    /\ UNCHANGED <<worldVars, monitor, progress, formal, passed, endVars, main, faults>>

RequestStop ==
    /\ main.pc = "formal" /\ ~barrier.stop
    /\ barrier' = [barrier EXCEPT !.stop = TRUE]
    /\ UNCHANGED <<worldVars, monitor, progress, formal, passed, endVars, main, faults>>
-----------------------------------------------------------------------------
(* What main makes of the queue.                                            *)

Known(f)   == \A s \in CameraStreams : f[s] # Unset
Values(f)  == {f[s] : s \in CameraStreams}
Aligned(f) == Max(Values(f)) - Min(Values(f)) <= 0   \* SYNC_TOLERANCE_MS is less than a period

\* CameraClockEvidence.observe, JointCaptureHealth.observe_camera; the window is
\* kept as long as it matters, until a start is scheduled.
Seen(m, f) ==
    [m EXCEPT !.count[f.s] = Min({@ + 1, WarmupFrames}),
              !.domains[f.s] = @ \cup {f.domain},
              !.regressed = @ \/ (m.device[f.s] # Unset /\ f.t < m.device[f.s]),
              !.device[f.s] = f.t,
              !.at[f.s] = time,
              !.window[f.s] = IF barrier.start # Unset THEN <<>>
                              ELSE SelectSeq(Append(@, [at |-> time, n |-> f.n]),
                                             LAMBDA w : w.at >= time - ReadinessWindow)]

\* Mutants: plausible bugs in the operations below; no specification uses them.
ObserveCameraUndrained(m, f) ==
    IF m.first # Unset THEN m
    ELSE LET candidates == [m.candidates EXCEPT ![f.s] = f.t]
         IN  [m EXCEPT !.candidates = candidates,
                       !.first = IF Known(candidates) /\ Aligned(candidates)
                                 THEN Max(Values(candidates)) ELSE Unset]

\* The formal boundary in device time: the first aligned set of frames that
\* came after the backlog of the warm-up.
ObserveCamera(m, f) ==
    IF ~m.drained \/ m.first # Unset THEN m
    ELSE LET candidates == [m.candidates EXCEPT ![f.s] = f.t]
         IN  [m EXCEPT !.candidates = candidates,
                       !.first = IF Known(candidates) /\ Aligned(candidates)
                                 THEN Max(Values(candidates)) ELSE Unset]

Drain == FoldLeft(LAMBDA m, f : ObserveCamera(Seen(m, f), f), monitor, frameQueue)

ClockVerified(m) ==
    main.configured /\ \A s \in CameraStreams : m.domains[s] = {"global_time"}

\* 29.5 frames of a camera that makes 30.
RateOk(frames, elapsed) == elapsed > 0 /\ frames * 60 >= elapsed * 59

JointReady(m) ==
    /\ ClockVerified(m) /\ ~m.regressed
    /\ \A s \in CameraStreams :
         LET w == SelectSeq(m.window[s], LAMBDA x : x.at >= time - ReadinessWindow)
         IN  /\ w # <<>> /\ time - w[1].at >= ReadinessWindow - 1
             /\ RateOk(Len(w) - 1, w[Len(w)].at - w[1].at)
             /\ \A i \in 1..Len(w) - 1 : w[i + 1].n = w[i].n + 1

Connected(m) == Known(m.at) /\ \A s \in CameraStreams : time - m.at[s] <= CameraStale

\* OutputProgress.healthy; main's first pass is at time 0.
Size == FoldFunction(LAMBDA frames, n : n + Len(frames), 0, bag)
Grown == IF Size > progress.size THEN [size |-> Size, grown |-> time] ELSE progress
BagHealthy(p) == time - (IF p.grown = Unset THEN 0 ELSE p.grown) <= OutputStale

Healthy(m, p) ==
    Connected(m) /\ ~m.regressed /\ BagHealthy(p) /\ p.grown # Unset /\ JointReady(m)

\* A reason to end, or not: a bag that has only not begun to grow is none, and
\* hides a disconnected camera.
Terminal(m, p, complete) ==
    m.regressed \/ IF BagHealthy(p) /\ p.grown # Unset THEN complete /\ ~Connected(m)
                   ELSE ~BagHealthy(p)

-----------------------------------------------------------------------------
(* Main's two loops.                                                        *)

\* An exception of the try block is latched and the outputs are shut down; what
\* was seen and recorded no longer matters to a verdict that is decided.
Abort ==
    /\ barrier' = [barrier EXCEPT !.failed = TRUE]
    /\ main' = [main EXCEPT !.error = TRUE, !.pc = "pause"]
    /\ monitor' = NewMonitor /\ bag' = PerStream(<<>>) /\ progress' = NoProgress
    /\ frameQueue' = <<>> /\ passed' = FALSE
    /\ UNCHANGED <<time, sent, recorder, endVars>>

\* JointBarrierController.poll refuses a start that is too near when it is first
\* read.  The heartbeats' interval is about a period.
StaleStart ==
    barrier.start # Unset /\ formal.accepted = Unset /\ barrier.start - time < StartGuard

Accepted == [formal EXCEPT !.accepted = barrier.start]
Reached(f) == f.accepted # Unset /\ time >= f.accepted

WriteHeartbeat(healthy) ==
    barrier' = IF barrier.start = Unset THEN [barrier EXCEPT !.healthy = healthy] ELSE barrier

\* A pass that finds the queue empty a second time changes nothing.
Due == frameQueue # <<>> \/ ~passed \/ barrier.stop

\* What both loops do first: the queue is drained, health evaluated.
Pass(m, p) ==
    /\ monitor' = m /\ progress' = p
    /\ frameQueue' = <<>> /\ passed' = TRUE
    /\ UNCHANGED <<time, sent, bag, recorder, endVars, faults>>

WarmPass ==
    /\ main.pc = "warm" /\ Due
    /\ LET m == Drain
           p == Grown
           complete == main.complete \/ \A s \in CameraStreams : m.count[s] >= WarmupFrames
       IN  IF \/ StaleStart \/ Terminal(m, p, complete)
              \/ ~complete /\ (time >= WarmupTimeout \/ Reached(Accepted))
           THEN Abort /\ UNCHANGED <<formal, faults>>
           ELSE      /\ Pass(m, p)
                     /\ WriteHeartbeat(Healthy(m, p))
                     /\ formal' = [Accepted EXCEPT !.start = IF Reached(Accepted) THEN barrier.start ELSE Unset]
                     /\ main' = [main EXCEPT !.complete = complete,
                                             !.pc = IF Reached(Accepted) THEN "backlog" ELSE "warm"]

\* The backlog is drained until the queue is empty, and only then do frames
\* count for the boundary.
BacklogDrained ==
    /\ main.pc = "backlog"
    /\ monitor' = [Drain EXCEPT !.drained = TRUE, !.candidates = PerStream(Unset)]
    /\ frameQueue' = <<>> /\ passed' = TRUE
    /\ main' = [main EXCEPT !.pc = "formal"]
    /\ UNCHANGED <<time, sent, bag, recorder, progress, barrier, formal, endVars, faults>>

\* formal_window_complete.
WindowComplete ==
    barrier.stop \/ (main.duration # Unset /\ time >= formal.start + main.duration)

FormalPass ==
    /\ main.pc = "formal" /\ Due
    /\ LET m == Drain
           p == Grown
       IN  IF Terminal(m, p, TRUE) THEN Abort /\ UNCHANGED <<formal, faults>>
           ELSE    /\ Pass(m, p)
                   /\ WriteHeartbeat(Healthy(m, p))
                   /\ main' = [main EXCEPT !.pc = IF WindowComplete THEN "pause" ELSE "formal"]
                   /\ formal' = [formal EXCEPT !.stop = IF WindowComplete THEN time ELSE Unset]

\* A call of the driver or the barrier raises in a loop.
LoopRaises ==
    /\ main.pc \in {"warm", "backlog", "formal"} /\ Faulty
    /\ Abort
    /\ UNCHANGED formal

-----------------------------------------------------------------------------
(* The end: shutdown_capture_outputs, the move of the bag, the verdict.     *)

\* pause_joint_recorder_for_shutdown: an exception is latched and returned.
Pause ==
    /\ main.pc = "pause"
    /\ \/ /\ UNCHANGED <<barrier, faults>>
          /\ main' = [main EXCEPT !.pc = "stop"]
       \/ /\ Done("resume") /\ Faulty
          /\ barrier' = [barrier EXCEPT !.failed = TRUE]
          /\ main' = [main EXCEPT !.pc = "stop", !.clean = FALSE, !.error = TRUE]
    /\ recorder' = "off"
    /\ monitor' = [NewMonitor EXCEPT !.domains = monitor.domains, !.first = monitor.first]
    /\ progress' = NoProgress
    /\ UNCHANGED <<time, sent, frameQueue, bag, formal, passed, endVars>>

\* sensor.stop, sensor.close and the IMU's stop; an error is latched too.  What
\* the queue still holds is never read.
Stop ==
    /\ main.pc = "stop"
    /\ \/ UNCHANGED <<barrier, faults>> /\ main' = [main EXCEPT !.streaming = FALSE, !.pc = "move"]
       \/ /\ Done("open") /\ Faulty
          /\ barrier' = [barrier EXCEPT !.failed = TRUE]
          /\ main' = [main EXCEPT !.streaming = FALSE, !.pc = "move", !.error = TRUE]
    /\ frameQueue' = <<>>
    /\ UNCHANGED <<time, sent, bag, recorder, monitor, progress, formal, passed, endVars>>

\* With a duration the bag was written to a RAM disk.
Move ==
    /\ main.pc = "move"
    /\ \/ UNCHANGED faults /\ main' = [main EXCEPT !.pc = "analyze"]
       \/ /\ main.duration # Unset /\ main.clean /\ Faulty
          /\ main' = [main EXCEPT !.pc = "analyze", !.moved = FALSE, !.error = TRUE]
    /\ UNCHANGED <<worldVars, loopVars, endVars>>
\* StreamContinuity over records.
Continuity(r) ==
    LET step(i) == r[i + 1].n - r[i].n
        Steps(test(_)) == {i \in 1..Len(r) - 1 : test(i)}
    IN  [received    |-> Len(r),
         span        |-> IF r = <<>> THEN 0 ELSE Last(r).n - r[1].n,
         elapsed     |-> IF r = <<>> THEN 0 ELSE Last(r).t - r[1].t,
         skipped     |-> MapThenSumSet(LAMBDA i : step(i) - 1, Steps(LAMBDA i : step(i) > 1)),
         repeated    |-> Cardinality(Steps(LAMBDA i : step(i) = 0)),
         resets      |-> Cardinality(Steps(LAMBDA i : step(i) < 0)),
         regressions |-> Cardinality(Steps(LAMBDA i : r[i + 1].t < r[i].t))]

\* The demands of the worker and of the verifier on a stream's statistics.
Continuous(c) ==
    /\ c.received > 1 /\ RateOk(c.span, c.elapsed)
    /\ c.skipped * 1000 <= c.span   \* MAX_CAMERA_GAP_RATIO
    /\ c.repeated = 0 /\ c.resets = 0 /\ c.regressions = 0

\* pair_metadata_frames: aligned heads are a pair, else the earliest are dropped.
RECURSIVE PairFrames(_)
PairFrames(records) ==
    IF \E s \in CameraStreams : records[s] = <<>> THEN <<>>
    ELSE LET heads == [s \in CameraStreams |-> records[s][1]]
             times == [s \in CameraStreams |-> heads[s].t]
         IN  IF Aligned(times)
             THEN <<heads>> \o PairFrames([s \in CameraStreams |-> Tail(records[s])])
             ELSE PairFrames([s \in CameraStreams |->
                                 IF times[s] = Min(Values(times)) THEN Tail(records[s]) ELSE records[s]])

Arrival(pair) == Max({pair[s].t : s \in CameraStreams})

\* write_frames_csv.
FrameRows(pairs, first, domain) ==
    [i \in DOMAIN pairs |->
        [frames |-> pairs[i], arrival |-> Arrival(pairs[i]), domain |-> domain,
         warmup |-> first # Unset /\ Arrival(pairs[i]) < first]]

FormalPairs(pairs) ==
    SelectSeq(pairs, LAMBDA pair : monitor.first # Unset /\ Arrival(pair) >= monitor.first)

\* analyze_ir_exposure: every formal frame has its exposure, below the limit.
Exposed(pairs) ==
    pairs # <<>> /\ \A i \in DOMAIN pairs, s \in CameraStreams : pairs[i][s].metered

\* classify_d405_result.
Classify(camera, imu, clock) ==
    IF ~(camera /\ imu) THEN "FAIL" ELSE IF clock THEN "PASS" ELSE "BLOCKED"

\* acceptance.json, of which the verifier reads this much of the camera.
DeviceReport(result, camera, streams, stable, readable, clock) ==
    [result |-> result, camera |-> camera, error |-> main.error, streams |-> streams,
     formal |-> Min({streams[s].received : s \in CameraStreams}), stable |-> stable, readable |-> readable,
     configured |-> main.configured, domains |-> monitor.domains, verified |-> clock,
     start |-> formal.start, raw |-> FALSE]

Analyze ==
    /\ main.pc = "analyze"
    /\ \E readable, imuOk \in BOOLEAN :
         LET stable  == main.clean /\ main.moved
             pairs   == IF stable /\ readable THEN PairFrames(bag) ELSE <<>>
             clock   == ClockVerified(monitor)
             accepted == FormalPairs(pairs)
             streams == [s \in CameraStreams |-> Continuity([i \in DOMAIN accepted |-> accepted[i][s]])]
             camera  == /\ ~main.error /\ stable /\ readable /\ main.exposure /\ Exposed(accepted)
                        /\ Len(accepted) > 1 /\ \A s \in CameraStreams : Continuous(streams[s])
         IN  /\ IF readable /\ imuOk THEN UNCHANGED faults ELSE Faulty
             /\ csv' = FrameRows(pairs, monitor.first, IF clock THEN "global_time" ELSE "unverified")
             /\ report' = DeviceReport(Classify(camera, imuOk, clock), camera, streams, stable, readable, clock)
    /\ bag' = PerStream(<<>>) /\ main' = [main EXCEPT !.pc = "finalize"]
    /\ UNCHANGED <<time, sent, frameQueue, recorder, loopVars>>

\* finalize_joint_outputs; the exit code says the result.
FinalizeOutputs ==
    /\ main.pc = "finalize"
    /\ \E hashed \in BOOLEAN :
         /\ IF hashed THEN UNCHANGED faults ELSE report.stable /\ Faulty
         /\ report' = [report EXCEPT !.raw = report.stable /\ hashed,
                                     !.result = IF report.stable /\ hashed THEN @ ELSE "FAIL"]
    /\ main' = [main EXCEPT !.pc = "exit"]
    /\ UNCHANGED <<worldVars, loopVars, csv>>

\* The process has ended, or waits for a start, which it does without a timeout.
Rest ==
    /\ main.pc = "exit" \/ (main.pc = "warm" /\ main.complete /\ barrier.start = Unset)
    /\ UNCHANGED vars

Next ==
    \/ PrestartStep \/ PrestartFails
    \/ Expose \/ \E s \in CameraStreams : Deliver(s)
    \/ RecorderSticks \/ ScheduleStart \/ RequestStop
    \/ WarmPass \/ BacklogDrained \/ FormalPass \/ LoopRaises
    \/ Pause \/ Stop \/ Move \/ Analyze \/ FinalizeOutputs
    \/ Rest

Spec == Init /\ [][Next]_vars

-----------------------------------------------------------------------------
(* What the verifier makes of acceptance.json and the CSV.                  *)

Warmups == {i \in DOMAIN csv : csv[i].warmup}
Formals == DOMAIN csv \ Warmups

\* _summarize_d405_rows and _parse_d405_rows raise on a time that goes back.
RowsAreOrdered == \A i \in 1..Len(csv) - 1 : csv[i].arrival <= csv[i + 1].arrival

\* _check_d405.
DeviceSection ==
    /\ report.result = "PASS" /\ ~report.error /\ report.formal >= 2
    /\ RowsAreOrdered /\ Warmups # {} /\ Cardinality(Formals) = report.formal
    /\ report.stable /\ report.camera /\ report.readable
    /\ \A s \in CameraStreams : /\ report.streams[s].received = report.formal
                               /\ Continuous(report.streams[s])
    /\ report.start # Unset

\* _validate_d405_camera_clock and build_index's _validate_d405_clock.
ClockSection ==
    LET verified == report.configured /\ \A s \in CameraStreams : report.domains[s] = {"global_time"}
    IN  /\ verified /\ report.verified = verified
        /\ \A i \in DOMAIN csv : csv[i].domain = "global_time"

-----------------------------------------------------------------------------
TypeOK ==
    /\ time \in 0..LastFrame /\ faults \in 0..MaxFaults
    /\ sent \in [CameraStreams -> 0..LastFrame]
    /\ recorder \in {"off", "on", "stuck"}
    /\ main.pc \in {"prepare", "warm", "backlog", "formal", "pause", "stop", "move", "analyze",
                   "finalize", "exit"}

Passed == main.pc = "exit" /\ report # Unset /\ report.result = "PASS"
FormalTimes(s) == {csv[i].frames[s].n : i \in Formals}

\* A PASS covers its window: the formal rows name consecutive frames of every
\* stream, none exposed before the last exposure that precedes the start, and
\* none is missing from the first frames after the start to the stop but for
\* what an interruption shorter than the bag's watchdog took at the end.
PassCoversWindow ==
    Passed =>
        \A s \in CameraStreams :
            LET n == FormalTimes(s)
            IN  /\ n = Min(n)..Max(n)
                /\ Min(n) >= formal.start /\ Min(n) <= formal.start + 2 + MaxFaults
                /\ Max(n) >= formal.stop - OutputStale - 2

PassIsVerified == Passed => DeviceSection /\ ClockSection /\ report.raw

\* A worker whose run has an error other than of the move has latched it, and one
\* that passes has latched none.
ErrorIsLatched ==
    main.pc = "exit" => /\ main.error /\ main.moved => barrier.failed
                        /\ Passed => ~barrier.failed

CameraPassIsSound == PassCoversWindow /\ PassIsVerified /\ ErrorIsLatched
=============================================================================
