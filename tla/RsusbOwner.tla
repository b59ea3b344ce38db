------------------------------ MODULE RsusbOwner ------------------------------
(***************************************************************************)
(* run_pair of acquisition/rsusb_pair.py: one process opens a D435i and one *)
(* or two D405 units, warms up, waits for the common start, records a       *)
(* window, cleans up and judges.  Ego frames come in the SDK's callback;    *)
(* UMI frames wait in a queue of the SDK that main empties in every pass of *)
(* its loops; IMU samples are counted by a reader thread.                   *)
(*                                                                         *)
(* Time is counted in quarters of a frame.  A pass of main's loops happens  *)
(* once in a unit (they sleep a millisecond, and the queue holds 64         *)
(* frames), and a frame arrives in the unit after its acquisition at the    *)
(* latest.  The asynchronous writers are those of EgoCapture: here a frame  *)
(* is on disk once it was submitted, unless the disk has failed; an error   *)
(* is known when the verdict is reached.  Of a device's streams the left    *)
(* infrared stands for all.  Clocks are mapped exactly; ClockMapping says   *)
(* what the mapping really does.                                            *)
(***************************************************************************)
EXTENDS SyncIndex, SequencesExt

CONSTANTS
    UmiChoices,         \* the UMI devices in order, as the configuration may have them
    Delays,             \* possible --start-delay
    FRAME,              \* a frame period
    WARM_FRAMES,        \* frames of a stream before the group may be ready (30)
    IMU_STABLE,         \* IMU_STABLE_WARMUP_NS
    MIN_WARMUP,         \* 3 s in the code
    WARMUP_TIMEOUT,     \* WARMUP_TIMEOUT_S
    DURATION,           \* --duration
    POSTROLL,           \* CAMERA_POSTROLL_NS
    NEAREST_MAX,        \* PAIR_NEAREST_MAX_NS
    START_LAG_MAX,      \* formal_start_coverage
    Phases,             \* when in a frame period, after ego, a UMI may acquire
    MaxMisfortunes,     \* misfortunes of the hardware
    MaxTroubles         \* misfortunes and raising calls together

ASSUME OwnerAssumption ==
    /\ \A choice \in UmiChoices : choice \in Seq(STRING) /\ Len(choice) \in {1, 2} /\ "ego" \notin ToSet(choice)
    /\ Delays \subseteq Nat \ {0}
    /\ {FRAME, WARM_FRAMES, DURATION} \subseteq Nat \ {0}
    /\ {IMU_STABLE, MIN_WARMUP, WARMUP_TIMEOUT, POSTROLL, NEAREST_MAX, START_LAG_MAX,
        MaxMisfortunes, MaxTroubles} \subseteq Nat
    /\ Phases \subseteq 0..FRAME - 1

None == "none"
Unset == -1       \* None, where a number is expected

VARIABLES
    \* inputs
    umis, delay,        \* umi_specs, --start-delay
    phase,              \* when in a frame period a device acquires
    \* the hardware
    now, inFlight,      \* frames acquired and not arrived
    rsQueue,            \* a UMI's frame_queue
    imuErrors,          \* the transport error counters of a UMI's reader, as one count
    recorderLost,       \* recorder.dropped or first_write_error of a UMI
    diskFailed, stop, misfortunes, raises,
    \* run_pair
    pc, step,           \* the phase, and the call in the list of the phase
    held, stuck,        \* what is started and open; what a raising stop has left so
    initialized,        \* initialized_runtimes: UMIs whose writer and thread are complete
    undone,             \* the except clause of the writers ran to its end
    outcome,            \* the exception on its way out of run_pair
    formalStart, aborted, waited,
    seen, disk,         \* the frames a device's state has counted; the rows on disk
    error,              \* capture_error of a device
    stable, stableSince, errorStart, errorEnd,
    manifest,           \* devices whose writer has been sealed
    motion,             \* what motion_signal_status says of the operator
    status,             \* status of the group report
    erredIn             \* history: the phases in which an IMU transport error occurred

inputVars  == <<umis, delay, phase>>
hardware   == <<now, inFlight, rsQueue, imuErrors, recorderLost, diskFailed, stop, misfortunes, erredIn>>
deviceVars == <<held, stuck, initialized, undone, manifest>>
frameVars  == <<seen, disk>>
imuVars    == <<stable, stableSince, errorStart, errorEnd>>
vars == <<inputVars, hardware, raises, pc, step, deviceVars, outcome, formalStart, aborted, waited, frameVars,
          error, imuVars, motion, status>>

\* The devices there may be, and those of this run; the others never do anything.
UmiSet  == UNION {ToSet(choice) : choice \in UmiChoices}
Devices == {"ego"} \cup UmiSet
Set[us \in UmiChoices] == ToSet(us)
Used    == Set[umis]

-----------------------------------------------------------------------------
(* What is called in order, and what it starts or stops.                    *)

Call(name, device) == [name |-> name, device |-> device]
ForEach(devices, names) ==
    FlattenSeq([i \in DOMAIN devices |-> [k \in DOMAIN names |-> Call(names[k], devices[i])]])

\* Before run_pair's first try: nothing is held yet.
Prepare == <<Call("prepare", "ego")>>

\* The writers, whose claims are the first things to be given back.
OpenWriters[us \in UmiChoices] ==
    <<Call("writer", "ego"), Call("async", "ego")>> \o ForEach(us, <<"writer", "async">>)

StartDevices[us \in UmiChoices] ==
    <<Call("pipeline", "ego"), Call("calibration", "ego")>>
      \o ForEach(us, <<"recorder", "reader", "sensor", "stream", "calibration">>)

CleanUp[us \in UmiChoices] ==
    ForEach(Reverse(us), <<"stream", "sensor">>) \o <<Call("pipeline", "ego")>>
      \o ForEach(us, <<"reader", "recorder">>)
      \o <<Call("async", "ego")>> \o ForEach(us, <<"async">>)
      \o <<Call("writer", "ego")>> \o ForEach(us, <<"writer">>)

\* The except clause of the writers: the UMIs first, then ego.
UndoWriters[us \in UmiChoices] ==
    ForEach(us, <<"async", "writer">>) \o <<Call("async", "ego"), Call("writer", "ego")>>

Resources == {Call(name, d) : name \in {"writer", "async"}, d \in Devices}
                \cup {Call("pipeline", "ego")}
                \cup {Call(name, u) : name \in {"recorder", "reader", "sensor", "stream"}, u \in UmiSet}

Calls == CASE pc = "prepare" -> Prepare
           [] pc = "writers" -> OpenWriters[umis]
           [] pc = "devices" -> StartDevices[umis]
           [] pc = "undo"    -> UndoWriters[umis]
           [] pc = "cleanup" -> CleanUp[umis]

At(d, n) == n * FRAME + phase[d]
FormalEnd == formalStart + DURATION

Init ==
    /\ umis \in UmiChoices /\ delay \in Delays /\ motion = None
    /\ phase \in {[d \in Devices |-> IF d \in Used THEN p[d] ELSE 0] : p \in [Used -> Phases]}
    /\ now = 0 /\ inFlight = [d \in Devices |-> <<>>] /\ rsQueue = [u \in UmiSet |-> <<>>]
    /\ imuErrors = [u \in UmiSet |-> 0] /\ recorderLost = [u \in UmiSet |-> FALSE]
    /\ diskFailed = [d \in Devices |-> FALSE] /\ stop = FALSE /\ misfortunes = 0 /\ raises = 0
    /\ pc = "prepare" /\ step = 1 /\ held = {} /\ stuck = {} /\ initialized = {} /\ undone = TRUE /\ outcome = None
    /\ formalStart = Unset /\ aborted = FALSE /\ waited = FALSE
    /\ seen = [d \in Devices |-> <<>>] /\ disk = [d \in Devices |-> <<>>]
    /\ error = [d \in Devices |-> FALSE]
    /\ stable = [u \in UmiSet |-> Unset] /\ stableSince = [u \in UmiSet |-> Unset]
    /\ errorStart = [u \in UmiSet |-> Unset] /\ errorEnd = [u \in UmiSet |-> Unset]
    /\ manifest = {} /\ status = None /\ erredIn = [u \in UmiSet |-> {}]

Raises == raises + misfortunes < MaxTroubles /\ raises' = raises + 1

-----------------------------------------------------------------------------
(* Setting up.                                                              *)

AfterCalls == CASE pc = "prepare" -> "writers" [] pc = "writers" -> "devices" [] pc = "devices" -> "warm"
                [] pc = "undo" -> "end"
                [] pc = "cleanup" -> IF outcome = None THEN "report" ELSE "end"

NextCall == IF step < Len(Calls) THEN pc' = pc /\ step' = step + 1 ELSE pc' = AfterCalls /\ step' = 1

\* The device check, the IMU's port: what is missing blocks the run.
MayBeUnavailable(call) == call.name \in {"prepare", "reader"}

\* One call of the set-up.  A failure of a writer or of its thread ends in the
\* except clause, one of a device in the finally clause.
SetUp ==
    /\ pc \in {"prepare", "writers", "devices"}
    /\ LET call == Calls[step]
       IN  \/ /\ held' = held \cup ({call} \cap Resources)
              /\ initialized' = initialized \cup (IF call.name = "async" THEN {call.device} \cap UmiSet ELSE {})
              /\ NextCall
              /\ UNCHANGED <<raises, outcome>>
           \/ /\ Raises
              /\ outcome' \in {"error"} \cup (IF MayBeUnavailable(call) THEN {"unavailable"} ELSE {})
              /\ pc' = CASE pc = "prepare" -> "end" [] pc = "writers" -> "undo" [] pc = "devices" -> "cleanup"
              /\ step' = 1 /\ UNCHANGED <<held, initialized>>
    /\ UNCHANGED <<inputVars, hardware, stuck, undone, formalStart, aborted, waited, frameVars, error, imuVars,
                   manifest, motion, status>>

\* The except clause closes what there is of the complete runtimes and of ego.
\* It passes over the writer of a UMI whose thread could not be started.
Undoes(call) == call \in held /\ call.device \notin UmiSet \ initialized

\* ego's thread has an object before it is started; one that is not cannot be
\* joined, and close raises.
Unstarted(call) == call = Call("async", "ego") /\ call \notin held /\ Call("writer", "ego") \in held

\* The except clause ends with the first call of its own that raises.
UndoWriter ==
    /\ pc = "undo"
    /\ LET call == Calls[step]
       IN  \/ /\ ~Undoes(call) /\ ~Unstarted(call)
              /\ NextCall /\ UNCHANGED <<held, undone, raises>>
           \/ /\ Undoes(call)
              /\ held' = held \ {call} /\ NextCall /\ UNCHANGED <<undone, raises>>
           \/ /\ Undoes(call) /\ Raises
              /\ held' = held \ {call} /\ undone' = FALSE /\ pc' = "end" /\ step' = 1
           \/ /\ Unstarted(call)
              /\ undone' = FALSE /\ pc' = "end" /\ step' = 1 /\ UNCHANGED <<held, raises>>
    /\ UNCHANGED <<inputVars, hardware, stuck, initialized, outcome, formalStart, aborted, waited, frameVars, error,
                   imuVars, manifest, motion, status>>

-----------------------------------------------------------------------------
(* Frames.                                                                  *)

\* _record_frame, _record_d405_frame: what is written of a frame when the
\* formal start is known as start.
Row(d, f, start) ==
    [n |-> f.n, at |-> IF f.timed THEN At(d, f.n) ELSE 0, timed |-> f.timed,
     formal |-> start # Unset /\ f.timed /\ At(d, f.n) >= start]

\* Frames for which the writer's queue has room are counted, and are on disk
\* unless it has failed; one that is dropped or lost there is an error.
Recorded(d, frames, start) ==
    LET fitting == Chosen(frames, {i \in DOMAIN frames : frames[i].fits})
        rows    == [i \in DOMAIN fitting |-> Row(d, fitting[i], start)]
    IN  [seen |-> seen[d] \o rows, disk |-> IF diskFailed[d] THEN disk[d] ELSE disk[d] \o rows,
         error |-> error[d] \/ Len(fitting) < Len(frames) \/ (diskFailed[d] /\ rows # <<>>)]

\* One misfortune, or none.
Misfortunes ==
    {[kind |-> None, device |-> "ego"]}
      \cup (IF misfortunes = MaxMisfortunes \/ raises + misfortunes = MaxTroubles THEN {}
            ELSE [kind : {"lost", "untimed", "unfit", "disk"}, device : {"ego"} \cup Used]
                   \cup [kind : {"imu", "recorder"}, device : Used])

\* The frame a device acquires at a time, if it acquires one.
Acquired(d, time, bad) ==
    LET n == (time - phase[d]) \div FRAME
        is(kind) == bad.kind = kind /\ bad.device = d
    IN  IF (d # "ego" /\ d \notin Used) \/ time < phase[d] \/ At(d, n) # time \/ is("lost") THEN <<>>
        ELSE <<[n |-> n, timed |-> ~is("untimed"), fits |-> ~is("unfit")]>>

\* What an IMU transport error at a time falls into: between the last check of
\* the start guard and the first look at the counters nobody looks.
PhaseAt(time) == IF pc = "guard" /\ time >= formalStart THEN "gap" ELSE pc

\* A unit of time: frames are acquired and arrive, at once or by the next unit,
\* those of ego in its callback.  main has made its pass.
Tick ==
    /\ pc \in {"warm", "guard", "formal", "postroll"} /\ waited
    /\ now' = now + 1 /\ waited' = FALSE
    /\ \E bad \in Misfortunes, prompt \in BOOLEAN :
          LET new(d)      == Acquired(d, now', bad)
              arriving(d) == inFlight[d] \o (IF prompt THEN new(d) ELSE <<>>)
              ego         == Recorded("ego", arriving("ego"), formalStart)
          IN  /\ misfortunes' = misfortunes + (IF bad.kind = None THEN 0 ELSE 1)
              /\ inFlight' = [d \in Devices |-> IF prompt THEN <<>> ELSE new(d)]
              /\ rsQueue' = [u \in UmiSet |-> rsQueue[u] \o arriving(u)]
              /\ seen' = [seen EXCEPT !["ego"] = ego.seen]
              /\ disk' = [disk EXCEPT !["ego"] = ego.disk]
              /\ error' = [error EXCEPT !["ego"] = ego.error]
              /\ diskFailed' = [d \in Devices |-> diskFailed[d] \/ bad = [kind |-> "disk", device |-> d]]
              /\ imuErrors' = [u \in UmiSet |-> imuErrors[u]
                                  + (IF bad = [kind |-> "imu", device |-> u] THEN 1 ELSE 0)]
              /\ erredIn' = [u \in UmiSet |-> erredIn[u]
                                  \cup (IF bad = [kind |-> "imu", device |-> u] THEN {PhaseAt(now')} ELSE {})]
              /\ recorderLost' = [u \in UmiSet |-> recorderLost[u] \/ bad = [kind |-> "recorder", device |-> u]]
    /\ stop' \in {stop} \cup (IF pc = "postroll" THEN {} ELSE {TRUE})   \* nobody looks at it there
    /\ UNCHANGED <<inputVars, raises, pc, step, deviceVars, outcome, formalStart, aborted, imuVars, motion, status>>

-----------------------------------------------------------------------------
(* main's loops.                                                            *)

\* An exception leaves the try statement for its finally clause.
Leave(exception) == outcome' = exception /\ pc' = "cleanup" /\ UNCHANGED waited
Stay == waited' = TRUE /\ UNCHANGED <<pc, outcome>>

\* process_umi_frames(start).
Drained(start) == [u \in UmiSet |-> Recorded(u, rsQueue[u], start)]
Drain(start) ==
    LET drained == Drained(start)
    IN  /\ rsQueue' = [u \in UmiSet |-> <<>>]
        /\ seen' = [d \in Devices |-> IF d \in UmiSet THEN drained[d].seen ELSE seen[d]]
        /\ disk' = [d \in Devices |-> IF d \in UmiSet THEN drained[d].disk ELSE disk[d]]
        /\ error' = [d \in Devices |-> IF d \in UmiSet THEN drained[d].error ELSE error[d]]

\* A UMI has delivered enough, without an error (after the frames of this pass).
RuntimeReady(u) == Len(seen'[u]) >= WARM_FRAMES /\ ~error'[u]

\* The warm-up: the counters of a ready UMI must stand still for a while.  An
\* operator who gives up here (q in the preview) is met with a TypeError: there
\* is no formal start to add a second to.
WarmPass ==
    /\ pc = "warm" /\ ~waited
    /\ IF stop
       THEN Leave("cancelled") /\ UNCHANGED <<rsQueue, frameVars, error, stable, stableSince, formalStart, aborted>>
       ELSE /\ Drain(Unset)
            /\ stable' = [u \in UmiSet |-> IF RuntimeReady(u) THEN imuErrors[u] ELSE Unset]
            /\ stableSince' = [u \in UmiSet |->
                  IF ~RuntimeReady(u) THEN Unset
                  ELSE IF imuErrors[u] # stable[u] THEN now ELSE stableSince[u]]
            /\ LET ready == /\ Len(seen["ego"]) >= WARM_FRAMES /\ ~error["ego"]
                            /\ \A u \in Used : /\ stableSince'[u] # Unset
                                               /\ now - stableSince'[u] >= IMU_STABLE
                            /\ now >= MIN_WARMUP
               IN  IF ready
                   THEN /\ formalStart' = now + delay /\ pc' = "guard"
                        /\ UNCHANGED <<outcome, waited, aborted>>
                   ELSE /\ UNCHANGED formalStart
                        /\ \/ /\ IF now >= WARMUP_TIMEOUT THEN Leave("error") ELSE Stay
                              /\ UNCHANGED aborted
                           \/ /\ now < WARMUP_TIMEOUT
                              /\ aborted' = TRUE /\ Leave("error")
    /\ UNCHANGED <<inputVars, now, inFlight, imuErrors, recorderLost, diskFailed, stop, misfortunes, erredIn,
                   raises, step, deviceVars, errorStart, errorEnd, motion, status>>

\* Mutants: plausible bugs in the operations below; no specification uses them.
DriftedFirst == imuErrors[umis[1]] # stable[umis[1]]

Drifted == \E u \in Used : imuErrors[u] # stable[u]

\* A pass of the start guard: an IMU transport error is not forgiven any more.
GuardPass ==
    /\ pc = "guard" /\ ~waited /\ now < formalStart
    /\ IF stop
       THEN Leave("cancelled") /\ UNCHANGED <<rsQueue, frameVars, error, aborted, errorEnd>>
       ELSE /\ Drain(formalStart)
            /\ \/ /\ Drifted
                  /\ Leave("error") /\ UNCHANGED <<aborted, errorEnd>>
               \/ /\ ~Drifted
                  /\ Stay /\ UNCHANGED <<aborted, errorEnd>>
               \/ /\ ~Drifted
                  /\ aborted' = TRUE /\ errorEnd' = imuErrors /\ pc' = "postroll"
                  /\ UNCHANGED <<outcome, waited>>
    /\ UNCHANGED <<inputVars, now, inFlight, imuErrors, recorderLost, diskFailed, stop, misfortunes, erredIn,
                   raises, step, deviceVars, formalStart, stable, stableSince, errorStart, motion, status>>

\* The formal start has come: the counters are read for the first time.
BeginFormal ==
    /\ pc = "guard" /\ ~waited /\ now >= formalStart
    /\ errorStart' = imuErrors /\ pc' = "formal"
    /\ UNCHANGED <<inputVars, hardware, raises, step, deviceVars, outcome, formalStart, aborted, waited, frameVars,
                   error, stable, stableSince, errorEnd, motion, status>>

\* A pass of the recording, whose errors are looked at only afterwards.
FormalPass ==
    /\ pc = "formal" /\ ~waited /\ now < FormalEnd
    /\ IF stop
       THEN Leave("cancelled") /\ UNCHANGED <<rsQueue, frameVars, error, aborted, errorEnd>>
       ELSE /\ Drain(formalStart)
            /\ \/ Stay /\ UNCHANGED <<aborted, errorEnd>>
               \/ /\ aborted' = TRUE /\ errorEnd' = imuErrors /\ pc' = "postroll"
                  /\ UNCHANGED <<outcome, waited>>
    /\ UNCHANGED <<inputVars, now, inFlight, imuErrors, recorderLost, diskFailed, stop, misfortunes, erredIn,
                   raises, step, deviceVars, formalStart, stable, stableSince, errorStart, motion, status>>

\* The window is over: the counters are read for the second time.
EndFormal ==
    /\ pc = "formal" /\ ~waited /\ now >= FormalEnd
    /\ errorEnd' = imuErrors /\ pc' = "postroll"
    /\ UNCHANGED <<inputVars, hardware, raises, step, deviceVars, outcome, formalStart, aborted, waited, frameVars,
                   error, stable, stableSince, errorStart, motion, status>>

\* Frames of the window that are still on their way are waited for.
PostrollPass ==
    /\ pc = "postroll" /\ ~waited /\ now < FormalEnd + POSTROLL
    /\ Drain(formalStart) /\ Stay
    /\ UNCHANGED <<inputVars, now, inFlight, imuErrors, recorderLost, diskFailed, stop, misfortunes, erredIn,
                   raises, step, deviceVars, formalStart, aborted, imuVars, motion, status>>

EndPostroll ==
    /\ pc = "postroll" /\ ~waited /\ now >= FormalEnd + POSTROLL
    /\ pc' = "cleanup"
    /\ UNCHANGED <<inputVars, hardware, raises, step, deviceVars, outcome, formalStart, aborted, waited, frameVars,
                   error, imuVars, motion, status>>

-----------------------------------------------------------------------------
(* Cleaning up, and the verdict.                                            *)

\* Mutants: plausible bugs in the operations below; no specification uses them.
CleanUpCallRaising ==
    /\ pc = "cleanup"
    /\ LET call == Calls[step]
       IN  \/ /\ held' = held \ {call}
              /\ manifest' = manifest \cup (IF call \in held /\ call.name = "writer" THEN {call.device} ELSE {})
              /\ NextCall /\ UNCHANGED <<stuck, raises, outcome>>
           \/ /\ call \in held /\ Raises
              /\ held' = held \ {call} /\ stuck' = stuck \cup {call}
              /\ outcome' = "error" /\ pc' = "end" /\ step' = 1 /\ UNCHANGED manifest
    /\ UNCHANGED <<inputVars, hardware, initialized, undone, formalStart, aborted, waited, frameVars, error, imuVars,
                   motion, status>>

\* One call of the finally clause, if there is something to stop.  An exception
\* becomes the device's error, and the next call follows all the same.  A
\* writer whose close raises has given its claim back.
CleanUpCall ==
    /\ pc = "cleanup"
    /\ LET call == Calls[step]
       IN  IF call \notin held THEN UNCHANGED <<held, stuck, manifest, error, raises>>
           ELSE /\ held' = held \ {call}
                /\ \/ /\ manifest' = manifest \cup (IF call.name = "writer" THEN {call.device} ELSE {})
                      /\ UNCHANGED <<stuck, error, raises>>
                   \/ /\ Raises
                      /\ stuck' = stuck \cup (IF call.name = "writer" THEN {} ELSE {call})
                      /\ error' = [error EXCEPT ![call.device] = TRUE]
                      /\ UNCHANGED manifest
    /\ NextCall
    /\ UNCHANGED <<inputVars, hardware, initialized, undone, outcome, formalStart, aborted, waited, frameVars, imuVars,
                   motion, status>>

\* formal_window_samples of state.samples.
FormalSamples(d) == Chosen(seen[d], {i \in DOMAIN seen[d] : seen[d][i].formal /\ seen[d][i].at < FormalEnd})

\* evaluate_stream: at the given rates a gap is what can be wrong.
StreamPasses(rows) == Len(rows) >= 2 /\ \A i \in 1..Len(rows) - 1 : rows[i + 1].n = rows[i].n + 1

\* build_capture_acceptance.
EgoPasses ==
    /\ StreamPasses(FormalSamples("ego")) /\ ~error["ego"] /\ ~aborted
    /\ FormalSamples("ego")[1].at - formalStart <= START_LAG_MAX

\* counter_delta; an aborted run has no first reading.
ImuPasses(u) == (errorStart[u] # Unset => errorEnd[u] <= errorStart[u]) /\ ~recorderLost[u]

UmiPasses(u) == StreamPasses(FormalSamples(u)) /\ ~error[u] /\ u \in manifest /\ ImuPasses(u)

\* Mutants: plausible bugs in the operations below; no specification uses them.
CrossPassesFormal(d, u) ==
    /\ FormalSamples(d) # <<>> /\ FormalSamples(u) # <<>>
    /\ \A f \in ToSet(FormalSamples(d)) :
           \E c \in ToSet(FormalSamples(u)) : Distance(f.at, c.at) <= NEAREST_MAX

\* cross_timing_report: the formal frames of one device against all timed ones
\* of another.
CrossPasses(d, u) ==
    LET timed == {r \in ToSet(seen[u]) : r.timed}
    IN  /\ FormalSamples(d) # <<>> /\ timed # {}
        /\ \A f \in ToSet(FormalSamples(d)) : \E c \in timed : Distance(f.at, c.at) <= NEAREST_MAX

Verdict ==
    IF /\ EgoPasses /\ \A u \in Used : UmiPasses(u) /\ CrossPasses("ego", u)
       /\ Len(umis) = 2 => CrossPasses(umis[1], umis[2])
       /\ motion' = "PASS"
    THEN "PASS" ELSE "FAIL"

\* The reports are written; that may raise.
Report ==
    /\ pc = "report"
    /\ \/ motion' \in {"PASS", "FAIL"} /\ status' = Verdict /\ UNCHANGED <<raises, outcome>>
       \/ Raises /\ outcome' = "error" /\ UNCHANGED <<motion, status>>
    /\ pc' = "end"
    /\ UNCHANGED <<inputVars, hardware, step, deviceVars, formalStart, aborted, waited, frameVars, error, imuVars>>

Owner == \/ SetUp \/ UndoWriter \/ Tick \/ WarmPass \/ GuardPass \/ BeginFormal \/ FormalPass \/ EndFormal
         \/ PostrollPass \/ EndPostroll \/ CleanUpCall \/ Report

=============================================================================
