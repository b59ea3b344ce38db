------------------------------- MODULE OrbLive -------------------------------
(***************************************************************************)
(* The live programs around ORB-SLAM3: scripts/device3_world_live_pair.py  *)
(* ("pair") and the acceptance scripts/run_d435i_orbslam3_live.py ("hil"). *)
(* The SDK's callbacks combine gyro and accel samples (OnlineImuCombiner)  *)
(* and hand samples and stereo pairs to OrbSlam3LiveProcess, which sends a *)
(* pair with the samples that cover it to a native child                   *)
(* (native/orbslam3_live_adapter); main takes the poses that come back.    *)
(*                                                                         *)
(* A timestamp is a number: an IMU sample of each kind at every time, a    *)
(* stereo pair at every Spacing-th.  A pose is known by the map of ORB it  *)
(* is in: a reset begins a new map.  Device 3, whose world anchor comes    *)
(* from the same images, is left out; a failure that its VINS reports is   *)
(* one of those that end a pass of main's loop.                            *)
(***************************************************************************)
EXTENDS Integers, Sequences, SequencesExt, FiniteSetsExt

CONSTANTS
    Programs,           \* the programs to look at
    PairTime, HilTime,  \* the last timestamp, in either program
    Spacing,            \* between two stereo pairs
    Skew,               \* by which gyro and accel may be apart, in the acceptance
    Lead,               \* imu_lead_ns
    MaxGap,             \* max_gap_ns of the combiner
    MinImu,             \* min_imu_samples_per_frame
    QueueDepth,         \* queue_depth; the pending frames have the same bound here
    Backlog,            \* max_write_backlog of the pair
    Unpressed,          \* timestamp of the last of its first backpressure_after_frames images
    Stale,              \* max_delta_ns of nearest_ego_inputs
    MinInliers,         \* minimum_inliers
    MaxCandidates,      \* maximum_candidates
    MaxPoses,           \* poses that wait for main when an image comes
    MaxMaps,            \* maps that ORB begins
    MaxFaults           \* faults of the cameras, the child and the calls of main

\* The bounds that OrbSlam3LiveProcess checks, and times and counts that are numbers.
ASSUME LiveAssumption ==
    /\ Programs \subseteq {"pair", "hil"}
    /\ {PairTime, HilTime, Skew, Lead, MaxGap, Stale, Unpressed} \subseteq Nat
    /\ {Spacing, QueueDepth, Backlog} \subseteq Nat \ {0}
    /\ MinImu \in Nat \ {0, 1}

VARIABLES
    program,
    sensors,    \* [gyro, accel, stereo]: last timestamps; running
    combiner,   \* [gyro, accel]: the pending gyro stamps, the accel stamps
    feed,       \* [active, error, image]: the owner's flags and the latest pair
    orb,        \* OrbSlam3LiveProcess, under its lock
    writer,     \* its writer thread: [pc, packet]
    child,      \* the native adapter, and the map of ORB-SLAM3
    reader,     \* its reader thread: [pc, received]; it takes a pose when the child has written it
    poses,      \* its queue of poses
    main, world,\* the program; what it has anchored and published
    stopped,    \* a signal, the operator or the configured duration
    faults

vars == <<program, sensors, combiner, feed, orb, writer, child, reader, poses, main, world, stopped, faults>>

None     == 0                         \* no timestamp, no map
Shutdown == [kind |-> "shutdown"]
Sentinel == [kind |-> "sentinel"]

Init ==
    /\ program \in Programs
    /\ sensors = [gyro |-> None, accel |-> None, stereo |-> None, running |-> FALSE]
    /\ combiner = [gyro |-> {}, accel |-> {}]
    /\ feed = [active |-> FALSE, error |-> FALSE, image |-> None]
    /\ orb = [imu |-> <<>>, pending |-> <<>>, lastImu |-> None, lastSent |-> None, failure |-> FALSE,
              raised |-> FALSE, stop |-> FALSE, queue |-> <<>>, received |-> {}, accepted |-> {},
              sent |-> <<>>]
    /\ writer = [pc |-> "get", packet |-> Sentinel]
    /\ child = [pc |-> "none", frame |-> None, code |-> 0, input |-> "open", map |-> 1, born |-> None,
                unseen |-> FALSE, ready |-> FALSE]
    /\ reader = [pc |-> "run", received |-> <<>>] /\ poses = <<>>
    /\ main = [pc |-> "start", raised |-> FALSE, returned |-> None,
               transport |-> FALSE, status |-> "none"]
    /\ world = [ready |-> FALSE, odometry |-> {}, window |-> <<>>, anchor |-> None, rows |-> {}]
    /\ stopped = FALSE /\ faults = 0

\* Before main has left its loop.
InLoop == main.pc \in {"start", "await", "sensors", "loop", "drain", "poll", "anchor"}

Fault == faults < MaxFaults /\ faults' = faults + 1

-----------------------------------------------------------------------------
(* OnlineImuCombiner.                                                       *)

\* _drain takes the pending gyro stamps that an accel sample has reached, and
\* interpolates at those that lie between two samples not too far apart.
Reached(c) == {g \in c.gyro : \E a \in c.accel : g <= a}
Covered(c, g) ==
    \/ g \in c.accel
    \/ \E lo, hi \in c.accel :
          lo < g /\ g < hi /\ hi - lo <= MaxGap /\ ~\E a \in c.accel : lo < a /\ a < hi
Combined(c) == {g \in Reached(c) : Covered(c, g)}
Drained(c)  == [c EXCEPT !.gyro = @ \ Reached(c)]

-----------------------------------------------------------------------------
(* OrbSlam3LiveProcess: operations on its state, all under its lock.        *)

Set_failure(o) == [o EXCEPT !.failure = TRUE, !.raised = TRUE]

\* The first pending frame is old enough that every sample up to it is here.
Ready(o, lead) == o.pending # <<>> /\ o.lastImu >= Head(o.pending) + lead

\* put_nowait of a packet.  A full queue loses what was taken for the packet.
Enqueue(o, frame, measurements) ==
    IF Len(o.queue) = QueueDepth
    THEN Set_failure(o)
    ELSE [o EXCEPT !.queue = Append(@, [kind |-> "frame", frame |-> frame, imu |-> measurements]),
                   !.lastSent = frame, !.accepted = @ \cup {frame}, !.sent = @ \o measurements]

\* Mutants: plausible bugs in the operations below; no specification uses them.
Release_LosesTheInterval(o) ==
    LET frame    == Head(o.pending)
        rest     == [o EXCEPT !.pending = Tail(@)]
        eligible == Cardinality({t \in ToSet(o.imu) : t <= frame})
    IN  IF o.lastSent = None
        THEN Enqueue([rest EXCEPT !.imu = SubSeq(@, Max({1, eligible}), Len(@))], frame, <<>>)
        ELSE IF eligible < MinImu
        THEN [rest EXCEPT !.imu = SubSeq(@, eligible + 1, Len(@))]
        ELSE Enqueue([rest EXCEPT !.imu = SubSeq(@, eligible + 1, Len(@))], frame, SubSeq(o.imu, 1, eligible))

\* One turn of _drain_ready_frames.  The first image carries no sample, and the
\* last sample before it is kept as the boundary of the second's; an image with
\* too few samples is dropped, and leaves them to the next.
Release(o) ==
    LET frame    == Head(o.pending)
        rest     == [o EXCEPT !.pending = Tail(@)]
        eligible == Cardinality({t \in ToSet(o.imu) : t <= frame})
    IN  IF o.lastSent = None
        THEN Enqueue([rest EXCEPT !.imu = SubSeq(@, Max({1, eligible}), Len(@))], frame, <<>>)
        ELSE IF eligible < MinImu
        THEN rest
        ELSE Enqueue([rest EXCEPT !.imu = SubSeq(@, eligible + 1, Len(@))], frame, SubSeq(o.imu, 1, eligible))

\* _drain_ready_frames.
Turn(o, lead) == IF ~o.raised /\ Ready(o, lead) THEN Release(o) ELSE o
Drain(o, lead) ==
    LET after[n \in 0..Len(o.pending)] == IF n = 0 THEN o ELSE Turn(after[n - 1], lead)
    IN  after[Len(o.pending)]

Push_imu(o, t) ==
    IF o.raised \/ o.failure THEN [o EXCEPT !.raised = TRUE]
    ELSE Drain([o EXCEPT !.imu = Append(@, t), !.lastImu = t, !.received = @ \cup {t}], Lead)

\* The samples of some times, in order.
Sampled(o, t, times) == IF t \in times THEN Push_imu(o, t) ELSE o
Push_samples(o, times) ==
    LET after[t \in 0..Max({None} \cup times)] == IF t = 0 THEN o ELSE Sampled(after[t - 1], t, times)
    IN  after[Max({None} \cup times)]

\* Backpressure drops an image before any sample is taken for it; the pair's
\* first images are queued without it.
Push_stereo(o, frame) ==
    IF o.raised \/ o.failure THEN [o EXCEPT !.raised = TRUE]
    ELSE IF program = "pair" /\ frame > Unpressed /\ Len(o.queue) >= Backlog
    THEN o
    ELSE LET waiting == [o EXCEPT !.pending = Append(@, frame)]
         IN  IF Len(waiting.pending) > QueueDepth THEN Set_failure(waiting) ELSE Drain(waiting, Lead)

-----------------------------------------------------------------------------
(* The SDK's callbacks, _on_ego_frame and LiveOwner.callback.               *)

\* Before begin_ego_orb and begin_orb nothing goes to ORB: what the cameras send
\* until then is left out.  An exception is latched by the owner of the cameras.

Handled(o) ==
    /\ orb' = [o EXCEPT !.raised = FALSE]
    /\ feed' = [feed EXCEPT !.error = @ \/ o.raised]

\* A sample of one kind; some may be missing, which is a fault of the camera.
Motion(kind, other) ==
    /\ sensors.running /\ feed.active /\ program = "hil"
    /\ \E t \in sensors[kind] + 1..HilTime :
         /\ t <= sensors[other] + Skew
         /\ IF t > sensors[kind] + 1 THEN Fault ELSE UNCHANGED faults
         /\ sensors' = [sensors EXCEPT ![kind] = t]
         /\ LET c == [combiner EXCEPT ![kind] = @ \cup {t}]
            IN  combiner' = Drained(c) /\ Handled(Push_samples(orb, Combined(c)))
    /\ UNCHANGED <<program, writer, child, reader, poses, main, world, stopped>>

Gyro  == Motion("gyro", "accel")
Accel == Motion("accel", "gyro")

\* A stereo pair; one whose images do not match is left out.
Frames(last) == {f \in {sensors.stereo + Spacing, sensors.stereo + 2 * Spacing} : f <= last}

\* It comes when its samples do, but for a fault.
Stereo ==
    /\ sensors.running /\ feed.active /\ program = "hil"
    /\ \E frame \in Frames(HilTime) :
         /\ IF frame > sensors.stereo + Spacing \/ frame > sensors.accel + Skew THEN Fault ELSE UNCHANGED faults
         /\ sensors' = [sensors EXCEPT !.stereo = frame]
         /\ Handled(Push_stereo(orb, frame))
    /\ UNCHANGED <<program, combiner, writer, child, reader, poses, main, world, stopped>>

\* In the pair all samples come in time, and a stereo pair with them.
StereoAndSamples ==
    /\ sensors.running /\ feed.active /\ program = "pair" /\ Len(poses) < MaxPoses
    /\ LET frame == sensors.stereo + Spacing
       IN  /\ frame <= PairTime
           /\ sensors' = [sensors EXCEPT !.stereo = frame, !.gyro = frame + Lead, !.accel = frame + Lead]
           /\ LET o == Push_stereo(Push_samples(orb, sensors.gyro + 1..frame + Lead), frame)
              IN  /\ orb' = [o EXCEPT !.raised = FALSE]
                  /\ feed' = [feed EXCEPT !.error = @ \/ o.raised, !.image = IF o.raised \/ ~InLoop THEN @ ELSE frame]
    /\ UNCHANGED <<program, combiner, writer, child, reader, poses, main, world, stopped, faults>>

\* A frame with a timestamp of another clock, or anything else that raises.
CallbackRaises ==
    /\ sensors.running /\ ~feed.error /\ program = "hil" /\ Fault
    /\ feed' = [feed EXCEPT !.error = TRUE]
    /\ UNCHANGED <<program, sensors, combiner, orb, writer, child, reader, poses, main, world, stopped>>

-----------------------------------------------------------------------------
(* The threads of OrbSlam3LiveProcess.                                      *)

\* _writer_loop.  A frame does not fit into the pipe: the write ends when the
\* child reads it.  A write to a closed file raises what the loop does not catch.
WriterGets ==
    /\ writer.pc = "get" /\ orb.queue # <<>>
    /\ orb' = [orb EXCEPT !.queue = Tail(@)]
    /\ writer' = [pc |-> IF Head(orb.queue) = Sentinel THEN "done"
                         ELSE IF child.input = "closed" THEN "dead" ELSE "write",
                  packet |-> Head(orb.queue)]
    /\ UNCHANGED <<program, sensors, combiner, feed, child, reader, poses, main, world, stopped, faults>>

WriterWrites ==
    /\ writer.pc = "write"
    /\ \/ /\ child.pc = "exited"
          /\ writer' = [writer EXCEPT !.pc = "dead"]
          /\ orb' = [orb EXCEPT !.failure = @ \/ ~orb.stop]
          /\ UNCHANGED child
       \/ /\ child.pc # "exited" /\ writer.packet = Shutdown
          /\ writer' = [writer EXCEPT !.pc = "get"]
          /\ child' = [child EXCEPT !.input = "ending"]
          /\ UNCHANGED orb
       \/ /\ child.pc = "idle" /\ writer.packet # Shutdown
          /\ writer' = [writer EXCEPT !.pc = "get"]
          /\ child' = [child EXCEPT !.pc = "track", !.frame = writer.packet.frame]
          /\ UNCHANGED orb
    /\ UNCHANGED <<program, sensors, combiner, feed, reader, poses, main, world, stopped, faults>>

\* _reader_loop: the end of the pipe, or a pose that is none, is a failure unless
\* the process is being stopped.
EndReader ==
    /\ reader.pc = "run"
    /\ reader' = [reader EXCEPT !.pc = "done"]
    /\ orb' = [orb EXCEPT !.failure = @ \/ ~orb.stop]
    /\ UNCHANGED <<program, sensors, combiner, feed, writer, child, poses, main, world, stopped>>
ReaderEnds  == child.pc = "exited" /\ EndReader /\ UNCHANGED faults
ReaderFails == child.pc \in {"idle", "track"} /\ EndReader /\ Fault

-----------------------------------------------------------------------------
(* The native adapter and, external to the repository, ORB-SLAM3.           *)

ChildLoads ==
    /\ child.pc = "loading"
    /\ child' = [child EXCEPT !.pc = "idle"]
    /\ UNCHANGED <<program, sensors, combiner, feed, orb, writer, reader, poses, main, world, stopped, faults>>

\* TrackStereo, which may lose its map and begin another, then the pose, which
\* _reader_loop counts and queues; without a reader the child dies of it.
ChildTracks ==
    /\ child.pc = "track"
    /\ IF reader.pc = "done"
       THEN child' = [child EXCEPT !.pc = "exited", !.code = 1] /\ UNCHANGED <<reader, poses>>
       ELSE \E reset \in {FALSE} \cup {program = "pair" /\ child.born # None /\ child.map < MaxMaps} :
              LET begins == reset \/ child.born = None
                  map    == IF reset THEN child.map + 1 ELSE child.map
                  pose   == [frame |-> child.frame, ready |-> child.ready /\ ~begins, map |-> map]
              IN  /\ child' = IF InLoop
                               THEN [child EXCEPT !.pc = "idle", !.map = map, !.ready = pose.ready,
                                            !.born = IF begins THEN child.frame ELSE @, !.unseen = @ \/ reset]
                               ELSE [child EXCEPT !.pc = "idle"]
                  /\ reader' = [reader EXCEPT !.received = IF program = "hil" THEN Append(@, pose.frame) ELSE @]
                  /\ poses' = IF program = "pair" /\ InLoop THEN Append(poses, pose) ELSE poses
    /\ UNCHANGED <<program, sensors, combiner, feed, orb, writer, main, world, stopped, faults>>

\* The local mapping thread completes its second inertial bundle adjustment.
\* That takes some 15 s of a map: longer than a pose stays fresh, and than main
\* needs to see that the map was reset.
Ba2Completes ==
    /\ InLoop /\ child.pc \in {"idle", "track"} /\ ~child.ready /\ ~child.unseen
    /\ child.born # None /\ child.frame > child.born + Stale
    /\ child' = [child EXCEPT !.ready = TRUE]
    /\ UNCHANGED <<program, sensors, combiner, feed, orb, writer, reader, poses, main, world, stopped, faults>>

\* A shutdown packet or the end of its input.
ChildEnds ==
    /\ child.pc = "idle" /\ child.input # "open"
    /\ child' = [child EXCEPT !.pc = "exited"]
    /\ UNCHANGED <<program, sensors, combiner, feed, orb, writer, reader, poses, main, world, stopped, faults>>

ChildCrashes ==
    /\ child.pc \in {"loading", "idle", "track"} /\ Fault
    /\ child' = [child EXCEPT !.pc = "exited", !.code = 1]
    /\ UNCHANGED <<program, sensors, combiner, feed, orb, writer, reader, poses, main, world, stopped>>

-----------------------------------------------------------------------------
(* Main: the start and the loop.                                            *)

Goto(pc) == main' = [main EXCEPT !.pc = pc]
Raise    == main' = [main EXCEPT !.pc = "closing", !.raised = TRUE]

\* What only the loop reads is forgotten when it is left.
Leave(raised) ==
    /\ main' = [main EXCEPT !.pc = "closing", !.raised = @ \/ raised, !.returned = None]
    /\ poses' = <<>>
    /\ world' = [world EXCEPT !.ready = FALSE, !.odometry = {}, !.window = <<>>]
    /\ child' = [child EXCEPT !.map = 1, !.born = None, !.unseen = FALSE, !.ready = FALSE]
    /\ feed' = [feed EXCEPT !.image = None]

\* OrbSlam3LiveProcess.start: a runtime that is not the pinned one raises before
\* the child exists; a child that is not ready in time is stopped by force.
Start ==
    /\ main.pc = "start"
    /\ \/ Raise /\ Fault /\ UNCHANGED child
       \/ Goto("await") /\ child' = [child EXCEPT !.pc = "loading"] /\ UNCHANGED faults
    /\ UNCHANGED <<program, sensors, combiner, feed, orb, writer, reader, poses, world, stopped>>

Await ==
    /\ main.pc = "await"
    /\ \/ child.pc = "exited" /\ Raise /\ UNCHANGED <<orb, faults>>
       \/ child.pc = "idle" /\ Goto("sensors") /\ UNCHANGED <<orb, faults>>
       \/ /\ child.pc = "loading" /\ Fault
          /\ orb' = [orb EXCEPT !.stop = TRUE]
          /\ main' = [main EXCEPT !.pc = "close", !.raised = TRUE]
    /\ UNCHANGED <<program, sensors, combiner, feed, writer, child, reader, poses, world, stopped>>

StartSensors ==
    /\ main.pc = "sensors"
    /\ sensors' = [sensors EXCEPT !.running = TRUE]
    /\ \/ Goto("loop") /\ UNCHANGED faults
       \/ Raise /\ Fault
    /\ UNCHANGED <<program, combiner, feed, orb, writer, child, reader, poses, world, stopped>>

\* The operator's phases go on: the images go to ORB from the second one on,
\* with a new combiner (begin_ego_orb, begin_orb).
NextPhase ==
    /\ main.pc = "loop" /\ ~stopped /\ ~feed.active
    /\ feed' = [feed EXCEPT !.active = TRUE]
    /\ combiner' = [gyro |-> {}, accel |-> {}]
    /\ UNCHANGED <<program, sensors, orb, writer, child, reader, poses, main, world, stopped, faults>>

\* check_alive, and what the threads of the program have latched.
Alarm ==
    \/ orb.failure \/ child.pc = "exited"
    \/ program = "hil" /\ feed.error

\* A pass of the loop that finds anything at all; a pass may also raise.
LoopTop ==
    /\ main.pc = "loop"
    /\ \/ stopped /\ Leave(FALSE) /\ UNCHANGED faults
       \/ ~stopped /\ Alarm /\ Leave(TRUE) /\ UNCHANGED faults
       \/ ~stopped /\ ~Alarm /\ Leave(TRUE) /\ Fault
       \/ /\ ~stopped /\ ~Alarm /\ program = "pair"
          /\ poses # <<>> \/ feed.error \/ feed.image # main.returned
          /\ Goto("drain") /\ UNCHANGED <<child, feed, poses, world, faults>>
    /\ UNCHANGED <<program, sensors, combiner, orb, writer, reader, stopped>>

\* _assert_ego_anchor_epoch_valid.
EpochIsValid(pose) == world.anchor = None \/ pose.ready

\* ingest_ego_orb_pose; poses too old for any image to come are forgotten here.
Ingested(pose) ==
    [world EXCEPT !.ready = pose.ready,
                  !.odometry = {o \in @ : o.time + Stale >= main.returned} \cup {[time |-> pose.frame, map |-> pose.map]},
                  !.rows = IF world.anchor # None THEN @ \cup {pose.map} ELSE @]

\* All poses that have come are taken before an image is looked at.
DrainPose ==
    /\ main.pc = "drain"
    /\ IF orb.failure \/ (poses # <<>> /\ ~EpochIsValid(Head(poses))) THEN Leave(TRUE)
       ELSE IF poses = <<>> THEN Goto("poll") /\ UNCHANGED <<feed, child, poses, world>>
       ELSE poses' = Tail(poses) /\ world' = Ingested(Head(poses)) /\ UNCHANGED <<feed, child, main>>
    /\ UNCHANGED <<program, sensors, combiner, orb, writer, reader, stopped, faults>>

\* SharedPairSensors.poll; every third image is searched while an anchor misses.
Poll ==
    /\ main.pc = "poll"
    /\ IF feed.error THEN Leave(TRUE)
       ELSE /\ UNCHANGED <<feed, child, poses, world>>
            /\ \E pc \in {"loop"} \cup (IF feed.image # main.returned THEN {"anchor"} ELSE {}) :
                  main' = [main EXCEPT !.pc = pc, !.returned = feed.image]
    /\ UNCHANGED <<program, sensors, combiner, orb, writer, reader, stopped, faults>>

-----------------------------------------------------------------------------
(* Main: the world anchors of the pair.                                     *)

Distance(a, b) == IF a < b THEN b - a ELSE a - b

\* nearest_ego_inputs: the poses nearest to the image, if they are fresh.
Nearest(image) ==
    {o \in world.odometry :
        /\ Distance(o.time, image) <= Stale
        /\ \A p \in world.odometry : Distance(o.time, image) <= Distance(p.time, image)}

\* Device3WorldAnchorController.process_window, frozen once it has an anchor.
\* The candidates of a batch that agree may be any.
Decisions(batch) ==
    IF world.anchor # None THEN {world.anchor}
    ELSE {None} \cup (IF Len(batch) >= MinInliers THEN ToSet(batch) ELSE {})

\* AnchorCandidateWindow.add, and the decision on a full window: one of some
\* candidates, or of some time.
Added(candidate) ==
    LET batch == Append(world.window, candidate)
    IN  (IF Len(batch) < MaxCandidates THEN {[world EXCEPT !.window = batch]} ELSE {})
          \cup (IF Len(batch) >= 2
                THEN {[world EXCEPT !.window = <<>>, !.anchor = anchor] : anchor \in Decisions(batch)} ELSE {})

\* Mutants: plausible bugs in the operations below; no specification uses them.
Search_KeepsTheWindow ==
    /\ main.pc = "anchor"
    /\ Goto("loop")
    /\ world' \in {world} \cup (IF world.ready THEN UNION {Added(o.map) : o \in Nearest(main.returned)} ELSE {})
    /\ child' = [child EXCEPT !.unseen = @ /\ world.ready]
    /\ UNCHANGED <<program, sensors, combiner, feed, orb, writer, reader, poses, stopped, faults>>

\* The image is searched for the board: without it, without a fresh pose or
\* before ORB is ready, the window is cleared.  The anchor of device 3 comes from
\* the same image.
Search ==
    /\ main.pc = "anchor"
    /\ Goto("loop")
    /\ world' \in {[world EXCEPT !.window = <<>>]}
                     \cup (IF world.ready THEN UNION {Added(o.map) : o \in Nearest(main.returned)} ELSE {})
    /\ child' = [child EXCEPT !.unseen = @ /\ world.ready]
    /\ UNCHANGED <<program, sensors, combiner, feed, orb, writer, reader, poses, stopped, faults>>

-----------------------------------------------------------------------------
(* Main: the end.                                                           *)

\* The status is settled first; then the cameras are closed.  An exception of
\* the SDK is swallowed by the pair, and ends the acceptance.
CloseSensors ==
    /\ main.pc = "closing"
    /\ \/ /\ sensors' = [sensors EXCEPT !.running = FALSE]
          /\ main' = [main EXCEPT !.pc = "finish", !.status = "ending"]
          /\ UNCHANGED faults
       \/ /\ sensors.running /\ Fault
          /\ main' = IF program = "pair" THEN [main EXCEPT !.pc = "finish", !.status = "ending"]
                     ELSE [main EXCEPT !.pc = "exit", !.raised = TRUE]
          /\ UNCHANGED sensors
    /\ UNCHANGED <<program, combiner, feed, orb, writer, child, reader, poses, world, stopped>>

\* finish_input; if it raises, stop is not called.
FinishInput ==
    /\ main.pc = "finish"
    /\ LET o == Drain(orb, 0)
       IN  /\ orb' = [o EXCEPT !.raised = FALSE]
           /\ main' = [main EXCEPT !.pc = IF o.raised \/ child.pc = "none" THEN "exit"
                                          ELSE IF program = "pair" THEN "stop" ELSE "settle",
                                   !.raised = @ \/ o.raised]
    /\ UNCHANGED <<program, sensors, combiner, feed, writer, child, reader, poses, world, stopped, faults>>

\* Mutants: plausible bugs in the operations below; no specification uses them.
Settle_ForSomeTime ==
    /\ main.pc = "settle"
    /\ main' = [main EXCEPT !.pc = "stop", !.transport = ~orb.failure]
    /\ UNCHANGED <<program, sensors, combiner, feed, orb, writer, child, reader, poses, world, stopped, faults>>

\* The acceptance waits for the poses that are missing, but not for ever; to
\* poll them raises what has failed.
Settle ==
    /\ main.pc = "settle"
    /\ LET complete == Len(reader.received) = Cardinality(orb.accepted)
       IN  \/ main' = [main EXCEPT !.pc = "stop", !.transport = complete /\ ~orb.failure]
           \/ ~complete /\ orb.failure /\ main' = [main EXCEPT !.pc = "exit", !.raised = TRUE]
    /\ UNCHANGED <<program, sensors, combiner, feed, orb, writer, child, reader, poses, world, stopped, faults>>

\* OrbSlam3LiveProcess.stop: a child that lives gets a shutdown packet, and the
\* queue is joined; then the queue gets the sentinel and the pipe is closed.
Stop ==
    /\ main.pc = "stop"
    /\ orb' = [orb EXCEPT !.stop = TRUE]
    /\ Goto(IF child.pc = "exited" THEN "close" ELSE "put")
    /\ UNCHANGED <<program, sensors, combiner, feed, writer, child, reader, poses, world, stopped, faults>>

\* Mutants: plausible bugs in the operations below; no specification uses them.
PutShutdown_Waits ==
    /\ main.pc = "put" /\ Len(orb.queue) < QueueDepth
    /\ orb' = [orb EXCEPT !.queue = Append(@, Shutdown)]
    /\ Goto("join")
    /\ UNCHANGED <<program, sensors, combiner, feed, writer, child, reader, poses, world, stopped, faults>>

PutShutdown ==
    /\ main.pc = "put"
    /\ IF Len(orb.queue) < QueueDepth
       THEN orb' = [orb EXCEPT !.queue = Append(@, Shutdown)] /\ Goto("join")
       ELSE Goto("close") /\ UNCHANGED orb
    /\ UNCHANGED <<program, sensors, combiner, feed, writer, child, reader, poses, world, stopped, faults>>

JoinQueue ==
    /\ main.pc = "join" /\ orb.queue = <<>> /\ writer.pc # "write"
    /\ Goto("close")
    /\ UNCHANGED <<program, sensors, combiner, feed, orb, writer, child, reader, poses, world, stopped, faults>>

\* stdin.close waits for a write under way.
CloseInput ==
    /\ main.pc = "close" /\ writer.pc # "write"
    /\ orb' = [orb EXCEPT !.queue = IF Len(@) < QueueDepth THEN Append(@, Sentinel) ELSE @]
    /\ child' = [child EXCEPT !.input = "closed"]
    /\ Goto("reap")
    /\ UNCHANGED <<program, sensors, combiner, feed, writer, reader, poses, world, stopped, faults>>

\* The child has two minutes, or is terminated.  A start that timed out goes on
\* to the end of the program; the acceptance reports unless it has raised.
Reap ==
    /\ main.pc = "reap"
    /\ IF child.pc = "exited" THEN UNCHANGED child ELSE child' = [child EXCEPT !.pc = "exited", !.code = 1]
    /\ main' = [main EXCEPT !.pc = IF main.status = "none" THEN "closing"
                                   ELSE IF program = "hil" /\ ~main.raised THEN "report" ELSE "exit"]
    /\ UNCHANGED <<program, sensors, combiner, feed, orb, writer, reader, poses, world, stopped, faults>>

\* The report passes what has met every check; rates, latencies, and what the
\* log says of the map are free.
Report ==
    /\ main.pc = "report"
    /\ \E status \in {"FAIL"} \cup (IF main.transport /\ ~feed.error /\ child.code = 0
                                    THEN {"PROVISIONAL_LIVE_LOCAL_PASS"} ELSE {}) :
          main' = [main EXCEPT !.pc = "exit", !.status = status]
    /\ UNCHANGED <<program, sensors, combiner, feed, orb, writer, child, reader, poses, world, stopped, faults>>

\* SIGINT, SIGTERM, q, the window or the duration.
StopRequested ==
    /\ main.pc = "loop" /\ ~stopped
    /\ stopped' = TRUE
    /\ UNCHANGED <<program, sensors, combiner, feed, orb, writer, child, reader, poses, main, world, faults>>

-----------------------------------------------------------------------------
(* The specification.                                                       *)

Callbacks == Gyro \/ Accel \/ Stereo \/ StereoAndSamples \/ CallbackRaises
Threads   == WriterGets \/ WriterWrites \/ ReaderEnds
Child     == ChildLoads \/ ChildTracks \/ ChildEnds
Main ==
    \/ Start \/ Await \/ StartSensors \/ NextPhase \/ LoopTop \/ DrainPose \/ Poll \/ Search
    \/ CloseSensors \/ FinishInput \/ Settle \/ Stop \/ PutShutdown \/ JoinQueue \/ CloseInput \/ Reap \/ Report

Next ==
    main.pc # "exit" /\ (Callbacks \/ Threads \/ ReaderFails \/ Child \/ Ba2Completes \/ ChildCrashes \/ Main
                            \/ StopRequested)

\* While a thread, the child or main can go on, one of them does.  A camera, a
\* user and ORB's mapping need not.
Spec == Init /\ [][Next]_vars /\ WF_vars(main.pc # "exit" /\ (Threads \/ Child \/ Main))

-----------------------------------------------------------------------------
(* Properties.                                                              *)

\* Until something fails, the packets accepted and the samples still waiting hold
\* every combined sample, once and in order, from the boundary of the first image
\* on: an image dropped for backpressure or for too few samples loses none
\* (test_live_backpressure_drops_image_before_consuming_imu).
InOrder(seq, times) == ToSet(seq) = times /\ \A i, j \in DOMAIN seq : i < j => seq[i] < seq[j]
Boundary(first) == LET before == {t \in orb.received : t <= first} IN IF before = {} THEN 0 ELSE Max(before)
SamplesAreKept ==
    ~orb.failure /\ orb.lastSent # None =>
        InOrder(orb.sent \o orb.imu, {t \in orb.received : t >= Boundary(Min(orb.accepted))})

\* Every Ego pose published in the world is of the map of ORB that the anchor was
\* taken in, though poses come late and the map may be reset at any time, also
\* while candidates are being collected (_assert_ego_anchor_epoch_valid; progress.md).
EgoWorldIsOneMap == world.rows \subseteq {world.anchor}

\* A passed acceptance has an answer to every image that ORB was given, in order,
\* and ORB was given every image but those with too few samples and those the last
\* samples do not cover; its child ended by itself.
PassIsAnswered ==
    main.status = "PROVISIONAL_LIVE_LOCAL_PASS" =>
        /\ InOrder(reader.received, orb.accepted)
        /\ \A frame \in ToSet(orb.pending) : frame > orb.lastImu
        /\ child.pc = "exited" /\ child.code = 0 /\ writer.pc # "dead"

\* The queue is joined after its writer has died of a broken pipe.
JoinIsStuck == main.pc = "join" /\ writer.pc = "dead" /\ orb.queue # <<>>

\* A program that is told to stop, or fails, ends, unless its child dies while its
\* queue is being joined.
LiveRunEnds == stopped \/ main.raised ~> main.pc = "exit" \/ JoinIsStuck

=============================================================================
