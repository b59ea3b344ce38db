# three-device-slam in TLA+

three-device-slam records capture sessions with several devices (an ego camera
and one or two wrist cameras with an external IMU) and turns a recording into
an immutable, indexed session. What is hard about it is not the pixels but the
coordination: processes that share nothing but a directory and a clock have to
agree on when a recording starts and stops, on who failed, on whether the
result may be trusted, and on who may write to the session at all; inside a
process, callbacks, reader and writer threads have to agree on the same things
with plain attributes and bounded queues. This directory models that
coordination, and the pure algorithms the trust in a recording rests on.

All paths below `core/`, `acquisition/`, `devices/`, `synchronization/`,
`quality/`, `spatial/`, `edge_rk3576/` and `edge_z2/` are relative to
`src/three_device_slam/`; `docs/`, `tests/` and `scripts/` are the
repository's.

## 1. The system

### Components

| Component | Code | State it keeps | Operations |
|---|---|---|---|
| Session claims | `core/session_lifecycle.py`, `core/session_writer.py` (claim), `synchronization/build_index.py` (lease, seal, publication) | marker files `.producer.<id>.lock`, `<device>/.writer.lock`, `.offline.lock`; `session.seal.json`; `sync/` | `producer_claim`, `AppendOnlySessionWriter`, `offline_claim`, `build_index` |
| Joint warm-up gate | `core/joint_gate.py`, `core/model.py` | state COLD, WARMING, JOINT_READY, RECORDING, BLOCKED; first, last and healthy-since times per device | `observe`, `tick`, `request_recording`, `observe_ego_frame` |
| Barrier directory | `core/barrier.py` | `start.json`, `stop.json`, `failure.<device>.json` with their `.lock` claims; `heartbeat.<device>.json` | `schedule_start`, `request_stop`, `latch_failure`, `write_heartbeat`, readers |
| Coordinator | `acquisition/coordinator.py` | the local variables of `_run_coordinator_claimed`: processes, results, gate, boundaries, errors | launch, poll loop, stop, terminate, report |
| Capture workers | `devices/d405_umi/worker.py`, `devices/two_uq2/worker.py` (and `devices/d435i_ego/worker.py`) | set up, warming, armed, recording, closing, exited; `acceptance.json`, exit code | set up, heartbeat, read start and stop, latch, finalize, exit |
| Append-only writer | `core/session_writer.py` | segment files, manifest, last timestamps | append, close, abort |
| 2UQ2 capture | `devices/two_uq2/capture.py`, `worker.py` | the streaming thread, the recorder's lock, the frames the verdict is about | callback, drain, verdict |
| D435i worker | `devices/d435i_ego/` | a callback thread per sensor, a bounded queue, a writer thread | callback, put, overflow, close, verdict |
| D405 recorder and IMU | `devices/d405_umi/recorder/`, `imu/`, `timing.py`, `worker.py` | reader and recorder threads, bounded queue, transport counters, fitted clock | read, decode, put, drain, stop, judge, hash |
| D405 camera | `devices/d405_umi/worker.py` | the monitor's queue of frames, the window of the last frames, the bag, the clock evidence, the formal rows | warm up, heartbeat, schedule, record, stop, judge |
| Calibration recording | `devices/two_uq2/calibration_capture.py` | driver, writer and preview threads, an IMU process with its message queue, the dataset directory | record, deadline, finish, verdict |
| RSUSB owner | `acquisition/rsusb_pair.py` | one process that owns all devices: their handles, queues, counters and windows | set-up, warm-up, guard, formal window, post-roll, clean-up, verdict |
| Synchronization index | `synchronization/build_index.py`, `sync_index.py`, `clock_mapping.py` | the rate of a device's clock; the rest is pure | clock mapping, grid, nearest frame, trainable verdict |
| Command line | `cli.py`, `config.py`, `run_product_capture` | none | capture, index, verify and the exit code over them |
| Edge capture | `edge_rk3576/rsusb_capture.py` | loop, pairing, writer threads with encoder processes, the session directory's publication | record, stop, publish, roll back |
| Older edge capture | `edge_rk3576/capture.py`, `preview.py` | a FIFO, spool threads with bounded queues, child processes, a preview server, the session directory | record, deadline, publish, clean up |
| Z2 session | `edge_z2/session.py`, `edge_z2/validate.py` | chunked payload files with an index each, the marker and the seal | append, rotate, seal, abort, validate |
| Live pair and live acceptance | `scripts/device3_world_live_pair.py`, `scripts/run_d435i_orbslam3_live.py`, `devices/d435i_ego/orbslam3_live.py` | the SDK's callbacks, a queue and writer thread to the ORB-SLAM3 child, its adapter, reader thread, world anchor | combine, send, answer, anchor, publish, stop |
| Verification | `quality/` | none | independent checks of finished files |
| Spatial runtime, exports | `spatial/`, `devices/*/live_*.py`, `devices/*/*_export.py` | numerical | alignment, transport |

### How they interact

```
        operator                       build_index (offline)
           |                                 |
      coordinator --popen, poll, kill--> workers        session directory
           |    \                        /   |      .producer.<id>.lock
           |     `--- barrier dir ------'    |      <device>/.writer.lock
           |       start, stop, failure,     |      .offline.lock
           |       heartbeat                 |      session.seal.json, sync/
           `------ acceptance.json, exit code
```

* The coordinator launches one worker per device, in a fixed order, and then
  runs one loop: read the clock, poll every process, read the failure records,
  judge new exits; before the start also feed the heartbeats to the gate, ask
  the operator, schedule the start; after it watch stop requests, heartbeats
  and the finalization grace. In the end it reads the acceptances and the
  failures once more, decides PASS, FAIL or BLOCKED and writes
  `coordinator.json`.
* A worker sets up its device, sends heartbeats, reads `start.json` (and
  rejects a start it reads too late), records until the duration is over or
  `stop.json` appears, writes `acceptance.json` and exits with 0, 2 or 3. A
  failure is latched in the barrier directory. The D405 latches first and
  writes its acceptance afterwards; the 2UQ2 does it the other way round.
* Whoever writes to a session takes a claim, a file created with `O_EXCL`,
  and then looks for the claims that forbid it. The offline publisher does the
  same with the roles exchanged, then captures and verifies the sources, seals
  the session and publishes the index.
* Inside a worker, what a driver's callback or a serial reader produces passes
  a bounded queue to a thread that writes it; the main thread sets the events
  and attributes that say which window a frame belongs to, stops the source,
  joins the threads and judges what they left behind.
* The product command with a D435i does without the coordinator: `run_pair`
  owns every device in one process; the command line then builds the index
  and verifies, if the capture deserves it, and makes an exit code of it.
* The edge captures are programs of their own on their boards: one main loop,
  writer threads, encoder or capture processes, and a directory whose
  publication has to survive signals, failures and a power loss. What they
  seal is what their validators later demand.
* The calibration recording is a program of its own as well: a driver's
  thread, a writer thread and a separate process that reads the IMU and talks
  to it through a bounded queue of messages.
* The live programs feed ORB-SLAM3, a native child: stereo pairs and the IMU
  samples between them go through a bounded queue and a pipe; poses come back
  through a reader thread and are stale after 150 ms. When the child resets its
  map, what is shown of the world has to be anchored anew.
* A passed session is verified twice: `quality/` reads the coordinator's report
  and the devices' files and demands of them what the capture promised.

### What is hard

* **Interleaving without locks.** Create-then-check claims, a directory
  listing that is no snapshot, and two readers that see the same records at
  different times.
* **Stale reads.** `now_ns` is fixed at the head of a pass; the seal is read
  before the offline marker; the operator's prompt blocks the loop while the
  workers' health changes.
* **Partial failure.** A record renamed into place before its directory's
  `fsync` raises; a start that is visible although the call raised; a rollback
  that cannot know how far the write came.
* **Order of verdicts.** Failure records, exit codes, acceptances, timeouts
  and the operator's cancellation arrive in any order and must still add up to
  one status that hides nothing.
* **Crashes.** A killed process leaves its claims; the barrier's claims
  outlive their calls; a power loss undoes what was not synced.
* **Unlocked threads.** A counter is read while its thread counts; an event is
  cleared between a thread's test of it and what it does then; a join times
  out and its thread goes on; a queue is full when the sentinel comes.
* **Late frames.** A frame acquired inside the window is delivered after its
  end, one acquired before the start after it; the verdict is about acquisition.
* **Two judges.** The capture's verdict and the verifier's are different code
  over the same files; what the one passes the other should accept.
* **Cleanup that fails.** A list of calls, each of which may raise, has to give
  back every device whatever happens, and the verdict has to know.

### What makes each component correct

* *Claims:* nobody records while a session is sealed or indexed; one process
  per claim; the index is built from what the seal records; the seal is
  written once; a session is immutable once sealed (this last one does not
  hold, see Findings).
* *Gate:* ready only when every device has been present for the warm-up, is
  healthy and has been for long enough, before the timeout; readiness is taken
  back; BLOCKED and RECORDING are final.
* *Barrier:* one start and one stop, for ever; a call that returns has been
  heard; the first failure of a device stays (does not hold, see Findings).
* *Coordinator:* a PASS is earned by every worker; no order of events hides a
  failure; BLOCKED is benign; workers and coordinator have one formal window;
  the start needs fresh health; the first error ends an open recording; no
  worker is forgotten; there is a report in the end.
* *Queues and writers:* what was accepted is written, in order, or its loss is
  reported; what is hashed is final; shutdown terminates and blocks nowhere.
* *Verdicts of the devices:* a PASS has no hole in its window, everything it
  counted is on disk and sealed, and frames are classified by acquisition.
* *Timing:* unwrapped counters are exact as long as gaps stay below half the
  range; published times advance; a row pairs the nearest frames, in order.
* *Owner and command line:* a clean capture passes, a PASS hides nothing,
  everything held is given back (a writer whose set-up fails does not, see
  Findings), what ends well has a sound index.
* *Edge captures:* what is sealed is complete, paired and accepted by its
  validator; a failure is not sealed; the measurements of a sealed session
  survive a power loss; they end.
* *Calibration recording:* an accepted dataset holds what was counted, of one
  camera and one IMU process, and is sealed after its last write.
* *D405 camera:* a PASS covers the formal window with frames of one clock
  mapping, and is one its verifier accepts.
* *Live programs:* a dropped image loses no IMU sample; the world shown is of
  one map; a passed acceptance has an answer to every image; they end.

## 2. Modules

| Module | Models |
|---|---|
| `SessionLifecycle` | the claim protocol, sealing and index publication, file access by file access |
| `SessionParties` | which processes and marker files there are, what a session's directory holds and what the claims on it promise, for `SessionLifecycle` |
| `SessionAccess` | abstract specification: readers-writer access to a session, a seal taken once, an index of the seal |
| `JointWarmupGate` | the gate's methods as operators on a record of its attributes |
| `JointGate` | the gate as a state machine, under any sequence of calls |
| `Barrier` | the three claiming methods of `BarrierDirectory`, file operation by file operation |
| `BarrierCalls` | which calls there are on which records, for `Barrier` |
| `Workers` | both kinds of worker as the coordinator sees them |
| `FinalStatus` | `_final_status` and the rewrites of `first_error` before it, as operators |
| `Coordinator` | `_run_coordinator_claimed` with the workers: the composition |
| `SessionWriter` | `AppendOnlySessionWriter` as operators: the sets of outcomes its operations may have |
| `EgoCapture` | D435i and 2UQ2 from the driver's callback to the sealed files, over `SessionWriter` |
| `ImuPipeline` | reader, recorder and main thread of a D405 worker, from the serial line to the hashed files |
| `SampleClock` | the times the IMU reader publishes and the unwrapped 32-bit timer |
| `ClockMapping` | a device's mapping to the host's monotonic clock |
| `SyncIndex` | grid, nearest frame and classes of the common-clock index, as operators |
| `RsusbOwner` | `run_pair` with the hardware it owns, over `SyncIndex` |
| `ProductRun` | the product command: `RsusbOwner`, then index, verification and exit code |
| `CalibrationCapture` | the calibration recording with its IMU process, over `SessionWriter` |
| `D405Camera` | the camera of a D405 worker, from warm-up to verdict, and its verifier's demands |
| `EdgeCapture` | the rk3576 capture: main thread, writers with encoders, signals, publication, validator |
| `SpoolCapture` | the older v4l2 capture with its spools, processes, preview and publication |
| `EdgeSession` | the writer of a Z2 session and its validator |
| `OrbLive` | the live pair and the live acceptance around the ORB-SLAM3 child |
| `MCSessionDirectory` | `Coordinator`, `Barrier` or `SessionLifecycle` |
| `MCJointGate` | `JointGate` or `D405Camera` |
| `MCEgoCapture` | `EgoCapture` or `CalibrationCapture` |
| `MCEdgeCapture` | `EdgeCapture`, `SpoolCapture` or `EdgeSession` |
| `MCCoordinator`, `MCImuPipeline`, `MCProductRun`, `MCSessionLifecycle`, `MCSessionParties` | constants, symmetry and views for TLC |
| `FileClaims_proof`, `JointGate_proof`, `Coordinator_proof`, `ImuPipeline_proof`, `EgoCapture_proof`, `EdgeCapture_proof`, `OrbLive_proof`, `ProductRun_proof` | theorems |

`JointGate` and `Coordinator` use the same operators of `JointWarmupGate`:
what is shown of the gate alone is shown of the gate inside the coordinator.
`SyncIndex` is used in the same way by `ProductRun` and by the theorems about
the index. The theorems about `SampleClock` are in `ImuPipeline_proof`, those about
`ClockMapping` in `ProductRun_proof`, beside the programs that use these clocks. A
module that checks one of several programs (`MCSessionDirectory`,
`MCJointGate`, `MCEgoCapture`, `MCEdgeCapture`) chooses at the start which one
runs; the others' variables then stay as they are. The programs share nothing
but their job, and a property of such a module says the same of each of them.
Each module that other code can break in a plausible way also holds a few
mutated operations, named for the bug. No specification uses them; put in
place of the operation they are named after, they break the property the
operation is there for.

### SessionLifecycle

`marker`, `offlineMarker`, `seal` and `sync` are files; `source` is the
version of everything recorded, which `Record` (a process inside its claim)
and `EditOutside` (something that takes no claim) increase. `held` is what a
publisher has read into memory, `scanned` the markers it has already looked
for. The program counter of a producer is `seal1, lock1, create, seal2, lock2,
active`: `assert_session_open_for_producers`, its marker, the assertion again.
A publisher creates `.offline.lock`, looks for the markers one by one in any
order (`glob` is no snapshot), captures and verifies the sources, replaces or
verifies the seal, and publishes or validates the index. Every step may raise,
with the cleanup the code then does, and every process may be killed.

### Gate

`Gate` is the record of the class's attributes. An operation that raises in
the code is a step that is not taken (`observe` with a timestamp that goes
back raises `ValueError` before any assignment). Health is `healthy` or
`unhealthy`: the gate looks at nothing else of a heartbeat. `JointGate` keeps,
beside the gate, what the devices really reported (`firstReport`,
`lastUnhealthy`), so that a property does not use the gate's own bookkeeping
to judge it.

### Barrier

`lock[s]` and `record[s]` hold the call whose file is present. The three
methods share their file operations (claim, `fsync`, temporary file and
rename, `fsync` of the directory) and differ in what they do when the claim is
taken and when a step raises; the module's head has the table. `BarrierCalls`
says which slot each call is about. Temporary files
have unique names and are not modelled. Heartbeats are plain atomic
replacements and part of `Workers`.

### Workers and Coordinator

A worker's `phase` is `off, setup, warming, armed, closing, exited` or
`failed`. What a device does (a frame that does not come, a full disk, a check
that fails, a hang) is chosen freely; each *misfortune* counts against
`MaxFaults`. A hang needs no misfortune, since nothing makes a worker move.

The coordinator's `pc` names the parts of its loop:

```
launch -> poll -> failures -> exits -+-> gate -> prompt -> refresh -> schedule -> poll
                  (before the start) |
                  (after the start)  +-> stopRequest -> watch -> endPass -> poll
terminate | stopLate -> load -> report -> done
```

`PollWorkers` reads the clock and polls all processes in one step; everything
that reads a file other processes write is a step of its own, and workers and
clock move between them. In the parts `launch, exits, stopRequest, endPass,
done` (`Busy`) the coordinator reads nothing that others write, and others
read at most one record from it; a step of theirs commutes with it, so it is
not interleaved there. The barrier's calls are one step here, which may raise
with or without the record visible; `Barrier` takes them apart.

`FirstOf` is the order of the code's loops. Failure records come from a
`glob`, in any order, hence `\E d` in `ReadFailures`. The time unit of
`clock` is arbitrary; the clock starts at the launch (`launch_ns = 0`).
`EndEarly` is a worker command that ends with 0 before its window is over: not
the repository's own workers, but the case `early_exit` exists for, and
commands are the caller's to choose.

Left out: reasons and details of errors beyond what decides the status, the
transition list, calibration, provenance, the schema check of an acceptance
(an acceptance is trusted, missing or unreadable), command lines, and the
`D435i` worker, which behaves towards the coordinator as the D405's. The
gate's own timeout state is kept but never comes before the coordinator's,
whose clock starts earlier.

### SessionWriter, EgoCapture and CalibrationCapture

An operation of the writer that may raise is the set of its outcomes: the
writer after it, and the error. `EgoCapture` picks one of them wherever the
code calls it (`Takes`). `device` is chosen once:

* *d435i*: one callback thread per sensor (`Acquire, Classify, Submit,
  Count`) puts into `queue`, which refuses what it has no room for; the writer
  thread (`WriterTakes`) appends; main puts the sentinel and joins.
* *2uq2*: one streaming thread (`Acquire, Classify, AppendVideo, AppendXu`)
  appends both streams itself, under the recorder's lock, which is why the two
  appends of a frame are not interleaved with `CloseWriter`.

Main (`ReadStart, EndWindow, GiveUp, StopSource, PutSentinel, JoinWriter,
CloseWriter, Judge`) is the same for both. A step between two of its own lets
the threads move, so that a frame may be classified before the start is known
and appended after the window's end. A source whose stop raises goes on.

`CalibrationCapture` has the driver's thread (`Streaming`), the writer's
(`WriteOne`), the IMU process with the batches it sends through a queue of
messages and the pipe behind it (`Child`), the preview process, and main, which
sets everything up on an `ExitStack` and takes it down in the reverse order. A
video frame is its sequence number, an IMU sample the number of the process's
successful read. Rates, and the board in the picture, are left out.

### ImuPipeline

The reader's loop is taken apart where another thread can see the difference:
the read, the decoder, the raw callback (test of the queue, then the put), the
counters, the sample's callback, the end of a batch. The recorder's loop tests,
takes, writes and closes. Main takes its two snapshots of the counters, sets
and clears `recording`, polls, and shuts down: reader first, then recorder, each
with a join that may time out. `offered` is the set of samples `record_imu` was
called with while recording: the queue may have refused some of them. `manifest`
is what the hashes were taken of; a recorder whose join timed out may still
write, which is what `HashedIsFinal` is about.

### D405Camera

A frame of a stream goes two ways. The native recorder writes it into the bag;
the driver puts it into `frameQueue`, which main looks at. Health, the clock's
evidence and the candidates of the formal boundary (`monitor`) come from the
queue, the rows and the verdict from the bag. The unit of time is a frame's
period. Main's passes (`WarmPass, BacklogDrained, FormalPass`) come at least
once between two exposures; a call that raises ends them wherever it stands.
The verifier's two sections about the camera (`DeviceSection`, `ClockSection`)
stand at the end. The two streams are alike; the IMU side is healthy but for its
verdict; a heartbeat comes about once a period; the readiness window is kept
only until a start is scheduled; what happens after an error is not kept.

### SampleClock and ClockMapping

Both are state machines over whatever a least-squares fit may find, so the
fits themselves are not modelled. `SampleClock`: `Sample` is what the reader
does with a counter value and a host time (step of the counter, correction
towards the fitted line, bounded), `Stamp` and `Reopened` the unwrapping of
the microcontroller's timer beside the timer it would be without a wrap.
`ClockMapping`: `Frame` is `add_sample` with `map_acquisition_ns`. Their
conditions on the constants are the definitions `ClockConstants` and
`MappingConstants`, hypotheses of each theorem.

### SyncIndex, RsusbOwner and ProductRun

`SyncIndex` names a frame by its place in its stream; `BuildIndex` serves two
and three streams as `build_pairs` and `build_triplets` do, `Refused` and
`Candidates` are what `build_index.py` demands and takes of the recorded rows.

`RsusbOwner` counts time in quarters of a frame. `Tick` is the hardware:
devices acquire at their own phase, ego frames arrive by callback, UMI frames
wait in the SDK's queue until main drains it. `pc` is the part of `run_pair`:

```
prepare -> writers -> devices -> warm -> guard -> formal -> postroll
                 \________________|_______|_________|_________|
                                           v
                                        cleanup -> report -> end
```

Set-up and clean-up are lists of calls (`Calls`), each of which may raise;
`held` is what is started and not yet given back, `stuck` what a raising stop
has left so. A raise while the writers are opened leads to the except clause
(`undo`), whose list of UMIs is `initialized`: one is on it only when its
writer and its writer's thread are both there, so `UndoWriter` passes over a
writer whose thread could not be started. ego's thread has an object before it is
started, and closing that one raises (`Unstarted`): the clause ends there, as
with any call of its own that raises, and `undone` says that it did. The verdict (`Verdict`, `EgoPasses`, `UmiPasses`, `CrossPasses`)
reads only what the code reads; the properties judge it by what the hardware
really did (`erredIn` remembers in which phase an IMU error fell).

`ProductRun` adds `_run_product`: report, index, verification, exit code. The
sections of `verify_pair_session` that a capture of the owner can meet or miss
are operators on the report, the files and the index (`JointGateSection`,
`ClockSection`, `StorageSection`, `SyncSection`). The coordinator's report is held
against the same joint-gate section in `Coordinator` (`ReportIsVerifiable`).

### EdgeCapture, SpoolCapture and EdgeSession

`EdgeCapture`: `main.at` names the call main is in, from `preflight` to `end`;
`child[w]` is a writer thread with its queue, the frames it holds and its
process; `disk` the session directory with its marker, manifest, failure record,
what a power loss may undo (`unsynced`) and what has been synced (`durable`).
`mode` is chosen once: until a signal, or of a fixed length with one file per
eye or an interleaved one. `evidence` and `serial` are what the verdict and the
validator read of the signal and of the serial collector. The calls that only
can succeed or raise share `Call`, the ones that change the directory
`DiskStep`. The second signal raises `KeyboardInterrupt` wherever main is, in
the publication and its rollback too. Once main has raised, its threads are
frozen: nothing they do is read again. The validator's demands stand at the end.

`SpoolCapture` is the older program: a camera process that writes raw frames
into a FIFO and prints a line for each, a thread that moves frames from the FIFO
to a bounded queue, one that writes them, one that makes rows of the lines, an
encoder process, a serial collector and a preview server. `EdgeSession` is the
writer of the Z2 board's sessions with its chunks, and its validator.

### OrbLive

A timestamp is a number: an IMU sample of each kind at every time, a stereo
pair at every `Spacing`-th. The SDK's callbacks (`Gyro, Accel, Stereo`) combine
samples and hand them to `OrbSlam3LiveProcess`, whose writer thread sends a pair
with the samples that cover it to the child; the child answers with poses, which
its reader thread queues for main. Main's pass (`LoopTop, DrainPose, Poll,
Search`) takes poses, asserts the anchor's map and looks for a new anchor; its
end (`CloseSensors ... Reap, Report`) is that of both programs.

A pose is known by the map of ORB it is in. One fact about ORB-SLAM3 is taken
from outside: the second inertial adjustment, after which the world scale
counts as settled (`Ba2Completes`), comes some 15 s into a map, which is longer
than a pose stays fresh and than main's window of candidates; so poses of an
earlier map are gone by then. Poses without tracking, Device 3's own anchor and
VINS are left out; a failure that VINS reports is one of those that end a pass.

## 3. Runs

State counts are distinct states.

| Run | What it asks | States |
|---|---|---|
| `session_directory` | the claims: two producers with one id, a writer without a producer claim, two builds, sources rewritten behind the protocol's back: exclusion, the index is the seal's, the seal is written once, refinement of `SessionAccess`. Or the barrier: 2 starts, 3 stops, 3 latches of one device and 1 of another, where every step may raise or be the last: single boundaries, quiet returns are covered. Or the coordinator: 2UQ2 and D405, no duration, prompt and stop, one misfortune: one window, safe start, open recordings end | 1,570,000 |
| `joint_gate` | two devices, any calls: readiness is earned and taken back. Or the camera of a D405 worker with one fault: a PASS is sound | 1,180,000 |
| `acq_faults` | 2UQ2 and D405, a duration, a stop at any time, two misfortunes: PASS earned, failures not masked, BLOCKED benign, no orphan unreported, the verifier agrees | 2,580,000 |
| `acq_one_worker` | one worker, the operator's prompt, a duration of one unit and a stop: there is a report, unless the prompt is never answered | 1,020,000 |
| `imu_pipeline` | three samples, two faults on the line or the disk, a queue of two, joins that time out: a PASS has no gap, what is accepted is written, hashes are final | 6,900,000 |
| `ego_capture` | three frames of a D435i or a 2UQ2 with one raising call, or a calibration recording with one upset: sound files, what is accepted is on disk, formal is a matter of acquisition, every program ends | 895,000 |
| `product_run` | a D435i and one or two D405, a misfortune and raising calls: PASS hides nothing, clean captures pass, what is taken is given back but for what a failed set-up overlooks, a finished run has a sound index | 5,430,000 |
| `edge_capture` | three frames, two signals, one fault; or the older capture with two frames, two upsets and Ctrl-C; or a Z2 session: what is sealed is complete and acceptable, what fails is not sealed, the captures end | 1,340,000 |
| `orb_live` | the live pair or the live acceptance with one fault and a map reset: dropped images lose no sample, the world is of one map, a PASS is answered, the program ends | 496,000 |
| `session_sealed_sources` | violated, see Findings | |
| `acq_d405_directory` | violated, see Findings | |
| `product_writer_claim` | violated, see Findings | |

`SampleClock`, `ClockMapping` and most of `SyncIndex` have theorems in place of
a run. `TypeOK` is an invariant of no run where a theorem states it.

### Properties

* `PublicationExclusion`: nobody records while a publisher is at work.
  `ImplementsAccess`: every behaviour is one of `SessionAccess` under a
  refinement mapping that calls those recording whose program counter is inside
  the claim. `IndexMatchesSeal` and `SealWrittenOnce`: whoever rewrites the
  sources, the index is built from what the one seal records.
* `ReadyIsEarned`, `ReadyMeansHealthy`: the gate against what was reported.
* `CameraPassIsSound`: a D405 worker's PASS covers its window with consecutive
  frames of every stream, is one the verifier's camera sections accept, and has
  latched no failure; an error it had is latched.
* `BoundaryWrittenOnce`: there is one start and one stop.
  `QuietReturnIsCovered`: a stop or failure call that returns without writing
  leaves the event visible or somebody at work on it, told of its failure, or
  dead.
* `PassIsEarned`, `FailureNotMasked`, `BlockedIsBenign`, `OrphansAreReported`:
  the report against what really happened to the workers, not against what the
  coordinator has seen of it. `FailureNotMasked` speaks of a FAIL acceptance
  only if the end of its worker was seen: a cancelled launch terminates a
  worker that cannot be killed, which may write an acceptance after it was
  read.
* `ReportIsVerifiable`: the verifier's joint-gate section, a piece of code of its
  own, accepts every PASS and every BLOCKED of it.
* `BoundariesAgree`, `OpenRunIsStopped`, `StartIsSafe`: the window and the
  start. `Terminates`: liveness.
* `PassIsGapless` (IMU): between the first and the last sample of a passed
  window every number is there, though counters are snapshots of another
  thread's. `AcceptedIsWritten`: what the queue took is written or known to be
  lost. `ShutdownNeverBlocks`: no thread waits for ever on another's exit.
  `HashedIsFinal`: no thread writes to what has been hashed.
* `SealedFilesAreSound` (ego, calibration): every row's offset is where its
  payload is, the manifest names what is hashed. `PassIsPersisted`: what the
  verdict counted is what the files hold. `ClassifiedByAcquisition`: formal is a
  matter of when a frame was acquired, not of when it came.
  `CalibrationIsPersisted`: an accepted calibration has every frame it counts
  and every sample its IMU process read. `CapturesEnd`: liveness.
* `PassIsClean`, `CleanPasses`, `NothingLeftRunning`, `BlockedIsIndexed`: no
  misfortune is swept under, and none is imagined; what ends well has an index
  of nearest, ordered, formal frames; see the module. `NothingLeftRunning`:
  every device, thread and claim is given back, whatever raises. It leaves out what
  the except clause of the writers overlooks (`Overlooked`, which is the third
  of the Findings) and what that clause does not reach when a call of its own
  raises (`~undone`), that of ego's unstarted thread included; both follow an
  error, never a PASS.
* `SealedSessionsAreSound`, `RowsMatchFrames`, `FailureIsContained`,
  `SealSurvivesPowerLoss`, `EdgeCapturesEnd` (edge): each of the three programs
  about its own session; see `MCEdgeCapture`. A power loss may undo every
  directory entry and every file not yet synced.
* `SamplesAreKept`, `EgoWorldIsOneMap`, `PassIsAnswered`, `LiveRunEnds` (live):
  see the module.

A fixed duration and a stop can meet: a stop asked for in the pass that sees
the last worker end, after the formal end, is published all the same and moves
`FormalEnd` behind the exits. `PassIsEarned` therefore measures a worker by its
own window (`RanUntilTheEnd`: the duration or the stop, whichever it met), not
by `FormalEnd`. The report is right in this case, but `stop.json` then names a
boundary that no frame reaches.

### Bounds and why they are enough

* `MaxWrites = 2`: a publisher captures one version, another overtakes it; a
  third version adds no new relation between held, sealed and indexed.
  Two producers share a claim and a third process has another: exclusion and
  contention are both there. Two publishers: one may hold what the other
  invalidates. Producers are symmetric, publishers too.
* Barrier: calls about different records share no file, so the calls about one
  record run while the others' processes are gone from the start; three calls
  allow one to hold a claim, one to return quietly and one to come after a
  rollback.
* Gate: `WARMUP_NS = 2`, `CONTINUOUS_HEALTHY_NS = 1`, `LAUNCH_TIMEOUT_NS = 3`,
  times up to 4: every comparison is met below, at and above its limit, also
  with timestamps that go back between devices.
* D405 camera: `LastFrame = 8` frames of two streams leave room for a warm-up of
  one frame, the readiness window of two, the lead of two, a window of two and
  a frame on each side; one fault, since a second only ends sooner what the
  first has ended, or is a second hole in another stream.
* Coordinator: `MaxClock` bounds the time before the formal end is known, the
  clock then goes on until the grace is over, so every timeout is reached.
  Warm-up and healthy window are 0 in `acq_faults` and `acq_one_worker` (the
  gate is then ready with the last first heartbeat) and 1 in
  `session_directory`. In
  `acq_faults` the duration is 0: a window shorter than a unit of the clock,
  where start, end and exits meet in one instant and the state space leaves
  room for two misfortunes; `acq_one_worker` has a window of one unit, the prompt
  and a launch timeout of three units, within which a worker can fall silent
  or have its timestamps go back before and after the prompt. Two
  workers of different kinds show the two orders of latch and acceptance;
  `REQUIRED_DEVICES` puts the 2UQ2 first, as the code does. Two misfortunes
  are what it takes for one to mask another.
* `View` (safety runs only) identifies states that differ in heartbeats or
  gate attributes the coordinator will not read again.
* IMU: a queue of two is full with one sample and the sentinel; a batch of two
  has a sample decoded and not yet seen; two faults are a loss and something
  that may hide it. `View` forgets the numbers once the run has failed.
* Ego: three frames are one before, one inside and one after an event; two
  streams; a queue of two refuses the third. Calibration: three reads are a full
  batch and the beginning of the next, a pipe of one message and a queue of two
  leave the child's feeder blocked; one frame of video; one upset.
* Product: the window is two frames, the post-roll one and a half, the guard
  three units, which is no multiple of a frame, so that a formal start falls at
  every alignment with the frames (with starts after 2 and 5 units as well the
  run passes too, with 10.3 million states). A device acquires two or three
  units after ego: on and inside the nearest-pair limit.
* Edge: three frames are the least with a pair before, at and after the stop
  target; `QueueDepth = 1` is full at once; a hang stands for whatever is slower
  than a deadline. A third signal is not modelled. The older capture: two frames
  with a queue of one, two upsets, of which the second falls into the cleanup of
  the first, and an interrupt. Z2: chunks of two bytes rotate after one or two
  records; three stamps; one failing write, sync or close.
* Live: ten timestamps of a pair, six of the acceptance, an image at every
  second; a queue of two and a backlog of one; two maps; one fault. The pair's
  first three images come without backpressure, as its first 1200 do: enough to
  overflow the queue, and two images with backpressure follow.
* `ExclusiveDirs = {}` in the passing runs: the D405 worker finds no directory
  in its way, as it should be; with the code as it is no recording with a
  launched D405 can start, which `acq_d405_directory` shows.

### Fairness

* `Coordinator`: weak fairness of the coordinator's own step (its loop has no
  blocking call but the bounded waits of `_stop_process` and the operator's
  prompt, which is left out: the operator may never answer) and strong
  fairness of the clock (it goes on whenever the coordinator sleeps).
  **Nothing** is assumed of a worker: it may hang in any phase, and a kill may
  fail. `Terminates` therefore says that the coordinator's timeouts suffice. It
  is asked in a run whose clock reaches every timeout.
* `MCEgoCapture`, `MCEdgeCapture`, `OrbLive`: weak fairness of one formula,
  "while main or a thread of the program can go on, one of them does". It is
  less than fairness of each thread, which the scheduler would justify too, and
  it is enough, since every thread's work is finite until it waits.
  **Nothing** is assumed of a device, a sensor, a user or a process outside: a
  source may stop delivering, a signal need not come, ORB's mapping may never
  finish. The RGB encoder's end and the ORB child's own steps are assumed
  (`RgbEnds`, `Child`), and `EdgeCapturesEnd` and `LiveRunEnds` except the waits
  of the code that nothing ends: for an RGB encoder that hangs once its input
  has ended, for a preview server that was built and not started, for a queue
  whose writer has died (`JoinIsStuck`).

Deadlock is checked in the coordinator's, the gate's and the product's runs (what
has ended stutters explicitly); the claims, the barrier, the capture threads, the
edge and the live programs come to an end, so there it is not.

## 4. Proofs

TLC shows each property on a small instance; the theorems hold for every
value of the constants that satisfies the modules' named assumptions
(`ConstantsAssumption`, `GateAssumption`, `JointGateAssumption`,
`BarrierAssumption`, `WorkersAssumption`, `CoordinatorAssumption`,
`PipelineAssumption`, `EgoAssumption`, `CalibrationAssumption`, `EdgeAssumption`,
`SessionAssumption`, `SyncAssumption`, `OwnerAssumption`, `LiveAssumption`: they
say which constants are numbers, which of those are not 0, that `None` is
nothing else, that sets of calls are disjoint, that the required devices are the
devices; `LiveAssumption` repeats the bounds that `OrbSlam3LiveProcess` itself
checks, for images that are some time apart) or the hypotheses `ClockConstants` and `MappingConstants`. The bounds
of the runs (`MaxFaults`, `MaxClock`, `MaxFrames`, ...) are constants like the
others: the theorems hold for each of them. Every proof has one step per action;
`PTL` combines them.

`FileClaims_proof`, the claims of a session
: `TypeCorrect` by cases over the actions. `Exclusion` and `OneHolder` rest on
  `ClaimInv`: who is past the creation of a marker owns it, and a publisher
  that goes on has found every marker it scanned absent, so that an active
  claimant is one it has still to look for: had it looked already, its own
  marker was there before the claimant's, and the claimant's second check
  would have met it. Exclusion alone is not inductive, since it says nothing of
  what each side has found out before either is inside. `IndexFromSeal` and `SealStays` rest on `SealInv`
  (what a publisher holds at each point compared with the seal),
  `SuccessIsAgreement` on `AgreementInv` (what it holds compared with the
  sources, without edits outside the protocol). `Implementation`: initial
  state to initial state, every step to a step or a stutter of `SessionAccess`.

`FileClaims_proof`, the barrier directory
: the invariant says whose a claim is. While a call holds its claim the file
  is its own, for only its owner removes it; a start or stop claim is never
  removed; a record of a start or stop implies its claim. `BoundaryStays`,
  `StartIsMine` and `QuietIsCovered` follow.

`JointGate_proof`
: `TypeCorrect`, `Healthy` and `Earned` rest on `Chronology`, which relates
  the gate's attributes to what was really reported: a device's healthy run
  began at or after its first report and after its last unhealthy one.

`Coordinator_proof`
: what the coordinator has noted has to be related to what has happened, part
  by part, because each part alone says too little about the next:
  `WorkersInv` (a worker's phase against its exit code, acceptance and latch),
  `PollInv` (what a pass has polled and not yet judged), `BoundaryInv` (records
  of start and stop against the local variables, unless a barrier call raised),
  `ResultInv` (a code that was taken is the worker's, and that worker fits its
  window, `Fits`, or ran it out, `RanOut`), `FirstInv` (an open recording that
  has an error has been told to stop; before the start an error ends the
  launch), `AcceptedInv` and `ReportInv` (what was loaded, what was decided),
  `ShutdownInv` (who may still run after `terminate`). A PASS has nothing noted,
  no known failure, no first error, every code 0 and none early; so every worker
  was seen to end and to have run its window out (`PassAlwaysEarned`). The same
  facts one by one give `FailureNeverMasked`, `OrphansAlwaysReported`,
  `OpenRunsStop`, `BoundariesAlwaysAgree`; `BLOCKED` needs that every error was
  the BLOCKED of a worker (`BlockedAlwaysBenign`); the verifier's rules follow
  from both (`ReportsVerify`). `StartAlwaysSafe` needs the gate: `GateInv` says
  of the coordinator's gate what `Chronology` says of the gate alone, in the
  coordinator's times, and since when a worker has been healthy.

`ImuPipeline_proof`
: the invariant follows a sample on its way. `ReaderInv`: the reader's numbers
  ascend. `FlowInv`: what `record_imu` took is in the file, then in the
  recorder's hands, then in the queue, in that order, and nothing is missing
  unless a drop or a write error is known. `HoleInv`: while no gap is counted
  since the first snapshot, the offered samples have no hole, and the first
  snapshot was healthy. `ShutdownInv`: the sentinel is the last of the queue,
  and a recorder that ended in time left it empty. A PASS has a last snapshot
  without a gap, so what was offered has no hole and the file is a beginning of
  it (`PassAlwaysGapless`); if the reader ended in time, it is all of it
  (`AcceptedAlwaysWritten`). The snapshots are of another thread's counters:
  that a gap is counted before its sample can be offered is what makes them
  enough. `HashedStaysFinal`: whoever outlives a join cannot reach what was
  hashed. `RecorderIsWoken` is the part of `ShutdownNeverBlocks` that needs no
  `ENABLED`.

`EgoCapture_proof`
: `ThreadInv` (which thread holds which frame), `OrderInv` (a frame at work is
  after all that is queued, and that after all on disk), `FileInv` (rows and
  payloads of a segment), `ClassInv` (formal is by acquisition, of a frame at
  work, queued or on disk), `StopInv` (what a source, a queue and a writer may
  still do after their stop), `JudgedInv` (the verdict's counters are what was
  classified), `MarkInv` (what marks the first valid formal record), `PassInv`.
  A verdict without an error finds no frame at work and nothing queued; so what
  was judged is what is on disk, in every stream, and neither is empty, so that
  the manifest names both (`PassAlwaysPersisted`). Nothing moves after the end
  (`FilesAlwaysSound`, `AlwaysClassified`).
: The second half is about the calibration recording. Its invariant,
  `CalibrationInv`, says where every counted frame and sample is: until an error
  is noted the rows and the write queue together carry the frames 1 to n in
  order (`VideoFlows`), and until anything goes wrong rows and queue, what main
  has in hand, the messages and the child's batch together relay each sample the
  child has read, once and in order (`SamplesFlow`). `ChildHold` and `StagesHold`
  say what is over at each stage of main's `ExitStack`: no frame is at work past
  `recorder.end`, the queue is empty past `finish_writes`. So what the report
  counts is what the files hold (`AcceptedIsCounted`,
  `CalibrationAlwaysPersisted`), and with `FilesAlwaysSound` the files of both
  programs are sound (`SealedFilesAlwaysSound`). `CalibrationIsPersisted` alone
  is far from inductive: a frame that is counted before it is queued, or a
  sample between two processes, is in no file yet.

`EdgeCapture_proof`
: one invariant for each of the three edge programs (`EdgeInvariance`).
  `SessionInv` (Z2): until the writer fails, the refs of the rows *tile* the
  chunks of each payload, every byte that of exactly one ref; from the seal on
  the manifest repeats counts and sizes, and the marker goes last. The validator
  counts the bytes that refs cover; what is tiled it accepts.
: `SpoolInv` (v4l2): how far threads and processes are, and what the directory
  holds, at each stage of main; and every row's frame is in the file, the queue
  or the FIFO, in the order of the rows (`RowsCarried`). A frame without a row
  shifts the frames behind it, so the k-th row need not stand for the k-th
  frame while the capture runs. The verdict compares numbers only. That is
  enough: a file of as many frames as there are rows has no room for a shift.
: `EdgeInv` (RSUSB): the stages of main, children and directory
  (`EdgeControl`); an infrared writer's file, the frame in its hands and its
  queue hold the rows of `ir_frames.jsonl`, then at most a frame whose partner
  was refused, then sentinels (`EdgeFlow`); a row stands in both eyes, and rows
  lie at least as far apart in them as among themselves (`Pairing`), so that as many
  rows as frames leave neither eye a frame of its own; the target a signal, a
  full disk or the duration set, and its evidence (`TargetStages`); what was
  judged stays true of what is sealed (`EdgeVerdict`). `RowsAlwaysMatchFrames`
  follows from `EdgeFlow`; `FailureAlwaysContained` and
  `SealAlwaysSurvivesPowerLoss` from the stages of the directory, which say of
  every step of a publication and of its rollback which entries are not yet
  synced; `SealedSessionsAlwaysSound` is that the validator accepts what was
  judged, and needs all of it.
: Two things came up here. `EndReason` was a `CASE` whose arms overlap, of which
  the semantics leave the choice open; the code takes the first, and now the
  model does so too. And the first invariant was not inductive at the start of
  the loop: that no frame has come before the warm-up ends is part of
  `TargetStages`.

`ProductRun_proof`
: first the index. `bisect_left` is a `CHOOSE`, so that it exists comes first: of
  the positions with nothing but later times behind them there is a least one
  (`LeastElement`, by induction on the positions), and it splits an ordered
  stream (`SplitExists`, `BisectSplits`). The neighbours of the split bound all
  distances (`NearestTimeIsNearest`), hence `FrameIsNearest`; a later point of
  the grid splits the stream later, hence `FramesNeverGoBack`. `PairsAreNearest`
  puts both together with `GridWithin` for the rows of an index.
: Then the command. `HeldInv`: whatever is held is on the list of what the
  clean-up will call or is stuck with an error noted. This has to be known
  from the first call of the set-up on, in every part a raising call leaves
  for the clean-up, or `NothingIsLeftRunning` would not follow. In the except
  clause it is on the list of calls still to come, or one of those the clause
  overlooks: a writer of a UMI that is not in `initialized`. `RaiseInv`: a call
  that raised ends in an exception or in a device's error; a report is made only
  without an exception. `DiskInv`: without an error what was seen is on disk.
  `ManifestInv`: the ego's writer is held, sealed or in error. `ImuInv`: an IMU
  error of the guard is met by the next pass, one of the window by the
  difference of the two readings. With these a PASS is clean (`PassesAreClean`:
  `PassInv`); and `Candidates` picks rows in order from streams that `DiskInv`
  knows, so that the file the index is made of is ordered and formal, and the
  theorems about the index apply to it (`BlockedRunsAreIndexed`: `ProductInv`).

The clocks, in `ImuPipeline_proof` and `ProductRun_proof`
: `SampleClock`: the correction of a published time is at most nine tenths of a
  period and has the sign of the error it corrects, which gives `Advance` and
  `Approach`. `Unwrapped`: a silence below half the timer's range leaves one way
  to read the next stamp. `ClockMapping`: a frame's mapped step is its own share
  plus `Shift`, the change of rate times the time since the anchor
  (`StepIsShareAndShift`, up to rounding). While the rate stays, the second is 0
  (`Continuous`); when it changes, the order of the mapped times depends on which
  of the two is larger (`OrderDependsOnShift`): see Behaviours worth knowing.

`OrbLive_proof`
: `LiveInvariance` has one invariant for both live programs. Its centre is
  `Kept(orb)`: before the first image is accepted every sample is waiting; after
  it, the samples sent and those waiting, one after the other, are those received
  from a *boundary* on, each once and in order, where the boundary is the last
  sample not after the first accepted image. It is stated of `OrbSlam3LiveProcess`
  alone (`OrbOk`) and shown for one turn of `_drain_ready_frames`: what the turn
  takes off `_imu` is what it puts into the packet, or, for the first image, all
  but the boundary; a dropped image takes nothing. A full queue does lose what
  was taken, but latches the failure. `Drain` and `Push_samples` repeat the turn
  for every pending frame and sample. They are recursive functions, and a fact of
  their result is shown by `Induction`: a set of numbers that has 0 and the
  successor of each of its members has all of them. That this set is that of the
  turns after which the fact holds makes it an induction without an operator.
  The samples have to come in order, hence `CamerasInv`: the combiner's pending
  gyro stamps are later than the last sample (`program = "hil"`), or the samples
  of a pair come up to the image and its lead (`program = "pair"`).
  `SamplesAlwaysKept` follows, as `Min(accepted)` is the first image and the
  largest sample up to it the boundary.
: `PassAlwaysAnswered` needs the rest of the pipeline. `ImagesRise`, `QueueRises`
  and `PipeInv`: packets are in order in the queue, then at the writer, then at
  the child, so that answers rise and are among what was accepted.
  `EndInv`: a pass has compared their *numbers* only, after `finish_input` and
  with the cameras closed, and `accepted` cannot grow from there. As many different
  members as a finite set has are all of it (`FS_Injection`). `ShutdownInv`: a child that ended by
  itself with code 0 has read a shutdown packet or the end of its input, so that
  the writer died neither of a frame (which would lack an answer) nor of the
  shutdown packet (whose child has crashed, with another code).
: `EgoWorldAlwaysOneMap` is a matter of what main cannot have seen yet. `StreamInv`:
  along the poses from main's newest to the child's map, the map changes only
  where a pose that is not ready stands between. `WindowInv`: candidates collected
  so far are of the map of the newest pose, unless an unseen reset is on its way
  and with it no pose that is ready (`NoReturn`); the anchor is of the
  newest pose's map, and `_assert_ego_anchor_epoch_valid` ends the run before
  a pose of another map is ingested. `TimesInv` orders the poses, so that "newest"
  is well defined and a candidate, the pose nearest to the latest image, is of it.
: TLC had checked the invariant on the run's instance first; it was strengthened
  three times on the way: at most one shutdown packet is in the queue, none is
  while the writer writes it, and no child lives before main's `start`.

### What only TLC checks, and why

* *Liveness* (`Terminates`, `CapturesEnd`, `EdgeCapturesEnd`, `LiveRunEnds`) and
  what is stated with `ENABLED` (the first conjunct of `ShutdownNeverBlocks`):
  out of the prover's reach.
* `CleanPasses`: that a capture without a misfortune passes is a statement about
  how many frames fall into a window at every phase, which is a sum over the
  run: induction over data, and true only of constants that fit each other
  (warm-up, window, period). The runs show it for the instance.
* `CameraPassIsSound`: what a passed camera wrote comes out of `PairFrames`,
  which pairs the frames of a bag recursively, what it returns for every bag being
  induction over data; and it is true only of windows of less than a thousand frames,
  above which the code forgives a gap.
* What the folds of other modules and recursive functions compute of their data,
  for every input. (For the two recursive functions of `OrbLive` an invariant of
  each turn was enough, see `Induction` above; it needs no closed form of the
  result.)

## 5. Findings

1. **A sealed session can still be recorded into**
   (`session_sealed_sources`, `core/session_lifecycle.py:65`).
   `assert_session_open_for_producers` reads the seal first and the offline
   marker second, in its second call too. A whole publication fits between:
   the producer sees no seal, then no offline marker, and records into a
   session sealed meanwhile. Reading the marker first would close the gap.
2. **A launched D405 worker cannot start** (`acq_d405_directory`,
   `devices/d405_umi/worker.py:1390`). The coordinator creates the device's
   directory; the worker creates it again with `exist_ok=False`. The tests'
   workers use `exist_ok=True`.
3. **A writer's claim outlives a failed set-up** (`product_writer_claim`,
   `acquisition/rsusb_pair.py:766`). A UMI's writer takes `.writer.lock` (757),
   its thread is started (765) and only then is the runtime appended to
   `initialized_runtimes`. If `start()` raises, the except clause (767-774) does
   not close that writer. For a D435i it ends alike in another way: `ego_async.close()`
   (772) joins a thread that was never started and raises, and `ego_writer.close()` is
   not reached. The file stays, nothing in the repository removes it, and
   `build_index.py:533` says of such a session that it has an active writer.
   Appending the runtime before the start, and closing only what was started,
   would close the gap.

### Behaviours worth knowing

The models follow the code in these points too, and no property of a run
depends on them being otherwise.

* *Barrier.* The rollback of `latch_failure` removes the claim also when the
  record is already in place and only the `fsync` of the directory failed; the
  next failure then overwrites the first (`core/barrier.py:91`).
* *2UQ2.* It latches a failure for every acceptance that is not a PASS, BLOCKED
  included, so a missing ego camera is FAIL (`devices/two_uq2/worker.py:893`).
* *Clock mapping.* A new rate moves the mapped time by its difference times the
  time since the anchor. After an hour a change of 10 ppm is 36 ms, more than a
  frame, and mapped times can go back, which the index refuses
  (`synchronization/clock_mapping.py:186`).
* *IMU clock.* The fitter's branches for a wrapping counter
  (`devices/d405_umi/timing.py:60`) are never reached: the reader's own counter
  only grows.
* *RSUSB owner.* The first reading of the IMU error counters comes after the
  last check of the guard, so an error between the two counts for neither;
  frames still in the SDK's queue after `sensor.stop` are lost; `q` during the
  guard or the window ends the recording only at its formal end; a session with
  two D405 is never indexed.
* *Command line.* `compose_product_status` turns a verified PASS into BLOCKED
  until the product is complete: exit code 0 is not reachable.
* *D405 camera.* A worker whose warm-up is complete waits for `start.json`
  without a timeout, and reads neither stop nor failures meanwhile. The clock
  evidence is of the frames the monitor's queue delivered, the rows are of the
  bag. A recorder that goes silent near the end is noticed after
  `JOINT_OUTPUT_STALE_NS`: a PASS may lack the last two seconds and two frames.
  Formal rows have no upper limit at the formal stop. A `gap_ratio` of 0.001
  forgives one gap in a thousand frames. A bag that has not begun to grow hides a
  camera that is gone.
* *Calibration recording.* Frames that come between the deadline and the end of
  `finish` are counted into a rate over the shorter window; an abort through the
  preview may hide an error of the preview; after a write error the dataset is
  sealed all the same and has no report.
* *Edge.* The wait for the RGB encoder has no deadline; a second signal can cut
  the rollback of a publication; a second signal after the publication leaves
  a sealed session and exit code 130; `rgb.h265` itself is not synced before the
  session is sealed, which is why `SealSurvivesPowerLoss` speaks of what is. A
  serial collector that dies is noticed at the stop only; the validator's limits
  for rates and elapsed time are not tested by the capture.
* *Older edge capture.* Nothing is rolled back after `os.replace`: a failing sync
  of the output directory, or Ctrl-C there, reports a failure and leaves a sealed
  session; a failure between the removal of `.recording` and the rename leaves a
  hidden directory with a manifest and without a marker. `shutdown()` of a preview
  server that was built and not started waits for ever. A hung camera process
  whose thread has died is left running by `stop()`. An error on closing the index,
  or an interrupt in the clean-up, loses `failure.json`. That the preview failed is
  judged after the payloads have been renamed.
* *Z2 session.* A seal whose last sync of the directory fails raises, and the
  validator accepts the session; `abort()` after a failed rotation raises and
  changes no state; the entries of `data/` are never synced.
* *Live programs.* `_write_queue.join()` has no timeout: a child that dies
  after the poll with packets left leaves main waiting for ever. A
  `finish_input` that raises skips `stop()`. A failure of ORB after the last check
  still ends as `STOPPED_AFTER_WORLD_RUN` if a stop was asked for. After an
  overflow `finish_input` may enqueue a frame whose IMU interval was lost.

## 6. Plan

Done: claims, gate, barrier, coordinator with workers; the session writer with
the ego captures and the calibration recording, the IMU pipeline and its clocks,
the D405's camera, the index and the clock mapping, the RSUSB owner with the
command line, the three edge recorders with their validators, the live programs
around ORB-SLAM3. Proved: everything about claims, gate, barrier, coordinator,
IMU pipeline, ego captures, calibration recording, edge captures, product command,
live programs and clocks that is a safety property and not named above. Next:

1. `D405Camera`: `PairFrames` as a relation between a bag and its rows, checked
   by TLC against the function, and `CameraPassIsSound` from the relation.
2. `RsusbOwner`: `CleanPasses` for every set of constants that fit each other, by
   the frames that a window of a given length holds at each phase.

## 7. Not modelled

* The live VINS bridge and the rate probe: transport and a measurement.
* Scripts (but for the two live programs), native code, docker files and
  patches: one-off analysis and third-party glue.
* The numerical side of the spatial runtime and of the exports; rates,
  trajectories, pixel data and calibration files in the verification.
* Within the modelled parts: previews' images, argument and configuration
  parsing, provenance, the byte-level decoders, the fits, the gripper.

What each component's status is, and why, is also in `PROJECT.json`.
