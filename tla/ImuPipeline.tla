----------------------------- MODULE ImuPipeline -----------------------------
(***************************************************************************)
(* The external IMU of a D405 worker in joint mode: the three threads      *)
(* between the serial line and the files, and the verdict about them.      *)
(*                                                                         *)
(*   reader    ImuReader._loop: bytes to packets, transport counters,      *)
(*             callbacks put_raw_imu_packet and record_imu                 *)
(*   recorder  UnitRecorder._loop: a bounded queue to the files            *)
(*   main      _main of the worker: health polls, the formal window, the   *)
(*             snapshots of the counters, shutdown, verdict, hashes        *)
(*                                                                         *)
(* The threads share plain attributes: nothing locks the counters, the     *)
(* event recording_active or the test of the queue's size before a put.    *)
(*                                                                         *)
(* A sample is the number the device gave it.  It reaches the reader good, *)
(* corrupt (framed, but its CRC fails) or invalid (the flag of its IMU     *)
(* half is clear), or it is lost on the line.  The counters dropped_frames,*)
(* counter_resets, counter_stalls and sequence_gaps are one counter, gaps; *)
(* frames_bad and resyncs are bad; serial_errors and serial_reconnects are *)
(* serial.  Time stamps are of the moment a sample is parsed; `started'    *)
(* and `stopped' tell on which side of the formal window that moment is.   *)
(* Everything else that may end a capture (cameras, barrier, staleness,    *)
(* readiness window, rates) is a free choice to fail.                      *)
(***************************************************************************)
EXTENDS Integers, Sequences, SequencesExt

CONSTANTS
    MaxQueue,     \* capacity of the recorder's queue
    MaxSamples,   \* bound: samples the device produces
    MaxBatch,     \* bound: samples in one read of the serial port
    MaxFaults     \* bound: samples that are not good, disconnections, failed writes

ASSUME PipelineAssumption ==
    /\ MaxQueue \in Nat \ {0}
    /\ {MaxSamples, MaxBatch} \subseteq Nat \ {0}
    /\ MaxFaults \in Nat

VARIABLES
    next,        \* number of the device's next sample
    faults,      \* faults so far
    rpc,         \* where the reader is
    connected,   \* ImuReader._ser is not None
    running,     \* ImuReader._running
    batch,       \* what the decoder has still to go through
    packets,     \* what it has returned and the reader has still to go through
    decoderBad,  \* crc_or_checksum_errors of the current decoder
    stats,       \* the transport counters
    seen,        \* frames_ok has reached IMU_WARMUP_FRAMES
    last,        \* last_sequence and last_counter; 0: none yet
    queue,       \* UnitRecorder._q
    dropped,     \* UnitRecorder.dropped
    wpc,         \* where the recorder is
    disk,        \* what is in the files, in the order of writing
    writeError,  \* first_write_error is set
    recRunning,  \* UnitRecorder._running
    recording,   \* the event recording_active
    mpc,         \* where main is
    started, stopped,          \* the formal window has begun, is over
    first,                     \* first_formal_imu_counter; 0: none
    lastInWindow,              \* last sample stamped inside the window; 0: none
    startStats, endStats,      \* imu_stats_start and imu_stats_end
    failed,                    \* capture_error or shutdown_errors is set
    clean,                     \* imu_recorder_clean_shutdown
    joined,                    \* imu.stop() saw the reader end
    offered,                   \* samples record_imu has met with recording_active set
    result,                    \* verdict of the acceptance
    manifest                   \* what the hashed files held; <<>> when not hashed

line     == <<next, faults>>
reader   == <<rpc, connected, batch, packets, decoderBad, seen, stats, last, offered>>
recorder == <<wpc, disk>>
window   == <<started, stopped, first, lastInWindow>>
verdict  == <<startStats, endStats, failed, clean, joined, result, manifest>>
flags    == <<running, recRunning, recording>>
vars == <<line, reader, queue, dropped, recorder, writeError, flags, mpc, window, verdict>>

None     == "none"
Sentinel == [kind |-> "sentinel", n |-> 0]
Items    == [kind : {"raw", "imu"}, n : Nat]
Read     == [kind : {"good", "corrupt", "invalid"}, n : Nat]
Clear    == [bad |-> 0, gaps |-> 0, invalid |-> 0, serial |-> 0]
Errors   == {"bad", "gaps", "invalid", "serial"}
Counters == [bad : Nat, gaps : Nat, invalid : Nat, serial : Nat]

Numbers(log, kind) == {e.n : e \in {f \in Range(log) : f.kind = kind}}

Init ==
    /\ next = 1 /\ faults = 0
    /\ rpc = "off" /\ connected = FALSE /\ running = FALSE
    /\ batch = <<>> /\ packets = <<>> /\ decoderBad = 0 /\ seen = FALSE /\ stats = Clear /\ last = 0
    /\ queue = <<>> /\ dropped = 0
    /\ wpc = "off" /\ disk = <<>> /\ writeError = FALSE /\ recRunning = FALSE
    /\ recording = FALSE /\ mpc = "recorder"
    /\ started = FALSE /\ stopped = FALSE /\ first = 0 /\ lastInWindow = 0
    /\ startStats = Clear /\ endStats = Clear
    /\ failed = FALSE /\ clean = TRUE /\ joined = TRUE
    /\ offered = {} /\ result = None /\ manifest = <<>>

-----------------------------------------------------------------------------
(* The reader.  Every callback puts with a test of the size and then a put  *)
(* that blocks; only main's sentinel can come between the two.              *)

Full == Len(queue) >= MaxQueue

Put(e) ==
    /\ ~Full
    /\ queue' = Append(queue, e)

\* Bytes of one or more samples arrive; a sample before them may be lost.
ReadBatch ==
    /\ rpc = "read" /\ running /\ connected
    /\ \E from \in {next, next + 1}, count \in 1..MaxBatch :
         \E kinds \in [1..count -> {"good", "corrupt", "invalid"}] :
            LET flawed == {i \in 1..count : kinds[i] # "good"}
                price  == (from - next) + (IF flawed = {} THEN 0 ELSE 1)
            IN  /\ from + count - 1 <= MaxSamples
                /\ faults + price <= MaxFaults
                /\ faults' = faults + price
                /\ next' = from + count
                /\ batch' = [i \in 1..count |-> [n |-> from + i - 1, kind |-> kinds[i]]]
                /\ packets' = <<>>
    /\ rpc' = "feed"
    /\ UNCHANGED <<connected, decoderBad, stats, seen, last, offered, queue, dropped, recorder, writeError,
                   flags, mpc, window, verdict>>

\* The parser's answer for the candidate: a packet, or one more error.
Decode ==
    /\ IF Head(batch).kind = "corrupt"
       THEN decoderBad' = decoderBad + 1 /\ UNCHANGED packets
       ELSE packets' = Append(packets, Head(batch)) /\ UNCHANGED decoderBad
    /\ batch' = Tail(batch)
    /\ rpc' = IF Len(batch) = 1 THEN "parse" ELSE "feed"

\* StreamDecoder.feed hands every framed candidate to the raw file before it
\* parses it.
OfferRaw ==
    /\ rpc = "feed"
    /\ IF Full
       THEN dropped' = dropped + 1 /\ Decode
       ELSE rpc' = "rawput" /\ UNCHANGED <<dropped, batch, packets, decoderBad>>
    /\ UNCHANGED <<line, connected, seen, stats, last, offered, queue, recorder, writeError,
                   flags, mpc, window, verdict>>

PutRaw ==
    /\ rpc = "rawput"
    /\ Put([kind |-> "raw", n |-> Head(batch).n])
    /\ Decode
    /\ UNCHANGED <<line, connected, seen, stats, last, offered, dropped, recorder, writeError,
                   flags, mpc, window, verdict>>

\* A packet is counted, its continuity is judged, its time is taken.
Parse ==
    /\ rpc = "parse" /\ packets # <<>>
    /\ LET p     == Head(packets)
           valid == p.kind = "good"
           gap   == valid /\ last # 0 /\ p.n # last + 1
       IN  /\ seen' = TRUE
           /\ stats' = [stats EXCEPT !.invalid = IF valid THEN @ ELSE @ + 1,
                                     !.gaps = IF gap THEN @ + 1 ELSE @]
           /\ last' = IF valid THEN p.n ELSE last
           /\ lastInWindow' = IF valid /\ started /\ ~stopped THEN p.n ELSE lastInWindow
           /\ packets' = IF valid THEN packets ELSE Tail(packets)
           /\ rpc' = IF valid THEN "record" ELSE "parse"
    /\ UNCHANGED <<line, connected, batch, decoderBad, offered, queue, dropped, recorder, writeError,
                   flags, mpc, started, stopped, first, verdict>>

\* The controller's part of record_imu: the first sample stamped after the
\* start is the one whose counter the acceptance names.
Observe ==
    /\ first' = IF first = 0 /\ lastInWindow = Head(packets).n THEN lastInWindow ELSE first
    /\ packets' = Tail(packets)
    /\ rpc' = "parse"

\* record_imu tests recording_active, then the queue's size.
RecordImu ==
    /\ rpc = "record"
    /\ offered' = IF recording THEN offered \cup {Head(packets).n} ELSE offered
    /\ dropped' = IF recording /\ Full THEN dropped + 1 ELSE dropped
    /\ IF recording /\ ~Full
       THEN rpc' = "imuput" /\ UNCHANGED <<first, packets>>
       ELSE Observe
    /\ UNCHANGED <<line, connected, batch, decoderBad, seen, stats, last, queue, recorder,
                   writeError, flags, mpc, started, stopped, lastInWindow, verdict>>

PutImu ==
    /\ rpc = "imuput"
    /\ Put([kind |-> "imu", n |-> Head(packets).n])
    /\ Observe
    /\ UNCHANGED <<line, connected, batch, decoderBad, seen, stats, last, offered, dropped,
                   recorder, writeError, flags, mpc, started, stopped, lastInWindow, verdict>>

\* frames_bad and resyncs become the current decoder's.
EndBatch ==
    /\ rpc = "parse" /\ packets = <<>>
    /\ stats' = [stats EXCEPT !.bad = decoderBad]
    /\ rpc' = "read"
    /\ UNCHANGED <<line, connected, batch, packets, decoderBad, seen, last, offered, queue, dropped, recorder,
                   writeError, flags, mpc, window, verdict>>

\* A read raises: the port is closed, to be opened again later.
Disconnect ==
    /\ rpc = "read" /\ running /\ connected
    /\ faults < MaxFaults
    /\ faults' = faults + 1
    /\ connected' = FALSE
    /\ stats' = [stats EXCEPT !.serial = @ + 1]
    /\ UNCHANGED <<next, rpc, batch, packets, decoderBad, seen, last, offered, queue, dropped, recorder,
                   writeError, flags, mpc, window, verdict>>

\* A new port, a new decoder; what came meanwhile is lost.
Reconnect ==
    /\ rpc = "read" /\ running /\ ~connected
    /\ connected' = TRUE
    /\ stats' = [stats EXCEPT !.serial = @ + 1]
    /\ decoderBad' = 0
    /\ next' \in {next, next + 1}
    /\ next' <= MaxSamples + 1
    /\ UNCHANGED <<faults, rpc, batch, packets, seen, last, offered, queue, dropped, recorder, writeError,
                   flags, mpc, window, verdict>>

ReaderEnds ==
    /\ rpc = "read" /\ ~running
    /\ rpc' = "ended"
    /\ UNCHANGED <<line, connected, batch, packets, decoderBad, stats, seen, last, offered, queue, dropped,
                   recorder, writeError, flags, mpc, window, verdict>>

Reader ==
    \/ ReadBatch \/ OfferRaw \/ PutRaw \/ Parse \/ RecordImu \/ PutImu \/ EndBatch
    \/ Disconnect \/ Reconnect \/ ReaderEnds

-----------------------------------------------------------------------------
(* The recorder's thread.                                                   *)

rest == <<line, reader, dropped, flags, mpc, window, verdict>>

LoopTest ==
    /\ wpc = "loop"
    /\ wpc' = IF recRunning \/ queue # <<>> THEN "get" ELSE "close"
    /\ UNCHANGED <<rest, queue, disk, writeError>>

\* The sentinel ends the loop, any other item is written.
Take ==
    /\ wpc = "get" /\ queue # <<>>
    /\ queue' = Tail(queue)
    /\ IF Head(queue) = Sentinel
       THEN wpc' = "close" /\ UNCHANGED disk
       ELSE wpc' = "loop" /\ disk' = Append(disk, Head(queue))
    /\ UNCHANGED <<rest, writeError>>

\* Mutants: plausible bugs in the operations below; no specification uses them.
WriteFailsUnlatched ==
    /\ wpc = "get" /\ queue # <<>> /\ Head(queue) # Sentinel
    /\ faults < MaxFaults
    /\ faults' = faults + 1
    /\ queue' = Tail(queue)
    /\ wpc' = "loop"
    /\ UNCHANGED <<next, reader, dropped, flags, mpc, window, verdict, disk, writeError>>

\* A write raises: the item is lost, the first error stays, the loop goes on.
WriteFails ==
    /\ wpc = "get" /\ queue # <<>> /\ Head(queue) # Sentinel
    /\ faults < MaxFaults
    /\ faults' = faults + 1
    /\ queue' = Tail(queue)
    /\ writeError' = TRUE
    /\ wpc' = "loop"
    /\ UNCHANGED <<next, reader, dropped, flags, mpc, window, verdict, disk>>

CloseFiles ==
    /\ wpc = "close"
    /\ wpc' = "done"
    /\ UNCHANGED <<rest, queue, disk, writeError>>

CloseFails ==
    /\ wpc = "close"
    /\ faults < MaxFaults
    /\ faults' = faults + 1
    /\ writeError' = TRUE
    /\ wpc' = "done"
    /\ UNCHANGED <<next, reader, dropped, flags, mpc, window, verdict, queue, disk>>

RecorderThread == LoopTest \/ Take \/ WriteFails \/ CloseFiles \/ CloseFails

-----------------------------------------------------------------------------
(* Main.                                                                    *)

\* current_joint_health: the totals since the port was opened, not the formal
\* ones, and the recorder.
Healthy ==
    /\ \A key \in Errors : stats[key] = 0
    /\ dropped = 0
    /\ wpc \notin {"off", "done"}
    /\ ~writeError

others == <<line, reader, recorder, queue, dropped>>

\* Mutants: plausible bugs in the operations below; no specification uses them.
JoinRecorderUnchecked ==
    /\ mpc = "joinrecorder"
    /\ mpc' = "finalize"
    /\ UNCHANGED <<others, writeError, flags, window, verdict>>
JoinReaderForever ==
    /\ mpc = "joinimu" /\ rpc = "ended"
    /\ connected' = FALSE
    /\ mpc' = "stoprecorder"
    /\ UNCHANGED <<line, rpc, batch, packets, decoderBad, stats, seen, last, offered, recorder, queue, dropped,
                   writeError, flags, window, verdict>>
TransportAcceptedWithoutGaps ==
    /\ \A key \in Errors \ {"gaps"} : endStats[key] - startStats[key] = 0
    /\ dropped = 0

\* An exception anywhere before the end of the window.
Fail ==
    /\ mpc \in {"recorder", "imu", "warm", "drain", "formal"}
    /\ failed' = TRUE
    /\ mpc' = "clear"
    /\ UNCHANGED <<others, writeError, flags, window, startStats, endStats, clean, joined, result,
                   manifest>>

StartRecorder ==
    /\ mpc = "recorder"
    /\ recRunning' = TRUE
    /\ wpc' = "loop"
    /\ recording' = TRUE
    /\ mpc' = "imu"
    /\ UNCHANGED <<line, reader, queue, dropped, disk, writeError, running, window, verdict>>

StartImu ==
    /\ mpc = "imu"
    /\ running' = TRUE
    /\ connected' = TRUE
    /\ rpc' = "read"
    /\ mpc' = "warm"
    /\ UNCHANGED <<line, batch, packets, decoderBad, stats, seen, last, offered, queue, dropped, recorder,
                   writeError, recRunning, recording, window, verdict>>

\* The start's time comes while the worker still polls.
StartPasses ==
    /\ mpc = "warm" /\ ~started
    /\ started' = TRUE
    /\ UNCHANGED <<others, writeError, flags, mpc, stopped, first, lastInWindow, verdict>>

\* The poll that crosses the start, warm and healthy.
CrossStart ==
    /\ mpc = "warm" /\ started
    /\ Healthy /\ seen
    /\ mpc' = "drain"
    /\ UNCHANGED <<others, writeError, flags, window, verdict>>

\* The cameras' backlog is drained, then imu_stats_start is taken: after the start.
StartSnapshot ==
    /\ mpc = "drain"
    /\ startStats' = stats
    /\ mpc' = "formal"
    /\ UNCHANGED <<others, writeError, flags, window, endStats, failed, clean, joined, result, manifest>>

\* A healthy poll that finds the window complete (duration or stop).
FormalPoll ==
    /\ mpc = "formal"
    /\ Healthy
    /\ mpc' = "stoptime"
    /\ UNCHANGED <<others, writeError, flags, window, verdict>>

StopTime ==
    /\ mpc = "stoptime"
    /\ stopped' = TRUE
    /\ mpc' = "clear"
    /\ UNCHANGED <<others, writeError, flags, started, first, lastInWindow, verdict>>

ClearRecording ==
    /\ mpc = "clear"
    /\ recording' = FALSE
    /\ stopped' = TRUE
    /\ mpc' = "snapshot"
    /\ UNCHANGED <<others, writeError, running, recRunning, started, first, lastInWindow, verdict>>

EndSnapshot ==
    /\ mpc = "snapshot"
    /\ endStats' = stats
    /\ mpc' = "stopimu"
    /\ UNCHANGED <<others, writeError, flags, window, startStats, failed, clean, joined, result, manifest>>

\* Pausing the bag, stopping the sensor (each may raise), then imu.stop().
StopImu ==
    /\ mpc = "stopimu"
    /\ failed' \in {failed, TRUE}
    /\ running' = FALSE
    /\ mpc' = IF rpc = "off" THEN "stoprecorder" ELSE "joinimu"
    /\ UNCHANGED <<others, writeError, recRunning, recording, window, startStats, endStats, clean, joined,
                   result, manifest>>

\* join(timeout=2.0): its outcome is not looked at.
JoinReader ==
    /\ mpc = "joinimu"
    /\ joined' = (rpc = "ended")
    /\ connected' = FALSE
    /\ mpc' = "stoprecorder"
    /\ UNCHANGED <<line, rpc, batch, packets, decoderBad, stats, seen, last, offered, recorder, queue, dropped,
                   writeError, flags, window, startStats, endStats, failed, clean, result, manifest>>

\* The sentinel is put unless the queue is full.
StopRecorder ==
    /\ mpc = "stoprecorder"
    /\ recRunning' = FALSE
    /\ queue' = IF Full \/ wpc = "off" THEN queue ELSE Append(queue, Sentinel)
    /\ mpc' = IF wpc = "off" THEN "finalize" ELSE "joinrecorder"
    /\ UNCHANGED <<line, reader, recorder, dropped, writeError, running, recording, window, verdict>>

\* join(timeout=3.0): a recorder still alive is an error.
JoinRecorder ==
    /\ mpc = "joinrecorder"
    /\ clean' = (wpc = "done")
    /\ writeError' = (writeError \/ wpc # "done")
    /\ mpc' = "finalize"
    /\ UNCHANGED <<others, flags, window, startStats, endStats, failed, joined, result, manifest>>

\* imu_transport_accepted over the formal deltas.
TransportAccepted ==
    /\ \A key \in Errors : endStats[key] - startStats[key] = 0
    /\ dropped = 0

\* imu_ok: a clean shutdown, no write error, rows inside the window, transport.
ImuAccepted ==
    /\ clean /\ ~writeError
    /\ \E n \in Numbers(disk, "imu") : first # 0 /\ n \in first..lastInWindow
    /\ TransportAccepted

OutputsSealed == clean /\ ~writeError

\* The verdict, then the hashes if the outputs are sealed; hashing may fail too.
Finalize ==
    /\ mpc = "finalize"
    /\ manifest' \in IF OutputsSealed THEN {disk, <<>>} ELSE {<<>>}
    /\ result' \in IF ~failed /\ OutputsSealed /\ ImuAccepted /\ manifest' = disk
                    THEN {"PASS", "FAIL"} ELSE {"FAIL"}
    /\ mpc' = "report"
    /\ UNCHANGED <<others, writeError, flags, window, startStats, endStats, failed, clean, joined>>

\* The acceptance is written and the process exits; its daemon threads end with it.
Exit ==
    /\ mpc = "report"
    /\ mpc' = "exited"
    /\ UNCHANGED <<others, writeError, flags, window, verdict>>

Shutdown ==
    \/ ClearRecording \/ EndSnapshot \/ StopImu \/ JoinReader \/ StopRecorder
    \/ JoinRecorder \/ Finalize \/ Exit

Main ==
    \/ StartRecorder \/ StartImu \/ CrossStart \/ StartSnapshot \/ FormalPoll \/ StopTime
    \/ Fail \/ Shutdown

Next ==
    \/ mpc # "exited" /\ (Reader \/ RecorderThread)
    \/ Main
    \/ StartPasses

Spec == Init /\ [][Next]_vars

-----------------------------------------------------------------------------
(* Properties.                                                              *)

\* Every variable holds what the code can put there.
TypeOK ==
    /\ next \in Nat /\ faults \in Nat /\ decoderBad \in Nat /\ last \in Nat /\ dropped \in Nat
    /\ first \in Nat /\ lastInWindow \in Nat
    /\ rpc \in {"off", "read", "feed", "rawput", "parse", "record", "imuput", "ended"}
    /\ wpc \in {"off", "loop", "get", "close", "done"}
    /\ mpc \in {"recorder", "imu", "warm", "drain", "formal", "stoptime", "clear", "snapshot", "stopimu",
                "joinimu", "stoprecorder", "joinrecorder", "finalize", "report", "exited"}
    /\ connected \in BOOLEAN /\ running \in BOOLEAN /\ seen \in BOOLEAN /\ writeError \in BOOLEAN
    /\ recRunning \in BOOLEAN /\ recording \in BOOLEAN /\ started \in BOOLEAN /\ stopped \in BOOLEAN
    /\ failed \in BOOLEAN /\ clean \in BOOLEAN /\ joined \in BOOLEAN
    /\ batch \in Seq(Read) /\ packets \in Seq(Read)
    /\ stats \in Counters /\ startStats \in Counters /\ endStats \in Counters
    /\ queue \in Seq(Items \cup {Sentinel})
    /\ disk \in Seq(Items) /\ manifest \in Seq(Items)
    /\ offered \subseteq Nat
    /\ result \in {None, "PASS", "FAIL"}

\* The samples of a log are in order, none is there twice.
InOrder(log) ==
    \A i, j \in DOMAIN log : i < j /\ log[i].kind = "imu" /\ log[j].kind = "imu" => log[i].n < log[j].n

\* Every sample but the first is the successor of another.
Gapless(numbers) == \A n \in numbers : n - 1 \in numbers \/ \A m \in numbers : n <= m

\* A PASS means files without a hole: inside the formal window, and in the warm-
\* up before it, every persisted sample is the successor of the one before it.
\* The counters are snapshot after the start and before the reader has ended;
\* the health polls and the order of counting, recording and snapshots make up
\* for it.
PassIsGapless == result = "PASS" => InOrder(disk) /\ Gapless(Numbers(disk, "imu"))

\* A PASS means that nothing record_imu took is missing, twice or out of order
\* in the file, unless the reader outlived the join of its stop: then its put
\* may come after the sentinel, where nobody looks.
AcceptedIsWritten ==
    result = "PASS" /\ joined => InOrder(disk) /\ Numbers(disk, "imu") = offered

\* Hashed files do not change any more, whatever threads are left.
HashedIsFinal == [][manifest # <<>> => disk' = disk]_vars

\* The shutdown waits for nobody for ever.  However the reader hangs and
\* whatever it still puts, main can go on; and while it waits for the recorder,
\* that has something to wake up for: the sentinel finds the queue full only if
\* the queue is not empty (UnitRecorder.stop, ImuReader.stop).
ShutdownNeverBlocks ==
    /\ mpc \in {"clear", "snapshot", "stopimu", "joinimu", "stoprecorder", "joinrecorder", "finalize",
                 "report"} => ENABLED Shutdown
    /\ mpc = "joinrecorder" /\ wpc = "get" => queue # <<>>

=============================================================================
