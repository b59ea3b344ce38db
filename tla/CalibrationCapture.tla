-------------------------- MODULE CalibrationCapture --------------------------
(***************************************************************************)
(* The calibration recording of the 2UQ2                                   *)
(* (devices/two_uq2/calibration_capture.py): five threads and processes.   *)
(*                                                                         *)
(*   video    the streaming thread: CalibrationRecorder.video_callback     *)
(*   child    the isolated process that polls the IMU through the XU       *)
(*            control and sends its samples in batches                     *)
(*   preview  the process that shows the board, q in which ends the run    *)
(*   writer   CalibrationRecorder._write_loop, a bounded queue to the      *)
(*            append-only session                                          *)
(*   main     capture(): sets everything up on an ExitStack, drains the    *)
(*            child's messages, finishes, unwinds, judges                  *)
(*                                                                         *)
(* A video frame is its sequence number, an IMU sample the number of the   *)
(* child's successful read.  `error' is CalibrationRecorder._error is set. *)
(* An upset is anything that goes wrong on its own: a call that raises, a  *)
(* process that dies, Ctrl-C.                                              *)
(***************************************************************************)
EXTENDS SessionWriter

CONSTANTS
    MaxVideo,      \* bound: frames of the camera
    MaxReads,      \* bound: reads of the IMU
    MaxUpsets,     \* bound: upsets
    Batch,         \* _IMU_BATCH_SIZE
    MessageDepth,  \* _IMU_QUEUE_CAPACITY
    PipeDepth,     \* messages the pipe of the queue holds
    WriteDepth     \* queue_capacity

VARIABLES
    upsets,      \* upsets so far
    dataset,     \* the AppendOnlySessionWriter
    recorder,    \* [active, error, video, samples, xuFailures] of CalibrationRecorder
    writes,      \* _write_queue
    writing,     \* the writer thread is alive
    video,       \* [at, n, seen]: the frame at work, and how many there were
    playing,     \* callbacks may come
    child,       \* [pc, batch, failures, reads, read, ready, error] of the IMU process
    messages,    \* the queue of the child's batches
    flags,       \* [start, stop, expired]: start_requested, stop_requested, the deadline has passed
    preview,     \* the preview process
    main,        \* [pc, pending, half, raised, aborted]
    outcome      \* [status, video, samples]: the report

vars == <<upsets, dataset, recorder, writes, writing, video, playing, child, messages, flags, preview, main,
          outcome>>

Upset == upsets < MaxUpsets /\ upsets' = upsets + 1

Init ==
    /\ upsets = 0
    /\ dataset = NewWriter
    /\ recorder = [active |-> FALSE, error |-> FALSE, video |-> 0, samples |-> 0, xuFailures |-> 0]
    /\ writes = <<>> /\ writing = FALSE
    /\ video = [at |-> "idle", n |-> 0, seen |-> 0] /\ playing = FALSE
    /\ child = [pc |-> "off", batch |-> <<>>, failures |-> 0, reads |-> 0, read |-> 0, ready |-> FALSE,
                error |-> FALSE]
    /\ messages = <<>>
    /\ flags = [start |-> FALSE, stop |-> FALSE, expired |-> FALSE]
    /\ preview \in {"off", "asked"}
    /\ main = [pc |-> "preview", pending |-> <<>>, half |-> FALSE, raised |-> None, aborted |-> FALSE]
    /\ outcome = [status |-> None, video |-> 0, samples |-> 0]

-----------------------------------------------------------------------------
(* The streaming thread.                                                    *)

\* A frame is numbered and counted under the lock, if the recording is active;
\* or the callback raises before that.
Frame ==
    /\ playing /\ video.at = "idle" /\ video.seen < MaxVideo
    /\ \/ /\ recorder.active
          /\ recorder' = [recorder EXCEPT !.video = @ + 1]
          /\ video' = [at |-> "put", n |-> recorder.video + 1, seen |-> video.seen + 1]
          /\ UNCHANGED upsets
       \/ /\ ~recorder.active
          /\ video' = [video EXCEPT !.at = "preview", !.seen = @ + 1]
          /\ UNCHANGED <<recorder, upsets>>
       \/ /\ Upset
          /\ recorder' = [recorder EXCEPT !.error = TRUE]
          /\ video' = [video EXCEPT !.seen = @ + 1]
    /\ UNCHANGED <<dataset, writes, writing, playing, child, messages, flags, preview, main, outcome>>

\* _queue_write: an earlier error or a full queue raises.
Refuses == recorder.error \/ Len(writes) = WriteDepth

PutVideo ==
    /\ video.at = "put"
    /\ IF Refuses
       THEN /\ recorder' = [recorder EXCEPT !.error = TRUE]
            /\ video' = [video EXCEPT !.at = "idle"]
            /\ UNCHANGED writes
       ELSE /\ writes' = Append(writes, <<"ego.video", video.n>>)
            /\ video' = [video EXCEPT !.at = "preview"]
            /\ UNCHANGED recorder
    /\ UNCHANGED <<upsets, dataset, writing, playing, child, messages, flags, preview, main, outcome>>

\* submit never waits for the preview process; a frame too large for its slot
\* raises, in the callback that has already queued it.
Submit ==
    /\ video.at = "preview"
    /\ video' = [video EXCEPT !.at = "idle"]
    /\ \/ UNCHANGED <<upsets, recorder>>
       \/ /\ preview # "off" /\ Upset
          /\ recorder' = [recorder EXCEPT !.error = TRUE]
    /\ UNCHANGED <<dataset, writes, writing, playing, child, messages, flags, preview, main, outcome>>

Streaming == Frame \/ PutVideo \/ Submit

-----------------------------------------------------------------------------
(* The writer thread: after an error it only empties the queue.             *)

WriteOne ==
    /\ writing /\ writes # <<>>
    /\ writes' = Tail(writes)
    /\ IF recorder.error THEN UNCHANGED <<upsets, dataset, recorder>>
       ELSE \E o \in AppendOutcomes(dataset, Head(writes)[1], Head(writes)[2]) :
                /\ dataset' = o.writer
                /\ recorder' = [recorder EXCEPT !.error = o.error # None]
                /\ IF o.error = "OSError" THEN Upset ELSE UNCHANGED upsets
    /\ UNCHANGED <<writing, video, playing, child, messages, flags, preview, main, outcome>>

-----------------------------------------------------------------------------
(* The isolated IMU process.                                                *)

\* The child as c sends its batch; an error when the queue is full.
Send(c) ==
    IF Len(messages) < MessageDepth
    THEN /\ messages' = Append(messages, [samples |-> c.batch, failures |-> c.failures])
         /\ child' = [c EXCEPT !.batch = <<>>, !.failures = 0]
    ELSE /\ child' = [c EXCEPT !.pc = "exiting", !.error = TRUE]
         /\ UNCHANGED messages

\* The device is open and warm.
ChildReady ==
    /\ child.pc = "warm"
    /\ \/ /\ child' = [child EXCEPT !.pc = "ready", !.ready = TRUE] /\ UNCHANGED upsets
       \/ /\ Upset /\ child' = [child EXCEPT !.pc = "exiting", !.error = TRUE]
    /\ UNCHANGED <<dataset, recorder, writes, writing, video, playing, messages, flags, preview, main, outcome>>

ChildStarts ==
    /\ child.pc = "ready" /\ (flags.start \/ flags.stop)
    /\ child' = [child EXCEPT !.pc = IF flags.start THEN "poll" ELSE "exiting"]
    /\ UNCHANGED <<upsets, dataset, recorder, writes, writing, video, playing, messages, flags, preview, main,
                   outcome>>

\* A read, or one that fails; a full batch is sent.
ChildReads ==
    /\ child.pc = "poll" /\ ~flags.expired /\ ~flags.stop /\ child.reads < MaxReads
    /\ \E c \in {[child EXCEPT !.reads = @ + 1, !.read = @ + 1, !.batch = Append(@, child.read + 1)],
                [child EXCEPT !.reads = @ + 1, !.failures = @ + 1]} :
         IF Len(c.batch) + c.failures >= Batch THEN Send(c) ELSE child' = c /\ UNCHANGED messages
    /\ UNCHANGED <<upsets, dataset, recorder, writes, writing, video, playing, flags, preview, main, outcome>>

\* The deadline or a request: what is left is sent.
ChildEnds ==
    /\ child.pc = "poll" /\ (flags.expired \/ flags.stop)
    /\ LET c == [child EXCEPT !.pc = "exiting"]
       IN  IF c.batch # <<>> \/ c.failures > 0 THEN Send(c) ELSE child' = c /\ UNCHANGED messages
    /\ UNCHANGED <<upsets, dataset, recorder, writes, writing, video, playing, flags, preview, main, outcome>>

\* A process ends when what it has put fits into the pipe.
ChildExits ==
    /\ child.pc = "exiting" /\ Len(messages) <= PipeDepth
    /\ child' = [child EXCEPT !.pc = "ended"]
    /\ UNCHANGED <<upsets, dataset, recorder, writes, writing, video, playing, messages, flags, preview, main,
                   outcome>>

\* It dies, with what had not reached the pipe.
ChildDies ==
    /\ child.pc \in {"warm", "ready", "poll", "exiting"} /\ Upset
    /\ child' = [child EXCEPT !.pc = "ended", !.error = TRUE]
    /\ \E kept \in 0..Len(messages) : messages' = SubSeq(messages, 1, kept)
    /\ UNCHANGED <<dataset, recorder, writes, writing, video, playing, flags, preview, main, outcome>>

Child == ChildReady \/ ChildStarts \/ ChildReads \/ ChildEnds \/ ChildExits

-----------------------------------------------------------------------------
(* The preview process, as far as main can tell: q sets the abort event, an *)
(* exception leaves a message and sets it too, a crash does neither.        *)

PreviewEnds ==
    /\ preview = "run"
    /\ \/ preview' = "quit" /\ UNCHANGED upsets
       \/ preview' \in {"failed", "crashed"} /\ Upset
    /\ UNCHANGED <<dataset, recorder, writes, writing, video, playing, child, messages, flags, main, outcome>>

-----------------------------------------------------------------------------
(* main.                                                                    *)

\* The steps that may raise, and where an exception in each takes the ExitStack.
Guarded == {"preview", "writer", "play", "imu", "wait", "begin", "loop", "finish", "stopimu", "finishwrites",
            "close", "files", "seal"}

Unwind(pc) ==
    CASE pc \in {"preview", "writer", "close", "files", "seal"} -> "stoppreview"
      [] pc \in {"play", "stopimu"} -> "stopvideo"
      [] pc \in {"imu", "wait", "begin", "loop", "finish"} -> "stopimu"
      [] pc = "finishwrites" -> "close"

Goto(pc) == main' = [main EXCEPT !.pc = pc]

Raise == main' = [main EXCEPT !.pc = Unwind(main.pc), !.raised = "error", !.pending = <<>>, !.half = FALSE]

\* The preview process is ready; or it exits, or says it failed, or takes too long.
StartPreview ==
    /\ main.pc = "preview"
    /\ preview' = IF preview = "off" THEN "off" ELSE "run"
    /\ \/ Goto("writer") /\ UNCHANGED upsets
       \/ preview = "asked" /\ Upset /\ Raise
    /\ UNCHANGED <<dataset, recorder, writes, writing, video, playing, child, messages, flags, outcome>>

\* The session and its recorder with the writer thread.
OpenSession ==
    /\ main.pc = "writer"
    /\ \/ Goto("play") /\ writing' = TRUE /\ UNCHANGED upsets
       \/ Upset /\ Raise /\ UNCHANGED writing
    /\ UNCHANGED <<dataset, recorder, writes, video, playing, child, messages, flags, preview, outcome>>

Play ==
    /\ main.pc = "play"
    /\ \/ Goto("imu") /\ playing' = TRUE /\ UNCHANGED upsets
       \/ Upset /\ Raise /\ UNCHANGED playing
    /\ UNCHANGED <<dataset, recorder, writes, writing, video, child, messages, flags, preview, outcome>>

StartImu ==
    /\ main.pc = "imu"
    /\ Goto("wait")
    /\ child' = [child EXCEPT !.pc = "warm"]
    /\ UNCHANGED <<upsets, dataset, recorder, writes, writing, video, playing, messages, flags, preview, outcome>>

\* The child says it is ready; or it has ended, or says it failed, or takes too long.
AwaitImu ==
    /\ main.pc = "wait"
    /\ \/ child.ready /\ Goto("begin") /\ UNCHANGED upsets
       \/ child.error /\ Raise /\ UNCHANGED upsets
       \/ Upset /\ Raise
    /\ UNCHANGED <<dataset, recorder, writes, writing, video, playing, child, messages, flags, preview, outcome>>

PreviewBroken == preview \in {"failed", "crashed"}

BeginRecording ==
    /\ main.pc = "begin"
    /\ IF recorder.error \/ PreviewBroken
       THEN Raise /\ UNCHANGED <<recorder, flags>>
       ELSE /\ recorder' = [recorder EXCEPT !.active = TRUE]
            /\ flags' = [flags EXCEPT !.start = TRUE]
            /\ Goto("loop")
    /\ UNCHANGED <<upsets, dataset, writes, writing, video, playing, child, messages, preview, outcome>>

DeadlinePasses ==
    /\ flags.start /\ ~flags.expired
    /\ flags' = [flags EXCEPT !.expired = TRUE]
    /\ UNCHANGED <<upsets, dataset, recorder, writes, writing, video, playing, child, messages, preview, main,
                   outcome>>

\* drain: the next message of the child.
TakeMessage ==
    /\ main.pc \in {"loop", "finish"} /\ main.pending = <<>> /\ messages # <<>>
    /\ main' = [main EXCEPT !.pending = Head(messages).samples]
    /\ recorder' = [recorder EXCEPT !.xuFailures = @ + Head(messages).failures]
    /\ messages' = Tail(messages)
    /\ UNCHANGED <<upsets, dataset, writes, writing, video, playing, child, flags, preview, outcome>>

\* record_packet: the packet is counted with its sample, then queued.
RecordPacket ==
    /\ main.pending # <<>> /\ ~main.half
    /\ recorder' = [recorder EXCEPT !.samples = @ + 1, !.error = Refuses]
    /\ IF Refuses
       THEN Raise /\ UNCHANGED writes
       ELSE /\ writes' = Append(writes, <<"ego.xu.packet", Head(main.pending)>>)
            /\ main' = [main EXCEPT !.half = TRUE]
    /\ UNCHANGED <<upsets, dataset, writing, video, playing, child, messages, flags, preview, outcome>>

\* record_packet: then the sample.
RecordSample ==
    /\ main.half
    /\ recorder' = [recorder EXCEPT !.error = Refuses]
    /\ IF Refuses
       THEN Raise /\ UNCHANGED writes
       ELSE /\ writes' = Append(writes, <<"ego.imu", Head(main.pending)>>)
            /\ main' = [main EXCEPT !.half = FALSE, !.pending = Tail(@)]
    /\ UNCHANGED <<upsets, dataset, writing, video, playing, child, messages, flags, preview, outcome>>

\* _capture_until_deadline between two drains: the deadline, an error of the
\* recorder, and pump, to which the abort of a preview that failed may come
\* before its message.
LoopTop ==
    /\ main.pc = "loop" /\ main.pending = <<>>
    /\ \/ flags.expired /\ Goto("finish") /\ UNCHANGED flags
       \/ (recorder.error \/ PreviewBroken) /\ Raise /\ UNCHANGED flags
       \/ /\ preview \in {"quit", "failed"}
          /\ main' = [main EXCEPT !.pc = "finish", !.aborted = TRUE]
          /\ flags' = [flags EXCEPT !.stop = TRUE]
    /\ UNCHANGED <<upsets, dataset, recorder, writes, writing, video, playing, child, messages, preview, outcome>>

\* Ctrl-C in the loop is an abort, wherever in a drain it falls.
InterruptLoop ==
    /\ main.pc = "loop" /\ Upset
    /\ main' = [main EXCEPT !.pc = "finish", !.aborted = TRUE, !.pending = <<>>, !.half = FALSE]
    /\ flags' = [flags EXCEPT !.stop = TRUE]
    /\ UNCHANGED <<dataset, recorder, writes, writing, video, playing, child, messages, preview, outcome>>

\* Mutants: plausible bugs in the operations below; no specification uses them.
FinishBeforeLastDrain ==
    /\ main.pc = "finish" /\ main.pending = <<>>
    /\ \/ child.pc = "ended" /\ ~child.error
          /\ recorder' = [recorder EXCEPT !.active = FALSE] /\ Goto("stopimu")
       \/ (child.pc # "ended" \/ child.error) /\ Raise /\ UNCHANGED recorder
    /\ UNCHANGED <<upsets, dataset, writes, writing, video, playing, child, messages, flags, preview, outcome>>

\* finish drains while it waits, and once more after the child has ended; five
\* seconds later it raises, as it does when the child left an error.
Finish ==
    /\ main.pc = "finish" /\ main.pending = <<>> /\ messages = <<>>
    /\ \/ child.pc = "ended" /\ ~child.error
          /\ recorder' = [recorder EXCEPT !.active = FALSE] /\ Goto("stopimu")
       \/ (child.pc # "ended" \/ child.error) /\ Raise /\ UNCHANGED recorder
    /\ UNCHANGED <<upsets, dataset, writes, writing, video, playing, child, messages, flags, preview, outcome>>

\* IsolatedImuReader.stop: joined, or terminated.
StopImu ==
    /\ main.pc = "stopimu"
    /\ flags' = [flags EXCEPT !.stop = TRUE]
    /\ child' = [child EXCEPT !.pc = "ended"]
    /\ Goto("stopvideo")
    /\ UNCHANGED <<upsets, dataset, recorder, writes, writing, video, playing, messages, preview, outcome>>

\* The pipeline's state NULL waits for the callback at work; then recorder.end.
StopVideo ==
    /\ main.pc = "stopvideo" /\ video.at = "idle"
    /\ playing' = FALSE
    /\ recorder' = [recorder EXCEPT !.active = FALSE]
    /\ Goto("finishwrites")
    /\ UNCHANGED <<upsets, dataset, writes, writing, video, child, messages, flags, preview, outcome>>

\* The queue is joined, the sentinel put, the thread joined.
FinishWrites ==
    /\ main.pc = "finishwrites" /\ writes = <<>>
    /\ writing' = FALSE
    /\ IF recorder.error THEN Raise ELSE Goto("close")
    /\ UNCHANGED <<upsets, dataset, recorder, writes, video, playing, child, messages, flags, preview, outcome>>

\* The outcomes of a step of AppendOnlySessionWriter.close.
CloseOutcomes ==
    CASE main.pc = "close" -> {Outcome(BeginClose(dataset), None)}
      [] main.pc = "files" /\ dataset.listed \subseteq dataset.closed -> PublishOutcomes(dataset)
      [] main.pc = "files" -> UNION {CloseStreamOutcomes(dataset, s) : s \in dataset.listed \ dataset.closed}
      [] main.pc = "seal" -> SealOutcomes(dataset)

AfterClose(published) ==
    CASE main.pc = "close" -> "files"
      [] main.pc = "files" -> IF published THEN "seal" ELSE "files"
      [] main.pc = "seal" -> "stoppreview"

CloseWriter ==
    /\ main.pc \in {"close", "files", "seal"}
    /\ \E o \in CloseOutcomes :
         /\ dataset' = o.writer
         /\ IF o.error = "OSError" THEN Upset ELSE UNCHANGED upsets
         /\ IF o.error # None THEN Raise ELSE Goto(AfterClose(dataset.listed \subseteq dataset.closed))
    /\ UNCHANGED <<recorder, writes, writing, video, playing, child, messages, flags, preview, outcome>>

\* StereoAprilGridPreview.stop raises nothing: a process that does not stop or
\* left an error is a processing error.  An exception of the body ends the run
\* without a report.
StopPreview ==
    /\ main.pc = "stoppreview"
    /\ \/ preview' = (IF preview = "run" THEN "stopped" ELSE preview) /\ UNCHANGED upsets
       \/ preview = "run" /\ preview' = "failed" /\ Upset
    /\ IF main.raised = None
       THEN Goto("report") /\ UNCHANGED outcome
       ELSE Goto("exit") /\ outcome' = [outcome EXCEPT !.status = main.raised]
    /\ UNCHANGED <<dataset, recorder, writes, writing, video, playing, child, messages, flags>>

\* Ctrl-C anywhere else: the step at work is left undone, the rest is unwound.
Interrupt ==
    /\ main.pc \in Guarded \ {"loop"} /\ Upset
    /\ main' = [main EXCEPT !.pc = Unwind(main.pc), !.raised = "interrupt", !.pending = <<>>, !.half = FALSE]
    /\ dataset' = IF main.pc \in {"close", "files", "seal"} THEN Failed(dataset) ELSE dataset
    /\ UNCHANGED <<recorder, writes, writing, video, playing, child, messages, flags, preview, outcome>>

\* build_capture_report: the checks of the transport.  Rates, jitter and gaps
\* are free; a stream needs records, a failed read of the XU is one.
Checks ==
    {c \in [video : BOOLEAN, imu : BOOLEAN, provisional : BOOLEAN, samples : BOOLEAN] :
        /\ c.video => recorder.video > 0 /\ ~(main.aborted \/ preview = "quit")
        /\ c.imu => c.provisional
        /\ c.provisional => recorder.samples > 0
        /\ c.samples => recorder.xuFailures = 0}

\* build_preview_report passes only what came to its end without an error or q.
PreviewVerdicts == {"FAIL"} \cup (IF preview = "stopped" THEN {"PASS"} ELSE {})

\* apply_stage_acceptance.
Stages == {"strict", "stereo", "cam-imu-provisional"}

Verdict(stage, c, previewVerdict) ==
    CASE stage = "strict" ->
           IF c.video /\ c.imu /\ c.samples /\ (preview = "off" \/ previewVerdict = "PASS") THEN "PASS" ELSE "FAIL"
      [] stage = "stereo" ->
           IF c.video /\ previewVerdict = "PASS" THEN "PASS" ELSE "FAIL"
      [] stage = "cam-imu-provisional" ->
           IF c.video /\ c.provisional /\ c.samples THEN "PROVISIONAL_PASS" ELSE "FAIL"

\* The report is written, or that raises.
Report ==
    /\ main.pc = "report"
    /\ Goto("exit")
    /\ \/ /\ \E stage \in Stages, c \in Checks, p \in PreviewVerdicts :
                outcome' = [status |-> Verdict(stage, c, p), video |-> recorder.video,
                            samples |-> recorder.samples]
          /\ UNCHANGED upsets
       \/ /\ Upset
          /\ outcome' = [outcome EXCEPT !.status = "error"]
    /\ UNCHANGED <<dataset, recorder, writes, writing, video, playing, child, messages, flags, preview>>

Main ==
    \/ StartPreview \/ OpenSession \/ Play \/ StartImu \/ AwaitImu \/ BeginRecording \/ TakeMessage
    \/ RecordPacket \/ RecordSample \/ LoopTop \/ Finish \/ StopImu \/ StopVideo \/ FinishWrites \/ CloseWriter
    \/ StopPreview \/ Report

Next ==
    \/ Streaming \/ WriteOne \/ Child \/ ChildDies \/ PreviewEnds \/ DeadlinePasses
    \/ Main \/ InterruptLoop \/ Interrupt

\* The threads run, the calls of main return, the deadline comes.  Nothing is
\* assumed of the IMU's process.
Fairness == WF_vars(Main) /\ WF_vars(PutVideo \/ Submit) /\ WF_vars(WriteOne) /\ WF_vars(DeadlinePasses)

Spec == Init /\ [][Next]_vars /\ Fairness

-----------------------------------------------------------------------------
(* Properties.                                                              *)

Accepted == outcome.status \in {"PASS", "PROVISIONAL_PASS"}

Rows(s) == [i \in DOMAIN dataset.rows[s] |-> dataset.rows[s][i].record]
UpTo(n) == [i \in 1..n |-> i]

\* An accepted recording is sealed, and holds every frame the report counts and
\* every sample the IMU's process has read, each once and in order, though the
\* process sends its last batch while main is finishing and the pipe is full
\* (IsolatedImuReader.finish, the order of the ExitStack).
CalibrationIsPersisted ==
    Accepted =>
        /\ dataset.state = "sealed" /\ dataset.manifest = Opened(dataset)
        /\ Rows("ego.video") = UpTo(outcome.video)
        /\ outcome.samples = child.read
        /\ Rows("ego.xu.packet") = UpTo(child.read) /\ Rows("ego.imu") = UpTo(child.read)

\* What manifest.json has hashed is what the files hold, though an interrupt
\* may leave the writer thread at work while main closes the session.
SealIsFinal ==
    \A s \in dataset.manifest : dataset.hashed[s] = <<dataset.payload[s], dataset.rows[s]>>

\* Once the deadline has passed the program ends, whatever its child and its
\* preview do.
CalibrationEnds == flags.expired ~> main.pc = "exit"

=============================================================================
