---------------------------- MODULE SpoolCapture ----------------------------
(***************************************************************************)
(* The first rk3576 edge capture (edge_rk3576/capture.py): v4l2-ctl writes *)
(* raw infrared frames into a FIFO and prints a line for each; one thread  *)
(* moves frames from the FIFO to a bounded queue, a second writes them, a  *)
(* third makes rows of the lines.  gst-launch encodes the colour stream, a *)
(* collector reads the serial port, a preview server may be attached.      *)
(*                                                                         *)
(* A frame is its sequence number.  A deadline passes when what it guards  *)
(* hangs.  Once main has raised, its verdict is fixed and the threads'     *)
(* data are left where they are.                                           *)
(***************************************************************************)
EXTENDS Integers, Sequences

CONSTANTS SpoolFrames,   \* duration_s * FPS
          SpoolDepth,    \* CAPTURE_QUEUE_FRAMES
          MaxUpsets,     \* bound: failures of a process, a thread, a disk or a device
          MaxInterrupts  \* bound: Ctrl-C

VARIABLES
    capture,    \* the main thread: its step, and what it has raised
    ir,         \* v4l2-ctl and the thread that reads its lines: process, thread, code, next, sent, rows
    spooler,    \* pipe, reader, queue, writer, file, failed
    rgb,        \* gst-launch-1.0 and its thread: process, thread, code, full
    collector,  \* the serial collector: what it has recorded
    server,     \* the preview server
    folder,     \* the session directory
    upsets, interrupts

spoolVars == <<capture, ir, spooler, rgb, collector, server, folder, upsets, interrupts>>

Unset == "none"
EndMark == 0    \* None in the queue
CutFrame == -1  \* the first bytes of a frame

SpoolInit ==
    /\ capture = [at |-> "preflight", error |-> Unset]
    /\ ir = [process |-> Unset, thread |-> Unset, code |-> Unset, next |-> 1, sent |-> 0, rows |-> <<>>]
    /\ spooler = [pipe |-> <<>>, reader |-> Unset, queue |-> <<>>, writer |-> Unset, file |-> <<>>, failed |-> FALSE]
    /\ rgb = [process |-> Unset, thread |-> Unset, code |-> Unset, full |-> FALSE]
    /\ collector = "new"
    /\ server \in {"off", "wanted"}
    /\ folder = [name |-> "absent", marker |-> FALSE, manifest |-> FALSE, failure |-> FALSE,
                 named |-> FALSE, unsynced |-> {}, durable |-> {}]
    /\ upsets = 0 /\ interrupts = 0

Upset == upsets < MaxUpsets /\ upsets' = upsets + 1
Step(at) == capture' = [capture EXCEPT !.at = at]
Fails == capture' = [at |-> "clean.ir", error |-> "fail"]
Quit(e) == capture' = [at |-> "end", error |-> e]

threads == <<ir, spooler, rgb>>
devices == <<collector, server>>

\* A call of main that succeeds or raises.
Try(at, then) ==
    /\ capture.at = at
    /\ \/ Step(then) /\ UNCHANGED upsets
       \/ Fails /\ Upset

Working == capture.error = Unset /\ capture.at # "end"
Thread(changed) == Working /\ UNCHANGED <<capture, collector, server, folder, interrupts>> /\ UNCHANGED changed

-----------------------------------------------------------------------------
(* v4l2-ctl, and the thread of its _LoggedProcess.                         *)

\* The thread opens its log and starts the process, which opens the FIFO; the
\* reader has waited for that.
StartCamera ==
    /\ Thread(rgb) /\ ir.thread = "start"
    /\ \/ /\ ir' = [ir EXCEPT !.thread = "run", !.process = "run"]
          /\ spooler' = [spooler EXCEPT !.reader = IF @ = "open" THEN "read" ELSE @]
          /\ UNCHANGED upsets
       \/ ir' = [ir EXCEPT !.thread = "done"] /\ Upset /\ UNCHANGED spooler

\* on_ir makes a row of a line while the thread lives.
Row(q) == IF ir.thread = "run" THEN Append(ir.rows, q) ELSE ir.rows

\* A frame is written into the FIFO and its line printed.  One may have been
\* lost before it.
CameraFrame ==
    /\ Thread(rgb)
    /\ ir.process = "run" /\ ir.sent < SpoolFrames /\ spooler.reader = "read" /\ spooler.pipe = <<>>
    /\ \E q \in {ir.next, ir.next + 1} :
         /\ IF q = ir.next THEN UNCHANGED upsets ELSE Upset
         /\ ir' = [ir EXCEPT !.next = q + 1, !.sent = @ + 1, !.rows = Row(q)]
         /\ spooler' = [spooler EXCEPT !.pipe = <<q>>]

\* A line that marks its buffer as an error, or as empty, gives no row; whether
\* the frame is written and counted is v4l2-ctl's affair.
ErroneousFrame ==
    /\ Thread(rgb) /\ Upset
    /\ ir.process = "run" /\ ir.sent < SpoolFrames /\ spooler.reader = "read" /\ spooler.pipe = <<>>
    /\ \E counted \in {0, 1} : ir' = [ir EXCEPT !.next = @ + 1, !.sent = @ + counted]
    /\ \E written \in {<<>>, <<ir.next>>} : spooler' = [spooler EXCEPT !.pipe = written]

\* --stream-count frames have been written.
CameraEnds ==
    /\ Thread(<<rgb, spooler, upsets>>)
    /\ ir.process = "run" /\ ir.sent = SpoolFrames
    /\ ir' = [ir EXCEPT !.process = "ended"]

\* The process dies, possibly within a frame, or hangs; without a thread that
\* takes its lines it hangs sooner or later, without a reader it dies.
CameraFails ==
    /\ Thread(rgb) /\ ir.process = "run"
    /\ \E p \in {"failed", "hung"} :
         /\ ir' = [ir EXCEPT !.process = p]
         /\ IF (p = "hung" /\ ir.thread = "done") \/ (p = "failed" /\ spooler.reader \in {"sentinel", "done"})
            THEN UNCHANGED upsets ELSE Upset
         /\ \/ UNCHANGED spooler
            \/ /\ p = "failed" /\ spooler.pipe = <<>>
               /\ spooler' = [spooler EXCEPT !.pipe = <<CutFrame>>]

\* The thread ends with its process; a callback or a log that raises ends it
\* without a return code.
CameraThreadEnds ==
    /\ Thread(<<rgb, spooler>>) /\ ir.thread = "run"
    /\ \/ /\ ir.process \in {"ended", "failed"}
          /\ ir' = [ir EXCEPT !.thread = "done", !.code = ir.process]
          /\ UNCHANGED upsets
       \/ ir' = [ir EXCEPT !.thread = "done"] /\ Upset

-----------------------------------------------------------------------------
(* gst-launch-1.0 and its thread.  Its rows are counted, not compared.     *)

StartColor ==
    /\ Thread(<<ir, spooler>>) /\ rgb.thread = "start"
    /\ \/ rgb' = [rgb EXCEPT !.thread = "run", !.process = "run"] /\ UNCHANGED upsets
       \/ rgb' = [rgb EXCEPT !.thread = "done"] /\ Upset

ColorEnds ==
    /\ Thread(<<ir, spooler>>) /\ rgb.process = "run" /\ rgb.thread = "run"
    /\ \/ rgb' = [process |-> "ended", thread |-> "done", code |-> "ended", full |-> TRUE] /\ UNCHANGED upsets
       \/ /\ Upset
          /\ rgb' \in {[process |-> "ended", thread |-> "done", code |-> "ended", full |-> FALSE],
                       [process |-> "failed", thread |-> "done", code |-> "failed", full |-> FALSE],
                       [process |-> "run", thread |-> "done", code |-> Unset, full |-> FALSE],
                       [process |-> "hung", thread |-> "run", code |-> Unset, full |-> FALSE]}

-----------------------------------------------------------------------------
(* _FrameSpooler: the reader of the FIFO and the writer of the file.       *)

Spooling == Thread(<<ir, rgb>>)

\* _enqueue waits for room until the writer has ended; a frame that is cut
\* short, or that no writer is left to take, is a failure.
ReadFrame ==
    /\ Spooling /\ spooler.reader = "read" /\ spooler.pipe # <<>>
    /\ LET f == spooler.pipe[1]
       IN  IF f = CutFrame \/ spooler.writer = "done"
           THEN spooler' = [spooler EXCEPT !.pipe = <<>>, !.failed = TRUE, !.reader = "sentinel"]
           ELSE /\ Len(spooler.queue) < SpoolDepth
                /\ spooler' = [spooler EXCEPT !.pipe = <<>>, !.queue = Append(@, f)]
    /\ UNCHANGED upsets

\* The FIFO's only writer has gone.
EndOfFifo ==
    /\ Spooling /\ spooler.reader = "read" /\ spooler.pipe = <<>> /\ ir.process \notin {"run", "hung"}
    /\ spooler' = [spooler EXCEPT !.reader = "sentinel"]
    /\ UNCHANGED upsets

PutEndMark ==
    /\ Spooling /\ spooler.reader = "sentinel"
    /\ \/ spooler.writer = "done" /\ spooler' = [spooler EXCEPT !.reader = "done"]
       \/ /\ spooler.writer # "done" /\ Len(spooler.queue) < SpoolDepth
          /\ spooler' = [spooler EXCEPT !.reader = "done", !.queue = Append(@, EndMark)]
    /\ UNCHANGED upsets

\* The writer appends a frame to the file, ends in an error, or hangs in a
\* write; at the end mark it syncs the file.
WriteFrame ==
    /\ Spooling /\ spooler.writer = "run" /\ spooler.queue # <<>>
    /\ LET f == Head(spooler.queue)
           taken == [spooler EXCEPT !.queue = Tail(@)]
       IN  \/ /\ UNCHANGED upsets
              /\ spooler' = IF f = EndMark THEN [taken EXCEPT !.writer = "done"]
                                           ELSE [taken EXCEPT !.file = Append(@, f)]
           \/ Upset /\ spooler' = [taken EXCEPT !.writer = "done", !.failed = TRUE]
           \/ Upset /\ spooler' = [taken EXCEPT !.writer = "stuck"]

\* The reader waits for what may never come.
ReaderHangs ==
    \/ spooler.reader = "open"
    \/ spooler.reader = "read" /\ spooler.pipe = <<>> /\ ir.process \in {"run", "hung"}
    \/ spooler.reader \in {"read", "sentinel"} /\ spooler.writer = "stuck"

-----------------------------------------------------------------------------
(* The main thread.                                                        *)

\* The camera, its nodes, the serial port or their owners are not as they should be.
Refuse == Quit("fail")

\* Arguments, tools, devices, free space and temperature.
CheckHost ==
    /\ capture.at = "preflight"
    /\ Step("prepare") \/ Refuse
    /\ UNCHANGED <<threads, devices, folder, upsets>>

\* The partial directory with its marker; an error here is not cleaned up.
MakeFolder ==
    /\ capture.at = "prepare"
    /\ folder' = [folder EXCEPT !.name = "partial", !.marker = TRUE, !.unsynced = {"marker"}]
    /\ \/ Step(IF server = "off" THEN "serial.start" ELSE "server.build") /\ UNCHANGED upsets
       \/ Quit("fail") /\ Upset
    /\ UNCHANGED <<threads, devices>>

\* The server has bound its port before its threads run.
BuildServer ==
    /\ Try("server.build", "server.start")
    /\ server' = IF capture'.error = Unset THEN "built" ELSE server
    /\ UNCHANGED <<threads, collector, folder>>

StartServer ==
    /\ Try("server.start", "serial.start")
    /\ server' = IF capture'.error = Unset THEN "running" ELSE server
    /\ UNCHANGED <<threads, collector, folder>>

\* The collector is ready, and records from now on.
StartCollector ==
    /\ Try("serial.start", "spooler.start")
    /\ collector' = IF capture'.error = Unset THEN "recording" ELSE collector
    /\ UNCHANGED <<threads, server, folder>>

StartSpooler ==
    /\ Try("spooler.start", "cameras.start")
    /\ spooler' = IF capture'.error = Unset THEN [spooler EXCEPT !.reader = "open", !.writer = "run"] ELSE spooler
    /\ UNCHANGED <<ir, rgb, devices, folder>>

StartCameras ==
    /\ capture.at = "cameras.start" /\ Step("join")
    /\ ir' = [ir EXCEPT !.thread = "start"]
    /\ rgb' = [rgb EXCEPT !.thread = "start"]
    /\ UNCHANGED <<spooler, devices, folder, upsets>>

\* The threads are joined until a deadline that both share.
JoinCameras ==
    /\ capture.at = "join"
    /\ IF {ir.thread, rgb.thread} = {"done"} THEN Step("reader.join") ELSE Fails
    /\ UNCHANGED <<threads, devices, folder, upsets>>

\* Mutants: plausible bugs in the operations below; no specification uses them.
JoinReaderPatient ==
    /\ capture.at = "reader.join" /\ spooler.reader = "done" /\ Step("writer.join")
    /\ UNCHANGED <<threads, devices, folder, upsets>>

\* finish(): a reader that does not end in ten seconds is woken by opening the
\* FIFO for writing, which ends it only where it waits for a first writer.
JoinReader ==
    /\ capture.at = "reader.join"
    /\ \/ spooler.reader = "done" /\ Step("writer.join") /\ UNCHANGED spooler
       \/ /\ ReaderHangs /\ Step("reader.again")
          /\ spooler' = [spooler EXCEPT !.reader = IF @ = "open" THEN "sentinel" ELSE @]
    /\ UNCHANGED <<ir, rgb, devices, folder, upsets>>

JoinReaderAgain ==
    /\ capture.at = "reader.again" /\ (spooler.reader = "done" \/ ReaderHangs)
    /\ Step("writer.join")
    /\ UNCHANGED <<threads, devices, folder, upsets>>

JoinWriter ==
    /\ capture.at = "writer.join"
    /\ spooler.writer = "done" \/ ReaderHangs \/ spooler.writer = "stuck"
    /\ IF spooler.reader = "done" /\ spooler.writer = "done" /\ ~spooler.failed
       THEN Step("serial.stop") /\ folder' = [folder EXCEPT !.durable = @ \cup {"infrared"}]
       ELSE Fails /\ UNCHANGED folder
    /\ UNCHANGED <<threads, devices, upsets>>

\* What the collector's thread did is seen only here.
StopCollector ==
    /\ capture.at = "serial.stop"
    /\ \/ /\ Step(IF server = "off" THEN "indexes" ELSE "server.stop")
          /\ folder' = [folder EXCEPT !.durable = @ \cup {"stm32"}]
          /\ \/ collector' = "gapless" /\ UNCHANGED upsets
             \/ collector' = "lossy" /\ Upset
       \/ Fails /\ Upset /\ UNCHANGED <<collector, folder>>
    /\ UNCHANGED <<threads, server>>

\* What the preview's reader has come to is judged after the renames.
StopServer ==
    /\ capture.at = "server.stop" /\ Step("indexes")
    /\ \/ server' = "stopped" /\ UNCHANGED upsets
       \/ server' = "broken" /\ Upset
    /\ UNCHANGED <<threads, collector, folder>>

SyncIndexFiles ==
    /\ Try("indexes", "judge")
    /\ folder' = IF capture'.error = Unset THEN [folder EXCEPT !.durable = @ \cup {"index"}] ELSE folder
    /\ UNCHANGED <<threads, devices>>

Following(rows) == \A i \in 2 .. Len(rows) : rows[i] = rows[i - 1] + 1

\* Return codes, counts, sequence numbers, colour and serial integrity.
JudgeRecording ==
    /\ capture.at = "judge"
    /\ IF /\ ir.code = "ended" /\ rgb.code = "ended"
          /\ Len(ir.rows) = SpoolFrames /\ Len(spooler.file) = SpoolFrames /\ Following(ir.rows)
          /\ rgb.full /\ collector = "gapless"
       THEN Step("rename") ELSE Fails
    /\ UNCHANGED <<threads, devices, folder, upsets>>

\* The payloads lose the suffix .partial; kernel log, temperature and preview
\* are looked at with the payloads renamed.
RenamePayloads ==
    /\ Try("rename", "inspect")
    /\ folder' = [folder EXCEPT !.named = TRUE, !.unsynced = @ \cup {"payloads"}]
    /\ UNCHANGED <<threads, devices>>

Inspect ==
    /\ capture.at = "inspect"
    /\ \/ server # "broken" /\ Step("manifest") /\ UNCHANGED upsets
       \/ server = "broken" /\ Fails /\ UNCHANGED upsets
       \/ Fails /\ Upset
    /\ UNCHANGED <<threads, devices, folder>>

-----------------------------------------------------------------------------
(* The publication, which nothing undoes.                                  *)

Entry(at, then, after) ==
    /\ Try(at, then)
    /\ folder' = IF capture'.error = Unset THEN after ELSE folder
    /\ UNCHANGED <<threads, devices>>

Set(entry, value) == [folder EXCEPT ![entry] = value, !.unsynced = @ \cup {entry}]

WriteSpoolManifest == Entry("manifest", "unlink", Set("manifest", TRUE))
RemoveMarker == Entry("unlink", "sync", Set("marker", FALSE))
SyncFolder == Entry("sync", "replace", [folder EXCEPT !.unsynced = {}])
Publish == Entry("replace", "root", Set("name", "final"))
SyncOutputRoot == Entry("root", "return", [folder EXCEPT !.unsynced = {}])
ReturnSession == capture.at = "return" /\ Quit(Unset) /\ UNCHANGED <<threads, devices, folder, upsets>>

-----------------------------------------------------------------------------
(* The cleanup.                                                            *)

\* _LoggedProcess.stop: the process gets SIGINT; while its thread lives it is
\* killed after three seconds.  A process that hangs and has lost its thread
\* is left.
Stopped(p) ==
    [p EXCEPT !.process = CASE @ = "run" -> "stopped"
                            [] @ = "hung" /\ p.thread # "done" -> "killed"
                            [] OTHER -> @,
              !.thread = IF @ = Unset THEN @ ELSE "done"]

StopCamera ==
    /\ capture.at = "clean.ir" /\ Step("clean.rgb")
    /\ ir' = Stopped(ir)
    /\ UNCHANGED <<spooler, rgb, devices, folder, upsets>>

StopColor ==
    /\ capture.at = "clean.rgb" /\ Step("clean.spooler")
    /\ rgb' = Stopped(rgb)
    /\ UNCHANGED <<ir, spooler, devices, folder, upsets>>

\* The spooler's finish() and the collector's join, whose outcome is ignored.
FinishSpooler ==
    /\ capture.at = "clean.spooler" /\ Step("clean.server")
    /\ UNCHANGED <<threads, devices, folder, upsets>>

\* A server whose loop was never started waits for that loop's end for ever.
CleanUpServer ==
    /\ capture.at = "clean.server" /\ server # "built"
    /\ Step("clean.files")
    /\ UNCHANGED <<threads, devices, folder, upsets>>

\* An index that cannot be closed ends the cleanup; failure.json is written
\* where the partial directory still is.
CleanUpFiles ==
    /\ capture.at = "clean.files" /\ Quit(capture.error)
    /\ \/ folder' = [folder EXCEPT !.failure = folder.name = "partial"] /\ UNCHANGED upsets
       \/ Upset /\ UNCHANGED folder
    /\ UNCHANGED <<threads, devices>>

Cleaning == {"clean.ir", "clean.rgb", "clean.server", "clean.files"}

\* KeyboardInterrupt: within the cleanup it leaves the rest undone, but in the
\* spooler's finish, which swallows it.
Interrupt ==
    /\ interrupts < MaxInterrupts /\ interrupts' = interrupts + 1
    /\ CASE capture.at \in Cleaning \cup {"preflight", "prepare"} -> Quit("interrupt")
         [] capture.at = "clean.spooler" -> Step("clean.server")
         [] OTHER -> capture.at # "end" /\ capture' = [at |-> "clean.ir", error |-> "interrupt"]
    /\ UNCHANGED <<threads, devices, folder, upsets>>

-----------------------------------------------------------------------------
SpoolMain ==
    /\ \/ CheckHost \/ MakeFolder \/ BuildServer \/ StartServer \/ StartCollector \/ StartSpooler \/ StartCameras
       \/ JoinCameras \/ JoinReader \/ JoinReaderAgain \/ JoinWriter \/ StopCollector \/ StopServer
       \/ SyncIndexFiles \/ JudgeRecording \/ RenamePayloads \/ Inspect
       \/ WriteSpoolManifest \/ RemoveMarker \/ SyncFolder \/ Publish \/ SyncOutputRoot \/ ReturnSession
       \/ StopCamera \/ StopColor \/ FinishSpooler \/ CleanUpServer \/ CleanUpFiles
    /\ UNCHANGED interrupts

SpoolThreads == ReadFrame \/ EndOfFifo \/ PutEndMark \/ WriteFrame \/ StartCamera \/ CameraThreadEnds \/ StartColor

SpoolNext ==
    \/ SpoolMain \/ SpoolThreads \/ Interrupt
    \/ CameraFrame \/ ErroneousFrame \/ CameraEnds \/ CameraFails \/ ColorEnds

SpoolSpec ==
    SpoolInit /\ [][SpoolNext]_spoolVars /\ WF_spoolVars(SpoolMain) /\ WF_spoolVars(SpoolThreads)

-----------------------------------------------------------------------------
SealedFolder(d) == d.name = "final" /\ ~d.marker

\* A sealed recording has as many rows as frames, the i-th frame of the file is
\* that of the i-th row, none is missing between them, and the colour and the
\* serial streams are whole; this holds whatever main went through.
SpoolIsComplete ==
    SealedFolder(folder) =>
        /\ folder.manifest /\ folder.named /\ ~folder.failure
        /\ Len(ir.rows) = SpoolFrames /\ spooler.file = ir.rows /\ Following(ir.rows)
        /\ rgb.full /\ collector = "gapless" /\ server # "broken"

\* A capture that has failed leaves a session without marker only where it was
\* past the verdict, and no camera process that its cleanup could reach: one is
\* left by an interrupt, or hangs after its thread has died.
SpoolFailureIsContained ==
    capture.at = "end" /\ capture.error = "fail" =>
        /\ folder.name # "absent" /\ ~folder.marker => folder.manifest
        /\ \A p \in {ir, rgb} : p.process = "run" => FALSE
        /\ \A p \in {ir, rgb} : p.process = "hung" => p.code = Unset

\* Whatever entries a power loss takes, what looks sealed has its manifest and
\* its payloads' names, and its infrared, serial and index files were synced.
SpoolSurvivesPowerLoss ==
    \A d \in [name : {"absent", "partial", "final"}, marker : BOOLEAN, manifest : BOOLEAN, named : BOOLEAN] :
        /\ \A e \in {"name", "marker", "manifest"} : e \in folder.unsynced \/ d[e] = folder[e]
        /\ "payloads" \in folder.unsynced \/ d.named = folder.named
        /\ SealedFolder(d)
        => d.manifest /\ d.named /\ {"infrared", "stm32", "index"} \subseteq folder.durable

\* The capture ends, unless an interrupt finds the preview server built and not
\* started.
SpoolEnds == <>(capture.at = "end" \/ (capture.at = "clean.server" /\ server = "built"))

=============================================================================
