----------------------------- MODULE EdgeCapture -----------------------------
(***************************************************************************)
(* The rk3576 edge capture (edge_rk3576/rsusb_capture.py) in one           *)
(* recording: the main thread from its preflight to the published          *)
(* directory, the writer threads with their encoder processes, the serial  *)
(* collector, and the termination signals.  With --until-signal the first  *)
(* signal asks for aligned streams and a sealed session and the second     *)
(* raises KeyboardInterrupt wherever the main thread is; a recording of a  *)
(* fixed length has no handler, and its first signal raises.  What         *)
(* edge_rk3576/validate.py demands of a sealed session stands at the end.  *)
(*                                                                         *)
(* A frame is its sequence number.  A deadline passes when what it guards  *)
(* hangs; the sensor may stop delivering at any time.                      *)
(***************************************************************************)
EXTENDS Integers, Sequences, FiniteSets

CONSTANTS MaxFrames,    \* maximum_frames
          QueueDepth,   \* queue_frames
          Window,       \* PAIRING_WINDOW_FRAMES
          MaxFaults     \* bound: failures of a process, a disk or a device

ASSUME EdgeAssumption == /\ MaxFrames \in Nat \ {0, 1}
                         /\ QueueDepth \in Nat \ {0}
                         /\ {Window, MaxFaults} \subseteq Nat

VARIABLES mode,     \* --until-signal, a fixed number of frames, or fixed and interleaved
          main,     \* the main thread: step, error raised, children started, publication
          signals,  \* termination signals received; without a handler one is as good as two
          next,     \* stream -> sequence number of the frame delivered next
          seen,     \* stream -> sequence numbers observed (StreamContinuity)
          target,   \* capture_target, 0 for None
          pending,  \* pending_ir: <<sequence, side>>
          irRows,   \* ir_frames.jsonl
          evidence, \* termination_reason, and who set stop_observed_monotonic_ns
          serial,   \* the serial collector: what it has recorded
          child,    \* writer -> its thread, queue and process
          disk,     \* the session directory
          faults

vars == <<mode, main, signals, next, seen, target, pending, irRows, evidence, serial, child, disk, faults>>

Sides == {"left", "right"}
Streams == Sides \cup {"color"}
\* ir_writers: one per eye, or one for interleaved pairs.
Writers == IF mode = "interleaved" THEN {"stereo"} ELSE Sides
Children == Writers \cup {"rgb"}
None == "none"
Sentinel == 0

Init ==
    /\ mode \in {"until_signal", "fixed_frames", "interleaved"}
    /\ main = [at |-> "preflight", error |-> None, started |-> {}, publish |-> "no"]
    /\ signals = IF mode = "until_signal" THEN 0 ELSE 1
    /\ next = [s \in Streams |-> 1]
    /\ seen = [s \in Streams |-> <<>>]
    /\ target = IF mode = "until_signal" THEN 0 ELSE MaxFrames
    /\ pending = {}
    /\ irRows = <<>>
    /\ evidence = [reason |-> "fixed_duration_complete", stop |-> None]
    /\ serial = "new"
    /\ child = [w \in Children |-> [thread |-> "new", queue |-> <<>>, held |-> <<>>, written |-> <<>>,
                                    process |-> None, failed |-> FALSE, cancel |-> FALSE]]
    \* unsynced: directory entries a power loss may undo; durable: files synced
    /\ disk = [name |-> "absent", marker |-> FALSE, manifest |-> FALSE, failure |-> FALSE,
               unsynced |-> {}, durable |-> {}]
    /\ faults = 0

Go(at) == main' = [main EXCEPT !.at = at]
Raise(e) == main' = [main EXCEPT !.at = "sensor.cleanup", !.error = e]
Leave(e, p) == main' = [main EXCEPT !.at = "end", !.error = e, !.publish = p]
Fault == faults < MaxFaults /\ faults' = faults + 1

streams == <<next, seen, target, pending, irRows, evidence>>
data == <<streams, serial, child, disk, faults>>   \* what main works on

-----------------------------------------------------------------------------
(* The writer threads and their processes.                                 *)

Died(c) == [c EXCEPT !.thread = "done", !.failed = TRUE,
                     !.process = IF @ \in {"run", "hung"} THEN "killed" ELSE @]

\* Once main has raised nothing it does depends on the threads, which are left
\* where they are.
Thread == main.error = None /\ main.at # "end" /\ UNCHANGED <<mode, main, signals, streams>>

\* A frame taken from the queue is written to the process; a process that
\* hangs blocks the thread with the frame in its hands, until main, which has
\* raised by then, kills the process.
Fed(c) ==
    LET f == Head(c.queue)
        taken == [c EXCEPT !.queue = Tail(@)]
    IN  CASE c.process = "run"  -> [taken EXCEPT !.written = Append(@, f)]
          [] c.process = "hung" -> [taken EXCEPT !.held = <<f>>, !.thread = "write"]
          [] OTHER              -> Died(taken)

Feed(w) ==
    /\ Thread /\ child[w].thread = "take" /\ child[w].queue # <<>>
    /\ Head(child[w].queue) # Sentinel
    /\ w = "rgb" \/ ~child[w].cancel
    /\ child' = [child EXCEPT ![w] = Fed(@)]
    /\ UNCHANGED <<serial, disk, faults>>

\* The sentinel, or for an infrared writer any entry once it is cancelled,
\* closes the process's input; the RGB thread ends there.
EndOfInput(w) ==
    /\ Thread /\ child[w].thread = "take" /\ child[w].queue # <<>>
    /\ Head(child[w].queue) = Sentinel \/ (w # "rgb" /\ child[w].cancel)
    /\ child' = [child EXCEPT ![w].queue = Tail(@), ![w].thread = IF w = "rgb" THEN "done" ELSE "wait"]
    /\ UNCHANGED <<serial, disk, faults>>

\* The thread of an infrared writer waits for its process and syncs the file;
\* a process that hangs is killed after 45 seconds.
AwaitProcess(w) ==
    /\ Thread /\ child[w].thread = "wait"
    /\ \/ /\ child[w].process = "run"
          /\ child' = [child EXCEPT ![w].thread = "done", ![w].process = "ended"]
          /\ disk' = [disk EXCEPT !.durable = @ \cup {w}]
          /\ UNCHANGED faults
       \/ /\ IF child[w].process = "run" THEN Fault ELSE UNCHANGED faults
          /\ child' = [child EXCEPT ![w] = Died(@)]
          /\ UNCHANGED disk
    /\ UNCHANGED serial

\* The RGB process ends at the end of its input.
RgbEnds ==
    /\ Thread /\ child["rgb"].thread = "done" /\ child["rgb"].process = "run"
    /\ child' = [child EXCEPT !["rgb"].process = "ended"]
    /\ UNCHANGED <<serial, disk, faults>>

\* Fault: an encoder process dies, or no longer reads its input.
ProcessFails(w) ==
    /\ Thread /\ child[w].process = "run" /\ Fault
    /\ \E p \in {"crashed", "hung"} : child' = [child EXCEPT ![w].process = p]
    /\ UNCHANGED <<serial, disk>>

-----------------------------------------------------------------------------
(* The main thread up to the first formal frame.                           *)

\* A call of main that changes nothing this module keeps, or raises.
Call(at, then) ==
    /\ main.at = at
    /\ \/ Go(then) /\ UNCHANGED faults
       \/ Raise("fail") /\ Fault

\* Arguments, devices, free space and temperature, before anything is written.
Preflight ==
    /\ main.at = "preflight"
    /\ Go("prepare") \/ Leave("fail", "no")
    /\ UNCHANGED data

\* The partial directory with its marker and configuration; the cleanup does
\* not cover this part, so that a directory stays behind when it raises.
Prepare ==
    /\ main.at = "prepare"
    /\ disk' = [disk EXCEPT !.name = "partial", !.marker = TRUE, !.unsynced = {"marker"}]
    /\ \/ Go("serial.start") /\ UNCHANGED faults
       \/ Leave("fail", "no") /\ Fault
    /\ UNCHANGED <<streams, serial, child>>

StartSerial == Call("serial.start", "ir.start") /\ UNCHANGED <<streams, serial, child, disk>>

\* The thread of an infrared writer starts its own encoder process, or fails
\* in this, which main learns from the first frame it submits.
StartWriters ==
    /\ main.at = "ir.start"
    /\ main' = [main EXCEPT !.at = "rgb.start", !.started = Writers]
    /\ LET running == [w \in Children |-> IF w \in Writers
                                          THEN [child[w] EXCEPT !.thread = "take", !.process = "run"]
                                          ELSE child[w]]
       IN  \/ child' = running /\ UNCHANGED faults
           \/ Fault /\ \E w \in Writers : child' = [running EXCEPT ![w] = Died(child[w])]
    /\ UNCHANGED <<streams, serial, disk>>

StartEncoder ==
    /\ main.at = "rgb.start"
    /\ \/ /\ main' = [main EXCEPT !.at = "sensor.start", !.started = @ \cup {"rgb"}]
          /\ child' = [child EXCEPT !["rgb"].thread = "take", !["rgb"].process = "run"]
          /\ UNCHANGED faults
       \/ Raise("fail") /\ Fault /\ UNCHANGED child
    /\ UNCHANGED <<streams, serial, disk>>

StartSensor == Call("sensor.start", "warmup") /\ UNCHANGED <<streams, serial, child, disk>>

\* The drain at the end of the warm-up may take one eye of a pair.
WarmUp ==
    /\ Call("warmup", "loop.top")
    /\ \/ UNCHANGED next
       \/ \E s \in Sides : next' = [next EXCEPT ![s] = 2]
    /\ serial' = IF main'.error = None THEN "recording" ELSE serial
    /\ UNCHANGED <<seen, target, pending, irRows, evidence, child, disk>>

-----------------------------------------------------------------------------
(* The capture loop.                                                       *)

Received(s) == Len(seen[s])
Most == CHOOSE n \in {Received(s) : s \in Streams} : \A s \in Streams : Received(s) <= n
AtLeast(n) == \A s \in Streams : Received(s) >= n
StopTarget(n) == IF n > 2 THEN n ELSE 2

\* capture_target, termination_reason and who observed a stop, at the top of
\* the loop.
EndReason ==
    IF target # 0 THEN <<target, evidence.reason, evidence.stop>>
    ELSE IF signals > 0 THEN <<StopTarget(Most), "external_stop", "signal">>
    ELSE IF AtLeast(MaxFrames) THEN <<MaxFrames, "maximum_duration_complete", None>>
    ELSE <<0, evidence.reason, None>>

\* The checks before a frame is waited for; the deadlines and a sensor that
\* delivers nothing raise.
LoopTop ==
    /\ main.at = "loop.top"
    /\ target' = EndReason[1]
    /\ evidence' = [reason |-> EndReason[2], stop |-> EndReason[3]]
    /\ IF target' # 0 /\ AtLeast(target') THEN Go("serial.stop")
                                          ELSE Go("loop.wait") \/ Raise("fail")
    /\ UNCHANGED <<next, seen, pending, irRows, serial, child, disk, faults>>

\* submit() raises when the thread has ended or failed, or the queue is full.
Accepts(c) == c.thread \notin {"new", "done"} /\ ~c.failed /\ Len(c.queue) < QueueDepth
Put(c, f) == [c EXCEPT !.queue = Append(@, f)]

\* Mutants: plausible bugs in the operations below; no specification uses them.
PairDropping(q) ==
    /\ child' = [w \in Children |-> IF w # "rgb" /\ Accepts(child[w]) THEN Put(child[w], q) ELSE child[w]]
    /\ irRows' = Append(irRows, q)
    /\ Go("loop.top")

Submit(w, q) ==
    IF Accepts(child[w]) THEN child' = [child EXCEPT ![w] = Put(@, q)] /\ Go("loop.top")
    ELSE Raise("fail") /\ UNCHANGED child

\* Both eyes are submitted, the left one first, or the interleaved pair,
\* before the row is written.
SubmitPair(q) ==
    LET takes == {w \in Writers : Accepts(child[w]) /\ (w = "right" => Accepts(child["left"]))}
    IN  /\ child' = [w \in Children |-> IF w \in takes THEN Put(child[w], q) ELSE child[w]]
        /\ IF takes = Writers THEN irRows' = Append(irRows, q) /\ Go("loop.top")
                              ELSE UNCHANGED irRows /\ Raise("fail")

\* The entries of pending_ir that complete the pair of frame q of side s.
Partners(q, s, held) == {p \in held : p[1] = q /\ p[2] # s}

StereoFrame(q, s) ==
    LET partners == Partners(q, s, pending)
        held == IF partners = {} THEN pending \cup {<<q, s>>} ELSE pending \ partners
    IN  /\ pending' = held
        /\ IF partners # {} THEN SubmitPair(q)
           ELSE /\ IF Cardinality({p[1] : p \in held}) > Window THEN Raise("fail") ELSE Go("loop.top")
                /\ UNCHANGED <<child, irRows>>

\* wait_for_frame returns a frame of a stream that still wants some, possibly
\* after a lost one.  The storage guard may stop the capture before the frame
\* is submitted, also one that a signal has stopped already.
LoopFrame(s) ==
    /\ main.at = "loop.wait"
    /\ Received(s) < (IF target = 0 THEN MaxFrames ELSE target)
    /\ \E q \in {next[s], next[s] + 1} :
         /\ IF q = next[s] THEN UNCHANGED faults ELSE Fault
         /\ next' = [next EXCEPT ![s] = q + 1]
         /\ seen' = [seen EXCEPT ![s] = Append(@, q)]
         /\ \/ UNCHANGED <<target, evidence>>
            \/ /\ mode = "until_signal"
               /\ target' = StopTarget(IF Most > Received(s) THEN Most ELSE Received(s) + 1)
               /\ evidence' = [reason |-> "low_storage_guard", stop |-> "storage"]
         /\ IF s = "color" THEN Submit("rgb", q) /\ UNCHANGED <<pending, irRows>>
                           ELSE StereoFrame(q, s)
    /\ UNCHANGED <<serial, disk>>

\* A frame that is passed over brings main back to the top, where only a
\* signal is news to it; no frame within a second raises.
LoopIdle ==
    /\ main.at = "loop.wait"
    /\ \/ signals > 0 /\ target = 0 /\ Go("loop.top")
       \/ Raise("fail")
    /\ UNCHANGED data

-----------------------------------------------------------------------------
(* The shutdown in order, the verdict and the publication.                 *)

\* Main learns here what the collector's thread has done since begin(): it has
\* written every packet, lost some, or failed; or its join times out.
StopSerial ==
    /\ main.at = "serial.stop"
    /\ \/ /\ Go("sensor.stop")
          /\ disk' = [disk EXCEPT !.durable = @ \cup {"stm32"}]
          /\ \/ serial' = "gapless" /\ UNCHANGED faults
             \/ serial' = "lossy" /\ Fault
       \/ Raise("fail") /\ Fault /\ UNCHANGED <<serial, disk>>
    /\ UNCHANGED <<streams, child>>

StopSensor == Call("sensor.stop", "rgb.put") /\ UNCHANGED <<streams, serial, child, disk>>

\* cancel() of a writer: its process is killed if it was started.
Cancelled(c) ==
    [c EXCEPT !.cancel = TRUE,
              !.process = IF @ \in {"run", "hung"} THEN "killed" ELSE @,
              !.queue = IF c.thread # "done" /\ Len(@) < QueueDepth THEN Append(@, Sentinel) ELSE @]

CancelAndRaise(w) == child' = [child EXCEPT ![w] = Cancelled(@)] /\ Raise("fail")

FinishAt == [left |-> "left.put", right |-> "right.put", stereo |-> "stereo.put", rgb |-> "rgb.put"]
JoinAt == [left |-> "left.join", right |-> "right.join", stereo |-> "stereo.join", rgb |-> "rgb.join"]
AfterJoin == [left |-> "right.put", right |-> "index", stereo |-> "index", rgb |-> "rgb.wait"]

\* finish() puts the sentinel once the queue has room.  An infrared writer
\* gives up after 60 seconds; the RGB encoder's loop has no deadline.
FinishPut(w) ==
    /\ main.at = FinishAt[w]
    /\ \/ child[w].thread = "done" /\ Go(JoinAt[w]) /\ UNCHANGED child
       \/ /\ child[w].thread # "done" /\ Len(child[w].queue) < QueueDepth
          /\ child' = [child EXCEPT ![w] = Put(@, Sentinel)]
          /\ Go(JoinAt[w])
       \/ w # "rgb" /\ child[w].thread # "done" /\ child[w].process = "hung" /\ CancelAndRaise(w)
    /\ UNCHANGED <<streams, serial, disk, faults>>

\* The join returns with the thread, or its deadline passes.
FinishJoin(w) ==
    /\ main.at = JoinAt[w]
    /\ \/ child[w].thread = "done" /\ UNCHANGED child
          /\ IF w # "rgb" /\ child[w].failed THEN Raise("fail")
             ELSE main' = [main EXCEPT !.at = AfterJoin[w], !.started = IF w \in {"right", "stereo"} THEN {} ELSE @]
       \/ child[w].thread # "done" /\ child[w].process = "hung" /\ CancelAndRaise(w)
    /\ UNCHANGED <<streams, serial, disk, faults>>

\* The RGB encoder's process must end by itself, with status 0.
AwaitEncoder ==
    /\ main.at = "rgb.wait"
    /\ \/ /\ child["rgb"].process = "ended" /\ ~child["rgb"].failed
          /\ main' = [main EXCEPT !.at = IF mode = "interleaved" THEN "stereo.put" ELSE "left.put",
                                    !.started = @ \ {"rgb"}]
          /\ UNCHANGED child
       \/ child["rgb"].process = "crashed" /\ Raise("fail") /\ UNCHANGED child
       \/ child["rgb"].process = "hung" /\ CancelAndRaise("rgb")
    /\ UNCHANGED <<streams, serial, disk, faults>>

SyncIndexes ==
    /\ Call("index", "judge")
    /\ disk' = IF main'.error = None THEN [disk EXCEPT !.durable = @ \cup {"index"}] ELSE disk
    /\ UNCHANGED <<streams, serial, child>>

Gapless(f) == \A i \in 2 .. Len(f) : f[i] = f[i - 1] + 1

\* evaluate_streams, the pairing, the frame counts of the writers and the
\* integrity of the serial packets.
Continuous(n) == \A s \in Streams : Received(s) = n /\ Gapless(seen[s])
Paired(n) == pending = {} /\ Len(irRows) = n
AllWritten(n) == \A w \in Children : Len(child[w].written) = n

Judge ==
    /\ main.at = "judge"
    /\ LET n == Received("color")
       IN  IF Continuous(n) /\ Paired(n) /\ AllWritten(n) /\ serial = "gapless" THEN Go("finalize") ELSE Raise("fail")
    /\ UNCHANGED data

\* The renames, the kernel log and the thermal check.
Finalize == Call("finalize", "manifest") /\ UNCHANGED <<streams, serial, child, disk>>

\* A step of the publication: its effect on the directory, the next step, and
\* where an exception goes.
DiskStep(at, then, after, caught) ==
    /\ main.at = at
    /\ \/ Go(then) /\ disk' = after /\ UNCHANGED faults
       \/ caught /\ Fault /\ UNCHANGED disk
    /\ UNCHANGED <<streams, serial, child>>

Synced(entries) == [disk EXCEPT !.unsynced = @ \ entries]
Changed(entry, value) == [disk EXCEPT ![entry] = value, !.unsynced = @ \cup {entry}]
ToRollback(e) == main' = [main EXCEPT !.at = "undo.mark", !.error = e]

\* Mutants: plausible bugs in the operations below; no specification uses them.
SyncPartialSkipped == DiskStep("publish.sync", "publish.rename", disk, Raise("fail"))
UnlinkUncaught ==
    DiskStep("publish.final", "publish.again", Synced({"marker"}), Raise("fail"))

WriteManifest == DiskStep("manifest", "publish.sync", Changed("manifest", TRUE), Raise("fail"))
SyncPartial == DiskStep("publish.sync", "publish.rename", Synced({"marker", "manifest"}), Raise("fail"))
Rename == DiskStep("publish.rename", "publish.root", Changed("name", "final"), Raise("fail"))
SyncRoot == DiskStep("publish.root", "publish.unlink", Synced({"name"}), ToRollback("fail"))
UnlinkMarker == DiskStep("publish.unlink", "publish.final", Changed("marker", FALSE), ToRollback("fail"))
SyncFinal == DiskStep("publish.final", "publish.again", Synced({"marker"}), ToRollback("fail"))
SyncRootAgain == DiskStep("publish.again", "return", Synced({"name"}), ToRollback("fail"))

\* The rollback, which ends at its first exception.
CutRollback == main' = [main EXCEPT !.at = "sensor.cleanup", !.publish = "cut"]

UndoMark ==
    IF disk.marker THEN DiskStep("undo.mark", "undo.rename", disk, FALSE)
    ELSE DiskStep("undo.mark", "undo.sync", Changed("marker", TRUE), CutRollback)
UndoSync == DiskStep("undo.sync", "undo.rename", Synced({"marker"}), CutRollback)
UndoRename == DiskStep("undo.rename", "undo.root", Changed("name", "partial"), CutRollback)
UndoRoot == DiskStep("undo.root", "sensor.cleanup", Synced({"name"}), CutRollback)

Return == main.at = "return" /\ Leave(None, "returned") /\ UNCHANGED data

-----------------------------------------------------------------------------
(* The cleanup after an exception.                                         *)

CleanUpSensor == main.at = "sensor.cleanup" /\ Go("children.cleanup") /\ UNCHANGED data

CancelStarted == child' = [w \in Children |-> IF w \in main.started THEN Cancelled(child[w]) ELSE child[w]]

CleanUpChildren ==
    main.at = "children.cleanup" /\ CancelStarted /\ Go("failure") /\ UNCHANGED <<streams, serial, disk, faults>>

\* failure.json goes into the partial directory if there still is one.
WriteFailure ==
    /\ main.at = "failure" /\ Go("end")
    /\ \/ disk' = [disk EXCEPT !.failure = disk.name = "partial"] /\ UNCHANGED faults
       \/ disk.name = "partial" /\ Fault /\ UNCHANGED disk
    /\ UNCHANGED <<streams, serial, child>>

-----------------------------------------------------------------------------
(* Signals.                                                                *)

Undoing == {"undo.mark", "undo.sync", "undo.rename", "undo.root"}
Published == {"publish.root", "publish.unlink", "publish.final", "publish.again"}

StopSignal == main.at # "end" /\ signals = 0 /\ signals' = 1 /\ UNCHANGED <<mode, main, data>>

\* KeyboardInterrupt out of the second signal: the rollback and the sensor's
\* cleanup swallow it, the children's defers it past them, and it leaves the
\* rest of the cleanup undone.
SecondSignal ==
    /\ signals = 1 /\ signals' = 2
    /\ CASE main.at \in Published -> ToRollback("abort") \/ (main.at = "publish.root" /\ Raise("abort"))
         [] main.at \in Undoing -> CutRollback
         [] main.at = "sensor.cleanup" -> Go("children.cleanup") \/ Leave("abort", main.publish)
         [] main.at \in {"children.cleanup", "failure"} -> Leave("abort", main.publish)
         [] main.at = "return" -> Leave("abort", "returned")
         [] main.at \in {"preflight", "prepare"} -> Leave("abort", "no")
         [] OTHER -> main.at # "end" /\ Raise("abort")
    /\ IF main.at = "children.cleanup" THEN CancelStarted ELSE UNCHANGED child
    /\ UNCHANGED <<mode, streams, serial, disk, faults>>

-----------------------------------------------------------------------------
Main ==
    /\ \/ Preflight \/ Prepare \/ StartSerial \/ StartWriters \/ StartEncoder \/ StartSensor \/ WarmUp
       \/ LoopTop \/ (\E s \in Streams : LoopFrame(s)) \/ LoopIdle
       \/ StopSerial \/ StopSensor \/ AwaitEncoder
       \/ (\E w \in Children : FinishPut(w) \/ FinishJoin(w))
       \/ SyncIndexes \/ Judge \/ Finalize
       \/ WriteManifest \/ SyncPartial \/ Rename \/ SyncRoot
       \/ UnlinkMarker \/ SyncFinal \/ SyncRootAgain \/ Return
       \/ UndoMark \/ UndoSync \/ UndoRename \/ UndoRoot
       \/ CleanUpSensor \/ CleanUpChildren \/ WriteFailure
    /\ UNCHANGED <<mode, signals>>

Writer(w) == Feed(w) \/ EndOfInput(w) \/ AwaitProcess(w)

Next ==
    \/ Main
    \/ \E w \in Children : Writer(w) \/ ProcessFails(w)
    \/ RgbEnds
    \/ StopSignal
    \/ SecondSignal

\* Threads run; every wait of main but one has a deadline, so the loop ends
\* without any fairness of the sensor.
Spec == Init /\ [][Next]_vars /\ WF_vars(Main) /\ WF_vars(RgbEnds)
        /\ \A w \in {"left", "right", "stereo", "rgb"} : WF_vars(w \in Children /\ Writer(w))

-----------------------------------------------------------------------------
(* What validate.py accepts.  The manifest repeats what main held when it   *)
(* wrote it, which no later step changes.  The checks of rates and elapsed  *)
(* times, which the capture does not make, are left out.                    *)

\* A session under its final name, and no .recording in it.  That manifest and
\* configuration agree, and on the locked profile, holds: capture wrote both.
Sealed(d) == d.name = "final" /\ ~d.marker

\* The files are those of manifest.json: there is one, and nothing was added.
FilesMatch == disk.manifest /\ ~disk.failure

Consecutive(rows) == \A i \in 2 .. Len(rows) : rows[i] = rows[i - 1] + 1

\* Every infrared payload has the frames of ir_frames.jsonl, decoded or by size.
InfraredMatches ==
    Consecutive(irRows) /\ \A w \in Writers : Len(child[w].written) = Len(irRows)

ColorMatches == Len(child["rgb"].written) = Received("color")

\* manifest.counts: none is zero, and infrared and colour agree where asked.
CountsMatch == irRows # <<>> /\ (mode # "interleaved" => Received("color") = Len(irRows))

\* The evidence of the termination fits its reason.
TerminationMatches ==
    CASE mode = "interleaved" -> TRUE
      [] mode = "fixed_frames" -> Len(irRows) = MaxFrames
      [] OTHER ->
           /\ Len(irRows) <= MaxFrames
           /\ \/ /\ evidence = [reason |-> "maximum_duration_complete", stop |-> None]
                 /\ Len(irRows) = MaxFrames
              \/ evidence = [reason |-> "external_stop", stop |-> "signal"]
              \/ evidence = [reason |-> "low_storage_guard", stop |-> "storage"]

StreamsMatch == \A s \in Streams : Received(s) = Len(irRows) /\ Consecutive(seen[s])

Valid ==
    /\ Sealed(disk) /\ FilesMatch
    /\ InfraredMatches /\ ColorMatches /\ serial = "gapless"
    /\ CountsMatch /\ TerminationMatches
    /\ mode # "interleaved" => StreamsMatch

-----------------------------------------------------------------------------
\* A session that the capture has sealed is accepted by validate.py, whatever
\* ended the recording.
SealedIsValid == Sealed(disk) => Valid

\* A sealed session has its manifest; its three streams are gapless and of one
\* length, both eyes of a pair are the same frame, and every encoder was given
\* all its frames, ended by itself and with status 0.
SealedIsComplete ==
    Sealed(disk) =>
        /\ disk.manifest
        /\ \A s \in Streams : Gapless(seen[s]) /\ Received(s) = Received("color")
        /\ child["rgb"].written = seen["color"]
        /\ \A s \in Sides : seen[s] = irRows
        /\ \A w \in Writers : child[w].written = irRows
        /\ \A w \in Children : child[w].process = "ended" /\ ~child[w].failed

\* What is sealed is both complete and accepted.
SealedIsSound == SealedIsValid /\ SealedIsComplete

\* What a child was given: frames, and the end of its input.
Entries(c) == (c.written \o c.held) \o c.queue

\* At any time, for a writer that has neither failed nor been cancelled, the
\* i-th row of ir_frames.jsonl is the i-th frame in its file and queue, and at
\* most one frame has no row yet: what follows is the end of the input.
RowsMatchFrames ==
    \A w \in Writers : ~child[w].failed /\ ~child[w].cancel =>
        LET e == Entries(child[w])
        IN  /\ Len(irRows) <= Len(e)
            /\ \A i \in DOMAIN irRows : e[i] = irRows[i]
            /\ \A i \in DOMAIN e : i > Len(irRows) + 1 => e[i] = Sentinel

\* When a capture has failed or was aborted, its directory is not a sealed
\* session, unless its rollback was itself cut short or the abort came after
\* the publication had returned.
FailureIsUnsealed ==
    main.at = "end" /\ main.error # None /\ Sealed(disk) =>
        main.publish \in {"cut", "returned"}

\* What a power loss may leave of the directory's entries.
AfterPowerLoss ==
    {d \in [name : {"absent", "partial", "final"}, marker : BOOLEAN, manifest : BOOLEAN] :
        \A e \in {"name", "marker", "manifest"} : e \in disk.unsynced \/ d[e] = disk[e]}

\* Whenever the power goes, a directory that looks sealed afterwards has its
\* manifest, its infrared, serial and index files (_publish_session).  It need
\* not have its rgb.h265, which nobody syncs.
MeasurementsSurvivePowerLoss ==
    \A d \in AfterPowerLoss :
        Sealed(d) => d.manifest /\ Writers \cup {"stm32", "index"} \subseteq disk.durable

\* The capture ends, unless the RGB encoder hangs with a full queue while
\* main waits to put the sentinel.
CaptureEnds == <>(main.at = "end" \/ (main.at = "rgb.put" /\ child["rgb"].process = "hung"))

=============================================================================
