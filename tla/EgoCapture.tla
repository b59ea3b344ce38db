----------------------------- MODULE EgoCapture -----------------------------
(***************************************************************************)
(* From the driver's callback to the sealed files: the two ego cameras of  *)
(* a joint session.                                                        *)
(*                                                                         *)
(*   d435i  one callback thread per sensor, a bounded queue that refuses   *)
(*          what it has no room for, a writer thread, main                 *)
(*          (devices/d435i_ego/worker.py)                                  *)
(*   2uq2   one streaming thread that appends to both streams itself,      *)
(*          under the recorder's lock, and main                            *)
(*          (devices/two_uq2/capture.py, worker.py)                        *)
(*                                                                         *)
(* Both end in the same way: main stops the source, closes what is between *)
(* it and the writer, then the writer, then judges what the threads left   *)
(* behind.  Stopping the source may raise, and then its threads go on; a   *)
(* stop that returns has waited for the callbacks at work, as the drivers  *)
(* promise.                                                                *)
(*                                                                         *)
(* A record is [n, late, formal, valid, candidate]: the frame's number,    *)
(* whether it was acquired after the formal start, whether it is           *)
(* classified formal (warmup is false), whether it is valid, and whether   *)
(* it is marked as the task's start.  What else may make a verdict FAIL    *)
(* (rates, resolution, coverage of the edges) is a free choice.            *)
(***************************************************************************)
EXTENDS SessionWriter, SequencesExt

CONSTANTS
    MaxFrames,    \* bound: frames of both threads together
    QueueDepth,   \* writer_queue_depth
    MaxErrors     \* bound: calls of the driver or the disk that raise

ASSUME EgoAssumption ==
    /\ {"ego.video", "ego.xu.packet"} \subseteq Streams
    /\ {MaxFrames, QueueDepth} \subseteq Nat \ {0} /\ MaxErrors \in Nat

VARIABLES
    device,       \* "d435i" or "2uq2", chosen once
    errors,       \* calls that have raised
    writer,       \* the AppendOnlySessionWriter
    frame,        \* per callback thread: the frame at work, or Idle
    next,         \* per callback thread: the number of its next frame
    queue,        \* _AsyncWriter._queue
    tpc,          \* the writer thread: "run" or "ended"
    storageFailed, \* _AsyncWriter._failed, EgoFrameRecorder._storage_failed
    judged,       \* per stream: the frames the verdict is about, in order
    captureError, \* a reason is set: capture_error, failure
    exceptions,   \* callback_exceptions of the 2UQ2
    candidateWritten,
    formalStart,  \* formal_start_ns or start_ns is known to the callbacks
    begun,        \* the scheduled start has passed
    sourceOn,     \* callbacks may come
    mpc, status

callbackVars == <<frame, next, judged, exceptions, candidateWritten>>
threadVars == <<queue, tpc, storageFailed>>
mainVars == <<formalStart, begun, sourceOn, mpc, status>>
vars == <<device, errors, writer, captureError, callbackVars, threadVars, mainVars>>

Sentinel == <<None>>
Idle == [at |-> "idle"]

\* The two streams of the 2UQ2, whose one thread writes the video first; the
\* names stand for the D435i's two sensors as well, which have a thread each.
Video == "ego.video"
Xu == "ego.xu.packet"
EgoStreams == {Video, Xu}
Threads == IF device = "d435i" THEN EgoStreams ELSE {Video}

Init ==
    /\ device \in {"d435i", "2uq2"}
    /\ errors = 0
    /\ writer = NewWriter
    /\ frame = [s \in EgoStreams |-> Idle] /\ next = [s \in EgoStreams |-> 1]
    /\ queue = <<>> /\ tpc = "run" /\ storageFailed = FALSE
    /\ judged = [s \in EgoStreams |-> <<>>]
    /\ captureError = FALSE /\ exceptions = 0 /\ candidateWritten = FALSE
    /\ formalStart = FALSE /\ begun = FALSE /\ sourceOn = TRUE
    /\ mpc = "warm" /\ status = None

Raises == errors < MaxErrors /\ errors' = errors + 1

\* One of the outcomes of a call of the writer; an OSError is one of MaxErrors.
Takes(outcomes, Then(_)) ==
    \E o \in outcomes :
        /\ writer' = o.writer
        /\ IF o.error = "OSError" THEN Raises ELSE UNCHANGED errors
        /\ Then(o.error)

-----------------------------------------------------------------------------
(* The callbacks.                                                           *)

\* A frame is acquired, before or after the formal start, and its callback is
\* called.  timed: its acquisition time is known.
Acquire(s) ==
    /\ mpc # "exit" /\ sourceOn /\ s \in Threads /\ frame[s] = Idle
    /\ next[Video] + next[Xu] - 2 < MaxFrames
    /\ next' = [next EXCEPT ![s] = @ + 1]
    /\ \E timed, valid \in BOOLEAN :
         /\ valid => timed
         /\ device = "d435i" => valid = timed
         /\ frame' = [frame EXCEPT ![s] = [at |-> "entry", n |-> next[s], late |-> begun,
                                           timed |-> timed, valid |-> valid]]
    /\ UNCHANGED <<device, errors, writer, captureError, judged, exceptions, candidateWritten, threadVars,
                   mainVars>>

Record(f, formal, candidate) ==
    [n |-> f.n, late |-> f.late, formal |-> formal, valid |-> f.valid, timed |-> f.timed,
     candidate |-> candidate]

\* A frame is formal by the time it was acquired, not by the time it arrived.
IsFormal(f) == formalStart /\ f.timed /\ f.late

\* The start is read under the lock; the 2UQ2 marks the first valid formal
\* frame before it is written.
Classify(s) ==
    /\ mpc # "exit" /\ frame[s].at = "entry"
    /\ LET f         == frame[s]
           candidate == device = "2uq2" /\ IsFormal(f) /\ f.valid /\ ~candidateWritten
       IN  /\ frame' = [frame EXCEPT ![s] = [at |-> "write", observed |-> formalStart /\ f.late,
                                             record |-> Record(f, IsFormal(f), candidate)]]
           /\ candidateWritten' = (candidateWritten \/ candidate)
    /\ UNCHANGED <<device, errors, writer, captureError, next, judged, exceptions, threadVars, mainVars>>

\* D435i: put_nowait.  A refused frame is a capture error at once.
Submit(s) ==
    /\ mpc # "exit" /\ device = "d435i" /\ frame[s].at = "write"
    /\ IF Len(queue) < QueueDepth
       THEN /\ queue' = Append(queue, <<s, frame[s].record>>)
            /\ frame' = [frame EXCEPT ![s].at = "count"]
            /\ UNCHANGED captureError
       ELSE /\ captureError' = TRUE
            /\ frame' = [frame EXCEPT ![s] = Idle]
            /\ UNCHANGED queue
    /\ UNCHANGED <<device, errors, writer, next, judged, exceptions, candidateWritten, tpc, storageFailed,
                   mainVars>>

\* D435i: a formal sample is kept for the verdict after it has been handed over.
Count(s) ==
    /\ mpc # "exit" /\ frame[s].at = "count"
    /\ judged' = IF frame[s].record.formal
                 THEN [judged EXCEPT ![s] = Append(@, frame[s].record)] ELSE judged
    /\ frame' = [frame EXCEPT ![s] = Idle]
    /\ UNCHANGED <<device, errors, writer, captureError, next, exceptions, candidateWritten, threadVars,
                   mainVars>>

\* 2UQ2, about an exception of append: on_frame raises, which is counted, and
\* the next frame is handled as ever.  A closed file is no storage failure.
FrameFails(s, e) ==
    /\ exceptions' = exceptions + 1
    /\ storageFailed' = (storageFailed \/ e \in {"OSError", "RuntimeError"})
    /\ frame' = [frame EXCEPT ![s] = Idle]
    /\ UNCHANGED judged

\* 2UQ2: the video record is written, or the frame ends without its XU record.
AppendVideo(s) ==
    /\ mpc # "exit" /\ device = "2uq2" /\ frame[s].at = "write"
    /\ LET Then(e) == IF e = None
                      THEN /\ frame' = [frame EXCEPT ![s].at = "xu"]
                           /\ UNCHANGED <<judged, exceptions, storageFailed>>
                      ELSE FrameFails(s, e)
       IN  Takes(AppendOutcomes(writer, Video, frame[s].record), Then)
    /\ UNCHANGED <<device, captureError, next, candidateWritten, queue, tpc, mainVars>>

\* 2UQ2: the XU record is written; only then is the frame observed.
AppendXu(s) ==
    /\ mpc # "exit" /\ frame[s].at = "xu"
    /\ LET Then(e) ==
             IF e = None
             THEN /\ judged' = IF frame[s].observed
                               THEN [t \in EgoStreams |-> Append(judged[t], frame[s].record)] ELSE judged
                  /\ frame' = [frame EXCEPT ![s] = Idle]
                  /\ UNCHANGED <<exceptions, storageFailed>>
             ELSE FrameFails(s, e)
       IN  Takes(AppendOutcomes(writer, Xu, frame[s].record), Then)
    /\ UNCHANGED <<device, captureError, next, candidateWritten, queue, tpc, mainVars>>

Callback(s) == Acquire(s) \/ Classify(s) \/ Submit(s) \/ Count(s) \/ AppendVideo(s) \/ AppendXu(s)

-----------------------------------------------------------------------------
(* D435i: the writer thread.                                                *)

\* Mutants: plausible bugs in the operations below; no specification uses them.
WriterTakesUntilFailure ==
    /\ mpc # "exit" /\ device = "d435i" /\ tpc = "run" /\ queue # <<>>
    /\ queue' = Tail(queue)
    /\ IF Head(queue) = Sentinel
       THEN /\ tpc' = "ended" /\ UNCHANGED <<writer, errors, storageFailed, captureError>>
       ELSE LET Then(e) == /\ storageFailed' = (e # None)
                           /\ captureError' = (captureError \/ e # None)
                           /\ tpc' = IF e = None THEN "run" ELSE "ended"
            IN  Takes(AppendOutcomes(writer, Head(queue)[1], Head(queue)[2]), Then)
    /\ UNCHANGED <<device, callbackVars, mainVars>>

\* _run: the first append that raises is reported; from then on the thread only
\* empties the queue, until the sentinel.
WriterTakes ==
    /\ mpc # "exit" /\ device = "d435i" /\ tpc = "run" /\ queue # <<>>
    /\ queue' = Tail(queue)
    /\ IF Head(queue) = Sentinel
       THEN tpc' = "ended" /\ UNCHANGED <<writer, errors, storageFailed, captureError>>
       ELSE /\ UNCHANGED tpc
            /\ IF storageFailed THEN UNCHANGED <<writer, errors, storageFailed, captureError>>
               ELSE LET Then(e) == /\ storageFailed' = (e # None)
                                   /\ captureError' = (captureError \/ e # None)
                    IN  Takes(AppendOutcomes(writer, Head(queue)[1], Head(queue)[2]), Then)
    /\ UNCHANGED <<device, callbackVars, mainVars>>

-----------------------------------------------------------------------------
(* main.                                                                    *)

\* Time passes the scheduled start, whether or not main has read it yet.
StartPasses ==
    /\ mpc \in {"warm", "formal"} /\ ~begun
    /\ begun' = TRUE
    /\ UNCHANGED <<device, errors, writer, captureError, callbackVars, threadVars, formalStart, sourceOn, mpc,
                   status>>

\* Every poll looks for an error first: state.snapshot, _check_capture_terminal.
PollFails == captureError \/ (device = "2uq2" /\ storageFailed)

\* Mutants: plausible bugs in the operations below; no specification uses them.
ReadStartUnguarded ==
    /\ mpc = "warm" /\ ~PollFails
    /\ formalStart' = TRUE /\ mpc' = "formal"
    /\ UNCHANGED <<device, errors, writer, captureError, callbackVars, threadVars, begun, sourceOn, status>>

\* The scheduled start is read; one that is less than 100 ms ahead is stale.
\* (That main needs less than that to set it is assumed.)
ReadStart ==
    /\ mpc = "warm" /\ ~PollFails
    /\ IF begun
       THEN /\ captureError' = TRUE /\ mpc' = "stop" /\ UNCHANGED formalStart
       ELSE /\ formalStart' = TRUE /\ mpc' = "formal" /\ UNCHANGED captureError
    /\ UNCHANGED <<device, errors, writer, callbackVars, threadVars, begun, sourceOn, status>>

\* The window is over: its time or a stop record.  The D435i does not read the
\* stop record before its start.
EndWindow ==
    /\ mpc = "formal" /\ ~PollFails /\ (device = "d435i" => begun)
    /\ mpc' = "stop"
    /\ UNCHANGED <<device, errors, writer, captureError, callbackVars, threadVars, formalStart, begun, sourceOn,
                   status>>

\* An error, a warm-up that timed out, the operator or the device end it early.
GiveUp ==
    /\ mpc \in {"warm", "formal"}
    /\ captureError' = TRUE /\ mpc' = "stop"
    /\ UNCHANGED <<device, errors, writer, callbackVars, threadVars, formalStart, begun, sourceOn, status>>

\* Mutants: plausible bugs in the operations below; no specification uses them.
StopSourceUnlatched ==
    /\ mpc = "stop"
    /\ \/ /\ \A s \in EgoStreams : frame[s] = Idle
          /\ sourceOn' = FALSE /\ UNCHANGED <<errors, captureError>>
       \/ /\ Raises /\ UNCHANGED <<sourceOn, captureError>>
    /\ mpc' = IF device = "d435i" THEN "put" ELSE "close"
    /\ UNCHANGED <<device, writer, callbackVars, threadVars, formalStart, begun, status>>

\* pipeline.stop, capture.stop: returns when no callback is at work, or raises,
\* and then the callbacks go on.
StopSource ==
    /\ mpc = "stop"
    /\ \/ /\ \A s \in EgoStreams : frame[s] = Idle
          /\ sourceOn' = FALSE /\ UNCHANGED <<errors, captureError>>
       \/ /\ Raises /\ captureError' = TRUE /\ UNCHANGED sourceOn
    /\ mpc' = IF device = "d435i" THEN "put" ELSE "close"
    /\ UNCHANGED <<device, writer, callbackVars, threadVars, formalStart, begun, status>>

\* D435i: put of the sentinel, which blocks while the queue is full.
PutSentinel ==
    /\ mpc = "put" /\ Len(queue) < QueueDepth
    /\ queue' = Append(queue, Sentinel) /\ mpc' = "join"
    /\ UNCHANGED <<device, errors, writer, captureError, callbackVars, tpc, storageFailed, formalStart, begun,
                   sourceOn, status>>

\* D435i: join, without a timeout.
JoinWriter ==
    /\ mpc = "join" /\ tpc = "ended"
    /\ mpc' = "close"
    /\ UNCHANGED <<device, errors, writer, captureError, callbackVars, threadVars, formalStart, begun, sourceOn,
                   status>>

\* writer.close, an exception of which ends in the report.
CloseWriter ==
    /\ \/ /\ mpc = "close" /\ mpc' = "files"
          /\ writer' = BeginClose(writer) /\ UNCHANGED <<errors, captureError>>
       \/ LET Then(done, e) == /\ mpc' = IF e = None THEN done ELSE "judge"
                               /\ captureError' = (captureError \/ e # None)
              ThenFiles(e)  == Then("files", e)
              ThenSeal(e)   == Then("seal", e)
              ThenJudge(e)  == Then("judge", e)
          IN  \/ /\ mpc = "files"
                 /\ \E s \in writer.listed \ writer.closed : Takes(CloseStreamOutcomes(writer, s), ThenFiles)
              \/ /\ mpc = "files" /\ writer.listed \subseteq writer.closed
                 /\ Takes(PublishOutcomes(writer), ThenSeal)
              \/ /\ mpc = "seal"
                 /\ Takes(SealOutcomes(writer), ThenJudge)
    /\ UNCHANGED <<device, callbackVars, threadVars, formalStart, begun, sourceOn, status>>

\* Sequence numbers of a stream without a gap.
Gapless(rs) == \A i \in 1..Len(rs) - 1 : rs[i + 1].n = rs[i].n + 1

\* evaluate_stream, evaluate_stereo_pairing, build_capture_acceptance: no
\* error, and streams without gaps that pair frame by frame.
EgoAccepted ==
    /\ ~captureError
    /\ \A s \in EgoStreams : Len(judged[s]) >= 1 /\ Gapless(judged[s])
    /\ \A s, t \in EgoStreams : {r.n : r \in ToSet(judged[s])} = {r.n : r \in ToSet(judged[t])}

\* build_acceptance: no failure, no exception in a callback, and every observed
\* frame valid (timestamp_unavailable, xu_failures, bad_jpegs).
TwoUQ2Accepted ==
    /\ ~captureError /\ exceptions = 0
    /\ judged[Video] # <<>> /\ \A r \in ToSet(judged[Video]) : r.valid

\* The report is built from what the threads have left behind.
Judge ==
    /\ mpc = "judge"
    /\ \/ status' = "FAIL"
       \/ /\ IF device = "d435i" THEN EgoAccepted ELSE TwoUQ2Accepted
          /\ status' = "PASS"
    /\ mpc' = "exit"
    /\ UNCHANGED <<device, errors, writer, captureError, callbackVars, threadVars, formalStart, begun, sourceOn>>

Main == ReadStart \/ EndWindow \/ GiveUp \/ StopSource \/ PutSentinel \/ JoinWriter \/ CloseWriter \/ Judge

Next == (\E s \in EgoStreams : Callback(s)) \/ WriterTakes \/ StartPasses \/ Main

\* main's loops are bounded by timeouts and its calls return; the two threads run.
Fairness ==
    /\ WF_vars(Main) /\ WF_vars(WriterTakes)
    /\ \A s \in EgoStreams : WF_vars(Classify(s) \/ Submit(s) \/ Count(s) \/ AppendVideo(s) \/ AppendXu(s))

Spec == Init /\ [][Next]_vars /\ Fairness

-----------------------------------------------------------------------------
(* Properties.                                                              *)

\* Records as they are written, frames as they are acquired and handled.
Records == [n : Nat, late : BOOLEAN, formal : BOOLEAN, valid : BOOLEAN, timed : BOOLEAN, candidate : BOOLEAN]
Entries == [at : {"entry"}, n : Nat, late : BOOLEAN, timed : BOOLEAN, valid : BOOLEAN]
Busy    == [at : {"write", "count", "xu"}, observed : BOOLEAN, record : Records]

\* Every variable holds what the code can put there.
TypeOK ==
    /\ device \in {"d435i", "2uq2"} /\ errors \in Nat /\ writer \in Writers(Records)
    /\ frame \in [EgoStreams -> {Idle} \cup Entries \cup Busy] /\ next \in [EgoStreams -> Nat]
    /\ queue \in Seq({Sentinel} \cup (EgoStreams \X Records)) /\ tpc \in {"run", "ended"}
    /\ storageFailed \in BOOLEAN
    /\ judged \in [EgoStreams -> Seq(Records)]
    /\ captureError \in BOOLEAN /\ exceptions \in Nat /\ candidateWritten \in BOOLEAN
    /\ formalStart \in BOOLEAN /\ begun \in BOOLEAN /\ sourceOn \in BOOLEAN
    /\ mpc \in {"warm", "formal", "stop", "put", "join", "close", "files", "seal", "judge", "exit"}
    /\ status \in {None, "PASS", "FAIL"}

\* Every index row points at its own payload, after torn appends of earlier
\* records too (append, which goes on after an OSError), and what manifest.json
\* has hashed is what the files hold, whatever the threads of a source that did
\* not stop go on to do (AppendOnlySessionWriter.append and close).
FilesAreSound ==
    \A s \in EgoStreams :
        /\ \A i \in DOMAIN writer.rows[s] :
               LET row == writer.rows[s][i]
               IN  row.offset < Len(writer.payload[s]) /\ writer.payload[s][row.offset + 1] = row.record
        /\ s \in writer.manifest => writer.hashed[s] = <<writer.payload[s], writer.rows[s]>>

\* The records on disk that are classified formal.
FormalRecords(s) == {row.record : row \in {x \in ToSet(writer.rows[s]) : x.record.formal}}

\* The frames of a log are in the order they were acquired in, none is there twice.
InOrder(rs) == \A i, j \in DOMAIN rs : i < j => rs[i].n < rs[j].n

\* A PASS is about files that are sealed and named by their manifest, which hold
\* in order exactly the formal records that were judged, in every stream (the
\* order of d435i worker.capture and two_uq2 _run_claimed when they stop).  Both
\* streams of a 2UQ2 then mark one record as the task's start, the first valid
\* formal one, though the mark is taken before the record is written
\* (EgoFrameRecorder.handle).
PassIsPersisted ==
    status = "PASS" =>
        /\ writer.state = "sealed" /\ writer.manifest = EgoStreams /\ ~writer.claimed
        /\ \A s \in EgoStreams :
               /\ InOrder([i \in DOMAIN writer.rows[s] |-> writer.rows[s][i].record]) /\ InOrder(judged[s])
               /\ FormalRecords(s) = ToSet(judged[s])
        /\ device = "2uq2" =>
              \A s \in EgoStreams :
                  LET good == {r \in FormalRecords(s) : r.valid}
                  IN  good # {} /\ \A r \in good : r.candidate <=> \A q \in good : r.n <= q.n

\* Whenever a formal start is known, the records on disk of frames acquired
\* after it are the formal ones, those acquired before it the warm-up
\* (is_warmup_sample, EgoFrameRecorder.handle and the guard of 100 ms).
ClassifiedByAcquisition ==
    formalStart => \A s \in EgoStreams : \A r \in ToSet(writer.payload[s]) : r.formal <=> (r.timed /\ r.late)

\* The worker ends with a verdict once it has begun to stop: the blocking put
\* and the join without a timeout come back, after a disk error too
\* (_AsyncWriter._run empties the queue until the sentinel).
StopEnds == mpc = "stop" ~> mpc = "exit"

=============================================================================
