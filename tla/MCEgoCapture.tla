---------------------------- MODULE MCEgoCapture ----------------------------
(***************************************************************************)
(* The programs that record through AppendOnlySessionWriter, for TLC: the  *)
(* two ego workers of EgoCapture and the calibration recording.            *)
(***************************************************************************)
EXTENDS EgoCapture

CONSTANTS MaxVideo, MaxReads, MaxUpsets, Batch, MessageDepth, PipeDepth, WriteDepth

\* The three streams of a calibration are streams of the session.
ASSUME CalibrationAssumption == {"ego.video", "ego.xu.packet", "ego.imu"} \subseteq Streams

VARIABLES
    program,    \* "worker" or "calibration"
    upsets, dataset, recorder, writes, writing, video, playing, child, messages, flags, preview, main, outcome

Calibration == INSTANCE CalibrationCapture

calibrationVars ==
    <<upsets, dataset, recorder, writes, writing, video, playing, child, messages, flags, preview, main, outcome>>
allVars == <<program, vars, calibrationVars>>

MCInit ==
    /\ Init /\ Calibration!Init
    /\ program \in {"worker", "calibration"}
    /\ program = "worker" => preview = "off"
    /\ program = "calibration" => device = "2uq2"

Worker == program = "worker" /\ UNCHANGED <<program, calibrationVars>>
Recording == program = "calibration" /\ UNCHANGED <<program, vars>>

MCNext == (Worker /\ Next) \/ (Recording /\ Calibration!Next)

\* While a thread, or main, can go on, one of them does; that alone is assumed.
\* (A callback, a process or a user need not come.)
Threaded == WriterTakes \/ \E s \in EgoStreams : Classify(s) \/ Submit(s) \/ Count(s) \/ AppendVideo(s) \/ AppendXu(s)
CalibrationThreads ==
    Calibration!WriteOne \/ Calibration!PutVideo \/ Calibration!Submit \/ Calibration!DeadlinePasses

Progress == (Worker /\ (Main \/ Threaded)) \/ (Recording /\ (Calibration!Main \/ CalibrationThreads))

MCSpec == MCInit /\ [][MCNext]_allVars /\ WF_allVars(Progress)

\* The files of every program are sound: FilesAreSound of the workers, SealIsFinal
\* of the calibration recording (AppendOnlySessionWriter).
SealedFilesAreSound == FilesAreSound /\ Calibration!SealIsFinal

\* An accepted calibration holds all that it counts (CalibrationCapture).
CalibrationIsPersisted == Calibration!CalibrationIsPersisted

\* Every program ends: a worker that has begun to stop, a recording whose deadline
\* has passed, whatever its IMU process and its preview do (StopEnds of EgoCapture,
\* CalibrationEnds of CalibrationCapture).
CapturesEnd ==
    (program = "worker" /\ mpc = "stop") \/ (program = "calibration" /\ flags.expired)
        ~> IF program = "worker" THEN mpc = "exit" ELSE main.pc = "exit"
=============================================================================
