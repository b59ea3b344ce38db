--------------------------- MODULE MCEdgeCapture ---------------------------
(***************************************************************************)
(* The programs that record on the edge hosts, for TLC: the RSUSB capture  *)
(* of EdgeCapture, the v4l2 capture of SpoolCapture, and the Z2 session    *)
(* writer of EdgeSession.                                                  *)
(***************************************************************************)
EXTENDS EdgeCapture

CONSTANTS SpoolFrames, SpoolDepth, MaxUpsets, MaxInterrupts, ChunkBytes, MaxStamp, MaxFailures

\* max_chunk_bytes and the sizes and stamps of records are numbers.
ASSUME SessionAssumption == {ChunkBytes, MaxStamp} \subseteq Nat

VARIABLES
    program,    \* "rsusb", "v4l2" or "z2"
    capture, ir, spooler, rgb, collector, server, folder, upsets, interrupts,
    record, chunks, index, sealing, failures

Spool == INSTANCE SpoolCapture
Session == INSTANCE EdgeSession

spoolVars == <<capture, ir, spooler, rgb, collector, server, folder, upsets, interrupts>>
sessionVars == <<record, chunks, index, sealing, failures>>
allVars == <<program, vars, spoolVars, sessionVars>>

MCInit ==
    /\ Init /\ Spool!SpoolInit /\ Session!SessionInit
    /\ program \in {"rsusb", "v4l2", "z2"}
    /\ program # "rsusb" => mode = "interleaved"
    /\ program # "v4l2" => server = "off"

Rsusb == program = "rsusb" /\ UNCHANGED <<program, spoolVars, sessionVars>>
V4l2 == program = "v4l2" /\ UNCHANGED <<program, vars, sessionVars>>
Z2 == program = "z2" /\ UNCHANGED <<program, vars, spoolVars>>

MCNext == (Rsusb /\ Next) \/ (V4l2 /\ Spool!SpoolNext) \/ (Z2 /\ Session!SessionNext)

\* While a thread of a capture can go on, or main can, one of them does; that
\* alone is assumed.
Progress ==
    \/ Rsusb /\ (Main \/ RgbEnds \/ \E w \in Children : Writer(w))
    \/ V4l2 /\ (Spool!SpoolMain \/ Spool!SpoolThreads)

MCSpec == MCInit /\ [][MCNext]_allVars /\ WF_allVars(Progress)

\* Every program's sealed session is whole, and what a validator was written
\* for it accepts (SealedIsSound of EdgeCapture, SpoolIsComplete, SealedIsAccepted).
SealedSessionsAreSound ==
    IF program = "rsusb" THEN SealedIsSound
    ELSE IF program = "v4l2" THEN Spool!SpoolIsComplete ELSE Session!SealedIsAccepted

\* A failed capture leaves no sealed session and no camera, but where its own
\* cleanup was cut short or came too late (FailureIsUnsealed of EdgeCapture,
\* SpoolFailureIsContained).
FailureIsContained == FailureIsUnsealed /\ Spool!SpoolFailureIsContained

\* What looks sealed after a power loss has its manifest and its measurements
\* (MeasurementsSurvivePowerLoss of EdgeCapture, SpoolSurvivesPowerLoss).
SealSurvivesPowerLoss ==
    IF program = "v4l2" THEN Spool!SpoolSurvivesPowerLoss ELSE MeasurementsSurvivePowerLoss

\* The captures end, but where nothing ends their waits (CaptureEnds of
\* EdgeCapture, SpoolEnds).
EdgeCapturesEnd ==
    <>CASE program = "rsusb" -> main.at = "end" \/ (main.at = "rgb.put" /\ child["rgb"].process = "hung")
        [] program = "v4l2" -> capture.at = "end" \/ (capture.at = "clean.server" /\ server = "built")
        [] OTHER -> TRUE
=============================================================================
