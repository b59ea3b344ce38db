---------------------------- MODULE MCJointGate ----------------------------
(***************************************************************************)
(* What makes a device ready, and what its readiness leads to: JointGate   *)
(* with a handful of instants instead of nanoseconds, or the camera of one *)
(* D405 worker, whose heartbeats such a gate is about.  One of the two is  *)
(* chosen at the start.                                                    *)
(***************************************************************************)
EXTENDS JointGate, TLC

CONSTANTS CameraStreams, WarmupFrames, WarmupTimeout, ReadinessWindow, CameraStale, OutputStale,
          StartGuard, StartLead, Duration, LastFrame, MaxFaults

VARIABLES part, time, sent, frameQueue, bag, recorder, monitor, progress, barrier, formal, main,
          passed, report, csv, faults

Camera == INSTANCE D405Camera WITH Unset <- None

cameraVars == <<time, sent, frameQueue, bag, recorder, monitor, progress, barrier, formal, main,
                passed, report, csv, faults>>

MCInit ==
    /\ part \in {"gate", "camera"}
    /\ Init /\ Camera!Init
    /\ part = "gate" => main.duration = None

MCNext ==
    \/ part = "gate" /\ Next /\ UNCHANGED <<part, cameraVars>>
    \/ part = "camera" /\ Camera!Next /\ UNCHANGED <<part, vars>>

MCSpec == MCInit /\ [][MCNext]_<<part, vars, cameraVars>>

Symmetry == Permutations(Devices) \cup Permutations(CameraStreams)

-----------------------------------------------------------------------------
\* A D405 worker that passes has the frames of its formal window, says nothing
\* its verifier refuses, and has latched no failure: D405Camera's properties.
CameraPassIsSound == Camera!CameraPassIsSound
=============================================================================
