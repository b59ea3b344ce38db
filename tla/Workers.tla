------------------------------ MODULE Workers ------------------------------
(***************************************************************************)
(* The capture workers as the coordinator sees them: one process per       *)
(* device, which talks to it only through files of the session (barrier    *)
(* records and acceptance.json) and through its exit code.                 *)
(*                                                                         *)
(* Two kinds of worker differ in what they do at the edges of a run:       *)
(*                                                                         *)
(*   D405 (devices/d405_umi/worker.py)      latches a failure at once,     *)
(*       writes its acceptance after it; a failure before its capture loop *)
(*       leaves no acceptance at all                                       *)
(*   2UQ2 (devices/two_uq2/worker.py)       writes its acceptance first    *)
(*       and latches afterwards, whenever the acceptance is not a PASS     *)
(*                                                                         *)
(* Whether a frame arrives, a disk is full or a check fails is chosen      *)
(* freely, but each such misfortune uses up one of MaxFaults.              *)
(***************************************************************************)
EXTENDS Integers

CONSTANTS
    Devices,
    Egos,           \* the devices with a 2UQ2 worker, the others have a D405
    ExclusiveDirs,  \* the devices whose worker must create its own directory
    DURATION_NS,    \* length of the formal window, None if only a stop ends it
    MINIMUM_START_GUARD_NS,
    MaxFaults,      \* bound on the misfortunes in one behaviour
    None

ASSUME WorkersAssumption ==
    /\ Egos \subseteq Devices
    /\ ExclusiveDirs \subseteq Devices
    /\ DURATION_NS = None \/ DURATION_NS \in Nat
    /\ MINIMUM_START_GUARD_NS \in Nat
    /\ MaxFaults \in Nat
    /\ None \notin Int

VARIABLES
    clock,          \* time.monotonic_ns(), one clock for all processes
    faults,         \* how many misfortunes have happened
    heartbeat,      \* barrier/heartbeat.<device>.json
    failure,        \* at_ns of barrier/failure.<device>.json
    startRecord,    \* start_ns of barrier/start.json
    stopRecord,     \* at_ns of barrier/stop.json
    acceptance,     \* the status in <device>/acceptance.json
    phase,          \* where each worker is
    verdict,        \* the status a closing worker will report
    code,           \* exit code of a process that has ended
    exitedAt        \* when it ended

records == <<heartbeat, failure, startRecord, stopRecord>>
workers == <<phase, verdict, code, exitedAt>>

Statuses == {"PASS", "FAIL", "BLOCKED"}

\* acceptance_exit_code and its copies.
ExitCode(status) == CASE status = "PASS" -> 0 [] status = "FAIL" -> 2 [] status = "BLOCKED" -> 3

Running == {d \in Devices : phase[d] \notin {"off", "exited"}}

InitWorkers ==
    /\ clock = 0
    /\ faults = 0
    /\ heartbeat = [d \in Devices |-> None]
    /\ failure = [d \in Devices |-> None]
    /\ startRecord = None
    /\ stopRecord = None
    /\ acceptance = [d \in Devices |-> None]
    /\ phase = [d \in Devices |-> "off"]
    /\ verdict = [d \in Devices |-> None]
    /\ code = [d \in Devices |-> None]
    /\ exitedAt = [d \in Devices |-> None]

\* A step that needs a misfortune.
Misfortune == faults < MaxFaults /\ faults' = faults + 1

\* The first failure of a device is kept.
Latch(d, at) == failure' = [failure EXCEPT ![d] = IF @ = None THEN at ELSE @]

Exit(d, status) ==
    /\ phase' = [phase EXCEPT ![d] = "exited"]
    /\ code' = [code EXCEPT ![d] = status]
    /\ exitedAt' = [exitedAt EXCEPT ![d] = clock]

Close(d, status) ==
    /\ phase' = [phase EXCEPT ![d] = "closing"]
    /\ verdict' = [verdict EXCEPT ![d] = status]
    /\ UNCHANGED <<code, exitedAt>>

-----------------------------------------------------------------------------
\* Directories, hardware and the capture threads are prepared.  The D405's
\* directory must not exist, the coordinator has already created it; setup that
\* fails latches storage_error or the like and leaves no acceptance.
SetUp(d) ==
    /\ phase[d] = "setup"
    /\ d \notin ExclusiveDirs
    /\ phase' = [phase EXCEPT ![d] = "warming"]
    /\ UNCHANGED <<clock, faults, records, acceptance, verdict, code, exitedAt>>

SetUpD405Fails(d) ==
    /\ phase[d] = "setup"
    /\ d \notin Egos
    /\ IF d \in ExclusiveDirs THEN UNCHANGED faults ELSE Misfortune
    /\ Latch(d, clock)
    /\ phase' = [phase EXCEPT ![d] = "failed"]
    /\ UNCHANGED <<clock, heartbeat, startRecord, stopRecord, acceptance, verdict, code,
                   exitedAt>>

ExitFailed(d) ==
    /\ phase[d] = "failed"
    /\ Exit(d, 2)
    /\ UNCHANGED <<clock, faults, records, acceptance, verdict>>

\* A missing camera or vendor library is BLOCKED for the 2UQ2, the rest FAIL.
SetUpEgoFails(d) ==
    /\ phase[d] = "setup"
    /\ d \in Egos
    /\ Misfortune
    /\ \E status \in {"FAIL", "BLOCKED"} : Close(d, status)
    /\ UNCHANGED <<clock, records, acceptance>>

\* Its directory cannot be prepared: a FAIL, written or not, and no latch.
SetUpEgoStorageFails(d) ==
    /\ phase[d] = "setup"
    /\ d \in Egos
    /\ Misfortune
    /\ \E status \in {"FAIL", None} : acceptance' = [acceptance EXCEPT ![d] = status]
    /\ Exit(d, 2)
    /\ UNCHANGED <<clock, records, verdict>>

\* Heartbeats are written every 50 ms, here at most once per instant; an
\* unhealthy one, or one dated before its predecessor, is a misfortune.
Beat(d) ==
    /\ phase[d] \in {"warming", "armed"}
    /\ heartbeat[d] # None => heartbeat[d].at < clock
    /\ \/ /\ heartbeat' = [heartbeat EXCEPT ![d] = [at |-> clock, health |-> "healthy"]]
          /\ UNCHANGED faults
       \/ /\ Misfortune
          /\ \E late \in {0, 1}, health \in {"healthy", "unhealthy"} :
                /\ late = 1 <=> health = "healthy"
                /\ late = 1 => heartbeat[d] # None /\ heartbeat[d].at > 0
                /\ heartbeat' = [heartbeat EXCEPT ![d] =
                       [at |-> IF late = 1 THEN @.at - 1 ELSE clock, health |-> health]]
    /\ UNCHANGED <<clock, failure, startRecord, stopRecord, acceptance, workers>>

\* The worker reads start.json while there is still time to arm itself.
ReadStart(d) ==
    /\ phase[d] = "warming"
    /\ startRecord # None
    /\ startRecord - clock >= MINIMUM_START_GUARD_NS
    /\ phase' = [phase EXCEPT ![d] = "armed"]
    /\ UNCHANGED <<clock, faults, records, acceptance, verdict, code, exitedAt>>

\* A start that is too near or past: stale_start, BLOCKED for the 2UQ2.
ReadStartLate(d) ==
    /\ phase[d] = "warming"
    /\ startRecord # None
    /\ startRecord - clock < MINIMUM_START_GUARD_NS
    /\ Close(d, IF d \in Egos THEN "BLOCKED" ELSE "FAIL")
    /\ IF d \in Egos THEN UNCHANGED failure ELSE Latch(d, clock)
    /\ UNCHANGED <<clock, faults, heartbeat, startRecord, stopRecord, acceptance>>

\* The capture raises, a stream stalls, a writer runs full.  The D405 latches
\* it at once, unless the latch raises too.
CaptureFails(d) ==
    /\ phase[d] \in {"warming", "armed"}
    /\ \/ Misfortune /\ IF d \in Egos THEN UNCHANGED failure ELSE Latch(d, clock)
       \/ /\ d \notin Egos
          /\ faults + 2 <= MaxFaults /\ faults' = faults + 2
          /\ UNCHANGED failure
    /\ Close(d, "FAIL")
    /\ UNCHANGED <<clock, heartbeat, startRecord, stopRecord, acceptance>>

\* formal_window_complete.  The D405 looks for the stop only after it has
\* crossed the start.
WindowComplete(d) ==
    \/ stopRecord # None /\ (d \in Egos \/ clock >= startRecord)
    \/ DURATION_NS # None /\ clock >= startRecord + DURATION_NS

\* The window is over and the checks pass, or not; a D405 whose outputs do not
\* close latches that, one whose camera clock was never verified is BLOCKED.
CloseWindow(d) ==
    /\ phase[d] = "armed"
    /\ WindowComplete(d)
    /\ \/ Close(d, "PASS") /\ UNCHANGED <<faults, failure>>
       \/ /\ Misfortune
          /\ \E status \in {"FAIL", "BLOCKED"} : Close(d, status)
          /\ UNCHANGED failure
       \/ d \notin Egos /\ Misfortune /\ Close(d, "FAIL") /\ Latch(d, clock)
    /\ UNCHANGED <<clock, heartbeat, startRecord, stopRecord, acceptance>>

WriteAcceptance(d) ==
    /\ phase[d] = "closing"
    /\ acceptance[d] = None
    /\ acceptance' = [acceptance EXCEPT ![d] = verdict[d]]
    /\ UNCHANGED <<clock, faults, records, workers>>

\* The 2UQ2 latches what its acceptance says before it exits; an OSError of
\* the latch is swallowed.
LatchVerdict(d) ==
    /\ phase[d] = "closing"
    /\ d \in Egos
    /\ acceptance[d] \in {"FAIL", "BLOCKED"}
    /\ \/ Latch(d, clock) /\ UNCHANGED faults
       \/ Misfortune /\ UNCHANGED failure
    /\ phase' = [phase EXCEPT ![d] = "latched"]
    /\ UNCHANGED <<clock, heartbeat, startRecord, stopRecord, acceptance, verdict, code,
                   exitedAt>>

ExitWithVerdict(d) ==
    /\ \/ phase[d] = "latched"
       \/ /\ phase[d] = "closing"
          /\ acceptance[d] = "PASS" \/ (d \notin Egos /\ acceptance[d] # None)
    /\ Exit(d, ExitCode(verdict[d]))
    /\ UNCHANGED <<clock, faults, records, acceptance, verdict>>

\* The 2UQ2's acceptance cannot be written: it exits as for a FAIL, unlatched.
AcceptanceFails(d) ==
    /\ phase[d] = "closing"
    /\ d \in Egos
    /\ acceptance[d] = None
    /\ Misfortune
    /\ Exit(d, 2)
    /\ UNCHANGED <<clock, records, acceptance, verdict>>

\* An uncaught exception or a signal.
Die(d) ==
    /\ d \in Running
    /\ Misfortune
    /\ Exit(d, 1)
    /\ UNCHANGED <<clock, records, acceptance, verdict>>

\* A worker command that, content with itself, ends before its window does: not
\* one of these two, but one the coordinator guards against.
EndEarly(d) ==
    /\ phase[d] = "armed"
    /\ ~WindowComplete(d)
    /\ Misfortune
    /\ Close(d, "PASS")
    /\ UNCHANGED <<clock, records, acceptance>>

WorkerStep(d) ==
    \/ SetUp(d)
    \/ SetUpD405Fails(d)
    \/ ExitFailed(d)
    \/ SetUpEgoFails(d)
    \/ SetUpEgoStorageFails(d)
    \/ Beat(d)
    \/ ReadStart(d)
    \/ ReadStartLate(d)
    \/ CaptureFails(d)
    \/ CloseWindow(d)
    \/ WriteAcceptance(d)
    \/ LatchVerdict(d)
    \/ ExitWithVerdict(d)
    \/ AcceptanceFails(d)
    \/ Die(d)
    \/ EndEarly(d)

WorkersTypeOK ==
    /\ clock \in Nat
    /\ faults \in 0..MaxFaults
    /\ heartbeat \in [Devices -> [at : Nat, health : {"healthy", "unhealthy"}] \cup {None}]
    /\ failure \in [Devices -> Nat \cup {None}]
    /\ startRecord \in Nat \cup {None}
    /\ stopRecord \in Nat \cup {None}
    /\ acceptance \in [Devices -> Statuses \cup {None}]
    /\ phase \in [Devices -> {"off", "setup", "failed", "warming", "armed", "closing",
                              "latched", "exited"}]
    /\ verdict \in [Devices -> Statuses \cup {None}]
    /\ code \in [Devices -> {0, 1, 2, 3, -15, None}]
    /\ exitedAt \in [Devices -> Nat \cup {None}]
=============================================================================
