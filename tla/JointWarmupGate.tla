-------------------------- MODULE JointWarmupGate --------------------------
(***************************************************************************)
(* The class JointWarmupGate of core/joint_gate.py as operators on its     *)
(* attributes: a gate is a record, a method call a function from gates to  *)
(* gates.  JointGate runs one gate against every sequence of calls; the    *)
(* coordinator of Acquisition keeps one among its own variables.           *)
(*                                                                         *)
(* The dictionaries keyed by device are functions that are None where the  *)
(* dictionary has no key (or, for healthySince, holds None).               *)
(***************************************************************************)
EXTENDS Integers

CONSTANTS
    Devices,                \* the devices the gate waits for
    CONTINUOUS_HEALTHY_NS,  \* how long all of them must have been healthy
    LAUNCH_TIMEOUT_NS,      \* how long after the first heartbeat it gives up
    None

ASSUME GateAssumption ==
    /\ CONTINUOUS_HEALTHY_NS \in Nat
    /\ LAUNCH_TIMEOUT_NS \in Nat
    /\ None \notin Int \cup {"healthy", "unhealthy"}

\* What a heartbeat says: its boolean field healthy.
Health == {"healthy", "unhealthy"}

GateStates == {"COLD", "WARMING", "JOINT_READY", "RECORDING", "BLOCKED"}

\* Every attribute a gate can have; warmup differs between two gates of a run.
Gate == [warmup: Nat,
         latest: [Devices -> Health \cup {None}],
         lastAt: [Devices -> Int \cup {None}],
         firstAt: [Devices -> Int \cup {None}],
         healthySince: [Devices -> Int \cup {None}],
         requestedAt: Int \cup {None},
         state: GateStates,
         taskStart: Int \cup {None}]

NewGate(warmup) ==
    LET nothing == [d \in Devices |-> None] IN
    [warmup |-> warmup, latest |-> nothing, lastAt |-> nothing,
     firstAt |-> nothing, healthySince |-> nothing,
     requestedAt |-> None, state |-> "COLD", taskStart |-> None]

\* No more than the timeout may pass since the first device was first seen.
Expired(g, now) ==
    \E d \in Devices : g.firstAt[d] # None /\ now - g.firstAt[d] >= LAUNCH_TIMEOUT_NS

\* The comparison with the latest of several anchors holds for each of them.
Ready(g, now) ==
    \A d \in Devices :
        /\ g.firstAt[d] # None
        /\ g.latest[d] = "healthy"
        /\ now - g.firstAt[d] >= g.warmup
        /\ now - g.healthySince[d] >= CONTINUOUS_HEALTHY_NS

-----------------------------------------------------------------------------
(* Mutants: plausible bugs in the operations below; no specification uses them. *)

\* An unhealthy heartbeat does not close the current run.
LearnedKeepingRun(g, d, at, health) ==
    [g EXCEPT !.lastAt[d] = at,
              !.latest[d] = health,
              !.firstAt[d] = IF @ = None THEN at ELSE @,
              !.healthySince[d] = IF @ = None /\ health = "healthy" THEN at ELSE @,
              !.state = CASE @ = "COLD" -> "WARMING"
                          [] @ = "JOINT_READY" /\ health = "unhealthy" -> "WARMING"
                          [] OTHER -> @]

\* Readiness, once reached, is never revoked.
LearnedStayingReady(g, d, at, health) ==
    [g EXCEPT !.lastAt[d] = at,
              !.latest[d] = health,
              !.firstAt[d] = IF @ = None THEN at ELSE @,
              !.healthySince[d] =
                  IF health = "unhealthy" THEN None ELSE IF @ = None THEN at ELSE @,
              !.state = IF @ = "COLD" THEN "WARMING" ELSE @]

-----------------------------------------------------------------------------
\* observe refuses a timestamp before the device's previous one.
Regresses(g, d, at) == g.lastAt[d] # None /\ at < g.lastAt[d]

\* What observe stores before it calls _advance.
Learned(g, d, at, health) ==
    [g EXCEPT !.lastAt[d] = at,
              !.latest[d] = health,
              !.firstAt[d] = IF @ = None THEN at ELSE @,
              !.healthySince[d] =
                  IF health = "unhealthy" THEN None ELSE IF @ = None THEN at ELSE @,
              !.state = CASE @ = "COLD" -> "WARMING"
                          [] @ = "JOINT_READY" /\ health = "unhealthy" -> "WARMING"
                          [] OTHER -> @]

\* _advance, which tick calls too.
Advanced(g, now) ==
    IF g.state # "WARMING" THEN g
    ELSE IF Expired(g, now) THEN [g EXCEPT !.state = "BLOCKED"]
    ELSE IF Ready(g, now) THEN [g EXCEPT !.state = "JOINT_READY"]
    ELSE g

Observed(g, d, at, health) == Advanced(Learned(g, d, at, health), at)

\* request_recording, after its check of the state.
Requested(g, at) == [g EXCEPT !.requestedAt = at, !.state = "RECORDING"]

\* observe_ego_frame: the first healthy frame that is not before the request.
FrameObserved(g, at, health) ==
    IF /\ g.state = "RECORDING"
       /\ g.taskStart = None
       /\ health = "healthy"
       /\ at >= g.requestedAt
    THEN [g EXCEPT !.taskStart = at]
    ELSE g
=============================================================================
