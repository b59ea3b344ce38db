----------------------------- MODULE JointGate -----------------------------
(***************************************************************************)
(* One JointWarmupGate (core/joint_gate.py) under every sequence of calls: *)
(* heartbeats of several devices with timestamps in any relation to each   *)
(* other, ticks of a clock, a recording request and ego frames.            *)
(***************************************************************************)
EXTENDS JointWarmupGate

CONSTANTS
    WARMUP_NS,      \* how long every device must have been present
    MaxTime         \* bound on the timestamps of heartbeats, ticks and frames

ASSUME JointGateAssumption ==
    /\ WARMUP_NS \in Nat
    /\ MaxTime \in Nat

Times == 0..MaxTime

VARIABLES
    gate,
    now,            \* the time the gate was last told
    firstReport,    \* what the devices have reported, kept beside the gate:
    lastUnhealthy   \* the first heartbeat and the last unhealthy one

vars == <<gate, now, firstReport, lastUnhealthy>>

Init ==
    /\ gate = NewGate(WARMUP_NS)
    /\ now = 0
    /\ firstReport = [d \in Devices |-> None]
    /\ lastUnhealthy = [d \in Devices |-> None]

\* A heartbeat whose timestamp goes back raises ValueError and changes nothing.
Observe(d, at, health) ==
    /\ ~Regresses(gate, d, at)
    /\ gate' = Observed(gate, d, at, health)
    /\ now' = at
    /\ firstReport' = [firstReport EXCEPT ![d] = IF @ = None THEN at ELSE @]
    /\ lastUnhealthy' = [lastUnhealthy EXCEPT ![d] = IF health = "healthy" THEN @ ELSE at]

Tick(at) ==
    /\ gate' = Advanced(gate, at)
    /\ now' = at
    /\ UNCHANGED <<firstReport, lastUnhealthy>>

\* Any other state raises RuntimeError.
RequestRecording(at) ==
    /\ gate.state = "JOINT_READY"
    /\ gate' = Requested(gate, at)
    /\ UNCHANGED <<now, firstReport, lastUnhealthy>>

ObserveEgoFrame(at, health) ==
    /\ gate' = FrameObserved(gate, at, health)
    /\ UNCHANGED <<now, firstReport, lastUnhealthy>>

Next ==
    \/ \E d \in Devices, at \in Times, health \in Health : Observe(d, at, health)
    \/ \E at \in Times : Tick(at)
    \/ \E at \in Times : RequestRecording(at)
    \/ \E at \in Times, health \in Health : ObserveEgoFrame(at, health)

Spec == Init /\ [][Next]_vars

-----------------------------------------------------------------------------
\* Which attributes are set together, and in which state.
WellFormed(g) ==
    /\ (g.requestedAt # None) <=> (g.state = "RECORDING")
    /\ g.state = "COLD" => \A d \in Devices : g.firstAt[d] = None
    /\ \A d \in Devices :
          /\ (g.firstAt[d] = None) <=> (g.lastAt[d] = None)
          /\ (g.firstAt[d] = None) <=> (g.latest[d] = None)
          /\ (g.healthySince[d] # None) <=> (g.latest[d] = "healthy")

TypeOK ==
    /\ gate \in Gate
    /\ WellFormed(gate)
    /\ now \in Int
    /\ firstReport \in [Devices -> Int \cup {None}]
    /\ lastUnhealthy \in [Devices -> Int \cup {None}]

\* JOINT_READY is reached only when, at the time of the call, every device was
\* first heard of at least the warm-up ago, none so long ago that the launch
\* timeout has passed, and no device has reported a problem within the last
\* CONTINUOUS_HEALTHY_NS, whatever the order in which heartbeats were observed.
ReadyIsEarned ==
    [][(gate.state # "JOINT_READY" /\ gate'.state = "JOINT_READY")
        => \A d \in Devices :
              /\ firstReport'[d] # None
              /\ now' - firstReport'[d] >= WARMUP_NS
              /\ now' - firstReport'[d] >= CONTINUOUS_HEALTHY_NS
              /\ now' - firstReport'[d] < LAUNCH_TIMEOUT_NS
              /\ lastUnhealthy'[d] # None =>
                    now' - lastUnhealthy'[d] >= CONTINUOUS_HEALTHY_NS]_vars

\* While the gate is JOINT_READY the latest heartbeat of every device is
\* healthy: a later unhealthy one has taken the readiness back.
ReadyMeansHealthy ==
    gate.state = "JOINT_READY" => \A d \in Devices : gate.latest[d] = "healthy"

=============================================================================
