--------------------------- MODULE MCCoordinator ---------------------------
\* One 2UQ2 and one D405 worker, in the order of the coordinator's loops.
EXTENDS Coordinator

CONSTANTS ego, left

Both == <<ego, left>>
OnlyLeft == <<left>>

\* What the coordinator will not read again tells no two states apart: the
\* heartbeats once the formal end has passed or the workers are being stopped,
\* and of the gate, once there is a start, all but the last timestamps.
HeartbeatsDone ==
    \/ pc \in {"terminate", "stopLate", "load", "report", "done"}
    \/ FormalEnd # None /\ (IF pc = "poll" THEN clock ELSE now) >= FormalEnd

View ==
    <<clock, faults, failure, startRecord, stopRecord, acceptance, workers, pc, pass, result,
      findings, schedule, stop, outcome,
      IF HeartbeatsDone THEN None ELSE <<heartbeat, lastHeartbeat>>,
      IF HeartbeatsDone THEN None ELSE IF start # None THEN gate.lastAt ELSE gate>>
=============================================================================
