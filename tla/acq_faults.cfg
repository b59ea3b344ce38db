SPECIFICATION Spec
CONSTANTS
    None = None
    ego = ego
    left = left
    Devices = {ego, left}
    Egos = {ego}
    REQUIRED_DEVICES <- Both
    ExclusiveDirs = {}
    AutoStart = "yes"
    MayStop = "yes"
    DURATION_NS = 0
    MINIMUM_START_GUARD_NS = 1
    WARMUP_NS = 0
    CONTINUOUS_HEALTHY_NS = 0
    LAUNCH_TIMEOUT_NS = 1
    START_GUARD_NS = 1
    HEARTBEAT_STALE_NS = 1
    FINALIZATION_GRACE_NS = 1
    MaxFaults = 2
    MaxClock = 2
VIEW View
INVARIANTS PassIsEarned OrphansAreReported FailureNotMasked BlockedIsBenign ReportIsVerifiable
