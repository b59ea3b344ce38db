SPECIFICATION Spec
CONSTANTS
    None = None
    ego = ego
    left = left
    Devices = {left}
    Egos = {}
    REQUIRED_DEVICES <- OnlyLeft
    ExclusiveDirs = {}
    AutoStart = "no"
    MayStop = "yes"
    DURATION_NS = 1
    MINIMUM_START_GUARD_NS = 1
    WARMUP_NS = 0
    CONTINUOUS_HEALTHY_NS = 0
    LAUNCH_TIMEOUT_NS = 3
    START_GUARD_NS = 1
    HEARTBEAT_STALE_NS = 1
    FINALIZATION_GRACE_NS = 1
    MaxFaults = 1
    MaxClock = 3
PROPERTIES Terminates
