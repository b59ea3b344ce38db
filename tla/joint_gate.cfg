SPECIFICATION MCSpec
CONSTANTS
    Devices = {left, right}
    CONTINUOUS_HEALTHY_NS = 1
    WARMUP_NS = 2
    LAUNCH_TIMEOUT_NS = 3
    MaxTime = 4
    None = None
    CameraStreams = {rgb, ir}
    WarmupFrames = 1
    WarmupTimeout = 4
    ReadinessWindow = 2
    CameraStale = 1
    OutputStale = 1
    StartGuard = 1
    StartLead = 2
    Duration = 2
    LastFrame = 8
    MaxFaults = 1
SYMMETRY Symmetry
INVARIANTS ReadyMeansHealthy CameraPassIsSound
PROPERTIES ReadyIsEarned
