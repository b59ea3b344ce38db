SPECIFICATION Spec
CONSTANTS
    UmiChoices <- MCUmiChoices
    Delays = {3}
    GRID_NS = 4
    TARGET_SPAN_NS = 1
    HARD_SPAN_NS = 2
    FRAME = 4
    WARM_FRAMES = 1
    IMU_STABLE = 2
    MIN_WARMUP = 4
    WARMUP_TIMEOUT = 10
    DURATION = 8
    POSTROLL = 6
    NEAREST_MAX = 2
    START_LAG_MAX = 6
    MaxMisfortunes = 0
    MaxTroubles = 1
    Phases = {2, 3}
INVARIANTS ClaimsAreGivenBack
