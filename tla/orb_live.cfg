SPECIFICATION Spec
CONSTANTS
    Programs = {"pair", "hil"}
    PairTime = 10
    HilTime = 6
    Spacing = 2
    Skew = 2
    Lead = 1
    MaxGap = 2
    MinImu = 2
    QueueDepth = 2
    Backlog = 1
    Unpressed = 6
    Stale = 1
    MinInliers = 2
    MaxCandidates = 2
    MaxPoses = 1
    MaxMaps = 2
    MaxFaults = 1
CHECK_DEADLOCK FALSE
INVARIANTS SamplesAreKept EgoWorldIsOneMap PassIsAnswered
PROPERTIES LiveRunEnds
