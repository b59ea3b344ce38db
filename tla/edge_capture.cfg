SPECIFICATION MCSpec
CONSTANTS
    MaxFrames = 3
    QueueDepth = 1
    Window = 2
    MaxFaults = 1
    SpoolFrames = 2
    SpoolDepth = 1
    MaxUpsets = 2
    MaxInterrupts = 1
    ChunkBytes = 2
    MaxStamp = 3
    MaxFailures = 1
CHECK_DEADLOCK FALSE
INVARIANTS SealedSessionsAreSound RowsMatchFrames FailureIsContained SealSurvivesPowerLoss
PROPERTIES EdgeCapturesEnd
