SPECIFICATION MCSpec
CONSTANTS
    Streams = {"ego.video", "ego.xu.packet", "ego.imu"}
    MaxFrames = 3
    QueueDepth = 2
    MaxErrors = 1
    MaxVideo = 1
    MaxReads = 3
    MaxUpsets = 1
    Batch = 2
    MessageDepth = 2
    PipeDepth = 1
    WriteDepth = 2
CHECK_DEADLOCK FALSE
INVARIANTS SealedFilesAreSound PassIsPersisted ClassifiedByAcquisition CalibrationIsPersisted
PROPERTIES CapturesEnd
