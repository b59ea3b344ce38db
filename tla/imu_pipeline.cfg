SPECIFICATION Spec
CONSTANTS
    MaxQueue = 2
    MaxSamples = 3
    MaxBatch = 2
    MaxFaults = 2
VIEW View
CHECK_DEADLOCK FALSE
INVARIANTS PassIsGapless AcceptedIsWritten ShutdownNeverBlocks
PROPERTIES HashedIsFinal
