SPECIFICATION MCSpec
CONSTANTS
    None = None
    ego = ego
    left = left
    Devices = {ego, left}
    Egos = {ego}
    REQUIRED_DEVICES <- Both
    ExclusiveDirs = {}
    AutoStart = "no"
    MayStop = "yes"
    DURATION_NS = None
    MINIMUM_START_GUARD_NS = 1
    WARMUP_NS = 1
    CONTINUOUS_HEALTHY_NS = 1
    LAUNCH_TIMEOUT_NS = 4
    START_GUARD_NS = 1
    HEARTBEAT_STALE_NS = 1
    FINALIZATION_GRACE_NS = 1
    MaxFaults = 1
    MaxClock = 3
    ego1 = ego1
    ego2 = ego2
    standalone = standalone
    build1 = build1
    build2 = build2
    egoClaim = egoClaim
    writerClaim = writerClaim
    Absent = Absent
    Producers <- MCProducers
    Writers <- MCWriters
    Publishers <- MCPublishers
    Claims <- MCClaims
    ClaimOf <- MCClaimOf
    OutsideEdits = TRUE
    MaxWrites = 2
    startRecords = startRecords
    stopRecords = stopRecords
    failureLeft = failureLeft
    failureRight = failureRight
    right = right
    Starts = {coordinator, tool}
    Stops = {finish, quit, interrupt}
    Latches = {watchdog, worker, exception, right}
    Slots <- MCSlots
    SlotOf <- MCSlotOf
    NoCall = NoCall
SYMMETRY SessionSymmetry
VIEW PartView
\* Every call and every process ends.
CHECK_DEADLOCK FALSE
INVARIANTS
    BoundariesAgree OpenRunIsStopped
    QuietReturnIsCovered
    PublicationExclusion IndexMatchesSeal
PROPERTIES
    StartIsSafe
    BoundaryWrittenOnce
    SealWrittenOnce ImplementsAccess
