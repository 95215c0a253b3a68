SPECIFICATION FairSpec
CONSTANTS
    MaxPulseAttempts = 2
    Timeout = 2
    MaxPause = 2
    MaxExtraPulses = 1
    FlashQueueSize = 2
    StartOutcomes <- MayFailToStart
INVARIANTS
    MotorOffWhenNotDispensing
    PulseHistoryInBounds
    TimeoutCountsActiveTime
    ResultMatchesEnding
    RequestedEndArrives
PROPERTIES
    ImplementsSession
    GrindEnds
