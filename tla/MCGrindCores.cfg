SPECIFICATION CoresFairSpec
CONSTANTS
    MaxPulseAttempts = 1
    Timeout = 2
    MaxPause = 1
    MaxExtraPulses = 1
    FlashQueueSize = 1
    StartOutcomes <- MayFailToStart
INVARIANTS
    MotorOffAfterDosing
PROPERTIES
    MotorStopsUnlessForgotten
