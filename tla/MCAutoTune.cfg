SPECIFICATION FairSpec
CONSTANTS
    ExtraLoop = FALSE
    Unit = 64
    MinPulse = 1920
    MaxPulse = 19200
    Priming = 64000
    Accuracy = 320
    Grid = 640
    Default = 3200
    MaxIterations = 13
    Pulses = 5
    Needed = 4
    Rounds = 5
    Stored = {4480, 25600}
    Grinders <- MCGrinders
    Results <- MCResults
INVARIANTS
    SteadyGrinderIsTuned
    FoundPulseIsShortest
PROPERTIES
    LatencyIsVerified
    TuneEnds
