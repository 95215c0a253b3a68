SPECIFICATION FairSpec
CONSTANTS
    Loads = {2, 4}
    DataSet = 1
    Default = 1
    Grace = 1
    High = 2
    Recovery = 2
    Required = 1
    MaxEvents = 0
    Shakes = {FALSE}
    MinDelta = 2
    MinWait = 1
    StableWait = 2
    ForceWait = 3
INVARIANTS
    FaultyIsNotCalibrated
PROPERTIES
    OverlayGoes
    NoiseCheckCanBeLeft
