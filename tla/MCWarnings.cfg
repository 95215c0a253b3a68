SPECIFICATION FairSpec
CONSTANTS
    Loads = {2}
    DataSet = 1
    Default = 1
    Grace = 1
    High = 3
    Recovery = 3
    Required = 2
    MaxEvents = 2
    Shakes = {TRUE, FALSE}
    MinDelta = 2
    MinWait = 1
    StableWait = 2
    ForceWait = 4
PROPERTIES
    NoiseWarningIsEarned
