SPECIFICATION FairSpec
CONSTANTS
    Firmware = {old, new}
    MaxChunks = 2
INVARIANTS
    UpdateHasClient
    SuspensionFollowsUpdate
PROPERTIES
    OnlyWholePatchIsApplied
    MotorStopsInTheEnd
