SPECIFICATION Spec
CONSTANTS
    Length <- LengthDef
    MaxAir = 2
    MaxRuns = 2
INVARIANTS
    StoredAreWhole
PROPERTIES
    TransferEnds
    ScriptEnds
CHECK_DEADLOCK FALSE
