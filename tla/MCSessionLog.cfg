SPECIFICATION Spec
CONSTANTS
    MaxStored = 2
    FlashQueueSize = 1
    MaxGrinds = 4
    OldIds = {2}
INVARIANTS
    FinishedGrindIsSaved
    FileHoldsOneGrind
PROPERTIES
    RotationKeepsNewest
