SPECIFICATION Spec
CONSTANTS
    h1 = h1
    h2 = h2
    NoHost = NoHost
    Hosts <- TwoHosts
    Busy <- OneBusy
    Kept <- KeptByOne
    Capacity = 1
    MaxId = 2
    Calls <- TwoCalls
    Slots <- TwoSlots
INVARIANTS DisconnectedIsSilent LiveIsFromTheSyncedGrinder
PROPERTIES FinishedSyncIsComplete SyncEnds
