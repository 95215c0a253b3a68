SPECIFICATION ScreenFairSpec
CONSTANTS
    EventQueueSize = 4
    RemoteQueueSize = 2
    Commands <- AllCommands
INVARIANTS
    ScreenFollowsPhase
    InitializingIsAcknowledged
    TimerBelongsToScreen
PROPERTIES
    FinishedGrindIsDismissed
