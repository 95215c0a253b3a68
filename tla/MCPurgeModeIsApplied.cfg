SPECIFICATION Spec
CONSTANTS
    home = home
    built = built
    Profiles = {1, 2}
    FirstProfile = 1
    Highest = 2
    Default = 1
    Networks = {home, built}
    Devices <- SomeDevices
    NoNetwork = NoNetwork
    Unsaved = Unsaved
    Retry = 1
    Timeout = 2
PROPERTIES
    PurgeModeIsApplied
