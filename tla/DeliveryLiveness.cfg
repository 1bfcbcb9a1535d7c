SPECIFICATION FairSpec
CONSTANTS
    Crashes = {}
    BugReports = {b1}
    Envelopes = {e1}
    Beats = {h1}
    WantsLog = {b1}
    MaxQueue = 2
    MaxAttempts = 2
    MaxFiles = 1
    MaxLaunches = 1
    FailingWrites = {b1}
    RotationFails = FALSE
PROPERTIES
    QuitEnds
    LeavesMemory
