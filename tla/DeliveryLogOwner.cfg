SPECIFICATION Spec
CONSTANTS
    Crashes = {}
    BugReports = {b1}
    Envelopes = {}
    Beats = {}
    WantsLog = {b1}
    MaxQueue = 2
    MaxAttempts = 1
    MaxFiles = 1
    MaxLaunches = 3
    FailingWrites = {}
    RotationFails = FALSE
INVARIANTS
    LogOfItsOwnRun
