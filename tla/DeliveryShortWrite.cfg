SPECIFICATION Spec
CONSTANTS
    Crashes = {c1}
    BugReports = {}
    Envelopes = {}
    Beats = {}
    WantsLog = {}
    MaxQueue = 2
    MaxAttempts = 2
    MaxFiles = 1
    MaxLaunches = 1
    FailingWrites = {c1}
    RotationFails = FALSE
INVARIANTS
    PersistedCannotBeLost
