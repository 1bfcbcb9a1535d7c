SPECIFICATION Spec
CONSTANTS
    Crashes = {c1, c2}
    BugReports = {}
    Envelopes = {e1}
    Beats = {}
    WantsLog = {c1, c2}
    MaxQueue = 1
    MaxAttempts = 2
    MaxFiles = 1
    MaxLaunches = 2
    FailingWrites = {c1}
    RotationFails = TRUE
INVARIANTS
    TypeOK
    BackedNeverLost
    OneJobPerPayload
    OnlyReportsOnDisk
    FreshLogForFreshReports
PROPERTIES
    NoSilentLoss
    RefinesCustody
