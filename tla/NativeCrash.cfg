SPECIFICATION FairSpec
CONSTANTS
    t1 = t1
    t2 = t2
    Threads = {t1, t2}
    Images <- MCImages
    MaxModules = 3
    MaxBuildId = 3
    MaxNibbles = 3
    Crashes <- MCCrashes
    Scenarios <- MCScenarios
INVARIANTS
    ParsedIsWritten
    HandedOn
PROPERTY
    CrashDies
