SPECIFICATION Spec
CONSTANTS
    MaxSessions = 3
    NativeHandler = TRUE
INVARIANTS
    CleanIsNotReported
    NoDoubleCounting
    DeathAccountedFor
    DumpBeatsHeuristic
