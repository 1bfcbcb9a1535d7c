SPECIFICATION Spec
CONSTANTS
    MaxSessions = 2
    NativeHandler = FALSE
INVARIANTS
    ShutdownIsNotReported
