SPECIFICATION Spec
CONSTANTS
    MaxSessions = 3
    NativeHandler = FALSE
INVARIANTS
    SuppressedIsRepresented
