SPECIFICATION Spec
CONSTANTS
    Users = {u1, u2}
    Devices = {d1}
    Maps = {m1}
    MayLose = FALSE
    MaxOutstanding = 1
    MaxCalls = 4
INVARIANTS
    NoClobberedMarker
