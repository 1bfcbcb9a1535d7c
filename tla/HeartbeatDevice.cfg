SPECIFICATION Spec
CONSTANTS
    Users = {u1}
    Devices = {d1, d2}
    Maps = {m1}
    MayLose = FALSE
    MaxOutstanding = 1
    MaxCalls = 3
INVARIANTS
    DeviceRearmed
