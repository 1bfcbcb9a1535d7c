SPECIFICATION FairSpec
CONSTANTS
    Users = {u1}
    Devices = {d1}
    Maps = {m1}
    MayLose = TRUE
    MaxOutstanding = 2
    MaxCalls = 3
PROPERTIES
    CarryConverges
