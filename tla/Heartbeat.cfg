SPECIFICATION Spec
CONSTANTS
    Users = {u1, u2}
    Devices = {d1, d2}
    Maps = {m1}
    MayLose = TRUE
    MaxOutstanding = 2
    MaxCalls = 4
SYMMETRY Symmetry
INVARIANTS
    TypeOK
    PlayersStayApart
    MarkerRetiredIsMerged
    DeviceSentIsDelivered
    BaselineIsDelivered
