SPECIFICATION Spec
CONSTANTS
    Users = {u1, u2}
    Environments = {e1}
    Maps = {m1}
    MaxCrumbs = 2
    MaxTracks = 2
    RingSize = 2
    MaxBatch = 3
    MaxCalls = 6
SYMMETRY Symmetry
PROPERTIES
    ReplayIsLive
