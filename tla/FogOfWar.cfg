SPECIFICATION Spec
CONSTANTS
    g1 = g1
    g2 = g2
    Games = {g1, g2}
    Homes = {"c", "d"}
    FirstHome = "c"
    MaxFails = 1
    MaxHistory = 1
    MaxRuns = 2
    MaxCalls = 2
    MaxUpsets = 3
INVARIANTS UploadsFollowed EndIsTold
PROPERTY AutoIsObedient
SYMMETRY MCSymmetry
CHECK_DEADLOCK FALSE
