SPECIFICATION SystemSpec
CONSTANTS
    Games = {1, 2}
    Mems = {0}
    Lava = {2}
    LavaRecent = {2}
    Modded = {2}
    Players <- MCPlayers
    EndUnix <- MCEndUnix
    BackfillWindow = 1
    MaxPending = 1
    MaxJobs = 3
    Resimmers = {a, b}
    Uploaders = {"u"}
    MemOf <- MCMemOf
    Punctual = TRUE
    PeopleHoldBack = FALSE
    LateBeats = FALSE
    MaxAsks = 2
    MaxFaults = 1
INVARIANT HoldIsExclusive
SYMMETRY Interchangeable
CHECK_DEADLOCK FALSE
