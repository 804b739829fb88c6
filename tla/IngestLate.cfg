SPECIFICATION FairSystemSpec
CONSTANTS
    Games = {2}
    Mems = {0}
    Lava = {}
    LavaRecent = {}
    Modded = {2}
    Players <- MCPlayers
    EndUnix <- MCEndUnix
    BackfillWindow = 1
    MaxPending = 1
    MaxJobs = 2
    Resimmers = {"a"}
    Uploaders = {"u"}
    MemOf <- MCMemOf
    Punctual = FALSE
    PeopleHoldBack = TRUE
    LateBeats = TRUE
    MaxAsks = 2
    MaxFaults = 2
INVARIANTS DoneMeansPlayable
PROPERTIES JobsComeToRest
CHECK_DEADLOCK FALSE
