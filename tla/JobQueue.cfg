SPECIFICATION Spec
CONSTANTS
    Games = {2}
    Mems = {0, 1}
    Lava = {2}
    LavaRecent = {2}
    Modded = {2}
    Players <- MCPlayers
    EndUnix <- MCEndUnix
    BackfillWindow = 1
    MaxPending = 1
    MaxJobs = 2
INVARIANTS CatalogShowsWork 
PROPERTIES NeverQueuedTwice PublishedStays
CHECK_DEADLOCK FALSE
