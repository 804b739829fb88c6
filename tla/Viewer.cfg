SPECIFICATION ViewerSpec
CONSTANTS
    Ids = {"ranged", "whole", "small", "unrun"}
    Published = {"ranged", "whole", "small"}
    Small = {"small"}
    NoRanges = {"whole"}
    NChunks = 4
    MaxOpens = 2
    Targets = {5}
    MaxFails = 1
    TouchesWhileLoading = FALSE
    Universe = {1, 2, 3, 4, 5}
    Late = {4}
    EndUnix <- MCEndUnix
    Count <- MCCount
    Flagged <- MCFlagged
    Filters = {"all", "players", "flag"}
    BranchMax = 2
    ScanMax = 2
    GamesLimit = 1
    MaxReads = 5
    MaxPage = 1
    MaxVisits = 2
INVARIANTS
     LatestOpenWins RequestedIsUnderway
     WalkIsWhole
CHECK_DEADLOCK FALSE
