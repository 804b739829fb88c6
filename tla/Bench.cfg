SPECIFICATION Spec
CONSTANTS
    Runs = {1}
    Cap = 3
    Retention = 1
    MaxNow = 4
    MaxRows = 2
    MaxBeats = 4
    Details <- MCDetails
    Bodies <- MCBodies
    Edits = 3
    RosterCap = 2
    Tables <- MCTables
    QUEUE_PAGE = 1
    Moves = 1
    Reads = 2
    Captures <- MCCaptures
    Published <- MCPublished
    MaxCalls = 2
    MaxInstant = 1
    TokenLife = 1
    Cooldown = 1
    KeySetLife = 1
    MaxClock = 2
    Games <- MCGames
    ChunkFrames = 2
    SampleEvery = 2
    Structures = {7}
    ArmyDefs = {3}
    BUILD_DONE = 2
    Window = 2
    DESPIKE_SAMPLES = 2
    Scripts <- MCScripts
    CommTeams <- MCCommTeams
    Spots <- MCSpots
    KeyFrames = {0, 3, 6}
    MARK_LIFETIME = 3
    MARK_ERASE_RADIUS = 2
    BUBBLE_LIFETIME = 1
    BUBBLE_SPEED_CAP = 3
    SELFD_MAX = 3
    SELFD_OPEN = 2
    FX_BUCKET = 2
    Speeds = {1, 4}
    MaxFrame = 6
    Files <- MCFiles
    Older = {3}
    Tabs = {1, 2}
    BRP_PROBE = 4
    RANGE_CACHE_KEEP = 1
    MaxOpens = 2
    OnSite <- MCOnSite
    Layouts <- MCLayouts
    MaxIssued = 3
    MaxTicks = 2
    MaxBreaks = 1
INVARIANTS
    StampedIsWhole SeriesSpansRun
    RowsAreFindable
    
    ReadAsWritten
    SignInLands
    PlayedIsRecorded
    OverlayFollows
     PagesComeThrough
PROPERTIES
    BubblesStay
CHECK_DEADLOCK FALSE
