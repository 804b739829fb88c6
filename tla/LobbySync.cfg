SPECIFICATION Spec
CONSTANTS
    Lobbies = {1, 2}
    Maps = {"a"}
    Roster <- MCRoster
    Window = 1
    EarlySlack = 1
    KeepMatched = 1
    MissSpan = 1
    Syncs = {sa, sb}
    sa = sa
    sb = sb
    MaxTime = 1
    MaxGames = 2
    MaxPolls = 2
    MaxFaults = 1
INVARIANTS NamedByItsHost ArrivalsSettled
CHECK_DEADLOCK FALSE
SYMMETRY MCSymmetry
