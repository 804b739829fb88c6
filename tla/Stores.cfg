SPECIFICATION StoresSpec
CONSTANTS
    Games = {"g"}
    Captures = {"spectator", "resim", "player"}
    Settings = {"lava"}
    MaxEdits = 3
    GameOf <- MCGameOf
    MapOf <- MCMapOf
    SettingsOf <- MCSettingsOf
    AllyOf <- MCAllyOf
    Workers = {1, 2}
    Builds = {"b1", "b2"}
    FilesOf <- MCFilesOf
    MaxTasks = 2
    MaxUpsets = 2
INVARIANTS
    DerivedFollows RevIsOfBytes
    DirIsKept PublishedIsEarned

    
CHECK_DEADLOCK FALSE
