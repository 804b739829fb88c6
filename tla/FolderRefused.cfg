SPECIFICATION DirSpec
CONSTANTS
    Workers = {1, 2}
    Builds = {"b1"}
    FilesOf <- MCFilesOf
    MaxTasks = 2
    MaxUpsets = 0
INVARIANT ReadsItsOwn
CHECK_DEADLOCK FALSE
