SPECIFICATION Spec
CONSTANTS
    Games = {1, 2, 3}
    Unfetchable = {1}
    Backlog = {1, 2}
    Ticks = {1, 2}
    MaxBatch = 2
    MaxRun = 3
    MaxFaults = 1
INVARIANTS MarkedWasTaken
PROPERTIES  PartiesArrive
