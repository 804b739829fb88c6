SPECIFICATION Spec
CONSTANTS
    Keys = {1, 2}
    Readers = {"x", "y"}
    Links = {1, 2}
    VersionOf <- MCVersionOf
    LinkVersion <- MCLinkVersion
    Slots <- MCSlots
    MaxQueued = 1
    EvictsMidFlight = FALSE
    MaxSeq = 2
INVARIANTS ComputedOnce 
PROPERTIES  SlotsComeBack
CHECK_DEADLOCK FALSE
