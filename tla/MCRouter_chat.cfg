CONSTANTS
    MaxMsgs = 3
    MaxNews = 1
    MaxLanes = 2
    Capacity = 1
    Merges = TRUE
    Beside = FALSE
SPECIFICATION FairSpec
INVARIANTS OneAgent NothingLost QueueCounted
PROPERTIES DroppedAreTold IsAMailbox
CHECK_DEADLOCK FALSE
