CONSTANTS
    MaxMsgs = 2
    Capacity = 2
    MaxTroubles = 2
SPECIFICATION FairSpec
INVARIANTS AgainOnce NothingForgotten
PROPERTIES AskedAfterAChange PickedUp
CHECK_DEADLOCK FALSE
