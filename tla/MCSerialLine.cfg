SPECIFICATION FairSpec
CONSTANTS
    Sent <- MCSent
    Statuses <- MCStatuses
    MaxRx = 2
    MaxAsked = 2
CHECK_DEADLOCK FALSE
INVARIANTS
    InSync
PROPERTIES
    FeedRefinement
    PacketDelivered
