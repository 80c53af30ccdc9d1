\* Two topics, so that the second acquisition can fail, and a queue of two.
SPECIFICATION FairSpec
CONSTANTS
    NumTopics = 2
    InboxSize = 2
INVARIANTS
    HeldUntilTheEnd
    ToldOnceAndLast
    OneLateFrame
PROPERTIES
    StreamEnds
CHECK_DEADLOCK FALSE
