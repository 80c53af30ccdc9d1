SPECIFICATION MCSpec
CONSTANTS
    Candidates = {"c1", "c2", "c3"}
    Promotions = {"p1"}
    MaxAttempts = 2
    Files = {"wheel", "image"}
    Bytes = {1, 2}
    Good = 1
    MaxForeign = 3
    Commits = {1, 2, 3, 4}
    Branches = {"main", "other"}
    Source = 1
    Main = "main"
    Ancestors <- MCAncestors
    Tree <- MCTree
    MaxChanges = 3
    Images <- MCImages
    Publishers = {1, 2, 3}
    StableRelease <- MCStableRelease
    Stranger = 9
    MaxStrange = 1
INVARIANTS
    LedgerConsistent
    PublishedOnce
    AcceptedIsEvidence
    
PROPERTIES
    NoDowngrade
    SourceIsCurrent
    LatestIsComplete
CHECK_DEADLOCK FALSE
