SPECIFICATION Spec
CONSTANTS
    Candidates = {"c1"}
    Promotions = {}
    MaxAttempts = 2
INVARIANTS
    MissingMeansLost
CHECK_DEADLOCK FALSE
