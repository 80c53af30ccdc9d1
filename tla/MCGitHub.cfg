SPECIFICATION MCSpec
CONSTANTS
    Files <- MCFiles
    Ids <- MCIds
    MaxForeign = 3
    ReadAttempts = 3
    Pages = 2
    MaxChanges = 1
    PageSize = 2
    MaxCalls = 7
    MaxReleases = 6
    MaxInitial = 4
    MaxDeletes = 3
    RunAttempts = 3
    Deadline = 5
    Poll = 2
INVARIANTS
    OneOwnDraft
    AnswersAreSound
    AgreedIsComplete
    GateReallyPassed
PROPERTIES
    PublicIsExact
    WaitsEnd
CHECK_DEADLOCK FALSE
