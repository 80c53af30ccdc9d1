SPECIFICATION MCSpec
CONSTANTS
    Targets = {"linux", "mac"}
    Required = {"linux", "mac"}
    Names = {"wheel", "image"}
    Declared = {"wheel"}
    MaxAttempts = 2
    Digests = {1, 2, 3, 4, 5, 6, 7, 8, 9, 10, 11}
    Content <- MCContent
    Size <- MCSize
    Archives <- MCArchives
    Platforms = {1, 2}
    MaxDepth = 2
    MaxVisited = 4
    MaxRootfs = 3
    Files = {"a", "b"}
    Fields = {"version", "build"}
    Declarations <- MCDeclarations
    Stranger = 9
    MaxEdits = 2
    MaxKills = 2
    Operators = {"a", "b"}
    MaxVersion = 3
    MaxCommits = 5
    MaxOperatorKills = 1
    AttemptSpan = 3
    PepLimit = 7
    Centi = 2
    AppleMajor = 3
    MaxBuild = 14
    MaxRun = 2
    MaxAttempt = 4
    MaxPlans = 3
    FenceAfterComment = FALSE
    CommentOnHeading = FALSE
INVARIANTS
    AcceptedIsAttested
    OutputIsClosed
    NotesAreReadable
    BuildsAscend
PROPERTIES
    OutputIsVerified
    SyncIsSafe
    TopicNeverRegresses
CHECK_DEADLOCK FALSE
