SPECIFICATION MCSpec
CONSTANTS
    Words <- MCWords
    SystemWords <- MCSystemWords
    Partial <- MCPartial
    Unencodable <- MCUnencodable
    RuleSets <- MCRuleSets
    Requests <- MCRequests
    MaxTopics = 1
    Queries = {"q1", "q2"}
    Topics = {"a", "b"}
    Binary = {2}
    QueueSize = 2
    MaxValues = 2
    MaxWire = 2
    MaxDrops = 1
    HeardTopics = {"a", "b", "c", "d"}
    Allowed = {"a", "b", "c"}
    MaxStatistics = 2
    MaxMessages = 8
INVARIANTS
    ForwardsOnlyAllowed
    OverlapExact
    QueriesAreServed
    KeepsMostRecent
CHECK_DEADLOCK FALSE
