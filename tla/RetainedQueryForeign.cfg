SPECIFICATION QuerySpec
CONSTANTS
    Queries = {"q1", "q2"}
    Topics = {"a"}
    Binary = {}
    QueueSize = 2
    MaxValues = 2
    MaxWire = 2
    MaxDrops = 0
INVARIANTS
    IndependentAnswers
CHECK_DEADLOCK FALSE
