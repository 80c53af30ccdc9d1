SPECIFICATION Spec
CONSTANTS
    Topics = {t1}
    Streams = {}
    Queries = {}
    MaxFaults = 1
INVARIANTS NoAbandonedSubscription
