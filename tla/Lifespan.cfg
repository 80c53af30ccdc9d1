\* Six connection reports, so that the connection is made, lost and made again
\* during start-up and again during shutdown, and three cancellations.
SPECIFICATION FairSpec
CONSTANTS
    MaxReports = 6
    MaxCancels = 3
INVARIANTS
    EndedForGood
PROPERTIES
    LifespanEnds
CHECK_DEADLOCK FALSE
