SPECIFICATION FairSpec
CONSTANTS
    Topics = {t1, t2}
    Streams = {w1}
    Queries = {q1}
    MaxFaults = 3
INVARIANTS RegistryAgreement BrokerServesOwners EventConverges
PROPERTIES OwnersDecide OwnedTopicServed
