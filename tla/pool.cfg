\* Three requests for two connections, one of which the pool keeps, and one outage.
SPECIFICATION OrderedSpec
CONSTANTS
    Requests = {1, 2, 3}
    PoolSize = 1
    Overflow = 1
    MaxOutages = 1
    None = None
INVARIANTS
    TypeOK
    ConnectionsAccounted
    FailsOnlyInAnOutage
PROPERTIES
    ServedUnlessSendsHoldAll
