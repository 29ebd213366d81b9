SPECIFICATION ServerSpec
CONSTANTS
    Deliveries = {1, 2}
    DomainOf <- OneDomain
    Concurrency = 2
    PerDomain = 1
    Batch = 1
    MaxCounter = 2
INVARIANTS
    Inv
PROPERTIES
    LeasesResolve
