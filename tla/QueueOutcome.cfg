SPECIFICATION Spec
CONSTANTS
    Deliveries = {1}
    DomainOf <- OneDomain
    Concurrency = 2
    PerDomain = 2
    Batch = 1
    MaxCounter = 3
INVARIANTS
    NoSilentDuplicate
    SingleOwner
    QueueIntegrity
PROPERTIES
    TerminalRowsFrozen
    KeepsPromise
