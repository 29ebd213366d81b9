SPECIFICATION ScanSpec
CONSTANTS
    Rows = {1, 2, 3, 4}
    DomainOf <- LastApart
    Mortal = {3}
    Concurrency = 2
    PerDomain = 1
    Limit = 2
    Window = 2
INVARIANTS
    ScanSound
PROPERTIES
    DueRowsServed
    LateRowsSettle
