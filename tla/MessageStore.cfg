SPECIFICATION LiveSpec
CONSTANTS
    Ids = {1, 2, 3}
    OpOf <- ReplayedOp
    Slots = 2
INVARIANTS
    CommittedDurable
    ReplyHonest
    ReservationCovers
    AuditHonest
PROPERTIES
    ReservationReturns
