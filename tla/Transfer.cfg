SPECIFICATION Spec
CONSTANTS
    Limit = 4
    MaxHeader = 13
    MaxMessage = 20
    Inputs <- InputSet
    Queued <- QueueSet
    Raws <- RawSet
INVARIANTS ContentIntact ReceivedAsSent ChecksAgree OneAuthor InOrder StatusTrue
CHECK_DEADLOCK FALSE
