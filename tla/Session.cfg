SPECIFICATION SessionSpec
CONSTANTS
    alice = alice
    own = own
    other = other
    Locals = {l1, l2}
    Remotes = {r1}
    MaxRecipients = 2
    Principals = {alice}
    Senders = {own, other}
    SenderRights <- OwnAddress
    MaxAttempts = 2
    MaxPipeline = 2
    MaxMail = 3
INVARIANTS NothingCarried EnvelopeFresh EnvelopeAuthorised
CHECK_DEADLOCK FALSE
