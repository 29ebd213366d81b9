SPECIFICATION Spec
CONSTANTS
    Accounts = {"ann", "bob"}
    NumAddresses = 3
    RelayAddresses = {"away"}
    AccountOf <- Home
    Operations = {k1, k2}
    Reports = {d1}
    Plans <- Requests
    Quotas = {2, 4}
    MaxUid = 3
    MaxEvent = 9
INVARIANTS MailboxesSound AllOrNothing AnswersTrue
