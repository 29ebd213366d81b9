SPECIFICATION Spec
CONSTANTS
    a1 = a1
    a2 = a2
    c1 = c1
    c2 = c2
    c3 = c3
    Accounts = {a1, a2}
    Credentials = {c1}
    AccountOf <- TwoAccounts
    ScopeOf <- SecondReads
    Sessions = {s1}
    MaxEpoch = 3
INVARIANTS OldSessionsNotified
