SPECIFICATION ClockSpec
CONSTANTS
    Drift = 1
    Life = 2
    MaxWall = 6
    MaxMono = 3
PROPERTIES
    ExpiryTrusted
    ReportNotPostponed
