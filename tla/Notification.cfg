SPECIFICATION LiveSpec
CONSTANTS
    N = 4
    Source <- OneImport
    Local = {1, 2}
    MaxRoom = 2
INVARIANTS
    OneReport
    NoReportOfReport
PROPERTIES
    ReportsHappen
