SPECIFICATION Spec
CONSTANTS
    Devices <- MCDevices
    MaxReports = 6
    MaxParsed = 2
    Faults = {"no_memory"}
INVARIANTS ParserTypeOK ParsedExact MatchedExact ReportsAreFound
