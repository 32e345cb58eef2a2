SPECIFICATION Spec
CONSTANTS
    Devices = {d1, d2, d3}
    MaxDevs = 2
    MaxCmds = 4
    Keys = {a, b, c}
    ReportKeys = 2
    MaxReports = 2
    MaxWork = 4
SYMMETRY SymmetrySet
INVARIANTS
    SelectionIsMeant
