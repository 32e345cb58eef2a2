SPECIFICATION Spec
CONSTANTS
    Peers <- MCPeers
    MaxServices = 6
    MaxChars = 6
    MaxDescrs = 4
    MaxOpens = 2
    Faults = {}
INVARIANTS TablesFit
