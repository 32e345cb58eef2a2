SPECIFICATION Spec
CONSTANTS
    Peers <- MCPeers
    MaxServices = 6
    MaxChars = 6
    MaxDescrs = 4
    MaxOpens = 1
    Faults = {"peer_error", "no_start"}
INVARIANTS DiscoveryTypeOK BuffersOwned ReportsExact EveryKeyArrives
\* A read that is answered with an error and a procedure that is not started
\* leave K in WAIT_CB.
CHECK_DEADLOCK FALSE
