SPECIFICATION FairLinkSpec
CONSTANTS
    NoAddr = NoAddr
    Addr = {a1, a2}
    DiscoveryOps <- MCDiscoveryOps
    ListenerOps <- MCListenerOps
    EvqLen = 2
    Faults = {"early_drop", "peer_error"}
INVARIANTS TypeOK NoStaleWake NoStaleSecurity NoUseAfterFree LinkKnown
PROPERTIES HostGetsOut CallReturns
\* The caller may hang for ever, waiting for an answer that does not come.
CHECK_DEADLOCK FALSE
