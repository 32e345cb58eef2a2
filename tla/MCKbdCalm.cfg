SPECIFICATION Spec
CONSTANTS
    NoAddr = NoAddr
    Addr = {a1, a2}
    DiscoveryOps <- MCDiscoveryOps
    ListenerOps <- MCListenerOps
    EvqLen = 2
    CmdLen = 2
    MaxScan = 2
    SelectWhen = "anytime"
    Faults = {"peer_error"}
SYMMETRY MCSymmetry
INVARIANTS SignalsInSync ReconnectHasNoLink
PROPERTIES KeepsPromise
\* kbd_main_task may hang inside a call of the HIDH layer.
CHECK_DEADLOCK FALSE
