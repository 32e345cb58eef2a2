SPECIFICATION Spec
CONSTANTS
    NoAddr = NoAddr
    Addr = {a1}
    DiscoveryOps <- MCDiscoveryOps
    ListenerOps <- MCListenerOps
    EvqLen = 2
    CmdLen = 1
    MaxScan = 2
    SelectWhen = "callback"
    Faults = {"early_drop"}
INVARIANTS ConnectedIsUsable
\* kbd_main_task may hang inside a call of the HIDH layer.
CHECK_DEADLOCK FALSE
