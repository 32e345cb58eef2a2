SPECIFICATION Spec
CONSTANTS
    NoAddr = NoAddr
    Addr = {a1, a2}
    DiscoveryOps <- MCShortDiscovery
    ListenerOps <- MCListenerOps
    EvqLen = 1
    CmdLen = 1
    MaxScan = 2
    SelectWhen = "scanning"
    Faults = {"early_drop", "peer_error", "slow_close", "late_event"}
SYMMETRY MCSymmetry
INVARIANTS KbdTypeOK SelectedInRange ScanLoopScans HidhDevAlive
PROPERTIES LinkSpec
\* kbd_main_task may hang inside a call of the HIDH layer.
CHECK_DEADLOCK FALSE
