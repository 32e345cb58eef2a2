SPECIFICATION FairSpec
CONSTANTS
    NoAddr = NoAddr
    Addr = {a1}
    DiscoveryOps <- MCDiscoveryOps
    ListenerOps <- MCListenerOps
    EvqLen = 2
    CmdLen = 2
    MaxScan = 2
    SelectWhen = "callback"
    Faults = {}
PROPERTIES StartPairingHonoured LostIsReconnected
