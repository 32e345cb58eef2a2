SPECIFICATION Spec
CONSTANTS
    Configs <- Some
    Conns = {c1, c2}
    QueueSize = 1
    MaxWork = 5
    Faults = {"no_memory", "no_room", "connect_failed"}
INVARIANTS
    HiddTypeOK InputReachesItsReport HostSafe LinkIsKnown
PROPERTIES
    ApplicationLearns
