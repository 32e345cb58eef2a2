SPECIFICATION Spec
CONSTANTS
    Bdas = {b1, b2}
    Slots = {s1, s2}
    Ops = {"get_report", "set_idle"}
    MaxEvents = 1
    MaxWork = 4
    MaxBacklog = 1
    Faults = {"lost_answer", "stack_error", "no_memory", "bad_map"}
INVARIANTS
    BtTypeOK CallbackMemorySafe DescriptorOfItsOwn OpenIsDescribed AnswerIsWhole
PROPERTIES
    EventsHandled TransactionEnds
