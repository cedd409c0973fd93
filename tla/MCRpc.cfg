CONSTANTS
    Clients = {c1, c2}
    Fds = {1, 2}
    Kinds = {"mult", "badlen"}
    MaxReqs = 2
    SockCap = 1
    None = None
    NumBufs = 2
    NoAnswer = NoAnswer
    DspFaults = FALSE
    MaxErrs = 0
    GppFaults = FALSE
SYMMETRY Symmetry
SPECIFICATION Spec
INVARIANTS
    DspLeavesNothing
PROPERTIES
    KeepsGoodClients
    ImplementsRpc
