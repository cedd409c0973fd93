CONSTANTS
    Clients = {c1, c2}
    Fds = {1}
    Kinds = {"mult", "short"}
    MaxReqs = 2
    SockCap = 1
    None = None
    NumBufs = 2
    NoAnswer = NoAnswer
    DspFaults = FALSE
    MaxErrs = 0
    GppFaults = FALSE
SPECIFICATION FairSpec
PROPERTIES
    RequestsAnswered
    ClosedIsReleased
