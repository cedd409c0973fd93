CONSTANTS
    Clients = {c1, c2}
    Fds = {1, 2}
    Kinds = {"mult", "crc32", "short", "badlen", "unknown", "empty"}
    MaxReqs = 1
    SockCap = 1
    None = None
    NumBufs = 2
    NoAnswer = NoAnswer
    DspFaults = FALSE
    MaxErrs = 0
    GppFaults = FALSE
SPECIFICATION FairSpec
PROPERTIES
    RequestsAnswered
    SignalStops
    ClosedIsReleased
