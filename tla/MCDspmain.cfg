CONSTANTS
    Clients = {c1, c2}
    Fds = {1, 2}
    Kinds = {"mult"}
    MaxReqs = 2
    SockCap = 1
    None = None
    NumBufs = 2
    NoAnswer = NoAnswer
    DspFaults = TRUE
    MaxErrs = 1
    GppFaults = TRUE
SYMMETRY Symmetry
SPECIFICATION Spec
INVARIANTS
    TypeOK
    BuffersConserved
    CountMatches
    NeverWaitsForNothing
    NeverBlocksInRecv
    PeersDistinct
    RepliesAreAnswers
