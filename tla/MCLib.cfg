SPECIFICATION FairSpec
CONSTANTS
    App = app
    Kinds = {1, 2}
    Answer <- MCAnswer
    OutSize = 13
    MaxSeq = 9
    MaxRequests = 5
    Skips = {1}
    Garbled = {0, 16}
    Faults = {"recv", "short", "send"}
    Cuts = TRUE
INVARIANTS FailsOnlyWhenCut NothingLost ResultsRight
PROPERTY CallsReturn
