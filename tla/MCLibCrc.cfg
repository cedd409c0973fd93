SPECIFICATION FairSpec
CONSTANTS
    App = app
    Kinds = {1, 2}
    Answer <- MCAnswer
    OutSize = 13
    MaxSeq = 9
    MaxRequests = 4
    Skips = {1, 2}
    Garbled = {0, 16}
    Faults = {}
    Cuts = FALSE
PROPERTY CrcTakesCrcReplies
