SPECIFICATION FairSpec
CONSTANTS
    Images <- MCImages
    BufBytes = 8
    Word = 64
    CountMod = 16
    EdmaFaults = {"request", "link", "miss"}
INVARIANTS RepliesWhole TransfersFit BuffersApart LeavesClean
PROPERTY Returns
