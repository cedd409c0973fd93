SPECIFICATION Spec
CONSTANTS
    Addrs = {a1, a2, a3, a4, a5}
    NULL = NULL
    MaxIds = 4
    MaxReplies = 3
SYMMETRY Symmetry
INVARIANTS ListsRight
PROPERTIES ImplementsPeerSeq
CHECK_DEADLOCK FALSE
