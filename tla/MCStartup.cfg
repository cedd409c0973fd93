SPECIFICATION FairSpec
CONSTANTS
    s1 = s1
    s2 = s2
    Servers = {s1, s2}
    None = None
    Modes = {"daemon", "forground", "help"}
    Faults <- MCFaults
INVARIANTS LeavesNothing
PROPERTIES StepsInTurn Exits
CHECK_DEADLOCK FALSE
