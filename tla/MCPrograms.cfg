SPECIFICATION Spec
CONSTANTS
    Testers = {t1, t2}
    PoolSize = 4
    MaxSent = 4
    NoQueue = NoQueue
    Stops = TRUE
    Fails = TRUE
    App = app
    Kinds = {1, 2}
    OutSize = 15
    MaxSeq = 5
    MaxRequests = 12
    Skips = {1, 2}
    Cuts = TRUE
    Garbled = {0, 16}
    Faults = {"recv", "short", "send"}
    Teeth = {3, 4, 6, 12}
    Half = 128
    Starts = {100, 1000}
    FrameTimes = {1, 3, 51}
    MaxUptime = 127
    FullTurn = 4
    Sin <- QuarterSin
    Cos <- QuarterCos
    Turns = {0, 1}
INVARIANTS TestersServed ResultsMatch MeshSound TimeKept GearsInPlace
CHECK_DEADLOCK FALSE
