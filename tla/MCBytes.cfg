SPECIFICATION MCSpec
CONSTANTS
    CodeBytes = 2
    HeaderBytes = 4
    MaxMsgBytes = 9
    ReplyBytes = 3
    MultBytes = 2
    Crc32Bytes = 4
    Pdus <- MCPdus
    MaxPdus = 2
    WireCap = 5
    Uninit = Uninit
    Formats = {0, 1, 2, 3, 4}
    Images <- MCImages
    Stale <- MCStale
INVARIANTS ReadsWithin Framed RepliesRight
PROPERTIES Implements Served ImplementsBitCrc
CHECK_DEADLOCK FALSE
