CONSTANTS
    d1 = d1
    d2 = d2
    Digits = {d1, d2}
    Other = Other
    NewLine = NewLine
    Lines <- MCLines
    BufferSize = 6
    PacketSize = 2
    MaxLines = 3
    TapQueue = 2
SPECIFICATION FairSpec
INVARIANTS
    TypeOK
    InBounds
    SentIsALine
PROPERTIES
    LinesGetThrough
    ReadsOn
CHECK_DEADLOCK FALSE
