CONSTANTS
    MaxSeq = 2
    Handles <- MCHandles
    Declared <- MCDeclared
    MaxFrames = 2
    Durations = {}
    Malformed = Malformed
    None = None
SPECIFICATION Spec
INVARIANTS
    TypeOK
    SequenceOrder
    DecoderOwnership
PROPERTIES
    ListedSegmentsAreFrozen
    ReportedIsFinal
    ReportedOnce
    RuntimeNeverDrops
    SegmentsImplementLifecycle
