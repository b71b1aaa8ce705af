CONSTANTS
    MaxSeq = 1
    Handles <- MCHandles
    Declared <- MCDeclared
    MaxFrames = 2
    Durations <- MCDurations
    Malformed = Malformed
    None = None
SPECIFICATION FairSpec
INVARIANTS
    TotalsAgree
PROPERTIES
    DecoderSettles
    DownloadedIsReported
    DataMutexIsReleased
