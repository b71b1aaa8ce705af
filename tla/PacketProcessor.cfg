CONSTANTS
    IPs = {here, peer, other}
    Local = {here}
    Lengths <- MCLengths
    HeaderLength = 20
    MaxPackets = 3
    None = None
SPECIFICATION FairSpec
INVARIANTS
    TypeOK
    TotalsAreClients
    BytesReportedOnce
    CrashNeedsFreshClient
PROPERTIES
    KeepsPrinting
