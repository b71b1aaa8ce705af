CONSTANTS
    Bits = 3
    Chunks <- MCChunks
    Numbers <- MCNumbers
    Sizes = {0, 1, 2, 3}
    ChunkSize = 1
    Factor = 1
    NotWritten = NotWritten
    MaxLength = 3
    Received <- MCReceived
    Mtu = 28
    MacLength = 2
    IPv4Length = 1
    IPv6Length = 2
    IPv4 <- MCIPv4
    IPv6 <- MCIPv6
    ARP <- MCARP
    REQUEST <- MCREQUEST
    REPLY <- MCREPLY
    Broadcast <- MCBroadcast
    mac <- MCmac
    local_ip <- MClocal_ip
SPECIFICATION PacketSpec
INVARIANTS
    PacketTypeOK
    NumbersReadBack
    ReplyIsExact
    GoodFramesSurvive
PROPERTIES
    ImplementsByteFile
