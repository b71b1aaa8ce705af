CONSTANTS
    Contents <- MCContents
    MaxPackets = 4
    MaxFailures = 2
    MaxReadErrors = 0
SPECIFICATION Spec
INVARIANTS
    GivenPacketIsDecoded
