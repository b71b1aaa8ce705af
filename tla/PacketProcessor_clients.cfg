CONSTANTS
    IPs = {here, peer}
    Local = {here}
    Lengths <- MCLengths
    HeaderLength = 20
    MaxPackets = 1
    None = None
SPECIFICATION Spec
INVARIANTS
    ClientsAreRemote
