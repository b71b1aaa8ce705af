CONSTANTS
    Nodes = {n1, n2}
    Hosts = {h1}
    Broadcast = Broadcast
    Nobody = Nobody
    Interval = 2
    MaxDelay = 1
    QueueLen = 4
    MaxSent = 2
SPECIFICATION Spec
INVARIANTS
    ReplyNamesItsSender
