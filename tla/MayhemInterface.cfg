CONSTANTS
    Nodes = {n1, n2, n3}
    Hosts = {h1}
    Broadcast = Broadcast
    Nobody = Nobody
    Interval = 3
    MaxDelay = 1
    QueueLen = 3
    MaxSent = 2
SPECIFICATION FairSpec
INVARIANTS
    TypeOK
PROPERTIES
    LoopBackIsIgnored
    StormEnds
    RequestsAreAnswered
