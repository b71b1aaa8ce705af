CONSTANTS
    Producers = {p1, p2, p3}
    Consumers = {c1, c2}
    Items = {i1, i2}
    maxSize = 2
    NoItem = NoItem
SPECIFICATION FairSpec
INVARIANTS
    TypeOK
    NoLostWakeup
PROPERTIES
    ImplementsFifo
    ItemsFlow
