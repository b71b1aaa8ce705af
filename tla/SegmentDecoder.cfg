CONSTANTS
    Contents <- MCContents
    MaxPackets = 7
    MaxFailures = 2
    MaxReadErrors = 2
SPECIFICATION Spec
INVARIANTS
    TypeOK
    GivenPacketsAreLost
    EndsForAReason
PROPERTIES
    ImplementsLifecycle
    Settles
