SPECIFICATION FairSpec
CONSTANTS
    A = A
    B = B
    Relay = {A, B}
    Conn = {c1, c2, c3}
    Seed <- SeedDef
    SeedAddress <- SeedAddressDef
    MaxFaults = 1
    MaxAdds = 1
    MaxRemovals = 1
    MaxTimers = 2
    MaxBadWrites = 1
CHECK_DEADLOCK FALSE
INVARIANTS
    TypeOK
    TablesAreTrue
    TheDiallerKeepsDialling
    KeptOverRestart
PROPERTIES
    OneSidedGetLinked
