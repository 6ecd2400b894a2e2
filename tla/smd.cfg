CONSTANTS
    Size = 4
    Header = 2
    Lens = {1, 2}
    MaxIn = 2
    MaxOut = 2
    Orderly = TRUE
SPECIFICATION FairSpec
INVARIANTS
    TypeOK
    NoBug
    StreamsIntact
PROPERTIES
    PacketsArrive
    CloseCompletes
