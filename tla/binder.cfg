CONSTANTS
    p1 = p1
    p2 = p2
    t1 = t1
    t2 = t2
    Clients = {p1, p2}
    Threads = {t1, t2}
    MaxUser = 1
    MaxBuffers = 2
    MaxRead = 1
    Steals = FALSE
SPECIFICATION FairSpec
INVARIANTS
    TypeOK
    
    
    DeathTold
PROPERTY ReleaseReaches
