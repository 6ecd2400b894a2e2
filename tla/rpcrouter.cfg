CONSTANTS
    c1 = c1
    c2 = c2
    srv = srv
    Clients = {c1}
    Server = srv
    RPCROUTER_DEFAULT_RX_QUOTA = 2
    RPCROUTER_PEND_REPLIES_MAX = 1
    Room = 2
    Xids = {1, 2}
    Calm = TRUE
SPECIFICATION FairSpec
INVARIANTS
    TypeOK
    NotifiedOnce
    ConfirmOnItsWay
    QuotaBounds
    AwakeWhileOwed
 
