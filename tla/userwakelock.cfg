CONSTANTS
    main = main
    unknown = unknown
    Locks <- MCLocks
    IdleLocks = {}
    main_wake_lock = main
    unknown_wakeup = unknown
    MaxTimeout = 3
    Names <- MCNames
    U64 = 64
    LONG = 8
    JiffyNs = 2
    Timeouts <- ShortTimeouts
    NoMemory = TRUE
SPECIFICATION Spec
INVARIANTS
    TypeOK
    LookupFinds
    TimeoutHonoured
