CONSTANTS
    main = main
    unknown = unknown
    lockA = lockA
    idl = idl
    Locks = {main, unknown, lockA, idl}
    IdleLocks = {idl}
    main_wake_lock = main
    unknown_wakeup = unknown
    MaxTimeout = 2
SPECIFICATION Spec
INVARIANTS
    TypeOK
    ListsMatchFlags
    PermanentFirst
PROPERTY ImplementsSet
