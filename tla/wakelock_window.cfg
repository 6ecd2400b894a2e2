CONSTANTS
    main = main
    unknown = unknown
    drv = drv
    usr = usr
    idl = idl
    Locks = {main, unknown, drv, usr}
    IdleLocks = {}
    main_wake_lock = main
    unknown_wakeup = unknown
    UserLocks = {usr}
    MaxTimeout = 2
    UnknownTimeout = 1
    DestroyHeld = FALSE
SPECIFICATION Spec
INVARIANT SleepRespectsLocks
