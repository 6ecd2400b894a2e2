CONSTANTS
    main = main
    unknown = unknown
    drv = drv
    fb = fb
    screen = screen
    half = half
    Locks = {main, unknown, drv}
    IdleLocks = {}
    main_wake_lock = main
    unknown_wakeup = unknown
    UserLocks = {}
    MaxTimeout = 1
    UnknownTimeout = 1
    DestroyHeld = FALSE
    Handlers = {fb, screen, half}
    Level <- MCLevel
    SuspendHooks = {fb, screen, half}
    ResumeHooks = {fb, screen}
SPECIFICATION ESFairSpec
INVARIANTS
    ESTypeOK
    LevelOrder
    HandlersMatchState
    ScreenOffBeforeSleep
PROPERTIES
    ImplementsWakeLock
    ScreenComesOn
    ScreenGoesOff
