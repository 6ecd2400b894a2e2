CONSTANTS
    Size = 8
    Header = 2
    Lens = {1, 2}
    MaxIn = 0
    MaxOut = 1
    Orderly = FALSE
SPECIFICATION Spec
PROPERTY NeverPartial
CHECK_DEADLOCK FALSE
