CONSTANTS
    w1 = w1
    w2 = w2
    r1 = r1
    r2 = r2
    Writers = {w1, w2}
    Readers = {r1}
    Size = 8
    Header = 2
    Lengths = {3, 4}
    MaxWrites = 3
    Faults = "any"
SPECIFICATION Spec
INVARIANT LogIntact
