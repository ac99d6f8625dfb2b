SPECIFICATION Spec
SYMMETRY Symmetry
CONSTANTS
    Row = {r1, r2, r3, r4}
    Bun = {b1}
    Relay = {y1}
    Torn = Torn
    Newline = Newline
    None = None
    MaxFault = 0
    MaxSync = 0
CHECK_DEADLOCK FALSE
INVARIANT FailedMeansNotDelivered
