SPECIFICATION StoresSpec
SYMMETRY Symmetry
CONSTANTS
    None = None
    w1 = w1
    w2 = w2
    d1 = d1
    d2 = d2
    d3 = d3
    Row = {r1, r2}
    Window = {w1, w2}
    Drain = {d1, d2, d3}
    OwnerOf <- Overlapping
    Malformed = Malformed
    MaxLen = 2
    MaxRotate = 0
    MaxCrash = 1
    MaxThrow = 1
    MaxTear = 1
    SendRow = {m1, m2, m3}
    Bun = {b1, b2}
    Python = {y1, y2}
    Torn = Torn
    Newline = Newline
    MaxFault = 2
    MaxSync = 1
    Role = {cos, ccto}
    Setter = {s1, s2}
    Relay = {g1}
    TTL = 1
    MaxSet = 2
    MaxUnread = 1
    MaxClock = 1
    Operator = {o1, o2}
    ScribePackage = {p1, p2}
    RolePackage = {p3}
    MaxFaults = 1
    MaxCommands = 3
INVARIANTS
    StoresTypeOK
    InboxIsSound
    MirrorIsTrue
    PointersAreSound
PROPERTIES
    SendsAreTrue
    VerifiedBeforeUse
