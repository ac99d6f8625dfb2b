SPECIFICATION QueuesSpec
CONSTANTS
    None = None
    a = a
    b = b
    g1 = g1
    Key = {k1, k2}
    Recipient = {a, b}
    Sender = {s1}
    Bridge = {g1}
    RoleOf <- OwnRole
    Roundtrip = {t}
    MaxLoss = 1
    w1 = w1
    w2 = w2
    d1 = d1
    d2 = d2
    Row = {r1, r2}
    Window = {w1, w2}
    Drain = {d1, d2}
    Malformed = Malformed
    MaxLen = 2
    MaxRotate = 1
    MaxCrash = 0
    MaxThrow = 1
    MaxTear = 1
INVARIANTS
    QueuesAreSound
PROPERTIES
    DeliveredOnceInOrder
    ConsumedOrAbandoned
    EveryWindowSeesEveryRow
