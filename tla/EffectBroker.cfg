SPECIFICATION FairSpec
CONSTANTS
    p1 = p1
    v1 = v1
    v2 = v2
    Effect = {e1, e2}
    Client = {c1, c2}
    Recovery = recovery
    Path = {p1}
    Value = {v1, v2}
    Request <- SamePathRequests
    Absent = Absent
    Directory = Directory
    None = None
    Outside = Outside
    BranchCell = BranchCell
    MaxCrash = 2
    MaxLapse = 1
    MaxRaise = 1
    MaxExternal = 0
INVARIANTS
    TypeOK
    AtMostOneUnresolved
    RecordsAreTrue
    AtMostOneLateMutation
PROPERTIES
    JournalMovesForward
    ImplementsPromise
    RecoveryCompletes
    EveryCallReturns
