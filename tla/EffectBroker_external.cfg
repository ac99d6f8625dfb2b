SPECIFICATION Spec
CONSTANTS
    p1 = p1
    v1 = v1
    v2 = v2
    Effect = {e1, e2}
    Client = {c1}
    Recovery = recovery
    Path = {p1}
    Value = {v1, v2}
    Request <- MechanismRequests
    Absent = Absent
    Directory = Directory
    None = None
    Outside = Outside
    BranchCell = BranchCell
    MaxCrash = 1
    MaxLapse = 0
    MaxRaise = 1
    MaxExternal = 2
INVARIANTS
    AppliedAtMostOnce
PROPERTIES
    ReplacesOnlyItsPrestate
