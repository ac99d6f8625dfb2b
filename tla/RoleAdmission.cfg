SPECIFICATION FairSpec
CONSTANTS
    MaxCand = 3
    MaxLaunch = 3
    MaxEvents = 1
INVARIANTS
    EvidenceIsSound
    OneServes
PROPERTIES
    FencesOnlyLost
    FenceCompletes
    LapsedRowRecovers
