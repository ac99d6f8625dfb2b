SPECIFICATION FairSpec
CONSTANTS
    MaxCand = 3
    MaxLaunch = 2
    MaxEvents = 1
INVARIANTS
    EvidenceIsSound
    RecoveryHasEvidence
    AuthorityIsExclusive
PROPERTIES
    FenceCompletes
    RenewsLapsedRow
