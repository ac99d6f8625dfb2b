SPECIFICATION FairSpec
CONSTANTS
    MaxCand = 2
    MaxLaunch = 2
    MaxEvents = 1
PROPERTIES
    TickFencesOnlyLost
