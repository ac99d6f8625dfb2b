SPECIFICATION FairSpec
CONSTANT MaxFaults = 2
CHECK_DEADLOCK FALSE
INVARIANT TypeOK
INVARIANT TerminalMeansStopped
INVARIANT RunningIsRecorded
INVARIANT CompletedMeansExited
PROPERTY CommandStops
PROPERTY CommandReturns
