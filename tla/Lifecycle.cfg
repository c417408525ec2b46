SPECIFICATION FairSpec
CONSTANTS
    Serves = {TRUE, FALSE}
    MaxConns = 2
INVARIANTS LifecycleTypeOK OnlySignalStopsAreCut ServedOnlyToTheEnd
PROPERTIES DatabaseClosedLast SignalEnds ImplementsLife
