SPECIFICATION FairSpec
CONSTANTS
    Procs <- MCProcs
    Captures <- MCCaptures
    Keep = 1
    Clock <- MCClock
    Times <- MCTimes
    Ops = {"promote", "remove", "import"}
    MaxCrashes = 1
    NoProc = NoProc
    NoCapture = NoCapture
ACTION_CONSTRAINT StartInOrder
INVARIANTS
    SerializedUntilUnlink
    CurrentIsNewest
PROPERTIES
    ImplementsLog
    ImplementsStores
    EveryOperationEnds
CHECK_DEADLOCK FALSE
