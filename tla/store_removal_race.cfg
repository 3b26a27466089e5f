SPECIFICATION Spec
CONSTANTS
    Procs <- MCProcs4
    Captures <- MCCaptures
    Keep = 1
    Clock <- MCClock1
    Times <- MCTimes
    Ops = {"promote", "remove", "import"}
    MaxCrashes = 0
    NoProc = NoProc
    NoCapture = NoCapture
ACTION_CONSTRAINT StartInOrder
INVARIANT PromotionSerialized
CHECK_DEADLOCK FALSE
