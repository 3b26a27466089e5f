SPECIFICATION HostedFairSpec
CONSTANTS
    MaxSignals = 3
    Requests = {r1, r2}
INVARIANTS
    AbandonedIsReported
    HandlersRestored
    NothingLeftOpen
    ClosedAdmitsNobody
    NobodyWaitsInVain
PROPERTIES
    MainNeverTurnsBack
    QueuedIsServed
    CancellationEnds
CHECK_DEADLOCK FALSE
