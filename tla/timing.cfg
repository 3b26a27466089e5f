SPECIFICATION FairSpec
CONSTANTS
    s1 = s1
    s2 = s2
    c1 = c1
    Spans <- MCSpans
    Shown <- MCShown
    Clocks <- MCClocks
    None = None
    MaxEvents = 6
    MaxRecords = 7
    Lead = 1
INVARIANTS
    ParentsFormForest
    CompletedIsClosed
    OpenedStreamKept
    UsableMeansWhole
PROPERTIES
    ReaderRunsOut
    StopEndsReader
CHECK_DEADLOCK FALSE
