SPECIFICATION Spec
CONSTANTS
    r1 = r1
    m1 = m1
    m2 = m2
    m3 = m3
    p1 = p1
    p2 = p2
    Readers <- MCReaders
    Makers <- MCMakers
    Sources <- MCSources
    None = None
SYMMETRY Symmetric
INVARIANTS
    SelectedIsBound
    PairIsWhole
    OnlyUnlinkFails
CHECK_DEADLOCK FALSE
