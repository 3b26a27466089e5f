SPECIFICATION Spec
CONSTANTS
    Units = {u1, u2, u3}
    PoolSize = 2
    MaxInterrupts = 2
SYMMETRY UnitSymmetry
INVARIANTS
    TreesRemoved
    RemovedAfterCopy
    EvictedWhenPrepared
    ActivatedIsPublished
CHECK_DEADLOCK FALSE
