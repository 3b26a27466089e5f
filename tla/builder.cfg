SPECIFICATION BuilderSpec
CONSTANTS
    Invocations = {i1, i2, i3}
    Plans = {p1, p2}
    Nothing = Nothing
SYMMETRY BuilderSymmetry
INVARIANTS
    ReturnedIsValidated
    StagingRemoved
    OnlyTwinsCollide
CHECK_DEADLOCK FALSE
