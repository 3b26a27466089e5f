SPECIFICATION Spec
CONSTANTS
    w1 = w1
    w2 = w2
    w3 = w3
    x = x
    y = y
    z = z
    Descriptors <- MCDescriptors
    Workers <- MCWorkers
    Owners <- MCOwners
    Digests <- MCDigests
    Payloads <- MCPayloads
    Native <- MCNative
    Published <- MCPublished
    InPlace <- MCInPlace
    MaxReplaced = 3
    None = None
INVARIANTS
    StagedIsOneCapture
    RecoveryIsClean
CHECK_DEADLOCK FALSE
