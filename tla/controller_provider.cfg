SPECIFICATION Spec
CONSTANTS
    MaxSignals = 2
INVARIANTS
    ProviderOutlivesController
CHECK_DEADLOCK FALSE
