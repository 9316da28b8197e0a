\* Every mix of kinds and options of two instances, every step of which may fail.
SPECIFICATION Spec
CONSTANTS
    Instances = {a, b}
    MaxCleanups = 2
INVARIANTS
    TypeOK
    FailureLeavesNothing
    FailureKeepsForInspection
    ReturnedStackIsReady
    SilentCleanupIsComplete
PROPERTIES
    SetupInOrder
    EventuallyTornDown
