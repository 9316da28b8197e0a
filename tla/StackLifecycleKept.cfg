\* One instance is enough: the flag alone decides.
SPECIFICATION Spec
CONSTANTS
    Instances = {a}
    MaxCleanups = 1
INVARIANTS
    CleanupTerminatesAll
