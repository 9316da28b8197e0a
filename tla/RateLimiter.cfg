\* Two goroutines, Reset and the cleanup on one key, in every interleaving.
\* MaxTime = 4 leaves two ticks, and room for two windows after the first.
SPECIFICATION Spec
CONSTANTS
    Keys = {k1}
    Callers = {c1, c2}
    Cooldown = 1
    Interval = 2
    MaxTime = 4
    Absent = Absent
INVARIANTS
    TypeOK
    StoreKeepsPromises
PROPERTIES
    SpacedUnlessRaced
    DenialIsOwed
    OnlyGrantsExtend
    ExpiredAreEvicted
