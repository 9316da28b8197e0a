\* One operation at a time over two keys: the limiter is atomic.
SPECIFICATION SerialSpec
CONSTANTS
    Keys = {k1, k2}
    Callers = {c1}
    Cooldown = 2
    Interval = 2
    MaxTime = 6
    Absent = Absent
PROPERTY
    ImplementsAtomicCooldown
