\* Two goroutines, and no tick before the clock stops: no cleanup.
SPECIFICATION Spec
CONSTANTS
    Keys = {k1}
    Callers = {c1, c2}
    Cooldown = 1
    Interval = 5
    MaxTime = 3
    Absent = Absent
PROPERTIES
    OneActionPerCooldown
