\* A single caller, so that only the cleanup can be in its way.
SPECIFICATION Spec
CONSTANTS
    Keys = {k1}
    Callers = {c1}
    Cooldown = 1
    Interval = 2
    MaxTime = 4
    Absent = Absent
PROPERTIES
    OneActionPerCooldown
