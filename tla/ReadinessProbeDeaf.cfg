\* A Pinger that ignores its context, in front of a dependency that hangs.
SPECIFICATION Spec
CONSTANTS
    Checks = {kafka, postgres}
    Nobody = Nobody
PROPERTIES
    AnsweredAtDeadline
