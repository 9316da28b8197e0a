\* One request is enough.
SPECIFICATION Spec
CONSTANTS
    Requests = {r1}
    Sentinels = {ErrShared}
    AppCodes = {"TAKEN"}
    Made <- MCMade
    Registry <- MCRegistry
    Second = 1
    Expiry = 1
    MaxTime = 1
    MaxCalls = 3
INVARIANTS
    SuccessIsNoError
