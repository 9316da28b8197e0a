\* Two requests on any routes, which may share a package-level error. Expiry is
\* longer than a second and no whole number of seconds, so that the cut-off shows
\* at both ends of a token's life.
SPECIFICATION Spec
CONSTANTS
    Requests = {r1, r2}
    Sentinels = {ErrShared}
    AppCodes = {"TAKEN"}
    Made <- MCMade
    Registry <- MCRegistry
    Second = 2
    Expiry = 3
    MaxTime = 3
    MaxCalls = 4
SYMMETRY
    Symmetry
INVARIANTS
    TypeOK
    DetailsStayPrivate
    FailureIsAnError
    RawStaysInside
    OneErrorOneStatus
PROPERTIES
    UserIsVouched
    TokensLast
