\* Two checks, with every kind of adapter and every behaviour of the
\* dependencies behind them, changing at any moment.
SPECIFICATION Spec
CONSTANTS
    Checks = {kafka, postgres}
    Nobody = Nobody
INVARIANTS
    TypeOK
    ResultsAreGuarded
    AnswerIsComplete
    ReadyIsEarned
    FailureIsEarned
PROPERTIES
    AnsweredUnlessDeaf
