\* Two paths and two base names; a file that is the only path holds any script
\* of up to three whole lexemes and an unfinished one.
SPECIFICATION Spec
CONSTANTS
    Names = {1, 2}
    MaxPaths = 2
    MaxLexemes = 3
    MaxText = 5
    Scripts <- MCScripts
    FewScripts <- MCFewScripts
INVARIANTS
    TypeOK
    AppliedAsWritten
    FilesInOrder
    DoneMeansAll
\* A call that has returned does nothing more.
CHECK_DEADLOCK FALSE
