SPECIFICATION FairSpec
CONSTANTS
    InitD <- MCInitD
    Nil = Nil
INVARIANTS
    TypeOK
    StatusBelongsToService
    CommandGoesToTitledService
    RowsMatchAfterLoad
PROPERTY LoadSettles
\* The app ends when an index is out of range.
CHECK_DEADLOCK FALSE
