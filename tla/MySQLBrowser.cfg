SPECIFICATION Spec
CONSTANTS
    Schemas = {s1, s2}
    Tables = {t1, t2}
    None = None
    MaxDepth = 7
INVARIANTS
    TypeOK
    DropsTheListedTable
    DroppedIsNotListed
\* The app may end, or strand the user on a screen without exits.
CHECK_DEADLOCK FALSE
