SPECIFICATION Spec
CONSTANTS
    Names <- MCNames
    Homes <- MCLoginBelowRoot
    Paths <- MCTwoLevels
    None = None
INVARIANT DeletesListedRow
CHECK_DEADLOCK FALSE
