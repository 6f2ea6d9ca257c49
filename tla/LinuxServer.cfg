SPECIFICATION Spec
CONSTANTS
    Ids = {i1, i2}
    Texts = {a, b}
    Blank = Blank
    Gone = Gone
    MaxHistory = 2
    MaxDepth = 6
INVARIANTS TypeOK SudoCarriesSavedPassword SendsOnlyAuthorized CreatedScriptsDurable
PROPERTIES OnlyAskedScriptDeletions
