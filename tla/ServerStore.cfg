SPECIFICATION Spec
CONSTANTS
    Objects = {s1, s2}
    OptionsSeeds <- MCOptionsSeeds
    NewServerSeeds <- MCNewServerSeeds
    None = None
INVARIANTS
    TypeOK
    ResolvesToChosen
    PickerComplete
    ReportsAreDurable
PROPERTY OnlyAskedDeletions
