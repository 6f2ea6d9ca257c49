SPECIFICATION Spec
CONSTANTS
    DataTypes <- MCDataTypes
    Switches <- MCSwitches
    None = None
INVARIANTS
    TypeOK
    ModifiersMatchFlags
    FitsItsType
    PickerAgrees
PROPERTY KeysOnlyCleared
