SPECIFICATION Spec
CONSTANTS
    Names <- MCNames
    Homes <- MCHomes
    Paths <- MCPaths
    None = None
INVARIANTS
    TypeOK
    StepOutInBounds
    SaveOverwritesOpenedFile
PROPERTY TracksWorkingDirectory
\* The app ends when an index is out of range.
CHECK_DEADLOCK FALSE
