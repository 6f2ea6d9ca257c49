SPECIFICATION FairSpec
CONSTANTS
    Catalog <- MCCatalog
    Wrapped <- MCWrapped
    OtherArch <- MCOtherArch
    MaxRemovals = 1
INVARIANTS
    TypeOK
    CommandNamesAlertedPackage
    RowsInRange
    ListedPackagesStay
PROPERTY LoadSettles
\* The app ends when an index is out of range.
CHECK_DEADLOCK FALSE
