SPECIFICATION Spec
CONSTANTS
    Columns = {c1, c2, c3}
    TableNames = {t1}
    None = None
INVARIANTS
    TypeOK
    ColumnsDistinct
    KeyedSQLSeparated
