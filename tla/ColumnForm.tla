----------------------------- MODULE ColumnForm -----------------------------
(***************************************************************************)
(* The form that adds or edits one column of a table to be created         *)
(* (NewMySQLColumnViewController.m, MySQLTableColumn.m).  A picker chooses *)
(* the data type, and each choice sets and locks some of six switches and  *)
(* two text fields.                                                        *)
(*                                                                         *)
(* The name of the column and the digits of a DECIMAL are left out, and a  *)
(* text is only empty or not.                                              *)
(***************************************************************************)
EXTENDS Integers, Sequences, FiniteSets

Typed == {"autoIncrement", "zeroFill", "binary"}      \* set by the data type
Free == {"primaryKey", "unique", "notNull"}

Ints == {"INT", "SMALLINT", "MEDIUMINT", "BIGINT"}
Floats == {"FLOAT", "DOUBLE"}
Dates == {"DATE", "DATETIME", "TIMESTAMP", "TIME"}
Strings == {"CHAR", "VARCHAR"}
Blobs == {"BLOB", "TINYBLOB", "MEDIUMBLOB", "LONGBLOB"}
AllTypes == Ints \cup Floats \cup Dates \cup Strings \cup Blobs
            \cup {"DECIMAL", "YEAR", "TINYINT"}

CONSTANTS DataTypes,  \* the types the picker offers, in order
          Switches,   \* the switches of the form
          None        \* no column

\* The rows of the picker in a new form.
BlankAndTypes == <<"">> \o DataTypes

TypeNames == {DataTypes[k] : k \in 1..Len(DataTypes)}

Modifiers == {"ZEROFILL", "BINARY", "NOT NULL", "NULL", "AUTO_INCREMENT",
              "DEFAULT", "DEFAULT quoted"}

Columns == [dataType : TypeNames, flags : SUBSET Switches, modifiers : Seq(Modifiers),
            hasDefault : BOOLEAN, hasLength : BOOLEAN]

ASSUME FormAssumption ==
    /\ DataTypes \in Seq(AllTypes) /\ Len(DataTypes) > 0
    /\ Switches \subseteq Typed \cup Free
    /\ None \notin Columns

VARIABLES
    column,        \* the column in the list of the table's columns
    form,          \* "closed", "new" or "edit"
    dataTypes,     \* the picker's rows: a blank one first in a new form
    row,           \* its selected row
    on, enabled,   \* the switches
    lengthOn,      \* columnLengthTxt is enabled
    defaultOn,     \* defaultTxt is enabled
    defaultText,   \* defaultTxt is not empty
    fields,        \* the type whose settings the form has
    retyped        \* an update was made with another type than the column's

vars == <<column, form, dataTypes, row, on, enabled, lengthOn, defaultOn,
          defaultText, fields, retyped>>
formVars == <<dataTypes, row, on, enabled, lengthOn, defaultOn, defaultText, fields>>

TypeOK ==
    /\ column \in Columns \cup {None}
    /\ form \in {"closed", "new", "edit"}
    /\ dataTypes \in {DataTypes, BlankAndTypes}
    /\ row \in 1..Len(dataTypes)
    /\ on \subseteq Switches /\ enabled \subseteq Switches
    /\ lengthOn \in BOOLEAN /\ defaultOn \in BOOLEAN /\ defaultText \in BOOLEAN
    /\ fields \in TypeNames \cup {""}
    /\ retyped \in BOOLEAN

Init ==
    /\ column = None /\ form = "closed"
    /\ dataTypes = DataTypes /\ row = 1
    /\ on = Switches /\ enabled = Switches
    /\ lengthOn = TRUE /\ defaultOn = TRUE /\ defaultText = FALSE
    /\ fields = "" /\ retyped = FALSE
-----------------------------------------------------------------------------
(***************************************************************************)
(* What choosing a data type does to the form, here and when a column is   *)
(* opened.  TINYINT has no branch; YEAR leaves the length alone.           *)
(***************************************************************************)
SwitchesOf(type) ==
    Switches \cap CASE type \in Ints \cup Floats -> {"autoIncrement", "zeroFill"}
                    [] type = "DECIMAL" -> {"zeroFill"}
                    [] type \in Strings \cup Blobs -> {"binary"}
                    [] type \in Dates \cup {"YEAR"} -> {}

HasLength(type) == type \in Floats \cup Strings
HasDefault(type) == type \in Ints \cup Floats \cup Strings \cup {"DECIMAL"}
Unquoted(type) == type \in Ints \cup Floats \cup {"DECIMAL"}

\* Mutant: a type switches its own switches on and leaves the others.
ApplyTypeAdds(type, oldOn, oldEnabled, oldLength, oldDefault) ==
    IF type = "TINYINT"
    THEN [on |-> oldOn, enabled |-> oldEnabled, lengthOn |-> oldLength, defaultOn |-> oldDefault]
    ELSE [on |-> oldOn \cup SwitchesOf(type), enabled |-> oldEnabled \cup SwitchesOf(type),
          lengthOn |-> IF type = "YEAR" THEN oldLength ELSE HasLength(type),
          defaultOn |-> HasDefault(type)]

\* The new values of on, enabled, lengthOn, defaultOn and fields, given the old.
ApplyType(type, oldOn, oldEnabled, oldLength, oldDefault) ==
    IF type = "TINYINT"
    THEN [on |-> oldOn, enabled |-> oldEnabled, lengthOn |-> oldLength, defaultOn |-> oldDefault]
    ELSE [on |-> (oldOn \ Typed) \cup SwitchesOf(type),
          enabled |-> (oldEnabled \ Typed) \cup SwitchesOf(type),
          lengthOn |-> IF type = "YEAR" THEN oldLength ELSE HasLength(type),
          defaultOn |-> HasDefault(type)]

\* The type whose settings the form has after choosing one; datatypeNumeric and
\* dataTypeDecimal are those of that type.
FieldsAfter(type, old) == IF type = "TINYINT" THEN old ELSE type

\* addColumnButtonPressed, viewDidLoad and viewDidAppear: the storyboard has
\* every switch on, and the primary key is switched off on appearing.
OpenNew ==
    /\ form = "closed" /\ column = None
    /\ form' = "new"
    /\ dataTypes' = BlankAndTypes /\ row' = 1
    /\ on' = Switches \ {"primaryKey"} /\ enabled' = Switches
    /\ lengthOn' = TRUE /\ defaultOn' = TRUE /\ defaultText' = FALSE
    /\ fields' = "" /\ retyped' = FALSE
    /\ UNCHANGED column

\* Mutant: the modifiers are kept.
OpenEditKeepsModifiers ==
    /\ form = "closed" /\ column # None
    /\ form' = "edit"
    /\ dataTypes' = DataTypes
    /\ row' = CHOOSE k \in 1..Len(DataTypes) : DataTypes[k] = column.dataType
    /\ LET set == ApplyType(column.dataType, Switches, Switches, TRUE, TRUE)
       IN /\ lengthOn' = set.lengthOn
          /\ defaultOn' = (set.defaultOn /\ "primaryKey" \notin column.flags)
    /\ on' = column.flags /\ enabled' = column.flags
    /\ defaultText' = column.hasDefault
    /\ fields' = FieldsAfter(column.dataType, "")
    /\ UNCHANGED <<column, retyped>>

\* Mutant: every switch is unlocked.
OpenEditUnlocked ==
    /\ form = "closed" /\ column # None
    /\ form' = "edit"
    /\ dataTypes' = DataTypes
    /\ row' = CHOOSE k \in 1..Len(DataTypes) : DataTypes[k] = column.dataType
    /\ LET set == ApplyType(column.dataType, Switches, Switches, TRUE, TRUE)
       IN /\ lengthOn' = set.lengthOn
          /\ defaultOn' = (set.defaultOn /\ "primaryKey" \notin column.flags)
          /\ enabled' = (Switches \ Typed) \cup set.enabled
    /\ on' = column.flags
    /\ defaultText' = column.hasDefault
    /\ fields' = FieldsAfter(column.dataType, "")
    /\ column' = [column EXCEPT !.modifiers = <<>>]
    /\ UNCHANGED retyped

\* A row of the table's columns: the settings of the type, then the flags of the
\* column, each locking its switch when it is off.  The modifiers are dropped
\* before anything is updated.
OpenEdit ==
    /\ form = "closed" /\ column # None
    /\ form' = "edit"
    /\ dataTypes' = DataTypes
    /\ row' = CHOOSE k \in 1..Len(DataTypes) : DataTypes[k] = column.dataType
    /\ LET set == ApplyType(column.dataType, Switches, Switches, TRUE, TRUE)
       IN /\ lengthOn' = set.lengthOn
          /\ defaultOn' = (set.defaultOn /\ "primaryKey" \notin column.flags)
    /\ on' = column.flags /\ enabled' = column.flags
    /\ defaultText' = column.hasDefault
    /\ fields' = FieldsAfter(column.dataType, "")
    /\ column' = [column EXCEPT !.modifiers = <<>>]
    /\ UNCHANGED retyped

\* Mutant: the blank row goes with the first selection, whatever it is.
SelectRowDropsBlank(r) ==
    /\ form # "closed" /\ r \in 1..Len(dataTypes)
    /\ row' = IF r > Len(DataTypes) THEN Len(DataTypes) ELSE r
    /\ dataTypes' = DataTypes
    /\ LET set == ApplyType(dataTypes[r], on, enabled, lengthOn, defaultOn)
       IN /\ dataTypes[r] # ""
          /\ on' = set.on /\ enabled' = set.enabled
          /\ lengthOn' = set.lengthOn /\ defaultOn' = set.defaultOn
    /\ fields' = FieldsAfter(dataTypes[r], fields)
    /\ UNCHANGED <<column, form, defaultText, retyped>>

\* pickerView:didSelectRow: selecting the blank row removes it, and the row is
\* read again.
SelectRow(r) ==
    /\ form # "closed" /\ r \in 1..Len(dataTypes)
    /\ row' = r
    /\ dataTypes' = IF dataTypes[r] = "" THEN Tail(dataTypes) ELSE dataTypes
    /\ LET set == ApplyType(dataTypes'[r], on, enabled, lengthOn, defaultOn)
       IN /\ on' = set.on /\ enabled' = set.enabled
          /\ lengthOn' = set.lengthOn /\ defaultOn' = set.defaultOn
    /\ fields' = FieldsAfter(dataTypes'[r], fields)
    /\ UNCHANGED <<column, form, defaultText, retyped>>

\* The primary key's switch locks and unlocks the default.
Toggle(s) ==
    /\ form # "closed" /\ s \in enabled
    /\ on' = IF s \in on THEN on \ {s} ELSE on \cup {s}
    /\ defaultOn' = IF s = "primaryKey" THEN s \in on ELSE defaultOn
    /\ UNCHANGED <<column, form, dataTypes, row, enabled, lengthOn, defaultText, fields, retyped>>

TypeDefault ==
    /\ form # "closed" /\ defaultOn
    /\ defaultText' = ~defaultText
    /\ UNCHANGED <<column, form, dataTypes, row, on, enabled, lengthOn, defaultOn, fields, retyped>>

\* Another tab is visited: viewDidAppear runs again.
Reappear ==
    /\ form = "new"
    /\ on' = on \ {"primaryKey"}
    /\ UNCHANGED <<column, form, dataTypes, row, enabled, lengthOn, defaultOn, defaultText, fields, retyped>>

\* The modifiers that these switches and the default add, in order.
ModifiersOf(flags, withDefault, unquoted) ==
    LET If(test, text) == IF test THEN <<text>> ELSE <<>>
    IN If("zeroFill" \in flags, "ZEROFILL")
       \o If("binary" \in flags, "BINARY")
       \o If("notNull" \in flags, "NOT NULL") \o If("notNull" \notin flags, "NULL")
       \o If("autoIncrement" \in flags, "AUTO_INCREMENT")
       \o If(withDefault, IF unquoted THEN "DEFAULT" ELSE "DEFAULT quoted")

\* Mutant: the type is left out of a new object.
FreshColumnUntyped(type) == [dataType |-> "", flags |-> {}, modifiers |-> <<>>,
                             hasDefault |-> FALSE, hasLength |-> FALSE]

\* The object a new form starts from: nothing set, no modifiers.
FreshColumn(type) == [dataType |-> type, flags |-> {}, modifiers |-> <<>>,
                      hasDefault |-> FALSE, hasLength |-> FALSE]

\* addColumnOnClick past the test of the type: a new object, or the one being
\* edited, which keeps its type, gets the fields.
Submit ==
    /\ form # "closed" /\ dataTypes[row] # ""
    /\ LET old == IF form = "new" THEN FreshColumn(dataTypes[row]) ELSE column
       IN column' = [old EXCEPT
                       !.flags = on,
                       !.modifiers = @ \o ModifiersOf(on, defaultOn /\ defaultText, Unquoted(fields)),
                       !.hasDefault = @ \/ (defaultOn /\ defaultText),
                       !.hasLength = @ \/ lengthOn]
    /\ retyped' = (retyped \/ dataTypes[row] # column'.dataType)
    /\ form' = "closed"
    /\ UNCHANGED formVars

Cancel ==
    /\ form # "closed"
    /\ form' = "closed"
    /\ UNCHANGED <<column, formVars, retyped>>

\* The column is deleted from the list.
DeleteColumn ==
    /\ form = "closed" /\ column # None
    /\ column' = None
    /\ retyped' = FALSE
    /\ UNCHANGED <<form, formVars>>

Next ==
    \/ OpenNew \/ OpenEdit
    \/ \E r \in 1..Len(dataTypes) : SelectRow(r)
    \/ \E s \in Switches : Toggle(s)
    \/ TypeDefault \/ Reappear \/ Submit \/ Cancel \/ DeleteColumn

Spec == Init /\ [][Next]_vars
-----------------------------------------------------------------------------
(***************************************************************************)
(* Properties.                                                             *)
(***************************************************************************)
\* However often a column is edited, its modifiers are exactly those of its
\* switches, each once, or none at all because an edit was opened (line 384
\* empties them) and cancelled.
ModifiersMatchFlags ==
    column # None /\ column.modifiers # <<>> =>
        \E default, unquoted \in BOOLEAN :
            column.modifiers = ModifiersOf(column.flags, default, unquoted)

\* A column's type suits what is written behind it: its switches, its length and
\* the quotes of its default, in whatever order types were tried and switches
\* turned.  TINYINT and YEAR, whose branches leave fields alone, and a column
\* updated under another type, which keeps its old one, are excluded.
FitsItsType ==
    column # None /\ ~retyped /\ column.dataType \notin {"TINYINT", "YEAR"} =>
        /\ column.flags \cap Typed \subseteq SwitchesOf(column.dataType)
        /\ column.hasLength => HasLength(column.dataType)
        /\ \A k \in 1..Len(column.modifiers) :
              column.modifiers[k] \in {"DEFAULT", "DEFAULT quoted"} =>
                  (column.modifiers[k] = "DEFAULT") = Unquoted(column.dataType)

\* The settings on the form are those of the type the picker shows, although the
\* blank row is removed from under the selection.
PickerAgrees == form # "closed" /\ fields # "" /\ dataTypes[row] # "TINYINT" => dataTypes[row] = fields

\* A key, or NOT NULL, that a column was saved without can never be added by
\* editing it: its switch is locked and no type unlocks it.
KeysOnlyCleared ==
    [][column # None /\ column' # None => column'.flags \cap Free \subseteq column.flags]_vars
=============================================================================
