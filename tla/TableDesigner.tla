--------------------------- MODULE TableDesigner ----------------------------
(***************************************************************************)
(* Creating a MySQL table: the list of tables (TablesListViewController.m),*)
(* the designer with its list of columns (NewMySQLTableViewController.m),  *)
(* the statement made of them (MySQLTable.m) and the SQL editor it may be  *)
(* sent to (EditSQLViewController.m).  The form that fills a column is     *)
(* modelled in ColumnForm; here it only sets the keys of the column.       *)
(***************************************************************************)
EXTENDS Integers, Sequences, FiniteSets, Sublists

CONSTANTS Columns,    \* the column objects a designer may hold
          TableNames, \* names of tables
          None        \* no column, no table

ASSUME DesignerAssumption == None \notin Columns /\ None \notin TableNames

Keys == {"primaryKey", "unique"}

VARIABLES
    tables,     \* the tables of the schema, on the server
    listed,     \* those the list of tables shows
    screen,     \* the screen or alert in front
    tableName,  \* the name given to the designer
    columns,    \* _columns of the designer
    keys,       \* isPrimaryKey and isUnique of every column object
    editing,    \* the column the form was opened with
    sql,        \* the statement in the alert or the editor
    created     \* the last table the designer created, until the list is reloaded

vars == <<tables, listed, screen, tableName, columns, keys, editing, sql, created>>
designer == <<tableName, columns, keys>>

Tokens == [item : {"column", "PRIMARY KEY", "UNIQUE"}, of : Columns]
          \cup {[item |-> "comma", of |-> None]}

TypeOK ==
    /\ tables \subseteq TableNames /\ listed \subseteq TableNames
    /\ screen \in {"tables", "lost", "designer", "form", "confirm", "created", "editSQL"}
    /\ tableName \in TableNames \cup {None}
    /\ columns \in Seq(Columns)
    /\ keys \in [Columns -> SUBSET Keys]
    /\ editing \in Columns \cup {None}
    /\ sql \in Seq(Tokens)
    /\ created \in TableNames \cup {None}

Init ==
    /\ tables \in SUBSET TableNames /\ listed = tables
    /\ screen = "tables" /\ tableName = None
    /\ columns = <<>> /\ keys = [c \in Columns |-> {}] /\ editing = None
    /\ sql = <<>> /\ created = None
-----------------------------------------------------------------------------
(***************************************************************************)
(* generateCreateTableSQL: the part between the parentheses.               *)
(***************************************************************************)
Comma == [item |-> "comma", of |-> None]
Items(what, cols) == [k \in 1..Len(cols) |-> [item |-> what, of |-> cols[k]]]

\* These items with a comma after each, after the last one only if closed.
Listed(items, closed) ==
    [k \in 1..(2 * Len(items) - (IF closed THEN 0 ELSE 1)) |->
        IF k % 2 = 1 THEN items[(k + 1) \div 2] ELSE Comma]

WithKey(key) == Sublist(columns, {k \in 1..Len(columns) : key \in keys[columns[k]]})

\* Mutant: the unique indexes are not looked at after the last primary key.
GenerateWithoutJoint ==
    LET primaryKeys == Items("PRIMARY KEY", WithKey("primaryKey"))
        uniqueIdentifiers == Items("UNIQUE", WithKey("unique"))
    IN Listed(Items("column", columns), TRUE)
       \o Listed(primaryKeys, FALSE) \o Listed(uniqueIdentifiers, FALSE)

\* Every column ends with a comma, the last primary key only before a unique
\* index, the last unique index never.
GenerateCreateTableSQL ==
    LET primaryKeys == Items("PRIMARY KEY", WithKey("primaryKey"))
        uniqueIdentifiers == Items("UNIQUE", WithKey("unique"))
    IN Listed(Items("column", columns), TRUE)
       \o Listed(primaryKeys, uniqueIdentifiers # <<>>)
       \o Listed(uniqueIdentifiers, FALSE)

\* What MySQL asks of the list: items separated by single commas, at least one
\* column, at most one primary key.
Separated(text) == /\ text # <<>> /\ Len(text) % 2 = 1
                   /\ \A k \in 1..Len(text) : (text[k] = Comma) = (k % 2 = 0)
Accepts(text) == /\ Separated(text)
                 /\ text[1].item = "column"
                 /\ \A j, k \in 1..Len(text) :
                       text[j].item = "PRIMARY KEY" /\ text[k].item = "PRIMARY KEY" => j = k
-----------------------------------------------------------------------------
(***************************************************************************)
(* The list of tables.                                                     *)
(***************************************************************************)
\* reloadTableData: SHOW TABLES answers, fails and changes nothing, or the
\* connection or the schema is lost.
Refresh ==
    /\ screen = "tables"
    /\ \/ listed' = tables /\ created' = None /\ UNCHANGED screen
       \/ UNCHANGED <<listed, created, screen>>
       \/ screen' = "lost" /\ UNCHANGED <<listed, created>>
    /\ UNCHANGED <<tables, designer, editing, sql>>

\* The connection is made anew and the list opened again.
Reconnect ==
    /\ screen = "lost"
    /\ screen' = "tables" /\ listed' = tables /\ created' = None
    /\ UNCHANGED <<tables, designer, editing, sql>>

\* newButtonPressed: the designer gets the name, but not the list as delegate.
NewTable(name) ==
    /\ screen = "tables"
    /\ screen' = "designer"
    /\ tableName' = name /\ columns' = <<>> /\ keys' = [c \in Columns |-> {}]
    /\ UNCHANGED <<tables, listed, editing, sql, created>>

\* The designer leaves the screen for good: viewDidDisappear calls a delegate
\* that nobody set.
LeaveDesigner ==
    /\ screen' = "tables"
    /\ tableName' = None /\ columns' = <<>> /\ keys' = [c \in Columns |-> {}]
    /\ sql' = <<>>
    /\ UNCHANGED listed

Back ==
    /\ screen = "designer"
    /\ LeaveDesigner
    /\ UNCHANGED <<tables, editing, created>>
-----------------------------------------------------------------------------
(***************************************************************************)
(* The designer and its form.                                              *)
(***************************************************************************)
AddColumnButtonPressed ==
    /\ screen = "designer"
    /\ screen' = "form" /\ editing' = None
    /\ UNCHANGED <<tables, listed, designer, sql, created>>

ColumnTapped(k) ==
    /\ screen = "designer"
    /\ screen' = "form" /\ editing' = columns[k]
    /\ UNCHANGED <<tables, listed, designer, sql, created>>

\* Mutant: an edited column is added as well.
ColumnWasCreatedTwice(column, backButtonPressed, isEditing) ==
    columns' = IF column # None /\ ~backButtonPressed THEN Append(columns, column) ELSE columns

\* Mutant: a form left without a column adds nil.
ColumnWasCreatedNil(column, backButtonPressed, isEditing) ==
    columns' = IF ~backButtonPressed /\ ~isEditing THEN Append(columns, column) ELSE columns

\* columnWasCreated: adds a new column unless the form was cancelled.
ColumnWasCreated(column, backButtonPressed, isEditing) ==
    columns' = IF column # None /\ ~backButtonPressed /\ ~isEditing
               THEN Append(columns, column) ELSE columns

\* The new object c, or the one edited, gets its keys; an edit can only clear
\* them.  The form is left and tells the designer.
SubmitForm(c, K) ==
    /\ screen = "form"
    /\ IF editing = None THEN \A k \in 1..Len(columns) : columns[k] # c
                         ELSE c = editing /\ K \subseteq keys[c]
    /\ keys' = [keys EXCEPT ![c] = K]
    /\ ColumnWasCreated(c, FALSE, editing # None)
    /\ screen' = "designer" /\ editing' = None
    /\ UNCHANGED <<tables, listed, tableName, sql, created>>

CancelForm ==
    /\ screen = "form"
    /\ ColumnWasCreated(editing, TRUE, editing # None)
    /\ screen' = "designer" /\ editing' = None
    /\ UNCHANGED <<tables, listed, tableName, keys, sql, created>>

\* Another tab is visited: the form disappears, tells the designer and comes back.
HideForm ==
    /\ screen = "form"
    /\ ColumnWasCreated(editing, FALSE, editing # None)
    /\ UNCHANGED <<tables, listed, screen, tableName, keys, editing, sql, created>>

DeleteColumn(k) ==
    /\ screen = "designer"
    /\ columns' = SubSeq(columns, 1, k - 1) \o SubSeq(columns, k + 1, Len(columns))
    /\ keys' = [keys EXCEPT ![columns[k]] = {}]
    /\ UNCHANGED <<tables, listed, screen, tableName, editing, sql, created>>

CreateButtonPressed ==
    /\ screen = "designer"
    /\ sql' = GenerateCreateTableSQL
    /\ screen' = "confirm"
    /\ UNCHANGED <<tables, listed, designer, editing, created>>

CancelCreate ==
    /\ screen = "confirm"
    /\ screen' = "designer" /\ sql' = <<>>
    /\ UNCHANGED <<tables, listed, designer, editing, created>>

\* executeSQL: fails for any reason, or creates a table that was not there.
ExecuteFails ==
    /\ screen = "confirm"
    /\ screen' = "designer" /\ sql' = <<>>
    /\ UNCHANGED <<tables, listed, designer, editing, created>>

ExecuteSucceeds ==
    /\ screen = "confirm" /\ Accepts(sql) /\ tableName \notin tables
    /\ tables' = tables \cup {tableName} /\ created' = tableName
    /\ screen' = "created"
    /\ UNCHANGED <<listed, designer, editing, sql>>

\* The report of success is confirmed: the designer is popped.
PopAfterCreate ==
    /\ screen = "created"
    /\ LeaveDesigner
    /\ UNCHANGED <<tables, editing, created>>

ReviewSQL ==
    /\ screen = "confirm"
    /\ screen' = "editSQL"
    /\ UNCHANGED <<tables, listed, designer, editing, sql, created>>

\* The edited statement runs as it stands: here it creates the table.
ExecuteEdited ==
    /\ screen = "editSQL" /\ tableName \notin tables
    /\ tables' = tables \cup {tableName}
    /\ UNCHANGED <<listed, screen, designer, editing, sql, created>>

LeaveEditor ==
    /\ screen = "editSQL"
    /\ screen' = "designer" /\ sql' = <<>>
    /\ UNCHANGED <<tables, listed, designer, editing, created>>

Next ==
    \/ Refresh \/ Reconnect \/ Back
    \/ \E name \in TableNames : NewTable(name)
    \/ AddColumnButtonPressed \/ CancelForm \/ HideForm
    \/ \E c \in Columns, K \in SUBSET Keys : SubmitForm(c, K)
    \/ \E k \in 1..Len(columns) : ColumnTapped(k) \/ DeleteColumn(k)
    \/ CreateButtonPressed \/ CancelCreate \/ ExecuteFails \/ ExecuteSucceeds
    \/ PopAfterCreate \/ ReviewSQL \/ ExecuteEdited \/ LeaveEditor

Spec == Init /\ [][Next]_vars
-----------------------------------------------------------------------------
(***************************************************************************)
(* Properties.                                                             *)
(***************************************************************************)
\* A column object is in the table at most once: the form reports to the
\* designer whenever it disappears, after an update and on a visit to another
\* tab too, and only a new column may be added by that.
ColumnsDistinct == \A j, k \in 1..Len(columns) : columns[j] = columns[k] => j = k

\* The commas of a table with a key: the statement is its columns, then its
\* primary keys, then its unique indexes, separated by single commas.
KeyedSQLSeparated ==
    screen = "confirm" /\ (WithKey("primaryKey") # <<>> \/ WithKey("unique") # <<>>) =>
        sql = Listed(Items("column", columns) \o Items("PRIMARY KEY", WithKey("primaryKey"))
                     \o Items("UNIQUE", WithKey("unique")), FALSE)
=============================================================================
