---------------------------- MODULE MySQLBrowser ----------------------------
(***************************************************************************)
(* The MySQL screens of a server: its menu (ManageServerMySQL), the list   *)
(* of schemas, the options of a schema, the list of tables, the options of *)
(* a table, the SQL console and its results.  The screens lie on one       *)
(* navigation stack; each keeps the list it read when it was loaded and    *)
(* its own copy of the MYSQL structure, made when the screen below handed  *)
(* it over, while the server keeps one selected database for all of them.  *)
(* The designer of a new table is modelled in TableDesigner; here it is a  *)
(* screen that creates one and from which the console may be opened.       *)
(*                                                                         *)
(* mysql_select_db frees the database name the structure points to and     *)
(* stores a new one in that copy alone.  A copy whose name was freed       *)
(* through another one is stale: its next select frees the name again,     *)
(* which may end the app or go unnoticed.                                  *)
(***************************************************************************)
EXTENDS Integers, Sequences, FiniteSets, SequencesExt

CONSTANTS Schemas, Tables,   \* names
          None,              \* no schema, no table
          MaxDepth           \* bound on the navigation stack

ASSUME BrowserAssumption == None \notin Schemas \cup Tables /\ MaxDepth \in Nat \ {0}

Kinds == {"servers", "menu", "schemas", "schemaOptions", "tables", "tableOptions",
          "designer", "console", "result"}

\* One screen: its schema and table, the rows of its list, a flag (what the list
\* of schemas is for; 1 once the tool of a table's options has selected), and
\* whether its copy is stale.
Frames == [kind : Kinds, schema : Schemas \cup {None}, name : Tables \cup {None},
           list : SUBSET (Schemas \cup Tables), flag : 0..2, stale : BOOLEAN]

VARIABLES
    databases,   \* the tables of every schema on the server
    selected,    \* the database selected in the session on the server
    link,        \* the connection: up, lost, or closed by the copy that noticed
    stack,       \* the screens, the one in front last
    main,        \* the alert in front, or what has become of the app
    dropped      \* what the last reported drop removed, until the user goes on

vars == <<databases, selected, link, stack, main, dropped>>
server == <<databases, selected>>

Nothing == [schema |-> None, table |-> None]

\* What was dropped is created again.
Recreated(s, t) ==
    dropped' = IF dropped = [schema |-> s, table |-> t] THEN Nothing ELSE dropped

\* The schemas the server has.
Existing == DOMAIN databases

TypeOK ==
    /\ databases \in UNION {[S -> SUBSET Tables] : S \in SUBSET Schemas}
    /\ selected \in Existing \cup {None}
    /\ link \in {"up", "lost", "closed"}
    /\ stack \in Seq(Frames) /\ Len(stack) \in 1..MaxDepth
    /\ main \in {"idle", "confirmTable", "confirmSchema", "droppedTable",
                 "droppedSchema", "stranded", "crashed"}
    /\ dropped \in [schema : Schemas \cup {None}, table : Tables \cup {None}]

Frame(kind) == [kind |-> kind, schema |-> None, name |-> None, list |-> {},
                flag |-> 0, stale |-> FALSE]

\* The menu; mysql_real_connect may fail, which only shows an alert.
Init ==
    /\ databases \in UNION {[S -> SUBSET Tables] : S \in SUBSET Schemas}
    /\ selected = None
    /\ link \in {"up", "closed"}
    /\ stack = <<Frame("menu")>>
    /\ main = "idle"
    /\ dropped = Nothing

-----------------------------------------------------------------------------
Top == stack[Len(stack)]
Below == Front(stack)
InFront(kind) == main = "idle" /\ Top.kind = kind

\* pushViewController:animated:
Push(frame) == Len(stack) < MaxDepth /\ stack' = Append(stack, frame)

\* A new screen gets a copy of the structure of the one in front.
Child(kind) == [Frame(kind) EXCEPT !.stale = Top.stale]

\* What becomes of a request while the connection is down: an error; once a
\* copy has closed the connection, the others use what it freed.
NoLink ==
    /\ link # "up"
    /\ link' = "closed"
Dangling == link = "closed" /\ main' = "crashed"

\* A request that needs nothing but the connection fails.
RequestFails ==
    /\ NoLink
    /\ Dangling \/ UNCHANGED main
    /\ UNCHANGED <<server, stack, dropped>>
-----------------------------------------------------------------------------
(***************************************************************************)
(* The list of schemas.                                                    *)
(***************************************************************************)
\* reloadSchemas empties the list first; the server may refuse the request.
FetchedSchemas(list) ==
    \/ link = "up" /\ list = Existing /\ UNCHANGED <<link, main>>
    \/ link = "up" /\ list = {} /\ UNCHANGED <<link, main>>
    \/ NoLink /\ list = {} /\ (Dangling \/ UNCHANGED main)

\* Mutant: off by one.
FlagOfNext(row) == row + 2

\* The flag for the first two rows of the menu, Manage Schemas and Manage Tables.
FlagOf(row) == row + 1

OpenSchemas(row) ==
    /\ InFront("menu")
    /\ \E list \in {Existing, {}} :
          /\ FetchedSchemas(list)
          /\ Push([Child("schemas") EXCEPT !.flag = FlagOf(row), !.list = list])
    /\ UNCHANGED <<server, dropped>>

RefreshSchemas ==
    /\ InFront("schemas")
    /\ \E list \in {Existing, {}} :
          /\ FetchedSchemas(list)
          /\ stack' = Append(Below, [Top EXCEPT !.list = list])
    /\ UNCHANGED <<server, dropped>>

\* newButtonPressed: the table view is reloaded, the list is not fetched again.
CreateSchema(s) ==
    /\ InFront("schemas")
    /\ link = "up" /\ s \notin Existing
    /\ databases' = [x \in Existing \cup {s} |-> IF x = s THEN {} ELSE databases[x]]
    /\ Recreated(s, None)
    /\ UNCHANGED <<selected, link, stack, main>>

\* didSelectRowAtIndexPath: with flag 1.
OpenSchemaOptions(s) ==
    /\ InFront("schemas") /\ Top.flag = 1 /\ s \in Top.list
    /\ Push([Child("schemaOptions") EXCEPT !.schema = s])
    /\ UNCHANGED <<server, link, main, dropped>>
-----------------------------------------------------------------------------
(***************************************************************************)
(* The list of tables.                                                     *)
(***************************************************************************)
\* mysql_select_db through the copy of frame f.
Select(s) == link = "up" /\ s \in Existing /\ selected' = s
SelectThrough(f) == UNCHANGED main \/ (f.stale /\ main' = "crashed")

\* reloadTableData of frame f: ping, select, SHOW TABLES, which may be refused.
\* It goes back to the list of servers if the connection is lost; if the schema
\* is gone it presents an overview, which only a list in front can do.
ReloadTableData(f, inFront, under) ==
    \/ /\ Select(f.schema)
       /\ SelectThrough(f)
       /\ \E list \in {databases[f.schema], f.list} :
             stack' = Append(under, [f EXCEPT !.list = list, !.stale = FALSE])
       /\ UNCHANGED link
    \/ /\ link = "up" /\ f.schema \notin Existing
       /\ main' = IF inFront THEN "stranded" ELSE main
       /\ stack' = Append(under, f)
       /\ UNCHANGED <<selected, link>>
    \/ /\ NoLink
       /\ stack' = <<Frame("servers")>>
       /\ Dangling \/ UNCHANGED main
       /\ UNCHANGED selected

\* didSelectRowAtIndexPath: with flag 2; viewDidLoad reloads.
OpenTables(s) ==
    /\ InFront("schemas") /\ Top.flag = 2 /\ s \in Top.list
    /\ Len(stack) < MaxDepth
    /\ ReloadTableData([Child("tables") EXCEPT !.schema = s], FALSE, stack)
    /\ UNCHANGED <<databases, dropped>>

RefreshTables ==
    /\ InFront("tables")
    /\ ReloadTableData(Top, TRUE, Below)
    /\ UNCHANGED <<databases, dropped>>

OpenTableOptions(t) ==
    /\ InFront("tables") /\ t \in Top.list
    /\ Push([Child("tableOptions") EXCEPT !.schema = Top.schema, !.name = t])
    /\ UNCHANGED <<server, link, main, dropped>>

OpenDesigner(t) ==
    /\ InFront("tables")
    /\ Push([Child("designer") EXCEPT !.schema = Top.schema, !.name = t])
    /\ UNCHANGED <<server, link, main, dropped>>

\* A tool selects through a copy of its own: the copies of the screen in front
\* and of the list below, which held the name it frees, become stale.
Staled ==
    [k \in 1..Len(stack) |->
        IF k >= Len(stack) - 1 THEN [stack[k] EXCEPT !.stale = TRUE] ELSE stack[k]]

\* Execute under the designer's statement, with a tool made of the designer's
\* copy: the schema is selected, the statement names it too.  A table that exists
\* or a refused statement gives an alert.  The delegate is never set: the list
\* below is not reloaded.  A schema that is gone gives an alert and no change.
DesignerCreates ==
    /\ InFront("designer")
    /\ Select(Top.schema)
    /\ \/ /\ Top.name \notin databases[Top.schema]
          /\ databases' = [databases EXCEPT ![Top.schema] = @ \cup {Top.name}]
          /\ Recreated(Top.schema, Top.name)
          /\ stack' = Front(Staled)
          /\ UNCHANGED main
       \/ /\ stack' = Staled
          /\ SelectThrough(Top)
          /\ UNCHANGED <<databases, dropped>>
    /\ UNCHANGED link
-----------------------------------------------------------------------------
(***************************************************************************)
(* Dropping a table or a schema.                                           *)
(***************************************************************************)
AskDropTable ==
    /\ InFront("tableOptions")
    /\ main' = "confirmTable"
    /\ UNCHANGED <<server, link, stack, dropped>>

AskDropSchema ==
    /\ InFront("schemaOptions")
    /\ main' = "confirmSchema"
    /\ UNCHANGED <<server, link, stack, dropped>>

AnswerNo ==
    /\ main \in {"confirmTable", "confirmSchema"}
    /\ main' = "idle"
    /\ UNCHANGED <<server, link, stack, dropped>>

\* Mutant: the statement goes out before the schema is selected.
DropsInSelected == IF selected = None THEN selected' ELSE selected

\* The database a DROP TABLE without a schema's name is executed in: the one
\* selected on the connection when it goes out.
DropsIn == selected'

\* The tool of a table's options, whose copy was made when the options were
\* loaded, selects.
ToolSelects ==
    stack' = [k \in 1..Len(stack) |->
                IF k = Len(stack) THEN [Staled[k] EXCEPT !.flag = 1] ELSE Staled[k]]

\* deleteTable: select the schema, then drop.  A tool made of a stale copy frees
\* a freed name when it selects for the first time.
DeleteTable ==
    /\ main = "confirmTable"
    /\ Select(Top.schema)
    /\ ToolSelects
    /\ LET s == DropsIn
       IN \/ /\ Top.name \in databases[s]
             /\ databases' = [databases EXCEPT ![s] = @ \ {Top.name}]
             /\ dropped' = [schema |-> s, table |-> Top.name]
             /\ main' = "droppedTable"
          \/ main' = "idle" /\ UNCHANGED <<databases, dropped>>
          \/ /\ Top.stale /\ Top.flag = 0 /\ main' = "crashed"
             /\ UNCHANGED <<databases, dropped>>
    /\ UNCHANGED link

\* dropSchema: the same for a schema; the copies of these screens hold no name.
DropSchema ==
    /\ main = "confirmSchema"
    /\ link = "up" /\ Top.schema \in Existing
    /\ \/ /\ databases' = [x \in Existing \ {Top.schema} |-> databases[x]]
          /\ selected' = None
          /\ dropped' = [schema |-> Top.schema, table |-> None]
          /\ main' = "droppedSchema"
       \/ /\ selected' = Top.schema
          /\ main' = "idle"
          /\ UNCHANGED <<databases, dropped>>
    /\ UNCHANGED <<link, stack>>

\* The select fails: nothing is shown.
DropFails ==
    /\ main \in {"confirmTable", "confirmSchema"}
    /\ \/ link = "up" /\ Top.schema \notin Existing /\ main' = "idle" /\ UNCHANGED link
       \/ NoLink /\ (main' = "idle" \/ Dangling)
    /\ UNCHANGED <<server, stack, dropped>>

\* Mutant: the old list of tables is shown again.
TableDroppedOkPops ==
    /\ main = "droppedTable"
    /\ main' = "idle"
    /\ stack' = Below
    /\ UNCHANGED <<server, link, dropped>>

\* Ok under "Deleted table": a new list of tables is made, reloaded and pushed,
\* which reloads it once more.
TableDroppedOk ==
    /\ main = "droppedTable"
    /\ Len(stack) < MaxDepth
    /\ LET f == [Child("tables") EXCEPT !.schema = Top.schema]
       IN \/ /\ Select(f.schema)
             /\ main' = "idle" \/ (f.stale /\ main' = "crashed")
             /\ \E list \in {databases[f.schema], {}} :
                   stack' = Append(stack, [f EXCEPT !.list = list, !.stale = FALSE])
             /\ UNCHANGED link
          \/ /\ link = "up" /\ f.schema \notin Existing
             /\ main' = "idle"
             /\ stack' = Append(stack, f)
             /\ UNCHANGED <<selected, link>>
          \/ /\ NoLink
             /\ main' = "idle" \/ Dangling
             /\ stack' = <<Frame("servers")>>
             /\ UNCHANGED selected
    /\ UNCHANGED <<databases, dropped>>

\* Ok after a schema was dropped: a new list of schemas is pushed.
SchemaDroppedOk ==
    /\ main = "droppedSchema"
    /\ \E list \in {Existing, {}} :
          /\ \/ link = "up" /\ main' = "idle" /\ UNCHANGED link
             \/ NoLink /\ list = {} /\ (main' = "idle" \/ Dangling)
          /\ Push([Child("schemas") EXCEPT !.flag = 1, !.list = list])
    /\ UNCHANGED <<server, dropped>>
-----------------------------------------------------------------------------
(***************************************************************************)
(* Queries, the console, and going back.                                   *)
(***************************************************************************)
\* The rows of a result: a NULL cell raises, else the result is shown.
ShowResult ==
    \/ Push(Frame("result")) /\ UNCHANGED main
    \/ main' = "crashed" /\ UNCHANGED stack

\* View Data names schema and table; a table that is gone gives an alert.
ViewData ==
    /\ InFront("tableOptions")
    /\ link = "up"
    /\ IF Top.schema \in Existing /\ Top.name \in databases[Top.schema]
       THEN ShowResult
       ELSE UNCHANGED <<stack, main>>
    /\ UNCHANGED <<server, link, dropped>>

\* The console, from the menu or from the designer.
OpenConsole ==
    /\ InFront("menu") \/ InFront("designer")
    /\ Push(Child("console"))
    /\ UNCHANGED <<server, link, main, dropped>>

\* A statement without a result: it may select another database or change the
\* tables of the one selected.
ConsoleExecutes ==
    /\ InFront("console")
    /\ link = "up"
    /\ \/ \E s \in Existing : selected' = s /\ UNCHANGED databases
       \/ /\ selected # None
          /\ \E T \in SUBSET Tables : databases' = [databases EXCEPT ![selected] = T]
          /\ UNCHANGED selected
    /\ dropped' = Nothing
    /\ UNCHANGED <<link, stack, main>>

ConsoleQueries ==
    /\ InFront("console")
    /\ link = "up"
    /\ ShowResult
    /\ UNCHANGED <<server, link, dropped>>

\* CREATE SCHEMA, CREATE TABLE, View Data or the console over a lost connection.
QueryFails ==
    /\ \E kind \in {"schemas", "designer", "tableOptions", "console"} : InFront(kind)
    /\ RequestFails

Back ==
    /\ main = "idle" /\ Len(stack) > 1
    /\ stack' = Below
    /\ dropped' = Nothing
    /\ UNCHANGED <<server, link, main>>

\* The menu is opened again from the list of servers, which connects anew.
Reconnect ==
    /\ InFront("menu") \/ InFront("servers")
    /\ link' \in {"up", "closed"}
    /\ selected' = None
    /\ stack' = <<Frame("menu")>>
    /\ dropped' = Nothing
    /\ UNCHANGED <<databases, main>>
-----------------------------------------------------------------------------
(***************************************************************************)
(* The world: other clients of the server, and the network.                *)
(***************************************************************************)
OtherClient ==
    /\ \/ \E s \in Existing : \E t \in Tables \ databases[s] :
             /\ databases' = [databases EXCEPT ![s] = @ \cup {t}]
             /\ Recreated(s, t)
       \/ \E s \in Existing : \E t \in databases[s] :
             /\ databases' = [databases EXCEPT ![s] = @ \ {t}]
             /\ UNCHANGED dropped
    /\ UNCHANGED <<selected, link, stack, main>>

\* Another client drops or creates a schema.
OtherSchema(s) ==
    /\ IF s \in Existing
       THEN /\ databases' = [x \in Existing \ {s} |-> databases[x]]
            /\ selected' = IF selected = s THEN None ELSE selected
            /\ UNCHANGED dropped
       ELSE /\ databases' = [x \in Existing \cup {s} |-> IF x = s THEN {} ELSE databases[x]]
            /\ Recreated(s, None)
            /\ UNCHANGED selected
    /\ UNCHANGED <<link, stack, main>>

LoseLink ==
    /\ link = "up"
    /\ link' = "lost"
    /\ UNCHANGED <<server, stack, main, dropped>>

Navigate ==
    \/ \E row \in 0..1 : OpenSchemas(row)
    \/ RefreshSchemas \/ RefreshTables
    \/ \E s \in Schemas : CreateSchema(s) \/ OpenSchemaOptions(s) \/ OpenTables(s)
    \/ \E t \in Tables : OpenTableOptions(t) \/ OpenDesigner(t)
    \/ DesignerCreates \/ ViewData \/ OpenConsole \/ ConsoleExecutes \/ ConsoleQueries
    \/ QueryFails \/ Back \/ Reconnect

Drop == AskDropTable \/ AskDropSchema \/ AnswerNo \/ DeleteTable \/ DropSchema
        \/ DropFails \/ TableDroppedOk \/ SchemaDroppedOk

World == OtherClient \/ (\E s \in Schemas : OtherSchema(s)) \/ LoseLink

Next == main \notin {"stranded", "crashed"} /\ (Navigate \/ Drop \/ World)

Spec == Init /\ [][Next]_vars
-----------------------------------------------------------------------------
(***************************************************************************)
(* Properties.                                                             *)
(***************************************************************************)
\* A table that is reported deleted was deleted in the schema whose list it was
\* tapped in (DROP TABLE names no schema), whatever database another screen, the
\* console or another client has made the current one in the meantime.
DropsTheListedTable ==
    main = "droppedTable" /\ dropped # Nothing =>
        dropped = [schema |-> Top.schema, table |-> Top.name]

\* The list shown after a reported drop does not contain what was dropped,
\* unless someone has created it again.
DroppedIsNotListed ==
    main = "idle" /\ dropped # Nothing =>
        /\ Top.kind = "tables" /\ Top.schema = dropped.schema => dropped.table \notin Top.list
        /\ Top.kind = "schemas" /\ dropped.table = None => dropped.schema \notin Top.list
=============================================================================
