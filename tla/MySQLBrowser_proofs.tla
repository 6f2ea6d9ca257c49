------------------------ MODULE MySQLBrowser_proofs ------------------------
(***************************************************************************)
(* What holds of the MySQL screens for every set of schemas and tables and *)
(* every depth of the navigation stack.  The inductive invariant follows   *)
(* the parts of the state: the server (ServerOK), the stack (StackOK), the *)
(* alert in front (AlertOK), what was dropped last (DroppedOK) and the     *)
(* lists that may come to the front while it still matters (ListsOK).      *)
(***************************************************************************)
EXTENDS MySQLBrowser, TLAPS, SequenceTheorems

\* The schemas on the server and their tables, the selected one among them.
ServerOK ==
    /\ DOMAIN databases \subseteq Schemas
    /\ databases \in [DOMAIN databases -> SUBSET Tables]
    /\ selected \in Existing \cup {None}
    /\ link \in {"up", "lost", "closed"}

\* The designer and the options of a table know its name, and a designer lies on
\* the list of tables it was opened from.
Named(f) == f.kind \in {"designer", "tableOptions"} => f.name \in Tables

StackOK ==
    /\ stack \in Seq(Frames) /\ Len(stack) \in 1..MaxDepth
    /\ \A k \in 1..Len(stack) : Named(stack[k])
    /\ \A k \in 1..Len(stack) :
          stack[k].kind = "designer" => k > 1 /\ stack[k - 1].kind = "tables"

\* A question or a report of a drop is shown over the options it was asked in.
AlertOK ==
    /\ main \in {"idle", "confirmTable", "confirmSchema", "droppedTable",
                 "droppedSchema", "stranded", "crashed"}
    /\ main \in {"confirmTable", "droppedTable"} => Top.kind = "tableOptions"
    /\ main \in {"confirmSchema", "droppedSchema"} => Top.kind = "schemaOptions"

\* What was dropped, and not created again, is not on the server.
DroppedOK ==
    /\ dropped \in [schema : Schemas \cup {None}, table : Tables \cup {None}]
    /\ dropped # Nothing =>
          IF dropped.table = None THEN dropped.schema \notin Existing
          ELSE dropped.schema \in Existing => dropped.table \notin databases[dropped.schema]

\* List f does not contain what was dropped.
Omits(f) ==
    /\ f.kind = "tables" /\ f.schema = dropped.schema => dropped.table \notin f.list
    /\ f.kind = "schemas" /\ dropped.table = None => dropped.schema \notin f.list

\* Of the screens, only the one in front and the list a designer returns to can
\* be in front before the user goes back.
ListsOK ==
    main = "idle" /\ dropped # Nothing =>
        /\ Omits(Top)
        /\ Top.kind = "designer" => Omits(stack[Len(stack) - 1])

ScreensOK == StackOK /\ AlertOK /\ ListsOK /\ DropsTheListedTable

IInv == ServerOK /\ DroppedOK /\ ScreensOK
-----------------------------------------------------------------------------
(***************************************************************************)
(* The server.                                                             *)
(***************************************************************************)
\* The two ways of saying what the databases are.
LEMMA DatabasesType ==
    ASSUME NEW f
    PROVE  f \in UNION {[S -> SUBSET Tables] : S \in SUBSET Schemas}
             <=> DOMAIN f \subseteq Schemas /\ f \in [DOMAIN f -> SUBSET Tables]
<1>1. ASSUME f \in UNION {[S -> SUBSET Tables] : S \in SUBSET Schemas}
      PROVE  DOMAIN f \subseteq Schemas /\ f \in [DOMAIN f -> SUBSET Tables]
  <2>1. PICK S \in SUBSET Schemas : f \in [S -> SUBSET Tables]
    BY <1>1
  <2>2. DOMAIN f = S
    BY <2>1
  <2> QED
    BY <2>1, <2>2
<1>2. ASSUME DOMAIN f \subseteq Schemas, f \in [DOMAIN f -> SUBSET Tables]
      PROVE  f \in UNION {[S -> SUBSET Tables] : S \in SUBSET Schemas}
  <2>1. DOMAIN f \in SUBSET Schemas
    BY <1>2
  <2> QED
    BY <2>1, <1>2
<1> QED
  BY <1>1, <1>2

\* The screen in front is one of the stack.
LEMMA TopOK ==
    ASSUME StackOK
    PROVE  /\ Len(stack) \in Nat \ {0}
           /\ Top \in Frames /\ Named(Top)
           /\ Top.kind = "designer" => Len(stack) > 1 /\ stack[Len(stack) - 1].kind = "tables"
BY BrowserAssumption DEF BrowserAssumption, StackOK, Top

\* The steps that change the databases or the selection.
ChangesServer ==
    \/ \E s \in Schemas : CreateSchema(s) \/ OpenTables(s) \/ OtherSchema(s)
    \/ RefreshTables \/ DesignerCreates \/ DeleteTable \/ DropSchema \/ TableDroppedOk
    \/ ConsoleExecutes \/ Reconnect \/ OtherClient

\* Every step of the app or of another client keeps the server's part.
LEMMA ServerKept ==
    ASSUME IInv, [Next]_vars
    PROVE  ServerOK'
<1> USE DEF ServerOK, Existing
<1>0. ServerOK /\ StackOK
  BY DEF IInv, ScreensOK
<1>1. ASSUME NEW s \in Schemas, CreateSchema(s) PROVE ServerOK'
  BY <1>0, <1>1 DEF CreateSchema
<1>2. ASSUME NEW s \in Schemas, OpenTables(s) PROVE ServerOK'
  BY <1>0, <1>2 DEF OpenTables, ReloadTableData, Select, NoLink
<1>3. ASSUME NEW s \in Schemas, OtherSchema(s) PROVE ServerOK'
  BY <1>0, <1>3 DEF OtherSchema
<1>4. CASE RefreshTables
  BY <1>0, <1>4 DEF RefreshTables, ReloadTableData, Select, NoLink
<1>5. CASE DesignerCreates
  BY <1>0, <1>5, TopOK DEF DesignerCreates, InFront, Named, Select
<1>6. CASE DeleteTable
  BY <1>0, <1>6 DEF DeleteTable, Select
<1>7. CASE DropSchema
  BY <1>0, <1>7 DEF DropSchema
<1>8. CASE TableDroppedOk
  BY <1>0, <1>8 DEF TableDroppedOk, Select, NoLink
<1>9. CASE ConsoleExecutes
  BY <1>0, <1>9 DEF ConsoleExecutes
<1>10. CASE Reconnect
  BY <1>0, <1>10 DEF Reconnect
<1>11. CASE OtherClient
  BY <1>0, <1>11 DEF OtherClient
<1>12. CASE UNCHANGED server /\ link' \in {"up", "lost", "closed"}
  BY <1>0, <1>12 DEF server
<1>13. [Next]_vars => ChangesServer \/ (UNCHANGED server /\ link' \in {"up", "lost", "closed"})
  <2>1. ASSUME NEW row \in 0..1, OpenSchemas(row)
        PROVE  UNCHANGED server /\ link' \in {"up", "lost", "closed"}
    BY <1>0, <2>1 DEF OpenSchemas, FetchedSchemas, NoLink
  <2>2. CASE RefreshSchemas
    BY <1>0, <2>2 DEF RefreshSchemas, FetchedSchemas, NoLink
  <2>3. ASSUME NEW s \in Schemas, OpenSchemaOptions(s)
        PROVE  UNCHANGED server /\ link' \in {"up", "lost", "closed"}
    BY <1>0, <2>3 DEF OpenSchemaOptions
  <2>4. ASSUME NEW t \in Tables, OpenTableOptions(t) \/ OpenDesigner(t)
        PROVE  UNCHANGED server /\ link' \in {"up", "lost", "closed"}
    BY <1>0, <2>4 DEF OpenTableOptions, OpenDesigner
  <2>5. CASE ViewData \/ OpenConsole \/ ConsoleQueries \/ QueryFails \/ Back
    BY <1>0, <2>5 DEF ViewData, OpenConsole, ConsoleQueries, QueryFails, RequestFails, NoLink,
       Back
  <2>6. CASE AskDropTable \/ AskDropSchema \/ AnswerNo \/ DropFails \/ SchemaDroppedOk
    BY <1>0, <2>6 DEF AskDropTable, AskDropSchema, AnswerNo, DropFails, SchemaDroppedOk, NoLink
  <2>7. CASE LoseLink \/ UNCHANGED vars
    BY <1>0, <2>7 DEF LoseLink, vars, server
  <2> QED
    BY <2>1, <2>2, <2>3, <2>4, <2>5, <2>6, <2>7
       DEF ChangesServer, Next, Navigate, Drop, World
<1> QED
  BY <1>1, <1>2, <1>3, <1>4, <1>5, <1>6, <1>7, <1>8, <1>9, <1>10, <1>11, <1>12, <1>13
     DEF ChangesServer
-----------------------------------------------------------------------------
(***************************************************************************)
(* The stack.                                                              *)
(***************************************************************************)
\* All but the last of a sequence.
LEMMA FrontOK ==
    ASSUME NEW S, NEW s \in Seq(S), Len(s) # 0
    PROVE  /\ Front(s) \in Seq(S) /\ Len(Front(s)) = Len(s) - 1 /\ Len(s) \in Nat
           /\ \A k \in 1..(Len(s) - 1) : Front(s)[k] = s[k]
<1>1. Len(s) \in Nat \ {0} /\ Front(s) = SubSeq(s, 1, Len(s) - 1)
  BY DEF Front
<1>2. CASE Len(s) = 1
  <2>1. Front(s) = <<>>
    BY <1>1, <1>2, SubSeqEmpty
  <2> QED
    BY <1>2, <2>1
<1>3. CASE Len(s) > 1
  BY <1>1, <1>3
<1>4. Len(s) = 1 \/ Len(s) > 1
  <2>1. Len(s) \in Nat /\ Len(s) # 0
    BY <1>1
  <2>2. \A n \in Nat : n # 0 => n = 1 \/ n > 1
    OBVIOUS
  <2> QED
    BY <2>1, <2>2, Zenon
<1> QED
  BY <1>2, <1>3, <1>4, Zenon

\* A new screen, with the copy of the structure it gets.
LEMMA ChildOK ==
    ASSUME StackOK, NEW kind \in Kinds
    PROVE  /\ Frame(kind) \in Frames /\ Frame(kind).kind = kind
           /\ Child(kind) \in Frames /\ Child(kind).kind = kind /\ Child(kind).list = {}
<1>1. Frame(kind) \in Frames
  BY DEF Frame, Frames
<1>2. Top.stale \in BOOLEAN
  BY TopOK DEF Frames
<1>3. Frame(kind).kind = kind /\ Frame(kind).list = {}
  BY DEF Frame
<1>4. Child(kind) = [Frame(kind) EXCEPT !.stale = Top.stale]
  BY DEF Child
<1> QED
  BY <1>1, <1>2, <1>3, <1>4 DEF Frames

\* A pushed screen keeps the stack in order (pushViewController:animated:).
LEMMA PushKeeps ==
    ASSUME StackOK, NEW f \in Frames, Named(f), f.kind = "designer" => Top.kind = "tables",
           Len(stack) < MaxDepth, stack' = Append(stack, f)
    PROVE  StackOK' /\ Top' = f /\ stack'[Len(stack') - 1] = Top
<1> USE BrowserAssumption DEF BrowserAssumption
<1>1. /\ stack' \in Seq(Frames) /\ Len(stack') = Len(stack) + 1
      /\ Len(stack') \in 1..MaxDepth /\ stack'[Len(stack')] = f
      /\ \A k \in 1..Len(stack) : stack'[k] = stack[k]
  BY DEF StackOK
<1>2. Top' = f /\ stack'[Len(stack') - 1] = Top
  BY <1>1 DEF StackOK, Top
<1>3. \A k \in 1..Len(stack') : Named(stack'[k])
  BY <1>1 DEF StackOK
<1>4. ASSUME NEW k \in 1..Len(stack'), stack'[k].kind = "designer"
      PROVE  k > 1 /\ stack'[k - 1].kind = "tables"
  <2>1. CASE k = Len(stack')
    <3>1. Len(stack') > 1
      BY <1>1 DEF StackOK
    <3> QED
      BY <1>1, <1>2, <1>4, <2>1, <3>1
  <2>2. CASE k # Len(stack')
    <3>1. k \in 1..Len(stack) /\ stack[k].kind = "designer"
      BY <1>1, <1>4, <2>2 DEF StackOK
    <3>2. k > 1 /\ stack[k - 1].kind = "tables"
      BY <3>1 DEF StackOK
    <3> QED
      BY <1>1, <3>1, <3>2 DEF StackOK
  <2> QED
    BY <2>1, <2>2
<1> QED
  BY <1>1, <1>2, <1>3, <1>4 DEF StackOK

\* The screen in front gets a new list, or a new copy of the structure.
LEMMA ReplaceKeeps ==
    ASSUME StackOK, NEW f \in Frames, f.kind = Top.kind, f.name = Top.name,
           stack' = Append(Below, f)
    PROVE  StackOK' /\ Top' = f /\ Len(stack') = Len(stack)
<1> USE BrowserAssumption DEF BrowserAssumption
<1>1. /\ stack' \in Seq(Frames) /\ Len(stack') = Len(stack)
      /\ stack'[Len(stack)] = f
      /\ \A k \in 1..(Len(stack) - 1) : stack'[k] = stack[k]
  <2>1. /\ Below \in Seq(Frames) /\ Len(Below) = Len(stack) - 1 /\ Len(stack) \in Nat
        /\ \A k \in 1..(Len(stack) - 1) : Below[k] = stack[k]
    BY FrontOK DEF StackOK, Below
  <2> QED
    BY <2>1
<1>2. \A k \in 1..Len(stack) : stack'[k].kind = stack[k].kind /\ stack'[k].name = stack[k].name
  BY <1>1 DEF StackOK, Top
<1> QED
  BY <1>1, <1>2 DEF StackOK, Top, Named

\* The back button.
LEMMA BelowKeeps ==
    ASSUME StackOK, Len(stack) > 1, stack' = Below
    PROVE  StackOK' /\ Top' = stack[Len(stack) - 1]
<1> USE BrowserAssumption DEF BrowserAssumption
<1>1. /\ stack' \in Seq(Frames) /\ Len(stack') = Len(stack) - 1
      /\ \A k \in 1..(Len(stack) - 1) : stack'[k] = stack[k]
  BY DEF StackOK, Below, Front
<1> QED
  BY <1>1 DEF StackOK, Top

\* Going back to the first screen.
LEMMA RootKeeps ==
    ASSUME NEW kind \in {"menu", "servers"}, stack' = <<Frame(kind)>>
    PROVE  StackOK' /\ Top' = Frame(kind)
<1>1. Frame(kind) \in Frames /\ Frame(kind).kind = kind
  BY DEF Frame, Frames, Kinds
<1>2. Len(stack') = 1 /\ stack'[1] = Frame(kind) /\ stack' \in Seq(Frames)
  BY <1>1
<1> QED
  BY <1>1, <1>2, BrowserAssumption DEF BrowserAssumption, StackOK, Top, Named

\* Marking copies as stale changes nothing else of the screens.
LEMMA StaledOK ==
    ASSUME StackOK
    PROVE  /\ Staled \in Seq(Frames) /\ Len(Staled) = Len(stack) /\ Len(stack) \in Nat
           /\ \A k \in 1..Len(stack) : /\ Staled[k].kind = stack[k].kind
                                       /\ Staled[k].schema = stack[k].schema
                                       /\ Staled[k].name = stack[k].name
                                       /\ Staled[k].list = stack[k].list
<1> USE BrowserAssumption DEF BrowserAssumption
<1> DEFINE g(k) == IF k >= Len(stack) - 1 THEN [stack[k] EXCEPT !.stale = TRUE] ELSE stack[k]
<1>1. ASSUME NEW k \in 1..Len(stack)
      PROVE  /\ g(k) \in Frames /\ g(k).kind = stack[k].kind /\ g(k).schema = stack[k].schema
             /\ g(k).name = stack[k].name /\ g(k).list = stack[k].list
  <2>1. stack[k] \in Frames
    BY DEF StackOK
  <2> QED
    BY <2>1 DEF Frames
<1>2. Len(stack) \in Nat /\ Staled = [k \in 1..Len(stack) |-> g(k)]
  BY DEF Staled, StackOK
<1> HIDE DEF g
<1> QED
  BY <1>1, <1>2

\* Screens that differ in their copies and flags only, the upper ones perhaps left.
LEMMA SameScreensKeep ==
    ASSUME StackOK, NEW s \in Seq(Frames), stack' = s, Len(s) \in 1..Len(stack),
           \A k \in 1..Len(s) : s[k].kind = stack[k].kind /\ s[k].name = stack[k].name
    PROVE  StackOK'
<1> USE BrowserAssumption DEF BrowserAssumption
<1>1. Len(stack) \in Nat /\ Len(s) \in 1..MaxDepth
  BY DEF StackOK
<1>2. \A k \in 1..Len(s) : Named(s[k])
  BY <1>1 DEF StackOK, Named
<1>3. \A k \in 1..Len(s) : s[k].kind = "designer" => k > 1 /\ s[k - 1].kind = "tables"
  BY <1>1 DEF StackOK
<1> QED
  BY <1>1, <1>2, <1>3 DEF StackOK

\* The tool of a table's options selects.
LEMMA ToolKeeps ==
    ASSUME StackOK, ToolSelects
    PROVE  /\ StackOK' /\ Top'.kind = Top.kind
           /\ Top'.schema = Top.schema /\ Top'.name = Top.name
<1> DEFINE g(k) == IF k = Len(stack) THEN [Staled[k] EXCEPT !.flag = 1] ELSE Staled[k]
<1>1. ASSUME NEW k \in 1..Len(stack)
      PROVE  /\ g(k) \in Frames /\ g(k).kind = stack[k].kind /\ g(k).schema = stack[k].schema
             /\ g(k).name = stack[k].name
  <2>1. /\ Staled[k] \in Frames /\ Staled[k].kind = stack[k].kind
        /\ Staled[k].schema = stack[k].schema /\ Staled[k].name = stack[k].name
    BY StaledOK
  <2> QED
    BY <2>1 DEF Frames
<1>2. Len(stack) \in Nat \ {0} /\ stack' = [k \in 1..Len(stack) |-> g(k)]
  BY TopOK DEF ToolSelects
<1> HIDE DEF g
<1>3. stack' \in Seq(Frames) /\ Len(stack') = Len(stack)
  BY <1>1, <1>2
<1>4. \A k \in 1..Len(stack) : /\ stack'[k].kind = stack[k].kind
                               /\ stack'[k].schema = stack[k].schema
                               /\ stack'[k].name = stack[k].name
  BY <1>1, <1>2
<1>5. StackOK'
  BY <1>2, <1>3, <1>4, SameScreensKeep
<1> QED
  BY <1>2, <1>3, <1>4, <1>5 DEF Top

\* The designer's tool selects; the designer is left after a creation.
LEMMA DesignerKeeps ==
    ASSUME StackOK, Top.kind = "designer"
    PROVE  /\ stack' = Staled => /\ StackOK' /\ Top'.kind = "designer"
                                 /\ Len(stack') = Len(stack)
                                 /\ stack'[Len(stack) - 1].kind = "tables"
                                 /\ stack'[Len(stack) - 1].schema = stack[Len(stack) - 1].schema
                                 /\ stack'[Len(stack) - 1].list = stack[Len(stack) - 1].list
           /\ stack' = Front(Staled) => /\ StackOK' /\ Top'.kind = "tables"
                                        /\ Top'.schema = stack[Len(stack) - 1].schema
                                        /\ Top'.list = stack[Len(stack) - 1].list
<1>1. /\ Len(stack) \in Nat \ {0} /\ Len(stack) > 1 /\ stack[Len(stack) - 1].kind = "tables"
  BY TopOK
<1>2. PICK n \in 1..Len(stack) : n = Len(stack) - 1
  BY <1>1
<1>3. ASSUME stack' = Staled
      PROVE  /\ StackOK' /\ Top'.kind = "designer"
             /\ Len(stack') = Len(stack)
             /\ stack'[n].kind = "tables"
             /\ stack'[n].schema = stack[n].schema /\ stack'[n].list = stack[n].list
  <2>1. StackOK'
    BY <1>1, <1>3, StaledOK, SameScreensKeep
  <2> QED
    BY <1>1, <1>2, <1>3, <2>1, StaledOK DEF Top
<1>4. ASSUME stack' = Front(Staled)
      PROVE  /\ StackOK' /\ Top'.kind = "tables"
             /\ Top'.schema = stack[n].schema /\ Top'.list = stack[n].list
  <2>1. /\ stack' \in Seq(Frames) /\ Len(stack') = n
        /\ \A k \in 1..n : stack'[k] = Staled[k]
    BY <1>1, <1>2, <1>4, StaledOK, FrontOK
  <2>2. \A k \in 1..n : /\ stack'[k].kind = stack[k].kind /\ stack'[k].name = stack[k].name
                         /\ stack'[k].schema = stack[k].schema /\ stack'[k].list = stack[k].list
    BY <1>1, <1>2, <2>1, StaledOK
  <2>3. StackOK'
    BY <1>1, <1>2, <2>1, <2>2, SameScreensKeep
  <2> QED
    BY <1>1, <1>2, <2>1, <2>2, <2>3 DEF Top
<1> QED
  BY <1>2, <1>3, <1>4
-----------------------------------------------------------------------------
(***************************************************************************)
(* What was dropped.                                                       *)
(***************************************************************************)
\* A schema s that is not on the server is created, by the app or another client.
LEMMA CreatedKeeps ==
    ASSUME ServerOK, DroppedOK, NEW s \in Schemas, s \notin Existing, Recreated(s, None),
           databases' = [x \in Existing \cup {s} |-> IF x = s THEN {} ELSE databases[x]]
    PROVE  DroppedOK'
<1>1. CASE dropped = [schema |-> s, table |-> None]
  BY <1>1 DEF Recreated, DroppedOK, Nothing
<1>2. CASE dropped # [schema |-> s, table |-> None]
  <2>1. dropped' = dropped /\ Existing' = Existing \cup {s}
    BY <1>2 DEF Recreated, Existing
  <2>2. dropped.table = None => dropped.schema # s
    BY <1>2 DEF DroppedOK
  <2> QED
    BY <2>1, <2>2 DEF DroppedOK, Existing
<1> QED
  BY <1>1, <1>2

\* A table t is created in a schema of the server.
LEMMA AddedKeeps ==
    ASSUME ServerOK, DroppedOK, NEW s \in Existing, NEW t \in Tables, Recreated(s, t),
           databases' = [databases EXCEPT ![s] = @ \cup {t}]
    PROVE  DroppedOK'
<1>1. CASE dropped = [schema |-> s, table |-> t]
  BY <1>1 DEF Recreated, DroppedOK, Nothing
<1>2. CASE dropped # [schema |-> s, table |-> t]
  <2>1. dropped' = dropped /\ Existing' = Existing
    BY <1>2 DEF Recreated, Existing, ServerOK
  <2>2. dropped.schema # s \/ dropped.table # t
    BY <1>2 DEF DroppedOK
  <2> QED
    BY <2>1, <2>2 DEF DroppedOK, Existing, ServerOK
<1> QED
  BY <1>1, <1>2

\* The steps that create or drop something, or change what was dropped.
ChangesDropped ==
    \/ \E s \in Schemas : CreateSchema(s) \/ OtherSchema(s)
    \/ DesignerCreates \/ DeleteTable \/ DropSchema \/ OtherClient

\* No other step changes the databases while it keeps what was dropped.
LEMMA OthersKeepDropped ==
    ASSUME [Next]_vars
    PROVE  ChangesDropped \/ UNCHANGED <<databases, dropped>> \/ dropped' = Nothing
<1> USE DEF server
<1>1. ASSUME NEW row \in 0..1, OpenSchemas(row) PROVE UNCHANGED <<databases, dropped>>
  BY <1>1 DEF OpenSchemas
<1>2. ASSUME NEW s \in Schemas, OpenSchemaOptions(s) \/ OpenTables(s)
      PROVE  UNCHANGED <<databases, dropped>>
  BY <1>2 DEF OpenSchemaOptions, OpenTables
<1>3. ASSUME NEW t \in Tables, OpenTableOptions(t) \/ OpenDesigner(t)
      PROVE  UNCHANGED <<databases, dropped>>
  BY <1>3 DEF OpenTableOptions, OpenDesigner
<1>4. CASE RefreshSchemas \/ RefreshTables \/ ViewData \/ OpenConsole \/ ConsoleQueries \/ QueryFails
  BY <1>4 DEF RefreshSchemas, RefreshTables, ViewData, OpenConsole, ConsoleQueries, QueryFails,
     RequestFails
<1>5. CASE AskDropTable \/ AskDropSchema \/ AnswerNo \/ DropFails \/ TableDroppedOk \/ SchemaDroppedOk
  BY <1>5 DEF AskDropTable, AskDropSchema, AnswerNo, DropFails, TableDroppedOk, SchemaDroppedOk
<1>6. CASE LoseLink \/ UNCHANGED vars
  BY <1>6 DEF LoseLink, vars
<1>7. CASE ConsoleExecutes \/ Back \/ Reconnect
  BY <1>7 DEF ConsoleExecutes, Back, Reconnect
<1> QED
  BY <1>1, <1>2, <1>3, <1>4, <1>5, <1>6, <1>7 DEF ChangesDropped, Next, Navigate, Drop, World

\* What was dropped stays gone until it is created again, which is noticed.
LEMMA DroppedKept ==
    ASSUME IInv, [Next]_vars
    PROVE  DroppedOK'
<1>0. ServerOK /\ StackOK /\ DroppedOK
  BY DEF IInv, ScreensOK
<1>1. ASSUME NEW s \in Schemas, CreateSchema(s) PROVE DroppedOK'
  BY <1>0, <1>1, CreatedKeeps DEF CreateSchema
<1>2. ASSUME NEW s \in Schemas, OtherSchema(s) PROVE DroppedOK'
  <2>1. CASE s \in Existing
    BY <1>0, <1>2, <2>1 DEF OtherSchema, DroppedOK, Existing, ServerOK, Nothing
  <2>2. CASE s \notin Existing
    BY <1>0, <1>2, <2>2, CreatedKeeps DEF OtherSchema
  <2> QED
    BY <2>1, <2>2
<1>3. CASE DesignerCreates
  <2>1. CASE UNCHANGED <<databases, dropped>>
    BY <1>0, <2>1 DEF DroppedOK, Existing, Nothing
  <2>2. CASE ~UNCHANGED <<databases, dropped>>
    <3>1. /\ Top.schema \in Existing /\ Top.name \in Tables /\ Recreated(Top.schema, Top.name)
          /\ databases' = [databases EXCEPT ![Top.schema] = @ \cup {Top.name}]
      BY <1>0, <1>3, <2>2, TopOK DEF DesignerCreates, InFront, Named, Select
    <3> QED
      BY <1>0, <3>1, AddedKeeps
  <2> QED
    BY <2>1, <2>2
<1>4. CASE OtherClient
  <2>1. ASSUME NEW s \in Existing, NEW t \in Tables \ databases[s],
               databases' = [databases EXCEPT ![s] = @ \cup {t}], Recreated(s, t)
        PROVE  DroppedOK'
    BY <1>0, <2>1, AddedKeeps
  <2>2. ASSUME NEW s \in Existing, NEW t \in databases[s],
               databases' = [databases EXCEPT ![s] = @ \ {t}], UNCHANGED dropped
        PROVE  DroppedOK'
    BY <1>0, <2>2 DEF DroppedOK, Existing, ServerOK, Nothing
  <2> QED
    BY <1>4, <2>1, <2>2 DEF OtherClient
<1>5. CASE DeleteTable
  <2>1. CASE UNCHANGED <<databases, dropped>>
    BY <1>0, <2>1 DEF DroppedOK, Existing, Nothing
  <2>2. CASE ~UNCHANGED <<databases, dropped>>
    <3>1. PICK s \in Existing : /\ Top.name \in databases[s]
                                /\ databases' = [databases EXCEPT ![s] = @ \ {Top.name}]
                                /\ dropped' = [schema |-> s, table |-> Top.name]
      BY <1>5, <2>2 DEF DeleteTable, DropsIn, Select
    <3>2. s \in Schemas /\ Top.name \in Tables /\ Existing' = Existing
      BY <1>0, <3>1 DEF ServerOK, Existing
    <3> QED
      BY <1>0, <3>1, <3>2, BrowserAssumption DEF BrowserAssumption, DroppedOK, Existing, ServerOK
  <2> QED
    BY <2>1, <2>2
<1>6. CASE DropSchema
  <2>1. CASE UNCHANGED <<databases, dropped>>
    BY <1>0, <2>1 DEF DroppedOK, Existing, Nothing
  <2>2. CASE ~UNCHANGED <<databases, dropped>>
    <3>1. /\ Top.schema \in Existing
          /\ databases' = [x \in Existing \ {Top.schema} |-> databases[x]]
          /\ dropped' = [schema |-> Top.schema, table |-> None]
      BY <1>6, <2>2 DEF DropSchema
    <3>2. Top.schema \in Schemas /\ Top.schema \notin Existing'
      BY <1>0, <3>1 DEF ServerOK, Existing
    <3> QED
      BY <3>1, <3>2 DEF DroppedOK
  <2> QED
    BY <2>1, <2>2
<1>7. CASE UNCHANGED <<databases, dropped>>
  BY <1>0, <1>7 DEF DroppedOK, Existing, Nothing
<1>8. CASE dropped' = Nothing
  BY <1>8 DEF DroppedOK, Nothing
<1> QED
  BY <1>1, <1>2, <1>3, <1>4, <1>5, <1>6, <1>7, <1>8, OthersKeepDropped DEF ChangesDropped
-----------------------------------------------------------------------------
(***************************************************************************)
(* The screens, their alerts and their lists.                              *)
(***************************************************************************)
\* A step that changes neither the stack nor the alert.
LEMMA QuietKeeps ==
    ASSUME ScreensOK, UNCHANGED <<stack, main>>, dropped' \in {dropped, Nothing}
    PROVE  ScreensOK'
<1>1. StackOK' /\ AlertOK'
  BY DEF ScreensOK, StackOK, AlertOK, Top
<1>2. CASE dropped' = dropped
  BY <1>1, <1>2 DEF ScreensOK, ListsOK, DropsTheListedTable, Top, Omits, Nothing
<1>3. CASE dropped' = Nothing
  BY <1>1, <1>3 DEF ScreensOK, ListsOK, DropsTheListedTable, Nothing
<1> QED
  BY <1>2, <1>3

\* The app is gone, or its user cannot go on.
LEMMA EndKeeps ==
    ASSUME StackOK', main' \in {"crashed", "stranded"}
    PROVE  ScreensOK'
BY DEF ScreensOK, AlertOK, ListsOK, DropsTheListedTable

\* Screen f comes to the front and what was dropped is not in it.
LEMMA ArrivesKeeps ==
    ASSUME StackOK', NEW f, Top' = f, main' \in {"idle", "crashed", "stranded"},
           f.kind # "designer", dropped' # Nothing => Omits(f)'
    PROVE  ScreensOK'
<1>1. AlertOK' /\ DropsTheListedTable'
  BY DEF AlertOK, DropsTheListedTable
<1>2. ListsOK'
  BY DEF ListsOK, Nothing
<1> QED
  BY <1>1, <1>2 DEF ScreensOK

\* Screen f is pushed by a step that drops nothing.
LEMMA PushedKeeps ==
    ASSUME ScreensOK, NEW f \in Frames, Named(f), Len(stack) < MaxDepth,
           stack' = Append(stack, f), main' \in {"idle", "crashed", "stranded"},
           f.kind # "designer", UNCHANGED dropped, dropped # Nothing => Omits(f)
    PROVE  ScreensOK'
<1>1. StackOK' /\ Top' = f
  BY PushKeeps DEF ScreensOK
<1>2. dropped' # Nothing => Omits(f)'
  BY DEF Omits, Nothing
<1> QED
  BY <1>1, <1>2, ArrivesKeeps

\* Only lists can show what was dropped.
LEMMA OthersOmit ==
    ASSUME NEW f, f.kind \notin {"tables", "schemas"}
    PROVE  Omits(f)
BY DEF Omits

\* A list just read does not show it, nor does an empty one.
LEMMA FetchedOmits ==
    ASSUME DroppedOK, dropped # Nothing, NEW f
    PROVE  /\ f.list = {} => Omits(f)
           /\ f.kind = "schemas" /\ f.list = Existing => Omits(f)
           /\ f.kind = "tables" /\ f.schema \in Existing /\ f.list = databases[f.schema]
                 /\ ServerOK => Omits(f)
<1>1. f.list = {} => Omits(f)
  BY DEF Omits
<1>2. f.kind = "schemas" /\ f.list = Existing => Omits(f)
  BY DEF Omits, DroppedOK
<1>3. ASSUME f.kind = "tables", f.schema \in Existing, f.list = databases[f.schema], ServerOK
      PROVE  Omits(f)
  <2>1. f.list \subseteq Tables
    BY <1>3 DEF ServerOK, Existing
  <2>2. None \notin f.list
    BY <2>1, BrowserAssumption DEF BrowserAssumption
  <2> QED
    BY <1>3, <2>2 DEF Omits, DroppedOK
<1> QED
  BY <1>1, <1>2, <1>3

\* The steps that push a screen without a list.
LEMMA OpensKeep ==
    ASSUME ScreensOK, main = "idle",
           \/ \E s \in Schemas : OpenSchemaOptions(s)
           \/ \E t \in Tables : OpenTableOptions(t) \/ OpenDesigner(t)
           \/ OpenConsole
    PROVE  ScreensOK'
<1>0. StackOK /\ Top \in Frames /\ Top.schema \in Schemas \cup {None}
  BY TopOK DEF ScreensOK, Frames
<1>1. ASSUME NEW s \in Schemas, OpenSchemaOptions(s) PROVE ScreensOK'
  <2> DEFINE f == [Child("schemaOptions") EXCEPT !.schema = s]
  <2>1. f \in Frames /\ f.kind = "schemaOptions"
    <3>1. Child("schemaOptions") \in Frames /\ Child("schemaOptions").kind = "schemaOptions"
      BY <1>0, ChildOK DEF Kinds
    <3> QED
      BY <1>0, <3>1 DEF Frames
  <2>2. Named(f) /\ Omits(f)
    BY <2>1, OthersOmit DEF Named
  <2> QED
    BY <1>1, <2>1, <2>2, PushedKeeps DEF OpenSchemaOptions, Push, InFront
<1>2. ASSUME NEW t \in Tables, OpenTableOptions(t) PROVE ScreensOK'
  <2> DEFINE f == [Child("tableOptions") EXCEPT !.schema = Top.schema, !.name = t]
  <2>1. f \in Frames /\ f.kind = "tableOptions" /\ f.name = t
    <3>1. Child("tableOptions") \in Frames /\ Child("tableOptions").kind = "tableOptions"
      BY <1>0, ChildOK DEF Kinds
    <3> QED
      BY <1>0, <3>1 DEF Frames
  <2>2. Named(f) /\ Omits(f)
    BY <2>1, OthersOmit DEF Named
  <2> QED
    BY <1>2, <2>1, <2>2, PushedKeeps DEF OpenTableOptions, Push, InFront
<1>3. ASSUME NEW t \in Tables, OpenDesigner(t) PROVE ScreensOK'
  <2> DEFINE f == [Child("designer") EXCEPT !.schema = Top.schema, !.name = t]
  <2>1. f \in Frames /\ f.kind = "designer" /\ f.name = t
    <3>1. Child("designer") \in Frames /\ Child("designer").kind = "designer"
      BY <1>0, ChildOK DEF Kinds
    <3> QED
      BY <1>0, <3>1 DEF Frames
  <2>2. StackOK' /\ Top' = f /\ stack'[Len(stack') - 1] = Top
    BY <1>0, <1>3, <2>1, PushKeeps DEF OpenDesigner, Push, InFront, Named
  <2>3. dropped' # Nothing => Omits(Top) /\ Omits(f)
    BY <1>3, <2>1, OthersOmit DEF ScreensOK, ListsOK, OpenDesigner, Nothing
  <2>4. ListsOK'
    BY <1>3, <2>2, <2>3 DEF ListsOK, Omits, Nothing, OpenDesigner
  <2> QED
    BY <1>3, <2>2, <2>4 DEF ScreensOK, AlertOK, DropsTheListedTable, OpenDesigner
<1>4. CASE OpenConsole
  <2>1. Child("console") \in Frames /\ Child("console").kind = "console"
    BY <1>0, ChildOK DEF Kinds
  <2>2. Named(Child("console")) /\ Omits(Child("console"))
    BY <2>1, OthersOmit DEF Named
  <2> QED
    BY <1>4, <2>1, <2>2, PushedKeeps DEF OpenConsole, Push
<1> QED
  BY <1>1, <1>2, <1>3, <1>4

\* The lists of schemas: opened, refreshed, or shown again after a drop.
LEMMA SchemasKeep ==
    ASSUME IInv, NEW list \in {Existing, {}}, UNCHANGED dropped, main' \in {"idle", "crashed"},
           \/ \E n \in 0..2 : Push([Child("schemas") EXCEPT !.flag = n, !.list = list])
           \/ /\ main = "idle" /\ Top.kind = "schemas"
              /\ stack' = Append(Below, [Top EXCEPT !.list = list])
    PROVE  ScreensOK'
<1>0. StackOK /\ Top \in Frames /\ list \in SUBSET (Schemas \cup Tables)
  BY TopOK DEF IInv, ScreensOK, ServerOK, Existing
<1>1. ASSUME NEW n \in 0..2, Push([Child("schemas") EXCEPT !.flag = n, !.list = list])
      PROVE  ScreensOK'
  <2> DEFINE f == [Child("schemas") EXCEPT !.flag = n, !.list = list]
  <2>1. f \in Frames /\ f.kind = "schemas" /\ f.list = list
    <3>1. Child("schemas") \in Frames /\ Child("schemas").kind = "schemas"
      BY <1>0, ChildOK DEF Kinds
    <3> QED
      BY <1>0, <3>1 DEF Frames
  <2>2. Named(f) /\ (dropped # Nothing => Omits(f))
    BY <2>1, FetchedOmits DEF Named, IInv
  <2> QED
    BY <1>1, <2>1, <2>2, PushedKeeps DEF Push, IInv
<1>2. ASSUME Top.kind = "schemas", stack' = Append(Below, [Top EXCEPT !.list = list])
      PROVE  ScreensOK'
  <2>0. PICK f : f = [Top EXCEPT !.list = list]
    OBVIOUS
  <2>1. f \in Frames /\ f.kind = Top.kind /\ f.name = Top.name /\ f.list = list
    BY <1>0, <2>0 DEF Frames
  <2>2. StackOK' /\ Top' = f
    BY <1>0, <1>2, <2>0, <2>1, ReplaceKeeps
  <2>3. dropped # Nothing => Omits(f)
    BY <1>2, <2>1, FetchedOmits DEF IInv
  <2>4. dropped' # Nothing => Omits(f)'
    BY <2>3 DEF Omits, Nothing
  <2> QED
    BY <1>2, <2>1, <2>2, <2>4, ArrivesKeeps
<1> QED
  BY <1>1, <1>2

\* reloadTableData of a list f of tables that is pushed or in front.
LEMMA ReloadKeeps ==
    ASSUME IInv, NEW f \in Frames, f.kind = "tables", NEW b \in BOOLEAN, NEW under,
           main = "idle", UNCHANGED dropped, dropped # Nothing => Omits(f),
           ReloadTableData(f, b, under),
           \/ under = stack /\ Len(stack) < MaxDepth
           \/ under = Below /\ f.kind = Top.kind /\ f.name = Top.name
    PROVE  ScreensOK'
<1>0. StackOK
  BY DEF IInv, ScreensOK
<1>1. ASSUME NEW g \in Frames, g.kind = "tables", g.name = f.name, stack' = Append(under, g)
      PROVE  StackOK' /\ Top' = g
  BY <1>0, <1>1, PushKeeps, ReplaceKeeps DEF Named
<1>2. ASSUME Select(f.schema), SelectThrough(f), NEW list \in {databases[f.schema], f.list},
             stack' = Append(under, [f EXCEPT !.list = list, !.stale = FALSE])
      PROVE  ScreensOK'
  <2> DEFINE g == [f EXCEPT !.list = list, !.stale = FALSE]
  <2>1. list \in SUBSET (Schemas \cup Tables) /\ f.schema \in Existing
    BY <1>2 DEF Select, Frames, IInv, ServerOK, Existing
  <2>2. g \in Frames /\ g.kind = f.kind /\ g.name = f.name /\ g.schema = f.schema /\ g.list = list
    BY <2>1 DEF Frames
  <2>3. dropped # Nothing => Omits(g)
    <3>1. CASE list = databases[f.schema]
      BY <2>1, <2>2, <3>1, FetchedOmits DEF IInv
    <3>2. CASE list = f.list
      BY <2>2, <3>2 DEF Omits
    <3> QED
      BY <3>1, <3>2
  <2>4. dropped' # Nothing => Omits(g)'
    BY <2>3 DEF Omits, Nothing
  <2>5. main' \in {"idle", "crashed", "stranded"}
    BY <1>2 DEF SelectThrough
  <2> QED
    BY <1>1, <1>2, <2>2, <2>4, <2>5, ArrivesKeeps
<1>3. ASSUME main' \in {"stranded", main}, stack' = Append(under, f)
      PROVE  ScreensOK'
  <2>1. dropped' # Nothing => Omits(f)'
    BY DEF Omits, Nothing
  <2> QED
    BY <1>1, <1>3, <2>1, ArrivesKeeps
<1>4. ASSUME stack' = <<Frame("servers")>>, Dangling \/ UNCHANGED main
      PROVE  ScreensOK'
  <2>1. StackOK' /\ Top' = Frame("servers") /\ Frame("servers").kind = "servers"
    BY <1>4, RootKeeps DEF Frame
  <2>2. Omits(Frame("servers"))'
    BY <2>1 DEF Omits, Frame
  <2> QED
    BY <1>4, <2>1, <2>2, ArrivesKeeps DEF Dangling
<1> QED
  BY <1>2, <1>3, <1>4 DEF ReloadTableData

\* A question or report is closed over the options it was shown in: what was
\* dropped does not matter there.
LEMMA ClosesKeeps ==
    ASSUME StackOK', Top'.kind \in {"tableOptions", "schemaOptions"},
           main' \in {"idle", "crashed", "stranded"}
    PROVE  ScreensOK'
<1>1. Omits(Top)'
  BY DEF Omits
<1> QED
  BY <1>1 DEF ScreensOK, AlertOK, ListsOK, DropsTheListedTable

\* The steps of a drop.
LEMMA DropKeeps ==
    ASSUME IInv, Drop
    PROVE  ScreensOK'
<1>0. StackOK /\ AlertOK /\ ScreensOK
  BY DEF IInv, ScreensOK
<1>1. ASSUME UNCHANGED stack PROVE StackOK' /\ Top' = Top
  BY <1>0, <1>1 DEF StackOK, Top
<1>2. CASE AskDropTable \/ AskDropSchema
  BY <1>0, <1>1, <1>2 DEF AskDropTable, AskDropSchema, InFront, ScreensOK, AlertOK, ListsOK,
     DropsTheListedTable
<1>3. CASE AnswerNo
  BY <1>0, <1>1, <1>3, ClosesKeeps DEF AnswerNo, AlertOK
<1>4. CASE DeleteTable
  <2>1. StackOK' /\ Top'.kind = "tableOptions" /\ Top'.schema = Top.schema /\ Top'.name = Top.name
    BY <1>0, <1>4, ToolKeeps DEF DeleteTable, AlertOK
  <2>2. CASE main' = "idle"
    BY <2>1, <2>2, ClosesKeeps
  <2>3. CASE main' = "droppedTable"
    <3>1. dropped' = [schema |-> Top.schema, table |-> Top.name]
      BY <1>4, <2>3 DEF DeleteTable, Select, DropsIn
    <3> QED
      BY <2>1, <2>3, <3>1 DEF ScreensOK, AlertOK, ListsOK, DropsTheListedTable
  <2>4. CASE main' = "crashed"
    BY <2>1, <2>4, EndKeeps
  <2> QED
    BY <1>4, <2>2, <2>3, <2>4 DEF DeleteTable
<1>5. CASE DropSchema
  <2>1. StackOK' /\ Top'.kind = "schemaOptions"
    BY <1>0, <1>1, <1>5 DEF DropSchema, AlertOK
  <2>2. CASE main' = "idle"
    BY <2>1, <2>2, ClosesKeeps
  <2>3. CASE main' = "droppedSchema"
    BY <2>1, <2>3 DEF ScreensOK, AlertOK, ListsOK, DropsTheListedTable
  <2> QED
    BY <1>5, <2>2, <2>3 DEF DropSchema
<1>6. CASE DropFails
  BY <1>0, <1>1, <1>6, ClosesKeeps DEF DropFails, AlertOK, Dangling
<1>7. CASE TableDroppedOk
  <2>0. PICK f : f = [Child("tables") EXCEPT !.schema = Top.schema]
    OBVIOUS
  <2>1. f \in Frames /\ f.kind = "tables" /\ f.list = {} /\ f.schema = Top.schema
    <3>1. /\ Child("tables") \in Frames /\ Child("tables").kind = "tables"
          /\ Child("tables").list = {}
      BY <1>0, ChildOK DEF Kinds
    <3>2. Top.schema \in Schemas \cup {None}
      BY <1>0, TopOK DEF Frames
    <3> QED
      BY <2>0, <3>1, <3>2 DEF Frames
  <2>2. UNCHANGED dropped /\ Len(stack) < MaxDepth /\ main' \in {"idle", "crashed"}
    BY <1>7 DEF TableDroppedOk, Dangling
  <2>3. ASSUME Select(f.schema), NEW list \in {databases[f.schema], {}},
               stack' = Append(stack, [f EXCEPT !.list = list, !.stale = FALSE])
        PROVE  ScreensOK'
    <3> DEFINE g == [f EXCEPT !.list = list, !.stale = FALSE]
    <3>1. list \in SUBSET (Schemas \cup Tables) /\ f.schema \in Existing
      BY <2>3 DEF Select, IInv, ServerOK, Existing
    <3>2. g \in Frames /\ g.kind = "tables" /\ g.schema = f.schema /\ g.list = list
      BY <2>1, <3>1 DEF Frames
    <3>3. Named(g) /\ (dropped # Nothing => Omits(g))
      BY <3>1, <3>2, FetchedOmits DEF IInv, Named
    <3> QED
      BY <1>0, <2>2, <2>3, <3>2, <3>3, PushedKeeps
  <2>4. ASSUME stack' = Append(stack, f) PROVE ScreensOK'
    <3>1. Named(f) /\ (dropped # Nothing => Omits(f))
      BY <2>1, FetchedOmits DEF IInv, Named
    <3> QED
      BY <1>0, <2>1, <2>2, <2>4, <3>1, PushedKeeps
  <2>5. ASSUME stack' = <<Frame("servers")>> PROVE ScreensOK'
    <3>1. StackOK' /\ Top' = Frame("servers") /\ Frame("servers").kind = "servers"
      BY <2>5, RootKeeps DEF Frame
    <3>2. Omits(Frame("servers"))'
      BY <3>1 DEF Omits, Frame
    <3> QED
      BY <2>2, <3>1, <3>2, ArrivesKeeps
  <2> QED
    BY <1>7, <2>0, <2>3, <2>4, <2>5 DEF TableDroppedOk
<1>8. CASE SchemaDroppedOk
  <2>1. PICK list \in {Existing, {}} : Push([Child("schemas") EXCEPT !.flag = 1, !.list = list])
    BY <1>8 DEF SchemaDroppedOk
  <2>2. UNCHANGED dropped /\ main' \in {"idle", "crashed"}
    BY <1>8 DEF SchemaDroppedOk, Dangling
  <2>3. 1 \in 0..2
    OBVIOUS
  <2> QED
    BY <2>1, <2>2, <2>3, SchemasKeep
<1> QED
  BY <1>2, <1>3, <1>4, <1>5, <1>6, <1>7, <1>8 DEF Drop

\* The other steps of the user.
LEMMA NavigateKeeps ==
    ASSUME IInv, Navigate
    PROVE  ScreensOK'
<1>0. StackOK /\ AlertOK /\ ScreensOK
  BY DEF IInv, ScreensOK
<1>1. ASSUME UNCHANGED stack PROVE StackOK' /\ Top' = Top
  BY <1>0, <1>1 DEF StackOK, Top
<1>2. ASSUME NEW row \in 0..1, OpenSchemas(row) PROVE ScreensOK'
  <2>1. PICK list \in {Existing, {}} :
           /\ FetchedSchemas(list)
           /\ Push([Child("schemas") EXCEPT !.flag = FlagOf(row), !.list = list])
    BY <1>2 DEF OpenSchemas
  <2>2. UNCHANGED dropped /\ main' \in {"idle", "crashed"}
    BY <1>2, <2>1 DEF OpenSchemas, InFront, FetchedSchemas, Dangling
  <2>3. FlagOf(row) \in 0..2
    BY DEF FlagOf
  <2> QED
    BY <2>1, <2>2, <2>3, SchemasKeep
<1>3. CASE RefreshSchemas
  <2>1. PICK list \in {Existing, {}} :
           FetchedSchemas(list) /\ stack' = Append(Below, [Top EXCEPT !.list = list])
    BY <1>3 DEF RefreshSchemas
  <2>2. UNCHANGED dropped /\ main = "idle" /\ main' \in {"idle", "crashed"} /\ Top.kind = "schemas"
    BY <1>3, <2>1 DEF RefreshSchemas, InFront, FetchedSchemas, Dangling
  <2> QED
    BY <2>1, <2>2, SchemasKeep
<1>4. CASE RefreshTables
  <2>1. Top \in Frames /\ main = "idle" /\ Top.kind = "tables" /\ UNCHANGED dropped
    BY <1>0, <1>4, TopOK DEF RefreshTables, InFront
  <2>2. dropped # Nothing => Omits(Top)
    BY <1>0, <2>1 DEF ScreensOK, ListsOK
  <2> QED
    BY <1>4, <2>1, <2>2, ReloadKeeps DEF RefreshTables
<1>5. ASSUME NEW s \in Schemas, OpenTables(s) PROVE ScreensOK'
  <2> DEFINE f == [Child("tables") EXCEPT !.schema = s]
  <2>1. f \in Frames /\ f.kind = "tables" /\ f.list = {}
    <3>1. /\ Child("tables") \in Frames /\ Child("tables").kind = "tables"
          /\ Child("tables").list = {}
      BY <1>0, ChildOK DEF Kinds
    <3> QED
      BY <3>1 DEF Frames
  <2>2. dropped # Nothing => Omits(f)
    BY <2>1, FetchedOmits DEF IInv
  <2>3. /\ main = "idle" /\ UNCHANGED dropped /\ Len(stack) < MaxDepth
        /\ ReloadTableData(f, FALSE, stack)
    BY <1>5 DEF OpenTables, InFront
  <2> QED
    BY <2>1, <2>2, <2>3, ReloadKeeps
<1>6. ASSUME NEW s \in Schemas, CreateSchema(s) PROVE ScreensOK'
  BY <1>0, <1>6, QuietKeeps DEF CreateSchema, Recreated
<1>7. ASSUME \/ \E s \in Schemas : OpenSchemaOptions(s)
             \/ \E t \in Tables : OpenTableOptions(t) \/ OpenDesigner(t)
             \/ OpenConsole
      PROVE  ScreensOK'
  BY <1>0, <1>7, OpensKeep DEF OpenSchemaOptions, OpenTableOptions, OpenDesigner, OpenConsole,
     InFront
<1>8. CASE DesignerCreates
  <2>1. /\ main = "idle" /\ Top.kind = "designer" /\ dropped' \in {dropped, Nothing}
        /\ \/ stack' = Front(Staled) /\ UNCHANGED main
           \/ stack' = Staled /\ UNCHANGED dropped /\ main' \in {"idle", "crashed"}
    BY <1>8 DEF DesignerCreates, InFront, Recreated, SelectThrough
  <2>2. PICK f : f = stack[Len(stack) - 1]
    OBVIOUS
  <2>3. dropped # Nothing => Omits(f)
    BY <1>0, <2>1, <2>2 DEF ScreensOK, ListsOK
  <2>4. f.kind = "tables"
    BY <1>0, <2>1, <2>2, TopOK
  <2>5. CASE stack' = Front(Staled) /\ UNCHANGED main
    <3>1. PICK g : g = Top'
      OBVIOUS
    <3>2. StackOK' /\ g.kind = "tables" /\ g.schema = f.schema /\ g.list = f.list
      BY <1>0, <2>1, <2>2, <2>5, <3>1, DesignerKeeps
    <3>3. dropped' # Nothing => Omits(g)'
      BY <2>1, <2>3, <2>4, <3>2 DEF Omits
    <3> QED
      BY <2>1, <2>5, <3>1, <3>2, <3>3, ArrivesKeeps
  <2>6. CASE stack' = Staled /\ UNCHANGED dropped /\ main' = "idle"
    <3>1. PICK g : g = stack'[Len(stack) - 1]
      OBVIOUS
    <3>2. /\ StackOK' /\ Top'.kind = "designer" /\ Len(stack') = Len(stack)
          /\ g.kind = "tables" /\ g.schema = f.schema /\ g.list = f.list
      BY <1>0, <2>1, <2>2, <2>6, <3>1, DesignerKeeps
    <3>3. dropped' # Nothing => Omits(g)' /\ Omits(Top)'
      BY <2>3, <2>4, <2>6, <3>2 DEF Omits
    <3>4. ListsOK'
      BY <3>1, <3>2, <3>3 DEF ListsOK
    <3> QED
      BY <2>6, <3>2, <3>4 DEF ScreensOK, AlertOK, DropsTheListedTable
  <2>7. CASE stack' = Staled /\ main' = "crashed"
    BY <1>0, <2>1, <2>7, DesignerKeeps, EndKeeps
  <2> QED
    BY <2>1, <2>5, <2>6, <2>7
<1>9. CASE ViewData \/ ConsoleQueries
  <2>1. main = "idle" /\ UNCHANGED dropped /\ (ShowResult \/ UNCHANGED <<stack, main>>)
    BY <1>9 DEF ViewData, ConsoleQueries, InFront
  <2>2. CASE Push(Frame("result")) /\ UNCHANGED main
    <3>1. Frame("result") \in Frames /\ Frame("result").kind = "result"
      BY <1>0, ChildOK DEF Kinds
    <3> QED
      BY <1>0, <2>1, <2>2, <3>1, OthersOmit, PushedKeeps DEF Push, Named
  <2>3. CASE main' = "crashed" /\ UNCHANGED stack
    BY <1>1, <2>3, EndKeeps
  <2>4. CASE UNCHANGED <<stack, main>>
    BY <1>0, <2>1, <2>4, QuietKeeps
  <2> QED
    BY <2>1, <2>2, <2>3, <2>4 DEF ShowResult
<1>10. CASE ConsoleExecutes
  BY <1>0, <1>10, QuietKeeps DEF ConsoleExecutes
<1>11. CASE QueryFails
  <2>1. UNCHANGED <<stack, dropped>> /\ (UNCHANGED main \/ main' = "crashed")
    BY <1>11 DEF QueryFails, RequestFails, Dangling
  <2> QED
    BY <1>0, <1>1, <2>1, QuietKeeps, EndKeeps
<1>12. CASE Back
  <2>1. StackOK'
    BY <1>0, <1>12, BelowKeeps DEF Back
  <2> QED
    BY <1>12, <2>1 DEF Back, ScreensOK, AlertOK, ListsOK, DropsTheListedTable, Nothing
<1>13. CASE Reconnect
  <2>1. StackOK' /\ main' = "idle" /\ dropped' = Nothing
    BY <1>13, RootKeeps DEF Reconnect, InFront
  <2> QED
    BY <2>1 DEF ScreensOK, AlertOK, ListsOK, DropsTheListedTable, Nothing
<1> QED
  BY <1>2, <1>3, <1>4, <1>5, <1>6, <1>7, <1>8, <1>9, <1>10, <1>11, <1>12, <1>13 DEF Navigate

\* Every step keeps the screens in order.
LEMMA ScreensKept ==
    ASSUME IInv, [Next]_vars
    PROVE  ScreensOK'
<1>1. CASE World \/ UNCHANGED vars
  <2>1. UNCHANGED <<stack, main>> /\ dropped' \in {dropped, Nothing}
    BY <1>1 DEF World, OtherClient, OtherSchema, LoseLink, vars, Recreated
  <2> QED
    BY <2>1, QuietKeeps DEF IInv
<1> QED
  BY <1>1, DropKeeps, NavigateKeeps DEF Next
-----------------------------------------------------------------------------
(***************************************************************************)
(* The theorems.                                                           *)
(***************************************************************************)
\* The menu over any set of databases.
LEMMA InitIInv == ASSUME Init PROVE IInv
<1>1. ServerOK
  BY DatabasesType DEF Init, ServerOK, Existing
<1>2. DroppedOK
  BY DEF Init, DroppedOK, Nothing
<1>3. Frame("menu") \in Frames /\ Frame("menu").kind = "menu"
  BY DEF Frame, Frames, Kinds
<1>4. Len(stack) = 1 /\ stack[1] = Frame("menu") /\ stack \in Seq(Frames)
  BY <1>3 DEF Init
<1>5. StackOK
  BY <1>3, <1>4, BrowserAssumption DEF BrowserAssumption, StackOK, Named
<1> QED
  BY <1>1, <1>2, <1>5 DEF Init, IInv, ScreensOK, AlertOK, ListsOK, DropsTheListedTable

\* The invariant holds in every reachable state.
THEOREM Invariant == Spec => []IInv
<1>1. Init => IInv
  BY InitIInv
<1>2. IInv /\ [Next]_vars => IInv'
  BY ServerKept, DroppedKept, ScreensKept DEF IInv
<1> QED
  BY <1>1, <1>2, PTL DEF Spec

\* The types of the MySQL screens, for every set of names and every depth.
THEOREM TypeCorrect == Spec => []TypeOK
<1>1. IInv => TypeOK
  BY DatabasesType DEF IInv, ServerOK, DroppedOK, ScreensOK, StackOK, AlertOK, TypeOK, Existing
<1> QED
  BY <1>1, Invariant, PTL

\* The table reported deleted is the one that was tapped, in the schema whose
\* list it was tapped in (TableOptionsViewController.m, DROP TABLE without a
\* schema), whoever has changed the selected database in between.
THEOREM DropsTheRightTable == Spec => []DropsTheListedTable
<1>1. IInv => DropsTheListedTable
  BY DEF IInv, ScreensOK
<1> QED
  BY <1>1, Invariant, PTL

\* The list shown after a reported drop omits what was dropped, through every
\* refresh, designer and other client, until the user goes back or it is created
\* again.
THEOREM DroppedStaysUnlisted == Spec => []DroppedIsNotListed
<1>1. IInv => DroppedIsNotListed
  BY DEF IInv, ScreensOK, ListsOK, Omits, DroppedIsNotListed
<1> QED
  BY <1>1, Invariant, PTL
=============================================================================
