------------------------- MODULE ServerStore_proofs -------------------------
(***************************************************************************)
(* Proofs about the saved servers, for every number of operating systems,  *)
(* every pair of seed lists and every set of servers.                      *)
(***************************************************************************)
EXTENDS ServerStore, TLAPS

\* A row that was written is in the context, unchanged: rows are only added.
RowsKept == \A k \in IDs : diskOS[k] # None => ctxOS[k] = diskOS[k]

\* The loop leaves no id behind it without a row.
SeededSoFar == screen \in Seeding => \A k \in IDs : k < next => ctxOS[k] # None

\* The screens of one server hold one, which is in the context unless its
\* deletion was confirmed.
OverviewHeld ==
    /\ screen \in {"overview", "deleteFailed", "seedEdit", "edit"} => overview # None
    /\ overview # None => overview \in Objects /\ (ctxServers[overview] # None \/ overview \in asked)

\* So is every server a list shows: a row may outlive its server.
ListsHeld ==
    /\ \A s \in bottom : ctxServers[s] # None \/ s \in asked
    /\ pushed # None => \A s \in pushed : ctxServers[s] # None \/ s \in asked

\* Only a confirmed deletion is pending.
PendingAsked == \A s \in Objects : diskServers[s] # None /\ ctxServers[s] = None => s \in asked

\* What was reported holds of the context as well.
ReportsHold ==
    \A s \in Objects :
        /\ told[s] = "deleted" => diskServers[s] = None /\ ctxServers[s] = None
        /\ told[s] = "saved" /\ s \notin asked => diskServers[s] # None /\ ctxServers[s] # None

IInv == /\ TypeOK /\ RowsKept /\ SeededSoFar /\ PickerComplete /\ ResolvesToChosen
        /\ OverviewHeld /\ ListsHeld /\ PendingAsked /\ ReportsHold

\* Every seeded name is a name.
LEMMA SeedNames == \A k \in IDs : OptionsSeeds[k] \in OSNames /\ NewServerSeeds[k] \in OSNames
  BY DEF OSNames

\* The inductive invariant holds of an empty store.
LEMMA InitIInv == Init => IInv
<1> SUFFICES ASSUME Init PROVE IInv
  OBVIOUS
<1> USE StoreAssumption DEF Init, IDs
<1>1. TypeOK
  BY DEF TypeOK, Seeding
<1>2. RowsKept /\ SeededSoFar /\ PickerComplete
  BY DEF RowsKept, SeededSoFar, PickerComplete, Seeding
<1>3. ResolvesToChosen
  BY DEF ResolvesToChosen
<1>4. OverviewHeld /\ ListsHeld /\ PendingAsked /\ ReportsHold
  BY DEF OverviewHeld, ListsHeld, PendingAsked, ReportsHold
<1> QED
  BY <1>1, <1>2, <1>3, <1>4 DEF IInv

\* A step of the screens alone, which changes neither the store nor the context
\* nor a report, keeps the parts of the invariant that are about these.
LEMMA ScreenStep ==
    IInv /\ UNCHANGED <<diskVars, ctxVars, reports>>
      => RowsKept' /\ ResolvesToChosen' /\ PendingAsked' /\ ReportsHold'
<1> SUFFICES ASSUME IInv, UNCHANGED <<diskVars, ctxVars, reports>>
             PROVE RowsKept' /\ ResolvesToChosen' /\ PendingAsked' /\ ReportsHold'
  OBVIOUS
<1>1. UNCHANGED <<diskOS, diskServers, ctxOS, ctxServers, told, asked>>
  BY DEF diskVars, ctxVars, reports
<1>2. RowsKept' /\ ResolvesToChosen'
  BY <1>1 DEF IInv, RowsKept, ResolvesToChosen, Resolve
<1>3. PendingAsked' /\ ReportsHold'
  BY <1>1 DEF IInv, PendingAsked, ReportsHold
<1> QED
  BY <1>2, <1>3

\* Every action preserves it: saves that work and saves that fail alike.
LEMMA NextIInv == IInv /\ [Next]_vars => IInv'
<1> SUFFICES ASSUME IInv, [Next]_vars PROVE IInv'
  OBVIOUS
<1>0. /\ TypeOK /\ RowsKept /\ SeededSoFar /\ PickerComplete /\ ResolvesToChosen
      /\ OverviewHeld /\ ListsHeld /\ PendingAsked /\ ReportsHold
  BY DEF IInv
<1> USE <1>0, StoreAssumption, SeedNames
<1> USE DEF TypeOK, Seeding, IDs, diskVars, ctxVars, lists, reports
<1>1. CASE Relaunch
  <2> USE <1>1 DEF Relaunch
  <2>1. TypeOK'
    BY DEF AllServers
  <2>2. RowsKept' /\ SeededSoFar' /\ PickerComplete'
    BY DEF RowsKept, SeededSoFar, PickerComplete
  <2>3. ResolvesToChosen'
    BY DEF ResolvesToChosen, Resolve
  <2>4. OverviewHeld' /\ ListsHeld'
    BY DEF OverviewHeld, ListsHeld, AllServers
  <2>5. PendingAsked' /\ ReportsHold'
    BY DEF PendingAsked, ReportsHold
  <2> QED
    BY <2>1, <2>2, <2>3, <2>4, <2>5 DEF IInv
<1>2. CASE OpenOptions \/ OpenAddForm \/ OpenEditForm
  <2> USE <1>2 DEF OpenOptions, OpenAddForm, OpenEditForm
  <2>1. UNCHANGED <<diskVars, ctxVars, reports>>
    OBVIOUS
  <2>2. TypeOK'
    OBVIOUS
  <2>3. SeededSoFar' /\ PickerComplete'
    BY DEF SeededSoFar, PickerComplete
  <2>4. OverviewHeld' /\ ListsHeld'
    BY DEF OverviewHeld, ListsHeld
  <2> QED
    BY <2>1, <2>2, <2>3, <2>4, ScreenStep DEF IInv
<1>3. CASE SeedPresent
  <2> USE <1>3 DEF SeedPresent
  <2>1. UNCHANGED <<diskVars, ctxVars, reports>>
    OBVIOUS
  <2>2. TypeOK'
    OBVIOUS
  <2>3. SeededSoFar' /\ PickerComplete'
    BY DEF SeededSoFar, PickerComplete
  <2>4. OverviewHeld' /\ ListsHeld'
    BY DEF OverviewHeld, ListsHeld
  <2> QED
    BY <2>1, <2>2, <2>3, <2>4, ScreenStep DEF IInv
<1>4. CASE SeedMissing
  <2> USE <1>4 DEF SeedMissing
  <2>1. SeedsOfScreen[next] \in OSNames
    BY DEF SeedsOfScreen
  <2>2. ctxOS' \in [IDs -> OSNames \cup {None}] /\ UNCHANGED ctxServers
    BY <2>1
  <2>3. UNCHANGED <<screen, bottom, pushed, overview, row, told, asked>> /\ next' \in 1..(Len(OptionsSeeds) + 1)
    OBVIOUS
  <2>4. \A k \in IDs : ctxOS[k] # None => ctxOS'[k] = ctxOS[k]
    BY <2>1
  <2>5. ctxOS'[next] # None
    BY <2>1
  <2>6. (diskOS' = ctxOS' /\ diskServers' = ctxServers) \/ UNCHANGED <<diskOS, diskServers>>
    BY DEF SaveSucceeds, SaveFails
  <2>7. TypeOK'
    BY <2>2, <2>3, <2>6
  <2>8. RowsKept'
    BY <2>2, <2>4, <2>6 DEF RowsKept
  <2>9. SeededSoFar' /\ PickerComplete'
    BY <2>3, <2>4, <2>5 DEF SeededSoFar, PickerComplete
  <2>10. \A s \in Objects : /\ ctxServers[s] # None => ctxServers[s] \in ServerRows
                            /\ diskServers[s] # None => diskServers[s] \in ServerRows
    OBVIOUS
  <2>11. ResolvesToChosen'
    BY <2>2, <2>4, <2>6, <2>10 DEF ResolvesToChosen, Resolve, ServerRows
  <2>12. OverviewHeld' /\ ListsHeld' /\ PendingAsked' /\ ReportsHold'
    BY <2>2, <2>3, <2>6 DEF OverviewHeld, ListsHeld, PendingAsked, ReportsHold
  <2> QED
    BY <2>7, <2>8, <2>9, <2>11, <2>12 DEF IInv
<1>5. CASE SeedDone
  <2> USE <1>5 DEF SeedDone
  <2>1. UNCHANGED <<diskVars, ctxVars, reports>>
    OBVIOUS
  <2>2. TypeOK'
    BY DEF EditRows, ServerRows, OverviewHeld
  <2>3. SeededSoFar' /\ PickerComplete'
    BY DEF SeededSoFar, PickerComplete
  <2>4. OverviewHeld' /\ ListsHeld'
    BY DEF OverviewHeld, ListsHeld
  <2> QED
    BY <2>1, <2>2, <2>3, <2>4, ScreenStep DEF IInv
<1>6. ASSUME NEW r \in IDs, PickRow(r) PROVE IInv'
  <2> USE <1>6 DEF PickRow
  <2>1. UNCHANGED <<diskVars, ctxVars, reports>>
    OBVIOUS
  <2>2. TypeOK'
    OBVIOUS
  <2>3. SeededSoFar' /\ PickerComplete'
    BY DEF SeededSoFar, PickerComplete
  <2>4. OverviewHeld' /\ ListsHeld'
    BY DEF OverviewHeld, ListsHeld
  <2> QED
    BY <2>1, <2>2, <2>3, <2>4, ScreenStep DEF IInv
<1>7. ASSUME NEW s \in Objects, AddServer(s) PROVE IInv'
  <2> USE <1>7 DEF AddServer
  <2>1. FormRow \in ServerRows /\ Resolve(ctxOS, FormRow) = FormRow.shown
    BY DEF FormRow, ServerRows, PickerComplete, Resolve
  <2>2. /\ ctxServers' = [ctxServers EXCEPT ![s] = FormRow]
        /\ UNCHANGED <<ctxOS, next, bottom, pushed, overview, row, asked>>
    OBVIOUS
  <2>3. \/ /\ diskOS' = ctxOS /\ diskServers' = ctxServers'
           /\ told' = [told EXCEPT ![s] = "saved"] /\ screen' = "crashed"
        \/ UNCHANGED <<diskOS, diskServers, told, screen>>
    BY DEF SaveSucceeds, SaveFails
  <2>4. ctxServers' \in [Objects -> ServerRows \cup {None}]
    BY <2>1, <2>2
  <2>5. TypeOK'
    <3>1. told' \in [Objects -> {"nothing", "saved", "deleted"}]
      BY <2>3
    <3>2. /\ diskOS' \in [IDs -> OSNames \cup {None}]
          /\ diskServers' \in [Objects -> ServerRows \cup {None}]
      BY <2>3, <2>4
    <3> QED
      BY <2>2, <2>3, <2>4, <3>1, <3>2
  <2>6. RowsKept' /\ SeededSoFar' /\ PickerComplete'
    BY <2>2, <2>3 DEF RowsKept, SeededSoFar, PickerComplete
  <2>7. ResolvesToChosen'
    <3>1. \A t \in Objects : ctxServers'[t] # None =>
              Resolve(ctxOS, ctxServers'[t]) = ctxServers'[t].shown
      BY <2>1, <2>2 DEF ResolvesToChosen
    <3> QED
      BY <2>2, <2>3, <3>1 DEF ResolvesToChosen, Resolve
  <2>8. FormRow # None
    BY <2>1
  <2>9. OverviewHeld' /\ ListsHeld' /\ PendingAsked' /\ ReportsHold'
    BY <2>2, <2>3, <2>8 DEF OverviewHeld, ListsHeld, PendingAsked, ReportsHold
  <2> QED
    BY <2>5, <2>6, <2>7, <2>9 DEF IInv
<1>8. ASSUME NEW s \in Objects, OpenOverview(s) PROVE IInv'
  <2> USE <1>8 DEF OpenOverview, ListedServers
  <2>1. UNCHANGED <<diskVars, ctxVars, reports>>
    OBVIOUS
  <2>2. TypeOK'
    OBVIOUS
  <2>3. SeededSoFar' /\ PickerComplete'
    BY DEF SeededSoFar, PickerComplete
  <2>4. OverviewHeld' /\ ListsHeld'
    BY DEF OverviewHeld, ListsHeld
  <2> QED
    BY <2>1, <2>2, <2>3, <2>4, ScreenStep DEF IInv
<1>9. CASE EditServer
  <2> USE <1>9 DEF EditServer
  <2>1. FormRow \in ServerRows /\ Resolve(ctxOS, FormRow) = FormRow.shown
    BY DEF FormRow, ServerRows, PickerComplete, Resolve
  <2>2. overview \in Objects /\ (ctxServers[overview] # None \/ overview \in asked)
    BY DEF OverviewHeld
  <2>3. /\ ctxServers' = IF ctxServers[overview] = None THEN ctxServers
                         ELSE [ctxServers EXCEPT ![overview] = FormRow]
        /\ UNCHANGED <<ctxOS, next, bottom, row, asked>>
    OBVIOUS
  <2>4. \/ /\ diskOS' = ctxOS /\ diskServers' = ctxServers'
           /\ told' = [told EXCEPT ![overview] = "saved"] /\ screen' = "tabs"
           /\ pushed' = None /\ overview' = None
        \/ UNCHANGED <<diskOS, diskServers, told, screen, pushed, overview>>
    BY DEF SaveSucceeds, SaveFails
  <2>5. ctxServers' \in [Objects -> ServerRows \cup {None}]
    BY <2>1, <2>2, <2>3
  <2>6. TypeOK'
    BY <2>2, <2>3, <2>4, <2>5
  <2>7. RowsKept' /\ SeededSoFar' /\ PickerComplete'
    BY <2>3, <2>4 DEF RowsKept, SeededSoFar, PickerComplete
  <2>8. ResolvesToChosen'
    <3>1. \A s \in Objects : ctxServers'[s] # None =>
              Resolve(ctxOS, ctxServers'[s]) = ctxServers'[s].shown
      BY <2>1, <2>2, <2>3 DEF ResolvesToChosen
    <3> QED
      BY <2>3, <2>4, <3>1 DEF ResolvesToChosen, Resolve
  <2>9. \A s \in Objects : (ctxServers'[s] = None) = (ctxServers[s] = None)
    BY <2>1, <2>2, <2>3
  <2>10. OverviewHeld' /\ ListsHeld' /\ PendingAsked' /\ ReportsHold'
    BY <2>2, <2>3, <2>4, <2>9 DEF OverviewHeld, ListsHeld, PendingAsked, ReportsHold
  <2> QED
    BY <2>6, <2>7, <2>8, <2>10 DEF IInv
<1>10. CASE LeaveForm
  <2> USE <1>10 DEF LeaveForm
  <2>1. UNCHANGED <<diskVars, ctxVars, reports>>
    OBVIOUS
  <2>2. TypeOK'
    OBVIOUS
  <2>3. SeededSoFar' /\ PickerComplete'
    BY DEF SeededSoFar, PickerComplete
  <2>4. OverviewHeld' /\ ListsHeld'
    BY DEF OverviewHeld, ListsHeld
  <2> QED
    BY <2>1, <2>2, <2>3, <2>4, ScreenStep DEF IInv
<1>11. CASE DeleteServer
  <2> USE <1>11 DEF DeleteServer
  <2>1. overview \in Objects
    BY DEF OverviewHeld
  <2>2. /\ ctxServers' = [ctxServers EXCEPT ![overview] = None]
        /\ asked' = asked \cup {overview}
        /\ UNCHANGED <<ctxOS, next, bottom, row>>
    OBVIOUS
  <2>3. \/ /\ diskOS' = ctxOS /\ diskServers' = ctxServers'
           /\ told' = [told EXCEPT ![overview] = "deleted"]
           /\ \/ screen' = "tabs" /\ overview' = None /\ pushed' = AllServers(ctxServers')
              \/ screen' = "overview" /\ UNCHANGED <<overview, pushed>>
        \/ UNCHANGED <<diskOS, diskServers, told, overview, pushed>> /\ screen' = "deleteFailed"
    BY DEF SaveSucceeds, SaveFails
  <2>4. ctxServers' \in [Objects -> ServerRows \cup {None}] /\ asked' \subseteq Objects
    BY <2>1, <2>2
  <2>5. TypeOK'
    <3>1. pushed' = None \/ pushed' \subseteq Objects
      BY <2>3 DEF AllServers
    <3> QED
      BY <2>1, <2>2, <2>3, <2>4, <3>1
  <2>6. RowsKept' /\ SeededSoFar' /\ PickerComplete'
    BY <2>2, <2>3 DEF RowsKept, SeededSoFar, PickerComplete
  <2>7. ResolvesToChosen'
    <3>1. \A t \in Objects : ctxServers'[t] # None =>
              Resolve(ctxOS, ctxServers'[t]) = ctxServers'[t].shown
      BY <2>1, <2>2 DEF ResolvesToChosen
    <3> QED
      BY <2>2, <2>3, <3>1 DEF ResolvesToChosen, Resolve
  <2>8. OverviewHeld' /\ PendingAsked' /\ ReportsHold'
    BY <2>1, <2>2, <2>3 DEF OverviewHeld, PendingAsked, ReportsHold
  <2>9. ListsHeld'
    BY <2>1, <2>2, <2>3 DEF ListsHeld, AllServers
  <2> QED
    BY <2>5, <2>6, <2>7, <2>8, <2>9 DEF IInv
<1>12. CASE RefreshList
  <2> USE <1>12 DEF RefreshList, AllServers
  <2>1. UNCHANGED <<diskVars, ctxVars, reports>>
    OBVIOUS
  <2>2. TypeOK'
    OBVIOUS
  <2>3. SeededSoFar' /\ PickerComplete'
    BY DEF SeededSoFar, PickerComplete
  <2>4. OverviewHeld' /\ ListsHeld'
    BY DEF OverviewHeld, ListsHeld
  <2> QED
    BY <2>1, <2>2, <2>3, <2>4, ScreenStep DEF IInv
<1>13. CASE DeleteRaises \/ GiveUpDelete
  <2> USE <1>13 DEF DeleteRaises, GiveUpDelete
  <2>1. UNCHANGED <<diskVars, ctxVars, reports>>
    OBVIOUS
  <2>2. TypeOK'
    OBVIOUS
  <2>3. SeededSoFar' /\ PickerComplete'
    BY DEF SeededSoFar, PickerComplete
  <2>4. OverviewHeld' /\ ListsHeld'
    BY DEF OverviewHeld, ListsHeld
  <2> QED
    BY <2>1, <2>2, <2>3, <2>4, ScreenStep DEF IInv
<1>14. CASE UNCHANGED vars
  <2> USE <1>14 DEF vars
  <2>1. UNCHANGED <<diskVars, ctxVars, reports>>
    OBVIOUS
  <2>2. TypeOK'
    OBVIOUS
  <2>3. SeededSoFar' /\ PickerComplete'
    BY DEF SeededSoFar, PickerComplete
  <2>4. OverviewHeld' /\ ListsHeld'
    BY DEF OverviewHeld, ListsHeld
  <2> QED
    BY <2>1, <2>2, <2>3, <2>4, ScreenStep DEF IInv
<1> QED
  BY <1>1, <1>2, <1>3, <1>4, <1>5, <1>6, <1>7, <1>8, <1>9, <1>10, <1>11, <1>12, <1>13, <1>14 DEF Next

\* The inductive invariant holds in every reachable state.
THEOREM Invariance == Spec => []IInv
<1>1. Init => IInv
  BY InitIInv
<1>2. IInv /\ [Next]_vars => IInv'
  BY NextIInv
<1> QED
  BY <1>1, <1>2, PTL DEF Spec

\* The rows, the servers and the reports keep their types, for all seeds.
THEOREM TypeCorrect == Spec => []TypeOK
<1>1. IInv => TypeOK
  BY DEF IInv
<1> QED
  BY <1>1, Invariance, PTL

\* A server keeps the operating system chosen for it, whichever screen seeded the
\* rows first, whichever saves failed and whenever the app was ended.
THEOREM ChosenSystemKept == Spec => []ResolvesToChosen
<1>1. IInv => ResolvesToChosen
  BY DEF IInv
<1> QED
  BY <1>1, Invariance, PTL

\* The picker of the server form is never short of a row.
THEOREM PickerIsComplete == Spec => []PickerComplete
<1>1. IInv => PickerComplete
  BY DEF IInv
<1> QED
  BY <1>1, Invariance, PTL

\* What the app reported saved or deleted is so on disk, through failed saves,
\* repeated deletions and restarts.
THEOREM ReportsDurable == Spec => []ReportsAreDurable
<1>1. IInv => ReportsAreDurable
  BY DEF IInv, ReportsHold, ReportsAreDurable
<1> QED
  BY <1>1, Invariance, PTL

\* A server leaves the store only after its deletion was confirmed, also when a
\* later save of something else writes a deletion that failed before.
THEOREM DeletionsAsked == Spec => OnlyAskedDeletions
<1> DEFINE A == \A s \in Objects : diskServers[s] # None /\ diskServers'[s] = None => s \in asked'
<1>1. IInv /\ [Next]_vars => [A]_vars
  <2> SUFFICES ASSUME IInv, Next, NEW s \in Objects, diskServers[s] # None, diskServers'[s] = None
               PROVE s \in asked'
    OBVIOUS
  <2>1. ctxServers[s] = None => s \in asked
    BY DEF IInv, PendingAsked
  <2>2. asked \subseteq asked'
    BY DEF Next, Relaunch, OpenOptions, OpenAddForm, OpenEditForm, SeedPresent, SeedMissing,
           SeedDone, PickRow, AddServer, OpenOverview, EditServer, LeaveForm,
           RefreshList, DeleteServer, DeleteRaises, GiveUpDelete, reports
  <2>3. diskServers' = ctxServers'
    BY DEF Next, Relaunch, OpenOptions, OpenAddForm, OpenEditForm, SeedPresent, SeedMissing,
           SeedDone, PickRow, AddServer, OpenOverview, EditServer, LeaveForm,
           RefreshList, DeleteServer, DeleteRaises, GiveUpDelete, SaveSucceeds, SaveFails, diskVars
  <2>4. ctxServers \in [Objects -> ServerRows \cup {None}] /\ None \notin ServerRows
    BY StoreAssumption DEF IInv, TypeOK
  <2>5. screen \in {"add", "edit"} => FormRow \in ServerRows
    BY DEF IInv, TypeOK, PickerComplete, FormRow, ServerRows
  <2>6. CASE DeleteServer
    BY <2>1, <2>2, <2>3, <2>4, <2>6 DEF DeleteServer
  <2>7. CASE EditServer
    BY <2>1, <2>2, <2>3, <2>4, <2>5, <2>7 DEF EditServer
  <2>8. ASSUME NEW t \in Objects, AddServer(t) PROVE s \in asked'
    BY <2>1, <2>2, <2>3, <2>4, <2>5, <2>8 DEF AddServer
  <2>9. CASE SeedMissing
    BY <2>1, <2>2, <2>3, <2>9 DEF SeedMissing
  <2>10. CASE UNCHANGED diskServers
    BY <2>10
  <2> QED
    BY <2>6, <2>7, <2>8, <2>9, <2>10
       DEF Next, Relaunch, OpenOptions, OpenAddForm, OpenEditForm, SeedPresent, SeedDone,
           PickRow, OpenOverview, LeaveForm, RefreshList, DeleteRaises, GiveUpDelete, diskVars
<1> QED
  BY <1>1, Invariance, PTL DEF Spec, OnlyAskedDeletions
=============================================================================
