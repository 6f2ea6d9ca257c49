---------------------------- MODULE ServerStore -----------------------------
(***************************************************************************)
(* The saved servers and operating systems: one Core Data context shared   *)
(* by every screen (AppDelegate.m), two screens that seed the operating    *)
(* systems (OptionsViewController.m, NewServerViewController.m through     *)
(* OperatingSystemDAO.m), and the forms that add, edit and delete servers  *)
(* (NewServerViewController.m, ServerOverviewViewController.m,             *)
(* ServerDAO.m).                                                           *)
(*                                                                         *)
(* A save writes every pending change of the context or, when it fails,    *)
(* none and leaves them all pending.  The app may end at any time and      *)
(* starts again from what was written.                                     *)
(***************************************************************************)
EXTENDS Integers, Sequences

CONSTANTS Objects,         \* the Server objects that may be created
          OptionsSeeds,    \* the operating systems the options tab seeds
          NewServerSeeds,  \* those the server form seeds
          None             \* no row, no object, no server

IDs == 1..Len(OptionsSeeds)

OSNames == {OptionsSeeds[k] : k \in IDs} \cup {NewServerSeeds[k] : k \in IDs}

\* What a stored server keeps of the form: the id of its operating system.
\* The field shown is the name the picker displayed when the form was sent.
ServerRows == [os : IDs, shown : OSNames]

ASSUME StoreAssumption ==
    /\ OptionsSeeds \in Seq(OSNames) /\ NewServerSeeds \in Seq(OSNames)
    /\ Len(OptionsSeeds) = Len(NewServerSeeds) /\ Len(OptionsSeeds) > 0
    /\ None \notin Objects /\ (\A S \in SUBSET Objects : None # S)
    /\ None \notin ServerRows /\ None \notin OSNames

VARIABLES
    diskOS, diskServers,   \* the SQLite store
    ctxOS, ctxServers,     \* the context: the store with the pending changes
    screen,                \* the screen at work
    next,                  \* the id the seeding loop is at
    bottom,                \* the rows of the server list, the bottom of its stack
    pushed,                \* those of the list pushed after a deletion, or None
    overview,              \* the server of the open overview and edit form
    row,                   \* the row of the form's picker
    told,                  \* the last outcome reported for each server
    asked                  \* servers whose deletion the user has confirmed

diskVars == <<diskOS, diskServers>>
ctxVars == <<ctxOS, ctxServers>>
lists == <<bottom, pushed>>
reports == <<told, asked>>
vars == <<diskOS, diskServers, ctxOS, ctxServers, screen, next, bottom, pushed,
          overview, row, told, asked>>

\* "seedOptions", "seedAdd" and "seedEdit" are the loop run by the options tab,
\* the add form and the edit form.
Seeding == {"seedOptions", "seedAdd", "seedEdit"}

TypeOK ==
    /\ diskOS \in [IDs -> OSNames \cup {None}]
    /\ ctxOS \in [IDs -> OSNames \cup {None}]
    /\ diskServers \in [Objects -> ServerRows \cup {None}]
    /\ ctxServers \in [Objects -> ServerRows \cup {None}]
    /\ screen \in Seeding \cup {"tabs", "add", "overview", "deleteFailed", "edit",
                               "crashed", "raised"}
    /\ next \in 1..(Len(OptionsSeeds) + 1)
    /\ bottom \subseteq Objects /\ (pushed = None \/ pushed \subseteq Objects)
    /\ overview \in Objects \cup {None}
    /\ row \in IDs
    /\ told \in [Objects -> {"nothing", "saved", "deleted"}]
    /\ asked \subseteq Objects

Init ==
    /\ diskOS = [k \in IDs |-> None] /\ ctxOS = diskOS
    /\ diskServers = [s \in Objects |-> None] /\ ctxServers = diskServers
    /\ screen = "tabs" /\ next = 1 /\ overview = None /\ row = 1
    /\ bottom = {} /\ pushed = None
    /\ told = [s \in Objects |-> "nothing"]
    /\ asked = {}
-----------------------------------------------------------------------------
\* [managedObjectContext save:], given the changes the action makes.
SaveSucceeds == diskOS' = ctxOS' /\ diskServers' = ctxServers'
SaveFails == UNCHANGED diskVars

\* getAllServers: in a context with these rows.
AllServers(rows) == {s \in Objects : rows[s] # None}

\* The process ends, whoever ends it; the next launch reads the store.
Relaunch ==
    /\ ctxOS' = diskOS /\ ctxServers' = diskServers
    /\ screen' = "tabs" /\ next' = 1 /\ overview' = None /\ row' = 1
    /\ bottom' = AllServers(diskServers) /\ pushed' = None
    /\ UNCHANGED <<diskVars, reports>>

-----------------------------------------------------------------------------
(***************************************************************************)
(* addAllOperatingSystems:, one round of its loop per id.                  *)
(***************************************************************************)
\* A tab loads its view, and runs the loop, once per launch; running it again
\* would find every row.
OpenOptions ==
    /\ screen = "tabs"
    /\ screen' = "seedOptions" /\ next' = 1
    /\ UNCHANGED <<diskVars, ctxVars, lists, overview, row, reports>>

OpenAddForm ==
    /\ screen = "tabs"
    /\ screen' = "seedAdd" /\ next' = 1
    /\ UNCHANGED <<diskVars, ctxVars, lists, overview, row, reports>>

OpenEditForm ==
    /\ screen = "overview"
    /\ screen' = "seedEdit" /\ next' = 1
    /\ UNCHANGED <<diskVars, ctxVars, lists, overview, row, reports>>

SeedsOfScreen == IF screen = "seedOptions" THEN OptionsSeeds ELSE NewServerSeeds

\* Mutant: a row that is there gets the name of this screen's list.
SeedPresentRenames ==
    /\ screen \in Seeding /\ next \in IDs
    /\ ctxOS[next] # None
    /\ ctxOS' = [ctxOS EXCEPT ![next] = SeedsOfScreen[next]]
    /\ next' = next + 1
    /\ UNCHANGED <<diskVars, ctxServers, screen, lists, overview, row, reports>>

\* The fetch finds a row with this id, pending or written.
SeedPresent ==
    /\ screen \in Seeding /\ next \in IDs
    /\ ctxOS[next] # None
    /\ next' = next + 1
    /\ UNCHANGED <<diskVars, ctxVars, screen, lists, overview, row, reports>>

\* Mutant: the row is taken back when the save fails.
SeedMissingRollsBack ==
    /\ screen \in Seeding /\ next \in IDs
    /\ ctxOS[next] = None
    /\ UNCHANGED ctxServers
    /\ \/ ctxOS' = [ctxOS EXCEPT ![next] = SeedsOfScreen[next]] /\ SaveSucceeds
       \/ UNCHANGED ctxOS /\ SaveFails
    /\ next' = next + 1
    /\ UNCHANGED <<screen, lists, overview, row, reports>>

\* It finds none: the row is inserted and the context saved; a failed save is
\* only logged and the row stays pending.
SeedMissing ==
    /\ screen \in Seeding /\ next \in IDs
    /\ ctxOS[next] = None
    /\ ctxOS' = [ctxOS EXCEPT ![next] = SeedsOfScreen[next]]
    /\ UNCHANGED ctxServers
    /\ SaveSucceeds \/ SaveFails
    /\ next' = next + 1
    /\ UNCHANGED <<screen, lists, overview, row, reports>>

\* Mutant: the row after the last one is selected.
EditRowsUnclamped(s) == IF ctxServers[s] = None THEN {1} ELSE {ctxServers[s].os + 1}

\* The row the edit form turns its picker to: row operatingSystemID, counted
\* from 0, which is the row after the server's own; past the last row the
\* picker stays at its first or takes its last one.
EditRows(s) ==
    IF ctxServers[s] = None THEN {1}
    ELSE IF ctxServers[s].os + 1 \in IDs THEN {ctxServers[s].os + 1} ELSE {1, Len(OptionsSeeds)}

SeedDone ==
    /\ screen \in Seeding /\ next \notin IDs
    /\ screen' = CASE screen = "seedOptions" -> "tabs"
                   [] screen = "seedAdd" -> "add"
                   [] screen = "seedEdit" -> "edit"
    /\ IF screen = "seedEdit" THEN row' \in EditRows(overview) ELSE row' = 1
    /\ next' = 1
    /\ UNCHANGED <<diskVars, ctxVars, lists, overview, reports>>
-----------------------------------------------------------------------------
(***************************************************************************)
(* The forms.                                                              *)
(***************************************************************************)
PickRow(r) ==
    /\ screen \in {"add", "edit"}
    /\ row' = r
    /\ UNCHANGED <<diskVars, ctxVars, screen, next, lists, overview, reports>>

\* The stored part of the form: serverOptions[row] gives the id.  The fetch that
\* fills serverOptions names no order; it is taken to return the rows by id.
FormRow == [os |-> row, shown |-> ctxOS[row]]

\* addServerBtnOnClick: the object is inserted before the save.  The form is a
\* tab of its own, without a navigation controller: after a successful save
\* the array literal holding its missing bottom screen raises.
AddServer(s) ==
    /\ screen = "add"
    /\ ctxServers[s] = None /\ diskServers[s] = None /\ told[s] = "nothing"
    /\ ctxServers' = [ctxServers EXCEPT ![s] = FormRow]
    /\ UNCHANGED ctxOS
    /\ \/ /\ SaveSucceeds
          /\ told' = [told EXCEPT ![s] = "saved"]
          /\ screen' = "crashed"
       \/ /\ SaveFails
          /\ UNCHANGED <<told, screen>>
    /\ UNCHANGED <<next, lists, overview, row, asked>>

\* addServerBtnOnClick when editing, which ends at the bottom list.  Setting the
\* fields of an object whose deletion is pending or done changes nothing.
EditServer ==
    /\ screen = "edit"
    /\ ctxServers' = IF ctxServers[overview] = None THEN ctxServers
                     ELSE [ctxServers EXCEPT ![overview] = FormRow]
    /\ UNCHANGED ctxOS
    /\ \/ /\ SaveSucceeds
          /\ told' = [told EXCEPT ![overview] = "saved"]
          /\ screen' = "tabs" /\ pushed' = None /\ overview' = None
       \/ /\ SaveFails
          /\ UNCHANGED <<told, screen, pushed, overview>>
    /\ UNCHANGED <<next, bottom, row, asked>>

\* Mutant: leaving the edit form throws the object away.
LeaveFormDiscards ==
    /\ screen \in {"add", "edit", "overview"}
    /\ screen' = IF screen = "edit" THEN "overview" ELSE "tabs"
    /\ overview' = IF screen = "edit" THEN overview ELSE None
    /\ ctxServers' = IF screen = "edit" THEN [ctxServers EXCEPT ![overview] = None] ELSE ctxServers
    /\ UNCHANGED <<diskVars, ctxOS, next, lists, row, reports>>

LeaveForm ==
    /\ screen \in {"add", "edit", "overview"}
    /\ screen' = IF screen = "edit" THEN "overview" ELSE "tabs"
    /\ overview' = IF screen = "edit" THEN overview ELSE None
    /\ UNCHANGED <<diskVars, ctxVars, next, lists, row, reports>>

\* The rows of the list on top.
ListedServers == IF pushed = None THEN bottom ELSE pushed

\* reloaddata, when the list is pulled down; it shows the same rows until then.
RefreshList ==
    /\ screen = "tabs"
    /\ IF pushed = None THEN bottom' = AllServers(ctxServers) /\ UNCHANGED pushed
                        ELSE pushed' = AllServers(ctxServers) /\ UNCHANGED bottom
    /\ UNCHANGED <<diskVars, ctxVars, screen, next, overview, row, reports>>

\* A row of the server list is tapped; its server may be deleted by now.
OpenOverview(s) ==
    /\ screen = "tabs" /\ s \in ListedServers
    /\ screen' = "overview" /\ overview' = s
    /\ UNCHANGED <<diskVars, ctxVars, next, lists, row, reports>>

\* Mutant: the outcome of the save is not looked at.
DeleteServerUnchecked ==
    /\ screen \in {"overview", "deleteFailed"}
    /\ ctxServers' = [ctxServers EXCEPT ![overview] = None]
    /\ asked' = asked \cup {overview}
    /\ UNCHANGED ctxOS
    /\ SaveSucceeds \/ SaveFails
    /\ told' = [told EXCEPT ![overview] = "deleted"]
    /\ screen' = "tabs" /\ overview' = None
    /\ pushed' = AllServers(ctxServers')
    /\ UNCHANGED <<next, bottom, row>>

\* deleteServer:, confirmed in the overview or tried again after a failure.
\* The first success pushes a new list, without a back button; the repeated one
\* stays at the overview.
DeleteServer ==
    /\ screen \in {"overview", "deleteFailed"}
    /\ ctxServers' = [ctxServers EXCEPT ![overview] = None]
    /\ asked' = asked \cup {overview}
    /\ UNCHANGED ctxOS
    /\ \/ /\ SaveSucceeds
          /\ told' = [told EXCEPT ![overview] = "deleted"]
          /\ IF screen = "overview"
             THEN screen' = "tabs" /\ overview' = None /\ pushed' = AllServers(ctxServers')
             ELSE screen' = "overview" /\ UNCHANGED <<overview, pushed>>
       \/ /\ SaveFails
          /\ screen' = "deleteFailed"
          /\ UNCHANGED <<told, overview, pushed>>
    /\ UNCHANGED <<next, bottom, row>>

\* deleteObject: may raise for an object whose deletion was written: it has no
\* context any more.
DeleteRaises ==
    /\ screen \in {"overview", "deleteFailed"}
    /\ ctxServers[overview] = None /\ diskServers[overview] = None
    /\ screen' = "raised"
    /\ UNCHANGED <<diskVars, ctxVars, next, lists, overview, row, reports>>

GiveUpDelete ==
    /\ screen = "deleteFailed"
    /\ screen' = "overview"
    /\ UNCHANGED <<diskVars, ctxVars, next, lists, overview, row, reports>>

Next ==
    \/ Relaunch
    \/ OpenOptions \/ OpenAddForm \/ OpenEditForm
    \/ SeedPresent \/ SeedMissing \/ SeedDone
    \/ \E r \in IDs : PickRow(r)
    \/ \E s \in Objects : AddServer(s) \/ OpenOverview(s)
    \/ RefreshList \/ EditServer \/ LeaveForm
    \/ DeleteServer \/ DeleteRaises \/ GiveUpDelete

Spec == Init /\ [][Next]_vars
-----------------------------------------------------------------------------
(***************************************************************************)
(* Properties.                                                             *)
(***************************************************************************)
\* getOperatingSystemByOperatingSystemID: in a context with these rows.
Resolve(osRows, server) == osRows[server.os]

\* A server keeps the operating system its user chose: the stored id still
\* resolves to the name the picker displayed, in the context and in the store,
\* whichever screen seeded the rows, whichever saves failed and whenever the
\* app ended.
ResolvesToChosen ==
    \A s \in Objects :
        /\ ctxServers[s] # None => Resolve(ctxOS, ctxServers[s]) = ctxServers[s].shown
        /\ diskServers[s] # None => Resolve(diskOS, diskServers[s]) = diskServers[s].shown

\* The server form never lacks a row: every id has an operating system by the
\* time the picker is filled, so serverOptions[row] is inside the array.
PickerComplete == screen \in {"add", "edit"} => \A k \in IDs : ctxOS[k] # None

\* What the app reported is on disk: a server reported deleted is gone for
\* good, one reported added or updated is there unless its deletion was asked.
ReportsAreDurable ==
    \A s \in Objects :
        /\ told[s] = "deleted" => diskServers[s] = None
        /\ told[s] = "saved" /\ s \notin asked => diskServers[s] # None

\* No server leaves the store unless its user confirmed the deletion.
OnlyAskedDeletions ==
    [][\A s \in Objects : diskServers[s] # None /\ diskServers'[s] = None => s \in asked']_vars
=============================================================================
