--------------------------- MODULE PackageManager ---------------------------
(***************************************************************************)
(* The software screens: a package manager is picked                       *)
(* (SelectPackageManagerLinuxViewController.m), and one of four screens    *)
(* opens, which list the packages installed or available with yum or with  *)
(* apt.  A background block runs the listing over SSH and parses it line   *)
(* by line into the array of the table; the user searches the table, taps  *)
(* a row, and an alert offers what can be done to the package of that row. *)
(*                                                                         *)
(* A listing is a sequence of lines: a package's own line is its name, the *)
(* second line of a wrapped entry is Continued, the line after the last    *)
(* line break is Empty.  Rows and tags count from 1 here and from 0 in the *)
(* code.  A screen is opened again only after the block of the previous    *)
(* one has ended and its overlay has faded.                                *)
(***************************************************************************)
EXTENDS Integers, Sequences, FiniteSets, Functions, Sublists

CONSTANTS Catalog,      \* the packages the repositories know, as listed
          Wrapped,      \* those whose name fills a line of yum's output
          OtherArch,    \* those built neither for x86 nor for every machine
          MaxRemovals   \* bound on the removals confirmed

Packages == Range(Catalog)

\* What the first word of a line that is not a package's may be.
Header == "Installed"
Refusal == "sudo:"
Empty == ""
Continued == " "
Garbled == "name\r"
Prompted == "[sudo] password: name"
Words == Packages \cup {Header, Refusal, Empty, Garbled, Prompted}

ASSUME CatalogAssumption ==
    /\ Catalog \in Seq(Packages)
    /\ \A j, k \in 1..Len(Catalog) : Catalog[j] = Catalog[k] => j = k
    /\ Wrapped \subseteq Packages /\ OtherArch \subseteq Packages
    /\ Packages \cap {Header, Refusal, Empty, Continued, Garbled, Prompted} = {}
    /\ MaxRemovals \in Nat

Managers == {"yum", "apt-get"}
InstalledScreens == {"YumListInstalled", "AptGetListInstalled"}
NewScreens == {"YumInstallNew", "AptGetInstallNew"}
Screens == InstalledScreens \cup NewScreens
YumScreens == {"YumListInstalled", "YumInstallNew"}
NoScreen == "none"

VARIABLES
    sudoer,            \* the account may use sudo on the server
    authorized,        \* [session isConnected] and [session isAuthorized]
    requestPty,        \* of the session's channel: commands run in a terminal
    installed,         \* the packages on the server
    removals,          \* counts the removals confirmed
    screen,            \* the screen that is open
    loader,            \* where its background block is
    lines,             \* the lines the block has still to parse
    daSoftwares, isFiltered, filteredSoftwares,
    selected,          \* the row the table shows as selected, or 0
    laidOut,           \* the table has been laid out
    rows,              \* the row count the table read last
    hud,               \* the progress overlay
    main,              \* what the main thread is doing
    sel                \* the alert of the last tap

serverVars == <<sudoer, authorized, requestPty, installed>>
loadVars == <<loader, lines, hud>>
listVars == <<daSoftwares, isFiltered, filteredSoftwares>>
tableVars == <<selected, laidOut, rows>>
vars == <<serverVars, removals, screen, loadVars, listVars, tableVars, main, sel>>

Verbs == {"update", "remove", "install"}
NoAlert == [tag |-> 1, title |-> Empty, searched |-> FALSE,
            verb |-> "install", name |-> Empty]

TypeOK ==
    /\ sudoer \in BOOLEAN /\ authorized \in BOOLEAN /\ requestPty \in BOOLEAN
    /\ installed \subseteq Packages
    /\ removals \in 0..MaxRemovals
    /\ screen \in Screens \cup {NoScreen}
    /\ loader \in {"start", "list", "parse", "notify", "done"}
    /\ lines \in Seq(Words \cup {Continued})
    /\ daSoftwares \in Seq(Words)
    /\ isFiltered \in BOOLEAN
    /\ filteredSoftwares \in Seq(Words)
    /\ selected \in 0..rows
    /\ laidOut \in BOOLEAN
    /\ rows \in Nat
    /\ hud \in {"off", "on", "fading"}
    /\ main \in {"select", "yum", "apt-get", "idle", "deferred", "alert", "command", "crashed"}
    /\ sel \in [tag : Nat \ {0}, title : Words, searched : BOOLEAN,
                verb : Verbs, name : Words]

\* The package manager list, before any screen is opened; an earlier visit may have
\* turned the terminal on.
Init ==
    /\ sudoer \in BOOLEAN /\ authorized \in BOOLEAN /\ requestPty \in BOOLEAN
    /\ installed \in SUBSET Packages
    /\ removals = 0
    /\ screen = NoScreen
    /\ loader = "done" /\ lines = <<>>
    /\ daSoftwares = <<>> /\ isFiltered = FALSE /\ filteredSoftwares = <<>>
    /\ selected = 0 /\ laidOut = FALSE /\ rows = 0
    /\ hud = "off" /\ main = "select" /\ sel = NoAlert

-----------------------------------------------------------------------------
(***************************************************************************)
(* What the server prints.                                                 *)
(***************************************************************************)
\* The entries of yum's output, each on its line; one whose name fills the line is
\* wrapped.
Entries(listed) ==
    LET both == [j \in 1..(2 * Len(listed)) |->
                    IF j % 2 = 1 THEN listed[(j + 1) \div 2] ELSE Continued]
    IN Sublist(both, {j \in 1..(2 * Len(listed)) : j % 2 = 1 \/ both[j - 1] \in Wrapped})

\* The packages a screen's command lists, of a server with those present.
ToList(present) == IF screen \in InstalledScreens THEN present ELSE Packages

InOrder(S) == Sublist(Catalog, {k \in 1..Len(Catalog) : Catalog[k] \in S})

\* In a terminal, which the yum screens ask for, what sudo says is part of the
\* output: its refusal, or the prompt in front of the first line (which for yum
\* is a header).  dpkg and apt-cache run without one until a yum screen of the
\* session has asked for it.  A sudo that asks for no password prints what it
\* prints without a terminal.
Response(present) ==
    LET listed == InOrder(ToList(present))
        yum == screen \in YumScreens
    IN CASE ~sudoer /\ (yum \/ requestPty) -> <<Refusal, Empty>>
         [] ~sudoer /\ ~(yum \/ requestPty) -> <<Empty>>
         [] sudoer /\ yum -> <<Header, Header>> \o Entries(listed) \o <<Empty>>
         [] sudoer /\ ~yum /\ ~requestPty -> listed \o <<Empty>>
         [] sudoer /\ ~yum /\ requestPty -> [listed \o <<Empty>> EXCEPT ![1] = Prompted]
-----------------------------------------------------------------------------
(***************************************************************************)
(* Parsing.                                                                *)
(***************************************************************************)
\* Mutant: three lines are taken for the banner.
BannerThree == 3

\* The lines the installed-with-yum screen drops unseen when it loads.
Banner == 2

\* The lines without the first empty one, if there is one.
FirstEmpty(l) == {k \in 1..Len(l) : l[k] = Empty /\ \A j \in 1..(k - 1) : l[j] # Empty}
WithoutEmpty(l) == Sublist(l, (1..Len(l)) \ FirstEmpty(l))

\* The lines each screen's loop runs over, or an index out of range.
Parses == screen # "YumListInstalled" \/ Len(WithoutEmpty(Response(installed))) >= 2
Stripped ==
    CASE screen = "YumListInstalled" ->
             LET tmp == WithoutEmpty(Response(installed)) IN SubSeq(tmp, Banner + 1, Len(tmp))
      [] screen = "AptGetInstallNew" -> WithoutEmpty(Response(installed))
      [] OTHER -> Response(installed)

\* Mutant: the line is not split at the blanks.
WordUnsplit(l) == l

\* The first word of a line.
Word(l) == IF l = Continued THEN Empty ELSE l

\* The lines a loop makes no object of; the available-with-yum screen keeps those
\* that contain ".x86" or ".noarch".
Skipped(l) ==
    CASE screen = "YumListInstalled" -> Word(l) = Empty
      [] screen = "YumInstallNew" -> l \notin Packages \ OtherArch
      [] OTHER -> FALSE

\* The available-with-apt screen takes the second part of a line split at " - ",
\* which only the line of a package has.
Splits(l) == screen = "AptGetInstallNew" => l \in Packages \cup {Prompted}

\* updateTableData splits at the bare line feed, so a name alone on its line
\* keeps the carriage return; it drops one line and skips none.
RefreshedRows(present) ==
    LET tmp == WithoutEmpty(Response(present))
        kept == SubSeq(tmp, 2, Len(tmp))
    IN [k \in 1..Len(kept) |-> IF kept[k] \in Wrapped THEN Garbled ELSE Word(kept[k])]
-----------------------------------------------------------------------------
\* The array the table and the alert handler read.
CurrentList == IF isFiltered THEN filteredSoftwares ELSE daSoftwares

\* [tableView reloadData] asks for the rows again and drops the selection.
Reload == rows' = Len(CurrentList)' /\ selected' = 0

Crash == main' = "crashed"

(***************************************************************************)
(* Choosing a package manager and a screen.                                *)
(***************************************************************************)
ChooseManager(pm) ==
    /\ main = "select"
    /\ main' = pm
    /\ UNCHANGED <<serverVars, removals, screen, loadVars, listVars, tableVars, sel>>

ChooseCancelled ==
    /\ main \in Managers
    /\ main' = "select"
    /\ UNCHANGED <<serverVars, removals, screen, loadVars, listVars, tableVars, sel>>

ScreenOf(pm, what) ==
    CASE pm = "yum" /\ what = "new" -> "YumInstallNew"
      [] pm = "yum" /\ what = "installed" -> "YumListInstalled"
      [] pm = "apt-get" /\ what = "new" -> "AptGetInstallNew"
      [] pm = "apt-get" /\ what = "installed" -> "AptGetListInstalled"

\* A new controller is made and pushed.
Open(what) ==
    /\ main \in Managers
    /\ loader = "done" /\ hud = "off"
    /\ screen' = ScreenOf(main, what)
    /\ loader' = "start" /\ lines' = <<>> /\ hud' = "off"
    /\ daSoftwares' = <<>> /\ isFiltered' = FALSE /\ filteredSoftwares' = <<>>
    /\ selected' = 0 /\ laidOut' = FALSE /\ rows' = 0
    /\ main' = "idle" /\ sel' = NoAlert
    /\ UNCHANGED <<serverVars, removals>>

\* The back button; the block of the screen runs on.
Back ==
    /\ main = "idle"
    /\ main' = "select"
    /\ UNCHANGED <<serverVars, removals, screen, loadVars, listVars, tableVars, sel>>
-----------------------------------------------------------------------------
(***************************************************************************)
(* The background block.                                                   *)
(***************************************************************************)
LoadBegin ==
    /\ loader = "start"
    /\ hud' = "on"
    /\ daSoftwares' = <<>>
    /\ isFiltered' = IF screen = "YumInstallNew" THEN FALSE ELSE isFiltered
    /\ loader' = IF authorized THEN "list" ELSE "notify"
    /\ requestPty' = (requestPty \/ (authorized /\ screen \in YumScreens))
    /\ UNCHANGED <<sudoer, authorized, installed, removals, screen, lines, filteredSoftwares, tableVars, main, sel>>

ListFails ==
    /\ loader = "list"
    /\ loader' = "notify"
    /\ UNCHANGED <<serverVars, removals, screen, lines, hud, listVars, tableVars, main, sel>>

ListSucceeds ==
    /\ loader = "list"
    /\ IF Parses
       THEN lines' = Stripped /\ loader' = "parse" /\ UNCHANGED main
       ELSE Crash /\ UNCHANGED <<lines, loader>>
    /\ UNCHANGED <<serverVars, removals, screen, hud, listVars, tableVars, sel>>

ParseLine ==
    /\ loader = "parse"
    /\ IF lines = <<>>
       THEN loader' = "notify" /\ UNCHANGED <<lines, daSoftwares>>
       ELSE /\ Splits(Head(lines))
            /\ daSoftwares' = IF Skipped(Head(lines)) THEN daSoftwares
                              ELSE Append(daSoftwares, Word(Head(lines)))
            /\ lines' = Tail(lines)
            /\ UNCHANGED loader
    /\ UNCHANGED <<serverVars, removals, screen, hud, isFiltered, filteredSoftwares,
                   tableVars, main, sel>>

\* objectAtIndex: out of range.
ParseRaises ==
    /\ loader = "parse" /\ lines # <<>> /\ ~Splits(Head(lines))
    /\ Crash
    /\ UNCHANGED <<serverVars, removals, screen, loadVars, listVars, tableVars, sel>>

\* Mutant: the overlay is left up when nothing was listed.
NotifyKeepsHud ==
    /\ loader = "notify"
    /\ hud' = IF daSoftwares = <<>> THEN hud ELSE "fading"
    /\ loader' = "done"
    /\ UNCHANGED <<serverVars, removals, screen, lines, listVars, laidOut, main, sel>>
    /\ Reload

\* dispatch_group_notify.
Notify ==
    /\ loader = "notify"
    /\ hud' = "fading"
    /\ loader' = "done"
    /\ UNCHANGED <<serverVars, removals, screen, lines, listVars, laidOut, main, sel>>
    /\ Reload

LoaderStep == LoadBegin \/ ListFails \/ ListSucceeds \/ ParseLine \/ ParseRaises \/ Notify

HudFaded ==
    /\ hud = "fading"
    /\ hud' = "off"
    /\ UNCHANGED <<serverVars, removals, screen, loader, lines, listVars, tableVars, main, sel>>
-----------------------------------------------------------------------------
(***************************************************************************)
(* The main thread.                                                        *)
(***************************************************************************)
FirstLayout ==
    /\ main = "idle" /\ ~laidOut
    /\ laidOut' = TRUE
    /\ UNCHANGED <<serverVars, removals, screen, loadVars, listVars, main, sel>>
    /\ Reload

\* A search may be handled before a deferred alert is shown.
Searchable == main \in {"idle", "deferred"} /\ laidOut
Searched == sel' = [sel EXCEPT !.searched = (main = "deferred") \/ sel.searched]

SearchCleared ==
    /\ Searchable
    /\ isFiltered' = FALSE
    /\ Searched
    /\ UNCHANGED <<serverVars, removals, screen, loadVars, daSoftwares, filteredSoftwares,
                   laidOut, main>>
    /\ Reload

Matching(l, M) == Sublist(l, {k \in 1..Len(l) : l[k] \in M})

\* Mutant: the table is not reloaded after a search.
SearchForUnreloaded(M) ==
    /\ Searchable
    /\ isFiltered' = TRUE
    /\ filteredSoftwares' = Matching(daSoftwares, M)
    /\ Searched
    /\ UNCHANGED <<serverVars, removals, screen, loadVars, daSoftwares, tableVars, main>>

\* A text that, of the words listed, those of M contain.
SearchFor(M) ==
    /\ Searchable
    /\ isFiltered' = TRUE
    /\ filteredSoftwares' = Matching(daSoftwares, M)
    /\ Searched
    /\ UNCHANGED <<serverVars, removals, screen, loadVars, daSoftwares, laidOut, main>>
    /\ Reload

\* The alert about row r, which names its package.
AskAbout(r, next) ==
    IF r <= Len(CurrentList)
    THEN main' = next /\ sel' = [NoAlert EXCEPT !.tag = r, !.title = CurrentList[r]]
    ELSE Crash /\ UNCHANGED sel

\* didSelectRowAtIndexPath: of three screens.  The overlay takes the touches.
Tap(r) ==
    /\ main = "idle" /\ laidOut /\ hud = "off"
    /\ screen # "YumInstallNew"
    /\ selected' = r
    /\ AskAbout(r, "alert")
    /\ UNCHANGED <<serverVars, removals, screen, loadVars, listVars, laidOut, rows>>

\* The available-with-yum screen has didDeselectRowAtIndexPath: instead: the first
\* tap asks nothing, the next one asks about the row that loses the selection,
\* and its alert is shown by a later pass of the run loop.
TapDeselecting(r) ==
    /\ main = "idle" /\ laidOut /\ hud = "off"
    /\ screen = "YumInstallNew"
    /\ selected' = r
    /\ IF selected \in {0, r} THEN UNCHANGED <<main, sel>>
       ELSE AskAbout(selected, "deferred")
    /\ UNCHANGED <<serverVars, removals, screen, loadVars, listVars, laidOut, rows>>

ShowDeferred ==
    /\ main = "deferred"
    /\ main' = "alert"
    /\ UNCHANGED <<serverVars, removals, screen, loadVars, listVars, tableVars, sel>>

\* Every answer first reads the row again, by tag.
Cancel ==
    /\ main = "alert"
    /\ IF sel.tag <= Len(CurrentList) THEN main' = "idle" ELSE Crash
    /\ UNCHANGED <<serverVars, removals, screen, loadVars, listVars, tableVars, sel>>

\* The buttons of a screen's alert.
Offers == IF screen \in InstalledScreens THEN {"update", "remove"} ELSE {"install"}

\* Mutant: the handler reads the unfiltered array.
AnsweredUnfiltered == daSoftwares

\* The array the alert handler reads.
Answered == CurrentList

Confirm(verb) ==
    /\ main = "alert"
    /\ verb \in Offers
    /\ verb = "remove" => removals < MaxRemovals
    /\ removals' = IF verb = "remove" THEN removals + 1 ELSE removals
    /\ IF sel.tag <= Len(Answered)
       THEN main' = "command" /\ sel' = [sel EXCEPT !.verb = verb, !.name = Answered[sel.tag]]
       ELSE Crash /\ UNCHANGED sel
    /\ UNCHANGED <<serverVars, screen, loadVars, listVars, tableVars>>

\* What the command does on the server: nothing for a name that is no package
\* or without the right to use sudo, and perhaps nothing at all.
Effect ==
    \/ UNCHANGED installed
    \/ /\ sudoer /\ sel.name \in Packages
       /\ installed' = CASE sel.verb = "remove" -> installed \ {sel.name}
                         [] sel.verb = "install" -> installed \cup {sel.name}
                         [] OTHER -> installed

\* updateTableData: the list is asked for again, in a terminal, and its rows are
\* appended, or the command fails and nothing is.
UpdateTableData ==
    /\ isFiltered' = FALSE
    /\ requestPty' = (requestPty \/ authorized)
    /\ \/ UNCHANGED daSoftwares
       \/ authorized /\ daSoftwares' = daSoftwares \o RefreshedRows(installed')
    /\ UNCHANGED <<filteredSoftwares, laidOut>>
    /\ Reload

\* The command returns, with or without an error of the channel; the removal
\* of an installed package with yum refreshes the table in both cases, an
\* installation with yum reloads it if there was no error.
CommandReturns ==
    /\ main = "command"
    /\ Effect
    /\ main' = "idle"
    /\ UNCHANGED <<sudoer, authorized, removals, screen, loadVars, sel>>
    /\ IF screen = "YumListInstalled" /\ sel.verb = "remove"
       THEN UpdateTableData
       ELSE /\ UNCHANGED <<requestPty, listVars, laidOut>>
            /\ \/ UNCHANGED <<selected, rows>>
               \/ screen = "YumInstallNew" /\ Reload

User ==
    \/ \E pm \in Managers : ChooseManager(pm)
    \/ ChooseCancelled
    \/ \E what \in {"new", "installed"} : Open(what)
    \/ Back
    \/ FirstLayout
    \/ SearchCleared
    \/ \E M \in SUBSET Range(daSoftwares) : SearchFor(M)
    \/ \E r \in 1..rows : Tap(r) \/ TapDeselecting(r)
    \/ Cancel
    \/ \E verb \in Verbs : Confirm(verb)

MainStep == ShowDeferred \/ CommandReturns

Next == main # "crashed" /\ (LoaderStep \/ HudFaded \/ MainStep \/ User)

Spec == Init /\ [][Next]_vars

Fairness ==
    /\ WF_vars(main # "crashed" /\ LoaderStep)
    /\ WF_vars(main # "crashed" /\ HudFaded)
    /\ WF_vars(main # "crashed" /\ MainStep)

FairSpec == Spec /\ Fairness
-----------------------------------------------------------------------------
(***************************************************************************)
(* Properties.                                                             *)
(***************************************************************************)
\* A command is sent for the package the alert named, though the handler looks
\* the row up again in the array of the moment; a search that slips in before a
\* deferred alert is shown is the one exception.
CommandNamesAlertedPackage ==
    main = "command" /\ ~sel.searched => sel.name = sel.title

\* The table never offers or draws a row outside its array, while the block
\* fills the array, resets the filter and reloads the table from another thread.
RowsInRange == main # "crashed" => rows <= Len(CurrentList)

\* The packages that have a line a screen keeps.
Shown(present) == IF screen = "YumInstallNew" THEN Packages \ OtherArch ELSE ToList(present)

\* Once a listing has been loaded, every package it is about is a row of the
\* unfiltered table, whatever is searched, removed or refreshed afterwards, but
\* for those of other architectures among the available with yum, and for the
\* listings of apt in a terminal, whose first line is not a package's.
ListedPackagesStay ==
    (/\ main # "crashed" /\ loader = "done" /\ screen # NoScreen
     /\ sudoer /\ daSoftwares # <<>>
     /\ screen \in YumScreens \/ ~requestPty)
    => Shown(installed) \subseteq Range(daSoftwares)

\* The overlay of an opened screen goes away, whatever the listing answers.
LoadSettles ==
    hud = "on" ~> ((loader = "done" /\ hud = "off") \/ main = "crashed")
=============================================================================
